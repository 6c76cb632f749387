-------------------------------- MODULE Timer --------------------------------
(***************************************************************************)
(* Timers and their thread: classes Timer and TimerThread                  *)
(* (src/src/utils/timer.cpp), with the loop of Worker::run that calls      *)
(* TimerThread::action.                                                    *)
(*                                                                         *)
(* The thread holds the recursive mutex TimerThread::m_lock except while   *)
(* it waits on m_cv; it scans the list for the earliest timer, waits for   *)
(* its trigger time and calls its callback with the mutex held.  add() and *)
(* remove() change the list under the mutex, set m_cancel and notify after *)
(* the mutex is released.  Timer::reset only takes the timer's own lock,   *)
(* so it runs at any moment, and does not wake the thread.                 *)
(*                                                                         *)
(* Times are relative to the clock: left[t] is the time left until t's     *)
(* trigger time, negative when that has passed, at least -MaxLag (a bound: *)
(* triggers that lie further back are not told apart).                     *)
(***************************************************************************)
EXTENDS Integers, Sequences

CONSTANTS
    Timers,     \* the timers
    Thread,     \* application threads that use them
    Interval,   \* Interval[t]: m_interval
    MaxLag,     \* bound on how far back a trigger time is remembered
    MaxOps,     \* bound on the calls of the application in a run
    NULL        \* no timer

ASSUME TimerAssumption ==
    /\ NULL \notin Timers
    /\ Interval \in [Timers -> Nat]
    /\ MaxLag \in Nat /\ MaxOps \in Nat

VARIABLES
    m_timers,  \* the list of timers
    left,      \* m_trigger_time of each timer
    m_cancel,  \* the wait is to be left
    stop,      \* m_termination_requested
    wpc,       \* timer thread: its place
    timer,     \* its local variable `timer'
    wleft,     \* its local variable `trigger_time'
    cursor,    \* list position get_next_timer has reached
    raced,     \* history: the timer chosen was reset before the wait for it
    upc,       \* upc[u]: place of application thread u
    target,    \* target[u]: the timer its call is about
    opc,       \* the thread that destroys the TimerThread
    ops        \* calls made so far

workerVars == <<stop, wpc, timer, wleft, cursor, raced>>
userVars == <<upc, target, opc, ops>>
vars == <<m_timers, left, m_cancel, workerVars, userVars>>

INSTANCE LinkedList WITH Items <- Timers

list == InOrder(m_timers)
Listed(t) == contains(m_timers, t)

\* The timer thread holds m_lock.
Locked == wpc \in {"loop", "scan", "arm", "check", "reset", "notify"}

Rearm(t) == left' = [left EXCEPT ![t] = Interval[t]]

-----------------------------------------------------------------------------
Init ==
    /\ m_timers = EmptyList
    /\ left = [t \in Timers |-> 0]
    /\ m_cancel = FALSE /\ stop = FALSE
    /\ wpc = "run" /\ timer = NULL /\ wleft = 0 /\ cursor = 0 /\ raced = FALSE
    /\ upc = [u \in Thread |-> "idle"]
    /\ target = [u \in Thread |-> NULL]
    /\ opc = "using" /\ ops = 0

-----------------------------------------------------------------------------
(* The application. *)

\* Frames the start of a call: threads call one at a time until the destructor.
Call(u) == /\ opc = "using" /\ upc[u] = "idle" /\ ops < MaxOps
           /\ ops' = ops + 1

\* Timer::reset only takes the timer's own lock: it may come while the thread
\* still compares, or between its choice and its wait.
SetBack(t) == /\ Rearm(t)
              /\ raced' = (raced \/ (wpc \in {"scan", "arm"} /\ timer = t))
              /\ UNCHANGED <<stop, wpc, timer, wleft, cursor>>

\* Timer::reset.
Reset(u, t) ==
    /\ Call(u)
    /\ SetBack(t)
    /\ UNCHANGED <<m_timers, m_cancel, upc, target, opc>>

\* Timer::restart (and the constructor): reset, then TimerThread::add.
Restart(u, t) ==
    /\ Call(u)
    /\ SetBack(t)
    /\ upc' = [upc EXCEPT ![u] = "add"]
    /\ target' = [target EXCEPT ![u] = t]
    /\ UNCHANGED <<m_timers, m_cancel, opc>>

\* Mutations of Add: the thread is not told to leave its wait; it is, but not
\* notified.
Add_NoCancel(u) ==
    /\ upc[u] = "add" /\ ~Locked
    /\ m_timers' = IF Listed(target[u]) THEN m_timers ELSE push_back(m_timers, target[u])
    /\ upc' = [upc EXCEPT ![u] = "idle"]
    /\ UNCHANGED <<left, m_cancel, workerVars, target, opc, ops>>

Add_NotNotified(u) ==
    /\ upc[u] = "add" /\ ~Locked
    /\ upc' = [upc EXCEPT ![u] = "idle"]
    /\ IF Listed(target[u])
       THEN UNCHANGED <<m_timers, m_cancel>>
       ELSE m_timers' = push_back(m_timers, target[u]) /\ m_cancel' = TRUE
    /\ UNCHANGED <<left, workerVars, target, opc, ops>>

\* TimerThread::add: nothing to do for a timer that is in the list.
Add(u) ==
    /\ upc[u] = "add" /\ ~Locked
    /\ IF Listed(target[u])
       THEN /\ upc' = [upc EXCEPT ![u] = "idle"]
            /\ UNCHANGED <<m_timers, m_cancel>>
       ELSE /\ m_timers' = push_back(m_timers, target[u])
            /\ m_cancel' = TRUE
            /\ upc' = [upc EXCEPT ![u] = "notify"]
    /\ UNCHANGED <<left, workerVars, target, opc, ops>>

\* Mutation of Cancel: the list is changed without the mutex.
Cancel_Unlocked(u, t) ==
    /\ Call(u)
    /\ IF Listed(t)
       THEN /\ m_timers' = remove(m_timers, t)
            /\ m_cancel' = TRUE
            /\ upc' = [upc EXCEPT ![u] = "notify"]
       ELSE UNCHANGED <<m_timers, m_cancel, upc>>
    /\ UNCHANGED <<left, workerVars, target, opc>>

\* Timer::cancel (and the destructor): TimerThread::remove waits for the mutex,
\* hence for a callback that is running.
Cancel(u, t) ==
    /\ Call(u) /\ ~Locked
    /\ IF Listed(t)
       THEN /\ m_timers' = remove(m_timers, t)
            /\ m_cancel' = TRUE
            /\ upc' = [upc EXCEPT ![u] = "notify"]
       ELSE UNCHANGED <<m_timers, m_cancel, upc>>
    /\ UNCHANGED <<left, workerVars, target, opc>>

\* m_cv.notify_all wakes the thread if it waits.
WakeUp == wpc' = IF wpc = "wait" THEN "woken" ELSE wpc

Notify(u) ==
    /\ upc[u] = "notify"
    /\ WakeUp
    /\ upc' = [upc EXCEPT ![u] = "idle"]
    /\ UNCHANGED <<m_timers, left, m_cancel, stop, timer, wleft, cursor, raced, target, opc, ops>>

-----------------------------------------------------------------------------
(* ~TimerThread, after all calls have returned: shutdown() and join(). *)

ShutdownFlag ==
    /\ opc = "using" /\ \A u \in Thread : upc[u] = "idle"
    /\ stop' = TRUE
    /\ opc' = "cancel"
    /\ UNCHANGED <<m_timers, left, m_cancel, wpc, timer, wleft, cursor, raced, upc, target, ops>>

\* Mutation of ShutdownCancel: shutdown relies on notify_all alone.
ShutdownCancel_Dropped ==
    /\ opc = "cancel" /\ ~Locked
    /\ opc' = "notify"
    /\ UNCHANGED <<m_timers, left, m_cancel, workerVars, upc, target, ops>>

ShutdownCancel ==
    /\ opc = "cancel" /\ ~Locked
    /\ m_cancel' = TRUE
    /\ opc' = "notify"
    /\ UNCHANGED <<m_timers, left, workerVars, upc, target, ops>>

ShutdownNotify ==
    /\ opc = "notify"
    /\ WakeUp
    /\ opc' = "join"
    /\ UNCHANGED <<m_timers, left, m_cancel, stop, timer, wleft, cursor, raced, upc, target, ops>>

Join ==
    /\ opc = "join" /\ wpc = "terminated"
    /\ opc' = "done"
    /\ UNCHANGED <<m_timers, left, m_cancel, workerVars, upc, target, ops>>

-----------------------------------------------------------------------------
(* The timer thread. *)

\* Worker::run tests the flag; action() takes the mutex.
Run ==
    /\ wpc = "run"
    /\ wpc' = IF stop THEN "terminated" ELSE "loop"
    /\ UNCHANGED <<m_timers, left, m_cancel, stop, timer, wleft, cursor, raced, userVars>>

\* The while loop of action(): leave it when m_cancel is set, wait without a
\* deadline when there is no timer, else start the scan of get_next_timer.
Loop ==
    /\ wpc = "loop"
    /\ IF m_cancel
       THEN /\ m_cancel' = FALSE /\ wpc' = "run"
            /\ UNCHANGED <<timer, wleft, cursor>>
       ELSE /\ m_cancel' = m_cancel
            /\ IF m_timers.count = 0
               THEN wpc' = "wait" /\ timer' = NULL /\ wleft' = 0 /\ cursor' = 0
               ELSE /\ wpc' = "scan" /\ timer' = m_timers.first
                    /\ wleft' = left[m_timers.first] /\ cursor' = 1
    /\ raced' = FALSE
    /\ UNCHANGED <<m_timers, left, stop, userVars>>

\* Mutation of Scan: the comparison is the other way round.
Scan_Latest ==
    /\ wpc = "scan"
    /\ IF cursor > Len(list)
       THEN wpc' = "arm" /\ cursor' = 0 /\ UNCHANGED <<timer, wleft>>
       ELSE /\ cursor' = cursor + 1
            /\ wpc' = wpc
            /\ IF left[list[cursor]] > wleft
               THEN timer' = list[cursor] /\ wleft' = left[list[cursor]]
               ELSE UNCHANGED <<timer, wleft>>
    /\ UNCHANGED <<m_timers, left, m_cancel, stop, raced, userVars>>

\* One iteration of get_next_timer: each trigger time is read on its own.
Scan ==
    /\ wpc = "scan"
    /\ IF cursor > Len(list)
       THEN wpc' = "arm" /\ cursor' = 0 /\ UNCHANGED <<timer, wleft>>
       ELSE /\ cursor' = cursor + 1
            /\ wpc' = wpc
            /\ IF left[list[cursor]] < wleft
               THEN timer' = list[cursor] /\ wleft' = left[list[cursor]]
               ELSE UNCHANGED <<timer, wleft>>
    /\ UNCHANGED <<m_timers, left, m_cancel, stop, raced, userVars>>

\* Mutation of Arm: the timer is pushed back without being removed first.
Arm_NotRemoved ==
    /\ wpc = "arm"
    /\ m_timers' = push_back(m_timers, timer)
    /\ wleft' = left[timer]
    /\ wpc' = "wait"
    /\ UNCHANGED <<left, m_cancel, stop, timer, cursor, raced, userVars>>

\* Move the timer to the back, read its trigger time once more and wait for it,
\* which releases the mutex.
Arm ==
    /\ wpc = "arm"
    /\ m_timers' = move_to_back(m_timers, timer)
    /\ wleft' = left[timer]
    /\ wpc' = "wait"
    /\ UNCHANGED <<left, m_cancel, stop, timer, cursor, raced, userVars>>

\* wait_until returns cv_status::timeout, or any other way (notified or for no
\* reason); then it takes the mutex again.
WakeTimeout ==
    /\ wpc = "wait" /\ timer # NULL /\ wleft <= 0
    /\ wpc' = "timeout"
    /\ UNCHANGED <<m_timers, left, m_cancel, stop, timer, wleft, cursor, raced, userVars>>

WakeSpurious ==
    /\ wpc = "wait"
    /\ wpc' = "woken"
    /\ UNCHANGED <<m_timers, left, m_cancel, stop, timer, wleft, cursor, raced, userVars>>

Woken ==
    /\ wpc = "woken"
    /\ wpc' = "loop"
    /\ UNCHANGED <<m_timers, left, m_cancel, stop, timer, wleft, cursor, raced, userVars>>

\* "check if timer was neither removed nor reset in the meantime".
Check ==
    /\ wpc = "timeout"
    /\ wpc' = IF m_timers.last = timer /\ left[timer] = wleft
              THEN "reset" ELSE "loop"
    /\ UNCHANGED <<m_timers, left, m_cancel, stop, timer, wleft, cursor, raced, userVars>>

\* Mutation of FireReset: the timer is not put off before it fires.
FireReset_Skipped ==
    /\ wpc = "reset"
    /\ wpc' = "notify"
    /\ UNCHANGED <<m_timers, left, m_cancel, stop, timer, wleft, cursor, raced, userVars>>

FireReset ==
    /\ wpc = "reset"
    /\ Rearm(timer)
    /\ wpc' = "notify"
    /\ UNCHANGED <<m_timers, m_cancel, stop, timer, wleft, cursor, raced, userVars>>

\* The callback runs with the mutex held; it may cancel a timer, its own or
\* another one.  If it throws, action() is left with m_cancel as it is and run()
\* goes on.
FireNotify(cancelled) ==
    /\ wpc = "notify"
    /\ \/ /\ \A t \in cancelled : ~Listed(t)
          /\ UNCHANGED <<m_timers, m_cancel>>
       \/ \E t \in cancelled : /\ Listed(t)
                               /\ m_timers' = remove(m_timers, t)
                               /\ m_cancel' = TRUE
    /\ wpc' \in {"loop", "run"}
    /\ UNCHANGED <<left, stop, timer, wleft, cursor, raced, userVars>>

-----------------------------------------------------------------------------
\* Time passes.
Older(n) == IF n > -MaxLag THEN n - 1 ELSE n
Tick == /\ left' = [t \in Timers |-> Older(left[t])]
        /\ wleft' = Older(wleft)
        /\ UNCHANGED <<m_timers, m_cancel, stop, wpc, timer, cursor, raced, userVars>>

Action == \/ Run \/ Loop \/ Scan \/ Arm \/ Woken \/ Check \/ FireReset
          \/ FireNotify({}) \/ \E t \in Timers : FireNotify({t})

InCall == \/ \E u \in Thread : Add(u) \/ Notify(u)
          \/ ShutdownCancel \/ ShutdownNotify \/ Join

Next == \/ \E u \in Thread, t \in Timers : Reset(u, t) \/ Restart(u, t) \/ Cancel(u, t)
        \/ InCall \/ ShutdownFlag
        \/ Action \/ WakeTimeout \/ WakeSpurious
        \/ Tick

Spec == Init /\ [][Next]_vars

\* The thread and the calls of the application run, time passes, and waits for
\* a trigger time that has passed do time out, however often one of them is left
\* in another way.
FairSpec == /\ Spec
            /\ WF_vars(Action) /\ WF_vars(InCall) /\ WF_vars(Tick)
            /\ \A t \in Timers : SF_vars(WakeTimeout /\ timer = t)

-----------------------------------------------------------------------------
TypeOK ==
    /\ m_timers.count \in Nat /\ m_timers.listed \subseteq Timers
    /\ left \in [Timers -> Int]
    /\ m_cancel \in BOOLEAN /\ stop \in BOOLEAN
    /\ wpc \in {"run", "loop", "scan", "arm", "wait", "woken", "timeout", "reset",
                "notify", "terminated"}
    /\ timer \in Timers \cup {NULL}
    /\ wleft \in Int /\ cursor \in Nat /\ raced \in BOOLEAN
    /\ upc \in [Thread -> {"idle", "add", "notify"}]
    /\ target \in [Thread -> Timers \cup {NULL}]
    /\ opc \in {"using", "cancel", "notify", "join", "done"}
    /\ ops \in 0..MaxOps

\* A callback only runs for a timer that is in the list: once cancel() (or the
\* destructor) has returned, the timer does not fire, and one that was removed and
\* whose memory was used again is not mistaken for the old one.
FiresOnlyListed == wpc \in {"reset", "notify"} => Listed(timer)

\* Followed forwards and backwards the links pass through the same timers, each
\* once, and timers outside of the list point nowhere; and the timer the thread
\* acts on stays in the list while it holds the mutex (BaseList, get_next_timer).
ListSound ==
    /\ Represents(m_timers, list)
    /\ wpc \in {"scan", "arm"} => Listed(timer)

\* When the callback runs the timer has been put off to a later time than the one
\* it fires for: one trigger time never fires twice, not even from within a slow
\* callback.
RearmedBeforeCallback ==
    wpc = "notify" /\ wleft > -MaxLag => left[timer] >= wleft + Interval[timer]

\* A callback runs for a timer that still exists and that has been put off, whatever
\* other threads and callbacks did during the wait.
FiresSound == FiresOnlyListed /\ RearmedBeforeCallback

\* A wait is never left without effect: whoever changed the list or asked for
\* termination either has still to notify or has left m_cancel for the thread.
NoLostWakeup ==
    wpc = "wait" /\ m_cancel =>
        opc = "notify" \/ \E u \in Thread : upc[u] = "notify"

\* While the thread waits for a trigger time no timer in the list is due before it,
\* unless the timer it chose was reset after the choice; timers that are added or
\* cancelled meanwhile, and callbacks, make no difference (get_next_timer).
EarliestUnlessReset ==
    wpc = "wait" /\ timer # NULL /\ ~m_cancel /\ ~raced =>
        \A t \in Timers : Listed(t) => left[t] >= wleft

\* ~TimerThread returns.
ShutdownCompletes == opc = "join" ~> opc = "done"

\* A timer that is due fires, unless it is reset or cancelled or the thread stops.
DueFires ==
    \A t \in Timers :
        Listed(t) /\ left[t] <= 0
            ~> (wpc = "notify" /\ timer = t) \/ left[t] > 0 \/ ~Listed(t) \/ stop

-----------------------------------------------------------------------------
(* Claims of the sources that the code does not keep. *)

\* timer.cpp, "check if timer was neither removed nor reset in the meantime ...
\* still good -> fire it": no reset comes between the last check and the callback.
NotResetBeforeFire ==
    [][\A u \in Thread, t \in Timers :
          Reset(u, t) \/ Restart(u, t) => ~(wpc \in {"reset", "notify"} /\ timer = t)]_vars

\* timer.h, "returns the timer with the earliest trigger time": while the thread
\* waits for a trigger time no timer in the list is due before it.
WaitsForEarliest ==
    wpc = "wait" /\ timer # NULL /\ ~m_cancel =>
        \A t \in Timers : Listed(t) => left[t] >= wleft
=============================================================================
