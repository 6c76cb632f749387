----------------------------- MODULE ActiveObject -----------------------------
(***************************************************************************)
(* Active objects: ActiveObject and ActiveQueue (src/src/utils/active.cpp  *)
(* and active.h) on top of Worker::run.  Threads put deferred calls into a *)
(* queue; the object's own thread takes them out and runs them.  An empty   *)
(* call is the request to stop.                                            *)
(*                                                                         *)
(* put() pushes under the mutex and notifies after releasing it; get()     *)
(* tests the queue and waits atomically with respect to the mutex, so each *)
(* critical section is one step.  The members of Worker are written by the *)
(* owner, in the constructor and in join(), and by the thread in between;  *)
(* each write is a step.                                                   *)
(***************************************************************************)
EXTENDS Naturals, Sequences

CONSTANTS
    Thread,    \* threads that call enqueue()
    MaxPuts    \* bound on the calls enqueued in a run

ASSUME ActiveAssumption == MaxPuts \in Nat

VARIABLES
    log,     \* everything ever put: TRUE for a call, FALSE for the empty call
    taken,   \* items get() has removed; the queue is the rest of log
    upc,     \* upc[t]: "idle" or "notify", inside put() after the push
    opc,     \* the owner: the steps of ActiveObject(), "using", then the steps
             \* of shutdown() and ~ActiveObject
    derived, \* the derived class, whose members the calls use, still exists
    wpc,     \* the object's thread
    stop,    \* m_termination_requested
    ran,     \* positions in log of the calls that were run, in order
    m_thread_state,
    m_thread,        \* m_thread holds the thread, so that is_self() recognises it
    s_workers        \* the registry has the thread, so that actual() finds the object

base == <<m_thread_state, m_thread, s_workers>>
vars == <<log, taken, upc, opc, derived, wpc, stop, ran, base>>

ThreadState == {"idle", "starting", "startup", "running", "shutdown", "terminated",
                "joined"}

\* What the object's thread gets from Worker::is_self, and whether Worker::actual gives
\* it the object.
is_self == m_thread
actual  == s_workers

QueueEmpty == taken = Len(log)
Sentinels == {i \in 1..Len(log) : ~log[i]}

-----------------------------------------------------------------------------
Init ==
    /\ log = <<>> /\ taken = 0
    /\ upc = [t \in Thread |-> "idle"]
    /\ opc = "new" /\ derived = FALSE
    /\ wpc = "none" /\ stop = FALSE
    /\ ran = <<>>
    /\ m_thread_state = "idle" /\ m_thread = FALSE /\ s_workers = FALSE

\* ActiveObject() calls Worker::startup: the state, then the thread, which runs
\* at once, then m_thread; the derived class is constructed after that.
Startup ==
    /\ opc = "new"
    /\ m_thread_state' = "starting"
    /\ opc' = "start"
    /\ UNCHANGED <<log, taken, upc, derived, wpc, stop, ran, m_thread, s_workers>>

StartThread ==
    /\ opc = "start"
    /\ wpc' = "register"
    /\ opc' = "assign"
    /\ UNCHANGED <<log, taken, upc, derived, stop, ran, base>>

\* Mutation of AssignThread: the state is entered when the thread has been started.
AssignThread_EntersState ==
    /\ opc = "assign"
    /\ m_thread' = TRUE /\ derived' = TRUE
    /\ m_thread_state' = "starting"
    /\ opc' = "using"
    /\ UNCHANGED <<log, taken, upc, wpc, stop, ran, s_workers>>

AssignThread ==
    /\ opc = "assign"
    /\ m_thread' = TRUE /\ derived' = TRUE
    /\ opc' = "using"
    /\ UNCHANGED <<log, taken, upc, wpc, stop, ran, m_thread_state, s_workers>>

\* ActiveQueue::put, the part under the mutex.
Push(item) == log' = Append(log, item)

\* notify_one wakes the object's thread if it waits; nobody else ever does.
WakeUp == wpc' = IF wpc = "wait" THEN "get" ELSE wpc

\* ActiveObject::enqueue; nobody may use an object that is being destroyed.
Enqueue(t) ==
    /\ upc[t] = "idle" /\ derived /\ Len(log) < MaxPuts
    /\ Push(TRUE)
    /\ upc' = [upc EXCEPT ![t] = "notify"]
    /\ UNCHANGED <<taken, opc, derived, wpc, stop, ran, base>>

\* Mutation of EnqueueNotify: the waiting thread is not notified.
EnqueueNotify_Dropped(t) ==
    /\ upc[t] = "notify"
    /\ upc' = [upc EXCEPT ![t] = "idle"]
    /\ UNCHANGED <<log, taken, opc, derived, wpc, stop, ran, base>>

EnqueueNotify(t) ==
    /\ upc[t] = "notify"
    /\ WakeUp
    /\ upc' = [upc EXCEPT ![t] = "idle"]
    /\ UNCHANGED <<log, taken, opc, derived, stop, ran, base>>

\* ActiveObject::shutdown, called by itself: put(), then notify.
Shutdown ==
    /\ opc = "using" /\ Len(log) < MaxPuts
    /\ Push(FALSE)
    /\ opc' = "notify"
    /\ UNCHANGED <<taken, upc, derived, wpc, stop, ran, base>>

\* Mutation of DestructorShutdown: the termination flag is set at once, as
\* Worker::shutdown does.
DestructorShutdown_SetsFlag ==
    /\ opc = "destroy"
    /\ Push(FALSE)
    /\ stop' = TRUE
    /\ opc' = "notify"
    /\ UNCHANGED <<taken, upc, derived, wpc, ran, base>>

\* The destructor of the derived class runs first, then ~ActiveObject calls
\* shutdown() and join().
Destroy ==
    /\ opc = "using" /\ \A t \in Thread : upc[t] = "idle"
    /\ derived' = FALSE
    /\ opc' = "destroy"
    /\ UNCHANGED <<log, taken, upc, wpc, stop, ran, base>>

DestructorShutdown ==
    /\ opc = "destroy"
    /\ Push(FALSE)
    /\ opc' = "notify"
    /\ UNCHANGED <<taken, upc, derived, wpc, stop, ran, base>>

ShutdownNotify ==
    /\ opc = "notify"
    /\ WakeUp
    /\ opc' = IF derived THEN "using" ELSE "join"
    /\ UNCHANGED <<log, taken, upc, derived, stop, ran, base>>

\* Worker::join, and the state it leaves.
Join ==
    /\ opc = "join" /\ wpc = "terminated"
    /\ m_thread' = FALSE
    /\ opc' = "joined"
    /\ UNCHANGED <<log, taken, upc, derived, wpc, stop, ran, m_thread_state, s_workers>>

EnterJoined ==
    /\ opc = "joined"
    /\ m_thread_state' = "joined"
    /\ opc' = "done"
    /\ UNCHANGED <<log, taken, upc, derived, wpc, stop, ran, m_thread, s_workers>>

-----------------------------------------------------------------------------
(* The object's thread. *)

\* enter_thread_state, which leads from one place of run() to another.
enter_thread_state(place, state, next) ==
    /\ wpc = place
    /\ m_thread_state' = state
    /\ wpc' = next
    /\ UNCHANGED <<log, taken, upc, opc, derived, stop, ran, m_thread, s_workers>>

\* register_thread and unregister_thread.
Register(place, known, next) ==
    /\ wpc = place
    /\ s_workers' = known
    /\ wpc' = next
    /\ UNCHANGED <<log, taken, upc, opc, derived, stop, ran, m_thread_state, m_thread>>

\* Worker::run around its loop; do_startup() and do_shutdown() are empty here.
AroundLoop ==
    \/ Register("register", TRUE, "startup")
    \/ enter_thread_state("startup", "startup", "enter")
    \/ enter_thread_state("enter", "running", "run")
    \/ enter_thread_state("shutdown", "shutdown", "unregister")
    \/ Register("unregister", FALSE, "leave")
    \/ enter_thread_state("leave", "terminated", "terminated")

\* Worker::run tests the flag and calls action(), which calls get().
Run ==
    /\ wpc = "run"
    /\ wpc' = IF stop THEN "shutdown" ELSE "get"
    /\ UNCHANGED <<log, taken, upc, opc, derived, stop, ran, base>>

\* Mutation of Get: the item is not removed from the queue.
Get_NotPopped ==
    /\ wpc = "get"
    /\ IF QueueEmpty THEN wpc' = "wait" /\ taken' = taken
                     ELSE wpc' = "call" /\ taken' = IF taken = 0 THEN 1 ELSE taken
    /\ UNCHANGED <<log, upc, opc, derived, stop, ran, base>>

\* ActiveQueue::get under the mutex: wait while the queue is empty, else take
\* the first item.
Get ==
    /\ wpc = "get"
    /\ IF QueueEmpty THEN wpc' = "wait" /\ taken' = taken
                     ELSE wpc' = "call" /\ taken' = taken + 1
    /\ UNCHANGED <<log, upc, opc, derived, stop, ran, base>>

\* A wait may end for no reason; the loop in get() tests the queue again.
WakeSpurious ==
    /\ wpc = "wait"
    /\ wpc' = "get"
    /\ UNCHANGED <<log, taken, upc, opc, derived, stop, ran, base>>

\* action(): the call is run.
Execute ==
    /\ wpc = "call" /\ log[taken]
    /\ ran' = Append(ran, taken)
    /\ wpc' = "running"
    /\ UNCHANGED <<log, taken, upc, opc, derived, stop, base>>

\* The call may enqueue another one, and returns or throws, which run() catches.
CallEnqueues ==
    /\ wpc = "running" /\ Len(log) < MaxPuts
    /\ Push(TRUE)
    /\ UNCHANGED <<taken, upc, opc, derived, wpc, stop, ran, base>>

CallEnds ==
    /\ wpc = "running"
    /\ wpc' = "run"
    /\ UNCHANGED <<log, taken, upc, opc, derived, stop, ran, base>>

\* Mutation of Terminate: the empty call is dropped.
Terminate_Dropped ==
    /\ wpc = "call" /\ ~log[taken]
    /\ wpc' = "run"
    /\ UNCHANGED <<log, taken, upc, opc, derived, stop, ran, base>>

\* action(): the empty call terminates the thread.
Terminate ==
    /\ wpc = "call" /\ ~log[taken]
    /\ stop' = TRUE
    /\ wpc' = "run"
    /\ UNCHANGED <<log, taken, upc, opc, derived, ran, base>>

-----------------------------------------------------------------------------
Worker == AroundLoop \/ Run \/ Get \/ Execute \/ CallEnds \/ Terminate

InCall == \/ \E t \in Thread : EnqueueNotify(t)
          \/ Startup \/ StartThread \/ AssignThread
          \/ DestructorShutdown \/ ShutdownNotify \/ Join \/ EnterJoined

Next == \/ \E t \in Thread : Enqueue(t)
        \/ Shutdown \/ Destroy \/ InCall
        \/ Worker \/ CallEnqueues \/ WakeSpurious

Spec == Init /\ [][Next]_vars

\* The object's thread and calls that have begun run on; nobody has to call.
FairSpec == Spec /\ WF_vars(Worker) /\ WF_vars(InCall)

-----------------------------------------------------------------------------
TypeOK ==
    /\ log \in Seq(BOOLEAN) /\ taken \in 0..Len(log)
    /\ upc \in [Thread -> {"idle", "notify"}]
    /\ opc \in {"new", "start", "assign", "using", "notify", "destroy", "join", "joined",
                "done"}
    /\ derived \in BOOLEAN /\ stop \in BOOLEAN
    /\ wpc \in {"none", "register", "startup", "enter", "run", "get", "wait", "call",
                "running", "shutdown", "unregister", "leave", "terminated"}
    /\ ran \in Seq(Nat)
    /\ m_thread_state \in ThreadState
    /\ m_thread \in BOOLEAN /\ s_workers \in BOOLEAN

\* A call finds itself on the thread of its object (active.test.cpp:31: is_self()),
\* registered and running, although the thread starts before m_thread is assigned and
\* two threads write the state; and when the destructor has returned ~Worker
\* finds the state it asserts and the registry no pointer to the object.
WorkerSound ==
    /\ wpc = "running" => is_self /\ actual /\ m_thread_state = "running"
    /\ opc = "done" => m_thread_state = "joined" /\ ~s_workers

\* The thread does not sleep on a queue that has something in it, unless whoever
\* put it there has still to notify: put() notifies after it released the mutex.
NoLostWakeup ==
    wpc = "wait" /\ ~QueueEmpty => opc = "notify" \/ \E t \in Thread : upc[t] = "notify"

\* When the destructor has joined the thread every call put before the first
\* request to stop has been run, and none that was put after it.
AllRunBeforeStop ==
    opc = "done" =>
        \A k \in 1..Len(log) :
            LET before == \A s \in Sentinels : k < s
            IN  before <=> \E i \in 1..Len(ran) : ran[i] = k

\* The destructor returns.
DestructorReturns == opc \in {"destroy", "join"} ~> opc = "done"

\* The object keeps the promise of SerialCalls: calls are run in the order in which
\* they were put, each once, and every call in front of a request to stop is run.
Serial == INSTANCE SerialCalls

ImplementsSerialCalls == Serial!FairSpec

-----------------------------------------------------------------------------
(* A claim of the sources that the code does not keep. *)

\* active.test.cpp: the call made before the object is destroyed runs as a member of
\* the derived class; so that class must still exist when the call runs.
RunsOnWholeObject == [][Execute => derived]_vars
=============================================================================
