-------------------------- MODULE ActiveObjectProofs --------------------------
(* Safety of ActiveObject for any number of threads and any bound on the calls:
   no lost wake-up, every call in front of the first request to stop is run, on the
   object's own thread, and the object implements SerialCalls (its safety part). *)
EXTENDS ActiveObject, TLAPS

\* Places of the object's thread between two items of the queue.
Between == {"none", "register", "startup", "enter", "run", "get", "wait", "running"}

\* Its places after the loop, and those of the owner in the constructor.
AfterLoop == {"shutdown", "unregister", "leave", "terminated"}
Constructing == {"new", "start", "assign"}

\* Up to the first request to stop the items are calls, so the i-th call run is the
\* i-th item; the item just taken is one ahead of them, and stays so after a stop.
Progress ==
    /\ \A i \in 1..Len(ran) : ran[i] = i /\ log[i]
    /\ wpc \in Between /\ ~stop => taken = Len(ran)
    /\ wpc = "call" => taken = Len(ran) + 1 /\ ~stop
    /\ stop => /\ wpc \in {"run"} \cup AfterLoop
               /\ taken = Len(ran) + 1 /\ log[taken] = FALSE

Ends ==
    /\ wpc \in AfterLoop => stop
    /\ opc \in {"joined", "done"} => wpc = "terminated"

\* Nothing is put before the constructor is through.
Starts ==
    /\ opc \in Constructing => log = <<>> /\ ~derived
    /\ opc \in {"new", "start"} <=> wpc = "none"
    /\ wpc \in {"call", "running"} => opc \notin Constructing

\* The members of Worker at each place of the owner and of the thread.
Members ==
    /\ m_thread <=> opc \notin Constructing \cup {"joined", "done"}
    /\ s_workers <=> wpc \in {"startup", "enter", "run", "get", "wait", "call",
                              "running", "shutdown", "unregister"}
    /\ wpc \in {"run", "get", "wait", "call", "running"} => m_thread_state = "running"
    /\ opc = "done" => m_thread_state = "joined"

Inv == TypeOK /\ NoLostWakeup /\ Progress /\ Ends /\ Starts /\ Members

-----------------------------------------------------------------------------
\* What Append does to a sequence.
LEMMA AppendFacts ==
    ASSUME NEW S, NEW s \in Seq(S), NEW x \in S
    PROVE  /\ Append(s, x) \in Seq(S)
           /\ Len(Append(s, x)) = Len(s) + 1
           /\ \A i \in 1..Len(s) : Append(s, x)[i] = s[i]
           /\ Append(s, x)[Len(s) + 1] = x
    OBVIOUS

LEMMA InitInv == Init => Inv
<1> SUFFICES ASSUME Init PROVE Inv
    OBVIOUS
<1> USE DEF Init
<1>1. <<>> \in Seq(BOOLEAN) /\ <<>> \in Seq(Nat) /\ Len(log) = 0 /\ Len(ran) = 0
    OBVIOUS
<1>2. TypeOK
  <2>1. log \in Seq(BOOLEAN) /\ ran \in Seq(Nat)
    BY <1>1
  <2>2. taken \in 0..Len(log)
    BY <1>1
  <2>3. upc \in [Thread -> {"idle", "notify"}]
    OBVIOUS
  <2>4. QED
    BY <2>1, <2>2, <2>3 DEF TypeOK, ThreadState
<1>3. NoLostWakeup /\ Ends /\ Starts /\ Members
    BY DEF NoLostWakeup, Ends, AfterLoop, Starts, Members, Constructing
<1>4. \A i \in 1..Len(ran) : ran[i] = i /\ log[i]
  <2>1. 1..0 = {}
    OBVIOUS
  <2>2. QED
    BY <1>1, <2>1
<1>5. Progress
    BY <1>1, <1>4 DEF Progress, Between
<1>6. QED
    BY <1>2, <1>3, <1>5 DEF Inv

\* Putting an item behind the others changes nothing that Progress speaks about.
LEMMA PushKeeps ==
    ASSUME TypeOK, Progress, Ends, NEW item \in BOOLEAN, Push(item),
           UNCHANGED <<taken, stop, ran>>, UNCHANGED wpc
    PROVE  /\ log' \in Seq(BOOLEAN) /\ taken' \in 0..Len(log')
           /\ Progress'
<1>1. /\ log' \in Seq(BOOLEAN)
      /\ Len(log') = Len(log) + 1
      /\ \A i \in 1..Len(log) : log'[i] = log[i]
    BY AppendFacts DEF TypeOK, Push
<1>2. Len(log) \in Nat /\ Len(ran) \in Nat /\ taken \in 0..Len(log)
    BY DEF TypeOK
<1>3. taken' \in 0..Len(log')
    BY <1>1, <1>2
<1>4. Len(ran) <= taken
  <2>1. CASE wpc = "call" \/ stop
      BY <1>2, <2>1 DEF Progress
  <2>2. CASE wpc \in Between /\ ~stop
      BY <1>2, <2>2 DEF Progress
  <2>3. wpc \in AfterLoop => stop
      BY DEF Ends
  <2>4. QED
      BY <2>1, <2>2, <2>3 DEF TypeOK, Between, AfterLoop
<1>5. Progress'
  <2>1. \A i \in 1..Len(ran) : ran[i] = i /\ log'[i]
    BY <1>1, <1>2, <1>4 DEF Progress
  <2>2. stop => log'[taken] = FALSE
    BY <1>1, <1>2 DEF Progress
  <2>3. QED
    BY <2>1, <2>2 DEF Progress
<1>6. QED
    BY <1>1, <1>3, <1>5

\* Steps that only wake the thread.
LEMMA WakeKeeps ==
    ASSUME Inv, WakeUp, UNCHANGED <<log, taken, stop, ran>>
    PROVE  wpc' # "wait" /\ Progress' /\ wpc' \in {wpc, "get"} /\ (wpc' # wpc => ~stop)
<1>1. stop => wpc # "wait"
    BY DEF Inv, Progress, AfterLoop
<1>2. wpc' = IF wpc = "wait" THEN "get" ELSE wpc
    BY DEF WakeUp
<1>3. Progress'
    BY <1>1, <1>2 DEF Inv, Progress, Between
<1>4. QED
    BY <1>1, <1>2, <1>3

LEMMA StepInv == Inv /\ [Next]_vars => Inv'
<1> SUFFICES ASSUME Inv, [Next]_vars PROVE Inv'
    OBVIOUS
<1> USE DEF Inv
<1>1. ASSUME NEW t \in Thread, Enqueue(t) PROVE Inv'
  <2>1. log' \in Seq(BOOLEAN) /\ taken' \in 0..Len(log') /\ Progress'
      BY <1>1, PushKeeps DEF Enqueue
  <2>2. TypeOK' /\ Ends'
      BY <1>1, <2>1 DEF Enqueue, TypeOK, Ends, base
  <2>5. Starts' /\ Members'
      BY <1>1 DEF Enqueue, Starts, Members, base
  <2>3. upc'[t] = "notify"
      BY <1>1 DEF Enqueue, TypeOK
  <2>4. QED
      BY <2>1, <2>2, <2>3, <2>5 DEF NoLostWakeup
<1>2. CASE Shutdown \/ DestructorShutdown
  <2>1. log' \in Seq(BOOLEAN) /\ taken' \in 0..Len(log') /\ Progress'
      BY <1>2, PushKeeps DEF Shutdown, DestructorShutdown
  <2>2. TypeOK' /\ Ends'
      BY <1>2, <2>1 DEF Shutdown, DestructorShutdown, TypeOK, Ends, base
  <2>5. Starts' /\ Members'
    <3>1. /\ opc \in {"using", "destroy"} /\ opc' = "notify"
          /\ UNCHANGED <<wpc, m_thread_state, m_thread, s_workers>>
      BY <1>2 DEF Shutdown, DestructorShutdown, base
    <3>2. Starts'
      BY <3>1 DEF Starts, Constructing
    <3>3. m_thread' /\ Members'
      BY <3>1 DEF Members, Constructing, TypeOK
    <3>4. QED
      BY <3>2, <3>3
  <2>3. opc' = "notify"
      BY <1>2 DEF Shutdown, DestructorShutdown
  <2>4. QED
      BY <2>1, <2>2, <2>3, <2>5 DEF NoLostWakeup
<1>3. CASE CallEnqueues
  <2>1. log' \in Seq(BOOLEAN) /\ taken' \in 0..Len(log') /\ Progress'
      BY <1>3, PushKeeps DEF CallEnqueues
  <2>2. Starts' /\ Members'
      BY <1>3 DEF CallEnqueues, Starts, Members, base
  <2>3. QED
      BY <1>3, <2>1, <2>2 DEF CallEnqueues, TypeOK, Ends, NoLostWakeup, base
<1>4. ASSUME NEW t \in Thread, EnqueueNotify(t) PROVE Inv'
  <2>1. wpc' # "wait" /\ Progress' /\ wpc' \in {wpc, "get"} /\ (wpc' # wpc => ~stop)
      BY <1>4, WakeKeeps DEF EnqueueNotify
  <2>2. TypeOK'
      BY <1>4, <2>1 DEF EnqueueNotify, TypeOK, base
  <2>3. Ends'
      BY <1>4 DEF EnqueueNotify, WakeUp, Ends, AfterLoop
  <2>5. Starts' /\ Members'
      BY <1>4 DEF EnqueueNotify, WakeUp, Starts, Members, Constructing, base
  <2>4. QED
      BY <2>1, <2>2, <2>3, <2>5 DEF NoLostWakeup
<1>5. CASE ShutdownNotify
  <2>1. wpc' # "wait" /\ Progress' /\ wpc' \in {wpc, "get"} /\ (wpc' # wpc => ~stop)
      BY <1>5, WakeKeeps DEF ShutdownNotify
  <2>2. TypeOK'
      BY <1>5, <2>1 DEF ShutdownNotify, TypeOK, base
  <2>3. Ends'
      BY <1>5 DEF ShutdownNotify, WakeUp, Ends, AfterLoop
  <2>5. Starts' /\ Members'
      BY <1>5 DEF ShutdownNotify, WakeUp, Starts, Members, Constructing, base
  <2>4. QED
      BY <2>1, <2>2, <2>3, <2>5 DEF NoLostWakeup
<1>6. CASE Destroy
    BY <1>6 DEF Destroy, TypeOK, NoLostWakeup, QueueEmpty, Progress, Between, Ends,
       AfterLoop, Starts, Members, Constructing, base
<1>7. CASE Join \/ EnterJoined
  <2> USE <1>7 DEF Join, EnterJoined, ThreadState
  <2>1. TypeOK' /\ NoLostWakeup'
      BY DEF TypeOK, NoLostWakeup, QueueEmpty, Starts
  <2>2. Progress' /\ Ends'
      BY DEF TypeOK, Progress, Between, Ends, AfterLoop, Starts, Constructing
  <2>3. Starts'
      BY DEF TypeOK, Starts, Constructing
  <2>4. Members'
      BY DEF TypeOK, Ends, AfterLoop, Starts, Members, Constructing
  <2>5. QED
      BY <2>1, <2>2, <2>3, <2>4
<1>8. CASE Run
    BY <1>8 DEF Run, TypeOK, NoLostWakeup, QueueEmpty, Progress, Between, Ends,
       AfterLoop, Starts, Members, Constructing, base
<1>15. CASE Startup \/ StartThread \/ AssignThread
  <2> USE <1>15 DEF Startup, StartThread, AssignThread, base, ThreadState
  <2>1. TypeOK' /\ NoLostWakeup'
      BY DEF TypeOK, NoLostWakeup, QueueEmpty, Starts
  <2>2. Progress' /\ Ends'
      BY DEF TypeOK, Progress, Between, Ends, AfterLoop, Starts, Constructing
  <2>3. Starts'
      BY DEF TypeOK, Starts, Constructing
  <2>4. Members'
      BY DEF TypeOK, Ends, AfterLoop, Starts, Members, Constructing
  <2>5. QED
      BY <2>1, <2>2, <2>3, <2>4
<1>16. CASE AroundLoop
  <2> USE <1>16 DEF AroundLoop, Register, enter_thread_state, ThreadState
  <2>1. TypeOK' /\ NoLostWakeup'
    <3>1. s_workers' \in BOOLEAN
        BY DEF TypeOK
    <3>2. TypeOK'
        BY <3>1 DEF TypeOK
    <3>3. NoLostWakeup'
        BY DEF NoLostWakeup
    <3>4. QED
        BY <3>2, <3>3
  <2>2. Progress' /\ Ends'
    <3>1. /\ \/ /\ wpc \in {"register", "startup", "enter"}
                /\ wpc' \in {"startup", "enter", "run"}
             \/ wpc \in AfterLoop \ {"terminated"} /\ wpc' \in AfterLoop
          /\ UNCHANGED <<log, taken, opc, stop, ran>>
        BY DEF AfterLoop
    <3> HIDE DEF AroundLoop, Register, enter_thread_state
    <3>2. Ends'
        BY <3>1 DEF Ends, AfterLoop
    <3>3. Progress'
        BY <3>1 DEF Progress, Between, Ends, AfterLoop
    <3>4. QED
        BY <3>2, <3>3
  <2>3. Starts'
      BY DEF TypeOK, Starts, Constructing
  <2>4. Members'
      BY DEF TypeOK, Ends, AfterLoop, Starts, Members, Constructing
  <2>5. QED
      BY <2>1, <2>2, <2>3, <2>4
<1>9. CASE Get
  <2>1. Len(log) \in Nat /\ taken \in 0..Len(log)
      BY DEF TypeOK
  <2>2. TypeOK' /\ Ends'
      BY <1>9, <2>1 DEF Get, QueueEmpty, TypeOK, Ends, AfterLoop, base
  <2>7. Starts' /\ Members'
    <3>1. log = <<>> => QueueEmpty
        BY <2>1 DEF QueueEmpty
    <3>2. QED
        BY <1>9, <3>1 DEF Get, Starts, Members, Constructing, base
  <2>3. NoLostWakeup'
      BY <1>9 DEF Get, QueueEmpty, NoLostWakeup
  <2>4. ~stop /\ taken = Len(ran)
      BY <1>9 DEF Get, Progress, Between, AfterLoop
  <2>5. Progress'
      BY <1>9, <2>4 DEF Get, Progress, Between
  <2>6. QED
      BY <2>2, <2>3, <2>5, <2>7
<1>10. CASE WakeSpurious
    BY <1>10 DEF WakeSpurious, TypeOK, NoLostWakeup, QueueEmpty, Progress, Between, Ends,
       AfterLoop, Starts, Members, Constructing, base
<1>11. CASE Execute
  <2>1. taken \in Nat /\ taken = Len(ran) + 1 /\ ~stop
      BY <1>11 DEF Execute, TypeOK, Progress
  <2>2. /\ ran' \in Seq(Nat)
        /\ Len(ran') = Len(ran) + 1
        /\ \A i \in 1..Len(ran) : ran'[i] = ran[i]
        /\ ran'[Len(ran) + 1] = taken
      BY <1>11, <2>1, AppendFacts DEF Execute, TypeOK
  <2>3. TypeOK' /\ Ends' /\ NoLostWakeup'
      BY <1>11, <2>2 DEF Execute, TypeOK, Ends, AfterLoop, NoLostWakeup, base
  <2>7. Starts' /\ Members'
      BY <1>11 DEF Execute, Starts, Members, base
  <2>4. \A i \in 1..Len(ran') : ran'[i] = i /\ log'[i]
    <3>1. Len(ran) \in Nat
        BY DEF TypeOK
    <3>2. SUFFICES ASSUME NEW i \in 1..Len(ran') PROVE ran'[i] = i /\ log[i]
        BY <1>11 DEF Execute
    <3>3. CASE i \in 1..Len(ran)
        BY <3>3, <2>2 DEF Progress
    <3>4. CASE i = Len(ran) + 1
        BY <3>4, <2>1, <2>2, <1>11 DEF Execute
    <3>5. QED
        BY <3>1, <3>2, <3>3, <3>4, <2>2
  <2>5. Progress'
      BY <1>11, <2>1, <2>2, <2>4 DEF Execute, Progress, Between
  <2>6. QED
      BY <2>3, <2>5, <2>7
<1>12. CASE CallEnds
    BY <1>12 DEF CallEnds, TypeOK, NoLostWakeup, QueueEmpty, Progress, Between, Ends,
       AfterLoop, Starts, Members, Constructing, base
<1>13. CASE Terminate
  <2>1. taken = Len(ran) + 1
      BY <1>13 DEF Terminate, Progress
  <2>2. log[taken] = FALSE
      BY <1>13, <2>1 DEF Terminate, TypeOK
  <2>3. TypeOK' /\ Ends' /\ NoLostWakeup'
      BY <1>13 DEF Terminate, TypeOK, Ends, AfterLoop, NoLostWakeup, base
  <2>6. Starts' /\ Members'
      BY <1>13 DEF Terminate, Starts, Members, base
  <2>4. Progress'
      BY <1>13, <2>1, <2>2 DEF Terminate, Progress, Between
  <2>5. QED
      BY <2>3, <2>4, <2>6
<1>14. CASE UNCHANGED vars
    BY <1>14 DEF vars, TypeOK, NoLostWakeup, QueueEmpty, Progress, Between, Ends,
       AfterLoop, Starts, Members, Constructing, base
<1>17. QED
    BY <1>1, <1>2, <1>3, <1>4, <1>5, <1>6, <1>7, <1>8, <1>9, <1>10, <1>11, <1>12,
       <1>13, <1>14, <1>15, <1>16 DEF Next, InCall, Worker

-----------------------------------------------------------------------------
\* The invariant, type correctness among its conjuncts.
THEOREM ActiveInvariant == Spec => []Inv
    BY InitInv, StepInv, PTL DEF Spec

\* The object's thread never sleeps while a call waits and nobody is about to notify.
THEOREM NoWakeupLost == Spec => []NoLostWakeup
<1>1. Inv => NoLostWakeup
    BY DEF Inv
<1>2. QED
    BY <1>1, ActiveInvariant, PTL

\* A call runs on the thread of its object, which is_self() and actual() recognise, in
\* state running; ~Worker's assertion holds and the registry forgets the object.
THEOREM CallsOnOwnThread == Spec => []WorkerSound
<1>1. Inv => WorkerSound
    BY DEF Inv, Ends, Starts, Members, WorkerSound, is_self, actual, Constructing
<1>2. QED
    BY <1>1, ActiveInvariant, PTL

\* When ~ActiveObject returns, the calls that were run are those in front of the first
\* request to stop.
THEOREM CallsRunBeforeStop == Spec => []AllRunBeforeStop
<1>1. Inv => AllRunBeforeStop
  <2> SUFFICES ASSUME Inv, opc = "done", NEW k \in 1..Len(log)
               PROVE  (\A s \in Sentinels : k < s) <=> \E i \in 1..Len(ran) : ran[i] = k
      BY DEF AllRunBeforeStop
  <2>1. /\ \A i \in 1..Len(ran) : ran[i] = i /\ log[i]
        /\ taken = Len(ran) + 1 /\ log[taken] = FALSE
      BY DEF Inv, Ends, AfterLoop, Progress
  <2>2. Len(ran) \in Nat /\ Len(log) \in Nat /\ taken \in 0..Len(log)
      BY DEF Inv, TypeOK
  <2>3. taken \in Sentinels
      BY <2>1, <2>2 DEF Sentinels
  <2>4. ASSUME \A s \in Sentinels : k < s PROVE \E i \in 1..Len(ran) : ran[i] = k
    <3>1. k \in 1..Len(ran)
        BY <2>1, <2>2, <2>3, <2>4
    <3>2. QED
        BY <3>1, <2>1
  <2>5. ASSUME NEW i \in 1..Len(ran), ran[i] = k, NEW s \in Sentinels PROVE k < s
    <3>1. k = i /\ s \in 1..Len(log) /\ ~log[s]
        BY <2>1, <2>5 DEF Sentinels
    <3>2. ~(s \in 1..Len(ran))
        BY <3>1, <2>1
    <3>3. QED
        BY <3>1, <3>2, <2>2
  <2>6. QED
      BY <2>4, <2>5
<1>2. QED
    BY <1>1, ActiveInvariant, PTL

\* Every step of the object is a step of SerialCalls or leaves its variables alone.
THEOREM KeepsPromise == Spec => Serial!Spec
<1>1. Init => Serial!Init
    BY DEF Init, Serial!Init
<1>2. Inv /\ [Next]_vars => [Serial!Next]_(Serial!vars)
  <2> SUFFICES ASSUME Inv, [Next]_vars PROVE [Serial!Next]_(Serial!vars)
      OBVIOUS
  <2>1. CASE Execute
    <3>1. /\ taken = Len(ran) + 1 /\ log[taken]
          /\ \A i \in 1..Len(ran) : log[i]
          /\ ran' = Append(ran, taken) /\ log' = log
        BY <2>1 DEF Execute, Inv, Progress
    <3>2. Len(ran) \in Nat /\ Len(log) \in Nat /\ taken \in 0..Len(log)
        BY DEF Inv, TypeOK
    <3>3. \A i \in 1..(Len(ran) + 1) : log[i]
        BY <3>1, <3>2
    <3>4. Serial!RunNext
        BY <3>1, <3>2, <3>3 DEF Serial!RunNext
    <3>5. QED
        BY <3>4 DEF Serial!Next
  <2>2. ASSUME NEW item \in BOOLEAN, Push(item), ran' = ran
        PROVE  [Serial!Next]_(Serial!vars)
      BY <2>2 DEF Push, Serial!Next, Serial!Hand
  <2>3. CASE (\E t \in Thread : Enqueue(t)) \/ CallEnqueues \/ Shutdown \/ DestructorShutdown
      BY <2>2, <2>3 DEF Enqueue, CallEnqueues, Shutdown, DestructorShutdown
  <2>4. CASE UNCHANGED <<log, ran>>
      BY <2>4 DEF Serial!vars
  <2>5. QED
      BY <2>1, <2>3, <2>4 DEF Next, InCall, Worker, vars, EnqueueNotify, ShutdownNotify,
         Destroy, Join, EnterJoined, Startup, StartThread, AssignThread, AroundLoop, Register,
         enter_thread_state, Run, Get, WakeSpurious, CallEnds, Terminate
<1>3. QED
    BY <1>1, <1>2, ActiveInvariant, PTL DEF Spec, Serial!Spec
=============================================================================
