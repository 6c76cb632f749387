------------------------------ MODULE CallStack ------------------------------
(***************************************************************************)
(* What a program that calls through remo endpoints relies on: calls nest; *)
(* a call is answered by the function it called, gets exactly that answer, *)
(* once, after all calls that the function itself made are over, or fails. *)
(***************************************************************************)
EXTENDS Naturals, Sequences

CONSTANTS Calls,     \* what can be called, with arguments
          Answers    \* what functions return

VARIABLES pending,   \* the calls under way, the innermost last
          outcome    \* how the last call that is over ended

vars == <<pending, outcome>>

Failed == [ok |-> FALSE]
Answered(a) == [ok |-> TRUE, answer |-> a]

Init == pending = <<>> /\ outcome = Failed

Innermost == pending[Len(pending)]
Unanswered == pending # <<>> => ~Innermost.ended.ok

Begin(c) ==
    /\ Unanswered
    /\ pending' = Append(pending, [call |-> c, ended |-> Failed])
    /\ UNCHANGED outcome

Answer(a) ==
    /\ pending # <<>> /\ Unanswered
    /\ pending' = [pending EXCEPT ![Len(pending)].ended = Answered(a)]
    /\ UNCHANGED outcome

Deliver ==
    /\ pending # <<>> /\ Innermost.ended.ok
    /\ outcome' = Innermost.ended
    /\ pending' = SubSeq(pending, 1, Len(pending) - 1)

\* A call that is refused at once, and one whose function failed.
Refuse == Unanswered /\ outcome' = Failed /\ UNCHANGED pending
Fail ==
    /\ pending # <<>> /\ Unanswered
    /\ outcome' = Failed
    /\ pending' = SubSeq(pending, 1, Len(pending) - 1)

Next ==
    \/ \E c \in Calls : Begin(c)
    \/ \E a \in Answers : Answer(a)
    \/ Deliver
    \/ Refuse
    \/ Fail

Spec == Init /\ [][Next]_vars
=============================================================================
