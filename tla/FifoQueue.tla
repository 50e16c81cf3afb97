----------------------------- MODULE FifoQueue -----------------------------
(***************************************************************************)
(* What async/AsyncQueue.js promises its users: the n-th call of dequeue() *)
(* returns a promise of the value of the n-th call of enqueue(), whichever *)
(* of the two calls comes first.                                           *)
(***************************************************************************)
EXTENDS Naturals, Sequences

CONSTANTS Values, Pending

VARIABLES
    sent,      \* the values of all enqueue() calls, in order
    answers    \* what the promise of each dequeue() call holds, in order

fifoVars == <<sent, answers>>

FifoInit == sent = <<>> /\ answers = <<>>

Put(v) ==
    /\ sent' = Append(sent, v)
    /\ answers' = IF Len(sent) < Len(answers)
                  THEN [answers EXCEPT ![Len(sent) + 1] = v]
                  ELSE answers

Take ==
    /\ UNCHANGED sent
    /\ answers' = Append(answers, IF Len(answers) < Len(sent)
                                  THEN sent[Len(answers) + 1]
                                  ELSE Pending)

FifoNext == Take \/ \E v \in Values : Put(v)

FifoSpec == FifoInit /\ [][FifoNext]_fifoVars
=============================================================================
