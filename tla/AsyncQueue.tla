----------------------------- MODULE AsyncQueue -----------------------------
(***************************************************************************)
(* async/AsyncQueue.js: a queue whose consumers may come before the        *)
(* values.  An entry is a promise and its resolver, made by whichever of   *)
(* enqueue() and dequeue() finds the array it needs empty; the two halves  *)
(* then leave their arrays independently.  Entry number e is the e-th one  *)
(* that _createEntry() made.                                               *)
(*                                                                         *)
(* A name such as Enqueue_NewestFirst, defined just before the operator it *)
(* is named after, is that operator with a bug: the properties are tried   *)
(* out on it.                                                              *)
(***************************************************************************)
EXTENDS Naturals, Sequences

CONSTANTS
    Values,
    Pending,       \* what a promise holds until it is resolved
    MaxCalls       \* bound on the calls of enqueue() and of dequeue()

ASSUME PendingAssumption == Pending \notin Values
ASSUME MaxCallsAssumption == MaxCalls \in Nat

VARIABLES
    promises,      \* this.promises: entry numbers
    resolvers,     \* this.resolvers: entry numbers
    value,         \* what the promise of each entry holds
    taken          \* the entries whose promises dequeue() returned, in order

queueVars == <<promises, resolvers, value, taken>>

\* The arrays of AsyncQueue name only entries that _createEntry() has made: no
\* resolver is called and no promise returned that does not exist.
TypeOK ==
    /\ promises \in Seq(1..Len(value))
    /\ resolvers \in Seq(1..Len(value))
    /\ value \in Seq(Values \cup {Pending})
    /\ taken \in Seq(1..Len(value))

Init ==
    /\ promises = <<>>
    /\ resolvers = <<>>
    /\ value = <<>>
    /\ taken = <<>>

NewEntry == Len(value) + 1

\* isEmpty()
IsEmpty_NoConsumer == resolvers = <<>>
IsEmpty == promises = <<>>

\* enqueue(): resolve the oldest resolver, or a new entry's own.
Enqueue_NewestFirst(v) ==
    \/ /\ resolvers = <<>>
       /\ promises' = Append(promises, NewEntry)
       /\ value' = Append(value, v)
       /\ UNCHANGED <<resolvers, taken>>
    \/ /\ resolvers # <<>>
       /\ resolvers' = SubSeq(resolvers, 1, Len(resolvers) - 1)
       /\ value' = [value EXCEPT ![resolvers[Len(resolvers)]] = v]
       /\ UNCHANGED <<promises, taken>>
Enqueue_KeepsResolver(v) ==
    \/ /\ resolvers = <<>>
       /\ promises' = Append(promises, NewEntry)
       /\ resolvers' = <<NewEntry>>
       /\ value' = Append(value, v)
       /\ UNCHANGED taken
    \/ /\ resolvers # <<>>
       /\ resolvers' = Tail(resolvers)
       /\ value' = [value EXCEPT ![Head(resolvers)] = v]
       /\ UNCHANGED <<promises, taken>>
Enqueue(v) ==
    \/ /\ resolvers = <<>>
       /\ promises' = Append(promises, NewEntry)
       /\ value' = Append(value, v)
       /\ UNCHANGED <<resolvers, taken>>
    \/ /\ resolvers # <<>>
       /\ resolvers' = Tail(resolvers)
       /\ value' = [value EXCEPT ![Head(resolvers)] = v]
       /\ UNCHANGED <<promises, taken>>

\* dequeue(): hand out the oldest promise, or a new entry's own.
Dequeue_NoPromise ==
    \/ /\ promises = <<>>
       /\ resolvers' = Append(resolvers, NewEntry)
       /\ taken' = Append(taken, NewEntry)
       /\ UNCHANGED <<promises, value>>
    \/ /\ promises # <<>>
       /\ promises' = Tail(promises)
       /\ taken' = Append(taken, Head(promises))
       /\ UNCHANGED <<resolvers, value>>
Dequeue ==
    \/ /\ promises = <<>>
       /\ resolvers' = Append(resolvers, NewEntry)
       /\ value' = Append(value, Pending)
       /\ taken' = Append(taken, NewEntry)
       /\ UNCHANGED promises
    \/ /\ promises # <<>>
       /\ promises' = Tail(promises)
       /\ taken' = Append(taken, Head(promises))
       /\ UNCHANGED <<resolvers, value>>

\* The number of enqueue() calls so far: every other entry is unresolved.
EnqueueCalls == Len(value) - Len(resolvers)

Next ==
    \/ EnqueueCalls < MaxCalls /\ \E v \in Values : Enqueue(v)
    \/ Len(taken) < MaxCalls /\ Dequeue

Spec == Init /\ [][Next]_queueVars

-----------------------------------------------------------------------------
(* Properties *)

\* Values and consumers never wait for each other at the same time: either no
\* unclaimed promise or no unresolved resolver is left in the queue.
NeverBothWaiting == promises = <<>> \/ resolvers = <<>>

\* isEmpty() tells exactly whether a dequeue() would have to wait: it is false
\* iff some resolved promise has not been handed out.
IsEmptyExact ==
    IsEmpty <=> \A e \in 1..Len(value) :
                    value[e] = Pending \/ \E i \in 1..Len(taken) : taken[i] = e

\* The queue as FifoQueue sees it: the resolved entries in order, and what the
\* promises handed out hold.
Sent == SubSeq(value, 1, EnqueueCalls)
Answers == [i \in 1..Len(taken) |-> value[taken[i]]]

Fifo == INSTANCE FifoQueue WITH sent <- Sent, answers <- Answers

\* The n-th dequeue() is answered with the n-th enqueued value, once and for
\* all: AsyncQueue implements FifoQueue.
ImplementsFifo == Fifo!FifoSpec
=============================================================================
