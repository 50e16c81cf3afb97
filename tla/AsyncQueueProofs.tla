-------------------------- MODULE AsyncQueueProofs --------------------------
(***************************************************************************)
(* Proofs about AsyncQueue for every set of values and any number of       *)
(* calls: its arrays never hold both halves of waiting entries, isEmpty()  *)
(* is exact, and the queue implements FifoQueue.                           *)
(*                                                                         *)
(* The argument: entries are numbered in the order they are made, so the   *)
(* promises handed out are the entries 1..T, the promises still queued the *)
(* entries T+1..V, and the resolvers still queued the last R of the V      *)
(* entries, exactly those that are pending.                                *)
(***************************************************************************)
EXTENDS AsyncQueue, ArrayLemmas

VP == Values \cup {Pending}

Shape == ShapeOf(VP, Pending, promises, resolvers, value, taken)

\* The empty queue has the shape.
LEMMA ShapeInit == Init => Shape
<1> SUFFICES ASSUME Init PROVE Shape
  OBVIOUS
<1>1. /\ promises = <<>> /\ resolvers = <<>> /\ value = <<>> /\ taken = <<>>
  BY DEF Init
<1>2. ShapeOf(VP, Pending, <<>>, <<>>, <<>>, <<>>)
  BY DEF ShapeOf
<1> QED
  BY <1>1, <1>2 DEF Shape

\* enqueue() and dequeue() keep the shape.
LEMMA ShapeStep == Shape /\ [Next]_queueVars => Shape'
<1> SUFFICES ASSUME Shape, [Next]_queueVars PROVE Shape'
  OBVIOUS
<1>0. ShapeOf(VP, Pending, promises, resolvers, value, taken)
  BY DEF Shape
<1>a. promises \in Seq(Nat) /\ resolvers \in Seq(Nat)
  BY <1>0, ShapeParts
<1>b. /\ promises = <<>> => Len(promises) = 0
      /\ resolvers = <<>> => Len(resolvers) = 0
  BY <1>a, EmptyFacts
<1>c. Pending \in VP /\ \A v \in Values : v \in VP /\ v # Pending
  BY PendingAssumption DEF VP
<1>1. ASSUME NEW v \in Values, Enqueue(v) PROVE Shape'
  <2>1. CASE resolvers = <<>>
    <3>1. /\ promises' = Append(promises, Len(value) + 1)
          /\ value' = Append(value, v)
          /\ resolvers' = resolvers /\ taken' = taken
      BY <1>1, <2>1 DEF Enqueue, NewEntry
    <3> QED
      BY <1>0, <1>b, <1>c, <2>1, <3>1, ShapeEnqueueNew DEF Shape
  <2>2. CASE resolvers # <<>>
    <3>1. /\ resolvers' = Tail(resolvers)
          /\ value' = [value EXCEPT ![Head(resolvers)] = v]
          /\ promises' = promises /\ taken' = taken
      BY <1>1, <2>2 DEF Enqueue
    <3> QED
      BY <1>0, <1>c, <2>2, <3>1, ShapeEnqueueWaiting DEF Shape
  <2> QED
    BY <2>1, <2>2
<1>2. ASSUME Dequeue PROVE Shape'
  <2>1. CASE promises = <<>>
    <3>1. /\ resolvers' = Append(resolvers, Len(value) + 1)
          /\ value' = Append(value, Pending)
          /\ taken' = Append(taken, Len(value) + 1) /\ promises' = promises
      BY <1>2, <2>1 DEF Dequeue, NewEntry
    <3> QED
      BY <1>0, <1>b, <1>c, <2>1, <3>1, ShapeDequeueNew DEF Shape
  <2>2. CASE promises # <<>>
    <3>1. /\ promises' = Tail(promises)
          /\ taken' = Append(taken, Head(promises))
          /\ resolvers' = resolvers /\ value' = value
      BY <1>2, <2>2 DEF Dequeue
    <3> QED
      BY <1>0, <2>2, <3>1, ShapeDequeueWaiting DEF Shape
  <2> QED
    BY <2>1, <2>2
<1>3. ASSUME UNCHANGED queueVars PROVE Shape'
  BY <1>0, <1>3 DEF queueVars, Shape
<1> QED
  BY <1>1, <1>2, <1>3 DEF Next

\* Every reachable queue has the shape.
LEMMA ShapeInvariant == Spec => []Shape
BY ShapeInit, ShapeStep, PTL DEF Spec

-----------------------------------------------------------------------------
(* Safety *)

\* Type correctness: the arrays of AsyncQueue only hold entries that exist.
THEOREM TypeCorrect == Spec => []TypeOK
<1>1. Shape => TypeOK
  BY ShapeTyped DEF Shape, TypeOK, VP
<1> QED
  BY <1>1, ShapeInvariant, PTL

\* Values and consumers never both wait, for any sequence of enqueue() and
\* dequeue() calls.
THEOREM NeverBoth == Spec => []NeverBothWaiting
<1>1. Shape => NeverBothWaiting
  <2> SUFFICES ASSUME Shape PROVE NeverBothWaiting
    OBVIOUS
  <2>1. /\ promises \in Seq(Nat) /\ resolvers \in Seq(Nat)
        /\ Len(promises) = 0 \/ Len(resolvers) = 0
    BY ShapeParts DEF Shape
  <2>2. /\ Len(promises) = 0 => promises = <<>>
        /\ Len(resolvers) = 0 => resolvers = <<>>
    BY <2>1, EmptyFacts
  <2> QED
    BY <2>1, <2>2 DEF NeverBothWaiting
<1> QED
  BY <1>1, ShapeInvariant, PTL

\* isEmpty() is false iff a resolved promise has not been handed out.
THEOREM EmptinessExact == Spec => []IsEmptyExact
<1>1. Shape => IsEmptyExact
  <2> SUFFICES ASSUME Shape PROVE IsEmptyExact
    OBVIOUS
  <2>0. ShapeOf(VP, Pending, promises, resolvers, value, taken)
    BY DEF Shape
  <2>1. /\ promises \in Seq(Nat) /\ Len(promises) \in Nat
        /\ Len(resolvers) \in Nat /\ Len(value) \in Nat /\ Len(taken) \in Nat
        /\ Len(taken) + Len(promises) = Len(value)
        /\ Len(promises) = 0 \/ Len(resolvers) = 0
    BY <2>0, ShapeParts
  <2>2. \A i \in 1..Len(taken) : taken[i] = i
    BY <2>0, ShapeParts
  <2>3. \A e \in 1..Len(value) :
            value[e] = Pending <=> e > Len(value) - Len(resolvers)
    BY <2>0, ShapeParts
  <2>4. promises = <<>> <=> Len(promises) = 0
    BY <2>1, EmptyFacts
  <2>5. CASE promises = <<>>
    <3>1. \A e \in 1..Len(value) : e \in 1..Len(taken) /\ taken[e] = e
      BY <2>1, <2>2, <2>4, <2>5
    <3> QED
      BY <2>5, <3>1, Zenon DEF IsEmptyExact, IsEmpty
  <2>6. CASE promises # <<>>
    <3>1. /\ Len(value) \in 1..Len(value) /\ Len(resolvers) = 0
          /\ Len(taken) < Len(value)
      BY <2>1, <2>4, <2>6
    <3>2. value[Len(value)] # Pending
      BY <2>1, <2>3, <3>1
    <3>3. \A i \in 1..Len(taken) : taken[i] # Len(value)
      BY <2>1, <2>2, <3>1
    <3> QED
      BY <2>6, <3>1, <3>2, <3>3, Zenon DEF IsEmptyExact, IsEmpty
  <2> QED
    BY <2>5, <2>6
<1> QED
  BY <1>1, ShapeInvariant, PTL

-----------------------------------------------------------------------------
(* Refinement *)

AnswersOf(v, t) == [i \in 1..Len(t) |-> v[t[i]]]

\* What FifoQueue sees of n resolved entries and T promises handed out: the
\* first n and the first T elements of v.
ViewOf(v, n, T, s, a) ==
    /\ n \in Nat /\ T \in Nat
    /\ s \in Seq(VP) /\ Len(s) = n /\ (\A i \in 1..n : s[i] = v[i])
    /\ a \in Seq(VP) /\ Len(a) = T /\ (\A i \in 1..T : a[i] = v[i])

\* What FifoQueue sees of a queue of this shape.
LEMMA View ==
    ASSUME NEW p, NEW r, NEW v, NEW t, ShapeOf(VP, Pending, p, r, v, t)
    PROVE  /\ Len(v) \in Nat
           /\ Len(v) - Len(r) <= Len(v)
           /\ Len(t) <= Len(v)
           /\ ViewOf(v, Len(v) - Len(r), Len(t), SentOf(v, r), AnswersOf(v, t))
<1>1. /\ Len(p) \in Nat /\ Len(r) \in Nat /\ Len(v) \in Nat /\ Len(t) \in Nat
      /\ Len(t) + Len(p) = Len(v) /\ Len(r) <= Len(t)
      /\ v \in Seq(VP)
  BY ShapeParts
<1>2. Len(v) - Len(r) \in 0..Len(v) /\ Len(t) \in 0..Len(v)
  BY <1>1
<1>3. \A i \in 1..Len(v) : v[i] \in VP
  BY <1>1
<1>4. /\ SentOf(v, r) \in Seq(VP)
      /\ Len(SentOf(v, r)) = Len(v) - Len(r)
      /\ \A i \in 1..(Len(v) - Len(r)) : SentOf(v, r)[i] = v[i]
  BY SentFacts
<1>5. \A i \in 1..Len(t) : t[i] = i
  BY ShapeParts
<1>6. \A i \in 1..Len(t) : AnswersOf(v, t)[i] = v[i]
  BY <1>5 DEF AnswersOf
<1>7. AnswersOf(v, t) \in [1..Len(t) -> VP]
  BY <1>1, <1>2, <1>3, <1>5 DEF AnswersOf
<1>8. AnswersOf(v, t) \in Seq(VP) /\ Len(AnswersOf(v, t)) = Len(t)
  BY <1>1, <1>7
<1>9. Len(v) - Len(r) \in Nat /\ Len(v) - Len(r) <= Len(v) /\ Len(t) <= Len(v)
  BY <1>1
<1> QED
  BY <1>1, <1>4, <1>6, <1>8, <1>9, Zenon DEF ViewOf

\* Resolving entry number n + 1, where n entries were resolved, is a Put.
LEMMA PutView ==
    ASSUME NEW v, NEW n, NEW T, NEW s, NEW a, ViewOf(v, n, T, s, a),
           NEW v2, NEW s2, NEW a2, ViewOf(v2, n + 1, T, s2, a2),
           NEW L \in Nat, n + 1 <= L, T <= L,
           NEW x \in Values,
           \A i \in 1..L : i # n + 1 => v2[i] = v[i],
           v2[n + 1] = x
    PROVE  /\ s2 = Append(s, x)
           /\ a2 = IF Len(s) < Len(a) THEN [a EXCEPT ![Len(s) + 1] = x] ELSE a
<1>1. /\ n \in Nat /\ T \in Nat
      /\ s \in Seq(VP) /\ Len(s) = n /\ (\A i \in 1..n : s[i] = v[i])
      /\ a \in Seq(VP) /\ Len(a) = T /\ (\A i \in 1..T : a[i] = v[i])
  BY DEF ViewOf
<1>2. /\ s2 \in Seq(VP) /\ Len(s2) = n + 1
      /\ (\A i \in 1..(n + 1) : s2[i] = v2[i])
      /\ a2 \in Seq(VP) /\ Len(a2) = T /\ (\A i \in 1..T : a2[i] = v2[i])
  BY DEF ViewOf
<1>3. /\ x \in VP
      /\ \A i \in 1..n : i \in 1..L /\ i # n + 1 /\ i \in 1..(n + 1)
      /\ \A i \in 1..T : i \in 1..L
  BY <1>1 DEF VP
<1>4. s2 = Append(s, x)
  <2>1. /\ Append(s, x) \in Seq(VP) /\ Len(Append(s, x)) = Len(s) + 1
        /\ (\A i \in 1..Len(s) : Append(s, x)[i] = s[i])
        /\ Append(s, x)[Len(s) + 1] = x
    BY <1>1, <1>3, AppendFacts
  <2>2. \A i \in 1..n : s2[i] = Append(s, x)[i]
    <3>1. \A i \in 1..n : Append(s, x)[i] = s[i]
      BY <1>1, <2>1
    <3>2. \A i \in 1..n : s2[i] = v2[i] /\ v2[i] = v[i] /\ s[i] = v[i]
      BY <1>1, <1>2, <1>3, Zenon
    <3> QED
      BY <3>1, <3>2, Zenon
  <2>3. s2[n + 1] = Append(s, x)[n + 1]
    <3>1. n + 1 \in 1..(n + 1)
      BY <1>1
    <3> QED
      BY <1>1, <1>2, <2>1, <3>1, Zenon
  <2>4. \A i \in 1..(n + 1) : i \in 1..n \/ i = n + 1
    BY <1>1
  <2>5. \A i \in 1..Len(s2) : s2[i] = Append(s, x)[i]
    BY <1>2, <2>2, <2>3, <2>4, Zenon
  <2>6. Len(s2) = Len(Append(s, x))
    BY <1>1, <1>2, <2>1
  <2> QED
    BY <1>2, <2>1, <2>5, <2>6, SameSeq
<1>5. CASE n < T
  <2>1. n + 1 \in 1..Len(a)
    BY <1>1, <1>5
  <2>2. /\ [a EXCEPT ![n + 1] = x] \in Seq(VP)
        /\ Len([a EXCEPT ![n + 1] = x]) = Len(a)
        /\ \A i \in 1..Len(a) : i # n + 1 => [a EXCEPT ![n + 1] = x][i] = a[i]
        /\ [a EXCEPT ![n + 1] = x][n + 1] = x
    BY <1>1, <1>3, <2>1, UpdateFacts
  <2>3. \A i \in 1..Len(a2) : a2[i] = [a EXCEPT ![n + 1] = x][i]
    BY <1>1, <1>2, <1>3, <2>2, Zenon
  <2>4. a2 = [a EXCEPT ![n + 1] = x]
    <3>1. Len(a2) = Len([a EXCEPT ![n + 1] = x])
      BY <1>1, <1>2, <2>2
    <3> QED
      BY <1>2, <2>2, <2>3, <3>1, SameSeq
  <2> QED
    BY <1>1, <1>4, <1>5, <2>4
<1>6. CASE ~(n < T)
  <2>1. \A i \in 1..T : i # n + 1
    BY <1>1, <1>6
  <2>2. \A i \in 1..Len(a2) : a2[i] = a[i]
    BY <1>1, <1>2, <1>3, <2>1, Zenon
  <2>3. a2 = a
    BY <1>1, <1>2, <2>2, SameSeq
  <2> QED
    BY <1>1, <1>4, <1>6, <2>3
<1> QED
  BY <1>5, <1>6

\* What FifoQueue answers to the next dequeue().
NextAnswer(s, a) == IF Len(a) < Len(s) THEN s[Len(a) + 1] ELSE Pending

\* Handing out entry number T + 1, with the resolved entries unchanged, is a
\* Take.
LEMMA TakeView ==
    ASSUME NEW v, NEW n, NEW T, NEW s, NEW a, ViewOf(v, n, T, s, a),
           NEW v2, NEW T2, NEW s2, NEW a2, ViewOf(v2, n, T2, s2, a2),
           T2 = T + 1,
           NEW L \in Nat, n <= L, T <= L,
           \A i \in 1..L : v2[i] = v[i],
           T < n => v2[T2] = v[T2],
           ~(T < n) => v2[T2] = Pending
    PROVE  /\ s2 = s
           /\ a2 = Append(a, NextAnswer(s, a))
<1> DEFINE x == NextAnswer(s, a)
<1>1. /\ n \in Nat /\ T \in Nat
      /\ s \in Seq(VP) /\ Len(s) = n /\ (\A i \in 1..n : s[i] = v[i])
      /\ a \in Seq(VP) /\ Len(a) = T /\ (\A i \in 1..T : a[i] = v[i])
  BY DEF ViewOf
<1>2. /\ s2 \in Seq(VP) /\ Len(s2) = n /\ (\A i \in 1..n : s2[i] = v2[i])
      /\ a2 \in Seq(VP) /\ Len(a2) = T + 1
      /\ (\A i \in 1..(T + 1) : a2[i] = v2[i])
  BY DEF ViewOf
<1>3. /\ \A i \in 1..n : i \in 1..L
      /\ \A i \in 1..T : i \in 1..L /\ i \in 1..(T + 1)
  BY <1>1
<1>4. s2 = s
  <2>1. \A i \in 1..Len(s2) : s2[i] = s[i]
    BY <1>1, <1>2, <1>3, Zenon
  <2> QED
    BY <1>1, <1>2, <2>1, SameSeq
<1>5. x \in VP /\ v2[T + 1] = x
  <2>1. CASE T < n
    <3>1. T + 1 \in 1..n
      BY <1>1, <2>1
    <3>2. s[T + 1] = v[T + 1] /\ s[T + 1] \in VP
      BY <1>1, <3>1
    <3> QED
      BY <1>1, <2>1, <3>2 DEF NextAnswer
  <2>2. CASE ~(T < n)
    BY <1>1, <2>2 DEF VP, NextAnswer
  <2> QED
    BY <2>1, <2>2
<1> HIDE DEF x
<1>6. a2 = Append(a, x)
  <2>1. /\ Append(a, x) \in Seq(VP) /\ Len(Append(a, x)) = Len(a) + 1
        /\ (\A i \in 1..Len(a) : Append(a, x)[i] = a[i])
        /\ Append(a, x)[Len(a) + 1] = x
    BY <1>1, <1>5, AppendFacts
  <2>2. \A i \in 1..T : a2[i] = Append(a, x)[i]
    BY <1>1, <1>2, <1>3, <2>1, Zenon
  <2>3. a2[T + 1] = Append(a, x)[T + 1]
    <3>1. T + 1 \in 1..(T + 1)
      BY <1>1
    <3> QED
      BY <1>1, <1>2, <1>5, <2>1, <3>1, Zenon
  <2>4. \A i \in 1..(T + 1) : i \in 1..T \/ i = T + 1
    BY <1>1
  <2>5. \A i \in 1..Len(a2) : a2[i] = Append(a, x)[i]
    BY <1>2, <2>2, <2>3, <2>4, Zenon
  <2>6. Len(a2) = Len(Append(a, x))
    BY <1>1, <1>2, <2>1
  <2> QED
    BY <1>2, <2>1, <2>5, <2>6, SameSeq
<1> QED
  BY <1>4, <1>6 DEF x

\* The n-th dequeue() gets the n-th enqueued value, for any number of calls in
\* any order: AsyncQueue implements FifoQueue.
THEOREM Refinement == Spec => ImplementsFifo
<1>0. Sent = SentOf(value, resolvers) /\ Answers = AnswersOf(value, taken)
  BY DEF Sent, Answers, SentOf, AnswersOf, EnqueueCalls
<1>1. Init => Fifo!FifoInit
  <2> SUFFICES ASSUME Init PROVE Fifo!FifoInit
    OBVIOUS
  <2>1. value = <<>> /\ resolvers = <<>> /\ taken = <<>>
    BY DEF Init
  <2>2. SentOf(<<>>, <<>>) = <<>> /\ AnswersOf(<<>>, <<>>) = <<>>
    BY DEF SentOf, AnswersOf
  <2> QED
    BY <1>0, <2>1, <2>2 DEF Fifo!FifoInit
<1>2. Shape /\ Shape' /\ [Next]_queueVars => [Fifo!FifoNext]_Fifo!fifoVars
  <2> SUFFICES ASSUME Shape, Shape', [Next]_queueVars
               PROVE  [Fifo!FifoNext]_Fifo!fifoVars
    OBVIOUS
  <2>0. /\ ShapeOf(VP, Pending, promises, resolvers, value, taken)
        /\ ShapeOf(VP, Pending, promises', resolvers', value', taken')
    BY DEF Shape
  <2>a. /\ Sent = SentOf(value, resolvers)
        /\ Answers = AnswersOf(value, taken)
        /\ Sent' = SentOf(value', resolvers')
        /\ Answers' = AnswersOf(value', taken')
    BY DEF Sent, Answers, SentOf, AnswersOf, EnqueueCalls
  <2>b. /\ promises \in Seq(Nat) /\ resolvers \in Seq(Nat)
        /\ value \in Seq(VP) /\ taken \in Seq(Nat)
        /\ Len(promises) \in Nat /\ Len(resolvers) \in Nat
        /\ Len(value) \in Nat /\ Len(taken) \in Nat
        /\ Len(taken) + Len(promises) = Len(value)
        /\ Len(resolvers) <= Len(taken)
    BY <2>0, ShapeParts
  <2>c. /\ promises = <<>> => Len(promises) = 0
        /\ resolvers = <<>> => Len(resolvers) = 0
    BY <2>b, EmptyFacts
  <2> DEFINE n == Len(value) - Len(resolvers)
             n2 == Len(value') - Len(resolvers')
  <2>d. /\ ViewOf(value, n, Len(taken), Sent, Answers)
        /\ n <= Len(value) /\ Len(taken) <= Len(value)
    BY <2>0, <2>a, View
  <2>e. /\ ViewOf(value', n2, Len(taken'), Sent', Answers')
        /\ n2 <= Len(value') /\ Len(taken') <= Len(value')
        /\ Len(value') \in Nat
    BY <2>0, <2>a, View
  <2>1. ASSUME NEW v \in Values, Enqueue(v) PROVE Fifo!Put(v)
    <3>0. v \in VP /\ v # Pending
      BY PendingAssumption DEF VP
    <3>1. /\ taken' = taken
          /\ Len(value') - Len(resolvers') = n + 1
          /\ \A i \in 1..Len(value') : i # n + 1 => value'[i] = value[i]
          /\ value'[n + 1] = v
      <4>1. CASE resolvers = <<>>
        <5>1. /\ value' = Append(value, v) /\ resolvers' = resolvers
              /\ taken' = taken
          BY <2>1, <4>1 DEF Enqueue
        <5>2. /\ Len(Append(value, v)) = Len(value) + 1
              /\ \A i \in 1..Len(value) : Append(value, v)[i] = value[i]
              /\ Append(value, v)[Len(value) + 1] = v
          BY <2>b, <3>0, AppendFacts
        <5>3. n = Len(value) /\ Len(resolvers) = 0
          BY <2>b, <2>c, <4>1
        <5>4. \A i \in 1..(Len(value) + 1) :
                  i # Len(value) + 1 => i \in 1..Len(value)
          <6>1. \A m \in Nat : \A i \in 1..(m + 1) : i # m + 1 => i \in 1..m
            OBVIOUS
          <6> QED
            BY <2>b, <6>1
        <5> QED
          BY <2>b, <5>1, <5>2, <5>3, <5>4
      <4>2. CASE resolvers # <<>>
        <5>1. /\ value' = [value EXCEPT ![Head(resolvers)] = v]
              /\ resolvers' = Tail(resolvers) /\ taken' = taken
          BY <2>1, <4>2 DEF Enqueue
        <5>2. /\ ShapeOf(VP, Pending, promises, Tail(resolvers),
                          [value EXCEPT ![Head(resolvers)] = v], taken)
              /\ Head(resolvers) = Len(value) - Len(resolvers) + 1
              /\ Head(resolvers) \in 1..Len(value)
              /\ Len(Tail(resolvers)) = Len(resolvers) - 1
          BY <2>0, <3>0, <4>2, ShapeEnqueueWaiting
        <5>2a. Head(resolvers) = n + 1
          BY <5>2
        <5> HIDE DEF n
        <5>3. /\ Len([value EXCEPT ![n + 1] = v]) = Len(value)
              /\ \A i \in 1..Len(value) :
                     i # n + 1 => [value EXCEPT ![n + 1] = v][i] = value[i]
              /\ [value EXCEPT ![n + 1] = v][n + 1] = v
          BY <2>b, <3>0, <5>2, <5>2a, UpdateFacts
        <5>4. Len(value) - (Len(resolvers) - 1) = n + 1
          BY <2>b DEF n
        <5> QED
          BY <5>1, <5>2, <5>2a, <5>3, <5>4
      <4> QED
        BY <4>1, <4>2
    <3> HIDE DEF n, n2
    <3>2. n2 = n + 1
      BY <3>1 DEF n2
    <3>3. /\ Sent' = Append(Sent, v)
          /\ Answers' = IF Len(Sent) < Len(Answers)
                        THEN [Answers EXCEPT ![Len(Sent) + 1] = v] ELSE Answers
      BY <2>d, <2>e, <3>1, <3>2, PutView
    <3> QED
      BY <3>3 DEF Fifo!Put
  <2>2. ASSUME Dequeue PROVE Fifo!Take
    <3>0. Pending \in VP
      BY DEF VP
    <3>1. /\ Len(taken') = Len(taken) + 1
          /\ Len(value') - Len(resolvers') = n
          /\ \A i \in 1..Len(value) : value'[i] = value[i]
          /\ Len(taken) < n => value'[Len(taken) + 1] = value[Len(taken) + 1]
          /\ ~(Len(taken) < n) => value'[Len(taken) + 1] = Pending
      <4>1. CASE promises = <<>>
        <5>1. /\ value' = Append(value, Pending)
              /\ resolvers' = Append(resolvers, Len(value) + 1)
              /\ taken' = Append(taken, Len(value) + 1)
          BY <2>2, <4>1 DEF Dequeue, NewEntry
        <5>2. /\ Len(Append(value, Pending)) = Len(value) + 1
              /\ \A i \in 1..Len(value) : Append(value, Pending)[i] = value[i]
              /\ Append(value, Pending)[Len(value) + 1] = Pending
          BY <2>b, <3>0, AppendFacts
        <5>3. /\ Len(Append(resolvers, Len(value) + 1)) = Len(resolvers) + 1
              /\ Len(Append(taken, Len(value) + 1)) = Len(taken) + 1
          BY <2>b, AppendFacts
        <5>4. Len(taken) = Len(value) /\ ~(Len(taken) < n)
          BY <2>b, <2>c, <4>1
        <5>5. (Len(value) + 1) - (Len(resolvers) + 1) = n
          BY <2>b
        <5> QED
          BY <5>1, <5>2, <5>3, <5>4, <5>5
      <4>2. CASE promises # <<>>
        <5>1. /\ value' = value /\ resolvers' = resolvers
              /\ taken' = Append(taken, Head(promises))
          BY <2>2, <4>2 DEF Dequeue
        <5>2. /\ Head(promises) = Len(taken) + 1 /\ Len(resolvers) = 0
              /\ Len(taken) < Len(value)
          BY <2>0, <4>2, ShapeDequeueWaiting
        <5>3. Len(Append(taken, Len(taken) + 1)) = Len(taken) + 1
          BY <2>b, AppendFacts
        <5>4. Len(taken) < n
          BY <2>b, <5>2
        <5> QED
          BY <5>1, <5>2, <5>3, <5>4
      <4> QED
        BY <4>1, <4>2
    <3> HIDE DEF n, n2
    <3>2. n2 = n
      BY <3>1 DEF n2
    <3> DEFINE T == Len(taken)
               T2 == Len(taken')
               L == Len(value)
    <3>3. ViewOf(value', n, T2, Sent', Answers')
      BY <2>e, <3>2
    <3>4. /\ Sent' = Sent
          /\ Answers' = Append(Answers, NextAnswer(Sent, Answers))
      <4>1. /\ T2 = T + 1
            /\ \A i \in 1..L : value'[i] = value[i]
            /\ T < n => value'[T2] = value[T2]
            /\ ~(T < n) => value'[T2] = Pending
        BY <3>1
      <4>2. L \in Nat /\ n <= L /\ T <= L
        BY <2>b, <2>d
      <4>3. ViewOf(value, n, T, Sent, Answers)
        BY <2>d
      <4> HIDE DEF T, T2, L
      <4> QED
        BY <3>3, <4>1, <4>2, <4>3, TakeView
    <3> QED
      BY <3>4 DEF Fifo!Take, NextAnswer
  <2>3. ASSUME UNCHANGED queueVars PROVE UNCHANGED Fifo!fifoVars
    BY <2>3 DEF queueVars, Fifo!fifoVars, Sent, Answers, EnqueueCalls
  <2> QED
    BY <2>1, <2>2, <2>3 DEF Next, Fifo!FifoNext
<1> QED
  BY <1>1, <1>2, ShapeInvariant, PTL DEF Spec, ImplementsFifo, Fifo!FifoSpec
=============================================================================
