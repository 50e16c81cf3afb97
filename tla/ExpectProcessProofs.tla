------------------------ MODULE ExpectProcessProofs ------------------------
(***************************************************************************)
(* Proofs about ExpectProcess for every set of texts and any number of     *)
(* lines and calls: no output is lost or reordered, however the pipe cuts  *)
(* it into chunks, and a call finds the first piece that matches.          *)
(***************************************************************************)
EXTENDS ExpectProcess, ArrayLemmas, TLAPS

Piece == Seq(Fragment)
Char == Fragment \cup {EOL}
Held == Piece \cup {Pending}

-----------------------------------------------------------------------------
(* The invariant *)

Shape == ShapeOf(Held, Pending, promises, resolvers, value, taken)

\* The state apart from the queue has its type.
OutputTyped ==
    /\ written \in Seq(Texts)
    /\ pipe \in Seq(Char)
    /\ chunk \in Seq(Piece)

\* The entries of a call are promises that dequeue() has handed out, t of them so
\* far, and a function that has returned leaves no caller waiting.
CallOK(c, t) ==
    /\ c.entry \in 1..t
    /\ c.from \in 1..c.entry
    /\ c.outcome = "pending" => c.active
    /\ c.active => c.outcome \in {"pending", "timeout"}

CallsOK ==
    /\ calls \in Seq(Call)
    /\ \A i \in 1..Len(calls) : CallOK(calls[i], Len(taken))

\* The caller waits for its last call only.
LastPending ==
    \A i \in 1..Len(calls) : calls[i].outcome = "pending" => i = Len(calls)

\* No call up to i has timed out.
Clean(i) == \A j \in 1..i : calls[j].outcome # "timeout"

\* Before the first timeout nobody but the last call has taken a promise from
\* the queue since that call began.
TakenInTurn ==
    Clean(Len(calls)) =>
        Len(taken) = IF calls = <<>> THEN 0 ELSE calls[Len(calls)].entry

\* Where a call begins.
InTurn(i) == calls[i].from = IF i = 1 THEN 1 ELSE calls[i - 1].entry + 1

\* What a call has passed over, and what it has ended with.
SearchedOK(c, v) ==
    /\ \A k \in c.from..(c.entry - 1) : v[k] # Pending /\ ~Match(c.cond, v[k])
    /\ c.outcome = "found" => v[c.entry] # Pending /\ Match(c.cond, v[c.entry])
    /\ c.outcome = "failed" => v[c.entry] # Pending /\ ~Match(c.cond, v[c.entry])

Searched ==
    \A i \in 1..Len(calls) : Clean(i) => InTurn(i) /\ SearchedOK(calls[i], value)

CallInv == CallsOK /\ LastPending /\ TakenInTurn /\ Searched

ExpectInv == Shape /\ OutputTyped /\ CallInv /\ OutputConserved

-----------------------------------------------------------------------------
(* FlattenSeq.  What the equation of its recursive function says, by        *)
(* induction over the length.                                               *)

\* The equation of the function in FlattenSeq, for a domain 1..n.
FlatEq(ss, n, f) ==
    f = [i \in 1..n |-> IF i = 1 THEN ss[i] ELSE f[i - 1] \o ss[i]]

FlatFn(ss) == CHOOSE f : FlatEq(ss, Len(ss), f)

\* FlattenSeq is the last value of a function that solves the equation.
LEMMA FlattenUnfold ==
    ASSUME NEW ss
    PROVE  FlattenSeq(ss) = IF Len(ss) = 0 THEN ss ELSE FlatFn(ss)[Len(ss)]
BY Zenon DEF FlattenSeq, FlatFn, FlatEq

\* The equation has a solution.
LEMMA FlatExists ==
    ASSUME NEW ss
    PROVE  \A n \in Nat : \E f : FlatEq(ss, n, f)
<1> DEFINE T == {n \in Nat : \E f : FlatEq(ss, n, f)}
<1>1. 0 \in T
  <2>1. FlatEq(ss, 0, [i \in 1..0 |-> {}])
    BY DEF FlatEq
  <2> QED
    BY <2>1
<1>2. ASSUME NEW n \in T PROVE n + 1 \in T
  <2>1. PICK f : FlatEq(ss, n, f)
    OBVIOUS
  <2> DEFINE new == IF n + 1 = 1 THEN ss[n + 1] ELSE f[n] \o ss[n + 1]
             g == [i \in 1..(n + 1) |-> IF i = n + 1 THEN new ELSE f[i]]
  <2>2. \A i \in 1..n : f[i] = IF i = 1 THEN ss[i] ELSE f[i - 1] \o ss[i]
    BY <2>1 DEF FlatEq
  <2>3. ASSUME NEW i \in 1..(n + 1)
        PROVE  g[i] = IF i = 1 THEN ss[i] ELSE g[i - 1] \o ss[i]
    <3>1. CASE i = n + 1
      <4>1. g[i] = new
        BY <3>1
      <4>2. CASE i # 1
        <5>1. i - 1 = n /\ n \in 1..(n + 1) /\ n # n + 1
          BY <3>1, <4>2
        <5>2. g[n] = f[n]
          BY <5>1
        <5> HIDE DEF g
        <5> QED
          BY <3>1, <4>1, <4>2, <5>1, <5>2
      <4> QED
        BY <3>1, <4>1, <4>2
    <3>2. CASE i # n + 1
      <4>1. i \in 1..n /\ g[i] = f[i]
        BY <3>2
      <4>2. i # 1 => i - 1 \in 1..(n + 1) /\ i - 1 # n + 1 /\ g[i - 1] = f[i - 1]
        BY <3>2
      <4> HIDE DEF g
      <4> QED
        BY <2>2, <4>1, <4>2, Zenon
    <3> QED
      BY <3>1, <3>2
  <2>4. g = [i \in 1..(n + 1) |-> g[i]]
    OBVIOUS
  <2> HIDE DEF g
  <2>5. FlatEq(ss, n + 1, g)
    BY <2>3, <2>4, Zenon DEF FlatEq
  <2> QED
    BY <2>5
<1> HIDE DEF T
<1>3. T \in SUBSET Nat
  BY DEF T
<1>4. \A n \in Nat : n \in T
  BY <1>1, <1>2, <1>3, NatInSet
<1> QED
  BY <1>4 DEF T

\* The function of FlattenSeq satisfies its equation.
LEMMA FlatFnDef ==
    ASSUME NEW S, NEW ss \in Seq(S)
    PROVE  \A i \in 1..Len(ss) :
               FlatFn(ss)[i] = IF i = 1 THEN ss[i] ELSE FlatFn(ss)[i - 1] \o ss[i]
<1>1. Len(ss) \in Nat
  OBVIOUS
<1>2. FlatEq(ss, Len(ss), FlatFn(ss))
  BY <1>1, FlatExists DEF FlatFn
<1> DEFINE f == FlatFn(ss)
<1>3. f = [i \in 1..Len(ss) |-> IF i = 1 THEN ss[i] ELSE f[i - 1] \o ss[i]]
  BY <1>2 DEF FlatEq
<1> HIDE DEF f
<1>4. \A i \in 1..Len(ss) : f[i] = IF i = 1 THEN ss[i] ELSE f[i - 1] \o ss[i]
  BY <1>3
<1> QED
  BY <1>4 DEF f

\* Its values are sequences.
LEMMA FlatFnType ==
    ASSUME NEW S, NEW ss \in Seq(Seq(S))
    PROVE  \A i \in 1..Len(ss) : FlatFn(ss)[i] \in Seq(S)
<1> DEFINE f == FlatFn(ss)
           T == {n \in Nat : n + 1 \in 1..Len(ss) => f[n + 1] \in Seq(S)}
<1>1. \A i \in 1..Len(ss) : f[i] = IF i = 1 THEN ss[i] ELSE f[i - 1] \o ss[i]
  BY FlatFnDef
<1>2. \A i \in 1..Len(ss) : ss[i] \in Seq(S)
  OBVIOUS
<1> HIDE DEF f
<1>3. 0 \in T
  BY <1>1, <1>2
<1>4. ASSUME NEW n \in T PROVE n + 1 \in T
  <2>1. SUFFICES ASSUME (n + 1) + 1 \in 1..Len(ss)
                 PROVE  f[(n + 1) + 1] \in Seq(S)
    OBVIOUS
  <2>2. n + 1 \in 1..Len(ss) /\ ((n + 1) + 1) - 1 = n + 1 /\ (n + 1) + 1 # 1
    BY <2>1
  <2>3. f[n + 1] \in Seq(S)
    BY <2>2
  <2>4. f[(n + 1) + 1] = f[n + 1] \o ss[(n + 1) + 1]
    BY <1>1, <2>1, <2>2
  <2>5. ss[(n + 1) + 1] \in Seq(S)
    BY <1>2, <2>1
  <2> QED
    BY <2>3, <2>4, <2>5
<1> HIDE DEF T
<1>5. T \in SUBSET Nat
  BY DEF T
<1>6. \A n \in Nat : n \in T
  BY <1>3, <1>4, <1>5, NatInSet
<1>7. ASSUME NEW i \in 1..Len(ss) PROVE f[i] \in Seq(S)
  <2>1. i - 1 \in Nat /\ (i - 1) + 1 = i
    OBVIOUS
  <2>2. i - 1 \in T
    BY <1>6, <2>1
  <2> QED
    BY <2>1, <2>2 DEF T
<1> QED
  BY <1>7 DEF f

\* On the common part of two sequences it is the same.
LEMMA FlatFnPrefix ==
    ASSUME NEW S, NEW ss \in Seq(Seq(S)), NEW s \in Seq(S)
    PROVE  \A i \in 1..Len(ss) : FlatFn(Append(ss, s))[i] = FlatFn(ss)[i]
<1> DEFINE f == FlatFn(ss)
           tt == Append(ss, s)
           g == FlatFn(tt)
           T == {n \in Nat : n + 1 \in 1..Len(ss) => g[n + 1] = f[n + 1]}
<1>1. \A i \in 1..Len(ss) : f[i] = IF i = 1 THEN ss[i] ELSE f[i - 1] \o ss[i]
  BY FlatFnDef
<1>2. /\ tt \in Seq(Seq(S)) /\ Len(tt) = Len(ss) + 1 /\ Len(ss) \in Nat
      /\ \A i \in 1..Len(ss) : tt[i] = ss[i]
  OBVIOUS
<1> HIDE DEF f, tt
<1>3. \A i \in 1..Len(tt) : g[i] = IF i = 1 THEN tt[i] ELSE g[i - 1] \o tt[i]
  BY <1>2, FlatFnDef
<1> HIDE DEF g
<1>4. \A i \in 1..Len(ss) : g[i] = IF i = 1 THEN ss[i] ELSE g[i - 1] \o ss[i]
  <2>1. \A i \in 1..Len(ss) : i \in 1..Len(tt)
    BY <1>2
  <2> QED
    BY <1>2, <1>3, <2>1, Zenon
<1>5. 0 \in T
  BY <1>1, <1>4
<1>6. ASSUME NEW n \in T PROVE n + 1 \in T
  <2>1. SUFFICES ASSUME (n + 1) + 1 \in 1..Len(ss)
                 PROVE  g[(n + 1) + 1] = f[(n + 1) + 1]
    OBVIOUS
  <2>2. n + 1 \in 1..Len(ss) /\ ((n + 1) + 1) - 1 = n + 1 /\ (n + 1) + 1 # 1
    BY <1>2, <2>1
  <2>3. f[n + 1] = g[n + 1]
    BY <2>2
  <2>4. f[(n + 1) + 1] = f[n + 1] \o ss[(n + 1) + 1]
    BY <1>1, <2>1, <2>2
  <2>5. g[(n + 1) + 1] = g[n + 1] \o ss[(n + 1) + 1]
    BY <1>4, <2>1, <2>2
  <2> QED
    BY <2>3, <2>4, <2>5
<1> HIDE DEF T
<1>7. T \in SUBSET Nat
  BY DEF T
<1>8. \A n \in Nat : n \in T
  BY <1>5, <1>6, <1>7, NatInSet
<1>9. ASSUME NEW i \in 1..Len(ss) PROVE g[i] = f[i]
  <2>1. i - 1 \in Nat /\ (i - 1) + 1 = i
    OBVIOUS
  <2>2. i - 1 \in T
    BY <1>8, <2>1
  <2> QED
    BY <2>1, <2>2 DEF T
<1> QED
  BY <1>9 DEF f, g, tt

\* The laws of FlattenSeq: it is a sequence, that of nothing is empty, and one
\* more sequence comes last.
LEMMA FlattenLaws ==
    ASSUME NEW S
    PROVE  /\ FlattenSeq(<<>>) = <<>>
           /\ \A ss \in Seq(Seq(S)) : FlattenSeq(ss) \in Seq(S)
           /\ \A ss \in Seq(Seq(S)) : \A s \in Seq(S) :
                  FlattenSeq(Append(ss, s)) = FlattenSeq(ss) \o s
<1>1. FlattenSeq(<<>>) = <<>>
  BY FlattenUnfold
<1>2. ASSUME NEW ss \in Seq(Seq(S)) PROVE FlattenSeq(ss) \in Seq(S)
  <2>1. CASE Len(ss) = 0
    <3>1. ss = <<>> /\ <<>> \in Seq(S)
      BY <2>1, EmptyFacts, EmptySeq
    <3> QED
      BY <1>1, <3>1
  <2>2. CASE Len(ss) # 0
    <3>1. Len(ss) \in 1..Len(ss)
      BY <2>2
    <3> QED
      BY <2>2, <3>1, FlattenUnfold, FlatFnType
  <2> QED
    BY <2>1, <2>2
<1>3. ASSUME NEW ss \in Seq(Seq(S)), NEW s \in Seq(S)
      PROVE  FlattenSeq(Append(ss, s)) = FlattenSeq(ss) \o s
  <2> DEFINE tt == Append(ss, s)
             n == Len(ss)
             g == FlatFn(tt)
  <2>1. tt \in Seq(Seq(S)) /\ Len(tt) = n + 1 /\ n \in Nat /\ tt[n + 1] = s
    OBVIOUS
  <2> HIDE DEF tt
  <2>2. \A i \in 1..Len(tt) : g[i] = IF i = 1 THEN tt[i] ELSE g[i - 1] \o tt[i]
    BY <2>1, FlatFnDef
  <2>3. Len(tt) # 0 /\ FlattenSeq(tt) = g[n + 1] /\ n + 1 \in 1..Len(tt)
    BY <2>1, FlattenUnfold
  <2> HIDE DEF g
  <2>4. CASE n = 0
    <3>1. g[n + 1] = s
      BY <2>1, <2>2, <2>3, <2>4
    <3>2. ss = <<>>
      BY <2>4, EmptyFacts
    <3>3. <<>> \o s = s
      OBVIOUS
    <3> QED
      BY <1>1, <2>3, <3>1, <3>2, <3>3 DEF tt
  <2>5. CASE n # 0
    <3>1. n + 1 # 1 /\ (n + 1) - 1 = n /\ n \in 1..n
      BY <2>1, <2>5
    <3>2. g[n + 1] = g[n] \o s
      BY <2>1, <2>2, <2>3, <3>1
    <3>3. g[n] = FlatFn(ss)[n]
      BY <3>1, FlatFnPrefix DEF g, tt
    <3>4. FlattenSeq(ss) = FlatFn(ss)[n]
      BY <2>5, FlattenUnfold
    <3> QED
      BY <2>3, <3>2, <3>3, <3>4 DEF tt
  <2> QED
    BY <2>4, <2>5
<1> QED
  BY <1>1, <1>2, <1>3

\* What the provers need of concatenation.
LEMMA ConcatLaws ==
    ASSUME NEW S
    PROVE  /\ \A s \in Seq(S) : <<>> \o s = s /\ s \o <<>> = s
           /\ \A s, t, u \in Seq(S) : (s \o t) \o u = s \o (t \o u)
           /\ \A s, t \in Seq(S) : s \o t \in Seq(S)
           /\ \A s, t \in Seq(S) : \A x \in S :
                  s \o Append(t, x) = Append(s \o t, x)
<1>1. \A s \in Seq(S) : <<>> \o s = s /\ s \o <<>> = s
  BY ConcatEmptySeq
<1>2. \A s, t, u \in Seq(S) : (s \o t) \o u = s \o (t \o u)
  BY ConcatAssociative
<1>3. \A s, t \in Seq(S) : s \o t \in Seq(S)
  OBVIOUS
<1>4. ASSUME NEW s \in Seq(S), NEW t \in Seq(S), NEW x \in S
      PROVE  s \o Append(t, x) = Append(s \o t, x)
  <2>1. s \o t \in Seq(S) /\ <<x>> \in Seq(S)
    OBVIOUS
  <2>2. Append(t, x) = t \o <<x>> /\ Append(s \o t, x) = (s \o t) \o <<x>>
    BY <2>1, AppendIsConcat
  <2> QED
    BY <1>2, <2>1, <2>2
<1> QED
  BY <1>1, <1>2, <1>3, <1>4

\* Flattening a concatenation.
LEMMA FlattenConcat ==
    ASSUME NEW S, NEW ss \in Seq(Seq(S)), NEW uu \in Seq(Seq(S))
    PROVE  FlattenSeq(ss \o uu) = FlattenSeq(ss) \o FlattenSeq(uu)
<1> DEFINE T == {n \in Nat : \A tt \in Seq(Seq(S)) : Len(tt) = n =>
                     FlattenSeq(ss \o tt) = FlattenSeq(ss) \o FlattenSeq(tt)}
<1>1. 0 \in T
  <2> SUFFICES ASSUME NEW tt \in Seq(Seq(S)), Len(tt) = 0
               PROVE  FlattenSeq(ss \o tt) = FlattenSeq(ss) \o FlattenSeq(tt)
    OBVIOUS
  <2>1. tt = <<>>
    BY EmptyFacts
  <2>2. FlattenSeq(<<>>) = <<>> /\ FlattenSeq(ss) \in Seq(S)
    BY FlattenLaws
  <2>3. ss \o <<>> = ss /\ FlattenSeq(ss) \o <<>> = FlattenSeq(ss)
    BY <2>2, ConcatLaws
  <2> QED
    BY <2>1, <2>2, <2>3
<1>2. ASSUME NEW n \in T PROVE n + 1 \in T
  <2> SUFFICES ASSUME NEW tt \in Seq(Seq(S)), Len(tt) = n + 1
               PROVE  FlattenSeq(ss \o tt) = FlattenSeq(ss) \o FlattenSeq(tt)
    OBVIOUS
  <2>1. tt # <<>>
    BY EmptyFacts
  <2>2. PICK front \in Seq(Seq(S)), last \in Seq(S) : tt = Append(front, last)
    BY <2>1, SequenceEmptyOrAppend
  <2>3. Len(front) = n
    BY <2>2, AppendFacts
  <2>4. FlattenSeq(ss \o front) = FlattenSeq(ss) \o FlattenSeq(front)
    BY <2>3
  <2> HIDE DEF T
  <2>5. ss \o tt = Append(ss \o front, last) /\ ss \o front \in Seq(Seq(S))
    BY <2>2, ConcatLaws
  <2>6. /\ FlattenSeq(ss \o tt) = FlattenSeq(ss \o front) \o last
        /\ FlattenSeq(tt) = FlattenSeq(front) \o last
        /\ FlattenSeq(ss) \in Seq(S) /\ FlattenSeq(front) \in Seq(S)
    BY <2>2, <2>5, FlattenLaws
  <2>7. \A a, b, c \in Seq(S) : (a \o b) \o c = a \o (b \o c)
    BY ONLY ConcatLaws
  <2>8. (FlattenSeq(ss) \o FlattenSeq(front)) \o last
            = FlattenSeq(ss) \o (FlattenSeq(front) \o last)
    BY <2>6, <2>7
  <2> QED
    BY <2>4, <2>6, <2>8
<1> HIDE DEF T
<1>3. T \in SUBSET Nat
  BY DEF T
<1>4. \A n \in Nat : n \in T
  BY <1>1, <1>2, <1>3, NatInSet, Zenon
<1>5. Len(uu) \in Nat
  OBVIOUS
<1> QED
  BY <1>4, <1>5, Zenon DEF T

\* Taking the first of several sequences off.
LEMMA FlattenHead ==
    ASSUME NEW S, NEW ss \in Seq(Seq(S)), ss # <<>>
    PROVE  FlattenSeq(ss) = Head(ss) \o FlattenSeq(Tail(ss))
<1>1. Head(ss) \in Seq(S) /\ Tail(ss) \in Seq(Seq(S))
  BY HeadTailProperties
<1>2. <<Head(ss)>> \in Seq(Seq(S)) /\ ss = <<Head(ss)>> \o Tail(ss)
  BY <1>1
<1>3. <<Head(ss)>> = Append(<<>>, Head(ss)) /\ <<>> \in Seq(Seq(S))
  OBVIOUS
<1>4. FlattenSeq(<<Head(ss)>>) = Head(ss)
  <2>1. FlattenSeq(Append(<<>>, Head(ss))) = FlattenSeq(<<>>) \o Head(ss)
    BY <1>1, <1>3, FlattenLaws
  <2>2. FlattenSeq(<<>>) = <<>> /\ <<>> \o Head(ss) = Head(ss)
    BY <1>1, FlattenLaws, ConcatLaws
  <2> QED
    BY <1>3, <2>1, <2>2
<1> QED
  BY <1>1, <1>2, <1>4, FlattenConcat

-----------------------------------------------------------------------------
(* Fragments and Split *)

\* What is left of one character.
Kept(x) == IF x = EOL THEN <<>> ELSE <<x>>

\* What is left of a character is a piece.
LEMMA KeptType == \A x \in Char : Kept(x) \in Piece
BY DEF Kept, Char, Piece

KeptOf(s) == [i \in 1..Len(s) |-> Kept(s[i])]

\* Fragments in terms of what is left of each character.
LEMMA FragmentsUnfold ==
    ASSUME NEW s \in Seq(Char)
    PROVE  Fragments(s) = FlattenSeq(KeptOf(s)) /\ KeptOf(s) \in Seq(Piece)
<1>1. KeptOf(s) \in [1..Len(s) -> Piece]
  BY KeptType DEF KeptOf
<1>2. KeptOf(s) \in Seq(Piece)
  BY <1>1
<1> QED
  BY <1>2, Zenon DEF Fragments, KeptOf, Kept

\* Dropping the ends of line, character by character.
LEMMA FragmentsLaws ==
    /\ Fragments(<<>>) = <<>>
    /\ \A s \in Seq(Char) : Fragments(s) \in Piece
    /\ \A s \in Seq(Char) : \A x \in Char :
           Fragments(Append(s, x)) = Fragments(s) \o Kept(x)
    /\ \A s, t \in Seq(Char) : Fragments(s \o t) = Fragments(s) \o Fragments(t)
<1>1. Fragments(<<>>) = <<>>
  <2>1. KeptOf(<<>>) = <<>> /\ <<>> \in Seq(Char)
    BY DEF KeptOf
  <2> QED
    BY <2>1, FragmentsUnfold, FlattenLaws
<1>2. ASSUME NEW s \in Seq(Char) PROVE Fragments(s) \in Piece
  BY FragmentsUnfold, FlattenLaws DEF Piece
<1>3. ASSUME NEW s \in Seq(Char), NEW x \in Char
      PROVE  Fragments(Append(s, x)) = Fragments(s) \o Kept(x)
  <2>1. Append(s, x) \in Seq(Char) /\ Kept(x) \in Piece
    BY KeptType
  <2>2. KeptOf(s) \in Seq(Piece) /\ KeptOf(Append(s, x)) \in Seq(Piece)
    BY <2>1, FragmentsUnfold
  <2>3. KeptOf(Append(s, x)) = Append(KeptOf(s), Kept(x))
    <3> DEFINE a == KeptOf(Append(s, x))
               b == Append(KeptOf(s), Kept(x))
    <3>1. /\ Len(Append(s, x)) = Len(s) + 1 /\ Len(s) \in Nat
          /\ \A i \in 1..Len(s) : Append(s, x)[i] = s[i]
          /\ Append(s, x)[Len(s) + 1] = x
      OBVIOUS
    <3>2. /\ \A i \in 1..(Len(s) + 1) : a[i] = Kept(Append(s, x)[i])
          /\ Len(a) = Len(s) + 1
      BY <3>1 DEF KeptOf
    <3>3. /\ \A i \in 1..Len(s) : KeptOf(s)[i] = Kept(s[i])
          /\ Len(KeptOf(s)) = Len(s)
      BY DEF KeptOf
    <3>4. /\ b \in Seq(Piece) /\ Len(b) = Len(s) + 1
          /\ \A i \in 1..Len(s) : b[i] = KeptOf(s)[i]
          /\ b[Len(s) + 1] = Kept(x)
      BY <2>1, <2>2, <3>3, AppendFacts
    <3>5. \A i \in 1..(Len(s) + 1) : i \in 1..Len(s) \/ i = Len(s) + 1
      BY <3>1
    <3>5a. Len(s) + 1 \in 1..(Len(s) + 1) /\ \A i \in 1..Len(s) : i \in 1..(Len(s) + 1)
      BY <3>1
    <3> HIDE DEF a, b
    <3>6. \A i \in 1..(Len(s) + 1) : a[i] = b[i]
      <4>1. \A i \in 1..Len(s) : a[i] = b[i]
        BY <3>1, <3>2, <3>3, <3>4, <3>5a, Zenon
      <4>2. a[Len(s) + 1] = b[Len(s) + 1]
        BY <3>1, <3>2, <3>4, <3>5a, Zenon
      <4> QED
        BY <3>5, <4>1, <4>2, Zenon
    <3>7. a \in Seq(Piece)
      BY <2>2 DEF a
    <3>8. a = b
      BY <3>2, <3>4, <3>6, <3>7, SameSeq
    <3> QED
      BY <3>8 DEF a, b
  <2> QED
    BY <2>1, <2>2, <2>3, FragmentsUnfold, FlattenLaws DEF Piece
<1>4. ASSUME NEW s \in Seq(Char), NEW t \in Seq(Char)
      PROVE  Fragments(s \o t) = Fragments(s) \o Fragments(t)
  <2>1. s \o t \in Seq(Char)
    OBVIOUS
  <2>2. /\ KeptOf(s) \in Seq(Piece) /\ KeptOf(t) \in Seq(Piece)
        /\ KeptOf(s \o t) \in Seq(Piece)
    BY <2>1, FragmentsUnfold
  <2>3. KeptOf(s \o t) = KeptOf(s) \o KeptOf(t)
    <3> DEFINE a == KeptOf(s \o t)
               b == KeptOf(s) \o KeptOf(t)
    <3>1. /\ Len(KeptOf(s)) = Len(s) /\ Len(KeptOf(t)) = Len(t)
          /\ Len(a) = Len(s \o t) /\ Len(s \o t) = Len(s) + Len(t)
          /\ Len(s) \in Nat /\ Len(t) \in Nat
      BY <2>1 DEF KeptOf
    <3>2. b \in Seq(Piece) /\ Len(b) = Len(s) + Len(t)
      <4> HIDE DEF Piece
      <4> QED
        BY <2>2, <3>1, ConcatProperties
    <3>3. ASSUME NEW i \in 1..(Len(s) + Len(t)) PROVE a[i] = b[i]
      <4>1. a[i] = Kept((s \o t)[i])
        BY <3>1 DEF KeptOf
      <4>2. CASE i <= Len(s)
        <5>1. i \in 1..Len(s) /\ (s \o t)[i] = s[i]
          BY <3>1, <4>2
        <5>2. b[i] = KeptOf(s)[i]
          BY <2>2, <3>1, <5>1
        <5>3. KeptOf(s)[i] = Kept(s[i])
          BY <5>1 DEF KeptOf
        <5> QED
          BY <4>1, <5>1, <5>2, <5>3
      <4>3. CASE ~(i <= Len(s))
        <5>1. i - Len(s) \in 1..Len(t) /\ (s \o t)[i] = t[i - Len(s)]
          BY <3>1, <4>3
        <5>2. b[i] = KeptOf(t)[i - Len(s)]
          BY <2>2, <3>1, <4>3, <5>1
        <5>3. KeptOf(t)[i - Len(s)] = Kept(t[i - Len(s)])
          BY <5>1 DEF KeptOf
        <5> QED
          BY <4>1, <5>1, <5>2, <5>3
      <4> QED
        BY <4>2, <4>3
    <3> HIDE DEF a, b
    <3>4. a \in Seq(Piece)
      BY <2>2 DEF a
    <3>5. a = b
      BY <3>1, <3>2, <3>3, <3>4, SameSeq
    <3> QED
      BY <3>5 DEF a, b
  <2> QED
    <3>1. FlattenSeq(KeptOf(s) \o KeptOf(t))
              = FlattenSeq(KeptOf(s)) \o FlattenSeq(KeptOf(t))
      BY <2>2, FlattenConcat DEF Piece
    <3> QED
      BY <2>1, <2>3, <3>1, FragmentsUnfold
<1> QED
  BY <1>1, <1>2, <1>3, <1>4

\* The equation of the function in Pieces, for a domain 0..n.
PieceAt(d, f, n) ==
    IF n = 0 THEN << <<>> >>
    ELSE IF d[n] = EOL THEN Append(f[n - 1], <<>>)
    ELSE [f[n - 1] EXCEPT ![Len(f[n - 1])] = Append(@, d[n])]

PiecesEq(d, n, f) == f = [m \in 0..n |-> PieceAt(d, f, m)]

\* The equation has a solution.
LEMMA PiecesExist ==
    ASSUME NEW d
    PROVE  \A n \in Nat : \E f : PiecesEq(d, n, f)
<1> DEFINE T == {n \in Nat : \E f : PiecesEq(d, n, f)}
<1>1. 0 \in T
  <2> DEFINE g == [m \in 0..0 |-> << <<>> >>]
  <2>1. \A m \in 0..0 : PieceAt(d, g, m) = << <<>> >>
    BY DEF PieceAt
  <2>2. PiecesEq(d, 0, g)
    BY <2>1, Zenon DEF PiecesEq
  <2> QED
    BY <2>2
<1>2. ASSUME NEW n \in T PROVE n + 1 \in T
  <2>1. PICK f : PiecesEq(d, n, f)
    OBVIOUS
  <2>a. n \in Nat
    OBVIOUS
  <2> HIDE DEF T
  <2> DEFINE g == [m \in 0..(n + 1) |->
                      IF m = n + 1 THEN PieceAt(d, f, n + 1) ELSE f[m]]
  <2>2. \A m \in 0..n : f[m] = PieceAt(d, f, m)
    BY <2>1 DEF PiecesEq
  <2>3. ASSUME NEW m \in 0..(n + 1) PROVE g[m] = PieceAt(d, g, m)
    <3>1. m # 0 => m - 1 \in 0..(n + 1) /\ m - 1 # n + 1
      BY <2>a
    <3>2. m # 0 => g[m - 1] = f[m - 1]
      BY <3>1
    <3>3. PieceAt(d, g, m) = PieceAt(d, f, m)
      <4> HIDE DEF g
      <4> QED
        BY <3>2, Zenon DEF PieceAt
    <3>4. m # n + 1 => m \in 0..n
      BY <2>a
    <3>5. g[m] = IF m = n + 1 THEN PieceAt(d, f, n + 1) ELSE f[m]
      OBVIOUS
    <3> HIDE DEF g
    <3> QED
      BY <2>2, <3>3, <3>4, <3>5, Zenon
  <2>4. g = [m \in 0..(n + 1) |-> g[m]]
    OBVIOUS
  <2> HIDE DEF g
  <2>5. PiecesEq(d, n + 1, g)
    BY <2>3, <2>4, Zenon DEF PiecesEq
  <2>6. n + 1 \in Nat
    BY <2>a
  <2> QED
    BY <2>5, <2>6 DEF T
<1> HIDE DEF T
<1>3. T \in SUBSET Nat
  BY DEF T
<1>4. \A n \in Nat : n \in T
  BY <1>1, <1>2, <1>3, NatInSet, Zenon
<1> QED
  BY <1>4, Zenon DEF T

\* The function of Pieces satisfies its equation.
LEMMA PiecesDef ==
    ASSUME NEW S, NEW d \in Seq(S)
    PROVE  \A n \in 0..Len(d) : Pieces(d)[n] = PieceAt(d, Pieces(d), n)
<1> DEFINE f == Pieces(d)
<1>1. f = CHOOSE g : PiecesEq(d, Len(d), g)
  BY Zenon DEF Pieces, PiecesEq, PieceAt
<1>2. Len(d) \in Nat
  OBVIOUS
<1> HIDE DEF f
<1>3. PiecesEq(d, Len(d), f)
  BY <1>1, <1>2, PiecesExist
<1>4. \A n \in 0..Len(d) : f[n] = PieceAt(d, f, n)
  BY <1>3 DEF PiecesEq
<1> QED
  BY <1>4 DEF f

\* The pieces of a part of the output are its fragments, in order: split() loses
\* nothing but the ends of line.
LEMMA PiecesKeep ==
    ASSUME NEW d \in Seq(Char)
    PROVE  \A n \in 0..Len(d) :
               /\ Pieces(d)[n] \in Seq(Piece)
               /\ Pieces(d)[n] # <<>>
               /\ FlattenSeq(Pieces(d)[n]) = Fragments(SubSeq(d, 1, n))
<1> DEFINE f == Pieces(d)
           Good(n) == /\ f[n] \in Seq(Piece)
                      /\ f[n] # <<>>
                      /\ FlattenSeq(f[n]) = Fragments(SubSeq(d, 1, n))
           T == {n \in Nat : n \in 0..Len(d) => Good(n)}
<1>1. \A n \in 0..Len(d) : f[n] = PieceAt(d, f, n)
  BY PiecesDef
<1> HIDE DEF f
<1>2. 0 \in T
  <2>1. f[0] = << <<>> >>
    <3>1. 0 \in 0..Len(d)
      OBVIOUS
    <3>2. PieceAt(d, f, 0) = << <<>> >>
      BY Zenon DEF PieceAt
    <3> QED
      BY <1>1, <3>1, <3>2, Zenon
  <2>2. /\ << <<>> >> = Append(<<>>, <<>>) /\ <<>> \in Seq(Piece)
        /\ <<>> \in Piece /\ <<>> \in Seq(Fragment)
    BY DEF Piece
  <2>3. << <<>> >> \in Seq(Piece) /\ << <<>> >> # <<>>
    BY <2>2
  <2>4. FlattenSeq(Append(<<>>, <<>>)) = <<>>
    <3>1. FlattenSeq(Append(<<>>, <<>>)) = FlattenSeq(<<>>) \o <<>>
      BY <2>2, FlattenLaws DEF Piece
    <3>2. FlattenSeq(<<>>) = <<>>
      BY FlattenLaws
    <3>3. <<>> \o <<>> = <<>>
      BY <2>2, ConcatEmptySeq
    <3> QED
      BY <3>1, <3>2, <3>3
  <2>5. SubSeq(d, 1, 0) = <<>>
    BY SubSeqEmpty
  <2>6. Fragments(<<>>) = <<>>
    BY FragmentsLaws
  <2>7. Good(0)
    BY <2>1, <2>2, <2>3, <2>4, <2>5, <2>6, Zenon
  <2> QED
    BY <2>7
<1>3. ASSUME NEW n \in T PROVE n + 1 \in T
  <2> DEFINE m == n + 1
  <2>1. SUFFICES ASSUME m \in 0..Len(d) PROVE Good(m)
    OBVIOUS
  <2>2. n \in Nat /\ n \in 0..Len(d) /\ m \in 1..Len(d) /\ m - 1 = n /\ m # 0
    BY <2>1
  <2>3. Good(n)
    BY <2>2
  <2> HIDE DEF T, m
  <2>4. d[m] \in Char
    BY <2>2
  <2>5. /\ SubSeq(d, 1, m) = Append(SubSeq(d, 1, n), d[m])
        /\ SubSeq(d, 1, n) \in Seq(Char)
    BY <2>2 DEF m
  <2>6. Fragments(SubSeq(d, 1, m)) = Fragments(SubSeq(d, 1, n)) \o Kept(d[m])
    BY <2>4, <2>5, FragmentsLaws
  <2>7. /\ f[n] \in Seq(Piece) /\ f[n] # <<>>
        /\ FlattenSeq(f[n]) = Fragments(SubSeq(d, 1, n))
    BY <2>3
  <2>8. f[m] = PieceAt(d, f, m)
    BY <1>1, <2>1
  <2>9. CASE d[m] = EOL
    <3>1. f[m] = Append(f[n], <<>>)
      BY <2>2, <2>8, <2>9 DEF PieceAt
    <3>2. <<>> \in Piece
      BY DEF Piece
    <3>3. f[m] \in Seq(Piece) /\ f[m] # <<>>
      BY <2>7, <3>1, <3>2
    <3>4. FlattenSeq(f[m]) = FlattenSeq(f[n]) \o <<>>
      BY <2>7, <3>1, <3>2, FlattenLaws DEF Piece
    <3>5. Kept(d[m]) = <<>>
      BY <2>9 DEF Kept
    <3> QED
      BY <2>6, <2>7, <3>3, <3>4, <3>5
  <2>10. CASE d[m] # EOL
    <3>1. PICK front \in Seq(Piece), last \in Piece : f[n] = Append(front, last)
      BY <2>7, SequenceEmptyOrAppend
    <3> DEFINE k == Len(front)
               new == Append(last, d[m])
    <3>2. d[m] \in Fragment /\ last \in Seq(Fragment) /\ new \in Piece
      BY <2>4, <2>10 DEF Char, Piece
    <3>3. /\ k \in Nat /\ Len(f[n]) = k + 1 /\ f[n][k + 1] = last
          /\ \A i \in 1..k : f[n][i] = front[i]
      BY <3>1, AppendFacts
    <3>4. f[m] = [f[n] EXCEPT ![k + 1] = new]
      BY <2>2, <2>8, <2>10, <3>3 DEF PieceAt
    <3> HIDE DEF new, k
    <3>5. f[m] = Append(front, new)
      <4> DEFINE a == [f[n] EXCEPT ![k + 1] = new]
                 b == Append(front, new)
      <4>1. k + 1 \in 1..Len(f[n])
        BY <3>3
      <4>2. /\ a \in Seq(Piece) /\ Len(a) = k + 1 /\ a[k + 1] = new
            /\ \A i \in 1..Len(f[n]) : i # k + 1 => a[i] = f[n][i]
        BY <2>7, <3>2, <3>3, <4>1, UpdateFacts
      <4>3. /\ b \in Seq(Piece) /\ Len(b) = k + 1 /\ b[k + 1] = new
            /\ \A i \in 1..k : b[i] = front[i]
        BY <3>1, <3>2, AppendFacts DEF k
      <4> HIDE DEF a, b
      <4>4. \A i \in 1..Len(a) : a[i] = b[i]
        <5>1. \A i \in 1..(k + 1) :
                  i = k + 1 \/ (i \in 1..k /\ i \in 1..Len(f[n]) /\ i # k + 1)
          BY <3>3
        <5> QED
          BY <3>3, <4>2, <4>3, <5>1, Zenon
      <4>5. a = b
        BY <4>2, <4>3, <4>4, SameSeq
      <4> QED
        BY <3>4, <4>5 DEF a, b
    <3>6. f[m] \in Seq(Piece) /\ f[m] # <<>>
      BY <3>1, <3>2, <3>5
    <3>7. /\ FlattenSeq(f[m]) = FlattenSeq(front) \o new
          /\ FlattenSeq(f[n]) = FlattenSeq(front) \o last
          /\ FlattenSeq(front) \in Seq(Fragment)
      BY <3>1, <3>2, <3>5, FlattenLaws DEF Piece
    <3>8. new = last \o <<d[m]>> /\ <<d[m]>> \in Seq(Fragment)
      BY <3>2, AppendIsConcat DEF new
    <3>9. \A a, b, c \in Seq(Fragment) : (a \o b) \o c = a \o (b \o c)
      BY ONLY ConcatLaws
    <3>10. FlattenSeq(front) \o new = (FlattenSeq(front) \o last) \o <<d[m]>>
      BY <3>2, <3>7, <3>8, <3>9
    <3>11. Kept(d[m]) = <<d[m]>>
      BY <2>10 DEF Kept
    <3> QED
      BY <2>6, <2>7, <3>6, <3>7, <3>10, <3>11
  <2> QED
    BY <2>9, <2>10
<1> HIDE DEF T
<1>4. T \in SUBSET Nat
  BY DEF T
<1>5. \A n \in Nat : n \in T
  BY <1>2, <1>3, <1>4, NatInSet, Zenon
<1>6. \A n \in 0..Len(d) : n \in Nat
  OBVIOUS
<1> QED
  BY <1>5, <1>6, Zenon DEF T, f

\* The same of a whole chunk.
LEMMA SplitKeeps ==
    ASSUME NEW d \in Seq(Char)
    PROVE  /\ Split(d) \in Seq(Piece)
           /\ FlattenSeq(Split(d)) = Fragments(d)
<1>1. Len(d) \in 0..Len(d)
  OBVIOUS
<1>2. SubSeq(d, 1, Len(d)) = d
  BY SubSeqFull
<1> QED
  BY <1>1, <1>2, PiecesKeep DEF Split

-----------------------------------------------------------------------------
(* The queue *)

\* What a value of the queue is, and that Pending is none.
LEMMA HeldFacts ==
    /\ Pending \in Held
    /\ \A x \in Piece : x \in Held /\ x # Pending
    /\ \A x \in Held : x # Pending => x \in Piece
BY PendingAssumption DEF Held, Piece, Fragment

\* What the shape says of the state.
LEMMA ShapeFacts ==
    ASSUME Shape
    PROVE  /\ value \in Seq(Held) /\ taken \in Seq(Nat)
           /\ promises \in Seq(Nat) /\ resolvers \in Seq(Nat)
           /\ Len(value) \in Nat /\ Len(taken) \in Nat
           /\ Len(promises) \in Nat /\ Len(resolvers) \in Nat
           /\ Len(taken) <= Len(value) /\ Len(resolvers) <= Len(taken)
           /\ Len(taken) + Len(promises) = Len(value)
           /\ \A i \in 1..Len(taken) : taken[i] = i
           /\ \A e \in 1..Len(value) :
                  value[e] = Pending <=> e > Len(value) - Len(resolvers)
<1>1. /\ value \in Seq(Held) /\ taken \in Seq(Nat)
      /\ promises \in Seq(Nat) /\ resolvers \in Seq(Nat)
      /\ Len(value) \in Nat /\ Len(taken) \in Nat
      /\ Len(promises) \in Nat /\ Len(resolvers) \in Nat
      /\ Len(resolvers) <= Len(taken) /\ Len(taken) + Len(promises) = Len(value)
      /\ \A i \in 1..Len(taken) : taken[i] = i
      /\ \A e \in 1..Len(value) :
             value[e] = Pending <=> e > Len(value) - Len(resolvers)
  BY ShapeParts DEF Shape
<1>2. Len(taken) <= Len(value)
  BY <1>1
<1> QED
  BY <1>1, <1>2

\* What was sent are the resolved entries.
LEMMA SentPieces ==
    ASSUME NEW p, NEW r, NEW v, NEW t, ShapeOf(Held, Pending, p, r, v, t)
    PROVE  /\ SentOf(v, r) \in Seq(Piece)
           /\ Len(SentOf(v, r)) = Len(v) - Len(r)
           /\ Len(v) - Len(r) \in Nat
           /\ \A k \in 1..(Len(v) - Len(r)) : SentOf(v, r)[k] = v[k]
<1> DEFINE n == Len(v) - Len(r)
           s == SentOf(v, r)
<1>1. /\ s \in Seq(Held) /\ Len(s) = n /\ n \in Nat
      /\ \A i \in 1..n : s[i] = v[i] /\ v[i] \in Held /\ v[i] # Pending
  BY SentFacts
<1> HIDE DEF n, s
<1>2. \A i \in 1..Len(s) : s[i] \in Piece
  BY <1>1, HeldFacts
<1>3. s \in Seq(Piece)
  BY <1>1, <1>2
<1> QED
  BY <1>1, <1>3 DEF n, s

\* Q!Sent, now and in the next state.
LEMMA SentIs ==
    /\ Q!Sent = SentOf(value, resolvers)
    /\ Q!Sent' = SentOf(value', resolvers')
BY DEF Q!Sent, Q!EnqueueCalls, SentOf

\* enqueue() adds to what was sent and changes no value that was there.
LEMMA EnqueueStep ==
    ASSUME Shape, NEW x \in Piece, Q!Enqueue(x)
    PROVE  /\ Shape'
           /\ taken' = taken
           /\ Q!Sent' = Append(Q!Sent, x)
           /\ \A k \in 1..Len(value) : value[k] # Pending => value'[k] = value[k]
<1>0. x \in Held /\ x # Pending
  BY HeldFacts
<1>1. /\ value \in Seq(Held) /\ resolvers \in Seq(Nat)
      /\ Len(value) \in Nat /\ Len(resolvers) \in Nat
      /\ Len(resolvers) <= Len(value)
      /\ \A e \in 1..Len(value) :
             value[e] = Pending <=> e > Len(value) - Len(resolvers)
  BY ShapeFacts
<1> DEFINE n == Len(value) - Len(resolvers)
<1>2. /\ Shape' /\ taken' = taken
      /\ Len(value') - Len(resolvers') = n + 1
      /\ \A i \in 1..n : value'[i] = value[i]
      /\ value'[n + 1] = x
      /\ \A k \in 1..Len(value) : value[k] # Pending => value'[k] = value[k]
  <2>1. CASE resolvers = <<>>
    <3>1. /\ promises' = Append(promises, Len(value) + 1)
          /\ value' = Append(value, x)
          /\ resolvers' = resolvers /\ taken' = taken
      BY <2>1 DEF Q!Enqueue, Q!NewEntry
    <3>2. Len(resolvers) = 0
      BY <2>1
    <3>3. Shape'
      BY <1>0, <3>1, <3>2, ShapeEnqueueNew DEF Shape
    <3>4. /\ Len(Append(value, x)) = Len(value) + 1
          /\ \A i \in 1..Len(value) : Append(value, x)[i] = value[i]
          /\ Append(value, x)[Len(value) + 1] = x
      BY <1>0, <1>1, AppendFacts
    <3>5. n = Len(value)
      BY <1>1, <3>2
    <3> HIDE DEF n
    <3> QED
      BY <1>1, <3>1, <3>2, <3>3, <3>4, <3>5
  <2>2. CASE resolvers # <<>>
    <3>1. /\ resolvers' = Tail(resolvers)
          /\ value' = [value EXCEPT ![Head(resolvers)] = x]
          /\ promises' = promises /\ taken' = taken
      BY <2>2 DEF Q!Enqueue
    <3>2. /\ ShapeOf(Held, Pending, promises, Tail(resolvers),
                     [value EXCEPT ![Head(resolvers)] = x], taken)
          /\ Head(resolvers) = Len(value) - Len(resolvers) + 1
          /\ Head(resolvers) \in 1..Len(value)
          /\ Len(Tail(resolvers)) = Len(resolvers) - 1
      BY <1>0, <2>2, ShapeEnqueueWaiting DEF Shape
    <3>3. Head(resolvers) = n + 1 /\ n + 1 \in 1..Len(value)
      BY <3>2
    <3>4. Shape'
      BY <3>1, <3>2 DEF Shape
    <3>5. /\ Len([value EXCEPT ![n + 1] = x]) = Len(value)
          /\ \A i \in 1..Len(value) :
                 i # n + 1 => [value EXCEPT ![n + 1] = x][i] = value[i]
          /\ [value EXCEPT ![n + 1] = x][n + 1] = x
      <4> HIDE DEF n
      <4> QED
        BY <1>0, <1>1, <3>3, UpdateFacts
    <3>6. /\ \A i \in 1..n : i \in 1..Len(value) /\ i # n + 1
          /\ Len(value) - (Len(resolvers) - 1) = n + 1
          /\ n + 1 > n
      BY <1>1, <3>3
    <3>7. value[n + 1] = Pending
      BY <1>1, <3>3, <3>6
    <3> HIDE DEF n
    <3>8. value' = [value EXCEPT ![n + 1] = x] /\ Len(resolvers') = Len(resolvers) - 1
      BY <3>1, <3>2, <3>3
    <3> QED
      BY <3>1, <3>4, <3>5, <3>6, <3>7, <3>8
  <2> QED
    BY <2>1, <2>2
<1>3. Q!Sent' = Append(Q!Sent, x)
  <2> DEFINE s == SentOf(value, resolvers)
             s2 == SentOf(value', resolvers')
             a == Append(s, x)
  <2>1. /\ s \in Seq(Piece) /\ Len(s) = n /\ n \in Nat
        /\ \A k \in 1..n : s[k] = value[k]
    BY SentPieces DEF Shape
  <2>2. /\ s2 \in Seq(Piece) /\ Len(s2) = Len(value') - Len(resolvers')
        /\ \A k \in 1..(Len(value') - Len(resolvers')) : s2[k] = value'[k]
    BY <1>2, SentPieces DEF Shape
  <2> HIDE DEF n, s, s2
  <2>3. /\ Len(s2) = n + 1 /\ \A k \in 1..(n + 1) : s2[k] = value'[k]
    BY <1>2, <2>2
  <2>4. /\ a \in Seq(Piece) /\ Len(a) = n + 1 /\ a[n + 1] = x
        /\ \A i \in 1..n : a[i] = s[i]
    BY <2>1, AppendFacts
  <2> HIDE DEF a
  <2>5. ASSUME NEW k \in 1..Len(s2) PROVE s2[k] = a[k]
    <3>1. k \in 1..(n + 1) /\ (k \in 1..n \/ k = n + 1)
      BY <2>1, <2>3
    <3> QED
      BY <1>2, <2>1, <2>3, <2>4, <3>1, Zenon
  <2>6. s2 = a
    BY <2>2, <2>3, <2>4, <2>5, SameSeq
  <2> QED
    BY <2>6, SentIs DEF s, s2, a
<1> QED
  BY <1>2, <1>3

\* dequeue() hands out the next entry and changes no value that was there.
LEMMA DequeueStep ==
    ASSUME Shape, Q!Dequeue
    PROVE  /\ Shape'
           /\ Len(taken') = Len(taken) + 1
           /\ Last(taken') = Len(taken')
           /\ Q!Sent' = Q!Sent
           /\ \A k \in 1..Len(value) : value'[k] = value[k]
<1>0. Pending \in Held
  BY HeldFacts
<1>1. /\ value \in Seq(Held) /\ resolvers \in Seq(Nat) /\ taken \in Seq(Nat)
      /\ promises \in Seq(Nat)
      /\ Len(value) \in Nat /\ Len(resolvers) \in Nat /\ Len(taken) \in Nat
      /\ Len(resolvers) <= Len(taken) /\ Len(taken) <= Len(value)
  BY ShapeFacts
<1>2. /\ Shape'
      /\ Len(taken') = Len(taken) + 1
      /\ Len(value') - Len(resolvers') = Len(value) - Len(resolvers)
      /\ \A k \in 1..Len(value) : value'[k] = value[k]
  <2>1. CASE promises = <<>>
    <3>1. /\ resolvers' = Append(resolvers, Len(value) + 1)
          /\ value' = Append(value, Pending)
          /\ taken' = Append(taken, Len(value) + 1) /\ promises' = promises
      BY <2>1 DEF Q!Dequeue, Q!NewEntry
    <3>2. Len(promises) = 0
      BY <2>1
    <3>3. Shape'
      BY <1>0, <3>1, <3>2, ShapeDequeueNew DEF Shape
    <3>4. /\ Len(Append(value, Pending)) = Len(value) + 1
          /\ \A i \in 1..Len(value) : Append(value, Pending)[i] = value[i]
      BY <1>0, <1>1, AppendFacts
    <3>5. /\ Len(Append(resolvers, Len(value) + 1)) = Len(resolvers) + 1
          /\ Len(Append(taken, Len(value) + 1)) = Len(taken) + 1
      BY <1>1, AppendFacts
    <3>6. (Len(value) + 1) - (Len(resolvers) + 1) = Len(value) - Len(resolvers)
      BY <1>1
    <3> QED
      BY <3>1, <3>3, <3>4, <3>5, <3>6
  <2>2. CASE promises # <<>>
    <3>1. /\ promises' = Tail(promises)
          /\ taken' = Append(taken, Head(promises))
          /\ resolvers' = resolvers /\ value' = value
      BY <2>2 DEF Q!Dequeue
    <3>2. ShapeOf(Held, Pending, Tail(promises), resolvers, value,
                  Append(taken, Head(promises)))
      BY <2>2, ShapeDequeueWaiting DEF Shape
    <3>3. Head(promises) \in Nat
      BY <1>1, <2>2, HeadTailProperties
    <3>4. Len(Append(taken, Head(promises))) = Len(taken) + 1
      BY <1>1, <3>3, AppendFacts
    <3> QED
      BY <3>1, <3>2, <3>4 DEF Shape
  <2> QED
    BY <2>1, <2>2
<1>3. Last(taken') = Len(taken')
  <2>1. \A i \in 1..Len(taken') : taken'[i] = i
    BY <1>2, ShapeParts DEF Shape
  <2>2. Len(taken') \in 1..Len(taken')
    BY <1>1, <1>2
  <2> QED
    BY <2>1, <2>2 DEF Last
<1>4. Q!Sent' = Q!Sent
  <2> DEFINE s == SentOf(value, resolvers)
             s2 == SentOf(value', resolvers')
             n == Len(value) - Len(resolvers)
  <2>1. /\ s \in Seq(Piece) /\ Len(s) = n /\ n \in Nat
        /\ \A k \in 1..n : s[k] = value[k]
    BY SentPieces DEF Shape
  <2>2. /\ s2 \in Seq(Piece) /\ Len(s2) = Len(value') - Len(resolvers')
        /\ \A k \in 1..(Len(value') - Len(resolvers')) : s2[k] = value'[k]
    BY <1>2, SentPieces DEF Shape
  <2>3. \A k \in 1..n : k \in 1..Len(value)
    BY <1>1
  <2> HIDE DEF n, s, s2
  <2>4. /\ Len(s2) = n /\ \A k \in 1..n : s2[k] = value'[k]
    BY <1>2, <2>2 DEF n
  <2>5. \A k \in 1..Len(s2) : s2[k] = s[k]
    BY <1>2, <2>1, <2>3, <2>4, Zenon
  <2>6. s2 = s
    BY <2>1, <2>2, <2>4, <2>5, SameSeq
  <2> QED
    BY <2>6, SentIs DEF s, s2
<1> QED
  BY <1>2, <1>3, <1>4

-----------------------------------------------------------------------------
(* The calls *)

\* A call, field by field.
LEMMA CallFields ==
    ASSUME NEW c \in Call
    PROVE  /\ c.kind \in {"expect", "expectNext"} /\ c.cond \in Texts
           /\ c.from \in Nat \ {0} /\ c.entry \in Nat \ {0}
           /\ c.active \in BOOLEAN /\ c.outcome \in Outcome
BY DEF Call

\* What a call has passed over stays, when the values that are there do.
LEMMA SearchedKept ==
    ASSUME NEW c \in Call, NEW t \in Nat, CallOK(c, t),
           NEW v, NEW v2, NEW n \in Nat, t <= n, SearchedOK(c, v),
           \A k \in 1..n : v[k] # Pending => v2[k] = v[k]
    PROVE  SearchedOK(c, v2)
<1>1. c.from \in Nat \ {0} /\ c.entry \in Nat \ {0} /\ c.entry <= n
  BY CallFields DEF CallOK
<1>2. \A k \in c.from..(c.entry - 1) : k \in 1..n
  BY <1>1
<1>3. c.entry \in 1..n
  BY <1>1
<1> QED
  BY <1>2, <1>3, Zenon DEF SearchedOK

\* The calls stay as they are, and what was taken does: every step but those of
\* the test.
LEMMA CallsUnchanged ==
    ASSUME Shape, CallInv, calls' = calls, taken' = taken,
           \A k \in 1..Len(value) : value[k] # Pending => value'[k] = value[k]
    PROVE  CallInv'
<1>1. CallsOK' /\ LastPending' /\ TakenInTurn'
  BY DEF CallInv, CallsOK, LastPending, TakenInTurn, Clean
<1>2. Searched'
  <2> SUFFICES ASSUME NEW i \in 1..Len(calls), Clean(i)
               PROVE  InTurn(i) /\ SearchedOK(calls[i], value')
    BY DEF Searched, Clean, InTurn
  <2>1. InTurn(i) /\ SearchedOK(calls[i], value)
    BY DEF CallInv, Searched
  <2>2. calls[i] \in Call /\ CallOK(calls[i], Len(taken))
    BY DEF CallInv, CallsOK
  <2>3. Len(taken) \in Nat /\ Len(value) \in Nat /\ Len(taken) <= Len(value)
    BY ShapeFacts
  <2> QED
    BY <2>1, <2>2, <2>3, SearchedKept
<1> QED
  BY <1>1, <1>2 DEF CallInv

\* A call ends, or its caller gives up: nothing is taken from the queue.
LEMMA CallEnds ==
    ASSUME Shape, CallInv, NEW i \in 1..Len(calls), NEW c \in Call,
           calls' = [calls EXCEPT ![i] = c], taken' = taken, value' = value,
           c.from = calls[i].from, c.entry = calls[i].entry,
           CallOK(c, Len(taken)), c.outcome # "pending",
           calls[i].outcome = "timeout" => c.outcome = "timeout",
           Clean(i) => SearchedOK(c, value)
    PROVE  CallInv'
<1>0. calls \in Seq(Call)
  BY DEF CallInv, CallsOK
<1>1. /\ calls' \in Seq(Call) /\ Len(calls') = Len(calls)
      /\ calls'[i] = c
      /\ \A j \in 1..Len(calls) : j # i => calls'[j] = calls[j]
  BY <1>0
<1>2. CallsOK'
  BY <1>1 DEF CallInv, CallsOK
<1>3. LastPending'
  BY <1>1 DEF CallInv, LastPending
<1>4. ASSUME NEW j \in 1..Len(calls), Clean(j)' PROVE Clean(j)
  <2>1. \A k \in 1..j : k \in 1..Len(calls)
    BY <1>0
  <2> QED
    BY <1>1, <1>4, <2>1, Zenon DEF Clean
<1>5. \A j \in 1..Len(calls) : calls'[j].entry = calls[j].entry
                               /\ calls'[j].from = calls[j].from
  BY <1>1
<1>6. TakenInTurn'
  <2> SUFFICES ASSUME Clean(Len(calls))'
               PROVE  Len(taken) = IF calls' = <<>> THEN 0
                                   ELSE calls'[Len(calls)].entry
    BY <1>1 DEF TakenInTurn, Clean
  <2>1. Len(calls) \in 1..Len(calls) /\ calls # <<>> /\ calls' # <<>>
    BY <1>0, <1>1
  <2>2. Clean(Len(calls))
    <3>1. PICK m : m = Len(calls)
      OBVIOUS
    <3>2. m \in 1..Len(calls) /\ \A k \in 1..m : k \in 1..Len(calls)
      BY <2>1, <3>1
    <3>3. \A k \in 1..m : calls'[k].outcome # "timeout"
      BY <1>1, <3>1 DEF Clean
    <3>4. \A k \in 1..m : calls[k].outcome # "timeout"
      BY <1>1, <3>2, <3>3, Zenon
    <3> QED
      BY <3>1, <3>4 DEF Clean
  <2> QED
    BY <1>5, <2>1, <2>2 DEF CallInv, TakenInTurn
<1>7. Searched'
  <2> SUFFICES ASSUME NEW j \in 1..Len(calls), Clean(j)'
               PROVE  InTurn(j)' /\ SearchedOK(calls'[j], value)
    BY <1>1 DEF Searched
  <2>1. Clean(j)
    BY <1>4
  <2>2. InTurn(j) /\ SearchedOK(calls[j], value)
    BY <2>1 DEF CallInv, Searched
  <2>3. InTurn(j)'
    <3>1. j # 1 => j - 1 \in 1..Len(calls)
      BY <1>0
    <3> QED
      BY <1>5, <2>2, <3>1 DEF InTurn
  <2>4. SearchedOK(calls'[j], value)
    BY <1>1, <2>1, <2>2
  <2> QED
    BY <2>3, <2>4
<1> QED
  BY <1>2, <1>3, <1>6, <1>7 DEF CallInv

\* A new call takes the next promise.
LEMMA CallBegins ==
    ASSUME Shape, CallInv,
           NEW kind \in {"expect", "expectNext"}, NEW c \in Texts,
           Expect(kind, c)
    PROVE  CallInv'
<1> DEFINE T == Len(taken)
           N == Len(calls)
           new == [kind |-> kind, cond |-> c, from |-> T + 1, entry |-> T + 1,
                   active |-> TRUE, outcome |-> "pending"]
<1>0. calls \in Seq(Call) /\ N \in Nat
  BY DEF CallInv, CallsOK
<1>1. T \in Nat /\ Len(value) \in Nat /\ T <= Len(value)
  BY ShapeFacts
<1>2. /\ Len(taken') = T + 1 /\ Last(taken') = Len(taken')
      /\ \A k \in 1..Len(value) : value'[k] = value[k]
  BY DequeueStep DEF Expect
<1>3. calls' = Append(calls, new)
  BY <1>2 DEF Expect
<1>4. new \in Call /\ CallOK(new, T + 1)
  BY <1>1 DEF Call, Outcome, CallOK
<1>5. new.outcome = "pending" /\ new.from = T + 1 /\ new.entry = T + 1
  OBVIOUS
<1> HIDE DEF new
<1>6. /\ calls' \in Seq(Call) /\ Len(calls') = N + 1 /\ calls'[N + 1] = new
      /\ \A i \in 1..N : calls'[i] = calls[i]
  BY <1>0, <1>3, <1>4, AppendFacts
<1>7. \A i \in 1..Len(calls') : i \in 1..N \/ i = N + 1
  BY <1>0, <1>6
<1>8. \A i \in 1..N : calls[i] \in Call /\ CallOK(calls[i], T)
  BY DEF CallInv, CallsOK
<1>9. CallsOK'
  <2>1. \A i \in 1..N : CallOK(calls[i], T + 1)
    BY <1>1, <1>8 DEF CallOK
  <2> QED
    BY <1>2, <1>4, <1>6, <1>7, <2>1 DEF CallsOK
<1>10. LastPending'
  <2>1. \A i \in 1..N : calls[i].outcome # "pending"
    BY DEF Expect, CallerFree
  <2> QED
    BY <1>6, <1>7, <2>1 DEF LastPending
<1> HIDE DEF N, T
<1>11. ASSUME NEW i \in 1..N, Clean(i)' PROVE Clean(i)
  <2>1. \A j \in 1..i : j \in 1..N
    BY <1>0
  <2> QED
    BY <1>6, <1>11, <2>1, Zenon DEF Clean
<1>12. TakenInTurn'
  <2>1. calls' # <<>>
    BY <1>0, <1>6
  <2>2. calls'[Len(calls')].entry = T + 1
    BY <1>5, <1>6
  <2> QED
    BY <1>2, <2>1, <2>2 DEF TakenInTurn
<1>13. Searched'
  <2> SUFFICES ASSUME NEW i \in 1..Len(calls'), Clean(i)'
               PROVE  InTurn(i)' /\ SearchedOK(calls'[i], value')
    BY DEF Searched
  <2>1. CASE i \in 1..N
    <3>1. InTurn(i) /\ SearchedOK(calls[i], value)
      BY <1>11, <2>1 DEF CallInv, Searched, N
    <3>2. InTurn(i)'
      <4>1. i # 1 => i - 1 \in 1..N
        BY <1>0, <2>1
      <4> QED
        BY <1>6, <2>1, <3>1, <4>1 DEF InTurn
    <3>3. SearchedOK(calls[i], value')
      BY <1>1, <1>2, <1>8, <2>1, <3>1, SearchedKept
    <3> QED
      BY <1>6, <2>1, <3>2, <3>3
  <2>2. CASE i = N + 1
    <3>1. \A j \in 1..N : calls[j].outcome # "timeout"
      <4>1. \A j \in 1..N : j \in 1..i
        BY <1>0, <2>2
      <4> QED
        BY <1>6, <4>1, Zenon DEF Clean
    <3>2. T = IF calls = <<>> THEN 0 ELSE calls[N].entry
      BY <3>1 DEF CallInv, TakenInTurn, Clean, N, T
    <3>3. InTurn(i)'
      <4>1. CASE N = 0
        <5>1. calls = <<>>
          BY <1>0, <4>1 DEF N
        <5> QED
          BY <1>5, <1>6, <2>2, <3>2, <4>1, <5>1 DEF InTurn
      <4>2. CASE N # 0
        <5>1. calls # <<>> /\ i # 1 /\ i - 1 = N /\ N \in 1..N
          BY <1>0, <2>2, <4>2 DEF N
        <5>2. calls'[i - 1].entry = T
          BY <1>6, <3>2, <5>1
        <5> QED
          BY <1>5, <1>6, <2>2, <5>1, <5>2 DEF InTurn
      <4> QED
        BY <4>1, <4>2
    <3>4. SearchedOK(new, value')
      <4>1. \A k \in (T + 1)..((T + 1) - 1) : FALSE
        BY <1>1 DEF T
      <4> QED
        BY <1>5, <4>1 DEF SearchedOK
    <3> QED
      BY <1>6, <2>2, <3>3, <3>4
  <2> QED
    BY <1>7, <2>1, <2>2
<1> QED
  BY <1>9, <1>10, <1>12, <1>13 DEF CallInv

\* A search goes on with the next promise.
LEMMA CallGoesOn ==
    ASSUME Shape, CallInv, NEW i \in 1..Len(calls), Ready(i), Q!Dequeue,
           ~Match(calls[i].cond, value[calls[i].entry]),
           calls' = [calls EXCEPT ![i].entry = Last(taken')]
    PROVE  CallInv'
<1> DEFINE T == Len(taken)
           N == Len(calls)
           c == [calls[i] EXCEPT !.entry = T + 1]
<1>0. calls \in Seq(Call) /\ N \in Nat
  BY DEF CallInv, CallsOK
<1>1. T \in Nat /\ Len(value) \in Nat /\ T <= Len(value)
  BY ShapeFacts
<1>2. /\ Len(taken') = T + 1 /\ Last(taken') = T + 1
      /\ \A k \in 1..Len(value) : value'[k] = value[k]
  BY DequeueStep
<1>8. \A j \in 1..N : calls[j] \in Call /\ CallOK(calls[j], T)
  BY DEF CallInv, CallsOK
<1>3. /\ c \in Call /\ c.entry = T + 1 /\ c.from = calls[i].from
      /\ c.cond = calls[i].cond /\ c.outcome = calls[i].outcome
      /\ c.active = calls[i].active
  <2>1. calls[i] \in Call /\ T + 1 \in Nat \ {0}
    BY <1>1, <1>8
  <2> HIDE DEF T
  <2> QED
    BY ONLY <2>1 DEF Call
<1>4. calls' = [calls EXCEPT ![i] = c]
  BY <1>2
<1> HIDE DEF c
<1>5. CallOK(c, T + 1)
  <2>1. calls[i] \in Call /\ CallOK(calls[i], T)
    BY <1>8
  <2>2. c.from \in 1..(T + 1)
    BY <1>1, <1>3, <2>1, CallFields DEF CallOK
  <2> QED
    BY <1>1, <1>3, <2>1, <2>2 DEF CallOK
<1>6. /\ calls' \in Seq(Call) /\ Len(calls') = N /\ calls'[i] = c
      /\ \A j \in 1..N : j # i => calls'[j] = calls[j]
  BY <1>0, <1>3, <1>4
<1>7. \A j \in 1..N : calls'[j].outcome = calls[j].outcome
                      /\ calls'[j].from = calls[j].from
  BY <1>3, <1>6
<1>9. CallsOK'
  <2>1. \A j \in 1..N : CallOK(calls[j], T + 1)
    BY <1>1, <1>8 DEF CallOK
  <2> QED
    BY <1>2, <1>5, <1>6, <2>1 DEF CallsOK
<1>10. LastPending'
  BY <1>6, <1>7 DEF CallInv, LastPending
<1>11. i \in 1..N
  OBVIOUS
<1> HIDE DEF N, T
<1>12. ASSUME NEW j \in 1..N, Clean(j)' PROVE Clean(j)
  <2>1. \A k \in 1..j : k \in 1..N
    BY <1>0
  <2> QED
    BY <1>7, <1>12, <2>1, Zenon DEF Clean
\* Without a timeout the call is the last one, and the queue is where it is.
<1>13. ASSUME Clean(i) PROVE i = N /\ T = calls[i].entry
  <2>1. calls[i].outcome = "pending"
    <3>1. CallOK(calls[i], T) /\ calls[i].active
      BY <1>8, <1>11 DEF Ready
    <3>2. i \in 1..i
      BY <1>0, <1>11
    <3> QED
      BY <1>13, <3>1, <3>2 DEF CallOK, Clean
  <2>2. i = N
    BY <1>11, <2>1 DEF CallInv, LastPending, N
  <2>3. calls # <<>>
    BY <1>0, <1>11 DEF N
  <2> QED
    BY <1>13, <2>2, <2>3 DEF CallInv, TakenInTurn, N, T
<1>14. TakenInTurn'
  <2> SUFFICES ASSUME Clean(Len(calls))'
               PROVE  T + 1 = IF calls' = <<>> THEN 0 ELSE calls'[N].entry
    BY <1>2, <1>6 DEF TakenInTurn, Clean
  <2>1. \A k \in 1..i : calls[k].outcome # "timeout"
    <3>1. \A k \in 1..i : k \in 1..N
      BY <1>0, <1>11
    <3>2. \A k \in 1..N : calls'[k].outcome # "timeout"
      BY <1>6 DEF Clean
    <3> QED
      BY <1>7, <3>1, <3>2, Zenon
  <2>2. i = N
    BY <1>13, <2>1 DEF Clean
  <2>3. calls' # <<>>
    BY <1>0, <1>6, <1>11
  <2> QED
    BY <1>3, <1>6, <2>2, <2>3
<1>15. Searched'
  <2> SUFFICES ASSUME NEW j \in 1..N, Clean(j)'
               PROVE  InTurn(j)' /\ SearchedOK(calls'[j], value')
    BY <1>6 DEF Searched
  <2>1. Clean(j) /\ InTurn(j) /\ SearchedOK(calls[j], value)
    BY <1>12 DEF CallInv, Searched, N
  <2>2. SearchedOK(calls[j], value')
    BY <1>1, <1>2, <1>8, <2>1, SearchedKept
  <2>3. InTurn(j)'
    <3>1. j # 1 => j - 1 \in 1..N /\ j - 1 # i
      <4>1. ASSUME j # 1, j - 1 = i PROVE FALSE
        <5>1. i \in 1..j /\ \A k \in 1..i : k \in 1..j
          BY <1>0, <1>11, <4>1
        <5>2. Clean(i)
          BY <2>1, <5>1 DEF Clean
        <5>3. i = N
          BY <1>13, <5>2
        <5> QED
          BY <1>0, <4>1, <5>3
      <4>2. j # 1 => j - 1 \in 1..N
        BY <1>0
      <4> QED
        BY <4>1, <4>2
    <3> QED
      BY <1>6, <1>7, <2>1, <3>1 DEF InTurn
  <2>4. CASE j # i
    BY <1>6, <2>2, <2>3, <2>4
  <2>5. CASE j = i
    <3>1. T = calls[i].entry
      BY <1>13, <2>1, <2>5
    <3>2. value[T] # Pending /\ ~Match(c.cond, value[T])
      BY <1>3, <3>1 DEF Ready
    <3>3. T \in 1..Len(value)
      <4>1. calls[i] \in Call
        BY <1>8, <1>11
      <4>2. T # 0
        BY <3>1, <4>1, CallFields
      <4> QED
        BY <1>1, <4>2
    <3>4. value'[T] = value[T]
      BY <1>2, <3>3
    <3>5. \A k \in c.from..(T - 1) :
              value'[k] # Pending /\ ~Match(c.cond, value'[k])
      BY <1>3, <2>2, <2>5, <3>1 DEF SearchedOK
    <3>6. \A k \in c.from..((T + 1) - 1) : k \in c.from..(T - 1) \/ k = T
      <4>1. c.from \in Nat
        BY <1>3, CallFields
      <4> QED
        BY <1>1, <4>1
    <3>7. \A k \in c.from..((T + 1) - 1) :
              value'[k] # Pending /\ ~Match(c.cond, value'[k])
      BY <3>2, <3>4, <3>5, <3>6, Zenon
    <3>8. c.outcome # "found" /\ c.outcome # "failed"
      <4>1. CallOK(calls[i], T) /\ calls[i].active
        BY <1>8, <1>11 DEF Ready
      <4> QED
        BY <1>3, <4>1 DEF CallOK
    <3>9. SearchedOK(c, value')
      BY <1>3, <3>7, <3>8 DEF SearchedOK
    <3> QED
      BY <1>6, <2>3, <2>5, <3>9
  <2> QED
    BY <2>4, <2>5
<1> QED
  BY <1>9, <1>10, <1>14, <1>15 DEF CallInv

-----------------------------------------------------------------------------
(* The output *)

\* All the child has written, as characters.
Lines(w) == [k \in 1..Len(w) |-> Line(w[k])]

\* OutputConserved, as a relation between the places the output can be in.
Conserved(s, c, p, w) ==
    FlattenSeq(s) \o FlattenSeq(c) \o Fragments(p)
        = Fragments(FlattenSeq(Lines(w)))

\* OutputConserved, before and after a step, as a statement about four values.
LEMMA ConservedIs ==
    /\ OutputConserved <=> Conserved(Q!Sent, chunk, pipe, written)
    /\ OutputConserved' <=> Conserved(Q!Sent', chunk', pipe', written')
BY Zenon DEF OutputConserved, Conserved, Lines

\* The lines are sequences of characters.
LEMMA LinesType ==
    ASSUME NEW w \in Seq(Texts)
    PROVE  Lines(w) \in Seq(Seq(Char))
<1>1. \A t \in Texts : Line(t) \in Seq(Char)
  BY DEF Line, Char, Fragment
<1>2. Lines(w) \in [1..Len(w) -> Seq(Char)]
  BY <1>1 DEF Lines
<1> QED
  BY <1>2

\* A line more.
LEMMA LinesAppend ==
    ASSUME NEW w \in Seq(Texts), NEW t \in Texts
    PROVE  Lines(Append(w, t)) = Append(Lines(w), Line(t))
<1> DEFINE n == Len(w)
           a == Lines(Append(w, t))
           l == Lines(w)
           x == Line(t)
           b == Append(l, x)
<1>1. /\ Append(w, t) \in Seq(Texts) /\ n \in Nat
      /\ Len(Append(w, t)) = n + 1 /\ Append(w, t)[n + 1] = t
      /\ \A k \in 1..n : Append(w, t)[k] = w[k]
  OBVIOUS
<1>2. a \in Seq(Seq(Char)) /\ l \in Seq(Seq(Char))
  BY <1>1, LinesType
<1>3. x \in Seq(Char)
  BY DEF Line, Char, Fragment
<1>4. Len(a) = n + 1 /\ \A k \in 1..(n + 1) : a[k] = Line(Append(w, t)[k])
  BY <1>1 DEF Lines
<1>5. Len(l) = n /\ \A k \in 1..n : l[k] = Line(w[k])
  BY DEF Lines
<1> HIDE DEF a, l, x, n
<1>6. /\ b \in Seq(Seq(Char)) /\ Len(b) = n + 1 /\ b[n + 1] = x
      /\ \A k \in 1..n : b[k] = l[k]
  BY <1>2, <1>3, <1>5, AppendFacts
<1>7. \A k \in 1..(n + 1) : k \in 1..n \/ k = n + 1
  BY <1>1
<1>8. n + 1 \in 1..(n + 1) /\ \A k \in 1..n : k \in 1..(n + 1)
  BY <1>1
<1> HIDE DEF b
<1>9. \A k \in 1..n : a[k] = b[k]
  BY <1>1, <1>4, <1>5, <1>6, <1>8, Zenon
<1>10. a[n + 1] = b[n + 1]
  BY <1>1, <1>4, <1>6, <1>8, Zenon DEF x
<1>11. \A k \in 1..Len(a) : a[k] = b[k]
  BY <1>4, <1>7, <1>9, <1>10, Zenon
<1>12. a = b
  BY <1>2, <1>4, <1>6, <1>11, SameSeq
<1> QED
  BY <1>12 DEF a, b, l, x

\* The child writes a line.
LEMMA ConservedWrite ==
    ASSUME NEW s \in Seq(Piece), NEW c \in Seq(Piece), NEW p \in Seq(Char),
           NEW w \in Seq(Texts), NEW t \in Texts, Conserved(s, c, p, w)
    PROVE  Conserved(s, c, p \o Line(t), Append(w, t))
<1> DEFINE f == FlattenSeq(s) \o FlattenSeq(c)
           g == Fragments(p)
           h == Fragments(Line(t))
           all == FlattenSeq(Lines(w))
<1>1. Line(t) \in Seq(Char) /\ Lines(w) \in Seq(Seq(Char))
  BY LinesType DEF Line, Char, Fragment
<1>2. all \in Seq(Char)
  BY <1>1, FlattenLaws
<1>3. FlattenSeq(s) \in Piece /\ FlattenSeq(c) \in Piece
  BY FlattenLaws DEF Piece
<1>4. f \in Piece /\ g \in Piece /\ h \in Piece
  BY <1>1, <1>3, FragmentsLaws, ConcatLaws DEF Piece
<1>5. Fragments(p \o Line(t)) = g \o h
  BY <1>1, FragmentsLaws
<1>6. FlattenSeq(Lines(Append(w, t))) = all \o Line(t)
  BY <1>1, LinesAppend, FlattenLaws
<1> HIDE DEF all
<1>7. Fragments(all \o Line(t)) = Fragments(all) \o h
  BY <1>1, <1>2, FragmentsLaws
<1>8. f \o g = Fragments(all)
  BY DEF Conserved, all
<1> HIDE DEF f, g, h
<1>9. \A x, y, z \in Piece : (x \o y) \o z = x \o (y \o z)
  BY ONLY ConcatLaws DEF Piece
<1>10. f \o (g \o h) = Fragments(all) \o h
  <2>1. (f \o g) \o h = f \o (g \o h)
    BY <1>4, <1>9, Zenon
  <2> QED
    BY <1>8, <2>1, Zenon
<1> QED
  BY <1>5, <1>6, <1>7, <1>10 DEF Conserved, f

\* A 'data' callback begins with a chunk.
LEMMA ConservedData ==
    ASSUME NEW s \in Seq(Piece), NEW p \in Seq(Char), NEW w \in Seq(Texts),
           NEW n \in 1..Len(p), Conserved(s, <<>>, p, w)
    PROVE  Conserved(s, Split(SubSeq(p, 1, n)), SubSeq(p, n + 1, Len(p)), w)
<1> DEFINE d == SubSeq(p, 1, n)
           r == SubSeq(p, n + 1, Len(p))
<1>1. d \in Seq(Char) /\ r \in Seq(Char) /\ p = d \o r
  OBVIOUS
<1> HIDE DEF d, r
<1>2. FlattenSeq(Split(d)) = Fragments(d)
  BY <1>1, SplitKeeps
<1>3. Fragments(p) = Fragments(d) \o Fragments(r)
  BY <1>1, FragmentsLaws
<1>4. /\ FlattenSeq(s) \in Piece /\ Fragments(d) \in Piece
      /\ Fragments(r) \in Piece
  BY <1>1, FlattenLaws, FragmentsLaws DEF Piece
<1>5. FlattenSeq(<<>>) = <<>> /\ FlattenSeq(s) \o <<>> = FlattenSeq(s)
  BY <1>4, FlattenLaws, ConcatLaws DEF Piece
<1>6. \A x, y, z \in Piece : (x \o y) \o z = x \o (y \o z)
  BY ONLY ConcatLaws DEF Piece
<1>7. FlattenSeq(s) \o Fragments(p)
          = (FlattenSeq(s) \o Fragments(d)) \o Fragments(r)
  <2>1. (FlattenSeq(s) \o Fragments(d)) \o Fragments(r)
            = FlattenSeq(s) \o (Fragments(d) \o Fragments(r))
    BY ONLY <1>4, <1>6, Zenon
  <2> QED
    BY ONLY <1>3, <2>1, Zenon
<1> QED
  BY <1>2, <1>5, <1>7 DEF Conserved, d, r

\* A piece goes into the queue.
LEMMA ConservedEnqueue ==
    ASSUME NEW s \in Seq(Piece), NEW c \in Seq(Piece), NEW p, NEW w,
           c # <<>>, Conserved(s, c, p, w)
    PROVE  Conserved(Append(s, Head(c)), Tail(c), p, w)
<1>1. Head(c) \in Piece /\ Tail(c) \in Seq(Piece)
  BY HeadTailProperties
<1>2. FlattenSeq(c) = Head(c) \o FlattenSeq(Tail(c))
  BY FlattenHead DEF Piece
<1>3. FlattenSeq(Append(s, Head(c))) = FlattenSeq(s) \o Head(c)
  BY <1>1, FlattenLaws DEF Piece
<1>4. FlattenSeq(s) \in Piece /\ FlattenSeq(Tail(c)) \in Piece
  BY <1>1, FlattenLaws DEF Piece
<1>5. \A x, y, z \in Piece : (x \o y) \o z = x \o (y \o z)
  BY ONLY ConcatLaws DEF Piece
<1>6. (FlattenSeq(s) \o Head(c)) \o FlattenSeq(Tail(c))
          = FlattenSeq(s) \o FlattenSeq(c)
  <2>1. (FlattenSeq(s) \o Head(c)) \o FlattenSeq(Tail(c))
            = FlattenSeq(s) \o (Head(c) \o FlattenSeq(Tail(c)))
    BY <1>1, <1>4, <1>5, Zenon
  <2> QED
    BY <1>2, <2>1, Zenon
<1> QED
  BY <1>3, <1>6 DEF Conserved

-----------------------------------------------------------------------------
(* The invariant is kept *)

\* Nothing is written, queued or called at first.
LEMMA InvInit == Init => ExpectInv
<1> SUFFICES ASSUME Init PROVE ExpectInv
  OBVIOUS
<1>1. /\ promises = <<>> /\ resolvers = <<>> /\ value = <<>> /\ taken = <<>>
      /\ written = <<>> /\ pipe = <<>> /\ chunk = <<>> /\ calls = <<>>
  BY DEF Init, Q!Init
<1>2. Shape
  BY <1>1 DEF Shape, ShapeOf
<1>3. OutputTyped
  BY <1>1 DEF OutputTyped
<1>4. CallInv
  <2>1. calls \in Seq(Call) /\ Len(calls) = 0 /\ Len(taken) = 0
    BY <1>1
  <2> QED
    BY <1>1, <2>1 DEF CallInv, CallsOK, LastPending, TakenInTurn, Searched
<1>5. OutputConserved
  <2>1. Q!Sent = <<>>
    BY <1>1 DEF Q!Sent, Q!EnqueueCalls
  <2>2. Lines(<<>>) = <<>>
    BY DEF Lines
  <2>3. FlattenSeq(<<>>) = <<>> /\ Fragments(<<>>) = <<>>
    BY FlattenLaws, FragmentsLaws
  <2>4. <<>> \o <<>> = <<>>
    OBVIOUS
  <2>5. Conserved(<<>>, <<>>, <<>>, <<>>)
    BY <2>2, <2>3, <2>4 DEF Conserved
  <2> QED
    BY <1>1, <2>1, <2>5, ConservedIs
<1> QED
  BY <1>2, <1>3, <1>4, <1>5 DEF ExpectInv

\* A step that leaves the queue alone.
LEMMA QueueUnchanged ==
    ASSUME Shape, UNCHANGED stdoutQ
    PROVE  Shape' /\ Q!Sent' = Q!Sent /\ taken' = taken /\ value' = value
BY SentIs DEF Shape, stdoutQ

\* The output stays where it is while the test runs.
LEMMA OutputUnchanged ==
    ASSUME OutputTyped, OutputConserved, Q!Sent' = Q!Sent,
           UNCHANGED <<written, pipe, chunk>>
    PROVE  OutputTyped' /\ OutputConserved'
BY ConservedIs DEF OutputTyped

\* The child writes a line: it is at the end of the pipe and of the output.
LEMMA StepWrite ==
    ASSUME ExpectInv, NEW t \in Texts, Write(t)
    PROVE  ExpectInv'
<1> USE DEF ExpectInv
<1>1. UNCHANGED <<stdoutQ, chunk, calls>>
  BY DEF Write
<1>2. Shape' /\ Q!Sent' = Q!Sent /\ taken' = taken /\ value' = value
  BY <1>1, QueueUnchanged
<1>3. CallInv'
  BY <1>1, <1>2, CallsUnchanged
<1>4. Line(t) \in Seq(Char)
  BY DEF Line, Char, Fragment
<1>5. /\ written' = Append(written, t) /\ pipe' = pipe \o Line(t)
      /\ chunk' = chunk
  BY DEF Write
<1>6. OutputTyped'
  BY <1>4, <1>5 DEF OutputTyped
<1>7. Q!Sent \in Seq(Piece)
  BY SentIs, SentPieces DEF Shape
<1>8. Conserved(Q!Sent, chunk, pipe \o Line(t), Append(written, t))
  BY <1>7, ConservedIs, ConservedWrite DEF OutputTyped
<1>9. OutputConserved'
  BY <1>2, <1>5, <1>8, ConservedIs
<1> QED
  BY <1>2, <1>3, <1>6, <1>9

\* The 'data' callback starts: the pieces hold what was cut off the pipe.
LEMMA StepOnData ==
    ASSUME ExpectInv, NEW n \in 1..Len(pipe), OnData(n)
    PROVE  ExpectInv'
<1> USE DEF ExpectInv
<1>1. UNCHANGED <<stdoutQ, written, calls>>
  BY DEF OnData
<1>2. Shape' /\ Q!Sent' = Q!Sent /\ taken' = taken /\ value' = value
  BY <1>1, QueueUnchanged
<1>3. CallInv'
  BY <1>1, <1>2, CallsUnchanged
<1>4. /\ chunk = <<>> /\ written' = written
      /\ chunk' = Split(SubSeq(pipe, 1, n))
      /\ pipe' = SubSeq(pipe, n + 1, Len(pipe))
  BY DEF OnData, Idle
<1>5. pipe \in Seq(Char) /\ written \in Seq(Texts)
  BY DEF OutputTyped
<1>6. SubSeq(pipe, 1, n) \in Seq(Char) /\ SubSeq(pipe, n + 1, Len(pipe)) \in Seq(Char)
  BY <1>5
<1>7. OutputTyped'
  BY <1>4, <1>5, <1>6, SplitKeeps DEF OutputTyped
<1>8. Q!Sent \in Seq(Piece)
  BY SentIs, SentPieces DEF Shape
<1>9. Conserved(Q!Sent, <<>>, pipe, written)
  BY <1>4, ConservedIs
<1>10. Conserved(Q!Sent, chunk', pipe', written')
  BY <1>4, <1>5, <1>8, <1>9, ConservedData
<1>11. OutputConserved'
  BY <1>2, <1>10, ConservedIs
<1> QED
  BY <1>2, <1>3, <1>7, <1>11

\* enqueue() of a piece: it moves from the callback to the queue.
LEMMA StepEnqueueLine ==
    ASSUME ExpectInv, EnqueueLine
    PROVE  ExpectInv'
<1> USE DEF ExpectInv
<1>1. /\ chunk # <<>> /\ chunk' = Tail(chunk)
      /\ written' = written /\ pipe' = pipe /\ calls' = calls
      /\ Q!Enqueue(Head(chunk))
  BY DEF EnqueueLine
<1>2. chunk \in Seq(Piece) /\ Head(chunk) \in Piece /\ Tail(chunk) \in Seq(Piece)
  BY <1>1, HeadTailProperties DEF OutputTyped
<1>3. /\ Shape' /\ taken' = taken /\ Q!Sent' = Append(Q!Sent, Head(chunk))
      /\ \A k \in 1..Len(value) : value[k] # Pending => value'[k] = value[k]
  BY <1>1, <1>2, EnqueueStep
<1>4. CallInv'
  BY <1>1, <1>3, CallsUnchanged
<1>5. OutputTyped'
  BY <1>1, <1>2 DEF OutputTyped
<1>6. Q!Sent \in Seq(Piece)
  BY SentIs, SentPieces DEF Shape
<1>7. Conserved(Append(Q!Sent, Head(chunk)), Tail(chunk), pipe, written)
  BY <1>1, <1>2, <1>6, ConservedIs, ConservedEnqueue
<1>8. OutputConserved'
  BY <1>1, <1>3, <1>7, ConservedIs
<1> QED
  BY <1>3, <1>4, <1>5, <1>8

\* expect() and expectNext() take the promise after the last one taken.
LEMMA StepExpect ==
    ASSUME ExpectInv, NEW kind \in {"expect", "expectNext"}, NEW c \in Texts,
           Expect(kind, c)
    PROVE  ExpectInv'
<1> USE DEF ExpectInv
<1>1. Q!Dequeue /\ UNCHANGED <<written, pipe, chunk>>
  BY DEF Expect
<1>2. Shape' /\ Q!Sent' = Q!Sent
  BY <1>1, DequeueStep
<1>3. CallInv'
  BY CallBegins
<1> QED
  BY <1>1, <1>2, <1>3, OutputUnchanged

\* The call that a settled call becomes.
LEMMA SettledCall ==
    ASSUME CallInv, NEW i \in 1..Len(calls), Ready(i),
           NEW o \in {"found", "failed"}
    PROVE  LET c == [calls[i] EXCEPT !.active = FALSE,
                        !.outcome = IF @ = "pending" THEN o ELSE @]
           IN  /\ c \in Call /\ Settle(i, o) = [calls EXCEPT ![i] = c]
               /\ c.from = calls[i].from /\ c.entry = calls[i].entry
               /\ c.cond = calls[i].cond
               /\ c.outcome = IF calls[i].outcome = "pending" THEN o
                              ELSE "timeout"
               /\ calls[i].outcome # "pending" => calls[i].outcome = "timeout"
               /\ CallOK(c, Len(taken))
<1> DEFINE c == [calls[i] EXCEPT !.active = FALSE,
                    !.outcome = IF @ = "pending" THEN o ELSE @]
<1>1. calls \in Seq(Call) /\ calls[i] \in Call /\ CallOK(calls[i], Len(taken))
  BY DEF CallInv, CallsOK
<1>2. calls[i].outcome \in {"pending", "timeout"}
  BY <1>1 DEF Ready, CallOK
<1>3. /\ c \in Call /\ c.from = calls[i].from /\ c.entry = calls[i].entry
      /\ c.cond = calls[i].cond /\ c.active = FALSE
      /\ c.outcome = IF calls[i].outcome = "pending" THEN o ELSE "timeout"
  BY <1>1, <1>2 DEF Call, Outcome
<1>4. Settle(i, o) = [calls EXCEPT ![i] = c]
  BY <1>1 DEF Settle
<1>5. CallOK(c, Len(taken))
  <2> HIDE DEF c
  <2> QED
    BY <1>1, <1>2, <1>3 DEF CallOK
<1> QED
  BY <1>2, <1>3, <1>4, <1>5, Zenon

\* A call returns or throws.
LEMMA StepSettles ==
    ASSUME ExpectInv, NEW i \in 1..Len(calls), Ready(i),
           NEW o \in {"found", "failed"},
           (o = "found") <=> Match(calls[i].cond, value[calls[i].entry]),
           calls' = Settle(i, o), UNCHANGED <<stdoutQ, written, pipe, chunk>>
    PROVE  ExpectInv'
<1> USE DEF ExpectInv
<1>1. Shape' /\ Q!Sent' = Q!Sent /\ taken' = taken /\ value' = value
  BY QueueUnchanged
<1> DEFINE d == [calls[i] EXCEPT !.active = FALSE,
                    !.outcome = IF @ = "pending" THEN o ELSE @]
<1>2. PICK c : c = d
  OBVIOUS
<1>3. /\ c \in Call /\ calls' = [calls EXCEPT ![i] = c]
      /\ c.from = calls[i].from /\ c.entry = calls[i].entry
      /\ c.cond = calls[i].cond
      /\ c.outcome = IF calls[i].outcome = "pending" THEN o ELSE "timeout"
      /\ calls[i].outcome # "pending" => calls[i].outcome = "timeout"
      /\ CallOK(c, Len(taken))
  BY <1>2, SettledCall
<1> HIDE DEF d
<1>4. ASSUME Clean(i) PROVE SearchedOK(c, value)
  <2>1. SearchedOK(calls[i], value)
    BY <1>4 DEF CallInv, Searched
  <2>2. value[c.entry] # Pending
    BY <1>3 DEF Ready
  <2>3. \A k \in c.from..(c.entry - 1) :
            value[k] # Pending /\ ~Match(c.cond, value[k])
    BY <1>3, <2>1 DEF SearchedOK
  <2>4. /\ c.outcome = "found" => Match(c.cond, value[c.entry])
        /\ c.outcome = "failed" => ~Match(c.cond, value[c.entry])
    BY <1>3
  <2> QED
    BY <2>2, <2>3, <2>4, Zenon DEF SearchedOK
<1>5. c.outcome # "pending" /\ (calls[i].outcome = "timeout" => c.outcome = "timeout")
  BY <1>3
<1>6. CallInv'
  BY <1>1, <1>3, <1>4, <1>5, CallEnds
<1> QED
  BY <1>1, <1>6, OutputUnchanged

\* expectSearch() goes on: it returns with a match, or takes the next promise.
LEMMA StepSearch ==
    ASSUME ExpectInv, NEW i \in 1..Len(calls), Search(i)
    PROVE  ExpectInv'
<1>1. Ready(i) /\ UNCHANGED <<written, pipe, chunk>>
  BY DEF Search
<1>2. CASE Match(calls[i].cond, value[calls[i].entry])
  <2>1. calls' = Settle(i, "found") /\ UNCHANGED stdoutQ
    BY <1>2 DEF Search
  <2> QED
    BY <1>1, <1>2, <2>1, StepSettles
<1>3. CASE ~Match(calls[i].cond, value[calls[i].entry])
  <2>1. Q!Dequeue /\ calls' = [calls EXCEPT ![i].entry = Last(taken')]
    BY <1>3 DEF Search
  <2>2. Shape' /\ Q!Sent' = Q!Sent
    BY <2>1, DequeueStep DEF ExpectInv
  <2>3. CallInv'
    BY <1>1, <1>3, <2>1, CallGoesOn DEF ExpectInv
  <2> QED
    BY <1>1, <2>2, <2>3, OutputUnchanged DEF ExpectInv
<1> QED
  BY <1>2, <1>3

\* expectNext() goes on: it returns or throws.
LEMMA StepTakeOne ==
    ASSUME ExpectInv, NEW i \in 1..Len(calls), TakeOne(i)
    PROVE  ExpectInv'
<1> DEFINE o == IF Match(calls[i].cond, value[calls[i].entry])
                THEN "found" ELSE "failed"
<1>1. /\ Ready(i) /\ calls' = Settle(i, o)
      /\ UNCHANGED <<stdoutQ, written, pipe, chunk>>
  BY DEF TakeOne
<1>2. /\ o \in {"found", "failed"}
      /\ (o = "found") <=> Match(calls[i].cond, value[calls[i].entry])
  OBVIOUS
<1> HIDE DEF o
<1> QED
  BY <1>1, <1>2, StepSettles

\* The timer expires: only the caller is told.
LEMMA StepTimeout ==
    ASSUME ExpectInv, NEW i \in 1..Len(calls), Timeout(i)
    PROVE  ExpectInv'
<1> USE DEF ExpectInv
<1>1. /\ calls[i].outcome = "pending"
      /\ calls' = [calls EXCEPT ![i].outcome = "timeout"]
      /\ UNCHANGED <<stdoutQ, written, pipe, chunk>>
  BY DEF Timeout, TimerArmed
<1>2. Shape' /\ Q!Sent' = Q!Sent /\ taken' = taken /\ value' = value
  BY <1>1, QueueUnchanged
<1>3. PICK c : c = [calls[i] EXCEPT !.outcome = "timeout"]
  OBVIOUS
<1>4. calls \in Seq(Call) /\ calls[i] \in Call /\ CallOK(calls[i], Len(taken))
  BY DEF CallInv, CallsOK
<1>5. /\ c \in Call /\ c.from = calls[i].from /\ c.entry = calls[i].entry
      /\ c.cond = calls[i].cond /\ c.outcome = "timeout"
  BY <1>3, <1>4 DEF Call, Outcome
<1>6. calls' = [calls EXCEPT ![i] = c]
  BY <1>1, <1>3
<1>7. CallOK(c, Len(taken))
  BY <1>4, <1>5 DEF CallOK
<1>8. Clean(i) => SearchedOK(c, value)
  <2> SUFFICES ASSUME Clean(i) PROVE SearchedOK(c, value)
    OBVIOUS
  <2>1. SearchedOK(calls[i], value)
    BY DEF CallInv, Searched
  <2> QED
    BY <1>5, <2>1 DEF SearchedOK
<1>9. CallInv'
  BY <1>2, <1>5, <1>6, <1>7, <1>8, CallEnds
<1> QED
  BY <1>1, <1>2, <1>9, OutputUnchanged

\* Every step keeps the invariant.
LEMMA InvStep == ExpectInv /\ [Next]_expectVars => ExpectInv'
<1> SUFFICES ASSUME ExpectInv, [Next]_expectVars PROVE ExpectInv'
  OBVIOUS
<1>1. CASE UNCHANGED expectVars
  <2>1. UNCHANGED stdoutQ /\ UNCHANGED <<written, pipe, chunk>> /\ calls' = calls
    BY <1>1 DEF expectVars, stdoutQ
  <2>2. Shape' /\ Q!Sent' = Q!Sent /\ taken' = taken /\ value' = value
    BY <2>1, QueueUnchanged DEF ExpectInv
  <2>3. CallInv'
    BY <2>1, <2>2, CallsUnchanged DEF ExpectInv
  <2> QED
    BY <2>1, <2>2, <2>3, OutputUnchanged DEF ExpectInv
<1>2. CASE Next
  BY <1>2, StepWrite, StepOnData, StepEnqueueLine, StepExpect, StepSearch,
     StepTakeOne, StepTimeout DEF Next
<1> QED
  BY <1>1, <1>2

\* Every reachable state satisfies the invariant.
THEOREM ExpectInvariant == Spec => []ExpectInv
BY InvInit, InvStep, PTL DEF Spec

-----------------------------------------------------------------------------
(* The properties *)

\* Type correctness: every call awaits the promise of an entry that the queue has
\* made, and a caller waits only while the async function runs.
THEOREM TypeCorrect == Spec => []TypeOK
<1>1. ExpectInv => TypeOK
  <2> SUFFICES ASSUME ExpectInv PROVE TypeOK
    OBVIOUS
  <2>1. Q!TypeOK
    BY ShapeTyped DEF ExpectInv, Shape, Q!TypeOK, Held, Piece
  <2>2. Len(taken) \in Nat /\ Len(value) \in Nat /\ Len(taken) <= Len(value)
    BY ShapeFacts DEF ExpectInv
  <2>3. /\ written \in Seq(Texts) /\ pipe \in Seq(Fragment \cup {EOL})
        /\ chunk \in Seq(Seq(Fragment))
    BY DEF ExpectInv, OutputTyped, Char, Piece
  <2>4. calls \in Seq(Call)
    BY DEF ExpectInv, CallInv, CallsOK
  <2>5. ASSUME NEW i \in 1..Len(calls)
        PROVE  /\ calls[i].entry \in 1..Len(value)
               /\ calls[i].outcome = "pending" => calls[i].active
               /\ calls[i].active => calls[i].outcome \in {"pending", "timeout"}
    <3>1. CallOK(calls[i], Len(taken))
      BY DEF ExpectInv, CallInv, CallsOK
    <3> QED
      BY <2>2, <3>1 DEF CallOK
  <2> QED
    BY <2>1, <2>3, <2>4, <2>5, Zenon DEF TypeOK
<1> QED
  BY <1>1, ExpectInvariant, PTL

\* Nothing the child wrote is lost, repeated or reordered, wherever the 'data'
\* events cut its output and however many calls read it.
THEOREM OutputKept == Spec => []OutputConserved
<1>1. ExpectInv => OutputConserved
  BY DEF ExpectInv
<1> QED
  BY <1>1, ExpectInvariant, PTL

\* Until a call times out, each begins with the piece after its predecessor's
\* last and finds the first piece that matches.
THEOREM FirstMatchFound == Spec => []FindsFirstMatch
<1>1. ExpectInv => FindsFirstMatch
  <2> SUFFICES ASSUME ExpectInv PROVE FindsFirstMatch
    OBVIOUS
  <2> DEFINE Position(i) ==
                 CHOOSE k \in 1..Len(taken) : taken[k] = calls[i].entry
             n == Len(value) - Len(resolvers)
  <2>1. \A i \in 1..Len(taken) : taken[i] = i
    BY ShapeFacts DEF ExpectInv
  <2>2. ASSUME NEW i \in 1..Len(calls)
        PROVE  calls[i] \in Call /\ CallOK(calls[i], Len(taken))
    BY DEF ExpectInv, CallInv, CallsOK
  <2>3. ASSUME NEW i \in 1..Len(calls) PROVE Position(i) = calls[i].entry
    <3>1. calls[i].entry \in 1..Len(taken)
      BY <2>2 DEF CallOK
    <3> QED
      BY <2>1, <3>1
  <2> HIDE DEF Position
  <2>4. /\ Len(value) \in Nat /\ Len(taken) \in Nat /\ Len(taken) <= Len(value)
        /\ \A e \in 1..Len(value) : value[e] = Pending <=> e > n
    BY ShapeFacts DEF ExpectInv
  <2>5. n \in Nat /\ \A k \in 1..n : Q!Sent[k] = value[k]
    BY SentIs, SentPieces DEF ExpectInv, Shape
  <2> HIDE DEF n
  <2>6. ASSUME NEW k \in 1..Len(taken), value[k] # Pending
        PROVE  Q!Sent[k] = value[k]
    <3>1. k \in 1..n
      BY <2>4, <2>5, <2>6
    <3> QED
      BY <2>5, <3>1
  <2>7. ASSUME NEW i \in 1..Len(calls),
               \A j \in 1..i : calls[j].outcome # "timeout"
        PROVE  /\ calls[i].from = IF i = 1 THEN 1 ELSE Position(i - 1) + 1
               /\ \A k \in calls[i].from..(Position(i) - 1) :
                      ~Match(calls[i].cond, Q!Sent[k])
               /\ calls[i].outcome = "found" =>
                      Match(calls[i].cond, Q!Sent[Position(i)])
               /\ calls[i].outcome = "failed" =>
                      ~Match(calls[i].cond, Q!Sent[Position(i)])
    <3>1. InTurn(i) /\ SearchedOK(calls[i], value)
      BY <2>7 DEF ExpectInv, CallInv, Searched, Clean
    <3>2. Position(i) = calls[i].entry
      BY <2>3
    <3>3. i # 1 => i - 1 \in 1..Len(calls)
      BY DEF ExpectInv, CallInv, CallsOK
    <3>4. calls[i].from = IF i = 1 THEN 1 ELSE Position(i - 1) + 1
      BY <2>3, <3>1, <3>3 DEF InTurn
    <3>5. calls[i] \in Call /\ CallOK(calls[i], Len(taken))
      BY <2>2
    <3>6. /\ calls[i].from \in Nat \ {0} /\ calls[i].entry \in Nat \ {0}
          /\ calls[i].entry \in 1..Len(taken)
      BY <3>5, CallFields DEF CallOK
    <3>7. \A k \in calls[i].from..(calls[i].entry - 1) : k \in 1..Len(taken)
      BY <2>4, <3>6
    <3> QED
      BY <2>6, <3>1, <3>2, <3>4, <3>6, <3>7, Zenon DEF SearchedOK
  <2> QED
    BY <2>7, Zenon DEF FindsFirstMatch, Position
<1> QED
  BY <1>1, ExpectInvariant, PTL

=============================================================================
