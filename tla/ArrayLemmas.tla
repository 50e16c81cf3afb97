---------------------------- MODULE ArrayLemmas ----------------------------
(***************************************************************************)
(* What several proofs need to know of the arrays of the code, which are   *)
(* sequences: tables, where a lookup takes the first match and an entry is *)
(* appended or replaced; and the two arrays of an AsyncQueue.  Also        *)
(* induction over the natural numbers, stated about a set.                 *)
(***************************************************************************)
EXTENDS Naturals, Sequences, FiniteSetsExt, SequenceTheorems,
        WellFoundedInduction, TLAPS

\* Every set of natural numbers that is not empty has a least element.
LEMMA LeastElement ==
    ASSUME NEW T \in SUBSET Nat, T # {}
    PROVE  \E x \in T : \A y \in T : x <= y
<1> DEFINE R == OpToRel(<, Nat)
<1>1. IsWellFoundedOn(R, Nat)
  BY NatLessThanWellFounded
<1>2. \A x, y \in Nat : x < y => <<x, y>> \in R
  BY DEF OpToRel
<1> HIDE DEF R
<1>3. PICK x \in T : \A y \in T : ~(<<y, x>> \in R)
  BY <1>1, WFMin
<1>4. ASSUME NEW y \in T PROVE x <= y
  <2>1. x \in Nat /\ y \in Nat
    OBVIOUS
  <2>2. ~(y < x)
    BY <1>2, <1>3, <2>1, Zenon
  <2> QED
    BY <2>1, <2>2
<1> QED
  BY <1>4

\* A set with 0 and the successors of its elements has every number: induction,
\* for a set instead of a predicate.
LEMMA NatInSet ==
    ASSUME NEW T \in SUBSET Nat, 0 \in T, \A n \in T : n + 1 \in T
    PROVE  \A n \in Nat : n \in T
<1> SUFFICES ASSUME NEW m \in Nat, m \notin T PROVE FALSE
  OBVIOUS
<1>1. Nat \ T \in SUBSET Nat /\ Nat \ T # {}
  OBVIOUS
<1>2. PICK x \in Nat \ T : \A y \in Nat \ T : x <= y
  BY <1>1, LeastElement, Zenon
<1>3. x \in Nat /\ x # 0 /\ x - 1 \in Nat /\ (x - 1) + 1 = x /\ ~(x <= x - 1)
  BY <1>2
<1>4. x - 1 \in T
  BY <1>2, <1>3, Zenon
<1> QED
  BY <1>2, <1>3, <1>4, Zenon

\* Min(), which the lookups are written with, is this element.
LEMMA MinIsLeast ==
    ASSUME NEW T \in SUBSET Nat, T # {}
    PROVE  Min(T) \in T /\ \A y \in T : Min(T) <= y
BY LeastElement DEF Min

-----------------------------------------------------------------------------
(* A sequence, and a function whose values are sequences *)

\* An entry is replaced.
LEMMA SeqUpdate ==
    ASSUME NEW S, NEW q \in Seq(S), NEW i \in 1..Len(q), NEW e \in S,
           NEW r, r = [q EXCEPT ![i] = e]
    PROVE  /\ r \in Seq(S) /\ Len(r) = Len(q)
           /\ \A j \in 1..Len(q) : r[j] = IF j = i THEN e ELSE q[j]
OBVIOUS

\* An entry is appended.
LEMMA SeqAppend ==
    ASSUME NEW S, NEW q \in Seq(S), NEW e \in S, NEW r, r = Append(q, e)
    PROVE  /\ r \in Seq(S) /\ Len(r) = Len(q) + 1 /\ Len(q) \in Nat
           /\ \A j \in 1..Len(q) : r[j] = q[j]
           /\ r[Len(q) + 1] = e
OBVIOUS

\* An entry of one of the tables is replaced.
LEMMA TableUpdate ==
    ASSUME NEW S, NEW N, NEW f \in [N -> Seq(S)], NEW n \in N,
           NEW i \in 1..Len(f[n]), NEW e \in S,
           NEW g, g = [f EXCEPT ![n] = [f[n] EXCEPT ![i] = e]]
    PROVE  /\ g \in [N -> Seq(S)]
           /\ \A k \in N : k # n => g[k] = f[k]
           /\ Len(g[n]) = Len(f[n])
           /\ \A j \in 1..Len(f[n]) : g[n][j] = IF j = i THEN e ELSE f[n][j]
<1> DEFINE r == [f[n] EXCEPT ![i] = e]
<1>1. f[n] \in Seq(S)
  OBVIOUS
<1>2. /\ r \in Seq(S) /\ Len(r) = Len(f[n])
      /\ \A j \in 1..Len(f[n]) : r[j] = IF j = i THEN e ELSE f[n][j]
  BY <1>1, SeqUpdate
<1>3. g = [f EXCEPT ![n] = r]
  OBVIOUS
<1> HIDE DEF r
<1>4. g \in [N -> Seq(S)] /\ g[n] = r /\ \A k \in N : k # n => g[k] = f[k]
  BY <1>2, <1>3
<1> QED
  BY <1>2, <1>4

\* An entry is appended to one of the tables.
LEMMA TableAppend ==
    ASSUME NEW S, NEW N, NEW f \in [N -> Seq(S)], NEW n \in N, NEW e \in S,
           NEW g, g = [f EXCEPT ![n] = Append(f[n], e)]
    PROVE  /\ g \in [N -> Seq(S)]
           /\ Len(f[n]) \in Nat
           /\ Len(g[n]) = Len(f[n]) + 1 /\ g[n][Len(f[n]) + 1] = e
           /\ \A k \in N : \A j \in 1..Len(f[k]) :
                 j \in 1..Len(g[k]) /\ g[k][j] = f[k][j]
           /\ \A k \in N : \A j \in 1..Len(g[k]) : j \notin 1..Len(f[k]) =>
                 k = n /\ j = Len(f[n]) + 1 /\ g[k][j] = e
<1> DEFINE r == Append(f[n], e)
<1>1. f[n] \in Seq(S)
  OBVIOUS
<1>2. /\ r \in Seq(S) /\ Len(r) = Len(f[n]) + 1 /\ Len(f[n]) \in Nat
      /\ \A j \in 1..Len(f[n]) : r[j] = f[n][j]
      /\ r[Len(f[n]) + 1] = e
  BY <1>1, SeqAppend
<1>3. g = [f EXCEPT ![n] = r]
  OBVIOUS
<1> HIDE DEF r
<1>4. g \in [N -> Seq(S)] /\ g[n] = r /\ \A k \in N : k # n => g[k] = f[k]
  BY <1>2, <1>3
<1>5. ASSUME NEW k \in N, NEW j \in 1..Len(f[k])
      PROVE  j \in 1..Len(g[k]) /\ g[k][j] = f[k][j]
  <2>1. CASE k = n
    BY <1>2, <1>4, <2>1
  <2>2. CASE k # n
    BY <1>4, <2>2
  <2> QED
    BY <2>1, <2>2
<1>6. ASSUME NEW k \in N, NEW j \in 1..Len(g[k]), j \notin 1..Len(f[k])
      PROVE  k = n /\ j = Len(f[n]) + 1 /\ g[k][j] = e
  <2>1. k = n
    BY <1>4, <1>6
  <2>2. j = Len(f[n]) + 1
    BY <1>2, <1>4, <1>6, <2>1
  <2> QED
    BY <1>2, <1>4, <2>1, <2>2
<1> QED
  BY <1>2, <1>4, <1>5, <1>6

-----------------------------------------------------------------------------
(* Sequences *)

\* The elements of a sequence after Append.
LEMMA AppendFacts ==
    ASSUME NEW S, NEW s \in Seq(S), NEW x \in S
    PROVE  /\ Append(s, x) \in Seq(S)
           /\ Len(Append(s, x)) = Len(s) + 1
           /\ \A i \in 1..Len(s) : Append(s, x)[i] = s[i]
           /\ Append(s, x)[Len(s) + 1] = x
BY AppendProperties

\* The elements of the rest of a sequence.
LEMMA TailFacts ==
    ASSUME NEW S, NEW s \in Seq(S), s # <<>>
    PROVE  /\ Len(s) \in Nat \ {0}
           /\ Head(s) = s[1]
           /\ Tail(s) \in Seq(S)
           /\ Len(Tail(s)) = Len(s) - 1
           /\ \A i \in 1..(Len(s) - 1) : Tail(s)[i] = s[i + 1]
BY HeadTailProperties, EmptySeq

\* The elements of a sequence with one of them replaced.
LEMMA UpdateFacts ==
    ASSUME NEW S, NEW s \in Seq(S), NEW k \in 1..Len(s), NEW x \in S
    PROVE  /\ [s EXCEPT ![k] = x] \in Seq(S)
           /\ Len([s EXCEPT ![k] = x]) = Len(s)
           /\ \A i \in 1..Len(s) : i # k => [s EXCEPT ![k] = x][i] = s[i]
           /\ [s EXCEPT ![k] = x][k] = x
OBVIOUS

\* A sequence is empty iff its length is 0.
LEMMA EmptyFacts ==
    ASSUME NEW S, NEW s \in Seq(S)
    PROVE  (s = <<>> <=> Len(s) = 0) /\ Len(s) \in Nat
BY EmptySeq

\* Two sequences of the same length with the same elements are equal.
LEMMA SameSeq ==
    ASSUME NEW S, NEW s \in Seq(S), NEW t \in Seq(S), Len(s) = Len(t),
           \A i \in 1..Len(s) : s[i] = t[i]
    PROVE  s = t
BY SeqEqual

-----------------------------------------------------------------------------
(* The arrays of AsyncQueue *)

\* The shape of the arrays p (promises), r (resolvers), v (value), t (taken).
ShapeOf(X, nil, p, r, v, t) ==
    /\ p \in Seq(Nat) /\ r \in Seq(Nat) /\ v \in Seq(X) /\ t \in Seq(Nat)
    /\ Len(t) + Len(p) = Len(v)
    /\ Len(r) <= Len(t)
    /\ Len(p) = 0 \/ Len(r) = 0
    /\ \A i \in 1..Len(t) : t[i] = i
    /\ \A i \in 1..Len(p) : p[i] = Len(t) + i
    /\ \A i \in 1..Len(r) : r[i] = Len(v) - Len(r) + i
    /\ \A e \in 1..Len(v) : v[e] = nil <=> e > Len(v) - Len(r)

\* What the shape says of the lengths and of the elements.
LEMMA ShapeParts ==
    ASSUME NEW X, NEW nil,
           NEW p, NEW r, NEW v, NEW t, ShapeOf(X, nil, p, r, v, t)
    PROVE  /\ /\ p \in Seq(Nat) /\ r \in Seq(Nat)
              /\ v \in Seq(X) /\ t \in Seq(Nat)
           /\ /\ Len(p) \in Nat /\ Len(r) \in Nat
              /\ Len(v) \in Nat /\ Len(t) \in Nat
           /\ Len(t) + Len(p) = Len(v)
           /\ Len(r) <= Len(t)
           /\ Len(p) = 0 \/ Len(r) = 0
           /\ \A i \in 1..Len(t) : t[i] = i
           /\ \A i \in 1..Len(p) : p[i] = Len(t) + i
           /\ \A i \in 1..Len(r) : r[i] = Len(v) - Len(r) + i
           /\ \A e \in 1..Len(v) : v[e] = nil <=> e > Len(v) - Len(r)
<1>1. /\ p \in Seq(Nat) /\ r \in Seq(Nat) /\ v \in Seq(X) /\ t \in Seq(Nat)
  BY DEF ShapeOf
<1>2. /\ Len(p) \in Nat /\ Len(r) \in Nat /\ Len(v) \in Nat /\ Len(t) \in Nat
  BY <1>1, EmptyFacts
<1> QED
  BY <1>1, <1>2, Zenon DEF ShapeOf

\* enqueue() when no consumer waits.
LEMMA ShapeEnqueueNew ==
    ASSUME NEW X, NEW nil,
           NEW p, NEW r, NEW v, NEW t, ShapeOf(X, nil, p, r, v, t),
           NEW x \in X, x # nil, Len(r) = 0
    PROVE  ShapeOf(X, nil, Append(p, Len(v) + 1), r, Append(v, x), t)
<1> DEFINE p2 == Append(p, Len(v) + 1)
           v2 == Append(v, x)
           P == Len(p)
           V == Len(v)
           T == Len(t)
<1>1. /\ p \in Seq(Nat) /\ r \in Seq(Nat) /\ v \in Seq(X) /\ t \in Seq(Nat)
      /\ P \in Nat /\ V \in Nat /\ T \in Nat /\ T + P = V
  BY ShapeParts
<1>2. V + 1 \in Nat /\ x \in X
  BY <1>1
<1>3. /\ p2 \in Seq(Nat) /\ Len(p2) = P + 1
      /\ (\A i \in 1..P : p2[i] = p[i]) /\ p2[P + 1] = V + 1
  BY <1>1, <1>2, AppendFacts
<1>4. /\ v2 \in Seq(X) /\ Len(v2) = V + 1
      /\ (\A i \in 1..V : v2[i] = v[i]) /\ v2[V + 1] = x
  BY <1>1, <1>2, AppendFacts
<1>5. \A i \in 1..P : p[i] = T + i
  BY ShapeParts
<1>6. \A e \in 1..V : v[e] # nil
  <2>1. \A e \in 1..V : v[e] = nil <=> e > V - 0
    BY ShapeParts
  <2> QED
    BY <1>1, <2>1
<1>7. \A i \in 1..T : t[i] = i
  BY ShapeParts
<1> HIDE DEF p2, v2, P, V, T
<1>8. \A i \in 1..(P + 1) : p2[i] = T + i
  <2>1. \A i \in 1..(P + 1) : i \in 1..P \/ i = P + 1
    BY <1>1, <1>2
  <2>2. \A i \in 1..P : p2[i] = T + i
    BY <1>1, <1>3, <1>5
  <2>3. p2[P + 1] = T + (P + 1)
    BY <1>1, <1>3, <1>5
  <2> QED
    BY <2>1, <2>2, <2>3, Zenon
<1>9. \A e \in 1..(V + 1) : v2[e] # nil
  BY <1>1, <1>4, <1>6
<1>10. /\ \A e \in 1..(V + 1) : v2[e] = nil <=> e > (V + 1) - 0
       /\ T + (P + 1) = V + 1 /\ 0 <= T
       /\ \A i \in 1..0 : r[i] = (V + 1) - 0 + i
  BY <1>1, <1>9
<1>11. ShapeOf(X, nil, p2, r, v2, t)
  BY <1>1, <1>3, <1>4, <1>7, <1>8, <1>10, Zenon DEF ShapeOf, T
<1> QED
  BY <1>11 DEF p2, v2, V

\* enqueue() when a consumer waits: the value goes to the oldest one.
LEMMA ShapeEnqueueWaiting ==
    ASSUME NEW X, NEW nil,
           NEW p, NEW r, NEW v, NEW t, ShapeOf(X, nil, p, r, v, t),
           NEW x \in X, x # nil, r # <<>>
    PROVE  /\ ShapeOf(X, nil, p, Tail(r), [v EXCEPT ![Head(r)] = x], t)
           /\ Head(r) = Len(v) - Len(r) + 1
           /\ Head(r) \in 1..Len(v)
           /\ Len(Tail(r)) = Len(r) - 1
<1> DEFINE r2 == Tail(r)
           h == Head(r)
           v2 == [v EXCEPT ![h] = x]
           P == Len(p)
           R == Len(r)
           V == Len(v)
           T == Len(t)
<1>1. /\ p \in Seq(Nat) /\ r \in Seq(Nat) /\ v \in Seq(X) /\ t \in Seq(Nat)
      /\ P \in Nat /\ V \in Nat /\ T \in Nat /\ T + P = V
      /\ R <= T /\ (P = 0 \/ R = 0)
  BY ShapeParts
<1>2. /\ R \in Nat \ {0} /\ h = r[1]
      /\ r2 \in Seq(Nat) /\ Len(r2) = R - 1
      /\ \A i \in 1..(R - 1) : r2[i] = r[i + 1]
  BY <1>1, TailFacts
<1>3. \A i \in 1..R : r[i] = V - R + i
  BY ShapeParts
<1>4. \A e \in 1..V : v[e] = nil <=> e > V - R
  BY ShapeParts
<1>5. \A i \in 1..T : t[i] = i
  BY ShapeParts
<1>5a. \A i \in 1..P : p[i] = T + i
  BY ShapeParts
<1> HIDE DEF r2, h, P, R, V, T
<1>6. P = 0 /\ T = V /\ R <= T
  BY <1>1, <1>2
<1>7. h = V - R + 1 /\ h \in 1..V
  BY <1>1, <1>2, <1>3, <1>6
<1>8. x \in X
  OBVIOUS
<1>9. /\ v2 \in Seq(X) /\ Len(v2) = V
      /\ (\A i \in 1..V : i # h => v2[i] = v[i]) /\ v2[h] = x
  BY <1>1, <1>7, <1>8, UpdateFacts DEF V
<1> HIDE DEF v2
<1>10. \A i \in 1..(R - 1) : r2[i] = V - (R - 1) + i
  BY <1>1, <1>2, <1>3
<1>11. \A e \in 1..V : v2[e] = nil <=> e > V - (R - 1)
  <2>1. x # nil
    OBVIOUS
  <2>2. \A e \in 1..V : e = h => ~(e > V - (R - 1))
    BY <1>1, <1>2, <1>7
  <2>3. \A e \in 1..V : e # h => (e > V - R <=> e > V - (R - 1))
    BY <1>1, <1>2, <1>7
  <2> QED
    BY <1>4, <1>9, <2>1, <2>2, <2>3, Zenon
<1>12. T + P = V /\ R - 1 <= T /\ P = 0
  BY <1>1, <1>2, <1>6
<1>13. ShapeOf(X, nil, p, r2, v2, t)
  BY <1>1, <1>2, <1>5, <1>5a, <1>9, <1>10, <1>11, <1>12, Zenon DEF ShapeOf, P, T
<1> QED
  BY <1>2, <1>7, <1>13 DEF r2, h, v2, R, V

\* dequeue() when no value waits.
LEMMA ShapeDequeueNew ==
    ASSUME NEW X, NEW nil \in X,
           NEW p, NEW r, NEW v, NEW t, ShapeOf(X, nil, p, r, v, t), Len(p) = 0
    PROVE  ShapeOf(X, nil, p, Append(r, Len(v) + 1), Append(v, nil),
                   Append(t, Len(v) + 1))
<1> DEFINE r2 == Append(r, Len(v) + 1)
           v2 == Append(v, nil)
           t2 == Append(t, Len(v) + 1)
           R == Len(r)
           V == Len(v)
           T == Len(t)
<1>1. /\ p \in Seq(Nat) /\ r \in Seq(Nat) /\ v \in Seq(X) /\ t \in Seq(Nat)
      /\ R \in Nat /\ V \in Nat /\ T \in Nat /\ T + Len(p) = V /\ R <= T
  BY ShapeParts
<1>2. V + 1 \in Nat /\ nil \in X /\ T = V
  BY <1>1
<1>3. /\ r2 \in Seq(Nat) /\ Len(r2) = R + 1
      /\ (\A i \in 1..R : r2[i] = r[i]) /\ r2[R + 1] = V + 1
  BY <1>1, <1>2, AppendFacts
<1>4. /\ v2 \in Seq(X) /\ Len(v2) = V + 1
      /\ (\A i \in 1..V : v2[i] = v[i]) /\ v2[V + 1] = nil
  BY <1>1, <1>2, AppendFacts
<1>5. /\ t2 \in Seq(Nat) /\ Len(t2) = T + 1
      /\ (\A i \in 1..T : t2[i] = t[i]) /\ t2[T + 1] = V + 1
  <2>1. t \in Seq(Nat) /\ V + 1 \in Nat
    BY <1>1, <1>2
  <2> HIDE DEF V
  <2>2. /\ Append(t, V + 1) \in Seq(Nat) /\ Len(Append(t, V + 1)) = T + 1
        /\ \A i \in 1..T : Append(t, V + 1)[i] = t[i]
        /\ Append(t, V + 1)[T + 1] = V + 1
    BY <2>1, AppendFacts
  <2> QED
    BY <2>2 DEF V
<1>6. \A i \in 1..R : r[i] = V - R + i
  BY ShapeParts
<1>7. \A e \in 1..V : v[e] = nil <=> e > V - R
  BY ShapeParts
<1>8. \A i \in 1..T : t[i] = i
  BY ShapeParts
<1> HIDE DEF r2, v2, t2, R, V, T
<1>9. \A i \in 1..(R + 1) : r2[i] = (V + 1) - (R + 1) + i
  <2>1. \A i \in 1..(R + 1) : i \in 1..R \/ i = R + 1
    BY <1>1, <1>2
  <2>2. \A i \in 1..R : r2[i] = (V + 1) - (R + 1) + i
    BY <1>1, <1>3, <1>6
  <2>3. r2[R + 1] = (V + 1) - (R + 1) + (R + 1)
    BY <1>1, <1>3, <1>6
  <2> QED
    BY <2>1, <2>2, <2>3, Zenon
<1>10. \A e \in 1..(V + 1) : v2[e] = nil <=> e > (V + 1) - (R + 1)
  BY <1>1, <1>2, <1>4, <1>7
<1>11. \A i \in 1..(T + 1) : t2[i] = i
  <2>1. \A i \in 1..(T + 1) : i \in 1..T \/ i = T + 1
    BY <1>1, <1>2
  <2> QED
    BY <2>1, <1>1, <1>2, <1>5, <1>8
<1>12. /\ (T + 1) + 0 = V + 1 /\ R + 1 <= T + 1
       /\ \A i \in 1..0 : p[i] = (T + 1) + i
  BY <1>1, <1>2
<1>13. ShapeOf(X, nil, p, r2, v2, t2)
  BY <1>1, <1>3, <1>4, <1>5, <1>9, <1>10, <1>11, <1>12, Zenon DEF ShapeOf
<1> QED
  BY <1>13 DEF r2, v2, t2, V

\* dequeue() when a value waits: the oldest one is handed out.
LEMMA ShapeDequeueWaiting ==
    ASSUME NEW X, NEW nil,
           NEW p, NEW r, NEW v, NEW t, ShapeOf(X, nil, p, r, v, t), p # <<>>
    PROVE  /\ ShapeOf(X, nil, Tail(p), r, v, Append(t, Head(p)))
           /\ Head(p) = Len(t) + 1
           /\ Len(r) = 0
           /\ Len(t) < Len(v)
<1> DEFINE p2 == Tail(p)
           h == Head(p)
           t2 == Append(t, h)
           P == Len(p)
           R == Len(r)
           V == Len(v)
           T == Len(t)
<1>1. /\ p \in Seq(Nat) /\ r \in Seq(Nat) /\ v \in Seq(X) /\ t \in Seq(Nat)
      /\ R \in Nat /\ V \in Nat /\ T \in Nat /\ T + P = V
      /\ P = 0 \/ R = 0
  BY ShapeParts
<1>2. /\ P \in Nat \ {0} /\ h = p[1]
      /\ p2 \in Seq(Nat) /\ Len(p2) = P - 1
      /\ \A i \in 1..(P - 1) : p2[i] = p[i + 1]
  BY <1>1, TailFacts
<1>3. \A i \in 1..P : p[i] = T + i
  BY ShapeParts
<1>4. \A e \in 1..V : v[e] = nil <=> e > V - R
  BY ShapeParts
<1>5. \A i \in 1..T : t[i] = i
  BY ShapeParts
<1>5a. \A i \in 1..R : r[i] = V - R + i
  BY ShapeParts
<1> HIDE DEF p2, h, P, R, V, T
<1>6. R = 0 /\ h = T + 1 /\ T < V /\ h \in Nat
  BY <1>1, <1>2, <1>3
<1>7. /\ t2 \in Seq(Nat) /\ Len(t2) = T + 1
      /\ (\A i \in 1..T : t2[i] = t[i]) /\ t2[T + 1] = h
  BY <1>1, <1>6, AppendFacts DEF T
<1> HIDE DEF t2
<1>8. \A i \in 1..(T + 1) : t2[i] = i
  <2>1. \A i \in 1..(T + 1) : i \in 1..T \/ i = T + 1
    BY <1>1, <1>2
  <2> QED
    BY <2>1, <1>1, <1>5, <1>6, <1>7
<1>9. \A i \in 1..(P - 1) : p2[i] = (T + 1) + i
  BY <1>1, <1>2, <1>3
<1>10. (T + 1) + (P - 1) = V /\ R <= T + 1
  BY <1>1, <1>2, <1>6
<1>11. ShapeOf(X, nil, p2, r, v, t2)
  BY <1>1, <1>2, <1>4, <1>5, <1>5a, <1>6, <1>7, <1>8, <1>9, <1>10, Zenon
  DEF ShapeOf, R, V
<1> QED
  BY <1>6, <1>11 DEF p2, h, t2, R, T, V

\* The arrays name existing entries only.
LEMMA ShapeTyped ==
    ASSUME NEW X, NEW nil,
           NEW p, NEW r, NEW v, NEW t, ShapeOf(X, nil, p, r, v, t)
    PROVE  /\ p \in Seq(1..Len(v)) /\ r \in Seq(1..Len(v))
           /\ v \in Seq(X) /\ t \in Seq(1..Len(v))
<1> DEFINE E == 1..Len(v)
<1>1. ASSUME NEW s \in Seq(Nat), \A i \in 1..Len(s) : s[i] \in E
      PROVE  s \in Seq(E)
  <2> HIDE DEF E
  <2> QED
    BY <1>1
<1>2. /\ p \in Seq(Nat) /\ r \in Seq(Nat) /\ v \in Seq(X) /\ t \in Seq(Nat)
      /\ Len(p) \in Nat /\ Len(r) \in Nat /\ Len(v) \in Nat /\ Len(t) \in Nat
      /\ Len(t) + Len(p) = Len(v) /\ Len(r) <= Len(t)
  BY ShapeParts
<1>3. \A i \in 1..Len(p) : p[i] \in E
  <2>1. \A i \in 1..Len(p) : p[i] = Len(t) + i
    BY ShapeParts
  <2> QED
    BY <1>2, <2>1
<1>4. \A i \in 1..Len(r) : r[i] \in E
  <2>1. \A i \in 1..Len(r) : r[i] = Len(v) - Len(r) + i
    BY ShapeParts
  <2> QED
    BY <1>2, <2>1
<1>5. \A i \in 1..Len(t) : t[i] \in E
  <2>1. \A i \in 1..Len(t) : t[i] = i
    BY ShapeParts
  <2> QED
    BY <1>2, <2>1
<1> HIDE DEF E
<1>6. p \in Seq(E) /\ r \in Seq(E) /\ t \in Seq(E)
  BY <1>1, <1>2, <1>3, <1>4, <1>5
<1> QED
  BY <1>2, <1>6 DEF E

\* The values of all enqueue() calls: those of the resolved entries.
SentOf(v, r) == SubSeq(v, 1, Len(v) - Len(r))

\* They are values, one for each entry that was resolved.
LEMMA SentFacts ==
    ASSUME NEW X, NEW nil,
           NEW p, NEW r, NEW v, NEW t, ShapeOf(X, nil, p, r, v, t)
    PROVE  /\ SentOf(v, r) \in Seq(X)
           /\ Len(SentOf(v, r)) = Len(v) - Len(r)
           /\ Len(v) - Len(r) \in Nat
           /\ \A i \in 1..(Len(v) - Len(r)) :
                  SentOf(v, r)[i] = v[i] /\ v[i] \in X /\ v[i] # nil
<1> DEFINE n == Len(v) - Len(r)
<1>1. /\ Len(p) \in Nat /\ Len(r) \in Nat /\ Len(v) \in Nat /\ Len(t) \in Nat
      /\ Len(t) + Len(p) = Len(v) /\ Len(r) <= Len(t)
      /\ v \in Seq(X)
  BY ShapeParts
<1>2. \A e \in 1..Len(v) : v[e] = nil <=> e > Len(v) - Len(r)
  BY ShapeParts
<1>3. n \in Nat /\ \A i \in 1..n : i \in 1..Len(v) /\ v[i] \in X
  BY <1>1
<1>4. \A i \in 1..n : v[i] # nil
  BY <1>1, <1>2, <1>3
<1> HIDE DEF n
<1>5. /\ SubSeq(v, 1, n) \in Seq(X)
      /\ Len(SubSeq(v, 1, n)) = n
      /\ \A i \in 1..n : SubSeq(v, 1, n)[i] = v[i]
  BY <1>3, SubSeqProperties
<1> QED
  BY <1>3, <1>4, <1>5 DEF n, SentOf

=============================================================================
