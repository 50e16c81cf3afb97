------------------------- MODULE ConversationProofs ------------------------
(***************************************************************************)
(* What the headers of a message are for every payload, id and counter: a  *)
(* message is read as it was meant, in conversations of any length.        *)
(***************************************************************************)
EXTENDS Conversation, ArrayLemmas

-----------------------------------------------------------------------------
(* Buffers *)

\* Buffer.alloc(n) has n bytes, all 0.
LEMMA AllocFacts ==
    ASSUME NEW n \in Nat
    PROVE  /\ Alloc(n) \in Seq(Byte) /\ Len(Alloc(n)) = n
           /\ \A i \in 1..n : Alloc(n)[i] = 0
BY DEF Alloc, Byte

\* A write keeps the length and changes only what it covers.
LEMMA WriteAtFacts ==
    ASSUME NEW S, NEW a \in Seq(S), NEW v \in Seq(S), NEW o \in Nat
    PROVE  /\ WriteAt(a, o, v) \in Seq(S)
           /\ Len(WriteAt(a, o, v)) = Len(a)
           /\ \A i \in 1..Len(a) : WriteAt(a, o, v)[i] =
                  IF i - o \in 1..Len(v) THEN v[i - o] ELSE a[i]
BY DEF WriteAt

\* A write within the first part of a buffer leaves the second part alone.
LEMMA WriteLeft ==
    ASSUME NEW S, NEW a \in Seq(S), NEW b \in Seq(S), NEW v \in Seq(S),
           NEW o \in Nat, o + Len(v) <= Len(a)
    PROVE  WriteAt(a \o b, o, v) = WriteAt(a, o, v) \o b
<1> DEFINE c == a \o b
           w == WriteAt(a, o, v)
           x == WriteAt(c, o, v)
           y == w \o b
<1>1. /\ c \in Seq(S) /\ Len(c) = Len(a) + Len(b)
      /\ \A i \in 1..(Len(a) + Len(b)) :
             c[i] = IF i <= Len(a) THEN a[i] ELSE b[i - Len(a)]
  BY ConcatProperties
<1>2. /\ w \in Seq(S) /\ Len(w) = Len(a)
      /\ \A i \in 1..Len(a) :
             w[i] = IF i - o \in 1..Len(v) THEN v[i - o] ELSE a[i]
  BY WriteAtFacts
<1> HIDE DEF c, w
<1>3. /\ x \in Seq(S) /\ Len(x) = Len(c)
      /\ \A i \in 1..Len(c) :
             x[i] = IF i - o \in 1..Len(v) THEN v[i - o] ELSE c[i]
  <2>1. c \in Seq(S)
    BY <1>1
  <2> QED
    BY ONLY <2>1, v \in Seq(S), o \in Nat, WriteAtFacts
<1>4. /\ y \in Seq(S) /\ Len(y) = Len(w) + Len(b)
      /\ \A i \in 1..(Len(w) + Len(b)) :
             y[i] = IF i <= Len(w) THEN w[i] ELSE b[i - Len(w)]
  BY <1>2, ConcatProperties
<1> HIDE DEF x, y
<1>5. Len(a) \in Nat /\ Len(b) \in Nat /\ Len(v) \in Nat
  OBVIOUS
<1>6. ASSUME NEW i \in 1..Len(x) PROVE x[i] = y[i]
  <2>1. CASE i <= Len(a)
    <3>1. i \in 1..Len(a) /\ i \in 1..Len(c) /\ i \in 1..(Len(w) + Len(b))
      BY <1>1, <1>2, <1>3, <1>5, <2>1
    <3>2. c[i] = a[i] /\ y[i] = w[i]
      BY <1>1, <1>2, <1>4, <2>1, <3>1
    <3> QED
      BY <1>2, <1>3, <3>1, <3>2
  <2>2. CASE i > Len(a)
    <3>1. i \in 1..(Len(a) + Len(b)) /\ i \in 1..Len(c) /\ ~(i - o \in 1..Len(v))
      BY <1>1, <1>3, <1>5, <2>2
    <3>2. c[i] = b[i - Len(a)] /\ y[i] = b[i - Len(a)]
      BY <1>1, <1>2, <1>4, <1>5, <2>2, <3>1
    <3> QED
      BY <1>3, <3>1, <3>2
  <2> QED
    BY <1>3, <1>5, <2>1, <2>2
<1>7. x = y
  BY <1>1, <1>2, <1>3, <1>4, <1>6, SameSeq
<1> QED
  BY <1>7 DEF x, y, c, w

\* A write into the second part of a buffer leaves the first part alone.
LEMMA WriteRight ==
    ASSUME NEW S, NEW a \in Seq(S), NEW b \in Seq(S), NEW v \in Seq(S),
           NEW o \in Nat
    PROVE  WriteAt(a \o b, Len(a) + o, v) = a \o WriteAt(b, o, v)
<1> DEFINE c == a \o b
           w == WriteAt(b, o, v)
           x == WriteAt(c, Len(a) + o, v)
           y == a \o w
<1>1. /\ c \in Seq(S) /\ Len(c) = Len(a) + Len(b)
      /\ \A i \in 1..(Len(a) + Len(b)) :
             c[i] = IF i <= Len(a) THEN a[i] ELSE b[i - Len(a)]
  BY ConcatProperties
<1>2. /\ w \in Seq(S) /\ Len(w) = Len(b)
      /\ \A i \in 1..Len(b) :
             w[i] = IF i - o \in 1..Len(v) THEN v[i - o] ELSE b[i]
  BY WriteAtFacts
<1> HIDE DEF c, w
<1>3. /\ x \in Seq(S) /\ Len(x) = Len(c)
      /\ \A i \in 1..Len(c) :
             x[i] = IF i - (Len(a) + o) \in 1..Len(v)
                    THEN v[i - (Len(a) + o)] ELSE c[i]
  <2>1. c \in Seq(S) /\ Len(a) + o \in Nat
    BY <1>1
  <2> QED
    BY ONLY <2>1, v \in Seq(S), WriteAtFacts
<1>4. /\ y \in Seq(S) /\ Len(y) = Len(a) + Len(w)
      /\ \A i \in 1..(Len(a) + Len(w)) :
             y[i] = IF i <= Len(a) THEN a[i] ELSE w[i - Len(a)]
  BY <1>2, ConcatProperties
<1> HIDE DEF x, y
<1>5. Len(a) \in Nat /\ Len(b) \in Nat /\ Len(v) \in Nat
  OBVIOUS
<1>6. ASSUME NEW i \in 1..Len(x) PROVE x[i] = y[i]
  <2>1. CASE i <= Len(a)
    <3>1. ~(i - (Len(a) + o) \in 1..Len(v))
      BY <1>5, <2>1
    <3> QED
      BY <1>1, <1>2, <1>3, <1>4, <1>5, <2>1, <3>1
  <2>2. CASE i > Len(a)
    <3>1. i - Len(a) \in 1..Len(b)
      BY <1>1, <1>3, <1>5, <2>2
    <3>2. y[i] = w[i - Len(a)] /\ c[i] = b[i - Len(a)]
      BY <1>1, <1>2, <1>3, <1>4, <1>5, <2>2
    <3>3. i - (Len(a) + o) = (i - Len(a)) - o
      BY <1>5
    <3> QED
      BY <1>2, <1>3, <3>1, <3>2, <3>3
  <2> QED
    BY <1>3, <1>5, <2>1, <2>2
<1>7. x = y
  BY <1>1, <1>2, <1>3, <1>4, <1>6, SameSeq
<1> QED
  BY <1>7 DEF x, y, c, w

\* A write over all of a buffer.
LEMMA WriteWhole ==
    ASSUME NEW S, NEW a \in Seq(S), NEW v \in Seq(S), Len(a) = Len(v)
    PROVE  WriteAt(a, 0, v) = v
<1>1. /\ WriteAt(a, 0, v) \in Seq(S)
      /\ Len(WriteAt(a, 0, v)) = Len(a)
      /\ \A i \in 1..Len(a) : WriteAt(a, 0, v)[i] =
             IF i - 0 \in 1..Len(v) THEN v[i - 0] ELSE a[i]
  BY WriteAtFacts
<1>2. \A i \in 1..Len(v) : WriteAt(a, 0, v)[i] = v[i]
  BY <1>1
<1> QED
  BY <1>1, <1>2, SameSeq

\* Reading what is in the first part of a buffer, and all of that part.
LEMMA ReadLeft ==
    ASSUME NEW S, NEW a \in Seq(S), NEW b \in Seq(S),
           NEW o \in Nat, NEW n \in Nat, o + n <= Len(a)
    PROVE  /\ ReadAt(a \o b, o, n) = ReadAt(a, o, n)
           /\ \A i \in 1..Len(a) : (a \o b)[i] = a[i]
<1> DEFINE c == a \o b
           x == ReadAt(c, o, n)
           y == ReadAt(a, o, n)
<1>1. /\ c \in Seq(S) /\ Len(c) = Len(a) + Len(b)
      /\ \A i \in 1..Len(a) : c[i] = a[i] /\ a[i] \in S
  BY ConcatProperties
<1> HIDE DEF c
<1>2. \A i \in (o + 1)..(o + n) : c[i] = a[i] /\ c[i] \in S /\ a[i] \in S
  BY <1>1
<1>3. /\ x \in Seq(S) /\ Len(x) = n
      /\ \A i \in 1..n : x[i] = c[o + i]
  <2>1. o + 1 \in Int /\ o + n \in Int
    OBVIOUS
  <2> QED
    BY <1>2, <2>1, SubSeqProperties DEF ReadAt
<1>4. /\ y \in Seq(S) /\ Len(y) = n
      /\ \A i \in 1..n : y[i] = a[o + i]
  <2>1. o + 1 \in Int /\ o + n \in Int
    OBVIOUS
  <2> QED
    BY <1>2, <2>1, SubSeqProperties DEF ReadAt
<1> HIDE DEF x, y
<1>5. x = y
  <2>1. \A i \in 1..n : o + i \in (o + 1)..(o + n)
    OBVIOUS
  <2>2. \A i \in 1..Len(x) : x[i] = y[i]
    BY <1>2, <1>3, <1>4, <2>1
  <2> QED
    BY <1>3, <1>4, <2>2, SameSeq
<1> QED
  BY <1>1, <1>5 DEF x, y, c

\* Reading what is in the second part of a buffer.
LEMMA ReadRight ==
    ASSUME NEW S, NEW a \in Seq(S), NEW b \in Seq(S),
           NEW o \in Nat, NEW n \in Nat, o + n <= Len(b)
    PROVE  /\ ReadAt(a \o b, Len(a) + o, n) = ReadAt(b, o, n)
           /\ \A i \in 1..Len(b) : (a \o b)[Len(a) + i] = b[i]
<1> DEFINE c == a \o b
           x == ReadAt(c, Len(a) + o, n)
           y == ReadAt(b, o, n)
<1>1. /\ c \in Seq(S) /\ Len(c) = Len(a) + Len(b)
      /\ \A i \in 1..Len(b) : c[Len(a) + i] = b[i] /\ b[i] \in S
      /\ Len(a) \in Nat /\ Len(b) \in Nat
  BY ConcatProperties
<1> HIDE DEF c
<1>2. /\ \A i \in (o + 1)..(o + n) : b[i] \in S
      /\ \A i \in (Len(a) + o + 1)..(Len(a) + o + n) : c[i] \in S
  <2>1. ASSUME NEW i \in (Len(a) + o + 1)..(Len(a) + o + n) PROVE c[i] \in S
    <3>1. i - Len(a) \in 1..Len(b) /\ i = Len(a) + (i - Len(a))
      BY <1>1
    <3> QED
      BY <1>1, <3>1
  <2> QED
    BY <1>1, <2>1
<1>3. /\ x \in Seq(S) /\ Len(x) = n
      /\ \A i \in 1..n : x[i] = c[Len(a) + (o + i)]
  <2>1. /\ Len(a) + o + 1 \in Int /\ Len(a) + o + n \in Int
        /\ Len(a) + o + n - (Len(a) + o + 1) + 1 = n
    BY <1>1
  <2>2. /\ x \in Seq(S) /\ Len(x) = n
        /\ \A i \in 1..n : x[i] = c[Len(a) + o + 1 + i - 1]
    BY <1>1, <1>2, <2>1, SubSeqProperties DEF ReadAt
  <2>3. \A i \in 1..n : Len(a) + o + 1 + i - 1 = Len(a) + (o + i)
    BY <1>1
  <2> QED
    BY <2>2, <2>3
<1>4. /\ y \in Seq(S) /\ Len(y) = n
      /\ \A i \in 1..n : y[i] = b[o + i]
  <2>1. o + 1 \in Int /\ o + n \in Int
    OBVIOUS
  <2> QED
    BY <1>2, <2>1, SubSeqProperties DEF ReadAt
<1> HIDE DEF x, y
<1>5. \A i \in 1..n : o + i \in 1..Len(b)
  BY <1>1
<1>6. x = y
  BY <1>1, <1>3, <1>4, <1>5, SameSeq
<1> QED
  BY <1>1, <1>6 DEF x, y, c

\* The two parts of a buffer.
LEMMA Parts ==
    ASSUME NEW S, NEW a \in Seq(S), NEW b \in Seq(S)
    PROVE  /\ SubSeq(a \o b, 1, Len(a)) = a
           /\ SubSeq(a \o b, Len(a) + 1, Len(a \o b)) = b
           /\ a \o b \in Seq(S) /\ Len(a \o b) = Len(a) + Len(b)
<1>1. Len(a) \in Nat /\ Len(b) \in Nat /\ Len(a \o b) = Len(a) + Len(b)
  BY ConcatProperties
<1>2. ReadAt(a \o b, 0, Len(a)) = ReadAt(a, 0, Len(a))
  BY <1>1, ReadLeft
<1>3. ReadAt(a \o b, Len(a) + 0, Len(b)) = ReadAt(b, 0, Len(b))
  BY <1>1, ReadRight
<1>4. SubSeq(a, 1, Len(a)) = a /\ SubSeq(b, 1, Len(b)) = b
  BY SubSeqFull
<1>5. /\ 0 + 1 = 1 /\ 0 + Len(a) = Len(a) /\ 0 + Len(b) = Len(b)
      /\ Len(a) + 0 = Len(a)
  BY <1>1
<1> QED
  BY <1>1, <1>2, <1>3, <1>4, <1>5, ConcatProperties DEF ReadAt

\* Widening between the two parts of a buffer.
LEMMA WidenBetween ==
    ASSUME NEW S, NEW a \in Seq(S), NEW b \in Seq(S), NEW n
    PROVE  Widen(a \o b, Len(a), n) = a \o Alloc(n) \o b
<1>1. /\ SubSeq(a \o b, 1, Len(a)) = a
      /\ SubSeq(a \o b, Len(a) + 1, Len(a \o b)) = b
  BY ONLY a \in Seq(S), b \in Seq(S), Parts
<1> QED
  BY <1>1, Zenon DEF Widen

-----------------------------------------------------------------------------
(* The layout of a message *)

\* n bytes are a sequence.
LEMMA BytesSeq ==
    ASSUME NEW n \in Nat, NEW v \in Bytes(n)
    PROVE  v \in Seq(Byte) /\ Len(v) = n /\ \A i \in 1..n : v[i] \in Byte
BY DEF Bytes

\* A field that may be missing.
Optional(there, v) == IF there THEN v ELSE <<>>

\* Message flags: S and DSIZ; exchange flags: I, A and R.
MFlags(S, D) == (IF S THEN 4 ELSE 0) + (IF D THEN 1 ELSE 0)
XFlags(i, a, r) ==
    (IF i THEN 1 ELSE 0) + (IF a THEN 2 ELSE 0) + (IF r THEN 4 ELSE 0)

\* The fixed parts of the two headers.
Fixed8(m, s, c) == <<m, s[1], s[2], 0, c[1], c[2], c[3], c[4]>>
Fixed6(f, op, id, p) == <<f, op, id[1], id[2], p[1], p[2]>>

\* The message header; the exchange header with the payload.
MHeader(S, D, s, c, src, dst) ==
    Fixed8(MFlags(S, D), s, c) \o (Optional(S, src) \o Optional(D, dst))
Body(i, a, r, op, id, p, ack, pay) ==
    Fixed6(XFlags(i, a, r), op, id, p) \o (Optional(a, ack) \o pay)

\* The flags are read as they were set.
LEMMA MFlagsRead ==
    ASSUME NEW S \in BOOLEAN, NEW D \in BOOLEAN
    PROVE  /\ MFlags(S, D) \in Byte
           /\ MFlags(S, D) & 4 # 0 <=> S
           /\ MFlags(S, D) & 3 = IF D THEN 1 ELSE 0
           /\ MFlags(S, D) & 1 # 0 <=> D
           /\ MFlags(S, D) & 2 = 0
<1>1. CASE S /\ D
  BY <1>1 DEF MFlags, &, Byte
<1>2. CASE S /\ ~D
  BY <1>2 DEF MFlags, &, Byte
<1>3. CASE ~S /\ D
  BY <1>3 DEF MFlags, &, Byte
<1>4. CASE ~S /\ ~D
  BY <1>4 DEF MFlags, &, Byte
<1> QED
  BY <1>1, <1>2, <1>3, <1>4

\* The same for the exchange flags, one by one.
LEMMA XFlagsRead ==
    ASSUME NEW i \in BOOLEAN, NEW a \in BOOLEAN, NEW r \in BOOLEAN
    PROVE  /\ XFlags(i, a, r) \in Byte
           /\ XFlags(i, a, r) & 1 # 0 <=> i
           /\ XFlags(i, a, r) & 2 # 0 <=> a
           /\ XFlags(i, a, r) & 4 # 0 <=> r
<1>1. CASE i /\ a /\ r
  BY <1>1 DEF XFlags, &, Byte
<1>2. CASE i /\ a /\ ~r
  BY <1>2 DEF XFlags, &, Byte
<1>3. CASE i /\ ~a /\ r
  BY <1>3 DEF XFlags, &, Byte
<1>4. CASE i /\ ~a /\ ~r
  BY <1>4 DEF XFlags, &, Byte
<1>5. CASE ~i /\ a /\ r
  BY <1>5 DEF XFlags, &, Byte
<1>6. CASE ~i /\ a /\ ~r
  BY <1>6 DEF XFlags, &, Byte
<1>7. CASE ~i /\ ~a /\ r
  BY <1>7 DEF XFlags, &, Byte
<1>8. CASE ~i /\ ~a /\ ~r
  BY <1>8 DEF XFlags, &, Byte
<1> QED
  BY <1>1, <1>2, <1>3, <1>4, <1>5, <1>6, <1>7, <1>8

\* What v holds is the n bytes of a after the first o.
Holds(v, a, o, n) ==
    v \in Bytes(n) /\ v \in Seq(Byte) /\ Len(v) = n /\ \A i \in 1..n : v[i] = a[o + i]

\* Reading n bytes.
LEMMA ReadFacts ==
    ASSUME NEW a \in Seq(Byte), NEW o \in Nat, NEW n \in Nat, o + n <= Len(a)
    PROVE  Holds(ReadAt(a, o, n), a, o, n)
<1>1. o + 1 \in Int /\ o + n \in Int /\ o + n - (o + 1) + 1 = n
  OBVIOUS
<1>2. \A i \in (o + 1)..(o + n) : a[i] \in Byte
  OBVIOUS
<1>3. /\ SubSeq(a, o + 1, o + n) \in Seq(Byte)
      /\ Len(SubSeq(a, o + 1, o + n)) = IF o + 1 <= o + n THEN n ELSE 0
      /\ \A i \in 1..n : SubSeq(a, o + 1, o + n)[i] = a[o + 1 + i - 1]
  BY <1>1, <1>2, SubSeqProperties
<1>4. \A i \in 1..n : o + 1 + i - 1 = o + i
  OBVIOUS
<1>5. (IF o + 1 <= o + n THEN n ELSE 0) = n
  OBVIOUS
<1>6. Len(SubSeq(a, o + 1, o + n)) = n
  BY <1>3, <1>5
<1>7. SubSeq(a, o + 1, o + n) \in [1..n -> Byte]
  BY <1>3, <1>6, LenProperties
<1> QED
  BY <1>3, <1>4, <1>6, <1>7 DEF ReadAt, Bytes, Holds

\* c has the parts a and b: what is read in it is in one of them.
TwoParts(c, a, b) ==
    /\ c \in Seq(Byte) /\ Len(c) = Len(a) + Len(b)
    /\ Len(a) \in Nat /\ Len(b) \in Nat
    /\ \A i \in 1..Len(a) : c[i] = a[i]
    /\ \A i \in 1..Len(b) : c[Len(a) + i] = b[i]
    /\ \A o, n \in Nat : o + n <= Len(a) => ReadAt(c, o, n) = ReadAt(a, o, n)
    /\ \A o, n \in Nat : o + n <= Len(b) =>
           ReadAt(c, Len(a) + o, n) = ReadAt(b, o, n)

\* Reading in a buffer of two parts.
LEMMA Joined ==
    ASSUME NEW a \in Seq(Byte), NEW b \in Seq(Byte)
    PROVE  TwoParts(a \o b, a, b)
<1> DEFINE c == a \o b
<1>1. Len(a) \in Nat /\ Len(b) \in Nat
  OBVIOUS
<1>2. c \in Seq(Byte) /\ Len(c) = Len(a) + Len(b)
  BY ConcatProperties
<1>3. 0 + 0 <= Len(a) /\ 0 + 0 <= Len(b) /\ 0 \in Nat
  BY <1>1
<1>4. \A i \in 1..Len(a) : c[i] = a[i]
  BY <1>3, ReadLeft, Zenon
<1>5. \A i \in 1..Len(b) : c[Len(a) + i] = b[i]
  BY <1>3, ReadRight, Zenon
<1>6. ASSUME NEW o \in Nat, NEW n \in Nat, o + n <= Len(a)
      PROVE  ReadAt(c, o, n) = ReadAt(a, o, n)
  BY ONLY <1>6, a \in Seq(Byte), b \in Seq(Byte), ReadLeft
<1>7. ASSUME NEW o \in Nat, NEW n \in Nat, o + n <= Len(b)
      PROVE  ReadAt(c, Len(a) + o, n) = ReadAt(b, o, n)
  BY ONLY <1>7, a \in Seq(Byte), b \in Seq(Byte), ReadRight
<1> QED
  BY <1>1, <1>2, <1>4, <1>5, <1>6, <1>7 DEF TwoParts

\* The places of the fixed part of the message header.
LEMMA Fixed8Facts ==
    ASSUME NEW m \in Byte, NEW s \in Bytes(2), NEW c \in Bytes(4)
    PROVE  /\ Fixed8(m, s, c) \in Seq(Byte) /\ Len(Fixed8(m, s, c)) = 8
           /\ Fixed8(m, s, c)[1] = m /\ Fixed8(m, s, c)[4] = 0
           /\ ReadAt(Fixed8(m, s, c), 1, 2) = s
           /\ ReadAt(Fixed8(m, s, c), 4, 4) = c
<1> DEFINE h == Fixed8(m, s, c)
<1>1. /\ h \in Seq(Byte) /\ Len(h) = 8
      /\ h[1] = m /\ h[2] = s[1] /\ h[3] = s[2] /\ h[4] = 0
      /\ h[5] = c[1] /\ h[6] = c[2] /\ h[7] = c[3] /\ h[8] = c[4]
  BY BytesSeq DEF Fixed8, Byte
<1>2. s \in Seq(Byte) /\ Len(s) = 2 /\ c \in Seq(Byte) /\ Len(c) = 4
  BY BytesSeq
<1> HIDE DEF h
<1>3. ReadAt(h, 1, 2) = s
  <2>1. Holds(ReadAt(h, 1, 2), h, 1, 2)
    <3>1. 1 \in Nat /\ 2 \in Nat /\ 1 + 2 <= Len(h) /\ h \in Seq(Byte)
      BY <1>1
    <3> QED
      BY ONLY <3>1, ReadFacts
  <2>2. \A k \in 1..2 : ReadAt(h, 1, 2)[k] = s[k]
    BY <1>1, <2>1 DEF Holds
  <2> QED
    BY <1>2, <2>1, <2>2, SameSeq DEF Holds
<1>4. ReadAt(h, 4, 4) = c
  <2>1. Holds(ReadAt(h, 4, 4), h, 4, 4)
    <3>1. 4 \in Nat /\ 4 \in Nat /\ 4 + 4 <= Len(h) /\ h \in Seq(Byte)
      BY <1>1
    <3> QED
      BY ONLY <3>1, ReadFacts
  <2>2. \A k \in 1..4 : ReadAt(h, 4, 4)[k] = c[k]
    BY <1>1, <2>1 DEF Holds
  <2> QED
    BY <1>2, <2>1, <2>2, SameSeq DEF Holds
<1> QED
  BY <1>1, <1>3, <1>4 DEF h

\* The places of the exchange header.
LEMMA Fixed6Facts ==
    ASSUME NEW f \in Byte, NEW op \in Byte, NEW id \in Bytes(2), NEW p \in Bytes(2)
    PROVE  /\ Fixed6(f, op, id, p) \in Seq(Byte) /\ Len(Fixed6(f, op, id, p)) = 6
           /\ Fixed6(f, op, id, p)[1] = f /\ Fixed6(f, op, id, p)[2] = op
           /\ ReadAt(Fixed6(f, op, id, p), 2, 2) = id
           /\ ReadAt(Fixed6(f, op, id, p), 4, 2) = p
<1> DEFINE h == Fixed6(f, op, id, p)
<1>1. /\ h \in Seq(Byte) /\ Len(h) = 6
      /\ h[1] = f /\ h[2] = op /\ h[3] = id[1] /\ h[4] = id[2]
      /\ h[5] = p[1] /\ h[6] = p[2]
  BY BytesSeq DEF Fixed6
<1>2. id \in Seq(Byte) /\ Len(id) = 2 /\ p \in Seq(Byte) /\ Len(p) = 2
  BY BytesSeq
<1> HIDE DEF h
<1>3. ReadAt(h, 2, 2) = id
  <2>1. Holds(ReadAt(h, 2, 2), h, 2, 2)
    <3>1. 2 \in Nat /\ 2 \in Nat /\ 2 + 2 <= Len(h) /\ h \in Seq(Byte)
      BY <1>1
    <3> QED
      BY ONLY <3>1, ReadFacts
  <2>2. \A k \in 1..2 : ReadAt(h, 2, 2)[k] = id[k]
    BY <1>1, <2>1 DEF Holds
  <2> QED
    BY <1>2, <2>1, <2>2, SameSeq DEF Holds
<1>4. ReadAt(h, 4, 2) = p
  <2>1. Holds(ReadAt(h, 4, 2), h, 4, 2)
    <3>1. 4 \in Nat /\ 2 \in Nat /\ 4 + 2 <= Len(h) /\ h \in Seq(Byte)
      BY <1>1
    <3> QED
      BY ONLY <3>1, ReadFacts
  <2>2. \A k \in 1..2 : ReadAt(h, 4, 2)[k] = p[k]
    BY <1>1, <2>1 DEF Holds
  <2> QED
    BY <1>2, <2>1, <2>2, SameSeq DEF Holds
<1> QED
  BY <1>1, <1>3, <1>4 DEF h

\* A field that may be missing is a part of a buffer.
LEMMA OptionalFacts ==
    ASSUME NEW t \in BOOLEAN
    PROVE  /\ \A v \in Bytes(8) : /\ Optional(t, v) \in Seq(Byte)
                                  /\ Len(Optional(t, v)) = IF t THEN 8 ELSE 0
           /\ \A v \in Bytes(4) : /\ Optional(t, v) \in Seq(Byte)
                                  /\ Len(Optional(t, v)) = IF t THEN 4 ELSE 0
BY BytesSeq, EmptySeq DEF Optional

\* All of a buffer.
LEMMA ReadAll ==
    ASSUME NEW n \in Nat, NEW v \in Bytes(n)
    PROVE  ReadAt(v, 0, n) = v
<1>1. v \in Seq(Byte) /\ Len(v) = n
  BY BytesSeq
<1>2. SubSeq(v, 1, n) = v
  BY <1>1, SubSeqFull
<1> QED
  BY <1>2 DEF ReadAt

IsHeader(h, S, D, s, c, src, dst) ==
    /\ h \in Seq(Byte)
    /\ Len(h) = 8 + (IF S THEN 8 ELSE 0) + (IF D THEN 8 ELSE 0)
    /\ h[1] = MFlags(S, D) /\ h[4] = 0
    /\ ReadAt(h, 1, 2) = s /\ ReadAt(h, 4, 4) = c
    /\ S => ReadAt(h, 8, 8) = src
    /\ D => ReadAt(h, 8 + (IF S THEN 8 ELSE 0), 8) = dst

\* The places of the message header.
LEMMA MHeaderFacts ==
    ASSUME NEW S \in BOOLEAN, NEW D \in BOOLEAN, NEW s \in Bytes(2),
           NEW c \in Bytes(4), NEW src \in Bytes(8), NEW dst \in Bytes(8),
           NEW h, h = MHeader(S, D, s, c, src, dst)
    PROVE  IsHeader(h, S, D, s, c, src, dst)
<1> DEFINE x == Fixed8(MFlags(S, D), s, c)
           u == Optional(S, src)
           v == Optional(D, dst)
           w == u \o v
<1>1. /\ x \in Seq(Byte) /\ Len(x) = 8 /\ x[1] = MFlags(S, D) /\ x[4] = 0
      /\ ReadAt(x, 1, 2) = s /\ ReadAt(x, 4, 4) = c
  BY Fixed8Facts, MFlagsRead
<1>2. /\ u \in Seq(Byte) /\ Len(u) = IF S THEN 8 ELSE 0
      /\ v \in Seq(Byte) /\ Len(v) = IF D THEN 8 ELSE 0
  BY OptionalFacts
<1>3. h = x \o w
  BY DEF MHeader
<1>4. (S => u = src) /\ (D => v = dst)
  BY DEF Optional
<1> HIDE DEF x, u, v
<1>5. TwoParts(w, u, v)
  BY <1>2, Joined
<1> HIDE DEF w
<1>6. TwoParts(h, x, w)
  <2>1. w \in Seq(Byte)
    BY <1>5 DEF TwoParts
  <2> QED
    BY <1>1, <1>3, <2>1, Joined
<1>7. /\ ReadAt(h, 1, 2) = ReadAt(x, 1, 2)
      /\ ReadAt(h, 4, 4) = ReadAt(x, 4, 4)
  BY <1>1, <1>6 DEF TwoParts
<1>8. ASSUME S PROVE ReadAt(h, 8, 8) = src
  <2>1. Len(u) = 8 /\ Len(v) \in Nat /\ Len(w) = 8 + Len(v)
    BY <1>2, <1>5, <1>8 DEF TwoParts
  <2>2. ReadAt(h, 8 + 0, 8) = ReadAt(w, 0, 8)
    BY <1>1, <1>6, <2>1 DEF TwoParts
  <2>3. ReadAt(w, 0, 8) = ReadAt(u, 0, 8)
    BY <1>5, <2>1 DEF TwoParts
  <2>4. ReadAt(u, 0, 8) = src
    BY <1>4, <1>8, ReadAll
  <2> QED
    BY <2>2, <2>3, <2>4
<1>9. ASSUME D PROVE ReadAt(h, 8 + (IF S THEN 8 ELSE 0), 8) = dst
  <2>1. Len(v) = 8 /\ Len(u) \in Nat /\ Len(w) = Len(u) + 8
    BY <1>2, <1>5, <1>9 DEF TwoParts
  <2>2. ReadAt(h, 8 + Len(u), 8) = ReadAt(w, Len(u), 8)
    BY <1>1, <1>6, <2>1 DEF TwoParts
  <2>3. ReadAt(w, Len(u) + 0, 8) = ReadAt(v, 0, 8)
    BY <1>2, <1>5, <2>1 DEF TwoParts
  <2>4. ReadAt(v, 0, 8) = dst
    BY <1>4, <1>9, ReadAll
  <2>5. Len(u) + 0 = Len(u) /\ 8 + Len(u) = 8 + (IF S THEN 8 ELSE 0)
    BY <1>2, <2>1
  <2> QED
    BY <2>2, <2>3, <2>4, <2>5
<1> QED
  BY <1>1, <1>2, <1>5, <1>6, <1>7, <1>8, <1>9 DEF TwoParts, IsHeader

IsBody(b, i, a, r, op, id, p, ack, pay) ==
    /\ b \in Seq(Byte)
    /\ Len(b) = 6 + (IF a THEN 4 ELSE 0) + Len(pay)
    /\ b[1] = XFlags(i, a, r) /\ b[2] = op
    /\ ReadAt(b, 2, 2) = id /\ ReadAt(b, 4, 2) = p
    /\ a => ReadAt(b, 6, 4) = ack
    /\ ReadAt(b, 6 + (IF a THEN 4 ELSE 0), Len(pay)) = pay

\* The places of the exchange header and the payload.
LEMMA BodyFacts ==
    ASSUME NEW i \in BOOLEAN, NEW a \in BOOLEAN, NEW r \in BOOLEAN,
           NEW op \in Byte, NEW id \in Bytes(2), NEW p \in Bytes(2),
           NEW ack \in Bytes(4), NEW pay \in Seq(Byte),
           NEW b, b = Body(i, a, r, op, id, p, ack, pay)
    PROVE  IsBody(b, i, a, r, op, id, p, ack, pay)
<1> DEFINE x == Fixed6(XFlags(i, a, r), op, id, p)
           u == Optional(a, ack)
           w == u \o pay
<1>1. /\ x \in Seq(Byte) /\ Len(x) = 6 /\ x[1] = XFlags(i, a, r) /\ x[2] = op
      /\ ReadAt(x, 2, 2) = id /\ ReadAt(x, 4, 2) = p
  BY Fixed6Facts, XFlagsRead
<1>2. u \in Seq(Byte) /\ Len(u) = (IF a THEN 4 ELSE 0) /\ Len(pay) \in Nat
  BY OptionalFacts
<1>3. b = x \o w
  BY DEF Body
<1>4. a => u = ack
  BY DEF Optional
<1> HIDE DEF x, u
<1>5. TwoParts(w, u, pay)
  BY <1>2, Joined
<1> HIDE DEF w
<1>6. TwoParts(b, x, w)
  <2>1. w \in Seq(Byte)
    BY <1>5 DEF TwoParts
  <2> QED
    BY <1>1, <1>3, <2>1, Joined
<1>7. /\ ReadAt(b, 2, 2) = ReadAt(x, 2, 2)
      /\ ReadAt(b, 4, 2) = ReadAt(x, 4, 2)
  BY <1>1, <1>6 DEF TwoParts
<1>8. ASSUME a PROVE ReadAt(b, 6, 4) = ack
  <2>1. Len(u) = 4 /\ Len(w) = 4 + Len(pay)
    BY <1>2, <1>5, <1>8 DEF TwoParts
  <2>2. ReadAt(b, 6 + 0, 4) = ReadAt(w, 0, 4)
    BY <1>1, <1>2, <1>5, <1>6, <2>1 DEF TwoParts
  <2>3. ReadAt(w, 0, 4) = ReadAt(u, 0, 4)
    BY <1>5, <2>1 DEF TwoParts
  <2>4. ReadAt(u, 0, 4) = ack
    BY <1>4, <1>8, ReadAll
  <2> QED
    BY <2>2, <2>3, <2>4
<1>9. ReadAt(b, 6 + (IF a THEN 4 ELSE 0), Len(pay)) = pay
  <2>1. Len(u) \in Nat
    BY <1>2
  <2>2. ReadAt(b, 6 + Len(u), Len(pay)) = ReadAt(w, Len(u), Len(pay))
    BY <1>1, <1>2, <1>5, <1>6, <2>1 DEF TwoParts
  <2>3. ReadAt(w, Len(u) + 0, Len(pay)) = ReadAt(pay, 0, Len(pay))
    BY <1>2, <1>5, <2>1 DEF TwoParts
  <2>4. ReadAt(pay, 0, Len(pay)) = pay
    BY <1>2, SubSeqFull DEF ReadAt
  <2>5. Len(u) + 0 = Len(u) /\ 6 + Len(u) = 6 + (IF a THEN 4 ELSE 0)
    BY <1>2, <2>1
  <2> QED
    BY <2>2, <2>3, <2>4, <2>5
<1> QED
  BY <1>1, <1>2, <1>5, <1>6, <1>7, <1>8, <1>9 DEF TwoParts, IsBody

-----------------------------------------------------------------------------
(* Reading a message *)

\* The fields of a message with these two parts.
Record(S, D, s, c, src, dst, i, a, r, op, id, p, ack, pay) ==
    [sid |-> s, ctr |-> c, i |-> i, r |-> r, id |-> id, protocol |-> p,
     opcode |-> op, source |-> IF S THEN src ELSE NODE_ID_ANY,
     destination |-> IF D THEN dst ELSE NODE_ID_ANY,
     ack |-> IF a THEN ack ELSE None, payload |-> pay]

\* A header and a body with these fields.
Framed(h, b, S, D, s, c, src, dst, i, a, r, op, id, p, ack, pay) ==
    /\ S \in BOOLEAN /\ D \in BOOLEAN /\ s \in Bytes(2) /\ c \in Bytes(4)
    /\ src \in Bytes(8) /\ dst \in Bytes(8)
    /\ i \in BOOLEAN /\ a \in BOOLEAN /\ r \in BOOLEAN
    /\ op \in Byte /\ id \in Bytes(2) /\ p \in Bytes(2)
    /\ ack \in Bytes(4) /\ pay \in Seq(Byte)
    /\ IsHeader(h, S, D, s, c, src, dst)
    /\ IsBody(b, i, a, r, op, id, p, ack, pay)

\* The getters of Message find every field, whichever are there.
LEMMA FrameRead ==
    ASSUME NEW h, NEW b, NEW S, NEW D, NEW s, NEW c, NEW src, NEW dst,
           NEW i, NEW a, NEW r, NEW op, NEW id, NEW p, NEW ack, NEW pay,
           Framed(h, b, S, D, s, c, src, dst, i, a, r, op, id, p, ack, pay)
    PROVE  ReadFields(Message(h \o b)) =
               Record(S, D, s, c, src, dst, i, a, r, op, id, p, ack, pay)
<1> DEFINE f == h \o b
           msg == Message(f)
<1>0. /\ S \in BOOLEAN /\ D \in BOOLEAN /\ i \in BOOLEAN /\ a \in BOOLEAN
      /\ r \in BOOLEAN /\ pay \in Seq(Byte)
      /\ IsHeader(h, S, D, s, c, src, dst)
      /\ IsBody(b, i, a, r, op, id, p, ack, pay)
  BY DEF Framed
<1>1. /\ h \in Seq(Byte)
      /\ Len(h) = 8 + (IF S THEN 8 ELSE 0) + (IF D THEN 8 ELSE 0)
      /\ h[1] = MFlags(S, D) /\ h[4] = 0
      /\ ReadAt(h, 1, 2) = s /\ ReadAt(h, 4, 4) = c
      /\ S => ReadAt(h, 8, 8) = src
      /\ D => ReadAt(h, 8 + (IF S THEN 8 ELSE 0), 8) = dst
  BY <1>0 DEF IsHeader
<1>2. /\ b \in Seq(Byte)
      /\ Len(b) = 6 + (IF a THEN 4 ELSE 0) + Len(pay)
      /\ b[1] = XFlags(i, a, r) /\ b[2] = op
      /\ ReadAt(b, 2, 2) = id /\ ReadAt(b, 4, 2) = p
      /\ a => ReadAt(b, 6, 4) = ack
      /\ ReadAt(b, 6 + (IF a THEN 4 ELSE 0), Len(pay)) = pay
      /\ Len(pay) \in Nat
  BY <1>0 DEF IsBody
<1>3. TwoParts(f, h, b)
  BY <1>1, <1>2, Joined
<1>4. msg.buf = f
  BY DEF Message
<1> HIDE DEF f, msg
<1>5. f[1] = MFlags(S, D)
  BY <1>1, <1>3 DEF TwoParts
<1>6. (Sflag(msg) <=> S) /\ Dsiz(msg) = IF D THEN 1 ELSE 0
  BY <1>0, <1>4, <1>5, MFlagsRead DEF Sflag, Dsiz, MessageFlags
<1>7. DestinationOffset(msg) = 8 + (IF S THEN 8 ELSE 0)
  BY <1>6 DEF DestinationOffset, MESSAGE_HEADER_MIN_SIZE, MESSAGE_NODE_ID_SIZE
<1>8. DestinationSize(Dsiz(msg)) = IF D THEN 8 ELSE 0
  BY <1>6 DEF DestinationSize, DestinationType, MESSAGE_NODE_ID_SIZE
<1>9. PayloadOffset(msg) = Len(h)
  BY <1>1, <1>7, <1>8 DEF PayloadOffset
<1>10. SessionId(msg) = s /\ MessageCounter(msg) = c
  <2>1. ReadAt(f, 1, 2) = ReadAt(h, 1, 2) /\ ReadAt(f, 4, 4) = ReadAt(h, 4, 4)
    BY <1>1, <1>3 DEF TwoParts
  <2> QED
    BY <1>1, <1>4, <2>1 DEF SessionId, MessageCounter
<1>11. SourceNodeId(msg) = IF S THEN src ELSE NODE_ID_ANY
  <2>1. ASSUME S PROVE ReadAt(f, 8, 8) = ReadAt(h, 8, 8)
    <3>1. 8 + 8 <= Len(h) /\ 8 \in Nat
      BY <1>1, <2>1
    <3> QED
      BY <1>3, <3>1 DEF TwoParts
  <2> QED
    BY <1>1, <1>4, <1>6, <2>1 DEF SourceNodeId, MESSAGE_NODE_ID_SIZE
<1>12. DestinationNodeId(msg) = IF D THEN dst ELSE NODE_ID_ANY
  <2> DEFINE o == 8 + (IF S THEN 8 ELSE 0)
  <2>1. ASSUME D PROVE ReadAt(f, o, 8) = ReadAt(h, o, 8)
    <3>1. o + 8 <= Len(h) /\ o \in Nat /\ 8 \in Nat
      BY <1>1, <2>1
    <3> HIDE DEF o
    <3> QED
      BY <1>3, <3>1 DEF TwoParts
  <2>2. CASE D
    <3>1. Dsiz(msg) = DestinationType.NodeId
      BY <1>6, <2>2 DEF DestinationType
    <3> QED
      BY <1>1, <1>4, <1>7, <2>1, <2>2, <3>1 DEF DestinationNodeId, MESSAGE_NODE_ID_SIZE
  <2>3. CASE ~D
    <3>1. Dsiz(msg) # DestinationType.NodeId
      BY <1>6, <2>3 DEF DestinationType
    <3> QED
      BY <2>3, <3>1 DEF DestinationNodeId
  <2> QED
    BY <2>2, <2>3
<1>13. ExchangeFlags(msg) = XFlags(i, a, r) /\ ProtocolOpcode(msg) = op
  <2>1. f[Len(h) + 1] = b[1] /\ f[Len(h) + 2] = b[2]
    <3>1. 1 \in 1..Len(b) /\ 2 \in 1..Len(b)
      BY <1>2
    <3> QED
      BY <1>3, <3>1 DEF TwoParts
  <2> QED
    BY <1>2, <1>4, <1>9, <2>1 DEF ExchangeFlags, ProtocolOpcode
<1>14. ExchangeId(msg) = id /\ ProtocolId(msg) = p
  <2>1. /\ ReadAt(f, Len(h) + 2, 2) = ReadAt(b, 2, 2)
        /\ ReadAt(f, Len(h) + 4, 2) = ReadAt(b, 4, 2)
    BY <1>2, <1>3 DEF TwoParts
  <2> QED
    BY <1>2, <1>4, <1>9, <2>1 DEF ExchangeId, ProtocolId
<1>15. (Iflag(msg) = i) /\ (Aflag(msg) = a) /\ (Rflag(msg) = r)
  BY <1>0, <1>13, XFlagsRead DEF Iflag, Aflag, Rflag
<1>16. a => ReadAt(f, AckOffset(msg), 4) = ack
  <2>1. AckOffset(msg) = Len(h) + 6
    BY <1>9 DEF AckOffset, EXCHANGE_HEADER_MIN_SIZE
  <2>2. ASSUME a PROVE ReadAt(f, Len(h) + 6, 4) = ReadAt(b, 6, 4)
    <3>1. 6 + 4 <= Len(b) /\ 6 \in Nat /\ 4 \in Nat
      BY <1>2, <2>2
    <3> QED
      BY <1>3, <3>1 DEF TwoParts
  <2> QED
    BY <1>2, <2>1, <2>2
<1>17. AppPayload(msg) = pay
  <2> DEFINE o == 6 + (IF a THEN 4 ELSE 0)
  <2>1. o \in Nat /\ Len(h) \in Nat /\ Len(f) = Len(h) + (o + Len(pay))
    BY <1>2, <1>3 DEF TwoParts
  <2>2. AckOffset(msg) + (IF Aflag(msg) THEN ACK_COUNTER_SIZE ELSE 0) + 1
            = Len(h) + o + 1
    <3>1. AckOffset(msg) = Len(h) + 6
      BY <1>9 DEF AckOffset, EXCHANGE_HEADER_MIN_SIZE
    <3>2. (IF Aflag(msg) THEN ACK_COUNTER_SIZE ELSE 0) = (IF a THEN 4 ELSE 0)
      BY <1>15 DEF ACK_COUNTER_SIZE
    <3> QED
      BY <2>1, <3>1, <3>2
  <2>3. ReadAt(f, Len(h) + o, Len(pay)) = ReadAt(b, o, Len(pay))
    BY <1>2, <1>3, <2>1 DEF TwoParts
  <2>4. Len(f) = Len(h) + o + Len(pay)
    BY <1>2, <2>1
  <2> HIDE DEF o
  <2>5. AppPayload(msg) = ReadAt(f, Len(h) + o, Len(pay))
    BY <1>4, <2>2, <2>4 DEF AppPayload, ReadAt
  <2> QED
    BY <1>2, <2>3, <2>5 DEF o
<1>18. (IF Aflag(msg) THEN ReadAt(msg.buf, AckOffset(msg), 4) ELSE None)
           = IF a THEN ack ELSE None
  BY <1>4, <1>15, <1>16
<1> QED
  BY <1>10, <1>11, <1>12, <1>13, <1>14, <1>15, <1>17, <1>18
  DEF ReadFields, Record, f, msg

\* Whether a message is encrypted is in its session id.
LEMMA UnencryptedFacts ==
    ASSUME NEW S \in BOOLEAN, NEW D \in BOOLEAN, NEW s \in Bytes(2),
           NEW c \in Bytes(4), NEW src \in Bytes(8), NEW dst \in Bytes(8),
           NEW h, IsHeader(h, S, D, s, c, src, dst),
           NEW f, ReadAt(f, 1, 2) = ReadAt(h, 1, 2), f[4] = h[4]
    PROVE  isUnencrypted(Message(f)) <=> s = SESSION_ID_UNSECURED
<1>1. h[4] = 0 /\ ReadAt(h, 1, 2) = s
  BY DEF IsHeader
<1>2. 0 & 3 = 0
  BY DEF &
<1>3. Message(f).buf = f
  BY DEF Message
<1>4. SecurityFlags(Message(f)) = 0 /\ SessionId(Message(f)) = s
  BY <1>1, <1>3 DEF SecurityFlags, SessionId
<1> QED
  BY <1>2, <1>4 DEF isUnencrypted

-----------------------------------------------------------------------------
(* Encryption *)

\* c begins with a.
Begins(c, a) ==
    /\ \A o, n \in Nat : o + n <= Len(a) => ReadAt(c, o, n) = ReadAt(a, o, n)
    /\ \A i \in 1..Len(a) : c[i] = a[i]

\* A buffer of two parts begins with the first.
LEMMA BeginsWith ==
    ASSUME NEW X, NEW a \in Seq(X), NEW b \in Seq(X)
    PROVE  Begins(a \o b, a)
<1>1. ASSUME NEW o \in Nat, NEW n \in Nat, o + n <= Len(a)
      PROVE  ReadAt(a \o b, o, n) = ReadAt(a, o, n)
  BY ONLY <1>1, a \in Seq(X), b \in Seq(X), ReadLeft
<1>2. \A i \in 1..Len(a) : (a \o b)[i] = a[i]
  <2>1. /\ Len(a) \in Nat /\ Len(b) \in Nat
        /\ \A i \in 1..(Len(a) + Len(b)) :
               (a \o b)[i] = IF i <= Len(a) THEN a[i] ELSE b[i - Len(a)]
    BY ConcatProperties
  <2> QED
    BY <2>1
<1> QED
  BY <1>1, <1>2 DEF Begins

\* The codec takes the same from a buffer as from the header alone.
SameHeader(f, h) ==
    /\ HeaderSize(f) = Len(h)
    /\ getNonce(f) = getNonce(h)
    /\ SubSeq(f, 1, Len(h)) = h
    /\ ReadAt(f, 1, 2) = ReadAt(h, 1, 2) /\ f[4] = h[4]

\* What the codec takes from a buffer is in its header.
LEMMA HeaderOnly ==
    ASSUME NEW S \in BOOLEAN, NEW D \in BOOLEAN, NEW s \in Bytes(2),
           NEW c \in Bytes(4), NEW src \in Bytes(8), NEW dst \in Bytes(8),
           NEW h, IsHeader(h, S, D, s, c, src, dst), NEW f, Begins(f, h)
    PROVE  SameHeader(f, h)
<1>1. /\ h \in Seq(Byte) /\ h[1] = MFlags(S, D)
      /\ Len(h) = 8 + (IF S THEN 8 ELSE 0) + (IF D THEN 8 ELSE 0)
      /\ Len(h) \in Nat /\ 8 <= Len(h)
  BY DEF IsHeader
<1>2. 1 \in 1..Len(h) /\ 4 \in 1..Len(h)
  BY <1>1
<1>3. f[1] = h[1] /\ f[4] = h[4]
  BY <1>2 DEF Begins
<1>4. HeaderSize(f) = Len(h)
  BY <1>1, <1>3, MFlagsRead DEF HeaderSize
<1>5. SubSeq(f, 1, Len(h)) = h
  <2>1. ReadAt(f, 0, Len(h)) = ReadAt(h, 0, Len(h))
    BY <1>1 DEF Begins
  <2>2. SubSeq(h, 1, Len(h)) = h
    BY <1>1, SubSeqFull
  <2>3. 0 + 1 = 1 /\ 0 + Len(h) = Len(h)
    BY <1>1
  <2> QED
    BY <2>1, <2>2, <2>3 DEF ReadAt
<1>6. SubSeq(f, 4, 8) = SubSeq(h, 4, 8)
  <2>1. ReadAt(f, 3, 5) = ReadAt(h, 3, 5)
    BY <1>1 DEF Begins
  <2> QED
    BY <2>1 DEF ReadAt
<1>7. ASSUME h[1] & 4 # 0 PROVE SubSeq(f, 9, 16) = SubSeq(h, 9, 16)
  <2>1. 8 + 8 <= Len(h) /\ 8 \in Nat
    BY <1>1, <1>7, MFlagsRead
  <2>2. ReadAt(f, 8, 8) = ReadAt(h, 8, 8)
    BY <2>1 DEF Begins
  <2> QED
    BY <2>2 DEF ReadAt
<1>8. ReadAt(f, 1, 2) = ReadAt(h, 1, 2)
  BY <1>1 DEF Begins
<1>9. getNonce(f) = getNonce(h)
  BY <1>3, <1>6, <1>7, Zenon DEF getNonce
<1> QED
  BY <1>3, <1>4, <1>5, <1>8, <1>9 DEF SameHeader

\* d is f encrypted.
Opens(d, key, f) ==
    /\ Opened(d, key) = Message(f)
    /\ ~isUnencrypted(Message(d))
    /\ decrypt(d) = f
    /\ d # <<>>

\* decrypt() with the key of encrypt() returns the message.
LEMMA EncryptOpens ==
    ASSUME NEW S \in BOOLEAN, NEW D \in BOOLEAN, NEW s \in Bytes(2),
           NEW c \in Bytes(4), NEW src \in Bytes(8), NEW dst \in Bytes(8),
           NEW h, IsHeader(h, S, D, s, c, src, dst),
           NEW b \in Seq(Byte), NEW key, s # SESSION_ID_UNSECURED
    PROVE  Opens(encrypt(h \o b, key), key, h \o b)
<1> DEFINE f == h \o b
           cell == Seal(b, key, f)
           d == h \o <<cell>>
<1>1. h \in Seq(Byte) /\ Len(h) \in Nat
  BY DEF IsHeader
<1>2. Begins(f, h)
  BY <1>1, BeginsWith
<1>3. /\ HeaderSize(f) = Len(h) /\ getNonce(f) = getNonce(h)
      /\ SubSeq(f, 1, Len(h)) = h
  <2> HIDE DEF f
  <2>1. SameHeader(f, h)
    BY ONLY S \in BOOLEAN, D \in BOOLEAN, s \in Bytes(2), c \in Bytes(4),
            src \in Bytes(8), dst \in Bytes(8), IsHeader(h, S, D, s, c, src, dst),
            <1>2, HeaderOnly
  <2> QED
    BY <2>1 DEF SameHeader
<1>4. SubSeq(f, Len(h) + 1, Len(f)) = b
  BY <1>1, Parts
<1> HIDE DEF f
<1>5. cell = [plain |-> b, key |-> key, nonce |-> getNonce(h), aad |-> h]
  BY <1>3 DEF Seal
<1>6. encrypt(f, key) = d
  BY <1>3, <1>4 DEF encrypt
<1> HIDE DEF cell
<1>7. /\ Begins(d, h) /\ Len(d) = Len(h) + 1 /\ d[Len(h) + 1] = cell
      /\ d # <<>>
  <2> DEFINE X == Byte \cup {cell}
  <2>1. h \in Seq(X) /\ <<cell>> \in Seq(X)
    BY <1>1
  <2> HIDE DEF X
  <2>2. Begins(d, h)
    BY <2>1, BeginsWith
  <2>3. /\ Len(d) = Len(h) + Len(<<cell>>) /\ d \in Seq(X)
        /\ \A k \in 1..(Len(h) + Len(<<cell>>)) :
               d[k] = IF k <= Len(h) THEN h[k] ELSE <<cell>>[k - Len(h)]
    BY <2>1, ConcatProperties
  <2>4. Len(<<cell>>) = 1 /\ <<cell>>[1] = cell
    OBVIOUS
  <2>5. d[Len(h) + 1] = cell
    BY <1>1, <2>3, <2>4
  <2> HIDE DEF d
  <2>6. d # <<>>
    BY <1>1, <2>3, <2>4
  <2> QED
    BY <2>2, <2>3, <2>4, <2>5, <2>6
<1> HIDE DEF d
<1>8. /\ HeaderSize(d) = Len(h) /\ getNonce(d) = getNonce(h)
      /\ SubSeq(d, 1, Len(h)) = h
      /\ ReadAt(d, 1, 2) = ReadAt(h, 1, 2) /\ d[4] = h[4]
  <2>1. SameHeader(d, h)
    BY ONLY S \in BOOLEAN, D \in BOOLEAN, s \in Bytes(2), c \in Bytes(4),
            src \in Bytes(8), dst \in Bytes(8), IsHeader(h, S, D, s, c, src, dst),
            <1>7, HeaderOnly
  <2> QED
    BY <2>1 DEF SameHeader
<1>9. Last(d) = cell
  BY <1>7 DEF Last
<1>10. Authentic(d, key)
  BY <1>5, <1>8, <1>9 DEF Authentic, Seal
<1>11. decrypt(d) = f
  <2>1. cell.plain = b
    BY <1>5
  <2> QED
    BY <1>8, <1>9, <2>1, Zenon DEF decrypt, f
<1>12. ~isUnencrypted(Message(d))
  BY <1>8, UnencryptedFacts
<1>13. Opened(d, key) = Message(f)
  BY <1>10, <1>11, <1>12 DEF Opened
<1> QED
  BY <1>6, <1>7, <1>11, <1>12, <1>13 DEF Opens, f

-----------------------------------------------------------------------------
(* The setters *)

\* A message without node ids: its two headers and what follows.
Plain(h, x, rest) == Message(h \o (x \o rest))

\* Writing to the fixed part of the message header.
LEMMA WriteFixed8 ==
    ASSUME NEW m \in Byte, NEW s \in Bytes(2), NEW c \in Bytes(4)
    PROVE  /\ \A v \in Byte : WriteAt(Fixed8(m, s, c), 0, <<v>>) = Fixed8(v, s, c)
           /\ WriteAt(Fixed8(m, s, c), 3, <<0>>) = Fixed8(m, s, c)
           /\ \A v \in Bytes(2) : WriteAt(Fixed8(m, s, c), 1, v) = Fixed8(m, v, c)
           /\ \A v \in Bytes(4) : WriteAt(Fixed8(m, s, c), 4, v) = Fixed8(m, s, v)
<1> DEFINE h == Fixed8(m, s, c)
<1>1. /\ h \in Seq(Byte) /\ Len(h) = 8
      /\ h[1] = m /\ h[2] = s[1] /\ h[3] = s[2] /\ h[4] = 0
      /\ h[5] = c[1] /\ h[6] = c[2] /\ h[7] = c[3] /\ h[8] = c[4]
  BY BytesSeq DEF Fixed8, Byte
<1> HIDE DEF h
<1>2. ASSUME NEW v \in Byte PROVE WriteAt(h, 0, <<v>>) = Fixed8(v, s, c)
  <2>1. <<v>> \in Seq(Byte) /\ Len(<<v>>) = 1 /\ <<v>>[1] = v
    OBVIOUS
  <2> QED
    BY <1>1, <2>1 DEF WriteAt, Fixed8
<1>3. WriteAt(h, 3, <<0>>) = h
  <2>1. <<0>> \in Seq(Byte) /\ Len(<<0>>) = 1 /\ <<0>>[1] = 0
    BY DEF Byte
  <2> QED
    BY <1>1, <2>1 DEF WriteAt
<1>4. ASSUME NEW v \in Bytes(2) PROVE WriteAt(h, 1, v) = Fixed8(m, v, c)
  <2>1. v \in Seq(Byte) /\ Len(v) = 2
    BY BytesSeq
  <2> QED
    BY <1>1, <2>1 DEF WriteAt, Fixed8
<1>5. ASSUME NEW v \in Bytes(4) PROVE WriteAt(h, 4, v) = Fixed8(m, s, v)
  <2>1. v \in Seq(Byte) /\ Len(v) = 4
    BY BytesSeq
  <2> QED
    BY <1>1, <2>1 DEF WriteAt, Fixed8
<1> QED
  BY <1>2, <1>3, <1>4, <1>5 DEF h

\* Writing to the exchange header.
LEMMA WriteFixed6 ==
    ASSUME NEW f \in Byte, NEW op \in Byte, NEW id \in Bytes(2), NEW p \in Bytes(2)
    PROVE  /\ \A v \in Byte : WriteAt(Fixed6(f, op, id, p), 0, <<v>>)
                                  = Fixed6(v, op, id, p)
           /\ \A v \in Byte : WriteAt(Fixed6(f, op, id, p), 1, <<v>>)
                                  = Fixed6(f, v, id, p)
           /\ \A v \in Bytes(2) : WriteAt(Fixed6(f, op, id, p), 2, v)
                                      = Fixed6(f, op, v, p)
           /\ \A v \in Bytes(2) : WriteAt(Fixed6(f, op, id, p), 4, v)
                                      = Fixed6(f, op, id, v)
<1> DEFINE h == Fixed6(f, op, id, p)
<1>1. /\ h \in Seq(Byte) /\ Len(h) = 6
      /\ h[1] = f /\ h[2] = op /\ h[3] = id[1] /\ h[4] = id[2]
      /\ h[5] = p[1] /\ h[6] = p[2]
  BY BytesSeq DEF Fixed6
<1> HIDE DEF h
<1>2. ASSUME NEW v \in Byte PROVE WriteAt(h, 0, <<v>>) = Fixed6(v, op, id, p)
  <2>1. <<v>> \in Seq(Byte) /\ Len(<<v>>) = 1 /\ <<v>>[1] = v
    OBVIOUS
  <2> QED
    BY <1>1, <2>1 DEF WriteAt, Fixed6
<1>3. ASSUME NEW v \in Byte PROVE WriteAt(h, 1, <<v>>) = Fixed6(f, v, id, p)
  <2>1. <<v>> \in Seq(Byte) /\ Len(<<v>>) = 1 /\ <<v>>[1] = v
    OBVIOUS
  <2> QED
    BY <1>1, <2>1 DEF WriteAt, Fixed6
<1>4. ASSUME NEW v \in Bytes(2) PROVE WriteAt(h, 2, v) = Fixed6(f, op, v, p)
  <2>1. v \in Seq(Byte) /\ Len(v) = 2
    BY BytesSeq
  <2> QED
    BY <1>1, <2>1 DEF WriteAt, Fixed6
<1>5. ASSUME NEW v \in Bytes(2) PROVE WriteAt(h, 4, v) = Fixed6(f, op, id, v)
  <2>1. v \in Seq(Byte) /\ Len(v) = 2
    BY BytesSeq
  <2> QED
    BY <1>1, <2>1 DEF WriteAt, Fixed6
<1> QED
  BY <1>2, <1>3, <1>4, <1>5 DEF h

\* Write() only changes the buffer.
LEMMA WriteRecord ==
    ASSUME NEW f, NEW o, NEW v, NEW a, NEW b
    PROVE  Write([buf |-> f, hasSource |-> a, hasDestination |-> b], o, v)
               = [buf |-> WriteAt(f, o, v), hasSource |-> a, hasDestination |-> b]
BY DEF Write

\* The same, of a message just made from a buffer.
LEMMA WriteMessage ==
    ASSUME NEW f, NEW o, NEW v
    PROVE  Write(Message(f), o, v) = Message(WriteAt(f, o, v))
<1> DEFINE no == FALSE
<1> HIDE DEF no
<1>1. Write([buf |-> f, hasSource |-> no, hasDestination |-> no], o, v)
          = [buf |-> WriteAt(f, o, v), hasSource |-> no, hasDestination |-> no]
  BY WriteRecord
<1> QED
  BY <1>1 DEF Message, no

\* Write() to the message header.
LEMMA WriteFirst ==
    ASSUME NEW h \in Seq(Byte), NEW x \in Seq(Byte), NEW r \in Seq(Byte),
           NEW v \in Seq(Byte), NEW o \in Nat, o + Len(v) <= Len(h)
    PROVE  Write(Plain(h, x, r), o, v) = Plain(WriteAt(h, o, v), x, r)
<1>1. x \o r \in Seq(Byte)
  OBVIOUS
<1>2. WriteAt(h \o (x \o r), o, v) = WriteAt(h, o, v) \o (x \o r)
  BY ONLY <1>1, h \in Seq(Byte), v \in Seq(Byte), o \in Nat, o + Len(v) <= Len(h),
          WriteLeft
<1> QED
  BY <1>2, WriteMessage DEF Plain

\* Write() to the exchange header.
LEMMA WriteSecond ==
    ASSUME NEW h \in Seq(Byte), NEW x \in Seq(Byte), NEW r \in Seq(Byte),
           NEW v \in Seq(Byte), NEW o \in Nat, o + Len(v) <= Len(x)
    PROVE  Write(Plain(h, x, r), Len(h) + o, v) = Plain(h, WriteAt(x, o, v), r)
<1>1. WriteAt(h \o (x \o r), Len(h) + o, v) = h \o WriteAt(x \o r, o, v)
  <2> DEFINE y == x \o r
  <2>1. y \in Seq(Byte)
    OBVIOUS
  <2> HIDE DEF y
  <2>2. WriteAt(h \o y, Len(h) + o, v) = h \o WriteAt(y, o, v)
    BY ONLY <2>1, h \in Seq(Byte), v \in Seq(Byte), o \in Nat, WriteRight
  <2> QED
    BY <2>2 DEF y
<1>2. WriteAt(x \o r, o, v) = WriteAt(x, o, v) \o r
  BY ONLY x \in Seq(Byte), r \in Seq(Byte), v \in Seq(Byte), o \in Nat,
          o + Len(v) <= Len(x), WriteLeft
<1>3. Write(Message(h \o (x \o r)), Len(h) + o, v)
          = Message(WriteAt(h \o (x \o r), Len(h) + o, v))
  BY WriteMessage
<1> QED
  BY <1>1, <1>2, <1>3 DEF Plain

\* A message without node ids, as it is until the session sends it.
Frame(s, c, f, op, id, p, r) ==
    Plain(Fixed8(0, s, c), Fixed6(f, op, id, p), r)

\* The exchange header of such a message starts after eight bytes.
LEMMA FramePlaces ==
    ASSUME NEW s \in Bytes(2), NEW c \in Bytes(4), NEW f \in Byte,
           NEW op \in Byte, NEW id \in Bytes(2), NEW p \in Bytes(2),
           NEW r \in Seq(Byte), NEW m, m = Frame(s, c, f, op, id, p, r)
    PROVE  /\ MessageFlags(m) = 0
           /\ DestinationOffset(m) = 8 /\ PayloadOffset(m) = 8
           /\ ExchangeFlags(m) = f
           /\ SecurityFlags(m) = 0 /\ SessionId(m) = s
<1> DEFINE h == Fixed8(0, s, c)
           x == Fixed6(f, op, id, p)
           b == x \o r
           g == h \o b
<1>1. 0 \in Byte
  BY DEF Byte
<1>2. h \in Seq(Byte) /\ Len(h) = 8 /\ h[1] = 0 /\ h[4] = 0 /\ ReadAt(h, 1, 2) = s
  BY <1>1, Fixed8Facts
<1>3. x \in Seq(Byte) /\ Len(x) = 6 /\ x[1] = f
  BY Fixed6Facts
<1> HIDE DEF h, x
<1>4. TwoParts(b, x, r)
  BY <1>3, Joined
<1>5. b \in Seq(Byte) /\ b[1] = f /\ 1 \in 1..Len(b)
  BY <1>3, <1>4 DEF TwoParts
<1> HIDE DEF b
<1>6. TwoParts(g, h, b)
  BY <1>2, <1>5, Joined
<1>7. g[1] = 0 /\ g[4] = 0 /\ g[8 + 1] = f
  BY <1>2, <1>5, <1>6 DEF TwoParts
<1>8. ReadAt(g, 1, 2) = s
  BY <1>2, <1>6 DEF TwoParts
<1>9. m.buf = g
  BY DEF Frame, Plain, Message, g, b, h, x
<1> HIDE DEF g
<1>10. 0 & 4 = 0 /\ 0 & 3 = 0
  BY DEF &
<1>11. MessageFlags(m) = 0 /\ ~Sflag(m) /\ Dsiz(m) = 0
  BY <1>7, <1>9, <1>10 DEF MessageFlags, Sflag, Dsiz
<1>12. DestinationOffset(m) = 8
  BY <1>11 DEF DestinationOffset, MESSAGE_HEADER_MIN_SIZE
<1>13. DestinationSize(Dsiz(m)) = 0
  BY <1>11 DEF DestinationSize, DestinationType
<1>14. PayloadOffset(m) = 8
  BY <1>12, <1>13 DEF PayloadOffset
<1> QED
  BY <1>7, <1>8, <1>9, <1>11, <1>12, <1>14
  DEF ExchangeFlags, SecurityFlags, SessionId

\* What the setters of the fixed fields should do.
Settable(s, c, f, op, id, p, r) ==
    /\ SetMessageFlags(Frame(s, c, f, op, id, p, r), 0)
           = Frame(s, c, f, op, id, p, r)
    /\ SetSecurityFlags(Frame(s, c, f, op, id, p, r), 0)
           = Frame(s, c, f, op, id, p, r)
    /\ \A v \in Bytes(2) : SetSessionId(Frame(s, c, f, op, id, p, r), v)
           = Frame(v, c, f, op, id, p, r)
    /\ \A v \in Bytes(4) : SetMessageCounter(Frame(s, c, f, op, id, p, r), v)
           = Frame(s, v, f, op, id, p, r)
    /\ \A v \in Byte : SetExchangeFlags(Frame(s, c, f, op, id, p, r), v)
           = Frame(s, c, v, op, id, p, r)
    /\ \A v \in Byte : SetProtocolOpcode(Frame(s, c, f, op, id, p, r), v)
           = Frame(s, c, f, v, id, p, r)
    /\ \A v \in Bytes(2) : SetExchangeId(Frame(s, c, f, op, id, p, r), v)
           = Frame(s, c, f, op, v, p, r)
    /\ \A v \in Bytes(2) : SetProtocolId(Frame(s, c, f, op, id, p, r), v)
           = Frame(s, c, f, op, id, v, r)

\* Every setter of a fixed field writes to its own place.
LEMMA FrameSetters ==
    ASSUME NEW s \in Bytes(2), NEW c \in Bytes(4), NEW f \in Byte,
           NEW op \in Byte, NEW id \in Bytes(2), NEW p \in Bytes(2),
           NEW r \in Seq(Byte)
    PROVE  Settable(s, c, f, op, id, p, r)
<1> DEFINE h == Fixed8(0, s, c)
           x == Fixed6(f, op, id, p)
           m == Frame(s, c, f, op, id, p, r)
<1>1. 0 \in Byte /\ <<0>> \in Seq(Byte) /\ Len(<<0>>) = 1
  BY DEF Byte
<1>2. h \in Seq(Byte) /\ Len(h) = 8 /\ x \in Seq(Byte) /\ Len(x) = 6
  BY <1>1, Fixed8Facts, Fixed6Facts
<1>3. PayloadOffset(m) = 8
  BY FramePlaces
<1>4. m = Plain(h, x, r)
  BY DEF Frame
<1>5. /\ \A v \in Byte : WriteAt(h, 0, <<v>>) = Fixed8(v, s, c)
      /\ WriteAt(h, 3, <<0>>) = h
      /\ \A v \in Bytes(2) : WriteAt(h, 1, v) = Fixed8(0, v, c)
      /\ \A v \in Bytes(4) : WriteAt(h, 4, v) = Fixed8(0, s, v)
  BY <1>1, WriteFixed8
<1>6. /\ \A v \in Byte : WriteAt(x, 0, <<v>>) = Fixed6(v, op, id, p)
      /\ \A v \in Byte : WriteAt(x, 1, <<v>>) = Fixed6(f, v, id, p)
      /\ \A v \in Bytes(2) : WriteAt(x, 2, v) = Fixed6(f, op, v, p)
      /\ \A v \in Bytes(2) : WriteAt(x, 4, v) = Fixed6(f, op, id, v)
  BY WriteFixed6
<1> HIDE DEF h, x, m
<1>7. ASSUME NEW o \in Nat, NEW v \in Seq(Byte), o + Len(v) <= 8
      PROVE  Write(m, o, v) = Plain(WriteAt(h, o, v), x, r)
  <2>1. o + Len(v) <= Len(h)
    BY <1>2, <1>7
  <2>2. Write(Plain(h, x, r), o, v) = Plain(WriteAt(h, o, v), x, r)
    <3>1. h \in Seq(Byte) /\ x \in Seq(Byte)
      BY <1>2
    <3> QED
      BY ONLY <3>1, r \in Seq(Byte), v \in Seq(Byte), o \in Nat, <2>1, WriteFirst
  <2> QED
    BY <1>4, <2>2, Zenon
<1>8. ASSUME NEW o \in Nat, NEW v \in Seq(Byte), o + Len(v) <= 6
      PROVE  Write(m, 8 + o, v) = Plain(h, WriteAt(x, o, v), r)
  <2>1. o + Len(v) <= Len(x)
    BY <1>2, <1>8
  <2>2. Write(Plain(h, x, r), Len(h) + o, v) = Plain(h, WriteAt(x, o, v), r)
    <3>1. h \in Seq(Byte) /\ x \in Seq(Byte)
      BY <1>2
    <3> QED
      BY ONLY <3>1, r \in Seq(Byte), v \in Seq(Byte), o \in Nat, <2>1, WriteSecond
  <2>3. Len(h) = 8
    BY <1>2
  <2> QED
    BY <1>4, <2>2, <2>3, Zenon
<1>9. SetMessageFlags(m, 0) = m
  <2>0. 0 \in Nat /\ 0 + Len(<<0>>) <= 8
    BY <1>1
  <2>1. Write(m, 0, <<0>>) = Plain(WriteAt(h, 0, <<0>>), x, r)
    BY <1>1, <1>7, <2>0, Zenon
  <2>2. WriteAt(h, 0, <<0>>) = h
    BY <1>1, <1>5 DEF h
  <2> QED
    BY <1>4, <2>1, <2>2 DEF SetMessageFlags
<1>10. SetSecurityFlags(m, 0) = m
  <2>0. 3 \in Nat /\ 3 + Len(<<0>>) <= 8
    BY <1>1
  <2>1. Write(m, 3, <<0>>) = Plain(WriteAt(h, 3, <<0>>), x, r)
    BY <1>1, <1>7, <2>0, Zenon
  <2> QED
    BY <1>4, <1>5, <2>1 DEF SetSecurityFlags
<1>11. ASSUME NEW v \in Bytes(2) PROVE SetSessionId(m, v) = Frame(v, c, f, op, id, p, r)
  <2>1. v \in Seq(Byte) /\ Len(v) = 2
    BY BytesSeq
  <2>0. 1 \in Nat /\ 1 + Len(v) <= 8
    BY <2>1
  <2>2. Write(m, 1, v) = Plain(WriteAt(h, 1, v), x, r)
    BY <1>7, <2>0, <2>1, Zenon
  <2> QED
    BY <1>5, <2>2 DEF SetSessionId, Frame, x
<1>12. ASSUME NEW v \in Bytes(4)
       PROVE  SetMessageCounter(m, v) = Frame(s, v, f, op, id, p, r)
  <2>1. v \in Seq(Byte) /\ Len(v) = 4
    BY BytesSeq
  <2>0. 4 \in Nat /\ 4 + Len(v) <= 8
    BY <2>1
  <2>2. Write(m, 4, v) = Plain(WriteAt(h, 4, v), x, r)
    BY <1>7, <2>0, <2>1, Zenon
  <2> QED
    BY <1>5, <2>2 DEF SetMessageCounter, Frame, x
<1>13. ASSUME NEW v \in Byte
       PROVE  /\ SetExchangeFlags(m, v) = Frame(s, c, v, op, id, p, r)
              /\ SetProtocolOpcode(m, v) = Frame(s, c, f, v, id, p, r)
  <2>1. <<v>> \in Seq(Byte) /\ Len(<<v>>) = 1
    OBVIOUS
  <2>2. /\ Write(m, 8 + 0, <<v>>) = Plain(h, WriteAt(x, 0, <<v>>), r)
        /\ Write(m, 8 + 1, <<v>>) = Plain(h, WriteAt(x, 1, <<v>>), r)
    <3>1. 0 \in Nat /\ 0 + Len(<<v>>) <= 6 /\ 1 \in Nat /\ 1 + Len(<<v>>) <= 6
      BY <2>1
    <3> QED
      BY <1>8, <2>1, <3>1, Zenon
  <2>3. 8 + 0 = 8
    OBVIOUS
  <2>4. Write(m, 8, <<v>>) = Plain(h, WriteAt(x, 0, <<v>>), r)
    BY <2>2, <2>3
  <2> QED
    BY <1>3, <1>6, <2>2, <2>4 DEF SetExchangeFlags, SetProtocolOpcode, Frame, h
<1>14. ASSUME NEW v \in Bytes(2)
       PROVE  /\ SetExchangeId(m, v) = Frame(s, c, f, op, v, p, r)
              /\ SetProtocolId(m, v) = Frame(s, c, f, op, id, v, r)
  <2>1. v \in Seq(Byte) /\ Len(v) = 2
    BY BytesSeq
  <2>2. /\ Write(m, 8 + 2, v) = Plain(h, WriteAt(x, 2, v), r)
        /\ Write(m, 8 + 4, v) = Plain(h, WriteAt(x, 4, v), r)
    <3>1. 2 \in Nat /\ 2 + Len(v) <= 6 /\ 4 \in Nat /\ 4 + Len(v) <= 6
      BY <2>1
    <3> QED
      BY <1>8, <2>1, <3>1, Zenon
  <2> QED
    BY <1>3, <1>6, <2>2 DEF SetExchangeId, SetProtocolId, Frame, h
<1> QED
  BY <1>9, <1>10, <1>11, <1>12, <1>13, <1>14 DEF Settable, m

\* Changing only the buffer of a message.
LEMMA ReplaceBuffer ==
    ASSUME NEW f, NEW g
    PROVE  [Message(f) EXCEPT !.buf = g] = Message(g)
<1> DEFINE no == FALSE
<1> HIDE DEF no
<1>1. [[buf |-> f, hasSource |-> no, hasDestination |-> no] EXCEPT !.buf = g]
          = [buf |-> g, hasSource |-> no, hasDestination |-> no]
  OBVIOUS
<1> QED
  BY <1>1 DEF Message, no

\* The payload is put at the end.
LEMMA PutPayload ==
    ASSUME NEW s \in Bytes(2), NEW c \in Bytes(4), NEW f \in Byte,
           NEW op \in Byte, NEW id \in Bytes(2), NEW p \in Bytes(2),
           NEW v \in Seq(Byte)
    PROVE  SetAppPayload(Frame(s, c, f, op, id, p, <<>>), v)
               = Frame(s, c, f, op, id, p, v)
<1> DEFINE h == Fixed8(0, s, c)
           x == Fixed6(f, op, id, p)
           g == h \o (x \o <<>>)
<1>1. 0 \in Byte /\ <<>> \in Seq(Byte)
  BY EmptySeq DEF Byte
<1>2. h \in Seq(Byte) /\ x \in Seq(Byte)
  BY <1>1, Fixed8Facts, Fixed6Facts
<1>3. Frame(s, c, f, op, id, p, <<>>) = Message(g)
  BY DEF Frame, Plain
<1> HIDE DEF h, x
<1>4. x \o <<>> = x
  BY <1>2, ConcatEmptySeq
<1>5. g \o v = h \o (x \o v)
  BY <1>2, <1>4, ConcatAssociative
<1> HIDE DEF g
<1>6. Message(g).buf = g
  BY DEF Message
<1>7. SetAppPayload(Message(g), v) = Message(g \o v)
  BY <1>6, ReplaceBuffer DEF SetAppPayload
<1> QED
  BY <1>3, <1>5, <1>7 DEF Frame, Plain, h, x

\* Making room between two parts of a buffer and writing there.
LEMMA Insert ==
    ASSUME NEW a \in Seq(Byte), NEW b \in Seq(Byte), NEW n \in Nat,
           NEW v \in Bytes(n)
    PROVE  WriteAt(Widen(a \o b, Len(a), n), Len(a), v) = a \o (v \o b)
<1> DEFINE z == Alloc(n)
           y == z \o b
           o == 0
<1>1. z \in Seq(Byte) /\ Len(z) = n /\ v \in Seq(Byte) /\ Len(v) = n
  BY AllocFacts, BytesSeq
<1>2. Widen(a \o b, Len(a), n) = (a \o z) \o b
  BY ONLY a \in Seq(Byte), b \in Seq(Byte), WidenBetween
<1> HIDE DEF z
<1>3. z \in Seq(Byte) /\ v \in Seq(Byte) /\ o \in Nat /\ o + Len(v) <= Len(z)
  BY <1>1
<1>4. (a \o z) \o b = a \o y
  BY ONLY <1>3, a \in Seq(Byte), b \in Seq(Byte), ConcatAssociative
<1>5. y \in Seq(Byte)
  BY <1>3
<1>6. WriteAt(z, o, v) = v
  BY <1>1, WriteWhole
<1> HIDE DEF o
<1>7. WriteAt(y, o, v) = WriteAt(z, o, v) \o b
  BY ONLY <1>3, b \in Seq(Byte), WriteLeft
<1> HIDE DEF y
<1>8. WriteAt(a \o y, Len(a) + o, v) = a \o WriteAt(y, o, v)
  BY ONLY <1>3, <1>5, a \in Seq(Byte), WriteRight
<1>9. Len(a) + o = Len(a)
  BY DEF o
<1> QED
  BY <1>2, <1>4, <1>6, <1>7, <1>8, <1>9, Zenon

\* The acknowledgement is put between the exchange header and the payload.
LEMMA PutAckCounter ==
    ASSUME NEW s \in Bytes(2), NEW c \in Bytes(4), NEW f \in Byte,
           NEW op \in Byte, NEW id \in Bytes(2), NEW p \in Bytes(2),
           NEW r \in Seq(Byte), NEW v \in Bytes(4), f & 2 # 0
    PROVE  SetAckCounter(Frame(s, c, f, op, id, p, r), v)
               = Frame(s, c, f, op, id, p, v \o r)
<1> DEFINE h == Fixed8(0, s, c)
           x == Fixed6(f, op, id, p)
           a == h \o x
           w == v \o r
           m == Frame(s, c, f, op, id, p, r)
<1>1. 0 \in Byte /\ 4 \in Nat
  BY DEF Byte
<1>2. h \in Seq(Byte) /\ Len(h) = 8 /\ x \in Seq(Byte) /\ Len(x) = 6
  BY <1>1, Fixed8Facts, Fixed6Facts
<1>3. /\ PayloadOffset(m) = 8 /\ ExchangeFlags(m) = f
  BY FramePlaces
<1>4. Aflag(m) /\ AckOffset(m) = 14
  BY <1>3 DEF Aflag, AckOffset, EXCHANGE_HEADER_MIN_SIZE
<1>5. m = Message(h \o (x \o r))
  BY DEF Frame, Plain
<1>6. v \in Seq(Byte) /\ w \in Seq(Byte)
  BY <1>1, BytesSeq
<1> HIDE DEF h, x, m
<1>7. a \in Seq(Byte) /\ Len(a) = 14
  <2>1. a \in Seq(Byte) /\ Len(a) = Len(h) + Len(x)
    BY <1>2, ConcatProperties
  <2> QED
    BY <1>2, <2>1
<1>8. h \o (x \o r) = a \o r
  BY <1>2, ConcatAssociative
<1>9. a \o w = h \o (x \o w)
  <2> HIDE DEF w
  <2>1. h \in Seq(Byte) /\ x \in Seq(Byte) /\ w \in Seq(Byte)
    BY <1>2, <1>6
  <2> QED
    BY ONLY <2>1, ConcatAssociative
<1> HIDE DEF a
<1>10. WriteAt(Widen(a \o r, Len(a), 4), Len(a), v) = a \o w
  <2>1. a \in Seq(Byte)
    BY <1>7
  <2> QED
    BY ONLY <1>1, <2>1, r \in Seq(Byte), v \in Bytes(4), Insert
<1>11. m.buf = a \o r
  BY <1>5, <1>8 DEF Message
<1>12. WriteAt(Widen(m.buf, AckOffset(m), ACK_COUNTER_SIZE), AckOffset(m), v)
           = h \o (x \o w)
  BY <1>4, <1>7, <1>9, <1>10, <1>11, Zenon DEF ACK_COUNTER_SIZE
<1>13. [m EXCEPT !.buf = h \o (x \o w)] = Message(h \o (x \o w))
  BY <1>5, ReplaceBuffer, Zenon
<1>14. SetAckCounter(m, v) = Message(h \o (x \o w))
  BY <1>4, <1>12, <1>13, Zenon DEF SetAckCounter
<1> QED
  BY <1>14 DEF Frame, Plain, h, x, m

\* Setting a flag in a byte of flags.
Switched(f, bit, v) == IF v THEN f | bit ELSE f & (255 - bit)

\* The flags in the order in which Exchange sets them.
LEMMA FlagsInOrder ==
    ASSUME NEW i \in BOOLEAN, NEW r \in BOOLEAN
    PROVE  /\ Switched(0, 1, i) = XFlags(i, FALSE, FALSE)
           /\ Switched(XFlags(i, FALSE, FALSE), 4, r) = XFlags(i, FALSE, r)
           /\ Switched(XFlags(i, FALSE, r), 2, TRUE) = XFlags(i, TRUE, r)
<1>1. CASE i /\ r
  BY <1>1 DEF Switched, XFlags, &, |
<1>2. CASE i /\ ~r
  BY <1>2 DEF Switched, XFlags, &, |
<1>3. CASE ~i /\ r
  BY <1>3 DEF Switched, XFlags, &, |
<1>4. CASE ~i /\ ~r
  BY <1>4 DEF Switched, XFlags, &, |
<1> QED
  BY <1>1, <1>2, <1>3, <1>4

\* SetFlag() changes the byte of flags.
LEMMA FrameFlag ==
    ASSUME NEW s \in Bytes(2), NEW c \in Bytes(4), NEW f \in Byte,
           NEW op \in Byte, NEW id \in Bytes(2), NEW p \in Bytes(2),
           NEW r \in Seq(Byte), NEW bit, NEW v, NEW g \in Byte,
           g = Switched(f, bit, v)
    PROVE  SetFlag(Frame(s, c, f, op, id, p, r), bit, v)
               = Frame(s, c, g, op, id, p, r)
<1> DEFINE m == Frame(s, c, f, op, id, p, r)
<1>1. ExchangeFlags(m) = f
  BY FramePlaces
<1>2. SetExchangeFlags(m, g) = Frame(s, c, g, op, id, p, r)
  <2>1. Settable(s, c, f, op, id, p, r)
    BY FrameSetters
  <2> QED
    BY <2>1 DEF Settable
<1> HIDE DEF m
<1>3. SetFlag(m, bit, v) = SetExchangeFlags(m, g)
  BY <1>1 DEF SetFlag, Switched
<1> QED
  BY <1>2, <1>3 DEF m

\* new Message() is a frame of zeros.
LEMMA NewFrame ==
    NewMessage = Frame(Alloc(2), Alloc(4), 0, 0, Alloc(2), Alloc(2), <<>>)
<1> DEFINE h == Fixed8(0, Alloc(2), Alloc(4))
           x == Fixed6(0, 0, Alloc(2), Alloc(2))
           z == Alloc(14)
           y == h \o x
<1>1. 0 \in Byte /\ 2 \in Nat /\ 4 \in Nat /\ 14 \in Nat
  BY DEF Byte
<1>2. /\ h \in Seq(Byte) /\ Len(h) = 8
      /\ h[1] = 0 /\ h[2] = 0 /\ h[3] = 0 /\ h[4] = 0
      /\ h[5] = 0 /\ h[6] = 0 /\ h[7] = 0 /\ h[8] = 0
  BY <1>1 DEF Fixed8, Alloc
<1>3. /\ x \in Seq(Byte) /\ Len(x) = 6
      /\ x[1] = 0 /\ x[2] = 0 /\ x[3] = 0 /\ x[4] = 0 /\ x[5] = 0 /\ x[6] = 0
  BY <1>1 DEF Fixed6, Alloc
<1>4. z \in Seq(Byte) /\ Len(z) = 14 /\ \A i \in 1..14 : z[i] = 0
  BY <1>1, AllocFacts
<1> HIDE DEF h, x, z
<1>5. /\ y \in Seq(Byte) /\ Len(y) = Len(h) + Len(x)
      /\ \A i \in 1..(Len(h) + Len(x)) :
             y[i] = IF i <= Len(h) THEN h[i] ELSE x[i - Len(h)]
  BY <1>2, <1>3, ConcatProperties
<1> HIDE DEF y
<1>6. ASSUME NEW i \in 1..14 PROVE y[i] = 0
  <2>1. CASE i <= 8
    BY <1>2, <1>3, <1>5, <2>1
  <2>2. CASE i > 8
    <3>1. i - 8 \in 1..6
      BY <2>2
    <3>2. x[i - 8] = 0
      BY <1>3, <3>1
    <3> QED
      BY <1>2, <1>3, <1>5, <2>2, <3>2
  <2> QED
    BY <2>1, <2>2
<1>7. z = y
  <2>1. Len(z) = Len(y) /\ \A i \in 1..Len(z) : z[i] = y[i]
    BY <1>2, <1>3, <1>4, <1>5, <1>6
  <2> QED
    BY <1>4, <1>5, <2>1, SameSeq
<1>8. x \o <<>> = x
  BY <1>3, ConcatEmptySeq
<1>9. NewMessage = Message(z)
  BY DEF NewMessage, MESSAGE_HEADER_MIN_SIZE, EXCHANGE_HEADER_MIN_SIZE, z
<1> QED
  BY <1>7, <1>8, <1>9 DEF Frame, Plain, h, x, y

-----------------------------------------------------------------------------
(* Sending *)

\* The types of the parts of a side and of what an application sends.
LEMMA SideTypes ==
    ASSUME NEW side \in Sides
    PROVE  /\ side.secure \in BOOLEAN /\ side.initiator \in BOOLEAN
           /\ side.reliable \in BOOLEAN /\ side.isAck \in BOOLEAN
           /\ side.sid \in Bytes(2) /\ side.id \in Bytes(2)
           /\ side.ackCounter \in Bytes(4) /\ side.ctr \in Bytes(4)
           /\ side.nodeId \in Bytes(8)
           /\ ProtocolOf(side.secure) \in Bytes(2)
<1>1. <<1, 0>> \in Bytes(2) /\ <<0, 0>> \in Bytes(2)
  BY DEF Bytes, Byte
<1> QED
  BY <1>1 DEF Sides, ProtocolOf

\* The message that the application hands to the exchange.
LEMMA AppFrame ==
    ASSUME NEW p \in Bytes(2), NEW op \in Byte, NEW pay \in Seq(Byte)
    PROVE  SetAppPayload(SetProtocolOpcode(SetProtocolId(NewMessage, p), op), pay)
               = Frame(Alloc(2), Alloc(4), 0, op, Alloc(2), p, pay)
<1> DEFINE z2 == Alloc(2)
           z4 == Alloc(4)
<1>1. z2 \in Bytes(2) /\ z4 \in Bytes(4) /\ 0 \in Byte /\ <<>> \in Seq(Byte)
  BY EmptySeq DEF Alloc, Bytes, Byte
<1>2. NewMessage = Frame(z2, z4, 0, 0, z2, z2, <<>>)
  BY NewFrame
<1> HIDE DEF z2, z4
<1>3. SetProtocolId(NewMessage, p) = Frame(z2, z4, 0, 0, z2, p, <<>>)
  <2>1. Settable(z2, z4, 0, 0, z2, z2, <<>>)
    BY <1>1, FrameSetters
  <2> QED
    BY <1>2, <2>1 DEF Settable
<1>4. SetProtocolOpcode(Frame(z2, z4, 0, 0, z2, p, <<>>), op)
          = Frame(z2, z4, 0, op, z2, p, <<>>)
  <2>1. Settable(z2, z4, 0, 0, z2, p, <<>>)
    BY <1>1, FrameSetters
  <2> QED
    BY <2>1 DEF Settable
<1>5. SetAppPayload(Frame(z2, z4, 0, op, z2, p, <<>>), pay)
          = Frame(z2, z4, 0, op, z2, p, pay)
  BY <1>1, PutPayload
<1> QED
  BY <1>3, <1>4, <1>5, Zenon DEF z2, z4

\* Exchange.sendMessage(): its own fields, and the acknowledgement if any.
LEMMA ExchangeFrame ==
    ASSUME NEW side \in Sides, NEW s \in Bytes(2), NEW c \in Bytes(4),
           NEW op \in Byte, NEW id \in Bytes(2), NEW p \in Bytes(2),
           NEW pay \in Seq(Byte)
    PROVE  ExchangeHeader(side, Frame(s, c, 0, op, id, p, pay))
               = Frame(s, c, XFlags(side.initiator, side.isAck, side.reliable),
                       op, side.id, p, Optional(side.isAck, side.ackCounter) \o pay)
<1> DEFINE i == side.initiator
           a == side.isAck
           r == side.reliable
           k == side.ackCounter
           e == side.id
           m == Frame(s, c, 0, op, id, p, pay)
           m1 == Frame(s, c, 0, op, e, p, pay)
           x2 == XFlags(i, FALSE, FALSE)
           x3 == XFlags(i, FALSE, r)
           x4 == XFlags(i, TRUE, r)
           m2 == Frame(s, c, x2, op, e, p, pay)
           m3 == Frame(s, c, x3, op, e, p, pay)
           m4 == Frame(s, c, x4, op, e, p, pay)
           on == TRUE
<1>1. i \in BOOLEAN /\ a \in BOOLEAN /\ r \in BOOLEAN /\ k \in Bytes(4) /\ e \in Bytes(2)
  BY SideTypes
<1> HIDE DEF i, a, r, k, e
<1>2. 0 \in Byte /\ x2 \in Byte /\ x3 \in Byte /\ x4 \in Byte /\ x4 & 2 # 0
  <2>1. 0 \in Byte
    BY DEF Byte
  <2>2. x2 \in Byte /\ x3 \in Byte
    BY <1>1, XFlagsRead
  <2>3. x4 \in Byte /\ x4 & 2 # 0
    BY <1>1, XFlagsRead
  <2> QED
    BY <2>1, <2>2, <2>3
<1>3. SetExchangeFlags(SetExchangeId(m, e), 0) = m1
  <2>1. Settable(s, c, 0, op, id, p, pay) /\ Settable(s, c, 0, op, e, p, pay)
    BY <1>1, <1>2, FrameSetters
  <2>2. SetExchangeId(m, e) = m1
    BY <1>1, <2>1 DEF Settable
  <2>3. SetExchangeFlags(m1, 0) = m1
    BY <1>2, <2>1 DEF Settable
  <2> QED
    BY <2>2, <2>3
<1>4. x2 = Switched(0, 1, i) /\ x3 = Switched(x2, 4, r) /\ x4 = Switched(x3, 2, on)
  BY <1>1, FlagsInOrder
<1> HIDE DEF x2, x3, x4, on
<1>5. SetIflag(m1, i) = m2
  BY <1>1, <1>2, <1>4, FrameFlag DEF SetIflag
<1>6. SetRflag(m2, r) = m3
  BY <1>1, <1>2, <1>4, FrameFlag DEF SetRflag
<1>7. SetAckCounter(SetAflag(m3, on), k) = Frame(s, c, x4, op, e, p, k \o pay)
  <2>1. SetAflag(m3, on) = m4
    BY <1>1, <1>2, <1>4, FrameFlag DEF SetAflag
  <2>2. SetAckCounter(m4, k) = Frame(s, c, x4, op, e, p, k \o pay)
    BY <1>1, <1>2, PutAckCounter
  <2> QED
    BY <2>1, <2>2
<1>8. ExchangeHeader(side, m) = IF a THEN SetAckCounter(SetAflag(m3, on), k) ELSE m3
  BY <1>3, <1>5, <1>6 DEF ExchangeHeader, i, a, r, k, e, on
<1>9. CASE a
  <2>1. Optional(a, k) = k /\ XFlags(i, a, r) = x4
    BY <1>9 DEF Optional, XFlags, x4
  <2>2. ExchangeHeader(side, m) = Frame(s, c, x4, op, e, p, k \o pay)
    BY <1>7, <1>8, <1>9
  <2> QED
    BY <2>1, <2>2 DEF i, a, r, k, e
<1>10. CASE ~a
  <2>1. Optional(a, k) = <<>> /\ XFlags(i, a, r) = x3
    BY <1>10 DEF Optional, XFlags, x3
  <2>2. <<>> \o pay = pay
    BY ConcatEmptySeq
  <2>3. ExchangeHeader(side, m) = m3
    BY <1>8, <1>10
  <2> QED
    BY <2>1, <2>2, <2>3 DEF i, a, r, k, e
<1> QED
  BY <1>1, <1>9, <1>10

\* The setters of node ids, of a message that has none yet.
LEMMA SourceBuffer ==
    ASSUME NEW g, NEW v, Sflag(Message(g))
    PROVE  SetSourceNodeId(Message(g), v).buf = WriteAt(Widen(g, 8, 8), 8, v)
<1> DEFINE m == Message(g)
           wide == [m EXCEPT !.buf = Widen(@, 8, MESSAGE_NODE_ID_SIZE),
                             !.hasSource = TRUE]
<1>1. m.buf = g /\ m.hasSource = FALSE
  BY DEF Message
<1>2. SetSourceNodeId(m, v) = Write(wide, 8, v)
  BY <1>1 DEF SetSourceNodeId
<1>3. wide.buf = Widen(g, 8, 8)
  BY DEF Message, MESSAGE_NODE_ID_SIZE
<1>4. "buf" \in DOMAIN wide
  BY DEF Message
<1> HIDE DEF m, wide
<1>5. Write(wide, 8, v).buf = WriteAt(wide.buf, 8, v)
  BY <1>4 DEF Write
<1> QED
  BY <1>2, <1>3, <1>5 DEF m

\* The same for the destination.
LEMMA DestinationBuffer ==
    ASSUME NEW g, NEW v, Dsiz(Message(g)) = 1, DestinationOffset(Message(g)) = 8
    PROVE  SetDestinationNodeId(Message(g), v).buf = WriteAt(Widen(g, 8, 8), 8, v)
<1> DEFINE m == Message(g)
           wide == [m EXCEPT !.buf = Widen(@, 8, 8), !.hasDestination = TRUE]
<1>1. m.buf = g /\ m.hasDestination = FALSE
  BY DEF Message
<1>2. DestinationSize(Dsiz(m)) = 8 /\ Dsiz(m) # DestinationType.Omit
  BY DEF DestinationSize, DestinationType, MESSAGE_NODE_ID_SIZE
<1>3. SetDestinationNodeId(m, v) = Write(wide, 8, v)
  <2> HIDE DEF m
  <2> QED
    BY <1>1, <1>2 DEF SetDestinationNodeId, m
<1>4. wide.buf = Widen(g, 8, 8)
  BY DEF Message
<1>5. "buf" \in DOMAIN wide
  BY DEF Message
<1> HIDE DEF m, wide
<1>6. Write(wide, 8, v).buf = WriteAt(wide.buf, 8, v)
  BY <1>5 DEF Write
<1> QED
  BY <1>3, <1>4, <1>6 DEF m

\* Setting the message flags of a frame; the two setters of their bits.
LEMMA MarkedFrame ==
    ASSUME NEW s \in Bytes(2), NEW c \in Bytes(4), NEW f \in Byte,
           NEW op \in Byte, NEW id \in Bytes(2), NEW p \in Bytes(2),
           NEW r \in Seq(Byte), NEW v \in Byte
    PROVE  SetMessageFlags(Frame(s, c, f, op, id, p, r), v)
               = Message(Fixed8(v, s, c) \o (Fixed6(f, op, id, p) \o r))
<1> DEFINE h == Fixed8(0, s, c)
           x == Fixed6(f, op, id, p)
           o == 0
           w == <<v>>
<1>1. 0 \in Byte /\ o \in Nat /\ w \in Seq(Byte) /\ Len(w) = 1
  BY DEF Byte
<1>2. h \in Seq(Byte) /\ Len(h) = 8 /\ x \in Seq(Byte)
  BY <1>1, Fixed8Facts, Fixed6Facts
<1>3. WriteAt(h, o, w) = Fixed8(v, s, c)
  BY <1>1, WriteFixed8
<1> HIDE DEF h, x, w
<1>4. o + Len(w) <= Len(h)
  BY <1>1, <1>2
<1> HIDE DEF o
<1>5. Write(Plain(h, x, r), o, w) = Plain(WriteAt(h, o, w), x, r)
  <2>1. o \in Nat /\ w \in Seq(Byte) /\ h \in Seq(Byte) /\ x \in Seq(Byte)
    BY <1>1, <1>2
  <2> QED
    BY ONLY <1>4, <2>1, r \in Seq(Byte), WriteFirst
<1> QED
  BY <1>3, <1>5 DEF SetMessageFlags, Frame, Plain, h, x, o, w

\* The fixed part of the message header, a node id, and the rest.
WithNodeId(f, n, s, c, v, b) == f = Fixed8(n, s, c) \o (v \o b)

\* Session.sendMessage(): the node id of an unsecured message.
LEMMA UnsecuredBuffer ==
    ASSUME NEW s \in Bytes(2), NEW c \in Bytes(4), NEW f \in Byte,
           NEW op \in Byte, NEW id \in Bytes(2), NEW p \in Bytes(2),
           NEW r \in Seq(Byte), NEW m, m = Frame(s, c, f, op, id, p, r),
           NEW side, NEW v \in Bytes(8), v = side.nodeId, NEW n,
           (Iflag(m) /\ n = 4) \/ (~Iflag(m) /\ n = 1),
           NEW b, b = Fixed6(f, op, id, p) \o r
    PROVE  WithNodeId(UnsecuredHeader(side, m).buf, n, s, c, v, b)
<1>1. MessageFlags(m) = 0
  BY FramePlaces
<1>2. /\ 0 & 3 = 0 /\ 0 & 4 = 0 /\ 4 & 4 = 4 /\ 1 & 3 = 1 /\ 1 & 4 = 0
      /\ 0 | 0 = 0 /\ 0 | 4 = 4 /\ 0 | 1 = 1
  BY DEF &, |
<1>3. 0 \in Byte /\ 4 \in Byte /\ 1 \in Byte /\ 8 \in Nat /\ v \in Bytes(8)
  BY DEF Byte
<1>4. SetMessageFlags(m, 0) = m
  <2>1. Settable(s, c, f, op, id, p, r)
    BY FrameSetters
  <2> QED
    BY <2>1 DEF Settable
<1>5. SetDsiz(m, 0) = m /\ SetSflag(m, 0) = m
  BY <1>1, <1>2, <1>4 DEF SetDsiz, SetSflag
<1>6. b \in Seq(Byte)
  BY Fixed6Facts
<1>7. ASSUME NEW w \in Byte
      PROVE  /\ SetMessageFlags(m, w) = Message(Fixed8(w, s, c) \o b)
             /\ WriteAt(Widen(Fixed8(w, s, c) \o b, 8, 8), 8, v)
                    = Fixed8(w, s, c) \o (v \o b)
             /\ MessageFlags(Message(Fixed8(w, s, c) \o b)) = w
  <2> DEFINE h == Fixed8(w, s, c)
  <2>1. SetMessageFlags(m, w) = Message(h \o b)
    BY MarkedFrame
  <2>2. h \in Seq(Byte) /\ Len(h) = 8 /\ h[1] = w
    BY Fixed8Facts
  <2> HIDE DEF h
  <2>3. WriteAt(Widen(h \o b, Len(h), 8), Len(h), v) = h \o (v \o b)
    <3>1. h \in Seq(Byte)
      BY <2>2
    <3> QED
      BY ONLY <1>3, <1>6, <3>1, Insert
  <2>4. WriteAt(Widen(h \o b, 8, 8), 8, v) = h \o (v \o b)
    BY <2>2, <2>3, Zenon
  <2>5. (h \o b)[1] = w
    <3>1. TwoParts(h \o b, h, b)
      BY <1>6, <2>2, Joined
    <3> QED
      BY <2>2, <3>1 DEF TwoParts
  <2>6. MessageFlags(Message(h \o b)) = w
    BY <2>5 DEF MessageFlags, Message
  <2> QED
    BY <2>1, <2>4, <2>6 DEF h
<1> DEFINE h4 == Fixed8(4, s, c)
           h1 == Fixed8(1, s, c)
<1>8. /\ SetMessageFlags(m, 4) = Message(h4 \o b)
      /\ WriteAt(Widen(h4 \o b, 8, 8), 8, v) = h4 \o (v \o b)
      /\ MessageFlags(Message(h4 \o b)) = 4
  BY <1>3, <1>7
<1>9. /\ SetMessageFlags(m, 1) = Message(h1 \o b)
      /\ WriteAt(Widen(h1 \o b, 8, 8), 8, v) = h1 \o (v \o b)
      /\ MessageFlags(Message(h1 \o b)) = 1
  BY <1>3, <1>7
<1> HIDE DEF h4, h1
<1>10. CASE Iflag(m)
  <2>1. SetSflag(m, 4) = Message(h4 \o b)
    BY <1>1, <1>2, <1>8 DEF SetSflag
  <2>2. UnsecuredHeader(side, m) = SetSourceNodeId(Message(h4 \o b), v)
    BY <1>5, <1>10, <2>1 DEF UnsecuredHeader, DestinationType, SourceType
  <2>3. Sflag(Message(h4 \o b))
    BY <1>2, <1>8 DEF Sflag
  <2>4. SetSourceNodeId(Message(h4 \o b), v).buf = h4 \o (v \o b)
    BY <1>8, <2>3, SourceBuffer
  <2> QED
    BY <1>10, <2>2, <2>4 DEF h4, WithNodeId
<1>11. CASE ~Iflag(m)
  <2>1. SetDsiz(m, 1) = Message(h1 \o b)
    BY <1>1, <1>2, <1>9 DEF SetDsiz
  <2>2. UnsecuredHeader(side, m) = SetDestinationNodeId(Message(h1 \o b), v)
    BY <1>5, <1>11, <2>1 DEF UnsecuredHeader, DestinationType, SourceType
  <2>3. Dsiz(Message(h1 \o b)) = 1 /\ ~Sflag(Message(h1 \o b))
    BY <1>2, <1>9 DEF Dsiz, Sflag
  <2>4. DestinationOffset(Message(h1 \o b)) = 8
    BY <2>3 DEF DestinationOffset, MESSAGE_HEADER_MIN_SIZE
  <2>5. SetDestinationNodeId(Message(h1 \o b), v).buf = h1 \o (v \o b)
    BY <1>9, <2>3, <2>4, DestinationBuffer
  <2> QED
    BY <1>11, <2>2, <2>5 DEF h1, WithNodeId
<1> QED
  BY <1>10, <1>11 DEF WithNodeId

\* A datagram from which the receiver reads these fields, and from which
\* anyone can tell whether it is encrypted.
Carries(d, secure, key, fields) ==
    /\ d # <<>>
    /\ ReadFields(Opened(d, key)) = fields
    /\ isUnencrypted(Message(d)) <=> ~secure
    /\ IF isUnencrypted(Message(d)) THEN d \in Seq(Byte) ELSE decrypt(d) \in Seq(Byte)

\* A message that is sent as it is.
LEMMA OpenCarries ==
    ASSUME NEW h, NEW b, NEW S, NEW D, NEW s, NEW c, NEW src, NEW dst,
           NEW i, NEW a, NEW r, NEW op, NEW id, NEW p, NEW ack, NEW pay,
           Framed(h, b, S, D, s, c, src, dst, i, a, r, op, id, p, ack, pay),
           NEW key, NEW secure, s = SESSION_ID_UNSECURED, ~secure
    PROVE  Carries(h \o b, secure, key,
                   Record(S, D, s, c, src, dst, i, a, r, op, id, p, ack, pay))
<1> DEFINE f == h \o b
<1>1. IsHeader(h, S, D, s, c, src, dst)
  BY DEF Framed
<1>2. /\ IsBody(b, i, a, r, op, id, p, ack, pay)
      /\ S \in BOOLEAN /\ D \in BOOLEAN /\ s \in Bytes(2) /\ c \in Bytes(4)
      /\ src \in Bytes(8) /\ dst \in Bytes(8) /\ pay \in Seq(Byte)
  BY DEF Framed
<1>3. h \in Seq(Byte) /\ b \in Seq(Byte) /\ Len(h) \in Nat /\ 8 <= Len(h)
  BY <1>1, <1>2 DEF IsHeader, IsBody
<1>4. ReadFields(Message(f)) =
          Record(S, D, s, c, src, dst, i, a, r, op, id, p, ack, pay)
  BY FrameRead
<1>5. TwoParts(f, h, b) /\ Begins(f, h)
  BY <1>3, Joined, BeginsWith
<1> HIDE DEF f
<1>6. f \in Seq(Byte) /\ f # <<>>
  BY <1>3, <1>5 DEF TwoParts
<1>7. ReadAt(f, 1, 2) = ReadAt(h, 1, 2) /\ f[4] = h[4]
  <2>1. SameHeader(f, h)
    BY ONLY <1>1, <1>2, <1>5, HeaderOnly
  <2> QED
    BY <2>1 DEF SameHeader
<1>8. isUnencrypted(Message(f))
  BY <1>1, <1>2, <1>7, UnencryptedFacts
<1>9. Opened(f, key) = Message(f)
  BY <1>8 DEF Opened
<1>10. Carries(f, secure, key,
               Record(S, D, s, c, src, dst, i, a, r, op, id, p, ack, pay))
  BY <1>4, <1>6, <1>8, <1>9 DEF Carries
<1> QED
  BY <1>10 DEF f

\* A message that is encrypted.
LEMMA SealedCarries ==
    ASSUME NEW h, NEW b, NEW S, NEW D, NEW s, NEW c, NEW src, NEW dst,
           NEW i, NEW a, NEW r, NEW op, NEW id, NEW p, NEW ack, NEW pay,
           Framed(h, b, S, D, s, c, src, dst, i, a, r, op, id, p, ack, pay),
           NEW key, NEW secure, s # SESSION_ID_UNSECURED, secure
    PROVE  Carries(encrypt(h \o b, key), secure, key,
                   Record(S, D, s, c, src, dst, i, a, r, op, id, p, ack, pay))
<1> DEFINE f == h \o b
           d == encrypt(f, key)
<1>1. IsHeader(h, S, D, s, c, src, dst)
  BY DEF Framed
<1>2. /\ IsBody(b, i, a, r, op, id, p, ack, pay)
      /\ S \in BOOLEAN /\ D \in BOOLEAN /\ s \in Bytes(2) /\ c \in Bytes(4)
      /\ src \in Bytes(8) /\ dst \in Bytes(8) /\ pay \in Seq(Byte)
  BY DEF Framed
<1>3. h \in Seq(Byte) /\ b \in Seq(Byte)
  BY <1>1, <1>2 DEF IsHeader, IsBody
<1>4. ReadFields(Message(f)) =
          Record(S, D, s, c, src, dst, i, a, r, op, id, p, ack, pay)
  BY FrameRead
<1>5. Opens(d, key, f)
  BY <1>1, <1>2, <1>3, EncryptOpens
<1>6. f \in Seq(Byte)
  BY <1>3
<1> HIDE DEF f, d
<1>7. Carries(d, secure, key,
              Record(S, D, s, c, src, dst, i, a, r, op, id, p, ack, pay))
  BY <1>4, <1>5, <1>6 DEF Carries, Opens
<1> QED
  BY <1>7 DEF f, d

\* Session.sendMessage(): its own fields.
LEMMA SessionFrame ==
    ASSUME NEW z \in Bytes(2), NEW y \in Bytes(4), NEW s \in Bytes(2),
           NEW c \in Bytes(4), NEW f \in Byte, NEW op \in Byte,
           NEW id \in Bytes(2), NEW p \in Bytes(2), NEW r \in Seq(Byte)
    PROVE  SetMessageCounter(SetSessionId(SetSecurityFlags(SetMessageFlags(
               Frame(z, y, f, op, id, p, r), 0), 0), s), c)
               = Frame(s, c, f, op, id, p, r)
<1>1. Settable(z, y, f, op, id, p, r)
  BY FrameSetters
<1>2. Settable(s, y, f, op, id, p, r)
  BY FrameSetters
<1>3. /\ SetMessageFlags(Frame(z, y, f, op, id, p, r), 0) = Frame(z, y, f, op, id, p, r)
      /\ SetSecurityFlags(Frame(z, y, f, op, id, p, r), 0) = Frame(z, y, f, op, id, p, r)
      /\ SetSessionId(Frame(z, y, f, op, id, p, r), s) = Frame(s, y, f, op, id, p, r)
  BY <1>1 DEF Settable
<1>4. SetMessageCounter(Frame(s, y, f, op, id, p, r), c) = Frame(s, c, f, op, id, p, r)
  BY <1>2 DEF Settable
<1> QED
  BY <1>3, <1>4, Zenon

\* A message header with neither of the two node ids, and what follows it.
LEMMA HeaderBare ==
    ASSUME NEW s \in Bytes(2), NEW c \in Bytes(4), NEW v, NEW S, NEW D,
           ~S, ~D, NEW h, h = MHeader(S, D, s, c, v, v)
    PROVE  h = Fixed8(0, s, c)
<1>1. <<>> \o <<>> = <<>> /\ 0 \in Byte
  BY EmptySeq, ConcatEmptySeq DEF Byte
<1>2. h = Fixed8(0, s, c) \o (<<>> \o <<>>)
  BY DEF MHeader, MFlags, Optional
<1>3. Fixed8(0, s, c) \in Seq(Byte)
  BY <1>1, Fixed8Facts
<1>4. Fixed8(0, s, c) \o <<>> = Fixed8(0, s, c)
  BY <1>3, ConcatEmptySeq
<1> QED
  BY <1>1, <1>2, <1>4

\* A message header with one of them, and what follows it.
LEMMA HeaderWithOne ==
    ASSUME NEW s \in Bytes(2), NEW c \in Bytes(4), NEW v \in Bytes(8),
           NEW b \in Seq(Byte), NEW S \in BOOLEAN, NEW D \in BOOLEAN,
           NEW n, (S /\ ~D /\ n = 4) \/ (~S /\ D /\ n = 1),
           NEW h, h = MHeader(S, D, s, c, v, v)
    PROVE  WithNodeId(h \o b, n, s, c, v, b)
<1> DEFINE g == Fixed8(n, s, c)
<1>1. v \in Seq(Byte)
  BY BytesSeq
<1>2. v \o <<>> = v /\ <<>> \o v = v
  BY <1>1, ConcatEmptySeq
<1>3. n \in Byte
  BY DEF Byte
<1>4. g \in Seq(Byte)
  BY <1>3, Fixed8Facts
<1>5. h = g \o v
  <2>1. CASE S
    <3>1. h = g \o (v \o <<>>)
      BY <2>1 DEF MHeader, MFlags, Optional
    <3> QED
      BY <1>2, <3>1
  <2>2. CASE ~S
    <3>1. n = MFlags(S, D) /\ Optional(S, v) = <<>> /\ Optional(D, v) = v
      BY <2>2 DEF MFlags, Optional
    <3>2. h = g \o (<<>> \o v)
      BY <3>1 DEF MHeader
    <3> QED
      BY <1>2, <3>2
  <2> QED
    BY <2>1, <2>2
<1> HIDE DEF g
<1>6. (g \o v) \o b = g \o (v \o b)
  BY ONLY <1>1, <1>4, b \in Seq(Byte), ConcatAssociative
<1> QED
  BY <1>5, <1>6 DEF g, WithNodeId

\* A side whose session id says whether it is secure.
WellKeyed(side) ==
    side \in Sides /\ (side.sid = SESSION_ID_UNSECURED <=> ~side.secure)

\* Whatever a side sends, the receiver reads the fields that were meant.
LEMMA DatagramCarries ==
    ASSUME NEW side, WellKeyed(side), NEW app \in App
    PROVE  Carries(Datagram(side, app), side.secure, SessionKey(side.initiator),
                   Sent(side, app))
<1> DEFINE i == side.initiator
           a == side.isAck
           r == side.reliable
           k == side.ackCounter
           e == side.id
           s == side.sid
           c == side.ctr
           v == side.nodeId
           sec == side.secure
           p == ProtocolOf(side.secure)
           op == app.opcode
           pay == app.payload
           S == ~sec /\ i
           D == ~sec /\ ~i
           x == XFlags(i, a, r)
           rest == Optional(a, k) \o pay
           m == Frame(s, c, x, op, e, p, rest)
           h == MHeader(S, D, s, c, v, v)
           b == Body(i, a, r, op, e, p, k, pay)
           z2 == Alloc(2)
           z4 == Alloc(4)
<1>1. /\ i \in BOOLEAN /\ a \in BOOLEAN /\ r \in BOOLEAN /\ sec \in BOOLEAN
      /\ k \in Bytes(4) /\ e \in Bytes(2) /\ s \in Bytes(2) /\ c \in Bytes(4)
      /\ v \in Bytes(8) /\ p \in Bytes(2) /\ side \in Sides
      /\ (s = SESSION_ID_UNSECURED <=> ~sec)
  BY SideTypes DEF WellKeyed
<1>2. op \in Byte /\ pay \in Seq(Byte)
  BY DEF App
<1>3. z2 \in Bytes(2) /\ z4 \in Bytes(4) /\ S \in BOOLEAN /\ D \in BOOLEAN
  BY DEF Alloc, Bytes, Byte
<1>4. Sent(side, app) = Record(S, D, s, c, v, v, i, a, r, op, e, p, k, pay)
  BY DEF Sent, Meant, Record
<1>5. Datagram(side, app) = IF isUnencrypted(m) THEN UnsecuredHeader(side, m).buf
                            ELSE encrypt(m.buf, SessionKey(Iflag(m)))
  <2> HIDE DEF i, a, r, k, e, s, c, v, sec, p, op, pay, S, D, x, rest, z2, z4
  <2>1. SetAppPayload(SetProtocolOpcode(SetProtocolId(NewMessage, p), op), pay)
            = Frame(z2, z4, 0, op, z2, p, pay)
    BY <1>1, <1>2, AppFrame DEF z2, z4
  <2>2. ExchangeHeader(side, Frame(z2, z4, 0, op, z2, p, pay))
            = Frame(z2, z4, x, op, e, p, rest)
    BY <1>1, <1>2, <1>3, ExchangeFrame DEF i, a, r, k, e, x, rest
  <2>3. x \in Byte
    BY <1>1, XFlagsRead DEF x
  <2>4. rest \in Seq(Byte)
    BY <1>1, <1>2, OptionalFacts DEF rest
  <2>5. SetMessageCounter(SetSessionId(SetSecurityFlags(SetMessageFlags(
            Frame(z2, z4, x, op, e, p, rest), 0), 0), s), c) = m
    BY <1>1, <1>2, <1>3, <2>3, <2>4, SessionFrame
  <2>6. Datagram(side, app) = SessionSend(side, Frame(z2, z4, x, op, e, p, rest))
    BY <2>1, <2>2 DEF Datagram, p, op, pay
  <2> QED
    BY <2>5, <2>6 DEF SessionSend, s, c
<1>6. x \in Byte /\ rest \in Seq(Byte)
  BY <1>1, <1>2, XFlagsRead, OptionalFacts
<1>7. b = Fixed6(x, op, e, p) \o rest
  BY DEF Body
<1> HIDE DEF i, a, r, k, e, s, c, v, sec, p, op, pay, S, D, x, rest, z2, z4, b
<1>8. /\ ExchangeFlags(m) = x /\ SecurityFlags(m) = 0 /\ SessionId(m) = s
  BY <1>1, <1>2, <1>6, FramePlaces
<1>9. isUnencrypted(m) <=> s = SESSION_ID_UNSECURED
  <2>1. 0 & 3 = 0
    BY DEF &
  <2> QED
    BY <1>8, <2>1 DEF isUnencrypted
<1>10. Iflag(m) = i
  BY <1>1, <1>8, XFlagsRead DEF Iflag, x
<1>11. m.buf = Fixed8(0, s, c) \o b
  BY <1>7 DEF Frame, Plain, Message
<1>12. Framed(h, b, S, D, s, c, v, v, i, a, r, op, e, p, k, pay)
  <2>1. IsHeader(h, S, D, s, c, v, v)
    BY <1>1, <1>3, MHeaderFacts
  <2>2. IsBody(b, i, a, r, op, e, p, k, pay)
    BY <1>1, <1>2, BodyFacts DEF b
  <2> QED
    BY <1>1, <1>2, <1>3, <2>1, <2>2 DEF Framed
<1>13. b \in Seq(Byte)
  BY <1>12 DEF Framed, IsBody
<1>14. CASE sec
  <2>1. ~S /\ ~D
    BY <1>14 DEF S, D
  <2>2. h = Fixed8(0, s, c)
    BY <1>1, <2>1, HeaderBare
  <2>3. s # SESSION_ID_UNSECURED
    BY <1>1, <1>14
  <2>4. Datagram(side, app) = encrypt(h \o b, SessionKey(i))
    BY <1>5, <1>9, <1>10, <1>11, <2>2, <2>3
  <2> HIDE DEF h
  <2>5. Carries(encrypt(h \o b, SessionKey(i)), sec, SessionKey(i),
                Record(S, D, s, c, v, v, i, a, r, op, e, p, k, pay))
    BY <1>12, <1>14, <2>3, SealedCarries
  <2> QED
    BY <1>4, <2>4, <2>5 DEF sec, i
<1>15. CASE ~sec
  <2>1. s = SESSION_ID_UNSECURED
    BY <1>1, <1>15
  <2> DEFINE n == IF i THEN 4 ELSE 1
  <2>2. (Iflag(m) /\ n = 4) \/ (~Iflag(m) /\ n = 1)
    BY <1>1, <1>10
  <2>3. WithNodeId(UnsecuredHeader(side, m).buf, n, s, c, v, b)
    <3>1. m = Frame(s, c, x, op, e, p, rest) /\ v = side.nodeId
      BY DEF v
    <3> HIDE DEF m, n
    <3>2. /\ s \in Bytes(2) /\ c \in Bytes(4) /\ x \in Byte /\ op \in Byte
          /\ e \in Bytes(2) /\ p \in Bytes(2) /\ rest \in Seq(Byte) /\ v \in Bytes(8)
      BY <1>1, <1>2, <1>6
    <3> QED
      BY ONLY <1>7, <2>2, <3>1, <3>2, UnsecuredBuffer
  <2>4. WithNodeId(h \o b, n, s, c, v, b)
    <3>1. (S /\ ~D /\ n = 4) \/ (~S /\ D /\ n = 1)
      BY <1>1, <1>15 DEF S, D
    <3>2. h = MHeader(S, D, s, c, v, v)
      OBVIOUS
    <3> HIDE DEF h, n
    <3>3. /\ s \in Bytes(2) /\ c \in Bytes(4) /\ v \in Bytes(8) /\ b \in Seq(Byte)
          /\ S \in BOOLEAN /\ D \in BOOLEAN
      BY <1>1, <1>3, <1>13
    <3> QED
      BY ONLY <3>1, <3>2, <3>3, HeaderWithOne
  <2>5. Datagram(side, app) = h \o b
    BY <1>5, <1>9, <2>1, <2>3, <2>4 DEF WithNodeId
  <2> HIDE DEF h
  <2>6. Carries(h \o b, sec, SessionKey(i),
                Record(S, D, s, c, v, v, i, a, r, op, e, p, k, pay))
    BY <1>12, <1>15, <2>1, OpenCarries
  <2> QED
    BY <1>4, <2>5, <2>6 DEF sec, i
<1> QED
  BY <1>1, <1>14, <1>15

\* Four parts make the fixed part of the message header.
LEMMA EncodedFixed8 ==
    ASSUME NEW m \in Byte, NEW s \in Bytes(2), NEW c \in Bytes(4)
    PROVE  <<m>> \o s \o <<0>> \o c = Fixed8(m, s, c)
<1> DEFINE x == <<m>> \o s
           y == x \o <<0>>
           z == y \o c
           g == Fixed8(m, s, c)
<1>1. /\ s \in Seq(Byte) /\ Len(s) = 2 /\ c \in Seq(Byte) /\ Len(c) = 4
      /\ <<m>> \in Seq(Byte) /\ Len(<<m>>) = 1 /\ <<m>>[1] = m
      /\ <<0>> \in Seq(Byte) /\ Len(<<0>>) = 1 /\ <<0>>[1] = 0
  <2>1. s \in Seq(Byte) /\ Len(s) = 2 /\ c \in Seq(Byte) /\ Len(c) = 4
    BY BytesSeq
  <2>2. <<m>> \in Seq(Byte) /\ Len(<<m>>) = 1 /\ <<m>>[1] = m
    OBVIOUS
  <2>3. <<0>> \in Seq(Byte) /\ Len(<<0>>) = 1 /\ <<0>>[1] = 0
    BY DEF Byte
  <2> QED
    BY <2>1, <2>2, <2>3
<1>2. x \in Seq(Byte) /\ Len(x) = 3 /\ x[1] = m /\ x[2] = s[1] /\ x[3] = s[2]
  <2>1. TwoParts(x, <<m>>, s)
    BY <1>1, Joined
  <2>2. x[1 + 1] = s[1] /\ x[1 + 2] = s[2] /\ x[1] = m
    BY <1>1, <2>1 DEF TwoParts
  <2> QED
    BY <1>1, <2>1, <2>2 DEF TwoParts
<1> HIDE DEF x
<1>3. /\ y \in Seq(Byte) /\ Len(y) = 4
      /\ y[1] = m /\ y[2] = s[1] /\ y[3] = s[2] /\ y[4] = 0
  <2>1. TwoParts(y, x, <<0>>)
    BY <1>1, <1>2, Joined
  <2>2. y[3 + 1] = 0 /\ y[1] = x[1] /\ y[2] = x[2] /\ y[3] = x[3]
    BY <1>1, <1>2, <2>1 DEF TwoParts
  <2> QED
    BY <1>1, <1>2, <2>1, <2>2 DEF TwoParts
<1> HIDE DEF y
<1>4. /\ z \in Seq(Byte) /\ Len(z) = 8
      /\ z[1] = m /\ z[2] = s[1] /\ z[3] = s[2] /\ z[4] = 0
      /\ z[5] = c[1] /\ z[6] = c[2] /\ z[7] = c[3] /\ z[8] = c[4]
  <2>1. TwoParts(z, y, c)
    BY <1>1, <1>3, Joined
  <2>2. /\ z[1] = y[1] /\ z[2] = y[2] /\ z[3] = y[3] /\ z[4] = y[4]
        /\ z[4 + 1] = c[1] /\ z[4 + 2] = c[2] /\ z[4 + 3] = c[3] /\ z[4 + 4] = c[4]
    BY <1>1, <1>3, <2>1 DEF TwoParts
  <2> QED
    BY <1>1, <1>3, <2>1, <2>2 DEF TwoParts
<1>5. /\ g \in Seq(Byte) /\ Len(g) = 8
      /\ g[1] = m /\ g[2] = s[1] /\ g[3] = s[2] /\ g[4] = 0
      /\ g[5] = c[1] /\ g[6] = c[2] /\ g[7] = c[3] /\ g[8] = c[4]
  BY BytesSeq DEF Fixed8, Byte
<1> HIDE DEF z, g
<1>6. \A i \in 1..Len(z) : z[i] = g[i]
  <2>1. \A i \in 1..8 : \/ i = 1 \/ i = 2 \/ i = 3 \/ i = 4
                        \/ i = 5 \/ i = 6 \/ i = 7 \/ i = 8
    OBVIOUS
  <2> QED
    BY <1>4, <1>5, <2>1
<1>7. z = g
  BY <1>4, <1>5, <1>6, SameSeq
<1> QED
  BY <1>7 DEF x, y, z, g

\* Three parts make the exchange header.
LEMMA EncodedFixed6 ==
    ASSUME NEW f \in Byte, NEW op \in Byte, NEW id \in Bytes(2), NEW p \in Bytes(2)
    PROVE  <<f, op>> \o id \o p = Fixed6(f, op, id, p)
<1> DEFINE w == <<f, op>>
           y == w \o id
           z == y \o p
           g == Fixed6(f, op, id, p)
<1>1. /\ id \in Seq(Byte) /\ Len(id) = 2 /\ p \in Seq(Byte) /\ Len(p) = 2
      /\ w \in Seq(Byte) /\ Len(w) = 2 /\ w[1] = f /\ w[2] = op
  <2>1. id \in Seq(Byte) /\ Len(id) = 2 /\ p \in Seq(Byte) /\ Len(p) = 2
    BY BytesSeq
  <2>2. w \in Seq(Byte) /\ Len(w) = 2 /\ w[1] = f /\ w[2] = op
    OBVIOUS
  <2> QED
    BY <2>1, <2>2
<1> HIDE DEF w
<1>2. /\ y \in Seq(Byte) /\ Len(y) = 4
      /\ y[1] = f /\ y[2] = op /\ y[3] = id[1] /\ y[4] = id[2]
  <2>1. TwoParts(y, w, id)
    BY <1>1, Joined
  <2>2. y[2 + 1] = id[1] /\ y[2 + 2] = id[2] /\ y[1] = w[1] /\ y[2] = w[2]
    BY <1>1, <2>1 DEF TwoParts
  <2> QED
    BY <1>1, <2>1, <2>2 DEF TwoParts
<1> HIDE DEF y
<1>3. /\ z \in Seq(Byte) /\ Len(z) = 6
      /\ z[1] = f /\ z[2] = op /\ z[3] = id[1] /\ z[4] = id[2]
      /\ z[5] = p[1] /\ z[6] = p[2]
  <2>1. TwoParts(z, y, p)
    BY <1>1, <1>2, Joined
  <2>2. /\ z[1] = y[1] /\ z[2] = y[2] /\ z[3] = y[3] /\ z[4] = y[4]
        /\ z[4 + 1] = p[1] /\ z[4 + 2] = p[2]
    BY <1>1, <1>2, <2>1 DEF TwoParts
  <2> QED
    BY <1>1, <1>2, <2>1, <2>2 DEF TwoParts
<1>4. /\ g \in Seq(Byte) /\ Len(g) = 6
      /\ g[1] = f /\ g[2] = op /\ g[3] = id[1] /\ g[4] = id[2]
      /\ g[5] = p[1] /\ g[6] = p[2]
  BY BytesSeq DEF Fixed6
<1> HIDE DEF z, g
<1>5. \A i \in 1..Len(z) : z[i] = g[i]
  <2>1. \A i \in 1..6 : i = 1 \/ i = 2 \/ i = 3 \/ i = 4 \/ i = 5 \/ i = 6
    OBVIOUS
  <2> QED
    BY <1>3, <1>4, <2>1
<1>6. z = g
  BY <1>3, <1>4, <1>5, SameSeq
<1> QED
  BY <1>6 DEF w, y, z, g

\* The flags that MsgCodec encodes.
LEMMA EncodedFlags ==
    ASSUME NEW src \in BOOLEAN, NEW dst \in BOOLEAN, NEW r \in BOOLEAN
    PROVE  /\ encodeMessageFlags(IF dst THEN 1 ELSE 0, IF src THEN 1 ELSE 0)
                  = MFlags(src, dst)
           /\ encodeSecurityFlags(0, 0) = 0
           /\ encodeExchangeFlags(1, 0, IF r THEN 1 ELSE 0)
                  = XFlags(TRUE, FALSE, r)
<1>1. encodeSecurityFlags(0, 0) = 0
  BY DEF encodeSecurityFlags, &, |
<1>2. encodeExchangeFlags(1, 0, IF r THEN 1 ELSE 0) = XFlags(TRUE, FALSE, r)
  <2>1. CASE r
    BY <2>1 DEF encodeExchangeFlags, XFlags, &, |
  <2>2. CASE ~r
    BY <2>2 DEF encodeExchangeFlags, XFlags, &, |
  <2> QED
    BY <2>1, <2>2
<1>3. encodeMessageFlags(IF dst THEN 1 ELSE 0, IF src THEN 1 ELSE 0) = MFlags(src, dst)
  <2>1. CASE src /\ dst
    BY <2>1 DEF encodeMessageFlags, MFlags, &, |
  <2>2. CASE src /\ ~dst
    BY <2>2 DEF encodeMessageFlags, MFlags, &, |
  <2>3. CASE ~src /\ dst
    BY <2>3 DEF encodeMessageFlags, MFlags, &, |
  <2>4. CASE ~src /\ ~dst
    BY <2>4 DEF encodeMessageFlags, MFlags, &, |
  <2> QED
    BY <2>1, <2>2, <2>3, <2>4
<1> QED
  BY <1>1, <1>2, <1>3

\* The node id that doMsg() sends to is as long as its own.
LEMMA Destination ==
    NodeId \in Bytes(8) /\ Reverse(NodeId) \in Bytes(8)
<1>1. NodeId \in Bytes(8)
  BY IdsAssumption
<1>2. NodeId \in Seq(Byte) /\ Len(NodeId) = 8 /\ \A i \in 1..8 : NodeId[i] \in Byte
  BY <1>1, BytesSeq
<1>3. Reverse(NodeId) = [i \in 1..8 |-> NodeId[(8 - i) + 1]]
  BY <1>2 DEF Reverse
<1>4. \A i \in 1..8 : NodeId[(8 - i) + 1] \in Byte
  BY <1>2
<1> QED
  BY <1>1, <1>3, <1>4 DEF Bytes

\* The message that doMsg() encrypts.
Request(side, app, src, dst, r) ==
    encodeHeader(encodeMessageFlags(IF dst THEN 1 ELSE 0, IF src THEN 1 ELSE 0),
                 encodeSecurityFlags(0, 0), side.sid, side.ctr,
                 NodeId, Reverse(NodeId))
        \o encodeProtocolHeader(encodeExchangeFlags(1, 0, IF r THEN 1 ELSE 0),
                                side.id, app.opcode, ProtocolOf(TRUE))
        \o app.payload

\* The receiver of a request reads the fields that were meant.
LEMMA RequestCarries ==
    ASSUME NEW side, WellKeyed(side), NEW app \in App, NEW src \in BOOLEAN,
           NEW dst \in BOOLEAN, side.secure, side.initiator, ~side.isAck
    PROVE  Carries(encrypt(Request(side, app, src, dst, side.reliable),
                           SessionKey(TRUE)),
                   side.secure, SessionKey(side.initiator),
                   Meant(side, app, IF src THEN NodeId ELSE NODE_ID_ANY,
                         IF dst THEN Reverse(NodeId) ELSE NODE_ID_ANY))
<1> DEFINE i == side.initiator
           a == side.isAck
           r == side.reliable
           k == side.ackCounter
           e == side.id
           s == side.sid
           c == side.ctr
           sec == side.secure
           p == ProtocolOf(sec)
           op == app.opcode
           pay == app.payload
           u == NodeId
           v == Reverse(NodeId)
           mf == MFlags(src, dst)
           x == XFlags(i, a, r)
           h == MHeader(src, dst, s, c, u, v)
           b == Body(i, a, r, op, e, p, k, pay)
           g == Fixed8(mf, s, c)
           y == Fixed6(x, op, e, p)
           ou == Optional(src, u)
           ov == Optional(dst, v)
<1>1. /\ i \in BOOLEAN /\ a \in BOOLEAN /\ r \in BOOLEAN /\ sec \in BOOLEAN
      /\ k \in Bytes(4) /\ e \in Bytes(2) /\ s \in Bytes(2) /\ c \in Bytes(4)
      /\ p \in Bytes(2) /\ u \in Bytes(8) /\ v \in Bytes(8)
      /\ sec /\ i /\ ~a /\ s # SESSION_ID_UNSECURED
  BY SideTypes, Destination DEF WellKeyed
<1>2. op \in Byte /\ pay \in Seq(Byte)
  BY DEF App
<1>3. Meant(side, app, IF src THEN NodeId ELSE NODE_ID_ANY,
            IF dst THEN Reverse(NodeId) ELSE NODE_ID_ANY)
          = Record(src, dst, s, c, u, v, i, a, r, op, e, p, k, pay)
  BY DEF Meant, Record
<1>4. SessionKey(TRUE) = SessionKey(i) /\ ProtocolOf(TRUE) = p
  BY <1>1 DEF SessionKey, ProtocolOf
<1>5. /\ encodeMessageFlags(IF dst THEN 1 ELSE 0, IF src THEN 1 ELSE 0) = mf
      /\ encodeSecurityFlags(0, 0) = 0
      /\ encodeExchangeFlags(1, 0, IF r THEN 1 ELSE 0) = XFlags(TRUE, FALSE, r)
  BY <1>1, EncodedFlags
<1>6. XFlags(TRUE, FALSE, r) = x
  BY <1>1 DEF XFlags
<1>7. mf \in Byte /\ (mf & 4 # 0 <=> src) /\ (mf & 1 # 0 <=> dst)
  BY MFlagsRead
<1>8. x \in Byte
  BY <1>1, XFlagsRead
<1> HIDE DEF i, a, r, k, e, s, c, sec, p, op, pay, u, v, mf, x
<1>9. g \in Seq(Byte) /\ y \in Seq(Byte)
  BY <1>1, <1>2, <1>7, <1>8, Fixed8Facts, Fixed6Facts
<1>10. ou \in Seq(Byte) /\ ov \in Seq(Byte)
  BY <1>1, OptionalFacts
<1>11. encodeHeader(mf, 0, s, c, u, v) = h
  <2>1. <<mf>> \o s \o <<0>> \o c = g
    BY <1>1, <1>7, EncodedFixed8
  <2>2. (IF mf & 4 # 0 THEN u ELSE <<>>) = ou /\ (IF mf & 1 # 0 THEN v ELSE <<>>) = ov
    BY <1>7 DEF Optional
  <2>3. encodeHeader(mf, 0, s, c, u, v) = (g \o ou) \o ov
    BY <2>1, <2>2, Zenon DEF encodeHeader
  <2> HIDE DEF g, ou, ov
  <2>4. (g \o ou) \o ov = g \o (ou \o ov)
    <3>1. g \in Seq(Byte)
      BY <1>9
    <3> QED
      BY ONLY <1>10, <3>1, ConcatAssociative
  <2> QED
    BY <2>3, <2>4 DEF g, ou, ov, MHeader, mf
<1>12. encodeProtocolHeader(x, e, op, p) = y
  BY <1>1, <1>2, <1>8, EncodedFixed6 DEF encodeProtocolHeader
<1>13. b = y \o pay
  <2>1. Optional(a, k) = <<>>
    BY <1>1 DEF Optional
  <2>2. <<>> \o pay = pay
    BY <1>2, ConcatEmptySeq
  <2> QED
    BY <2>1, <2>2 DEF Body, x
<1>14. Framed(h, b, src, dst, s, c, u, v, i, a, r, op, e, p, k, pay)
  <2>1. IsHeader(h, src, dst, s, c, u, v)
    BY <1>1, MHeaderFacts
  <2>2. IsBody(b, i, a, r, op, e, p, k, pay)
    BY <1>1, <1>2, BodyFacts
  <2> QED
    BY <1>1, <1>2, <2>1, <2>2 DEF Framed
<1>15. h \in Seq(Byte)
  BY <1>14 DEF Framed, IsHeader
<1>16. Request(side, app, src, dst, r) = (h \o y) \o pay
  BY <1>4, <1>5, <1>6, <1>11, <1>12, Zenon DEF Request, s, c, e, op, pay, u, v
<1> HIDE DEF h, y, b
<1>17. (h \o y) \o pay = h \o (y \o pay)
  <2>1. h \in Seq(Byte) /\ y \in Seq(Byte) /\ pay \in Seq(Byte)
    BY <1>2, <1>9, <1>15
  <2> QED
    BY ONLY <2>1, ConcatAssociative
<1>18. Carries(encrypt(h \o b, SessionKey(i)), sec, SessionKey(i),
               Record(src, dst, s, c, u, v, i, a, r, op, e, p, k, pay))
  <2>1. sec
    BY <1>1
  <2>2. s # SESSION_ID_UNSECURED
    BY <1>1
  <2> QED
    BY <1>14, <2>1, <2>2, SealedCarries
<1>19. Request(side, app, src, dst, r) = h \o b
  BY <1>13, <1>16, <1>17
<1> QED
  BY <1>3, <1>4, <1>18, <1>19 DEF sec, i, r

-----------------------------------------------------------------------------
(* The invariant *)

\* The key of the sender of the k-th message.
KeyOf(k) == IF k % 2 = 1 THEN "I2R" ELSE "R2I"

\* What is in flight is the last message, and everything before it was read.
InFlight ==
    /\ wire = <<>> => Len(got) = Len(sent)
    /\ wire # <<>> => /\ Len(sent) = Len(got) + 1
                      /\ Carries(wire, ini.secure, KeyOf(Len(sent)),
                                 sent[Len(sent)])
    /\ \A k \in 1..Len(got) : got[k] = sent[k]

\* The initiator keeps what it began with, and acknowledges what it read.
InitiatorKeeps ==
    /\ WellKeyed(ini) /\ ini.initiator
    /\ sent = <<>> => ~ini.isAck
    /\ ini.secure => Len(sent) <= 2
    /\ got # <<>> /\ Len(got) % 2 = 0 => ini.ackCounter = got[Len(got)].ctr

\* The responder is what the first message made it.
ResponderKeeps ==
    /\ rsp = None <=> got = <<>>
    /\ got # <<>> =>
          /\ WellKeyed(rsp) /\ ~rsp.initiator
          /\ rsp.secure = ini.secure /\ rsp.sid = ini.sid /\ rsp.id = ini.id
          /\ rsp.isAck = sent[1].r /\ rsp.reliable = sent[1].r
          /\ ~ini.secure => rsp.nodeId = ini.nodeId
    /\ Len(got) % 2 = 1 => rsp.ackCounter = got[Len(got)].ctr

\* The k-th message of the conversation.
Kth(k) ==
    /\ sent[k].id = ini.id /\ sent[k].sid = ini.sid
    /\ sent[k].i <=> k % 2 = 1
    /\ ~ini.secure =>
          /\ sent[k].r
          /\ k % 2 = 1 => sent[k].source = ini.nodeId
          /\ k % 2 = 0 => sent[k].destination = ini.nodeId
    /\ k > 1 => sent[k].ack = IF sent[k-1].r THEN sent[k-1].ctr ELSE None

\* The inductive invariant.
ConversationInv ==
    /\ ConversationTypeOK
    /\ InFlight
    /\ InitiatorKeeps
    /\ ResponderKeeps
    /\ \A k \in 1..Len(sent) : Kth(k)

\* The fields that are meant have their types.
LEMMA MeantTyped ==
    ASSUME NEW side \in Sides, NEW app \in App, NEW u \in Bytes(8), NEW v \in Bytes(8)
    PROVE  Meant(side, app, u, v) \in Fields
<1> DEFINE k == IF side.isAck THEN side.ackCounter ELSE None
<1>1. /\ side.initiator \in BOOLEAN /\ side.reliable \in BOOLEAN
      /\ side.sid \in Bytes(2) /\ side.id \in Bytes(2)
      /\ side.ackCounter \in Bytes(4) /\ side.ctr \in Bytes(4)
      /\ ProtocolOf(side.secure) \in Bytes(2)
  BY SideTypes
<1>2. app.opcode \in Byte /\ app.payload \in Seq(Byte)
  BY DEF App
<1>3. k \in Bytes(4) \cup {None}
  BY <1>1
<1> HIDE DEF k
<1>4. Meant(side, app, u, v) =
          [sid |-> side.sid, ctr |-> side.ctr, i |-> side.initiator,
           r |-> side.reliable, id |-> side.id,
           protocol |-> ProtocolOf(side.secure), opcode |-> app.opcode,
           source |-> u, destination |-> v, ack |-> k, payload |-> app.payload]
  BY DEF Meant, k
<1> QED
  BY <1>1, <1>2, <1>3, <1>4 DEF Fields

\* A counter that is counted up has four bytes.
LEMMA IncrementTyped ==
    ASSUME NEW c \in Bytes(4)
    PROVE  Increment(c) \in Bytes(4)
<1>1. \A i \in 1..4 : c[i] \in Byte /\ (c[i] + 1) % 256 \in Byte
  BY DEF Bytes, Byte
<1> QED
  BY <1>1 DEF Increment, Bytes

\* What a side keeps when it sends.
Kept(x, y) ==
    /\ y \in Sides
    /\ y.secure = x.secure /\ y.sid = x.sid /\ y.id = x.id
    /\ y.initiator = x.initiator /\ y.nodeId = x.nodeId
    /\ y.ackCounter = x.ackCounter

\* A message that may come next.
Continues(f) ==
    /\ f \in Fields
    /\ f.id = ini.id /\ f.sid = ini.sid
    /\ f.i <=> Len(sent) % 2 = 0
    /\ ~ini.secure =>
          /\ f.r
          /\ Len(sent) % 2 = 0 => f.source = ini.nodeId
          /\ Len(sent) % 2 = 1 => f.destination = ini.nodeId
    /\ sent # <<>> =>
          f.ack = IF sent[Len(sent)].r THEN sent[Len(sent)].ctr ELSE None

\* Sending such a message keeps the invariant.
LEMMA SendKeeps ==
    ASSUME ConversationInv, wire = <<>>, NEW f, Continues(f),
           sent' = Append(sent, f), got' = got,
           Carries(wire', ini.secure, KeyOf(Len(sent) + 1), f),
           Kept(ini, ini'), ini.secure => Len(sent) <= 1,
           \/ rsp' = rsp
           \/ /\ got # <<>> /\ Kept(rsp, rsp')
              /\ rsp'.isAck = rsp.isAck /\ rsp'.reliable = rsp.reliable
    PROVE  ConversationInv'
<1> DEFINE n == Len(sent)
<1>1. /\ ConversationTypeOK /\ InFlight /\ InitiatorKeeps /\ ResponderKeeps
      /\ \A k \in 1..Len(sent) : Kth(k)
  BY DEF ConversationInv
<1>2. sent \in Seq(Fields) /\ got \in Seq(Fields) /\ f \in Fields
  BY <1>1 DEF ConversationTypeOK, Continues
<1>3. /\ sent' \in Seq(Fields) /\ Len(sent') = n + 1 /\ n \in Nat
      /\ \A j \in 1..n : sent'[j] = sent[j]
      /\ sent'[n + 1] = f
  BY <1>2, SeqAppend
<1>4. /\ (sent = <<>> <=> n = 0) /\ sent' # <<>> /\ Len(got) = n
      /\ (got = <<>> <=> n = 0)
  BY <1>1, <1>2, <1>3, EmptyFacts DEF InFlight
<1>5. ConversationTypeOK'
  <2>1. ini' \in Sides
    BY DEF Kept
  <2>2. rsp' \in Sides \cup {None}
    BY <1>1 DEF ConversationTypeOK, Kept
  <2>3. (wire' # <<>> => IF isUnencrypted(Message(wire')) THEN wire' \in Seq(Byte)
                         ELSE decrypt(wire') \in Seq(Byte))
    BY DEF Carries
  <2> QED
    BY <1>2, <1>3, <2>1, <2>2, <2>3 DEF ConversationTypeOK
<1>6. InFlight'
  <2>1. wire' # <<>>
    BY DEF Carries
  <2>2. \A k \in 1..Len(got') : got'[k] = sent'[k]
    BY <1>1, <1>3, <1>4 DEF InFlight
  <2>3. ini'.secure = ini.secure
    BY DEF Kept
  <2>4. Carries(wire', ini'.secure, KeyOf(Len(sent')), sent'[Len(sent')])
    BY <1>3, <2>3
  <2> QED
    BY <1>3, <1>4, <2>1, <2>2, <2>4 DEF InFlight
<1>7. InitiatorKeeps'
  <2>1. WellKeyed(ini') /\ ini'.initiator
    BY <1>1 DEF InitiatorKeeps, WellKeyed, Kept
  <2>2. ini'.secure => Len(sent') <= 2
    BY <1>3 DEF Kept
  <2>3. got' # <<>> /\ Len(got') % 2 = 0 => ini'.ackCounter = got'[Len(got')].ctr
    BY <1>1 DEF InitiatorKeeps, Kept
  <2> QED
    BY <1>4, <2>1, <2>2, <2>3 DEF InitiatorKeeps
<1>8. ResponderKeeps'
  <2>1. rsp' = None <=> got' = <<>>
    <3>1. got # <<>> /\ Kept(rsp, rsp') => rsp' # None
      BY NoneAssumption DEF Kept
    <3> QED
      BY <1>1, <3>1 DEF ResponderKeeps
  <2>2. ASSUME got # <<>>
        PROVE  /\ rsp'.secure = rsp.secure /\ rsp'.sid = rsp.sid /\ rsp'.id = rsp.id
               /\ rsp'.initiator = rsp.initiator /\ rsp'.nodeId = rsp.nodeId
               /\ rsp'.ackCounter = rsp.ackCounter
               /\ rsp'.isAck = rsp.isAck /\ rsp'.reliable = rsp.reliable
               /\ rsp' \in Sides /\ sent'[1] = sent[1]
    <3>1. rsp \in Sides
      BY <1>1, <2>2 DEF ResponderKeeps, WellKeyed
    <3>2. sent'[1] = sent[1]
      BY <1>3, <1>4, <2>2
    <3> QED
      BY <3>1, <3>2 DEF Kept
  <2>3. ini'.secure = ini.secure /\ ini'.sid = ini.sid /\ ini'.id = ini.id
        /\ ini'.nodeId = ini.nodeId
    BY DEF Kept
  <2>4. ASSUME got # <<>>
        PROVE  /\ WellKeyed(rsp') /\ ~rsp'.initiator
               /\ rsp'.secure = ini'.secure /\ rsp'.sid = ini'.sid
               /\ rsp'.id = ini'.id
               /\ rsp'.isAck = sent'[1].r /\ rsp'.reliable = sent'[1].r
               /\ ~ini'.secure => rsp'.nodeId = ini'.nodeId
    BY <1>1, <2>2, <2>3, <2>4 DEF ResponderKeeps, WellKeyed
  <2>5. Len(got') % 2 = 1 => rsp'.ackCounter = got'[Len(got')].ctr
    <3>1. Len(got) % 2 = 1 => got # <<>>
      BY <1>4
    <3> QED
      BY <1>1, <2>2, <3>1 DEF ResponderKeeps
  <2> QED
    BY <2>1, <2>4, <2>5 DEF ResponderKeeps
<1>9. ASSUME NEW k \in 1..Len(sent') PROVE Kth(k)'
  <2>0. /\ ini'.secure = ini.secure /\ ini'.sid = ini.sid /\ ini'.id = ini.id
        /\ ini'.nodeId = ini.nodeId
    BY DEF Kept
  <2>1. CASE k \in 1..n
    <3>1. sent'[k] = sent[k] /\ (k > 1 => sent'[k-1] = sent[k-1])
      BY <1>3, <2>1
    <3>2. Kth(k)
      BY <1>1, <2>1
    <3> QED
      BY <2>0, <3>1, <3>2 DEF Kth
  <2>2. CASE k = n + 1
    <3>1. sent'[k] = f /\ k - 1 = n
      BY <1>3, <2>2
    <3>2. k > 1 => sent # <<>> /\ sent'[k-1] = sent[n]
      BY <1>3, <1>4, <2>2
    <3>3. (k % 2 = 1 <=> n % 2 = 0) /\ (k % 2 = 0 <=> n % 2 = 1)
      BY <1>3, <2>2
    <3> QED
      BY <2>0, <3>1, <3>2, <3>3 DEF Kth, Continues
  <2> QED
    BY <1>3, <2>1, <2>2
<1> QED
  BY <1>5, <1>6, <1>7, <1>8, <1>9 DEF ConversationInv

\* Changing the flags of a side.
LEMMA Flagged ==
    ASSUME NEW x \in Sides, NEW a \in BOOLEAN, NEW b \in BOOLEAN,
           NEW y, y = [x EXCEPT !.reliable = a, !.isAck = b]
    PROVE  /\ Kept(x, y) /\ y.reliable = a /\ y.isAck = b /\ y.ctr = x.ctr
BY DEF Sides, Kept

\* Counting up the counter of a side.
LEMMA Counted ==
    ASSUME NEW x \in Sides, NEW y, y = [x EXCEPT !.ctr = Increment(@)]
    PROVE  Kept(x, y) /\ y.isAck = x.isAck /\ y.reliable = x.reliable
<1>1. x.ctr \in Bytes(4)
  BY SideTypes
<1>2. Increment(x.ctr) \in Bytes(4)
  BY <1>1, IncrementTyped
<1> QED
  BY <1>2 DEF Sides, Kept

\* The fields of what is meant.
LEMMA MeantFields ==
    ASSUME NEW side, NEW app, NEW u, NEW v, NEW f, f = Meant(side, app, u, v)
    PROVE  /\ f.id = side.id /\ f.sid = side.sid /\ f.i = side.initiator
           /\ f.r = side.reliable /\ f.source = u /\ f.destination = v
           /\ f.ack = (IF side.isAck THEN side.ackCounter ELSE None)
<1> DEFINE k == IF side.isAck THEN side.ackCounter ELSE None
<1> HIDE DEF k
<1>1. f = [sid |-> side.sid, ctr |-> side.ctr, i |-> side.initiator,
           r |-> side.reliable, id |-> side.id,
           protocol |-> ProtocolOf(side.secure), opcode |-> app.opcode,
           source |-> u, destination |-> v, ack |-> k, payload |-> app.payload]
  BY DEF Meant, k
<1> QED
  BY <1>1 DEF k

\* What everyone reads of a message that names no node.
LEMMA AnyNode == NODE_ID_ANY \in Bytes(8)
BY DEF NODE_ID_ANY, Bytes, Byte

\* A message of the PASE client keeps the invariant.
LEMMA SendUnsecuredKeeps ==
    ASSUME ConversationInv, NEW app \in App, SendUnsecured(app)
    PROVE  ConversationInv'
<1> DEFINE on == TRUE
           ack == sent # <<>>
           side == [ini EXCEPT !.reliable = on, !.isAck = ack]
           u == IF ~side.secure /\ side.initiator THEN side.nodeId ELSE NODE_ID_ANY
           v == IF ~side.secure /\ ~side.initiator THEN side.nodeId ELSE NODE_ID_ANY
           f == Sent(side, app)
           n == Len(sent)
<1>1. /\ ConversationTypeOK /\ InFlight /\ InitiatorKeeps /\ ResponderKeeps
      /\ \A k \in 1..Len(sent) : Kth(k)
  BY DEF ConversationInv
<1>2. /\ ~ini.secure /\ wire = <<>> /\ n % 2 = 0
      /\ wire' = Datagram(side, app) /\ sent' = Append(sent, f)
      /\ ini' = [side EXCEPT !.ctr = Increment(@)]
      /\ rsp' = rsp /\ got' = got
  BY DEF SendUnsecured, InitiatorsTurn
<1>3. on \in BOOLEAN /\ on /\ ack \in BOOLEAN /\ (ack <=> sent # <<>>)
  OBVIOUS
<1>4. f = Meant(side, app, u, v)
  BY DEF Sent
<1> HIDE DEF on, ack, u, v, f
<1>5. ini \in Sides /\ WellKeyed(ini) /\ ini.initiator
  BY <1>1 DEF InitiatorKeeps, WellKeyed
<1>6. Kept(ini, side) /\ side.reliable = on /\ side.isAck = ack
  BY <1>3, <1>5, Flagged
<1> HIDE DEF side
<1>7. /\ side \in Sides /\ WellKeyed(side) /\ side.initiator
      /\ ~side.secure /\ side.nodeId \in Bytes(8)
  <2>1. side \in Sides /\ WellKeyed(side) /\ side.initiator /\ ~side.secure
    BY <1>2, <1>5, <1>6 DEF Kept, WellKeyed
  <2> QED
    BY <2>1, SideTypes
<1>8. u = side.nodeId /\ u \in Bytes(8) /\ v \in Bytes(8)
  BY <1>7, AnyNode DEF u, v
<1>9. f \in Fields
  BY <1>4, <1>7, <1>8, MeantTyped
<1>10. /\ f.id = side.id /\ f.sid = side.sid /\ f.i = side.initiator
       /\ f.r = side.reliable /\ f.source = u
       /\ f.ack = (IF side.isAck THEN side.ackCounter ELSE None)
  BY <1>4, MeantFields
<1>11. sent \in Seq(Fields) /\ n \in Nat /\ (sent = <<>> <=> n = 0) /\ Len(got) = n
       /\ (got = <<>> <=> n = 0)
  BY <1>1, <1>2, EmptyFacts DEF ConversationTypeOK, InFlight
<1>12. sent # <<>> => f.ack = IF sent[n].r THEN sent[n].ctr ELSE None
  <2>1. ASSUME sent # <<>> PROVE f.ack = IF sent[n].r THEN sent[n].ctr ELSE None
    <3>1. n \in 1..n /\ got # <<>> /\ n \in 1..Len(got)
      BY <1>11, <2>1
    <3>2. sent[n].r
      BY <1>1, <1>2, <3>1 DEF Kth
    <3>3. ini.ackCounter = sent[n].ctr
      BY <1>1, <1>2, <1>11, <3>1 DEF InitiatorKeeps, InFlight
    <3>4. side.isAck /\ side.ackCounter = ini.ackCounter
      BY <1>3, <1>6, <2>1 DEF Kept
    <3> QED
      BY <1>10, <3>2, <3>3, <3>4
  <2> QED
    BY <2>1
<1>13. Continues(f)
  <2>1. f.id = ini.id /\ f.sid = ini.sid /\ f.i /\ f.r /\ f.source = ini.nodeId
    BY <1>3, <1>6, <1>7, <1>8, <1>10 DEF Kept
  <2> QED
    BY <1>2, <1>9, <1>11, <1>12, <2>1 DEF Continues
<1>14. Carries(wire', ini.secure, KeyOf(n + 1), f)
  <2>1. Carries(Datagram(side, app), side.secure, SessionKey(side.initiator), f)
    BY <1>7, DatagramCarries DEF f
  <2>2. SessionKey(side.initiator) = KeyOf(n + 1)
    BY <1>2, <1>7, <1>11 DEF SessionKey, KeyOf
  <2>3. side.secure = ini.secure
    BY <1>6 DEF Kept
  <2> QED
    BY <1>2, <2>1, <2>2, <2>3
<1>15. Kept(ini, ini')
  <2>1. Kept(side, ini')
    BY <1>2, <1>7, Counted
  <2> QED
    BY <1>6, <2>1 DEF Kept
<1> QED
  BY <1>2, <1>13, <1>14, <1>15, SendKeeps

\* The number after an odd one is not odd.
LEMMA OddThenEven ==
    ASSUME NEW n \in Nat, n % 2 = 1
    PROVE  (n + 1) % 2 # 1
OBVIOUS

\* A message of doMsg() keeps the invariant.
LEMMA DoMsgKeeps ==
    ASSUME ConversationInv, NEW app \in App, NEW src \in BOOLEAN,
           NEW dst \in BOOLEAN, NEW r \in BOOLEAN, DoMsg(app, src, dst, r)
    PROVE  ConversationInv'
<1> DEFINE side == [ini EXCEPT !.reliable = r]
           u == IF src THEN NodeId ELSE NODE_ID_ANY
           v == IF dst THEN Reverse(NodeId) ELSE NODE_ID_ANY
           f == Meant(side, app, u, v)
<1>1. /\ ConversationTypeOK /\ InFlight /\ InitiatorKeeps /\ ResponderKeeps
  BY DEF ConversationInv
<1>2. /\ ini.secure /\ wire = <<>> /\ sent = <<>>
      /\ wire' = encrypt(Request(ini, app, src, dst, r), SessionKey(TRUE))
      /\ sent' = Append(sent, f)
      /\ ini' = [side EXCEPT !.ctr = Increment(@)]
      /\ rsp' = rsp /\ got' = got
  BY DEF DoMsg, InitiatorsTurn, Request
<1>3. u \in Bytes(8) /\ v \in Bytes(8)
  BY Destination, AnyNode
<1>4. ini \in Sides /\ WellKeyed(ini) /\ ini.initiator /\ ~ini.isAck
  BY <1>1, <1>2 DEF InitiatorKeeps, WellKeyed
<1>5. /\ Kept(ini, side) /\ side.reliable = r /\ side.isAck = ini.isAck
      /\ side.ctr = ini.ctr
  BY <1>4 DEF Sides, Kept
<1> HIDE DEF side
<1>6. /\ side \in Sides /\ WellKeyed(side) /\ side.initiator
      /\ side.secure /\ ~side.isAck
  BY <1>2, <1>4, <1>5 DEF Kept, WellKeyed
<1>7. f \in Fields
  BY <1>3, <1>6, MeantTyped
<1>8. f.id = side.id /\ f.sid = side.sid /\ f.i = side.initiator
  <2> HIDE DEF u, v, f
  <2>1. f = Meant(side, app, u, v)
    BY DEF f
  <2> QED
    BY <2>1, MeantFields
<1>9. Carries(encrypt(Request(side, app, src, dst, side.reliable), SessionKey(TRUE)),
              side.secure, SessionKey(side.initiator), f)
  BY <1>6, RequestCarries
<1> HIDE DEF f
<1>10. sent \in Seq(Fields) /\ Len(sent) = 0
  BY <1>1, <1>2, EmptyFacts DEF ConversationTypeOK
<1>11. Continues(f)
  <2>1. f.id = ini.id /\ f.sid = ini.sid /\ f.i
    BY <1>5, <1>6, <1>8 DEF Kept
  <2> QED
    BY <1>2, <1>7, <1>10, <2>1 DEF Continues
<1>12. Carries(wire', ini.secure, KeyOf(Len(sent) + 1), f)
  <2>1. Request(side, app, src, dst, side.reliable) = Request(ini, app, src, dst, r)
    BY <1>5 DEF Request, Kept
  <2>2. SessionKey(side.initiator) = KeyOf(Len(sent) + 1)
    BY <1>6, <1>10 DEF SessionKey, KeyOf
  <2>3. side.secure = ini.secure
    BY <1>5 DEF Kept
  <2> QED
    BY <1>2, <1>9, <2>1, <2>2, <2>3
<1>13. Kept(ini, ini')
  <2>1. Kept(side, ini')
    BY <1>2, <1>6, Counted
  <2> QED
    BY <1>5, <2>1 DEF Kept
<1>14. Len(sent) <= 1
  BY <1>10
<1> QED
  BY <1>2, <1>11, <1>12, <1>13, <1>14, SendKeeps

\* A message of the responder keeps the invariant.
LEMMA ReplyKeeps ==
    ASSUME ConversationInv, NEW app \in App, Reply(app)
    PROVE  ConversationInv'
<1> DEFINE u == IF ~rsp.secure /\ rsp.initiator THEN rsp.nodeId ELSE NODE_ID_ANY
           v == IF ~rsp.secure /\ ~rsp.initiator THEN rsp.nodeId ELSE NODE_ID_ANY
           f == Sent(rsp, app)
           n == Len(sent)
<1>1. /\ ConversationTypeOK /\ InFlight /\ InitiatorKeeps /\ ResponderKeeps
      /\ \A k \in 1..Len(sent) : Kth(k)
  BY DEF ConversationInv
<1>2. /\ wire = <<>> /\ n % 2 = 1
      /\ wire' = Datagram(rsp, app) /\ sent' = Append(sent, f)
      /\ rsp' = [rsp EXCEPT !.ctr = Increment(@)]
      /\ ini' = ini /\ got' = got
  BY DEF Reply, RespondersTurn
<1>3. f = Meant(rsp, app, u, v)
  BY DEF Sent
<1> HIDE DEF u, v, f
<1>4. /\ sent \in Seq(Fields) /\ n \in Nat /\ n >= 1 /\ Len(got) = n
      /\ got # <<>> /\ sent # <<>>
  BY <1>1, <1>2, EmptyFacts DEF ConversationTypeOK, InFlight
<1>5. /\ WellKeyed(rsp) /\ ~rsp.initiator
      /\ rsp.secure = ini.secure /\ rsp.sid = ini.sid /\ rsp.id = ini.id
      /\ rsp.isAck = sent[1].r /\ rsp.reliable = sent[1].r
      /\ ~ini.secure => rsp.nodeId = ini.nodeId
      /\ rsp.ackCounter = got[n].ctr
  BY <1>1, <1>2, <1>4 DEF ResponderKeeps
<1>6. rsp \in Sides /\ rsp.nodeId \in Bytes(8) /\ ini \in Sides
  <2>1. rsp \in Sides /\ ini \in Sides
    BY <1>1, <1>5 DEF WellKeyed, ConversationTypeOK
  <2> QED
    BY <2>1, SideTypes
<1>7. u \in Bytes(8) /\ v \in Bytes(8) /\ (~ini.secure => v = rsp.nodeId)
  BY <1>5, <1>6, AnyNode DEF u, v
<1>8. f \in Fields
  BY <1>3, <1>6, <1>7, MeantTyped
<1>9. /\ f.id = rsp.id /\ f.sid = rsp.sid /\ f.i = rsp.initiator
      /\ f.r = rsp.reliable /\ f.destination = v
      /\ f.ack = (IF rsp.isAck THEN rsp.ackCounter ELSE None)
  BY <1>3, MeantFields
<1>10. got[n] = sent[n]
  BY <1>1, <1>4 DEF InFlight
<1>11. sent[1].r = sent[n].r /\ (~ini.secure => sent[1].r)
  <2>1. CASE ini.secure
    <3>1. n = 1
      BY <1>1, <1>2, <1>4, <2>1 DEF InitiatorKeeps
    <3> QED
      BY <2>1, <3>1
  <2>2. CASE ~ini.secure
    <3>1. 1 \in 1..n /\ n \in 1..n
      BY <1>4
    <3>2. sent[1].r /\ sent[n].r
      BY <1>1, <2>2, <3>1 DEF Kth
    <3>3. sent[1].r \in BOOLEAN /\ sent[n].r \in BOOLEAN
      <4>1. sent[1] \in Fields /\ sent[n] \in Fields
        BY <1>4, <3>1
      <4> QED
        BY <4>1 DEF Fields
    <3> QED
      BY <3>2, <3>3
  <2> QED
    BY <2>1, <2>2
<1>12. f.ack = IF sent[n].r THEN sent[n].ctr ELSE None
  BY <1>5, <1>9, <1>10, <1>11
<1>13. Continues(f)
  <2>1. /\ f.id = ini.id /\ f.sid = ini.sid /\ ~f.i
        /\ ~ini.secure => f.r /\ f.destination = ini.nodeId
    BY <1>5, <1>7, <1>9, <1>11
  <2> QED
    BY <1>2, <1>8, <1>12, <2>1 DEF Continues
<1>14. Carries(wire', ini.secure, KeyOf(n + 1), f)
  <2>1. Carries(Datagram(rsp, app), rsp.secure, SessionKey(rsp.initiator), f)
    BY <1>5, DatagramCarries DEF f
  <2>2. SessionKey(rsp.initiator) = KeyOf(n + 1)
    <3>1. (n + 1) % 2 # 1
      <4> HIDE DEF n
      <4> QED
        BY <1>2, <1>4, OddThenEven
    <3>2. KeyOf(n + 1) = "R2I"
      BY <3>1 DEF KeyOf
    <3>3. SessionKey(rsp.initiator) = "R2I"
      BY <1>5 DEF SessionKey
    <3> QED
      BY <3>2, <3>3
  <2> QED
    BY <1>2, <1>5, <2>1, <2>2
<1>15. Kept(ini, ini') /\ Kept(rsp, rsp')
       /\ rsp'.isAck = rsp.isAck /\ rsp'.reliable = rsp.reliable
  <2>1. Kept(ini, ini')
    BY <1>2, <1>6 DEF Kept
  <2> QED
    BY <1>2, <1>6, <2>1, Counted
<1>16. ini.secure => n <= 1
  BY <1>1, <1>2, <1>4 DEF InitiatorKeeps
<1> QED
  BY <1>2, <1>4, <1>13, <1>14, <1>15, <1>16, SendKeeps

\* What the receiver of the message in flight reads.
LEMMA Received ==
    ASSUME ConversationInv, wire # <<>>, NEW key, key = KeyOf(Len(sent)),
           NEW f, f = ReadFields(Opened(wire, key))
    PROVE  /\ f = sent[Len(sent)] /\ f \in Fields
           /\ Len(sent) \in Nat /\ Len(sent) >= 1 /\ Len(got) = Len(sent) - 1
           /\ (got = <<>> <=> Len(sent) = 1)
           /\ isUnencrypted(Message(wire)) <=> ~ini.secure
<1>1. ConversationTypeOK /\ InFlight
  BY DEF ConversationInv
<1>2. /\ sent \in Seq(Fields) /\ got \in Seq(Fields)
      /\ Len(sent) = Len(got) + 1
      /\ Carries(wire, ini.secure, KeyOf(Len(sent)), sent[Len(sent)])
  BY <1>1 DEF ConversationTypeOK, InFlight
<1>3. Len(sent) \in Nat /\ Len(got) \in Nat /\ (got = <<>> <=> Len(got) = 0)
  BY <1>2, EmptyFacts
<1>4. f = sent[Len(sent)] /\ (isUnencrypted(Message(wire)) <=> ~ini.secure)
  BY <1>2 DEF Carries
<1>5. f \in Fields
  BY <1>2, <1>3, <1>4
<1> QED
  BY <1>2, <1>3, <1>4, <1>5

\* Reading the message in flight leaves only the sides to look at.
LEMMA ReceiveKeeps ==
    ASSUME ConversationInv, wire # <<>>, NEW f, f = sent[Len(sent)], f \in Fields,
           Len(sent) \in Nat, Len(sent) >= 1, Len(got) = Len(sent) - 1,
           got' = Append(got, f), wire' = <<>>, sent' = sent
    PROVE  /\ got' \in Seq(Fields) /\ Len(got') = Len(sent) /\ got' # <<>>
           /\ got'[Len(got')] = f
           /\ (ini' \in Sides /\ ini'.secure = ini.secure) => InFlight'
           /\ (ini' \in Sides /\ rsp' \in Sides) => ConversationTypeOK'
           /\ (/\ ini' \in Sides /\ ini'.secure = ini.secure /\ ini'.sid = ini.sid
               /\ ini'.id = ini.id /\ ini'.nodeId = ini.nodeId)
                 => \A k \in 1..Len(sent') : Kth(k)'
<1>1. ConversationTypeOK /\ InFlight /\ \A k \in 1..Len(sent) : Kth(k)
  BY DEF ConversationInv
<1>2. got \in Seq(Fields) /\ sent \in Seq(Fields)
  BY <1>1 DEF ConversationTypeOK
<1>3. /\ got' \in Seq(Fields) /\ Len(got') = Len(got) + 1
      /\ \A j \in 1..Len(got) : got'[j] = got[j]
      /\ got'[Len(got) + 1] = f
  BY <1>2, SeqAppend
<1>4. Len(got') = Len(sent) /\ got' # <<>> /\ got'[Len(got')] = f
  BY <1>3, EmptyFacts
<1>5. \A k \in 1..Len(got') : got'[k] = sent'[k]
  <2>1. ASSUME NEW k \in 1..Len(got') PROVE got'[k] = sent'[k]
    <3>1. CASE k \in 1..Len(got)
      BY <1>1, <1>3, <3>1 DEF InFlight
    <3>2. CASE k = Len(sent)
      BY <1>3, <1>4, <3>2
    <3> QED
      BY <1>4, <3>1, <3>2
  <2> QED
    BY <2>1
<1>6. (ini' \in Sides /\ ini'.secure = ini.secure) => InFlight'
  BY <1>4, <1>5 DEF InFlight
<1>7. (ini' \in Sides /\ rsp' \in Sides) => ConversationTypeOK'
  BY <1>2, <1>3 DEF ConversationTypeOK
<1>8. (/\ ini' \in Sides /\ ini'.secure = ini.secure /\ ini'.sid = ini.sid
       /\ ini'.id = ini.id /\ ini'.nodeId = ini.nodeId)
          => \A k \in 1..Len(sent') : Kth(k)'
  BY <1>1 DEF Kth
<1> QED
  BY <1>3, <1>4, <1>6, <1>7, <1>8

\* The parts of what is read have their types.
LEMMA FieldTypes ==
    ASSUME NEW f \in Fields
    PROVE  /\ f.sid \in Bytes(2) /\ f.ctr \in Bytes(4) /\ f.i \in BOOLEAN
           /\ f.r \in BOOLEAN /\ f.id \in Bytes(2) /\ f.source \in Bytes(8)
BY DEF Fields

\* A side that was made with these, and asks for nothing yet.
Made(y, s, sid, id, i, node) ==
    /\ y \in Sides /\ y.secure = s /\ y.sid = sid /\ y.id = id
    /\ y.initiator = i /\ y.nodeId = node /\ ~y.isAck

\* A new side is what it was made with.
LEMMA NewSide ==
    ASSUME NEW s \in BOOLEAN, NEW sid \in Bytes(2), NEW id \in Bytes(2),
           NEW i \in BOOLEAN, NEW node \in Bytes(8)
    PROVE  Made(Side(s, sid, id, i, node), s, sid, id, i, node)
<1> DEFINE off == FALSE
           y == Side(s, sid, id, i, node)
<1>1. off \in BOOLEAN /\ ~off
  OBVIOUS
<1>2. Alloc(4) \in Bytes(4) /\ FirstCounter \in Bytes(4)
  BY FirstCounterAssumption DEF Alloc, Bytes, Byte
<1>3. y = [secure |-> s, sid |-> sid, id |-> id, initiator |-> i,
           reliable |-> off, isAck |-> off, ackCounter |-> Alloc(4),
           nodeId |-> node, ctr |-> FirstCounter]
  BY DEF Side
<1> HIDE DEF off, y
<1>4. y \in Sides
  BY <1>1, <1>2, <1>3 DEF Sides
<1>5. Made(y, s, sid, id, i, node)
  BY <1>1, <1>3, <1>4 DEF Made
<1> QED
  BY <1>5 DEF y

\* Noting the counter to acknowledge changes nothing else.
LEMMA Noted ==
    ASSUME NEW x \in Sides, NEW f \in Fields, NEW y, y = Acknowledging(x, f)
    PROVE  /\ y \in Sides /\ y.secure = x.secure /\ y.sid = x.sid /\ y.id = x.id
           /\ y.initiator = x.initiator /\ y.nodeId = x.nodeId
           /\ y.isAck = x.isAck /\ y.reliable = x.reliable
           /\ y.ackCounter = f.ctr
<1>1. f.ctr \in Bytes(4)
  BY FieldTypes
<1> QED
  BY <1>1 DEF Acknowledging, Sides

\* What the first message makes of the responder.
Responding(y, s, f) ==
    /\ y \in Sides /\ y.secure = s /\ y.sid = f.sid /\ y.id = f.id
    /\ y.initiator = ~f.i /\ y.nodeId = f.source
    /\ y.isAck = f.r /\ y.reliable = f.r /\ y.ackCounter = f.ctr

\* The responder of a new exchange is made from the first message.
LEMMA NewResponder ==
    ASSUME NEW s \in BOOLEAN, NEW f \in Fields
    PROVE  Responding(Acknowledging([Side(s, f.sid, f.id, ~f.i, f.source)
                                        EXCEPT !.reliable = f.r, !.isAck = f.r], f),
                      s, f)
<1> DEFINE i == ~f.i
           r == f.r
           x == Side(s, f.sid, f.id, i, f.source)
           z == [x EXCEPT !.reliable = r, !.isAck = r]
           y == Acknowledging(z, f)
<1>1. f.sid \in Bytes(2) /\ f.id \in Bytes(2) /\ f.source \in Bytes(8)
  BY FieldTypes
<1>2. i \in BOOLEAN /\ r \in BOOLEAN
  BY FieldTypes
<1>3. SUFFICES Responding(y, s, f)
  OBVIOUS
<1>4. i = ~f.i /\ r = f.r
  OBVIOUS
<1> HIDE DEF i, r
<1>5. Made(x, s, f.sid, f.id, i, f.source)
  BY ONLY s \in BOOLEAN, <1>1, <1>2, NewSide
<1> HIDE DEF x
<1>6. x \in Sides
  BY <1>5 DEF Made
<1>7. Kept(x, z) /\ z.reliable = r /\ z.isAck = r
  BY ONLY <1>2, <1>6 DEF Sides, Kept
<1> HIDE DEF z
<1>8. /\ z \in Sides /\ z.secure = s /\ z.sid = f.sid /\ z.id = f.id
      /\ z.initiator = i /\ z.nodeId = f.source
  BY <1>5, <1>7 DEF Kept, Made
<1>9. /\ y \in Sides /\ y.secure = z.secure /\ y.sid = z.sid /\ y.id = z.id
      /\ y.initiator = z.initiator /\ y.nodeId = z.nodeId
      /\ y.isAck = z.isAck /\ y.reliable = z.reliable
      /\ y.ackCounter = f.ctr
  BY <1>8, Noted
<1> HIDE DEF y
<1> QED
  BY <1>4, <1>7, <1>8, <1>9 DEF Responding

\* The responder reads a message: SessionManager and ExchangeManager make its
\* session and exchange from the first one, and note the counter of each.
LEMMA ResponderReceiveKeeps ==
    ASSUME ConversationInv, ResponderReceive
    PROVE  ConversationInv'
<1> DEFINE f == ReadFields(Opened(wire, SessionKey(TRUE)))
           s == ~isUnencrypted(Message(wire))
           n == Len(sent)
           new == [Side(s, f.sid, f.id, ~f.i, f.source)
                      EXCEPT !.reliable = f.r, !.isAck = f.r]
<1>1. /\ ConversationTypeOK /\ InFlight /\ InitiatorKeeps /\ ResponderKeeps
      /\ \A k \in 1..Len(sent) : Kth(k)
  BY DEF ConversationInv
<1>2. /\ wire # <<>> /\ n % 2 = 1
      /\ rsp' = Acknowledging(IF rsp = None THEN new ELSE rsp, f)
      /\ got' = Append(got, f) /\ wire' = <<>> /\ ini' = ini /\ sent' = sent
  BY DEF ResponderReceive
<1>3. SessionKey(TRUE) = KeyOf(n)
  BY <1>2 DEF SessionKey, KeyOf
<1>4. /\ f = sent[n] /\ f \in Fields /\ n \in Nat /\ n >= 1 /\ Len(got) = n - 1
      /\ (got = <<>> <=> n = 1)
      /\ (isUnencrypted(Message(wire)) <=> ~ini.secure)
  BY <1>2, <1>3, Received
<1>5. s \in BOOLEAN /\ (s <=> ini.secure)
  BY <1>4
<1>6. ini \in Sides /\ WellKeyed(ini) /\ ini.secure \in BOOLEAN
  <2>1. ini \in Sides /\ WellKeyed(ini)
    BY <1>1 DEF InitiatorKeeps, WellKeyed
  <2> QED
    BY <2>1, SideTypes
<1> HIDE DEF f, s
<1>7. /\ got' \in Seq(Fields) /\ Len(got') = n /\ got' # <<>>
      /\ got'[Len(got')] = f /\ InFlight'
      /\ (rsp' \in Sides => ConversationTypeOK')
      /\ \A k \in 1..Len(sent') : Kth(k)'
  BY <1>2, <1>4, <1>6, ReceiveKeeps
<1>8. /\ WellKeyed(rsp') /\ ~rsp'.initiator
      /\ rsp'.secure = ini.secure /\ rsp'.sid = ini.sid /\ rsp'.id = ini.id
      /\ rsp'.isAck = sent[1].r /\ rsp'.reliable = sent[1].r
      /\ ~ini.secure => rsp'.nodeId = ini.nodeId
      /\ rsp'.ackCounter = f.ctr
  <2>1. CASE rsp = None
    <3>1. n = 1 /\ f = sent[1]
      BY <1>1, <1>4, <2>1 DEF ResponderKeeps
    <3>2. 1 \in 1..Len(sent) /\ 1 % 2 = 1
      BY <3>1
    <3>3. Kth(1)
      BY <1>1, <3>2
    <3>4. /\ f.id = ini.id /\ f.sid = ini.sid /\ f.i
          /\ (~ini.secure => f.source = ini.nodeId)
      BY <3>1, <3>2, <3>3 DEF Kth
    <3>5. rsp' = Acknowledging(new, f)
      BY <1>2, <2>1
    <3>6. /\ rsp' \in Sides /\ rsp'.secure = s /\ rsp'.sid = f.sid
          /\ rsp'.id = f.id /\ rsp'.initiator = ~f.i /\ rsp'.nodeId = f.source
          /\ rsp'.isAck = f.r /\ rsp'.reliable = f.r
          /\ rsp'.ackCounter = f.ctr
      <4>1. Responding(Acknowledging(new, f), s, f)
        BY <1>4, <1>5, NewResponder
      <4> QED
        BY <3>5, <4>1 DEF Responding
    <3>7. rsp'.secure = ini.secure
      BY <1>5, <1>6, <3>6
    <3> QED
      BY <1>6, <3>1, <3>4, <3>6, <3>7 DEF WellKeyed
  <2>2. CASE rsp # None
    <3>1. got # <<>> /\ rsp \in Sides
      BY <1>1, <2>2 DEF ResponderKeeps, WellKeyed
    <3>2. rsp' = Acknowledging(rsp, f)
      BY <1>2, <2>2
    <3>3. /\ rsp' \in Sides /\ rsp'.secure = rsp.secure /\ rsp'.sid = rsp.sid
          /\ rsp'.id = rsp.id /\ rsp'.initiator = rsp.initiator
          /\ rsp'.nodeId = rsp.nodeId /\ rsp'.isAck = rsp.isAck
          /\ rsp'.reliable = rsp.reliable /\ rsp'.ackCounter = f.ctr
      BY <1>4, <3>1, <3>2, Noted
    <3> QED
      BY <1>1, <3>1, <3>3 DEF ResponderKeeps, WellKeyed
  <2> QED
    BY <2>1, <2>2
<1>9. rsp' \in Sides /\ rsp' # None
  BY <1>8, NoneAssumption DEF WellKeyed
<1>10. ResponderKeeps'
  BY <1>2, <1>7, <1>8, <1>9 DEF ResponderKeeps
<1>11. InitiatorKeeps'
  <2>1. Len(got') % 2 # 0
    BY <1>2, <1>4, <1>7
  <2> QED
    BY <1>1, <1>2, <2>1 DEF InitiatorKeeps
<1> QED
  BY <1>7, <1>9, <1>10, <1>11 DEF ConversationInv

\* The initiator reads a reply and notes its counter.
LEMMA InitiatorReceiveKeeps ==
    ASSUME ConversationInv, InitiatorReceive
    PROVE  ConversationInv'
<1> DEFINE f == ReadFields(Opened(wire, SessionKey(FALSE)))
           n == Len(sent)
<1>1. /\ ConversationTypeOK /\ InFlight /\ InitiatorKeeps /\ ResponderKeeps
  BY DEF ConversationInv
<1>2. /\ wire # <<>> /\ n % 2 = 0 /\ ini' = Acknowledging(ini, f)
      /\ got' = Append(got, f) /\ wire' = <<>> /\ rsp' = rsp /\ sent' = sent
  BY DEF InitiatorReceive
<1>3. SessionKey(FALSE) = KeyOf(n)
  BY <1>2 DEF SessionKey, KeyOf
<1>4. /\ f = sent[n] /\ f \in Fields /\ n \in Nat /\ n >= 1 /\ Len(got) = n - 1
      /\ (got = <<>> <=> n = 1)
  <2> DEFINE key == SessionKey(FALSE)
  <2>1. f = ReadFields(Opened(wire, key)) /\ key = KeyOf(Len(sent))
    BY <1>3
  <2> HIDE DEF key, f
  <2> QED
    BY <1>2, <2>1, Received
<1> HIDE DEF f
<1>5. ini \in Sides
  BY <1>1 DEF ConversationTypeOK
<1>6. /\ ini' \in Sides /\ ini'.secure = ini.secure /\ ini'.sid = ini.sid
      /\ ini'.id = ini.id /\ ini'.initiator = ini.initiator
      /\ ini'.nodeId = ini.nodeId /\ ini'.isAck = ini.isAck
      /\ ini'.ackCounter = f.ctr
  BY <1>2, <1>4, <1>5, Noted
<1>7. /\ got' \in Seq(Fields) /\ Len(got') = n /\ got' # <<>>
      /\ got'[Len(got')] = f /\ InFlight'
      /\ (rsp' \in Sides => ConversationTypeOK')
      /\ \A k \in 1..Len(sent') : Kth(k)'
  BY <1>2, <1>4, <1>6, ReceiveKeeps
<1>8. got # <<>> /\ rsp # None /\ rsp \in Sides
  <2>1. got # <<>>
    BY <1>2, <1>4
  <2> QED
    BY <1>1, <2>1 DEF ResponderKeeps, WellKeyed
<1>9. InitiatorKeeps'
  BY <1>1, <1>2, <1>6, <1>7 DEF InitiatorKeeps, WellKeyed
<1>10. ResponderKeeps'
  <2>1. Len(got') % 2 # 1
    BY <1>2, <1>7
  <2> QED
    BY <1>1, <1>2, <1>6, <1>7, <1>8, <2>1 DEF ResponderKeeps
<1> QED
  BY <1>2, <1>7, <1>8, <1>9, <1>10 DEF ConversationInv

-----------------------------------------------------------------------------
(* Theorems *)

\* Before the first message.
LEMMA ConversationStarts == ConversationInit => ConversationInv
<1> SUFFICES ASSUME ConversationInit PROVE ConversationInv
  OBVIOUS
<1> DEFINE on == TRUE
           off == FALSE
<1>1. on \in BOOLEAN /\ on /\ off \in BOOLEAN /\ ~off
  OBVIOUS
<1>2. /\ \/ ini = Side(off, SESSION_ID_UNSECURED, ExchangeNo, on, NodeId)
         \/ ini = Side(on, SecureId, ExchangeNo, on, NodeId)
      /\ rsp = None /\ wire = <<>> /\ sent = <<>> /\ got = <<>>
  BY DEF ConversationInit
<1> HIDE DEF on, off
<1>3. /\ SESSION_ID_UNSECURED \in Bytes(2) /\ ExchangeNo \in Bytes(2)
      /\ SecureId \in Bytes(2) /\ SecureId # SESSION_ID_UNSECURED
      /\ NodeId \in Bytes(8)
  BY IdsAssumption DEF SESSION_ID_UNSECURED, Bytes, Byte
<1>4. ini \in Sides /\ WellKeyed(ini) /\ ini.initiator /\ ~ini.isAck
  <2>1. CASE ini = Side(off, SESSION_ID_UNSECURED, ExchangeNo, on, NodeId)
    <3>1. /\ ini \in Sides /\ ini.secure = off /\ ini.sid = SESSION_ID_UNSECURED
          /\ ini.initiator = on /\ ~ini.isAck
      <4>1. Made(Side(off, SESSION_ID_UNSECURED, ExchangeNo, on, NodeId),
                 off, SESSION_ID_UNSECURED, ExchangeNo, on, NodeId)
        BY ONLY <1>1, <1>3, NewSide
      <4> QED
        BY <2>1, <4>1 DEF Made
    <3> QED
      BY <1>1, <3>1 DEF WellKeyed
  <2>2. CASE ini = Side(on, SecureId, ExchangeNo, on, NodeId)
    <3>1. /\ ini \in Sides /\ ini.secure = on /\ ini.sid = SecureId
          /\ ini.initiator = on /\ ~ini.isAck
      <4>1. Made(Side(on, SecureId, ExchangeNo, on, NodeId),
                 on, SecureId, ExchangeNo, on, NodeId)
        BY ONLY <1>1, <1>3, NewSide
      <4> QED
        BY <2>2, <4>1 DEF Made
    <3> QED
      BY <1>1, <1>3, <3>1 DEF WellKeyed
  <2> QED
    BY <1>2, <2>1, <2>2
<1>5. Len(sent) = 0 /\ Len(got) = 0
  BY <1>2
<1>6. ConversationTypeOK
  BY <1>2, <1>4 DEF ConversationTypeOK
<1>7. InFlight
  BY <1>2, <1>5 DEF InFlight
<1>8. InitiatorKeeps
  BY <1>2, <1>4, <1>5 DEF InitiatorKeeps
<1>9. ResponderKeeps
  BY <1>2, <1>5 DEF ResponderKeeps
<1> QED
  BY <1>5, <1>6, <1>7, <1>8, <1>9 DEF ConversationInv

\* Every step of a conversation keeps the invariant, whatever is sent.
LEMMA ConverseKeeps ==
    ASSUME ConversationInv, [Converse(App, App)]_conversationVars
    PROVE  ConversationInv'
<1>1. ASSUME NEW app \in App, SendUnsecured(app) PROVE ConversationInv'
  BY <1>1, SendUnsecuredKeeps
<1>2. ASSUME NEW app \in App, NEW src \in BOOLEAN, NEW dst \in BOOLEAN,
             NEW r \in BOOLEAN, DoMsg(app, src, dst, r)
      PROVE  ConversationInv'
  BY <1>2, DoMsgKeeps
<1>3. ASSUME NEW app \in App, Reply(app) PROVE ConversationInv'
  BY <1>3, ReplyKeeps
<1>4. CASE ResponderReceive
  BY <1>4, ResponderReceiveKeeps
<1>5. CASE InitiatorReceive
  BY <1>5, InitiatorReceiveKeeps
<1>6. CASE UNCHANGED conversationVars
  BY <1>6 DEF conversationVars, ConversationInv, ConversationTypeOK, InFlight,
              InitiatorKeeps, ResponderKeeps, Kth
<1> QED
  BY <1>1, <1>2, <1>3, <1>4, <1>5, <1>6 DEF Converse

\* The two sides of an exchange agree on what they are, and the datagram in
\* flight carries the message that was meant, under the key of its sender.
THEOREM ConversationInvariant == ConversationSpec => []ConversationInv
<1>1. ConversationInit => ConversationInv
  BY ConversationStarts
<1>2. ConversationInv /\ [Converse(App, App)]_conversationVars => ConversationInv'
  BY ConverseKeeps
<1> QED
  BY <1>1, <1>2, PTL DEF ConversationSpec

\* Ids, counters and flags keep their types, whatever Exchange and Session count
\* up or read, and the setters of Message leave a buffer of bytes.
THEOREM ConversationTypes == ConversationSpec => []ConversationTypeOK
<1>1. ConversationInv => ConversationTypeOK
  BY DEF ConversationInv
<1> QED
  BY <1>1, ConversationInvariant, PTL

\* The getters of Message read every field as the setters of Message, Exchange
\* and Session meant it, for every payload, opcode, id and counter.
THEOREM FieldsArrive == ConversationSpec => []FieldsRead
<1>1. ConversationInv => FieldsRead
  <2> SUFFICES ASSUME ConversationInv PROVE FieldsRead
    OBVIOUS
  <2>1. Len(sent) \in Nat /\ Len(got) \in Nat
    BY DEF ConversationInv, ConversationTypeOK
  <2>2. Len(got) <= Len(sent)
    BY <2>1 DEF ConversationInv, InFlight
  <2> QED
    BY <2>2 DEF ConversationInv, InFlight, FieldsRead
<1> QED
  BY <1>1, ConversationInvariant, PTL

\* In conversations of any length a message made from what its sender read goes
\* to the exchange, session and node of the other side, and acknowledges the
\* message before it when that asked to.
THEOREM RepliesFindRequester == ConversationSpec => []ReplyFindsRequester
<1>1. ConversationInv => ReplyFindsRequester
  <2> SUFFICES ASSUME ConversationInv, NEW k \in 2..Len(got)
               PROVE  /\ got[k].id = ini.id /\ got[k].sid = ini.sid
                      /\ got[k].i <=> k % 2 = 1
                      /\ (k % 2 = 0 /\ ~ini.secure) =>
                            got[k].destination = ini.nodeId
                      /\ got[k].ack = IF sent[k-1].r THEN sent[k-1].ctr ELSE None
    BY DEF ReplyFindsRequester
  <2>1. Len(sent) \in Nat /\ Len(got) \in Nat
    BY DEF ConversationInv, ConversationTypeOK
  <2>2. k \in 1..Len(got) /\ k \in 1..Len(sent) /\ k > 1
    BY <2>1 DEF ConversationInv, InFlight
  <2>3. got[k] = sent[k] /\ Kth(k)
    BY <2>2 DEF ConversationInv, InFlight
  <2> QED
    BY <2>2, <2>3 DEF Kth
<1> QED
  BY <1>1, ConversationInvariant, PTL

=============================================================================
