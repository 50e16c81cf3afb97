---------------------------- MODULE MCAppMessage ----------------------------
(***************************************************************************)
(* Instances of AppMessage for TLC.  The first place of a document takes   *)
(* every value, the first two every form of tag, the others just enough to *)
(* make containers nest and follow each other.                             *)
(***************************************************************************)
EXTENDS AppMessage

Leaf(type, value, tag, profile) ==
    [type |-> type, value |-> value, tag |-> tag, profile |-> profile]

Ones(n) == [i \in 1..8 |-> IF i <= n THEN 255 ELSE 0]
Power256(n) == [i \in 1..8 |-> IF i = n + 1 THEN 1 ELSE 0]
\* -(2^(8n-1)): the least integer of n bytes, and the one below it.
Least(n) == [i \in 1..8 |-> CASE i < n -> 0 [] i = n -> 128 [] OTHER -> 255]
Below(n) == [i \in 1..8 |-> CASE i < n -> 255 [] i = n -> 127 [] OTHER -> 255]
Most(n) == [i \in 1..8 |-> CASE i < n -> 255 [] i = n -> 127 [] OTHER -> 0]
Above(n) == [i \in 1..8 |-> CASE i < n -> 0 [] i = n -> 128 [] OTHER -> 0]

Unsigned == {U64(0)} \cup {Ones(n) : n \in {1, 2, 4, 8}}
                     \cup {Power256(n) : n \in {1, 2, 4}}
Signed == UNION {{Least(n), Most(n)} : n \in {1, 2, 4, 8}}
              \cup UNION {{Below(n), Above(n)} : n \in {1, 2, 4}}

Ascii == {<<>>, <<65>>}
\* An accented letter, and a letter outside the basic plane.
Texts == Ascii \cup {<<233>>, <<128512>>}

ValuesWith(strings) ==
    ({"uint"} \X Unsigned) \cup ({"int"} \X Signed) \cup ({"string"} \X strings)
        \cup ({"boolean"} \X {<<0>>, <<1>>})
        \cup {<<"null", <<>>>>,
              <<"float", <<0, 0, 192, 63>>>>,
              <<"double", <<0, 0, 0, 0, 0, 0, 248, 63>>>>,
              <<"double", <<0, 0, 0, 0, 0, 0, 0, 64>>>>,
              <<"Buffer", <<>>>>,
              <<"Buffer", [i \in 1..256 |-> 24]>>}

Tags == {<<Undefined, Undefined>>} \cup ({0, 255, 256} \X {Undefined})
            \cup ({65535, 65536} \X {0, -1, 65521})

AnyTag == {Leaf("uint", U64(24), t[1], t[2]) : t \in Tags}
AnyValue(strings) == {Leaf(v[1], v[2], 1, Undefined) : v \in ValuesWith(strings)}
One == {Leaf("int", U64(24), 0, Undefined)}

Start(type, t) == Leaf(type, <<>>, t[1], t[2])
AnyStart == {Start(type, t) : type \in Containers, t \in {<<Undefined, Undefined>>}}
                \cup {Start("list", t) : t \in Tags}
OneStart == {Start("struct", <<Undefined, Undefined>>)}

AsciiLeaves == <<AnyTag \cup AnyValue(Ascii), AnyTag, One, One>>
SomeStarts == <<AnyStart, OneStart, OneStart, OneStart>>
TextLeaves == <<AnyValue(Texts)>>
TextStarts == <<{}>>

TheSession == <<184, 11>>
TheExchange == <<238, 14>>
TheNode == <<1, 2, 3, 4, 5, 6, 7, 8>>
CarryCounter == <<255, 1, 0, 16>>
=============================================================================
