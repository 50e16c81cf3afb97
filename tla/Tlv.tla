-------------------------------- MODULE Tlv --------------------------------
(***************************************************************************)
(* The TLV codec: TlvCodec, TlvWriter and TlvReader.                       *)
(*                                                                         *)
(* Buffers are sequences of bytes.  An integer is its 64-bit two's         *)
(* complement, least byte first, so that every width is exact; a string is *)
(* the sequence of its code points; a float or a double is its IEEE 754    *)
(* encoding; a boolean is <<0>> or <<1>>; null has no value.               *)
(*                                                                         *)
(* The tree of DeterministicJson objects is the sequence of its nodes in   *)
(* the order they are pushed.  A node is                                   *)
(*     [in, profile, tag, type, value]                                     *)
(* where `in' is the place of the struct, array or list whose value array  *)
(* holds it, or 0 for the reader's own array.                              *)
(*                                                                         *)
(* An operation that throws changes nothing: CanPut tells which do.  A     *)
(* reader that throws returns Undefined.                                   *)
(***************************************************************************)
EXTENDS Integers, Sequences, SequencesExt, FiniteSetsExt

CONSTANT Undefined

TLV_TYPE_SIGNED_INTEGER == 0
TLV_TYPE_UNSIGNED_INTEGER == 4
TLV_TYPE_BOOLEAN_FALSE == 8
TLV_TYPE_BOOLEAN_TRUE == 9
TLV_TYPE_FLOAT == 10
TLV_TYPE_DOUBLE == 11
TLV_TYPE_UTF8_STRING == 12
TLV_TYPE_BYTE_STRING == 16
TLV_TYPE_NULL == 20
TLV_TYPE_STRUCTURE == 21
TLV_TYPE_ARRAY == 22
TLV_TYPE_LIST == 23
TLV_TYPE_END == 24

ElementTypes ==
    <<"int8", "int16", "int32", "int64", "uint8", "uint16", "uint32", "uint64",
      "boolean", "boolean", "float", "double",
      "string uint8 len", "string uint16 len", "string uint32 len",
      "string uint64 len",
      "Buffer uint8 len", "Buffer uint16 len", "Buffer uint32 len",
      "Buffer uint64 len",
      "null", "struct", "array", "list", "End of Collection">>

\* The element types by what they hold.
Types ==
    [int |-> {"int8", "int16", "int32", "int64"},
     uint |-> {"uint8", "uint16", "uint32", "uint64"},
     boolean |-> {"boolean"}, float |-> {"float"}, double |-> {"double"},
     string |-> {"string uint8 len", "string uint16 len", "string uint32 len",
                 "string uint64 len"},
     Buffer |-> {"Buffer uint8 len", "Buffer uint16 len", "Buffer uint32 len",
                 "Buffer uint64 len"},
     null |-> {"null"}, struct |-> {"struct"}, array |-> {"array"},
     list |-> {"list"}]

Containers == {"struct", "array", "list"}

Kind(type) == CHOOSE k \in DOMAIN Types : type \in Types[k]

-----------------------------------------------------------------------------
(* Node's Buffer and strings *)

\* n in w bytes, w at most 4.
LE(n, w) == [i \in 1..w |-> (n \div (256^(i-1))) % 256]
FromLE(bytes) ==
    FoldRight(LAMBDA byte, n : byte + 256 * n, bytes, 0)
U64(n) == LE(n, 4) \o <<0, 0, 0, 0>>

\* buf.subarray(n)
Drop(buf, n) == SubSeq(buf, n + 1, Len(buf))
Take(buf, n) == SubSeq(buf, 1, IF n < Len(buf) THEN n ELSE Len(buf))

\* Buffer.from(s, 'utf-8')
Utf8Char(c) ==
    CASE c < 128 -> <<c>>
      [] c \in 128..2047 -> <<192 + (c \div 64), 128 + (c % 64)>>
      [] c \in 2048..65535 ->
            <<224 + (c \div 4096), 128 + ((c \div 64) % 64), 128 + (c % 64)>>
      [] OTHER -> <<240 + (c \div 262144), 128 + ((c \div 4096) % 64),
                    128 + ((c \div 64) % 64), 128 + (c % 64)>>
Utf8(s) == FlattenSeq([i \in 1..Len(s) |-> Utf8Char(s[i])])

\* s.length: UTF-16 code units.
Utf16Length(s) ==
    Len(s) + Cardinality({i \in 1..Len(s) : s[i] >= 65536})

\* buf.toString("utf-8"): a sequence that is cut short becomes U+FFFD.
RECURSIVE FromUtf8(_)
FromUtf8(buf) ==
    IF buf = <<>> THEN <<>>
    ELSE LET lead == buf[1]
             size == CASE lead < 128 -> 1 [] lead \in 194..223 -> 2
                       [] lead \in 224..239 -> 3 [] lead \in 240..244 -> 4
                       [] OTHER -> 1
             have == Max({n \in 1..size :
                            \A i \in 2..n : i <= Len(buf) /\ buf[i] \in 128..191})
             bits == IF size = 1 THEN lead ELSE lead % (2^(7 - size))
             char == FoldLeft(LAMBDA c, i : 64 * c + (buf[i] % 64), bits,
                              [i \in 1..(size - 1) |-> i + 1])
         IN  <<IF have = size /\ (size > 1 \/ lead < 128) THEN char ELSE 65533>>
                 \o FromUtf8(Drop(buf, have))

-----------------------------------------------------------------------------
(* TlvCodec: encoding *)

\* encodeUnsignedInt(): the narrowest width the value fits.
encodeUnsignedInt(val) ==
    SubSeq(val, 1, Min({w \in {1, 2, 4, 8} : \A i \in (w+1)..8 : val[i] = 0}))

\* encodeSignedInt(): the narrowest width whose sign extension is the value.
encodeSignedInt_UnsignedBounds(val) ==
    SubSeq(val, 1,
           Min({w \in {1, 2, 4, 8} : \/ \A i \in (w+1)..8 : val[i] = 0
                               \/ \A i \in (w+1)..8 : val[i] = 255}))
encodeSignedInt(val) ==
    SubSeq(val, 1,
           Min({w \in {1, 2, 4, 8} : \A i \in (w+1)..8 :
                                   val[i] = IF val[w] >= 128 THEN 255 ELSE 0}))

LengthBits(len) == CASE len = 2 -> 1 [] len = 4 -> 2 [] len = 8 -> 3 [] OTHER -> 0

\* Where encodeControlByte() throws.
CanPut(tag, profile) ==
    /\ (profile = Undefined /\ tag # Undefined) => tag <= 255
    /\ profile # Undefined => tag # Undefined

\* encodeControlByte(): the control byte and the tag.
encodeControlByte(type, len, tag, profile) ==
    LET Octet(control) == <<type + LengthBits(len) + control>> IN
    CASE profile = Undefined /\ tag = Undefined -> Octet(0)
      [] profile = Undefined /\ tag # Undefined -> Octet(32) \o <<tag>>
      [] profile \in {0, 64, 96} /\ tag <= 65535 -> Octet(64) \o LE(tag, 2)
      [] profile \in {0, 64, 96} /\ tag > 65535 -> Octet(96) \o LE(tag, 4)
      [] profile \in {-1, 128, 160} /\ tag <= 65535 -> Octet(128) \o LE(tag, 2)
      [] profile \in {-1, 128, 160} /\ tag > 65535 -> Octet(160) \o LE(tag, 4)
      [] profile > 0 /\ profile \notin {64, 96, 128, 160} /\ tag <= 65535 ->
            Octet(192) \o LE(profile, 4) \o LE(tag, 2)
      [] profile > 0 /\ profile \notin {64, 96, 128, 160} /\ tag > 65535 ->
            Octet(224) \o LE(profile, 4) \o LE(tag, 4)

-----------------------------------------------------------------------------
(* TlvWriter: each operator is what its method adds to the buffer *)

putUnsignedInt(val, tag, profile) ==
    LET encoded == encodeUnsignedInt(val) IN
    encodeControlByte(TLV_TYPE_UNSIGNED_INTEGER, Len(encoded), tag, profile)
        \o encoded

putSignedInt(val, tag, profile) ==
    LET encoded == encodeSignedInt(val) IN
    encodeControlByte(TLV_TYPE_SIGNED_INTEGER, Len(encoded), tag, profile)
        \o encoded

putFloat(val, tag, profile) ==
    encodeControlByte(TLV_TYPE_FLOAT, 0, tag, profile) \o val

putDouble(val, tag, profile) ==
    encodeControlByte(TLV_TYPE_DOUBLE, 0, tag, profile) \o val

putBoolean(val, tag, profile) ==
    encodeControlByte(IF val = <<1>> THEN TLV_TYPE_BOOLEAN_TRUE
                                     ELSE TLV_TYPE_BOOLEAN_FALSE, 0, tag, profile)

putNull(tag, profile) == encodeControlByte(TLV_TYPE_NULL, 0, tag, profile)

putBytes(val, tag, profile) ==
    LET valLen == encodeUnsignedInt(U64(Len(val))) IN
    encodeControlByte(TLV_TYPE_BYTE_STRING, Len(valLen), tag, profile)
        \o valLen \o val

putString(val, tag, profile) ==
    LET valLen == encodeUnsignedInt(U64(Utf16Length(val))) IN
    encodeControlByte(TLV_TYPE_UTF8_STRING, Len(valLen), tag, profile)
        \o valLen \o Utf8(val)

\* putStructStart(), putArrayStart(), putListStart()
putStart(type, tag, profile) ==
    encodeControlByte(CASE type = "struct" -> TLV_TYPE_STRUCTURE
                        [] type = "array" -> TLV_TYPE_ARRAY
                        [] type = "list" -> TLV_TYPE_LIST, 0, tag, profile)

putContainerEnd == encodeControlByte(TLV_TYPE_END, 0, Undefined, Undefined)

\* The method for a value of a kind.
PutKind(kind, val, tag, profile) ==
    CASE kind = "uint" -> putUnsignedInt(val, tag, profile)
      [] kind = "int" -> putSignedInt(val, tag, profile)
      [] kind = "float" -> putFloat(val, tag, profile)
      [] kind = "double" -> putDouble(val, tag, profile)
      [] kind = "boolean" -> putBoolean(val, tag, profile)
      [] kind = "null" -> putNull(tag, profile)
      [] kind = "Buffer" -> putBytes(val, tag, profile)
      [] kind = "string" -> putString(val, tag, profile)

\* The doubles here that are whole numbers, 2.0 of them, as integers.
WholeDoubles == {<<0, 0, 0, 0, 0, 0, 0, 64>>}
WholeValue(double) == U64(2)

\* What encode() does with the type and value of an object: a type it does not
\* know goes by the JavaScript type of the value, and put() writes a number
\* that is whole as an integer.
PutJson_NoSignedOverride(node) ==
    LET kind == Kind(node.type) IN
    IF kind = "int" /\ node.value[8] < 128
    THEN putUnsignedInt(node.value, node.tag, node.profile)
    ELSE PutKind(kind, node.value, node.tag, node.profile)
PutJson(node) ==
    LET kind == Kind(node.type) IN
    IF kind = "double" /\ node.value \in WholeDoubles
    THEN putUnsignedInt(WholeValue(node.value), node.tag, node.profile)
    ELSE PutKind(kind, node.value, node.tag, node.profile)

\* encode(), for the nodes that the node at c holds.
RECURSIVE Encode(_, _)
Encode(json, c) ==
    FlattenSeq([i \in 1..Len(json) |->
        CASE json[i].in # c -> <<>>
          [] json[i].in = c /\ json[i].type \in Containers ->
                putStart(json[i].type, json[i].tag, json[i].profile)
                    \o Encode(json, i) \o putContainerEnd
          [] json[i].in = c /\ json[i].type \notin Containers ->
                PutJson(json[i])])

-----------------------------------------------------------------------------
(* TlvCodec: decoding *)

\* decodeTagAndLength(): the bytes of the profile and of the tag.
ProfileLength(control) == IF control >= 192 THEN 4 ELSE 0
TagLength(control) ==
    CASE control = 0 -> 0
      [] control = 32 -> 1
      [] control \in {64, 128, 192} -> 2
      [] control \in {96, 160, 224} -> 4

TagProfile(tlv, control) ==
    CASE control \in {0, 32} -> Undefined
      [] control \in {64, 96} -> 0
      [] control \in {128, 160} -> -1
      [] control \in {192, 224} -> FromLE(SubSeq(tlv, 1, 4))

Tag(tlv, control) ==
    LET p == ProfileLength(control) IN
    IF control = 0 THEN Undefined
    ELSE FromLE(SubSeq(tlv, p + 1, p + TagLength(control)))

\* decodeValueAndLength(): the bytes of a number or of a length.
HeadLength(type) ==
    CASE type \in 0..7 \cup 12..19 -> 2^(type % 4)
      [] type = TLV_TYPE_FLOAT -> 4
      [] type = TLV_TYPE_DOUBLE -> 8
      [] OTHER -> 0

Extended(head, byte) == head \o [i \in 1..(8 - Len(head)) |-> byte]

\* The value.  A length of 8 bytes is a bigint, which is not taken for a length.
Value(tlv, type) ==
    LET w == HeadLength(type)
        head == SubSeq(tlv, 1, w)
        content == Take(Drop(tlv, w), FromLE(head))
    IN  CASE type \in 0..3 -> Extended(head, IF head[w] >= 128 THEN 255 ELSE 0)
          [] type \in 4..7 -> Extended(head, 0)
          [] type \in {TLV_TYPE_BOOLEAN_FALSE, TLV_TYPE_BOOLEAN_TRUE} ->
                <<type - TLV_TYPE_BOOLEAN_FALSE>>
          [] type \in {TLV_TYPE_FLOAT, TLV_TYPE_DOUBLE, 15, 19} -> head
          [] type \in 12..14 -> FromUtf8(content)
          [] type \in 16..18 -> content
          [] OTHER -> <<>>

ValueLength(tlv, type) ==
    LET w == HeadLength(type) IN
    IF type \in 12..14 \cup 16..18 THEN w + FromLE(SubSeq(tlv, 1, w)) ELSE w

-----------------------------------------------------------------------------
(* TlvReader *)

\* The loop of decode(): the rest of the buffer, the nodes so far, _container,
\* containerStack and containerDepth.
RECURSIVE DecodeRest(_, _, _, _, _)
DecodeRest(tlv, json, container, stack, depth) ==
    IF tlv = <<>> \/ depth = 0 THEN json
    ELSE LET type == tlv[1] % 32
             control == tlv[1] - type
             tagged == Tail(tlv)
             rest == Drop(tagged, ProfileLength(control) + TagLength(control))
         IN  IF \/ Len(tagged) < ProfileLength(control) + TagLength(control)
                \/ Len(rest) < HeadLength(type)
             THEN Undefined
             ELSE LET node == [in |-> container,
                               profile |-> TagProfile(tagged, control),
                               tag |-> Tag(tagged, control),
                               type |-> IF type < Len(ElementTypes)
                                        THEN ElementTypes[type + 1] ELSE Undefined,
                               value |-> Value(rest, type)]
                      next == Drop(rest, ValueLength(rest, type))
                  IN  CASE type = TLV_TYPE_END ->
                             DecodeRest(next, json, Last(stack), Front(stack),
                                        depth - 1)
                        [] type \in {TLV_TYPE_STRUCTURE, TLV_TYPE_ARRAY,
                                     TLV_TYPE_LIST} ->
                             DecodeRest(next, Append(json, node), Len(json) + 1,
                                        Append(stack, container), depth + 1)
                        [] OTHER ->
                             DecodeRest(next, Append(json, node), container,
                                        stack, depth)

Decode(tlv) == DecodeRest(tlv, <<>>, 0, <<0>>, 1)
=============================================================================
