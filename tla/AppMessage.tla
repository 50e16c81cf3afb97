----------------------------- MODULE AppMessage ----------------------------
(***************************************************************************)
(* An application writes a TLV document, and sends it as the first message *)
(* of a conversation.                                                      *)
(***************************************************************************)
EXTENDS Tlv, Conversation

CONSTANTS
    Leaves,       \* by place in the document, the values that may be put:
                  \* [type, value, tag, profile]
    Starts,       \* by place, the structs, arrays and lists
    MaxPayload    \* bound: the longest document that is sent, in bytes

\* Both lists have an entry for every place: their length bounds a document.
ASSUME InputsAssumption == Len(Leaves) = Len(Starts)

VARIABLES
    buf,          \* TlvWriter: the document's bytes
    open,         \* history: the containers that are open, innermost last
    written       \* history: the nodes that were put

documentVars == <<buf, open, written>>

Init ==
    /\ buf = <<>> /\ open = <<0>> /\ written = <<>>
    /\ ConversationInit

-----------------------------------------------------------------------------
(* TlvWriter *)

Node(in, element) ==
    [in |-> in, profile |-> element.profile, tag |-> element.tag,
     type |-> element.type, value |-> element.value]

Place == Len(written) + 1

Writing == sent = <<>> /\ Place <= Len(Leaves)

Put(leaf) ==
    /\ Writing
    /\ CanPut(leaf.tag, leaf.profile)
    /\ buf' = buf \o PutKind(leaf.type, leaf.value, leaf.tag, leaf.profile)
    /\ written' = Append(written, Node(Last(open), leaf))
    /\ UNCHANGED <<open, conversationVars>>

PutStart(start) ==
    /\ Writing
    /\ CanPut(start.tag, start.profile)
    /\ buf' = buf \o putStart(start.type, start.tag, start.profile)
    /\ written' = Append(written, Node(Last(open), start))
    /\ open' = Append(open, Place)
    /\ UNCHANGED conversationVars

PutContainerEnd ==
    /\ sent = <<>>
    /\ Len(open) > 1
    /\ buf' = buf \o putContainerEnd
    /\ open' = Front(open)
    /\ UNCHANGED <<written, conversationVars>>

-----------------------------------------------------------------------------
(* The conversation *)

Closed == Len(open) = 1

AppOf(opcode, payload) == [opcode |-> opcode, payload |-> payload]

Document == IF Closed /\ Len(buf) <= MaxPayload THEN {AppOf(32, buf)} ELSE {}

\* sendStatus() writes its three fields over each other at the start of the
\* payload; with the arguments of its only caller, a success of PASE, all three
\* are 0.
StatusReport == Alloc(8)

SmallPayload == putUnsignedInt(U64(1), 1, Undefined)

Next ==
    \/ Writing /\ \E leaf \in Leaves[Place] : Put(leaf)
    \/ Writing /\ \E start \in Starts[Place] : PutStart(start)
    \/ PutContainerEnd
    \/ /\ Converse(Document, {AppOf(33, SmallPayload), AppOf(64, StatusReport)})
       /\ UNCHANGED documentVars

Spec == Init /\ [][Next]_<<documentVars, conversationVars>>

-----------------------------------------------------------------------------
(* Properties *)

\* What TlvWriter and Message put into a buffer are bytes, ids and counters keep
\* their widths, and a document's containers are closed in the order they were
\* opened.
TypeOK ==
    /\ ConversationTypeOK
    /\ buf \in Seq(Byte)
    /\ \A i \in 1..Len(open) : open[i] \in 0..Len(written)
    /\ \A i, j \in 1..Len(open) : i < j => open[i] < open[j]

\* TlvReader reads what was put into TlvWriter: every value with its type, tag
\* and profile, in the container that was open, at every point of writing.
ReadsWhatWasPut ==
    sent = <<>> =>
        LET json == Decode(buf) IN
        /\ json # Undefined
        /\ Len(json) = Len(written)
        /\ \A i \in 1..Len(json) :
              /\ json[i].type \in Types[written[i].type]
              /\ json[i].in = written[i].in
              /\ json[i].profile = written[i].profile
              /\ json[i].tag = written[i].tag
              /\ json[i].value = written[i].value

\* DeterministicJson is "a form that can be deterministically encoded back to
\* the original binary TLV Buffer": encode() of what decode() returns is the
\* buffer.  Doubles that are whole numbers are left out: encode() has no case
\* for the type "double", and put() writes them as integers.
EncodesBack ==
    (/\ sent = <<>> /\ Closed
     /\ \A i \in 1..Len(written) : written[i].value \notin WholeDoubles)
        => Encode(Decode(buf), 0) = buf
=============================================================================
