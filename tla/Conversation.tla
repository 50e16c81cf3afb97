---------------------------- MODULE Conversation ---------------------------
(***************************************************************************)
(* The messages of one exchange, byte by byte: Exchange and Session put    *)
(* headers in front of what an application sends and encrypt it or not,    *)
(* the datagram is read by the peer's SessionManager and ExchangeManager,  *)
(* and what they read is what the reply is made from.                      *)
(*                                                                         *)
(* An unsecured conversation is the one that PASE has: both sides are this *)
(* code, they take turns, and the initiator acknowledges from its second   *)
(* message on.  The initiator of a secure one is the shell's msg command,  *)
(* or an external peer that fills in the same headers; it is answered.     *)
(*                                                                         *)
(* A name such as UnsecuredHeader_DsizLast, defined just before the        *)
(* operator it is named after, is that operator with a bug: the properties *)
(* are tried out on it.                                                    *)
(***************************************************************************)
EXTENDS MessageFrame

CONSTANTS
    SecureId,     \* the id of the secure session
    ExchangeNo,   \* the exchange id that the initiator picks
    NodeId,       \* the random id that it picks for an unsecured session
    FirstCounter, \* _messageCounter of a new session
    MaxMessages,  \* bound on the messages of an unsecured conversation
    None

\* A side: its Exchange and the Session below it.
Sides == [secure : BOOLEAN, sid : Bytes(2), id : Bytes(2),
          initiator : BOOLEAN, reliable : BOOLEAN, isAck : BOOLEAN,
          ackCounter : Bytes(4), nodeId : Bytes(8), ctr : Bytes(4)]

\* A secure session whose random id is 0 would not be told from an unsecured
\* one, and a node id of 0 counts as not set.
ASSUME IdsAssumption ==
    /\ SecureId \in Bytes(2) \ {SESSION_ID_UNSECURED}
    /\ ExchangeNo \in Bytes(2)
    /\ NodeId \in Bytes(8) \ {Alloc(8)}
ASSUME FirstCounterAssumption == FirstCounter \in Bytes(4)
ASSUME MaxMessagesAssumption == MaxMessages \in Nat
ASSUME NoneAssumption == None \notin Sides

VARIABLES
    ini, rsp,     \* the two sides; None before the responder has an exchange
    wire,         \* the datagram in flight, or <<>>
    sent, got     \* history: the fields of each message, as meant and as read

conversationVars == <<ini, rsp, wire, sent, got>>

Side(secure, sid, id, initiator, nodeId) ==
    [secure |-> secure, sid |-> sid, id |-> id, initiator |-> initiator,
     reliable |-> FALSE, isAck |-> FALSE, ackCounter |-> Alloc(4),
     nodeId |-> nodeId, ctr |-> FirstCounter]

ProtocolOf(secure) == IF secure THEN <<1, 0>> ELSE <<0, 0>>

ConversationInit ==
    /\ ini \in {Side(FALSE, SESSION_ID_UNSECURED, ExchangeNo, TRUE, NodeId),
                Side(TRUE, SecureId, ExchangeNo, TRUE, NodeId)}
    /\ rsp = None
    /\ wire = <<>> /\ sent = <<>> /\ got = <<>>

-----------------------------------------------------------------------------
(* Sending *)

\* _messageCounter++.  It starts below 2^28 + 1: the last carry is not reached.
Increment_NoCarry(ctr) == [ctr EXCEPT ![1] = @ + 1]
Increment(ctr) ==
    LET Carry(i) == \A j \in 1..(i-1) : ctr[j] = 255 IN
    [i \in 1..4 |-> IF Carry(i) THEN (ctr[i] + 1) % 256 ELSE ctr[i]]

\* Exchange.sendMessage(), up to the session.
ExchangeHeader(side, msg) ==
    LET flagged == SetRflag(SetIflag(SetExchangeFlags(SetExchangeId(msg, side.id),
                                                      0),
                                     side.initiator),
                            side.reliable)
    IN  IF side.isAck THEN SetAckCounter(SetAflag(flagged, TRUE), side.ackCounter)
                      ELSE flagged

\* The node id that Session.sendMessage() adds to an unsecured message.
UnsecuredHeader_DsizLast(side, msg) ==
    IF Iflag(msg)
    THEN SetSourceNodeId(SetDsiz(SetSflag(msg, SourceType.NodeId),
                                 DestinationType.Omit), side.nodeId)
    ELSE SetDestinationNodeId(SetDsiz(SetSflag(msg, SourceType.Omit),
                                      DestinationType.NodeId), side.nodeId)
UnsecuredHeader(side, msg) ==
    IF Iflag(msg)
    THEN SetSourceNodeId(SetSflag(SetDsiz(msg, DestinationType.Omit),
                                  SourceType.NodeId), side.nodeId)
    ELSE SetDestinationNodeId(SetDsiz(SetSflag(msg, SourceType.Omit),
                                      DestinationType.NodeId), side.nodeId)

\* Session.sendMessage(): the datagram.
SessionKey(initiator) == IF initiator THEN "I2R" ELSE "R2I"

SessionSend(side, msg) ==
    LET plain == SetMessageCounter(SetSessionId(SetSecurityFlags(
                     SetMessageFlags(msg, 0), 0), side.sid), side.ctr)
    IN  IF isUnencrypted(plain) THEN UnsecuredHeader(side, plain).buf
        ELSE encrypt(plain.buf, SessionKey(Iflag(plain)))

\* What an application sends: an opcode of its protocol and a payload.
App == [opcode : Byte, payload : Seq(Byte)]

\* new Message(), the application's fields, then the exchange and the session.
Datagram(side, app) ==
    SessionSend(side, ExchangeHeader(side,
        SetAppPayload(SetProtocolOpcode(SetProtocolId(NewMessage,
                                                      ProtocolOf(side.secure)),
                                        app.opcode), app.payload)))

\* The fields that the sender means the message to have.
Meant(side, app, source, destination) ==
    [sid |-> side.sid, ctr |-> side.ctr, i |-> side.initiator,
     r |-> side.reliable, id |-> side.id, protocol |-> ProtocolOf(side.secure),
     opcode |-> app.opcode, source |-> source, destination |-> destination,
     ack |-> IF side.isAck THEN side.ackCounter ELSE None,
     payload |-> app.payload]

Sent(side, app) ==
    Meant(side, app,
          IF ~side.secure /\ side.initiator THEN side.nodeId ELSE NODE_ID_ANY,
          IF ~side.secure /\ ~side.initiator THEN side.nodeId ELSE NODE_ID_ANY)

\* The last message has been read, and it was the other side's.
InitiatorsTurn == wire = <<>> /\ Len(sent) % 2 = 0 /\ Len(sent) < MaxMessages
RespondersTurn == wire = <<>> /\ Len(sent) % 2 = 1 /\ Len(sent) < MaxMessages

\* A message of the PASE client.
SendUnsecured(app) ==
    LET side == [ini EXCEPT !.reliable = TRUE, !.isAck = sent # <<>>] IN
    /\ ~ini.secure
    /\ InitiatorsTurn
    /\ wire' = Datagram(side, app)
    /\ sent' = Append(sent, Sent(side, app))
    /\ ini' = [side EXCEPT !.ctr = Increment(@)]
    /\ UNCHANGED <<rsp, got>>

\* doMsg(): the options name the node ids to send and the R flag.  It sends an
\* empty document; the request of an external peer has one after the headers.
DoMsg(app, src, dst, r) ==
    LET msgFlags == encodeMessageFlags(IF dst THEN 1 ELSE 0, IF src THEN 1 ELSE 0)
        header == encodeHeader(msgFlags, encodeSecurityFlags(0, 0), ini.sid,
                               ini.ctr, NodeId, Reverse(NodeId))
        protocol == encodeProtocolHeader(
                        encodeExchangeFlags(1, 0, IF r THEN 1 ELSE 0),
                        ini.id, app.opcode, ProtocolOf(TRUE))
        side == [ini EXCEPT !.reliable = r]
    IN  /\ ini.secure
        /\ InitiatorsTurn /\ sent = <<>>
        /\ wire' = encrypt(header \o protocol \o app.payload, SessionKey(TRUE))
        /\ sent' = Append(sent, Meant(side, app,
                                      IF src THEN NodeId ELSE NODE_ID_ANY,
                                      IF dst THEN Reverse(NodeId) ELSE NODE_ID_ANY))
        /\ ini' = [side EXCEPT !.ctr = Increment(@)]
        /\ UNCHANGED <<rsp, got>>

\* A message of the responder: of PASE, or of the interaction model.
Reply(app) ==
    /\ RespondersTurn
    /\ wire' = Datagram(rsp, app)
    /\ sent' = Append(sent, Sent(rsp, app))
    /\ rsp' = [rsp EXCEPT !.ctr = Increment(@)]
    /\ UNCHANGED <<ini, got>>

-----------------------------------------------------------------------------
(* Receiving *)

\* onMessage(), decryptMessage(): the message after decryption.
Opened(datagram, key) ==
    LET raw == Message(datagram) IN
    IF isUnencrypted(raw) \/ ~Authentic(datagram, key) THEN raw
    ELSE Message(decrypt(datagram))

\* The fields that the receiver reads.
ReadFields(msg) ==
    [sid |-> SessionId(msg), ctr |-> MessageCounter(msg), i |-> Iflag(msg),
     r |-> Rflag(msg), id |-> ExchangeId(msg), protocol |-> ProtocolId(msg),
     opcode |-> ProtocolOpcode(msg), source |-> SourceNodeId(msg),
     destination |-> DestinationNodeId(msg),
     ack |-> IF Aflag(msg) THEN ReadAt(msg.buf, AckOffset(msg), 4) ELSE None,
     payload |-> AppPayload(msg)]

\* onSessionMessage(): the exchange keeps the counter to acknowledge.
Acknowledging_OwnCounter(side, fields) == [side EXCEPT !.ackCounter = side.ctr]
Acknowledging(side, fields) == [side EXCEPT !.ackCounter = fields.ctr]

\* The responder: the session of the source node, a new exchange for the first
\* message, and the counter to acknowledge.
ResponderReceive ==
    LET fields == ReadFields(Opened(wire, SessionKey(TRUE)))
        new == [Side(~isUnencrypted(Message(wire)), fields.sid, fields.id,
                     ~fields.i, fields.source)
                   EXCEPT !.reliable = fields.r, !.isAck = fields.r]
        side == IF rsp = None THEN new ELSE rsp
    IN  /\ wire # <<>>
        /\ Len(sent) % 2 = 1
        /\ rsp' = Acknowledging(side, fields)
        /\ got' = Append(got, fields)
        /\ wire' = <<>>
        /\ UNCHANGED <<ini, sent>>

\* The initiator; on a secure session it is external.
InitiatorReceive ==
    LET fields == ReadFields(Opened(wire, SessionKey(FALSE))) IN
    /\ wire # <<>>
    /\ Len(sent) % 2 = 0
    /\ ini' = Acknowledging(ini, fields)
    /\ got' = Append(got, fields)
    /\ wire' = <<>>
    /\ UNCHANGED <<rsp, sent>>

\* A step of a conversation in which the first message is one of `first', and
\* the others are of `later'.
Converse(first, later) ==
    \/ sent = <<>> /\ \E app \in first : SendUnsecured(app)
    \/ \E app \in first, src, dst, r \in BOOLEAN : DoMsg(app, src, dst, r)
    \/ sent # <<>> /\ \E app \in later : SendUnsecured(app)
    \/ \E app \in later : Reply(app)
    \/ ResponderReceive
    \/ InitiatorReceive

\* Applications that send anything.
ConversationSpec == ConversationInit /\ [][Converse(App, App)]_conversationVars

-----------------------------------------------------------------------------
(* Properties *)

Fields == [sid : Bytes(2), ctr : Bytes(4), i : BOOLEAN, r : BOOLEAN,
           id : Bytes(2), protocol : Bytes(2), opcode : Byte,
           source : Bytes(8), destination : Bytes(8),
           ack : Bytes(4) \cup {None}, payload : Seq(Byte)]

\* Ids and counters keep their widths, whatever is counted up or read, and what
\* Message puts into a buffer are bytes.
ConversationTypeOK ==
    /\ ini \in Sides
    /\ rsp \in Sides \cup {None}
    /\ wire # <<>> =>
          IF isUnencrypted(Message(wire)) THEN wire \in Seq(Byte)
                                          ELSE decrypt(wire) \in Seq(Byte)
    /\ sent \in Seq(Fields)
    /\ got \in Seq(Fields)

\* The receiver reads every field of the two headers, the acknowledgement and
\* the payload as the sender meant them, though the setters of Message move
\* each other's fields, wipe each other's flags, and see the buffer before the
\* node ids are in it.
FieldsRead ==
    /\ Len(got) <= Len(sent)
    /\ \A k \in 1..Len(got) : got[k] = sent[k]

\* A reply made from what the responder read is one that the requester takes
\* for its own: its exchange, not as initiator, to its own node id when it is
\* unsecured; every message acknowledges the one before it, if that asked to.
ReplyFindsRequester ==
    \A k \in 2..Len(got) :
        /\ got[k].id = ini.id /\ got[k].sid = ini.sid
        /\ got[k].i <=> k % 2 = 1
        /\ (k % 2 = 0 /\ ~ini.secure) => got[k].destination = ini.nodeId
        /\ got[k].ack = IF sent[k-1].r THEN sent[k-1].ctr ELSE None
=============================================================================
