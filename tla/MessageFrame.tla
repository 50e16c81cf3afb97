--------------------------- MODULE MessageFrame ----------------------------
(***************************************************************************)
(* The message format: class Message, whose fields are places in a buffer  *)
(* that its setters write to or widen, and MsgCodec, which encodes headers *)
(* and encrypts.                                                           *)
(*                                                                         *)
(* A message is [buf, hasSource, hasDestination].  Every setter is an      *)
(* operator from messages to messages; the code applies them in an order   *)
(* that matters, since the places of the later fields depend on the flags  *)
(* set before.  Ids and counters are their bytes.                          *)
(*                                                                         *)
(* AES-CCM is symbolic: what follows the header of an encrypted message,   *)
(* its MIC included, is one cell, which opens with the key, nonce and      *)
(* additional data that it was sealed with.                                *)
(***************************************************************************)
EXTENDS Integers, Sequences, SequencesExt

Byte == 0..255
Bytes(n) == [1..n -> Byte]

\* Bit by bit, of bytes.
x & y ==
    LET Both(w) == w * ((x \div w) % 2) * ((y \div w) % 2)
    IN  Both(1) + Both(2) + Both(4) + Both(8)
            + Both(16) + Both(32) + Both(64) + Both(128)
x | y == x + y - (x & y)

MESSAGE_HEADER_MIN_SIZE == 8
EXCHANGE_HEADER_MIN_SIZE == 6
MESSAGE_NODE_ID_SIZE == 8
MESSAGE_GROUP_ID_SIZE == 2
ACK_COUNTER_SIZE == 4

DestinationType == [Omit |-> 0, NodeId |-> 1, GroupId |-> 2]
SourceType == [Omit |-> 0, NodeId |-> 4]

SESSION_ID_UNSECURED == <<0, 0>>
NODE_ID_ANY == <<255, 255, 255, 255, 255, 255, 255, 255>>

Alloc(n) == [i \in 1..n |-> 0]
ReadAt(buf, offset, n) == SubSeq(buf, offset + 1, offset + n)
WriteAt(buf, offset, bytes) ==
    [i \in 1..Len(buf) |->
        IF i - offset \in 1..Len(bytes) THEN bytes[i - offset] ELSE buf[i]]
\* Buffer.concat() of what is before offset, n bytes and what is after.
Widen(buf, offset, n) ==
    SubSeq(buf, 1, offset) \o Alloc(n) \o SubSeq(buf, offset + 1, Len(buf))

Message(buf) == [buf |-> buf, hasSource |-> FALSE, hasDestination |-> FALSE]
NewMessage == Message(Alloc(MESSAGE_HEADER_MIN_SIZE + EXCHANGE_HEADER_MIN_SIZE))

Write(msg, offset, bytes) == [msg EXCEPT !.buf = WriteAt(@, offset, bytes)]

-----------------------------------------------------------------------------
(* The message header *)

MessageFlags(msg) == msg.buf[1]
SessionId(msg) == ReadAt(msg.buf, 1, 2)
SecurityFlags(msg) == msg.buf[4]
MessageCounter(msg) == ReadAt(msg.buf, 4, 4)

SetMessageFlags(msg, v) == Write(msg, 0, <<v>>)
SetSessionId(msg, v) == Write(msg, 1, v)
SetSecurityFlags(msg, v) == Write(msg, 3, <<v>>)
SetMessageCounter(msg, v) == Write(msg, 4, v)

\* The setters of Sflag and Dsiz keep their own bits, and no others.
Sflag(msg) == MessageFlags(msg) & 4 # 0
SetSflag(msg, v) == SetMessageFlags(msg, (MessageFlags(msg) & 4) | (v & 4))
Dsiz(msg) == MessageFlags(msg) & 3
SetDsiz(msg, v) == SetMessageFlags(msg, (MessageFlags(msg) & 3) | (v & 3))

isUnencrypted(msg) ==
    SecurityFlags(msg) & 3 = 0 /\ SessionId(msg) = SESSION_ID_UNSECURED

SourceNodeId(msg) ==
    IF Sflag(msg) THEN ReadAt(msg.buf, 8, MESSAGE_NODE_ID_SIZE) ELSE NODE_ID_ANY

SetSourceNodeId(msg, v) ==
    LET wide == IF msg.hasSource THEN msg
                ELSE [msg EXCEPT !.buf = Widen(@, 8, MESSAGE_NODE_ID_SIZE),
                                 !.hasSource = TRUE]
    IN  IF Sflag(msg) THEN Write(wide, 8, v) ELSE msg

DestinationOffset(msg) ==
    MESSAGE_HEADER_MIN_SIZE + (IF Sflag(msg) THEN MESSAGE_NODE_ID_SIZE ELSE 0)

\* A group id is not read: the getter asks for `this.dsiz', which is undefined.
DestinationNodeId(msg) ==
    IF Dsiz(msg) = DestinationType.NodeId
    THEN ReadAt(msg.buf, DestinationOffset(msg), MESSAGE_NODE_ID_SIZE)
    ELSE NODE_ID_ANY

DestinationSize(dsiz) ==
    CASE dsiz = DestinationType.NodeId -> MESSAGE_NODE_ID_SIZE
      [] dsiz = DestinationType.GroupId -> MESSAGE_GROUP_ID_SIZE
      [] OTHER -> 0

SetDestinationNodeId(msg, v) ==
    LET offset == DestinationOffset(msg)
        wide == IF msg.hasDestination THEN msg
                ELSE [msg EXCEPT
                        !.buf = Widen(@, offset, DestinationSize(Dsiz(msg))),
                        !.hasDestination = TRUE]
    IN  IF Dsiz(msg) = DestinationType.Omit THEN msg ELSE Write(wide, offset, v)

-----------------------------------------------------------------------------
(* The exchange header and the payload *)

PayloadOffset(msg) == DestinationOffset(msg) + DestinationSize(Dsiz(msg))

ExchangeFlags(msg) == msg.buf[PayloadOffset(msg) + 1]
ProtocolOpcode(msg) == msg.buf[PayloadOffset(msg) + 2]
ExchangeId(msg) == ReadAt(msg.buf, PayloadOffset(msg) + 2, 2)
ProtocolId(msg) == ReadAt(msg.buf, PayloadOffset(msg) + 4, 2)

SetExchangeFlags(msg, v) == Write(msg, PayloadOffset(msg), <<v>>)
SetProtocolOpcode(msg, v) == Write(msg, PayloadOffset(msg) + 1, <<v>>)
SetExchangeId(msg, v) == Write(msg, PayloadOffset(msg) + 2, v)
SetProtocolId(msg, v) == Write(msg, PayloadOffset(msg) + 4, v)

Iflag(msg) == ExchangeFlags(msg) & 1 # 0
Aflag(msg) == ExchangeFlags(msg) & 2 # 0
Rflag(msg) == ExchangeFlags(msg) & 4 # 0

SetFlag(msg, bit, v) ==
    SetExchangeFlags(msg, IF v THEN ExchangeFlags(msg) | bit
                               ELSE ExchangeFlags(msg) & (255 - bit))
SetIflag(msg, v) == SetFlag(msg, 1, v)
SetAflag(msg, v) == SetFlag(msg, 2, v)
SetRflag(msg, v) == SetFlag(msg, 4, v)

\* Every call inserts a counter; there is no getter.
AckOffset(msg) == PayloadOffset(msg) + EXCHANGE_HEADER_MIN_SIZE
SetAckCounter(msg, v) ==
    IF Aflag(msg)
    THEN [msg EXCEPT !.buf = WriteAt(Widen(@, AckOffset(msg), ACK_COUNTER_SIZE),
                                     AckOffset(msg), v)]
    ELSE msg

AppPayload(msg) ==
    SubSeq(msg.buf,
           AckOffset(msg) + (IF Aflag(msg) THEN ACK_COUNTER_SIZE ELSE 0) + 1,
           Len(msg.buf))
SetAppPayload(msg, v) == [msg EXCEPT !.buf = @ \o v]

-----------------------------------------------------------------------------
(* MsgCodec *)

encodeMessageFlags(dsiz, sFlag) == (sFlag * 4) | dsiz
encodeSecurityFlags(cFlag, pFlag) == (pFlag * 128) | (cFlag * 64)
encodeExchangeFlags(iFlag, aFlag, rFlag) == (rFlag * 4) | (aFlag * 2) | iFlag

encodeHeader(msgFlags, secFlags, sessionId, msgCounter, src, dst) ==
    <<msgFlags>> \o sessionId \o <<secFlags>> \o msgCounter
        \o (IF msgFlags & 4 # 0 THEN src ELSE <<>>)
        \o (IF msgFlags & 1 # 0 THEN dst ELSE <<>>)

encodeProtocolHeader(exchangeFlags, exchangeId, opcode, protocolId) ==
    <<exchangeFlags, opcode>> \o exchangeId \o protocolId

\* Security flags, message counter, and the source node id when it is there.
getNonce(buf) ==
    SubSeq(buf, 4, 8) \o (IF buf[1] & 4 # 0 THEN SubSeq(buf, 9, 16) ELSE Alloc(8))

\* The headerSize of encrypt() and decrypt(): a bit each for the node ids.
HeaderSize(buf) ==
    8 + (IF buf[1] & 4 # 0 THEN 8 ELSE 0) + (IF buf[1] & 1 # 0 THEN 8 ELSE 0)
      + (IF buf[1] & 2 # 0 THEN 2 ELSE 0)

Seal(plain, key, buf) ==
    [plain |-> plain, key |-> key, nonce |-> getNonce(buf),
     aad |-> SubSeq(buf, 1, HeaderSize(buf))]

\* The header, and the rest with its MIC.
encrypt(buf, key) ==
    SubSeq(buf, 1, HeaderSize(buf))
        \o <<Seal(SubSeq(buf, HeaderSize(buf) + 1, Len(buf)), key, buf)>>

\* decipher.final() throws unless the rest was sealed this way.
Authentic(buf, key) == Last(buf) = Seal(Last(buf).plain, key, buf)

decrypt(buf) == SubSeq(buf, 1, HeaderSize(buf)) \o Last(buf).plain
=============================================================================
