------------------------- MODULE MessageLayerProofs -------------------------
(***************************************************************************)
(* Proofs about MessageLayer for any number of nodes, client ports,        *)
(* exchanges, repetitions, losses and restarts.                            *)
(***************************************************************************)
EXTENDS MessageLayer, ArrayLemmas, TLAPS

-----------------------------------------------------------------------------
(***************************************************************************)
(* The inductive invariant.  An exchange that a node opens is known by a   *)
(* link: its uid, its exchange id, the random node id of its session, the  *)
(* client address and the server address.  Everything that belongs to it,  *)
(* at either end or under way, carries this link, and two links that share *)
(* the uid or the node id are the same.                                    *)
(***************************************************************************)
Link(origin, id, node, client, server) ==
    [origin |-> origin, id |-> id, node |-> node, client |-> client,
     server |-> server]

MessageLink(m) ==
    IF m.iflag THEN Link(m.src, m.exchangeId, m.nodeId, m.from, m.to)
               ELSE Link(m.peer, m.exchangeId, m.nodeId, m.to, m.from)

ExchangeLink(n, i) ==
    LET x == exchanges[n][i]
        s == sessions[n][x.session]
    IN  IF x.isInitiator
        THEN Link(UidOf(n, i), x.id, s.peerNodeId, ClientAddr(n), s.peerInfo)
        ELSE Link(x.peer, x.id, s.peerNodeId, s.peerInfo, ServerAddr(n))

\* The messages under way and those that were dispatched.
Heard == net \cup {g.msg : g \in got}

IsLink(l) ==
    \/ \E m \in Heard : l = MessageLink(m)
    \/ \E n \in Nodes : \E i \in 1..Len(exchanges[n]) : l = ExchangeLink(n, i)

\* A link's values; the exchange it names exists while its process runs.
LinkOK(l) ==
    /\ l.origin \in Uid
    /\ l.node \in Nat /\ 0 < l.node /\ l.node < fresh
    /\ l.client.node = l.origin.node /\ l.client.port \in Ports
    /\ l.server.port = "server"
    /\ l.origin.epoch <= epoch[l.origin.node]
    /\ l.origin.epoch = epoch[l.origin.node] =>
           /\ l.origin.idx \in 1..Len(exchanges[l.origin.node])
           /\ exchanges[l.origin.node][l.origin.idx].isInitiator

LinksOK == \A l : IsLink(l) => LinkOK(l)

LinksUnique ==
    \A k, l : (IsLink(k) /\ IsLink(l) /\ (k.origin = l.origin \/ k.node = l.node))
                  => k = l

\* Sessions are found by their peer's address and node id.
SessionsDistinct ==
    \A n \in Nodes : \A j, k \in 1..Len(sessions[n]) :
        /\ sessions[n][j].peerNodeId < fresh
        /\ sessions[n][j].transport = "client" =>
               sessions[n][j].peerInfo.port = "server"
        /\ (/\ sessions[n][j].peerInfo = sessions[n][k].peerInfo
            /\ sessions[n][j].peerNodeId = sessions[n][k].peerNodeId
            /\ sessions[n][j].peerNodeId # NODE_ID_ANY) => j = k

\* An exchange has a session, which is that of no other exchange.
OwnSession ==
    \A n \in Nodes : \A i \in 1..Len(exchanges[n]) :
        LET x == exchanges[n][i] IN
        /\ x.session \in 1..Len(sessions[n])
        /\ sessions[n][x.session].transport =
               IF x.isInitiator THEN "client" ELSE "server"
        /\ \A j \in 1..Len(exchanges[n]) : exchanges[n][j].session = x.session => i = j

\* A dispatched message went to an exchange that still is what it was.
GotOK ==
    \A g \in got :
        /\ g.at.epoch <= epoch[g.at.node]
        /\ g.at.epoch = epoch[g.at.node] =>
               /\ g.at.idx \in 1..Len(exchanges[g.at.node])
               /\ g.msg.iflag =>
                    /\ ~exchanges[g.at.node][g.at.idx].isInitiator
                    /\ exchanges[g.at.node][g.at.idx].peer = g.msg.src

\* A reply that was dropped was one to an exchange.
DroppedOK == \A m \in dropped : m.peer \in Uid

\* What an exchange acknowledges, it got from the exchange at the other end.
Received(uid, counter, isInitiator, peer) ==
    \E g \in got :
        /\ g.at = uid
        /\ g.msg.counter = counter
        /\ IF isInitiator THEN g.msg.peer = uid ELSE g.msg.src = peer

AcksOK ==
    \A n \in Nodes : \A i \in 1..Len(exchanges[n]) :
        LET x == exchanges[n][i] IN
        x.ackCounter # NoAck =>
            Received(UidOf(n, i), x.ackCounter, x.isInitiator, x.peer)

MessageInv ==
    /\ TypeOK /\ LinksOK /\ LinksUnique /\ SessionsDistinct /\ OwnSession
    /\ GotOK /\ DroppedOK /\ AcksOK
    /\ RepliesReachRequester /\ RequestsSeparated /\ NoReplyDropped
    /\ AckNamesReceived

\* Counting up one of the bounded events.
LEMMA UseTyped ==
    ASSUME used \in [Bounded -> Nat], NEW b \in Bounded, Use(b)
    PROVE  used' \in [Bounded -> Nat]
<1>1. used' = [used EXCEPT ![b] = used[b] + 1] /\ used[b] + 1 \in Nat
  BY DEF Use
<1> QED
  BY <1>1

-----------------------------------------------------------------------------
(* The lookups *)

\* getUnsecureSession() finds a session of the address and node id, if any.
LEMMA FindsSession ==
    ASSUME NEW table \in Seq(Session), NEW peerInfo, NEW peerNodeId
    PROVE  LET k == GetUnsecureSession(table, peerInfo, peerNodeId) IN
           /\ k = 0 => \A j \in 1..Len(table) :
                  ~(/\ table[j].peerInfo = peerInfo
                    /\ table[j].peerNodeId = peerNodeId)
           /\ k # 0 => /\ k \in 1..Len(table)
                       /\ table[k].peerInfo = peerInfo
                       /\ table[k].peerNodeId = peerNodeId
<1> DEFINE T == {j \in 1..Len(table) : /\ table[j].peerInfo = peerInfo
                                       /\ table[j].peerNodeId = peerNodeId}
<1>1. GetUnsecureSession(table, peerInfo, peerNodeId)
          = IF T # {} THEN Min(T) ELSE 0
  BY DEF GetUnsecureSession, SelectInSeq
<1>2. T \in SUBSET Nat /\ 0 \notin T
  OBVIOUS
<1>3. T # {} => Min(T) \in T
  BY <1>2, MinIsLeast
<1> QED
  BY <1>1, <1>2, <1>3

\* getExchange() finds an exchange that the message matches, if any.
LEMMA FindsExchange ==
    ASSUME NEW table \in Seq(Exchange), NEW s, NEW m
    PROVE  LET k == GetExchange(table, s, m) IN
           /\ k = 0 => \A j \in 1..Len(table) : ~Match(table[j], s, m)
           /\ k # 0 => k \in 1..Len(table) /\ Match(table[k], s, m)
<1> DEFINE T == {j \in 1..Len(table) : Match(table[j], s, m)}
<1>1. GetExchange(table, s, m) = IF T # {} THEN Min(T) ELSE 0
  BY DEF GetExchange, SelectInSeq
<1>2. T \in SUBSET Nat /\ 0 \notin T
  OBVIOUS
<1>3. T # {} => Min(T) \in T
  BY <1>2, MinIsLeast
<1> QED
  BY <1>1, <1>2, <1>3

-----------------------------------------------------------------------------
(* Steps in which every process goes on *)

\* The tables only grow, and what identifies a session or an exchange stays.
Kept ==
    /\ epoch' = epoch /\ port' = port
    /\ fresh' \in Nat \ {0} /\ fresh <= fresh'
    /\ \A n \in Nodes : \A k \in 1..Len(sessions[n]) :
           /\ k \in 1..Len(sessions'[n])
           /\ sessions'[n][k].peerInfo = sessions[n][k].peerInfo
           /\ sessions'[n][k].peerNodeId = sessions[n][k].peerNodeId
           /\ sessions'[n][k].transport = sessions[n][k].transport
    /\ \A n \in Nodes : \A i \in 1..Len(exchanges[n]) :
           /\ i \in 1..Len(exchanges'[n])
           /\ exchanges'[n][i].id = exchanges[n][i].id
           /\ exchanges'[n][i].session = exchanges[n][i].session
           /\ (exchanges'[n][i].isInitiator <=> exchanges[n][i].isInitiator)
           /\ exchanges'[n][i].peer = exchanges[n][i].peer

\* An exchange keeps its link.
LEMMA KeptLink ==
    ASSUME Kept, OwnSession, NEW n \in Nodes, NEW i \in 1..Len(exchanges[n])
    PROVE  ExchangeLink(n, i)' = ExchangeLink(n, i)
<1>1. exchanges[n][i].session \in 1..Len(sessions[n])
  BY DEF OwnSession
<1>2. /\ UidOf(n, i)' = UidOf(n, i) /\ ClientAddr(n)' = ClientAddr(n)
      /\ ServerAddr(n)' = ServerAddr(n)
  BY DEF Kept, UidOf, ClientAddr, ServerAddr
<1>3. /\ exchanges'[n][i].id = exchanges[n][i].id
      /\ exchanges'[n][i].session = exchanges[n][i].session
      /\ exchanges'[n][i].isInitiator <=> exchanges[n][i].isInitiator
      /\ exchanges'[n][i].peer = exchanges[n][i].peer
  BY DEF Kept
<1>4. LET k == exchanges[n][i].session IN
      /\ sessions'[n][k].peerInfo = sessions[n][k].peerInfo
      /\ sessions'[n][k].peerNodeId = sessions[n][k].peerNodeId
  BY <1>1 DEF Kept
<1>5. CASE exchanges[n][i].isInitiator
  BY <1>2, <1>3, <1>4, <1>5 DEF ExchangeLink
<1>6. CASE ~exchanges[n][i].isInitiator
  BY <1>2, <1>3, <1>4, <1>6 DEF ExchangeLink
<1> QED
  BY <1>5, <1>6

\* What is true of a link stays true.
LEMMA KeptLinkOK ==
    ASSUME MessageInv, Kept, NEW l, LinkOK(l)
    PROVE  LinkOK(l)'
<1>1. l.origin \in Uid /\ l.origin.node \in Nodes /\ fresh \in Nat
  BY DEF LinkOK, Uid, MessageInv, TypeOK
<1>2. l.node \in Nat /\ 0 < l.node /\ l.node < fresh'
  BY <1>1 DEF LinkOK, Kept
<1>3. l.origin.epoch <= epoch'[l.origin.node]
  BY DEF LinkOK, Kept
<1>4. l.origin.epoch = epoch'[l.origin.node] =>
         /\ l.origin.idx \in 1..Len(exchanges'[l.origin.node])
         /\ exchanges'[l.origin.node][l.origin.idx].isInitiator
  BY <1>1 DEF LinkOK, Kept
<1> QED
  BY <1>2, <1>3, <1>4 DEF LinkOK

\* Without a new link, the links stay as they are.
LEMMA KeptLinks ==
    ASSUME MessageInv, Kept, \A l : IsLink(l)' => IsLink(l)
    PROVE  LinksOK' /\ LinksUnique'
<1>1. LinksUnique'
  BY DEF MessageInv, LinksUnique
<1>2. ASSUME NEW l, IsLink(l)'
      PROVE  LinkOK(l)'
  BY <1>2, KeptLinkOK DEF MessageInv, LinksOK
<1> QED
  BY <1>1, <1>2 DEF LinksOK

\* Without a new exchange, each keeps its own session.
LEMMA KeptOwnSession ==
    ASSUME Kept, OwnSession,
           \A o \in Nodes : Len(exchanges'[o]) = Len(exchanges[o])
    PROVE  OwnSession'
<1> SUFFICES ASSUME NEW o \in Nodes, NEW j \in 1..Len(exchanges'[o])
             PROVE  /\ exchanges'[o][j].session \in 1..Len(sessions'[o])
                    /\ sessions'[o][exchanges'[o][j].session].transport =
                          IF exchanges'[o][j].isInitiator THEN "client" ELSE "server"
                    /\ \A h \in 1..Len(exchanges'[o]) :
                          exchanges'[o][h].session = exchanges'[o][j].session
                              => j = h
  BY DEF OwnSession
<1>0. j \in 1..Len(exchanges[o]) /\ Len(exchanges'[o]) = Len(exchanges[o])
  OBVIOUS
<1>1. /\ exchanges[o][j].session \in 1..Len(sessions[o])
      /\ sessions[o][exchanges[o][j].session].transport =
            IF exchanges[o][j].isInitiator THEN "client" ELSE "server"
      /\ \A h \in 1..Len(exchanges[o]) :
            exchanges[o][h].session = exchanges[o][j].session => j = h
  BY <1>0 DEF OwnSession
<1>2. /\ exchanges'[o][j].session = exchanges[o][j].session
      /\ exchanges'[o][j].isInitiator <=> exchanges[o][j].isInitiator
      /\ \A h \in 1..Len(exchanges[o]) :
            exchanges'[o][h].session = exchanges[o][h].session
  BY <1>0 DEF Kept
<1>3. /\ sessions'[o][exchanges[o][j].session].transport
            = sessions[o][exchanges[o][j].session].transport
      /\ exchanges[o][j].session \in 1..Len(sessions'[o])
  BY <1>1 DEF Kept
<1>4. \A h \in 1..Len(exchanges'[o]) :
          exchanges'[o][h].session = exchanges'[o][j].session => j = h
  BY <1>0, <1>1, <1>2
<1> QED
  BY <1>1, <1>2, <1>3, <1>4

\* What is true of an earlier dispatch stays true.
LEMMA KeptGot ==
    ASSUME MessageInv, Kept, NEW g \in got
    PROVE  /\ g.at.epoch <= epoch'[g.at.node]
           /\ g.at.epoch = epoch'[g.at.node] =>
                  /\ g.at.idx \in 1..Len(exchanges'[g.at.node])
                  /\ g.msg.iflag =>
                       /\ ~exchanges'[g.at.node][g.at.idx].isInitiator
                       /\ exchanges'[g.at.node][g.at.idx].peer = g.msg.src
<1>1. g.at \in Uid /\ g.at.node \in Nodes
  BY DEF MessageInv, TypeOK, Uid
<1>2. /\ epoch' = epoch
      /\ g.at.epoch <= epoch[g.at.node]
      /\ g.at.epoch = epoch[g.at.node] =>
             /\ g.at.idx \in 1..Len(exchanges[g.at.node])
             /\ g.msg.iflag =>
                  /\ ~exchanges[g.at.node][g.at.idx].isInitiator
                  /\ exchanges[g.at.node][g.at.idx].peer = g.msg.src
  BY DEF MessageInv, GotOK, Kept
<1>3. ASSUME NEW o \in Nodes, NEW i \in 1..Len(exchanges[o])
      PROVE  /\ i \in 1..Len(exchanges'[o])
             /\ exchanges'[o][i].isInitiator <=> exchanges[o][i].isInitiator
             /\ exchanges'[o][i].peer = exchanges[o][i].peer
  BY DEF Kept
<1> QED
  BY <1>1, <1>2, <1>3

-----------------------------------------------------------------------------
(* Sending *)

\* The types of an exchange's, a session's and a message's fields.
LEMMA FieldTypes ==
    /\ \A x \in Exchange :
           /\ x.id \in Nat /\ x.session \in Nat \ {0} /\ x.isInitiator \in BOOLEAN
           /\ x.ackCounter \in Counter /\ x.peer \in Uid \cup {None}
    /\ \A s \in Session :
           /\ s.peerInfo \in Address /\ s.peerNodeId \in Nat /\ s.base \in Nat
           /\ s.sent \in Nat /\ s.transport \in {"client", "server"}
    /\ \A m \in Message :
           /\ m.from \in Address /\ m.to \in Address /\ m.iflag \in BOOLEAN
           /\ m.request \in BOOLEAN /\ m.exchangeId \in Nat /\ m.nodeId \in Nat
           /\ m.counter \in Counter /\ m.src \in Uid
BY DEF Exchange, Session, Message

\* A datagram is a message.
LEMMA DatagramType ==
    ASSUME TypeOK, NEW n \in Nodes, NEW i \in Nat \ {0}, NEW x \in Exchange,
           NEW s \in Session, NEW isRequest \in BOOLEAN
    PROVE  Datagram(n, i, x, s, isRequest) \in Message
<1> DEFINE from == IF s.transport = "client" THEN ClientAddr(n) ELSE ServerAddr(n)
           ack == IF x.isAck THEN x.ackCounter ELSE NoAck
           counter == <<s.base, s.sent>>
<1>1. from \in Address
  BY DEF TypeOK, ClientAddr, ServerAddr, Address
<1>2. ack \in Counter /\ counter \in Counter
  BY FieldTypes DEF NoAck, Counter
<1>3. UidOf(n, i) \in Uid
  BY DEF TypeOK, UidOf, Uid
<1>4. Datagram(n, i, x, s, isRequest)
        = [from |-> from, to |-> s.peerInfo, iflag |-> x.isInitiator,
           request |-> isRequest, exchangeId |-> x.id, nodeId |-> s.peerNodeId,
           counter |-> counter, ack |-> ack, src |-> UidOf(n, i),
           peer |-> x.peer]
  BY DEF Datagram
<1> HIDE DEF from, ack, counter
<1> QED
  BY <1>1, <1>2, <1>3, <1>4, FieldTypes DEF Message

\* An update of one exchange, or of one session, that its link does not show.
LEMMA SentSession ==
    ASSUME NEW s \in Session
    PROVE  LET t == [s EXCEPT !.sent = @ + 1] IN
           /\ t \in Session
           /\ t.peerInfo = s.peerInfo /\ t.peerNodeId = s.peerNodeId
           /\ t.transport = s.transport
BY DEF Session

\* The same for an exchange that turns acknowledgements on.
LEMMA AckingExchange ==
    ASSUME NEW x \in Exchange
    PROVE  LET t == [x EXCEPT !.isAck = TRUE] IN
           /\ t \in Exchange
           /\ t.id = x.id /\ t.session = x.session
           /\ (t.isInitiator <=> x.isInitiator) /\ t.peer = x.peer
           /\ t.ackCounter = x.ackCounter
BY DEF Exchange

\* Exchange.sendMessage() on an exchange that the protocol listens to.
LEMMA SendStep ==
    ASSUME MessageInv, NEW n \in Nodes, NEW i \in 1..Len(exchanges[n]), Send(n, i)
    PROVE  MessageInv'
<1> DEFINE x == exchanges[n][i]
           k == x.session
           s == sessions[n][k]
           y == [x EXCEPT !.isAck = TRUE]
           t == [s EXCEPT !.sent = @ + 1]
           d == Datagram(n, i, y, s, FALSE)
<1>1. /\ exchanges \in [Nodes -> Seq(Exchange)]
      /\ sessions \in [Nodes -> Seq(Session)]
      /\ x \in Exchange /\ i \in Nat \ {0}
  BY DEF MessageInv, TypeOK
<1>2. /\ k \in 1..Len(sessions[n])
      /\ s.transport = IF x.isInitiator THEN "client" ELSE "server"
  BY DEF MessageInv, OwnSession
<1>3. s \in Session
  BY <1>1, <1>2
<1>4. /\ y \in Exchange /\ y.id = x.id /\ y.session = x.session
      /\ (y.isInitiator <=> x.isInitiator) /\ y.peer = x.peer
      /\ y.ackCounter = x.ackCounter
  BY <1>1, AckingExchange
<1>5. /\ t \in Session /\ t.peerInfo = s.peerInfo
      /\ t.peerNodeId = s.peerNodeId /\ t.transport = s.transport
  BY <1>3, SentSession
<1>6. /\ exchanges' = [exchanges EXCEPT ![n] = [exchanges[n] EXCEPT ![i] = y]]
      /\ sessions' = [sessions EXCEPT ![n] = [sessions[n] EXCEPT ![k] = t]]
      /\ net' = net \cup {d}
      /\ port' = port /\ nextEx' = nextEx /\ fresh' = fresh /\ epoch' = epoch
      /\ got' = got /\ dropped' = dropped
      /\ Use("send") /\ x.ackCounter # NoAck
  BY <1>1, <1>2, <1>4 DEF Send
<1>7. d \in Message
  BY <1>1, <1>3, <1>4, DatagramType DEF MessageInv
<1>8. /\ d.ack = IF y.isAck THEN y.ackCounter ELSE NoAck
      /\ d.src = UidOf(n, i) /\ (d.iflag <=> y.isInitiator) /\ d.peer = y.peer
      /\ d.to = s.peerInfo /\ d.exchangeId = y.id /\ d.nodeId = s.peerNodeId
      /\ d.from = IF s.transport = "client" THEN ClientAddr(n) ELSE ServerAddr(n)
  <2> HIDE DEF y, s
  <2> QED
    BY DEF Datagram
<1> HIDE DEF y, t, d
<1>8a. MessageLink(d) = ExchangeLink(n, i)
  <2>1. CASE x.isInitiator
    BY <1>2, <1>4, <1>8, <2>1 DEF MessageLink, ExchangeLink
  <2>2. CASE ~x.isInitiator
    BY <1>2, <1>4, <1>8, <2>2 DEF MessageLink, ExchangeLink
  <2> QED
    BY <2>1, <2>2
<1>9. /\ exchanges' \in [Nodes -> Seq(Exchange)]
      /\ \A o \in Nodes : o # n => exchanges'[o] = exchanges[o]
      /\ Len(exchanges'[n]) = Len(exchanges[n])
      /\ \A j \in 1..Len(exchanges[n]) :
            exchanges'[n][j] = IF j = i THEN y ELSE exchanges[n][j]
  BY <1>1, <1>4, <1>6, TableUpdate
<1>10. /\ sessions' \in [Nodes -> Seq(Session)]
       /\ \A o \in Nodes : o # n => sessions'[o] = sessions[o]
       /\ Len(sessions'[n]) = Len(sessions[n])
       /\ \A j \in 1..Len(sessions[n]) :
            sessions'[n][j] = IF j = k THEN t ELSE sessions[n][j]
  BY <1>1, <1>2, <1>5, <1>6, TableUpdate
<1>11. Kept
  <2>1. fresh \in Nat \ {0}
    BY DEF MessageInv, TypeOK
  <2>2. \A o \in Nodes : \A j \in 1..Len(sessions[o]) :
           /\ j \in 1..Len(sessions'[o])
           /\ sessions'[o][j].peerInfo = sessions[o][j].peerInfo
           /\ sessions'[o][j].peerNodeId = sessions[o][j].peerNodeId
           /\ sessions'[o][j].transport = sessions[o][j].transport
    BY <1>5, <1>10
  <2>3. \A o \in Nodes : \A j \in 1..Len(exchanges[o]) :
           /\ j \in 1..Len(exchanges'[o])
           /\ exchanges'[o][j].id = exchanges[o][j].id
           /\ exchanges'[o][j].session = exchanges[o][j].session
           /\ (exchanges'[o][j].isInitiator <=> exchanges[o][j].isInitiator)
           /\ exchanges'[o][j].peer = exchanges[o][j].peer
    BY <1>4, <1>9
  <2> QED
    BY <1>6, <2>1, <2>2, <2>3 DEF Kept
<1>12. \A o \in Nodes : /\ Len(exchanges'[o]) = Len(exchanges[o])
                        /\ Len(sessions'[o]) = Len(sessions[o])
                        /\ \A j \in 1..Len(exchanges[o]) :
                              exchanges'[o][j].ackCounter = exchanges[o][j].ackCounter
  BY <1>4, <1>9, <1>10
<1>13. TypeOK'
  <2>1. used' \in [Bounded -> Nat]
    BY <1>6, UseTyped DEF MessageInv, TypeOK, Bounded
  <2> QED
    BY <1>6, <1>7, <1>9, <1>10, <2>1 DEF MessageInv, TypeOK
<1>14. LinksOK' /\ LinksUnique'
  <2>1. ASSUME NEW l, IsLink(l)' PROVE IsLink(l)
    <3>1. ASSUME NEW m \in Heard', l = MessageLink(m) PROVE IsLink(l)
      <4>1. m \in Heard \/ m = d
        BY <1>6 DEF Heard
      <4> QED
        BY <1>8a, <3>1, <4>1 DEF IsLink
    <3>2. ASSUME NEW o \in Nodes, NEW j \in 1..Len(exchanges'[o]),
                 l = ExchangeLink(o, j)'
          PROVE  IsLink(l)
      <4>1. j \in 1..Len(exchanges[o])
        BY <1>12
      <4>2. l = ExchangeLink(o, j)
        BY <1>11, <3>2, <4>1, KeptLink DEF MessageInv
      <4> QED
        BY <4>1, <4>2 DEF IsLink
    <3> QED
      BY <2>1, <3>1, <3>2 DEF IsLink
  <2> QED
    BY <1>11, <2>1, KeptLinks
<1>15. SessionsDistinct'
  BY <1>6, <1>11, <1>12 DEF MessageInv, SessionsDistinct, Kept
<1>15a. OwnSession'
  BY <1>11, <1>12, KeptOwnSession DEF MessageInv
<1>16. GotOK'
  BY <1>6, <1>11, KeptGot DEF GotOK
<1>17. AcksOK'
  BY <1>6, <1>11, <1>12 DEF MessageInv, AcksOK, Kept, Received, UidOf
<1>18. /\ RepliesReachRequester' /\ RequestsSeparated' /\ NoReplyDropped'
       /\ DroppedOK'
  BY <1>6 DEF MessageInv, RepliesReachRequester, RequestsSeparated, NoReplyDropped,
              DroppedOK
<1>19. AckNamesReceived'
  <2>1. Received(UidOf(n, i), x.ackCounter, x.isInitiator, x.peer)
    BY <1>6 DEF MessageInv, AcksOK
  <2> SUFFICES ASSUME NEW m \in net', m.ack # NoAck
               PROVE  \E g \in got :
                        /\ g.at = m.src
                        /\ g.msg.counter = m.ack
                        /\ IF m.iflag THEN g.msg.peer = m.src ELSE g.msg.src = m.peer
    BY <1>6 DEF AckNamesReceived
  <2>2. CASE m \in net
    BY <2>2 DEF MessageInv, AckNamesReceived
  <2>3. CASE m = d
    BY <1>4, <1>8, <2>1, <2>3 DEF Received
  <2> QED
    BY <1>6, <2>2, <2>3
<1> QED
  BY <1>13, <1>14, <1>15, <1>15a, <1>16, <1>17, <1>18, <1>19
     DEF MessageInv

\* doPase(): a new exchange on a new session, with a new link.
LEMMA OpenStep ==
    ASSUME MessageInv, NEW n \in Nodes, NEW peer \in Nodes, Open(n, peer)
    PROVE  MessageInv'
<1>i. PICK I : I = Len(exchanges[n]) + 1
  OBVIOUS
<1>k. PICK K : K = Len(sessions[n]) + 1
  OBVIOUS
<1>l. PICK new : new = Link(UidOf(n, I), nextEx[n], fresh, ClientAddr(n),
                            ServerAddr(peer))
  OBVIOUS
<1> DEFINE x == [id |-> nextEx[n], session |-> K, isInitiator |-> TRUE,
                 isAck |-> FALSE, ackCounter |-> NoAck, listener |-> TRUE,
                 peer |-> None]
           s == [peerInfo |-> ServerAddr(peer), peerNodeId |-> fresh,
                 base |-> fresh + 1, sent |-> 0, transport |-> "client"]
           t == [s EXCEPT !.sent = 1]
           d == Datagram(n, I, x, s, TRUE)
<1>1. /\ exchanges \in [Nodes -> Seq(Exchange)]
      /\ sessions \in [Nodes -> Seq(Session)]
      /\ nextEx \in [Nodes -> Nat] /\ fresh \in Nat \ {0}
      /\ port \in [Nodes -> Ports] /\ epoch \in [Nodes -> Nat]
  BY DEF MessageInv, TypeOK
<1>2. /\ Len(exchanges[n]) \in Nat /\ Len(sessions[n]) \in Nat
      /\ I = Len(exchanges[n]) + 1 /\ K = Len(sessions[n]) + 1
      /\ I \in Nat \ {0} /\ K \in Nat \ {0} /\ nextEx[n] \in Nat
  BY <1>1, <1>i, <1>k
<1>3. /\ exchanges' = [exchanges EXCEPT ![n] = Append(exchanges[n], x)]
      /\ sessions' = [sessions EXCEPT ![n] = Append(sessions[n], t)]
      /\ net' = net \cup {d}
      /\ nextEx' = [nextEx EXCEPT ![n] = nextEx[n] + 1]
      /\ fresh' = fresh + 2
      /\ port' = port /\ epoch' = epoch /\ got' = got /\ dropped' = dropped
      /\ Use("open")
  BY <1>1, <1>i, <1>k DEF Open
<1>4. /\ x \in Exchange /\ x.id = nextEx[n] /\ x.session = K /\ x.isInitiator
      /\ x.ackCounter = NoAck /\ ~x.isAck
  <2>1. NoAck \in Counter
    BY DEF NoAck, Counter
  <2> QED
    BY <1>2, <2>1 DEF Exchange
<1>5. ServerAddr(peer) \in Address /\ ServerAddr(peer).port = "server"
  BY DEF ServerAddr, Address
<1>6. /\ s \in Session /\ s.peerInfo = ServerAddr(peer) /\ s.peerNodeId = fresh
      /\ s.transport = "client"
      /\ t \in Session /\ t.peerInfo = ServerAddr(peer) /\ t.peerNodeId = fresh
      /\ t.transport = "client"
  <2>1. /\ s \in Session /\ s.peerInfo = ServerAddr(peer) /\ s.peerNodeId = fresh
        /\ s.transport = "client"
    BY <1>1, <1>5 DEF Session
  <2> HIDE DEF s
  <2> QED
    BY <2>1 DEF Session
<1>7. d \in Message
  <2> HIDE DEF x, s
  <2> QED
    BY <1>2, <1>4, <1>6, DatagramType DEF MessageInv
<1>8. /\ d.ack = NoAck
      /\ d.src = UidOf(n, I) /\ d.iflag
      /\ d.to = ServerAddr(peer) /\ d.exchangeId = nextEx[n] /\ d.nodeId = fresh
      /\ d.from = ClientAddr(n)
  <2> HIDE DEF x, s
  <2> QED
    BY <1>4, <1>6 DEF Datagram
<1> HIDE DEF x, s, t, d
<1>9. /\ exchanges' \in [Nodes -> Seq(Exchange)]
      /\ Len(exchanges'[n]) = I /\ exchanges'[n][I] = x
      /\ \A o \in Nodes : \A j \in 1..Len(exchanges[o]) :
            j \in 1..Len(exchanges'[o]) /\ exchanges'[o][j] = exchanges[o][j]
      /\ \A o \in Nodes : \A j \in 1..Len(exchanges'[o]) : j \notin 1..Len(exchanges[o]) =>
            o = n /\ j = I /\ exchanges'[o][j] = x
  <2>1. /\ exchanges' = [exchanges EXCEPT ![n] = Append(exchanges[n], x)]
        /\ x \in Exchange
    BY <1>3, <1>4
  <2> QED
    BY <1>1, <1>i, <2>1, TableAppend
<1>10. /\ sessions' \in [Nodes -> Seq(Session)]
       /\ Len(sessions'[n]) = K /\ sessions'[n][K] = t
       /\ \A o \in Nodes : \A j \in 1..Len(sessions[o]) :
             j \in 1..Len(sessions'[o]) /\ sessions'[o][j] = sessions[o][j]
       /\ \A o \in Nodes : \A j \in 1..Len(sessions'[o]) : j \notin 1..Len(sessions[o]) =>
             o = n /\ j = K /\ sessions'[o][j] = t
  <2>1. sessions' = [sessions EXCEPT ![n] = Append(sessions[n], t)] /\ t \in Session
    BY <1>3, <1>6
  <2> QED
    BY <1>1, <1>k, <2>1, TableAppend
<1>11. Kept
  <2>1. fresh' \in Nat \ {0} /\ fresh <= fresh'
    BY <1>1, <1>3
  <2> QED
    BY <1>3, <1>9, <1>10, <2>1 DEF Kept
<1>12. TypeOK'
  <2>1. used' \in [Bounded -> Nat]
    BY <1>3, UseTyped DEF MessageInv, TypeOK, Bounded
  <2>2. nextEx' \in [Nodes -> Nat] /\ fresh' \in Nat \ {0}
    BY <1>1, <1>2, <1>3
  <2> QED
    BY <1>3, <1>7, <1>9, <1>10, <2>1, <2>2 DEF MessageInv, TypeOK
<1>13. UidOf(n, I)' = UidOf(n, I) /\ ClientAddr(n)' = ClientAddr(n)
  BY <1>3 DEF UidOf, ClientAddr
<1>14. ExchangeLink(n, I)' = new
  BY <1>4, <1>6, <1>9, <1>10, <1>13, <1>l DEF ExchangeLink
<1>15. MessageLink(d) = new
  BY <1>8, <1>l DEF MessageLink
<1>16. ASSUME NEW l, IsLink(l)'
       PROVE  IsLink(l) \/ l = new
  <2>1. ASSUME NEW m \in Heard', l = MessageLink(m) PROVE IsLink(l) \/ l = new
    <3>1. m \in Heard \/ m = d
      BY <1>3 DEF Heard
    <3> QED
      BY <1>15, <2>1, <3>1 DEF IsLink
  <2>2. ASSUME NEW o \in Nodes, NEW j \in 1..Len(exchanges'[o]),
               l = ExchangeLink(o, j)'
        PROVE  IsLink(l) \/ l = new
    <3>1. CASE j \in 1..Len(exchanges[o])
      <4>1. l = ExchangeLink(o, j)
        BY <1>11, <2>2, <3>1, KeptLink DEF MessageInv
      <4> QED
        BY <3>1, <4>1 DEF IsLink
    <3>2. CASE j \notin 1..Len(exchanges[o])
      <4>1. o = n /\ j = I
        BY <1>2, <1>9, <3>2
      <4> QED
        BY <1>14, <2>2, <4>1
    <3> QED
      BY <3>1, <3>2
  <2> QED
    BY <1>16, <2>1, <2>2 DEF IsLink
<1>17. /\ new.origin = UidOf(n, I) /\ new.node = fresh
       /\ new.client = ClientAddr(n) /\ new.server = ServerAddr(peer)
       /\ new.origin.node = n /\ new.origin.epoch = epoch[n] /\ new.origin.idx = I
       /\ new.origin \in Uid
  BY <1>1, <1>2, <1>l DEF Link, UidOf, Uid
<1>18. LinksOK'
  <2>1. LinkOK(new)'
    <3>1. ClientAddr(n).node = n /\ ClientAddr(n).port \in Ports
      BY <1>1 DEF ClientAddr
    <3>2. fresh \in Nat /\ 0 < fresh /\ fresh < fresh'
      BY <1>1, <1>3
    <3>3. I \in 1..Len(exchanges'[n]) /\ exchanges'[n][I].isInitiator
      BY <1>2, <1>4, <1>9
    <3>4. epoch'[n] = epoch[n] /\ epoch[n] \in Nat
      BY <1>1, <1>3
    <3> QED
      BY <1>5, <1>17, <3>1, <3>2, <3>3, <3>4 DEF LinkOK
  <2> QED
    BY <1>11, <1>16, <2>1, KeptLinkOK DEF MessageInv, LinksOK
<1>19. LinksUnique'
  <2>1. ASSUME NEW l, IsLink(l) PROVE l.origin # new.origin /\ l.node # new.node
    <3>1. LinkOK(l)
      BY <2>1 DEF MessageInv, LinksOK
    <3> QED
      BY <1>1, <1>2, <1>17, <3>1 DEF LinkOK
  <2> QED
    BY <1>16, <2>1 DEF MessageInv, LinksUnique
<1>20. SessionsDistinct'
  <2> SUFFICES ASSUME NEW o \in Nodes, NEW j \in 1..Len(sessions'[o]),
                      NEW k \in 1..Len(sessions'[o])
               PROVE  /\ sessions'[o][j].peerNodeId < fresh'
                      /\ sessions'[o][j].transport = "client" =>
                            sessions'[o][j].peerInfo.port = "server"
                      /\ (/\ sessions'[o][j].peerNodeId = sessions'[o][k].peerNodeId
                          /\ sessions'[o][j].peerInfo = sessions'[o][k].peerInfo
                          /\ sessions'[o][j].peerNodeId # NODE_ID_ANY) => j = k
    BY DEF SessionsDistinct
  <2>1. \A h \in 1..Len(sessions[o]) : /\ sessions'[o][h] = sessions[o][h]
                                       /\ sessions[o][h].peerNodeId < fresh
                                       /\ sessions[o][h].peerNodeId \in Nat
    <3>1. \A h \in 1..Len(sessions[o]) : sessions[o][h] \in Session
      BY <1>1
    <3>2. \A h \in 1..Len(sessions[o]) : sessions[o][h].peerNodeId < fresh
      BY DEF MessageInv, SessionsDistinct
    <3> QED
      BY <1>10, <3>1, <3>2, FieldTypes
  <2>2. \A h \in 1..Len(sessions'[o]) :
           h \notin 1..Len(sessions[o]) => /\ o = n /\ h = K
                                           /\ sessions'[o][h].peerNodeId = fresh
    BY <1>2, <1>6, <1>10
  <2>3. sessions'[o][j].peerNodeId < fresh'
    <3>1. CASE j \in 1..Len(sessions[o])
      <4>1. /\ sessions'[o][j].peerNodeId < fresh
            /\ sessions'[o][j].peerNodeId \in Nat
        BY <2>1, <3>1
      <4>2. fresh \in Nat /\ fresh' = fresh + 2
        BY <1>1, <1>3
      <4> QED
        BY <4>1, <4>2
    <3>2. CASE j \notin 1..Len(sessions[o])
      BY <1>1, <1>3, <2>2, <3>2
    <3> QED
      BY <3>1, <3>2
  <2>3a. sessions'[o][j].transport = "client" =>
            sessions'[o][j].peerInfo.port = "server"
    <3>1. CASE j \in 1..Len(sessions[o])
      BY <2>1, <3>1 DEF MessageInv, SessionsDistinct
    <3>2. CASE j \notin 1..Len(sessions[o])
      BY <1>5, <1>6, <1>10, <3>2
    <3> QED
      BY <3>1, <3>2
  <2>4. CASE j \in 1..Len(sessions[o]) /\ k \in 1..Len(sessions[o])
    <3>1. sessions'[o][j] = sessions[o][j] /\ sessions'[o][k] = sessions[o][k]
      BY <2>1, <2>4
    <3> QED
      BY <2>3, <2>3a, <2>4, <3>1 DEF MessageInv, SessionsDistinct
  <2>5. CASE j \notin 1..Len(sessions[o]) \/ k \notin 1..Len(sessions[o])
    <3>1. ASSUME NEW h \in 1..Len(sessions'[o]), h \in 1..Len(sessions[o])
          PROVE  sessions'[o][h].peerNodeId # fresh
      <4>1. sessions'[o][h].peerNodeId < fresh /\ sessions'[o][h].peerNodeId \in Nat
        BY <2>1, <3>1
      <4>2. fresh \in Nat
        BY <1>1
      <4> QED
        BY ONLY <4>1, <4>2
    <3> QED
      BY <2>2, <2>3, <2>3a, <2>5, <3>1
  <2> QED
    BY <2>4, <2>5
<1>21. OwnSession'
  <2> SUFFICES ASSUME NEW o \in Nodes, NEW i \in 1..Len(exchanges'[o])
               PROVE  /\ exchanges'[o][i].session \in 1..Len(sessions'[o])
                      /\ sessions'[o][exchanges'[o][i].session].transport =
                            IF exchanges'[o][i].isInitiator THEN "client" ELSE "server"
                      /\ \A j \in 1..Len(exchanges'[o]) :
                            exchanges'[o][j].session = exchanges'[o][i].session
                                => i = j
    BY DEF OwnSession
  <2>1. \A j \in 1..Len(exchanges[o]) :
           /\ exchanges'[o][j] = exchanges[o][j]
           /\ exchanges[o][j].session \in 1..Len(sessions[o])
    BY <1>9 DEF MessageInv, OwnSession
  <2>2. \A j \in 1..Len(exchanges'[o]) : j \notin 1..Len(exchanges[o]) =>
           o = n /\ j = I /\ exchanges'[o][j] = x
    BY <1>9
  <2>3. CASE i \in 1..Len(exchanges[o])
    <3> DEFINE k == exchanges[o][i].session
    <3>1. /\ k \in 1..Len(sessions[o])
          /\ sessions[o][k].transport =
               IF exchanges[o][i].isInitiator THEN "client" ELSE "server"
          /\ \A j \in 1..Len(exchanges[o]) : exchanges[o][j].session = k => i = j
      BY <2>3 DEF MessageInv, OwnSession
    <3>2. k \in 1..Len(sessions'[o]) /\ sessions'[o][k] = sessions[o][k]
      BY <1>2, <1>10, <3>1
    <3>3. ASSUME NEW j \in 1..Len(exchanges'[o]), exchanges'[o][j].session = k
          PROVE  i = j
      <4>1. CASE j \in 1..Len(exchanges[o])
        BY <2>1, <3>1, <3>3, <4>1
      <4>2. CASE j \notin 1..Len(exchanges[o])
        <5>1. o = n /\ k = K
          BY <1>4, <2>2, <3>3, <4>2
        <5> QED
          BY <1>2, <3>1, <5>1
      <4> QED
        BY <4>1, <4>2
    <3> HIDE DEF k
    <3>4. exchanges'[o][i] = exchanges[o][i] /\ exchanges'[o][i].session = k
      BY <2>1, <2>3 DEF k
    <3> QED
      BY <3>1, <3>2, <3>3, <3>4
  <2>4. CASE i \notin 1..Len(exchanges[o])
    <3>1. o = n /\ i = I /\ exchanges'[o][i] = x
      BY <2>2, <2>4
    <3>2. K \in 1..Len(sessions'[n]) /\ K \notin 1..Len(sessions[n])
      BY <1>2, <1>10
    <3>3. \A j \in 1..Len(exchanges[o]) : exchanges'[o][j].session # K
      BY <2>1, <3>1, <3>2
    <3>4. \A j \in 1..Len(exchanges'[o]) : exchanges'[o][j].session = K => j = i
      BY <2>2, <3>1, <3>3
    <3> QED
      BY <1>4, <1>6, <1>10, <3>1, <3>2, <3>4
  <2> QED
    BY <2>3, <2>4
<1>22. GotOK'
  BY <1>3, <1>11, KeptGot DEF GotOK
<1>23. AcksOK'
  <2> SUFFICES ASSUME NEW o \in Nodes, NEW i \in 1..Len(exchanges'[o]),
                      exchanges'[o][i].ackCounter # NoAck
               PROVE  Received(UidOf(o, i), exchanges'[o][i].ackCounter,
                               exchanges'[o][i].isInitiator,
                               exchanges'[o][i].peer)
    BY <1>3 DEF AcksOK, Received, UidOf
  <2>1. i \in 1..Len(exchanges[o]) /\ exchanges'[o][i] = exchanges[o][i]
    BY <1>2, <1>4, <1>9
  <2> QED
    BY <2>1 DEF MessageInv, AcksOK
<1>24. /\ RepliesReachRequester' /\ RequestsSeparated' /\ NoReplyDropped'
       /\ DroppedOK'
  BY <1>3 DEF MessageInv, RepliesReachRequester, RequestsSeparated, NoReplyDropped,
              DroppedOK
<1>25. AckNamesReceived'
  BY <1>3, <1>8 DEF MessageInv, AckNamesReceived
<1> QED
  BY <1>12, <1>18, <1>19, <1>20, <1>21, <1>22, <1>23, <1>24, <1>25
     DEF MessageInv

-----------------------------------------------------------------------------
(* Receiving *)

\* The session of a message: the one that is found, or a new one at the end.
Place(n, m) ==
    LET found == GetUnsecureSession(sessions[n], m.from, m.nodeId)
    IN  IF found # 0 THEN found ELSE Len(sessions[n]) + 1

\* Exchange.match(): one end of an exchange answers the other.
LEMMA MatchRoles ==
    ASSUME NEW x \in Exchange, NEW s, NEW m \in Message
    PROVE  Match(x, s, m) <=> /\ m.exchangeId = x.id
                              /\ x.isInitiator <=> ~m.iflag
                              /\ s = x.session
<1>1. m.iflag \in BOOLEAN /\ x.isInitiator \in BOOLEAN
  BY FieldTypes
<1> QED
  BY <1>1 DEF Match

\* The link of a message in its fields.
LEMMA LinkFields ==
    ASSUME MessageInv, NEW m \in Heard
    PROVE  /\ m \in Message
           /\ IsLink(MessageLink(m)) /\ LinkOK(MessageLink(m))
           /\ MessageLink(m).id = m.exchangeId
           /\ MessageLink(m).node = m.nodeId
           /\ m.iflag => /\ MessageLink(m).origin = m.src
                         /\ MessageLink(m).client = m.from
                         /\ MessageLink(m).server = m.to
           /\ ~m.iflag => /\ MessageLink(m).origin = m.peer
                          /\ MessageLink(m).client = m.to
                          /\ MessageLink(m).server = m.from
<1>1. m \in Message
  BY DEF Heard, MessageInv, TypeOK
<1>2. IsLink(MessageLink(m))
  BY DEF IsLink
<1>3. LinkOK(MessageLink(m))
  BY <1>2 DEF MessageInv, LinksOK
<1>4. CASE m.iflag
  BY <1>1, <1>2, <1>3, <1>4 DEF MessageLink, Link
<1>5. CASE ~m.iflag
  BY <1>1, <1>2, <1>3, <1>5 DEF MessageLink, Link
<1> QED
  BY <1>4, <1>5

\* The link of an exchange in its fields.
LEMMA ExchangeLinkFields ==
    ASSUME MessageInv, NEW n \in Nodes, NEW j \in 1..Len(exchanges[n])
    PROVE  LET x == exchanges[n][j]
               s == sessions[n][x.session]
               l == ExchangeLink(n, j)
           IN  /\ IsLink(l) /\ x \in Exchange
               /\ l.id = x.id /\ l.node = s.peerNodeId
               /\ x.isInitiator => l.origin = UidOf(n, j) /\ l.server = s.peerInfo
               /\ ~x.isInitiator => l.origin = x.peer /\ l.client = s.peerInfo
<1>1. IsLink(ExchangeLink(n, j)) /\ exchanges[n][j] \in Exchange
  BY DEF IsLink, MessageInv, TypeOK
<1>2. CASE exchanges[n][j].isInitiator
  BY <1>1, <1>2 DEF ExchangeLink, Link
<1>3. CASE ~exchanges[n][j].isInitiator
  BY <1>1, <1>3 DEF ExchangeLink, Link
<1> QED
  BY <1>2, <1>3

\* An exchange on the session of a message has the message's link.
LEMMA OnItsSession ==
    ASSUME MessageInv, NEW n \in Nodes, NEW m \in Heard,
           NEW j \in 1..Len(exchanges[n]),
           exchanges[n][j].session = Place(n, m)
    PROVE  ExchangeLink(n, j) = MessageLink(m)
<1> DEFINE k == exchanges[n][j].session
<1>1. k \in 1..Len(sessions[n]) /\ sessions[n] \in Seq(Session)
  BY DEF MessageInv, OwnSession, TypeOK
<1>2. sessions[n][k].peerNodeId = m.nodeId
  BY <1>1, FindsSession DEF Place
<1>3. ExchangeLink(n, j).node = MessageLink(m).node
  BY <1>2, LinkFields, ExchangeLinkFields
<1> QED
  BY <1>3, LinkFields, ExchangeLinkFields DEF MessageInv, LinksUnique

\* The exchange with the message's link, at the other end, is found.
LEMMA FindsItsExchange ==
    ASSUME MessageInv, NEW n \in Nodes, NEW m \in Heard,
           NEW j \in 1..Len(exchanges[n]),
           ExchangeLink(n, j) = MessageLink(m),
           exchanges[n][j].isInitiator <=> ~m.iflag
    PROVE  /\ exchanges[n][j].session = Place(n, m)
           /\ Match(exchanges[n][j], Place(n, m), m)
<1> DEFINE k == exchanges[n][j].session
           found == GetUnsecureSession(sessions[n], m.from, m.nodeId)
<1>1. k \in 1..Len(sessions[n]) /\ sessions[n] \in Seq(Session)
  BY DEF MessageInv, OwnSession, TypeOK
<1>2. sessions[n][k].peerNodeId = m.nodeId /\ sessions[n][k].peerInfo = m.from
  BY LinkFields, ExchangeLinkFields
<1>3. m.nodeId # NODE_ID_ANY
  BY LinkFields DEF LinkOK, NODE_ID_ANY
<1>4. /\ found # 0 /\ found \in 1..Len(sessions[n])
      /\ sessions[n][found].peerInfo = m.from
      /\ sessions[n][found].peerNodeId = m.nodeId
  BY <1>1, <1>2, FindsSession
<1> HIDE DEF found
<1>5. k = found
  BY <1>1, <1>2, <1>3, <1>4 DEF MessageInv, SessionsDistinct
<1>6. k = Place(n, m)
  BY <1>4, <1>5 DEF Place, found
<1>7. exchanges[n][j].id = m.exchangeId
  BY LinkFields, ExchangeLinkFields
<1> QED
  BY <1>6, <1>7, MatchRoles, LinkFields, ExchangeLinkFields

\* What onUnsecuredMessage() does to the sessions of a node.
Looked(n, m) ==
    IF GetUnsecureSession(sessions[n], m.from, m.nodeId) # 0
    THEN UNCHANGED <<sessions, fresh>>
    ELSE /\ sessions' = [sessions EXCEPT ![n] = Append(@, NewSession(m))]
         /\ fresh' = fresh + 1

\* The sessions grow by at most one, which is that of the message.
LEMMA LookedSessions ==
    ASSUME MessageInv, NEW n \in Nodes, NEW m \in Heard, NEW s,
           s = Place(n, m), Looked(n, m)
    PROVE  /\ sessions' \in [Nodes -> Seq(Session)]
           /\ fresh' \in Nat \ {0} /\ fresh <= fresh'
           /\ s \in 1..Len(sessions'[n])
           /\ m.iflag => /\ sessions'[n][s].peerInfo = m.from
                         /\ sessions'[n][s].peerNodeId = m.nodeId
                         /\ sessions'[n][s].transport = "server"
           /\ \A o \in Nodes : \A j \in 1..Len(sessions[o]) :
                 j \in 1..Len(sessions'[o]) /\ sessions'[o][j] = sessions[o][j]
           /\ SessionsDistinct'
<1> DEFINE found == GetUnsecureSession(sessions[n], m.from, m.nodeId)
<1>1. /\ sessions \in [Nodes -> Seq(Session)] /\ sessions[n] \in Seq(Session)
      /\ fresh \in Nat \ {0}
  BY DEF MessageInv, TypeOK
<1>2. /\ found = 0 => \A j \in 1..Len(sessions[n]) :
             ~(/\ sessions[n][j].peerInfo = m.from
               /\ sessions[n][j].peerNodeId = m.nodeId)
      /\ found # 0 => /\ found \in 1..Len(sessions[n])
                      /\ sessions[n][found].peerInfo = m.from
                      /\ sessions[n][found].peerNodeId = m.nodeId
  BY <1>1, FindsSession
<1>3. s = IF found # 0 THEN found ELSE Len(sessions[n]) + 1
  BY DEF Place
<1>4. IF found # 0 THEN UNCHANGED <<sessions, fresh>>
      ELSE /\ sessions' = [sessions EXCEPT ![n] = Append(sessions[n], NewSession(m))]
           /\ fresh' = fresh + 1
  BY <1>1 DEF Looked
<1>5. /\ m \in Message
      /\ m.iflag => m.from.port # "server" /\ m.nodeId < fresh
  <2>1. CASE m.iflag
    BY <2>1, LinkFields, PortsAssumption DEF LinkOK
  <2> QED
    BY <2>1, LinkFields
<1> HIDE DEF found
<1>6. CASE found # 0
  <2>1. sessions' = sessions /\ fresh' = fresh /\ s = found
    BY <1>3, <1>4, <1>6
  <2>2. SessionsDistinct'
    BY <2>1 DEF MessageInv, SessionsDistinct
  <2>3. m.iflag => sessions[n][found].transport = "server"
    <3>1. /\ sessions[n][found].transport \in {"client", "server"}
          /\ sessions[n][found].transport = "client" =>
                sessions[n][found].peerInfo.port = "server"
      BY <1>1, <1>2, <1>6, FieldTypes DEF MessageInv, SessionsDistinct
    <3> QED
      BY <1>2, <1>5, <1>6, <3>1
  <2> QED
    BY <1>1, <1>2, <1>6, <2>1, <2>2, <2>3
<1>7. CASE found = 0
  <2> DEFINE t == NewSession(m)
  <2>1. /\ sessions' = [sessions EXCEPT ![n] = Append(sessions[n], t)]
        /\ fresh' = fresh + 1 /\ s = Len(sessions[n]) + 1
    BY <1>3, <1>4, <1>7
  <2>2. /\ t \in Session /\ t.peerInfo = m.from /\ t.transport = "server"
        /\ m.iflag => t.peerNodeId = m.nodeId
        /\ ~m.iflag => t.peerNodeId = NODE_ID_ANY
    BY <1>1, <1>5, FieldTypes DEF NewSession, Session, NODE_ID_ANY
  <2> HIDE DEF t
  <2>3. /\ sessions' \in [Nodes -> Seq(Session)]
        /\ Len(sessions[n]) \in Nat
        /\ Len(sessions'[n]) = s /\ sessions'[n][s] = t
        /\ \A o \in Nodes : \A j \in 1..Len(sessions[o]) :
              j \in 1..Len(sessions'[o]) /\ sessions'[o][j] = sessions[o][j]
        /\ \A o \in Nodes : \A j \in 1..Len(sessions'[o]) :
              j \notin 1..Len(sessions[o]) =>
                  o = n /\ j = s /\ sessions'[o][j] = t
    BY <1>1, <2>1, <2>2, TableAppend
  <2>4. SessionsDistinct'
    <3> SUFFICES ASSUME NEW o \in Nodes, NEW j \in 1..Len(sessions'[o]),
                        NEW k \in 1..Len(sessions'[o])
                 PROVE  /\ sessions'[o][j].peerNodeId < fresh'
                        /\ sessions'[o][j].transport = "client" =>
                              sessions'[o][j].peerInfo.port = "server"
                        /\ (/\ sessions'[o][j].peerInfo = sessions'[o][k].peerInfo
                            /\ sessions'[o][j].peerNodeId = sessions'[o][k].peerNodeId
                            /\ sessions'[o][j].peerNodeId # NODE_ID_ANY) => j = k
      BY DEF SessionsDistinct
    <3>1. ASSUME NEW h \in 1..Len(sessions[o])
          PROVE  /\ sessions'[o][h] = sessions[o][h]
                 /\ sessions[o][h].peerNodeId \in Nat
                 /\ sessions[o][h].peerNodeId < fresh
      <4>1. sessions[o][h] \in Session
        BY <1>1
      <4> QED
        BY <2>3, <4>1, FieldTypes DEF MessageInv, SessionsDistinct
    <3>2. t.peerNodeId \in Nat /\ t.peerNodeId < fresh
      <4>1. CASE m.iflag
        BY <1>5, <2>2, <4>1, FieldTypes
      <4>2. CASE ~m.iflag
        BY <1>1, <2>2, <4>2 DEF NODE_ID_ANY
      <4> QED
        BY <4>1, <4>2
    <3>3. ASSUME NEW h \in 1..Len(sessions'[o])
          PROVE  sessions'[o][h].peerNodeId < fresh'
      <4>1. sessions'[o][h].peerNodeId \in Nat /\ sessions'[o][h].peerNodeId < fresh
        BY <2>3, <3>1, <3>2
      <4>2. fresh \in Nat /\ fresh' = fresh + 1
        BY <1>1, <2>1
      <4> QED
        BY <4>1, <4>2
    <3>4. sessions'[o][j].transport = "client" =>
              sessions'[o][j].peerInfo.port = "server"
      <4>1. CASE j \in 1..Len(sessions[o])
        BY <3>1, <4>1 DEF MessageInv, SessionsDistinct
      <4>2. CASE j \notin 1..Len(sessions[o])
        BY <2>2, <2>3, <4>2
      <4> QED
        BY <4>1, <4>2
    <3>5. CASE j \in 1..Len(sessions[o]) /\ k \in 1..Len(sessions[o])
      <4>1. sessions'[o][j] = sessions[o][j] /\ sessions'[o][k] = sessions[o][k]
        BY <3>1, <3>5
      <4> QED
        BY <3>3, <3>4, <3>5, <4>1 DEF MessageInv, SessionsDistinct
    <3>6. ASSUME NEW h \in 1..Len(sessions[n]), t.peerNodeId # NODE_ID_ANY
          PROVE  ~(/\ sessions[n][h].peerInfo = t.peerInfo
                   /\ sessions[n][h].peerNodeId = t.peerNodeId)
      BY <1>2, <1>7, <2>2, <3>6
    <3>7. CASE j \notin 1..Len(sessions[o]) /\ k \in 1..Len(sessions[o])
      <4>1. o = n /\ sessions'[o][j] = t /\ sessions'[o][k] = sessions[o][k]
        BY <2>3, <3>1, <3>7
      <4> QED
        BY <3>3, <3>4, <3>6, <3>7, <4>1
    <3>8. CASE j \in 1..Len(sessions[o]) /\ k \notin 1..Len(sessions[o])
      <4>1. o = n /\ sessions'[o][k] = t /\ sessions'[o][j] = sessions[o][j]
        BY <2>3, <3>1, <3>8
      <4> QED
        BY <3>3, <3>4, <3>6, <3>8, <4>1
    <3>9. CASE j \notin 1..Len(sessions[o]) /\ k \notin 1..Len(sessions[o])
      BY <2>3, <3>3, <3>4, <3>9
    <3> QED
      BY <3>5, <3>7, <3>8, <3>9
  <2>5. fresh' \in Nat \ {0} /\ fresh <= fresh'
    BY <1>1, <2>1
  <2>6. s \in 1..Len(sessions'[n])
    BY <2>1, <2>3
  <2> QED
    BY <2>2, <2>3, <2>4, <2>5, <2>6
<1> QED
  BY <1>6, <1>7

\* Two messages of one exchange go to one exchange of a running process.
LEMMA SameSource ==
    ASSUME MessageInv, NEW n \in Nodes, NEW m \in Heard, m.iflag,
           NEW h \in got, h.msg.iflag, h.msg.src = m.src, h.at.node = n,
           h.at.epoch = epoch[n]
    PROVE  /\ h.at.idx \in 1..Len(exchanges[n])
           /\ exchanges[n][h.at.idx].session = Place(n, m)
           /\ Match(exchanges[n][h.at.idx], Place(n, m), m)
           /\ h.at = UidOf(n, h.at.idx)
<1> DEFINE j == h.at.idx
<1>1. /\ j \in 1..Len(exchanges[n])
      /\ ~exchanges[n][j].isInitiator /\ exchanges[n][j].peer = m.src
  BY DEF MessageInv, GotOK
<1>2. h.at \in Uid
  BY DEF MessageInv, TypeOK
<1>3. h.at = UidOf(n, j)
  BY <1>2 DEF Uid, UidOf
<1> HIDE DEF j
<1>4. ExchangeLink(n, j).origin = MessageLink(m).origin
  BY <1>1, LinkFields, ExchangeLinkFields
<1>5. ExchangeLink(n, j) = MessageLink(m)
  BY <1>1, <1>4, LinkFields, ExchangeLinkFields DEF MessageInv, LinksUnique
<1>6. exchanges[n][j].session = Place(n, m) /\ Match(exchanges[n][j], Place(n, m), m)
  BY <1>1, <1>5, FindsItsExchange
<1> QED
  BY <1>1, <1>3, <1>6 DEF j

\* What receiving a message does besides handing it on.
Arrival(n, m) ==
    /\ m.to \in {ServerAddr(n), ClientAddr(n)}
    /\ net' \subseteq net
    /\ used' \in [Bounded -> Nat]
    /\ Looked(n, m)
    /\ UNCHANGED <<port, nextEx, epoch>>

\* The exchange with a new counter to acknowledge.
LEMMA AckedExchange ==
    ASSUME NEW x \in Exchange, NEW c \in Counter
    PROVE  LET t == [x EXCEPT !.ackCounter = c] IN
           /\ t \in Exchange
           /\ t.id = x.id /\ t.session = x.session
           /\ (t.isInitiator <=> x.isInitiator) /\ t.peer = x.peer
           /\ t.ackCounter = c
BY DEF Exchange

\* A message that an exchange matches: it is from the exchange's other end.
LEMMA DispatchStep ==
    ASSUME MessageInv, NEW n \in Nodes, NEW m \in net, Arrival(n, m),
           NEW i \in 1..Len(exchanges[n]),
           Match(exchanges[n][i], Place(n, m), m), Dispatch(n, i, m)
    PROVE  MessageInv'
<1>s. PICK s : s = Place(n, m)
  OBVIOUS
<1>u. PICK u : u = UidOf(n, i)
  OBVIOUS
<1>g. PICK g : g = [at |-> u, msg |-> m]
  OBVIOUS
<1> DEFINE x == exchanges[n][i]
           y == [x EXCEPT !.ackCounter = m.counter]
<1>1. m \in Heard /\ m \in Message /\ i \in Nat \ {0}
  BY DEF Heard, MessageInv, TypeOK
<1>2. /\ exchanges \in [Nodes -> Seq(Exchange)] /\ x \in Exchange
      /\ epoch \in [Nodes -> Nat]
  BY DEF MessageInv, TypeOK
<1>3. m.exchangeId = x.id /\ (x.isInitiator <=> ~m.iflag) /\ x.session = s
  BY <1>1, <1>2, <1>s, MatchRoles
<1>4. ExchangeLink(n, i) = MessageLink(m)
  BY <1>1, <1>3, <1>s, OnItsSession
<1>5. (m.iflag => x.peer = m.src) /\ (~m.iflag => m.peer = u)
  BY <1>1, <1>3, <1>4, <1>u, LinkFields, ExchangeLinkFields
<1>6. /\ sessions' \in [Nodes -> Seq(Session)]
      /\ fresh' \in Nat \ {0} /\ fresh <= fresh'
      /\ \A o \in Nodes : \A j \in 1..Len(sessions[o]) :
            j \in 1..Len(sessions'[o]) /\ sessions'[o][j] = sessions[o][j]
      /\ SessionsDistinct'
  BY <1>1, <1>s, LookedSessions DEF Arrival
<1>7. /\ y \in Exchange /\ y.id = x.id /\ y.session = x.session
      /\ (y.isInitiator <=> x.isInitiator) /\ y.peer = x.peer
      /\ y.ackCounter = m.counter
  <2>1. m.counter \in Counter
    BY <1>1, FieldTypes
  <2> QED
    BY <1>2, <2>1, AckedExchange
<1>8. /\ exchanges' = [exchanges EXCEPT ![n] = [exchanges[n] EXCEPT ![i] = y]]
      /\ got' = got \cup {g} /\ dropped' = dropped
      /\ net' \subseteq net /\ port' = port /\ nextEx' = nextEx /\ epoch' = epoch
      /\ used' \in [Bounded -> Nat]
  BY <1>2, <1>u, <1>g DEF Dispatch, Arrival
<1>9. /\ g.at = u /\ g.msg = m /\ u \in Uid
      /\ u.node = n /\ u.epoch = epoch[n] /\ u.idx = i
  BY <1>1, <1>2, <1>u, <1>g DEF UidOf, Uid
<1> HIDE DEF y
<1>10. /\ exchanges' \in [Nodes -> Seq(Exchange)]
       /\ \A o \in Nodes : o # n => exchanges'[o] = exchanges[o]
       /\ Len(exchanges'[n]) = Len(exchanges[n])
       /\ \A j \in 1..Len(exchanges[n]) :
             exchanges'[n][j] = IF j = i THEN y ELSE exchanges[n][j]
  BY <1>2, <1>7, <1>8, TableUpdate
<1>11. \A o \in Nodes : Len(exchanges'[o]) = Len(exchanges[o])
  BY <1>10
<1>12. Kept
  <2>1. \A o \in Nodes : \A j \in 1..Len(exchanges[o]) :
           /\ j \in 1..Len(exchanges'[o])
           /\ exchanges'[o][j].id = exchanges[o][j].id
           /\ exchanges'[o][j].session = exchanges[o][j].session
           /\ (exchanges'[o][j].isInitiator <=> exchanges[o][j].isInitiator)
           /\ exchanges'[o][j].peer = exchanges[o][j].peer
    BY <1>7, <1>10
  <2> QED
    BY <1>6, <1>8, <2>1 DEF Kept
<1>13. TypeOK'
  <2>1. got' \subseteq [at : Uid, msg : Message]
    BY <1>1, <1>8, <1>9, <1>g DEF MessageInv, TypeOK
  <2> QED
    BY <1>6, <1>8, <1>10, <2>1 DEF MessageInv, TypeOK
<1>14. LinksOK' /\ LinksUnique'
  <2>1. Heard' \subseteq Heard
    BY <1>1, <1>8, <1>9 DEF Heard
  <2>2. ASSUME NEW l, IsLink(l)' PROVE IsLink(l)
    <3>1. ASSUME NEW o \in Nodes, NEW j \in 1..Len(exchanges'[o]),
                 l = ExchangeLink(o, j)'
          PROVE  IsLink(l)
      <4>1. j \in 1..Len(exchanges[o])
        BY <1>11
      <4>2. l = ExchangeLink(o, j)
        BY <1>12, <3>1, <4>1, KeptLink DEF MessageInv
      <4> QED
        BY <4>1, <4>2 DEF IsLink
    <3> QED
      BY <2>1, <2>2, <3>1 DEF IsLink
  <2> QED
    BY <1>12, <2>2, KeptLinks
<1>15. OwnSession'
  BY <1>11, <1>12, KeptOwnSession DEF MessageInv
<1>16. GotOK'
  <2>1. /\ i \in 1..Len(exchanges'[n])
        /\ m.iflag => /\ ~exchanges'[n][i].isInitiator
                      /\ exchanges'[n][i].peer = m.src
    BY <1>3, <1>5, <1>7, <1>10
  <2>2. epoch[n] \in Nat
    BY <1>2
  <2>3. /\ g.at.epoch <= epoch'[g.at.node]
        /\ g.at.epoch = epoch'[g.at.node] =>
               /\ g.at.idx \in 1..Len(exchanges'[g.at.node])
               /\ g.msg.iflag =>
                    /\ ~exchanges'[g.at.node][g.at.idx].isInitiator
                    /\ exchanges'[g.at.node][g.at.idx].peer = g.msg.src
    BY <1>8, <1>9, <2>1, <2>2
  <2> QED
    BY <1>8, <1>12, <2>3, KeptGot DEF GotOK
<1>17. AcksOK'
  <2> SUFFICES ASSUME NEW o \in Nodes, NEW j \in 1..Len(exchanges[o]),
                      exchanges'[o][j].ackCounter # NoAck
               PROVE  \E h \in got' :
                        /\ h.at = UidOf(o, j)
                        /\ h.msg.counter = exchanges'[o][j].ackCounter
                        /\ IF exchanges'[o][j].isInitiator
                           THEN h.msg.peer = UidOf(o, j)
                           ELSE h.msg.src = exchanges'[o][j].peer
    <3>1. \A o \in Nodes : \A j : UidOf(o, j)' = UidOf(o, j)
      BY <1>8 DEF UidOf
    <3> QED
      BY <1>11, <3>1 DEF AcksOK, Received
  <2>2. CASE o = n /\ j = i
    <3>1. /\ exchanges'[o][j].ackCounter = m.counter
          /\ exchanges'[o][j].isInitiator <=> ~m.iflag
          /\ m.iflag => exchanges'[o][j].peer = m.src
      BY <1>3, <1>5, <1>7, <1>10, <2>2
    <3>2. CASE m.iflag
      BY <1>8, <1>9, <1>u, <2>2, <3>1, <3>2
    <3>3. CASE ~m.iflag
      BY <1>5, <1>8, <1>9, <1>u, <2>2, <3>1, <3>3
    <3> QED
      BY <3>2, <3>3
  <2>3. CASE ~(o = n /\ j = i)
    <3>1. exchanges'[o][j] = exchanges[o][j]
      BY <1>10, <2>3
    <3>2. Received(UidOf(o, j), exchanges[o][j].ackCounter,
                   exchanges[o][j].isInitiator, exchanges[o][j].peer)
      BY <3>1 DEF MessageInv, AcksOK
    <3> QED
      BY <1>8, <3>1, <3>2 DEF Received
  <2> QED
    BY <2>2, <2>3
<1>18. RepliesReachRequester'
  BY <1>5, <1>8, <1>9 DEF MessageInv, RepliesReachRequester
<1>19. RequestsSeparated'
  <2>1. ASSUME NEW h \in got, m.iflag, h.msg.iflag
        PROVE  /\ h.at = u => h.msg.src = m.src
               /\ (/\ h.msg.src = m.src /\ h.at.node = n
                   /\ h.at.epoch = epoch[n]) => h.at = u
    <3>1. h.at = u => h.msg.src = m.src
      BY <1>5, <1>9, <2>1 DEF MessageInv, GotOK
    <3>2. ASSUME h.msg.src = m.src, h.at.node = n, h.at.epoch = epoch[n]
          PROVE  h.at = u
      <4>1. /\ h.at.idx \in 1..Len(exchanges[n])
            /\ exchanges[n][h.at.idx].session = s
            /\ h.at = UidOf(n, h.at.idx)
        BY <1>1, <1>s, <2>1, <3>2, SameSource
      <4>2. h.at.idx = i
        BY <1>3, <4>1 DEF MessageInv, OwnSession
      <4> QED
        BY <1>u, <4>1, <4>2
    <3> QED
      BY <3>1, <3>2
  <2> SUFFICES ASSUME NEW a \in got \cup {g}, NEW b \in got \cup {g},
                      a.msg.iflag, b.msg.iflag
               PROVE  /\ a.at = b.at => a.msg.src = b.msg.src
                      /\ (/\ a.msg.src = b.msg.src /\ a.at.node = b.at.node
                          /\ a.at.epoch = b.at.epoch) => a.at = b.at
    BY <1>8 DEF RequestsSeparated
  <2>2. CASE a \in got /\ b \in got
    BY <2>2 DEF MessageInv, RequestsSeparated
  <2>3. CASE a = g /\ b \in got
    BY <1>9, <2>1, <2>3
  <2>4. CASE a \in got /\ b = g
    BY <1>9, <2>1, <2>4
  <2> QED
    BY <2>2, <2>3, <2>4
<1>20. NoReplyDropped' /\ DroppedOK'
  BY <1>8 DEF MessageInv, NoReplyDropped, DroppedOK
<1>21. AckNamesReceived'
  BY <1>8 DEF MessageInv, AckNamesReceived
<1> QED
  BY <1>6, <1>13, <1>14, <1>15, <1>16, <1>17, <1>18, <1>19, <1>20, <1>21
     DEF MessageInv

\* The exchange that an initiator's message opens.
Opened(s, m) ==
    [id |-> m.exchangeId, session |-> s, isInitiator |-> FALSE,
     isAck |-> TRUE, ackCounter |-> m.counter, listener |-> m.request,
     peer |-> m.src]

\* An initiator's message that no exchange matches opens the first exchange of
\* its link at this end.
LEMMA UnsolicitedStep ==
    ASSUME MessageInv, NEW n \in Nodes, NEW m \in net, Arrival(n, m), m.iflag,
           \A j \in 1..Len(exchanges[n]) :
               ~Match(exchanges[n][j], Place(n, m), m),
           exchanges' = [exchanges EXCEPT ![n] =
                            Append(exchanges[n], Opened(Place(n, m), m))],
           got' = got \cup {[at |-> UidOf(n, Len(exchanges[n]) + 1), msg |-> m]},
           dropped' = dropped
    PROVE  MessageInv'
<1>s. PICK s : s = Place(n, m)
  OBVIOUS
<1>i. PICK I : I = Len(exchanges[n]) + 1
  OBVIOUS
<1>u. PICK u : u = UidOf(n, I)
  OBVIOUS
<1>g. PICK g : g = [at |-> u, msg |-> m]
  OBVIOUS
<1>x. PICK x : x = Opened(s, m)
  OBVIOUS
<1>1. m \in Heard /\ m \in Message
  BY DEF Heard, MessageInv, TypeOK
<1>2. /\ exchanges \in [Nodes -> Seq(Exchange)] /\ epoch \in [Nodes -> Nat]
      /\ port \in [Nodes -> Ports]
      /\ Len(exchanges[n]) \in Nat /\ I \in Nat \ {0}
      /\ I \notin 1..Len(exchanges[n])
  BY <1>i DEF MessageInv, TypeOK
<1>3. /\ sessions' \in [Nodes -> Seq(Session)]
      /\ fresh' \in Nat \ {0} /\ fresh <= fresh'
      /\ s \in 1..Len(sessions'[n])
      /\ sessions'[n][s].peerInfo = m.from
      /\ sessions'[n][s].peerNodeId = m.nodeId
      /\ sessions'[n][s].transport = "server"
      /\ \A o \in Nodes : \A j \in 1..Len(sessions[o]) :
            j \in 1..Len(sessions'[o]) /\ sessions'[o][j] = sessions[o][j]
      /\ SessionsDistinct'
  BY <1>1, <1>s, LookedSessions DEF Arrival
<1>4. s \in Nat \ {0}
  BY <1>3
<1>5. /\ x \in Exchange /\ x.id = m.exchangeId /\ x.session = s
      /\ ~x.isInitiator /\ x.peer = m.src /\ x.ackCounter = m.counter
  BY <1>1, <1>4, <1>x, FieldTypes DEF Opened, Exchange
<1>6. /\ exchanges' = [exchanges EXCEPT ![n] = Append(exchanges[n], x)]
      /\ got' = got \cup {g} /\ dropped' = dropped
      /\ net' \subseteq net /\ port' = port /\ nextEx' = nextEx /\ epoch' = epoch
      /\ used' \in [Bounded -> Nat]
      /\ m.to \in {ServerAddr(n), ClientAddr(n)}
  BY <1>s, <1>i, <1>u, <1>g, <1>x DEF Arrival
<1>7. /\ g.at = u /\ g.msg = m /\ u \in Uid
      /\ u.node = n /\ u.epoch = epoch[n] /\ u.idx = I
  BY <1>1, <1>2, <1>u, <1>g DEF UidOf, Uid
<1>8. /\ exchanges' \in [Nodes -> Seq(Exchange)]
      /\ Len(exchanges'[n]) = I /\ exchanges'[n][I] = x
      /\ \A o \in Nodes : \A j \in 1..Len(exchanges[o]) :
            j \in 1..Len(exchanges'[o]) /\ exchanges'[o][j] = exchanges[o][j]
      /\ \A o \in Nodes : \A j \in 1..Len(exchanges'[o]) :
            j \notin 1..Len(exchanges[o]) =>
                o = n /\ j = I /\ exchanges'[o][j] = x
  <2>1. /\ exchanges' = [exchanges EXCEPT ![n] = Append(exchanges[n], x)]
        /\ x \in Exchange
    BY <1>5, <1>6
  <2> QED
    BY <1>2, <1>i, <2>1, TableAppend
<1>9. Kept
  BY <1>3, <1>6, <1>8 DEF Kept
<1>10. m.to = ServerAddr(n) /\ m.from.port \in Ports
  <2>1. m.to.port = "server" /\ m.from.port \in Ports
    BY <1>1, LinkFields DEF LinkOK
  <2>2. ClientAddr(n).port \in Ports
    BY <1>2 DEF ClientAddr
  <2> QED
    BY <1>6, <2>1, <2>2, PortsAssumption
<1>11. ExchangeLink(n, I)' = MessageLink(m)
  <2>1. ServerAddr(n)' = m.to
    BY <1>10 DEF ServerAddr
  <2>2. ExchangeLink(n, I)' = Link(m.src, m.exchangeId, m.nodeId, m.from, m.to)
    BY <1>3, <1>5, <1>8, <2>1 DEF ExchangeLink
  <2> QED
    BY <2>2 DEF MessageLink
<1>12. \A j \in 1..Len(exchanges[n]) : exchanges[n][j].session # s
  <2> SUFFICES ASSUME NEW j \in 1..Len(exchanges[n]), exchanges[n][j].session = s
               PROVE  FALSE
    OBVIOUS
  <2>1. ExchangeLink(n, j) = MessageLink(m)
    BY <1>1, <1>s, OnItsSession
  <2>2. CASE ~exchanges[n][j].isInitiator
    BY <1>1, <2>1, <2>2, FindsItsExchange
  <2>3. CASE exchanges[n][j].isInitiator
    <3>1. /\ exchanges[n][j].session \in 1..Len(sessions[n])
          /\ sessions[n][exchanges[n][j].session].transport = "client"
      BY <2>3 DEF MessageInv, OwnSession
    <3> QED
      BY <1>3, <3>1
  <2> QED
    BY <2>2, <2>3
<1>13. TypeOK'
  <2>1. got' \subseteq [at : Uid, msg : Message]
    BY <1>1, <1>6, <1>7, <1>g DEF MessageInv, TypeOK
  <2> QED
    BY <1>3, <1>6, <1>8, <2>1 DEF MessageInv, TypeOK
<1>14. LinksOK' /\ LinksUnique'
  <2>1. Heard' \subseteq Heard
    BY <1>1, <1>6, <1>7 DEF Heard
  <2>2. ASSUME NEW l, IsLink(l)' PROVE IsLink(l)
    <3>1. ASSUME NEW o \in Nodes, NEW j \in 1..Len(exchanges'[o]),
                 l = ExchangeLink(o, j)'
          PROVE  IsLink(l)
      <4>1. CASE j \in 1..Len(exchanges[o])
        <5>1. l = ExchangeLink(o, j)
          BY <1>9, <3>1, <4>1, KeptLink DEF MessageInv
        <5> QED
          BY <4>1, <5>1 DEF IsLink
      <4>2. CASE j \notin 1..Len(exchanges[o])
        <5>1. o = n /\ j = I
          BY <1>8, <4>2
        <5>2. l = MessageLink(m)
          BY <1>11, <3>1, <5>1
        <5> QED
          BY <1>1, <5>2 DEF IsLink
      <4> QED
        BY <4>1, <4>2
    <3> QED
      BY <2>1, <2>2, <3>1 DEF IsLink
  <2> QED
    BY <1>9, <2>2, KeptLinks
<1>15. OwnSession'
  <2> SUFFICES ASSUME NEW o \in Nodes, NEW i \in 1..Len(exchanges'[o])
               PROVE  /\ exchanges'[o][i].session \in 1..Len(sessions'[o])
                      /\ sessions'[o][exchanges'[o][i].session].transport =
                            IF exchanges'[o][i].isInitiator THEN "client" ELSE "server"
                      /\ \A j \in 1..Len(exchanges'[o]) :
                            exchanges'[o][j].session = exchanges'[o][i].session
                                => i = j
    BY DEF OwnSession
  <2>1. \A j \in 1..Len(exchanges[o]) : exchanges'[o][j] = exchanges[o][j]
    BY <1>8
  <2>2. \A j \in 1..Len(exchanges'[o]) : j \notin 1..Len(exchanges[o]) =>
           o = n /\ j = I /\ exchanges'[o][j] = x
    BY <1>8
  <2>3. CASE i \in 1..Len(exchanges[o])
    <3> DEFINE k == exchanges[o][i].session
    <3>1. /\ k \in 1..Len(sessions[o])
          /\ sessions[o][k].transport =
               IF exchanges[o][i].isInitiator THEN "client" ELSE "server"
          /\ \A j \in 1..Len(exchanges[o]) : exchanges[o][j].session = k => i = j
      BY <2>3 DEF MessageInv, OwnSession
    <3>2. k \in 1..Len(sessions'[o]) /\ sessions'[o][k] = sessions[o][k]
      BY <1>3, <3>1
    <3>3. ASSUME NEW j \in 1..Len(exchanges'[o]), exchanges'[o][j].session = k
          PROVE  i = j
      <4>1. CASE j \in 1..Len(exchanges[o])
        BY <2>1, <3>1, <3>3, <4>1
      <4>2. CASE j \notin 1..Len(exchanges[o])
        <5>1. o = n /\ k = s
          BY <1>5, <2>2, <3>3, <4>2
        <5> QED
          BY <1>12, <2>3, <5>1
      <4> QED
        BY <4>1, <4>2
    <3> HIDE DEF k
    <3>4. exchanges'[o][i] = exchanges[o][i] /\ exchanges'[o][i].session = k
      BY <2>1, <2>3 DEF k
    <3> QED
      BY <3>1, <3>2, <3>3, <3>4
  <2>4. CASE i \notin 1..Len(exchanges[o])
    <3>1. o = n /\ i = I /\ exchanges'[o][i] = x
      BY <2>2, <2>4
    <3>2. \A j \in 1..Len(exchanges[o]) : exchanges'[o][j].session # s
      BY <1>12, <2>1, <3>1
    <3>3. \A j \in 1..Len(exchanges'[o]) : exchanges'[o][j].session = s => j = i
      BY <2>2, <3>1, <3>2
    <3> QED
      BY <1>3, <1>5, <3>1, <3>3
  <2> QED
    BY <2>3, <2>4
<1>16. GotOK'
  <2>1. epoch[n] \in Nat /\ I \in 1..Len(exchanges'[n])
    BY <1>2, <1>8
  <2>2. /\ g.at.epoch <= epoch'[g.at.node]
        /\ g.at.epoch = epoch'[g.at.node] =>
               /\ g.at.idx \in 1..Len(exchanges'[g.at.node])
               /\ g.msg.iflag =>
                    /\ ~exchanges'[g.at.node][g.at.idx].isInitiator
                    /\ exchanges'[g.at.node][g.at.idx].peer = g.msg.src
    BY <1>5, <1>6, <1>7, <1>8, <2>1
  <2> QED
    BY <1>6, <1>9, <2>2, KeptGot DEF GotOK
<1>17. AcksOK'
  <2> SUFFICES ASSUME NEW o \in Nodes, NEW j \in 1..Len(exchanges'[o]),
                      exchanges'[o][j].ackCounter # NoAck
               PROVE  \E h \in got' :
                        /\ h.at = UidOf(o, j)
                        /\ h.msg.counter = exchanges'[o][j].ackCounter
                        /\ IF exchanges'[o][j].isInitiator
                           THEN h.msg.peer = UidOf(o, j)
                           ELSE h.msg.src = exchanges'[o][j].peer
    <3>1. \A o \in Nodes : \A j : UidOf(o, j)' = UidOf(o, j)
      BY <1>6 DEF UidOf
    <3> QED
      BY <3>1 DEF AcksOK, Received
  <2>1. CASE j \notin 1..Len(exchanges[o])
    <3>1. o = n /\ j = I /\ exchanges'[o][j] = x
      BY <1>8, <2>1
    <3> QED
      BY <1>5, <1>6, <1>7, <1>u, <3>1
  <2>2. CASE j \in 1..Len(exchanges[o])
    <3>1. exchanges'[o][j] = exchanges[o][j]
      BY <1>8, <2>2
    <3>2. Received(UidOf(o, j), exchanges[o][j].ackCounter,
                   exchanges[o][j].isInitiator, exchanges[o][j].peer)
      BY <2>2, <3>1 DEF MessageInv, AcksOK
    <3> QED
      BY <1>6, <3>1, <3>2 DEF Received
  <2> QED
    BY <2>1, <2>2
<1>18. RepliesReachRequester'
  BY <1>6, <1>7 DEF MessageInv, RepliesReachRequester
<1>19. RequestsSeparated'
  <2>1. ASSUME NEW h \in got, h.msg.iflag
        PROVE  /\ h.at # u
               /\ ~(h.msg.src = m.src /\ h.at.node = n /\ h.at.epoch = epoch[n])
    <3>1. h.at # u
      BY <1>2, <1>7 DEF MessageInv, GotOK
    <3>2. ASSUME h.msg.src = m.src, h.at.node = n, h.at.epoch = epoch[n]
          PROVE  FALSE
      BY <1>1, <2>1, <3>2, SameSource
    <3> QED
      BY <3>1, <3>2
  <2> SUFFICES ASSUME NEW a \in got \cup {g}, NEW b \in got \cup {g},
                      a.msg.iflag, b.msg.iflag
               PROVE  /\ a.at = b.at => a.msg.src = b.msg.src
                      /\ (/\ a.msg.src = b.msg.src /\ a.at.node = b.at.node
                          /\ a.at.epoch = b.at.epoch) => a.at = b.at
    BY <1>6 DEF RequestsSeparated
  <2>2. CASE a \in got /\ b \in got
    BY <2>2 DEF MessageInv, RequestsSeparated
  <2>3. CASE a = g /\ b \in got
    BY <1>7, <2>1, <2>3
  <2>4. CASE a \in got /\ b = g
    BY <1>7, <2>1, <2>4
  <2> QED
    BY <2>2, <2>3, <2>4
<1>20. NoReplyDropped' /\ DroppedOK'
  BY <1>6 DEF MessageInv, NoReplyDropped, DroppedOK
<1>21. AckNamesReceived'
  BY <1>6 DEF MessageInv, AckNamesReceived
<1> QED
  BY <1>3, <1>13, <1>14, <1>15, <1>16, <1>17, <1>18, <1>19, <1>20, <1>21
     DEF MessageInv

\* A reply that no exchange matches is to an exchange of an earlier run.
LEMMA DropStep ==
    ASSUME MessageInv, NEW n \in Nodes, NEW m \in net, Arrival(n, m), ~m.iflag,
           \A j \in 1..Len(exchanges[n]) :
               ~Match(exchanges[n][j], Place(n, m), m),
           exchanges' = exchanges, got' = got, dropped' = dropped \cup {m}
    PROVE  MessageInv'
<1>s. PICK s : s = Place(n, m)
  OBVIOUS
<1>1. m \in Heard /\ m \in Message
  BY DEF Heard, MessageInv, TypeOK
<1>2. /\ exchanges \in [Nodes -> Seq(Exchange)] /\ epoch \in [Nodes -> Nat]
  BY DEF MessageInv, TypeOK
<1>3. /\ sessions' \in [Nodes -> Seq(Session)]
      /\ fresh' \in Nat \ {0} /\ fresh <= fresh'
      /\ \A o \in Nodes : \A j \in 1..Len(sessions[o]) :
            j \in 1..Len(sessions'[o]) /\ sessions'[o][j] = sessions[o][j]
      /\ SessionsDistinct'
  BY <1>1, <1>s, LookedSessions DEF Arrival
<1>4. /\ net' \subseteq net /\ port' = port /\ nextEx' = nextEx /\ epoch' = epoch
      /\ used' \in [Bounded -> Nat]
      /\ m.to \in {ServerAddr(n), ClientAddr(n)}
  BY DEF Arrival
<1>5. Kept
  BY <1>3, <1>4 DEF Kept
<1>6. /\ m.peer \in Uid /\ m.peer.epoch <= epoch[m.peer.node]
      /\ m.to.node = m.peer.node
      /\ m.peer.epoch = epoch[m.peer.node] =>
            /\ m.peer.idx \in 1..Len(exchanges[m.peer.node])
            /\ exchanges[m.peer.node][m.peer.idx].isInitiator
  BY <1>1, LinkFields DEF LinkOK
<1>7. m.peer.node = n
  BY <1>4, <1>6 DEF ServerAddr, ClientAddr
<1>8. m.peer.epoch # epoch[n]
  <2> SUFFICES ASSUME m.peer.epoch = epoch[n] PROVE FALSE
    OBVIOUS
  <2>1. PICK j : j = m.peer.idx
    OBVIOUS
  <2>2. j \in 1..Len(exchanges[n]) /\ exchanges[n][j].isInitiator
    BY <1>6, <1>7, <2>1
  <2>3. UidOf(n, j) = m.peer
    BY <1>6, <1>7, <2>1 DEF Uid, UidOf
  <2>4. ExchangeLink(n, j).origin = MessageLink(m).origin
    BY <1>1, <2>2, <2>3, LinkFields, ExchangeLinkFields
  <2>5. ExchangeLink(n, j) = MessageLink(m)
    BY <1>1, <2>2, <2>4, LinkFields, ExchangeLinkFields DEF MessageInv, LinksUnique
  <2> QED
    BY <1>1, <2>2, <2>5, FindsItsExchange
<1>9. m.peer.epoch < epoch[m.peer.node]
  <2>1. m.peer.epoch \in Nat /\ epoch[n] \in Nat
    BY <1>2, <1>6 DEF Uid
  <2> QED
    BY <1>6, <1>7, <1>8, <2>1
<1>10. TypeOK'
  BY <1>1, <1>3, <1>4 DEF MessageInv, TypeOK
<1>11. LinksOK' /\ LinksUnique'
  <2>1. Heard' \subseteq Heard
    BY <1>4 DEF Heard
  <2>2. ASSUME NEW l, IsLink(l)' PROVE IsLink(l)
    <3>1. ASSUME NEW o \in Nodes, NEW j \in 1..Len(exchanges[o]),
                 l = ExchangeLink(o, j)'
          PROVE  IsLink(l)
      <4>1. l = ExchangeLink(o, j)
        BY <1>5, <3>1, KeptLink DEF MessageInv
      <4> QED
        BY <4>1 DEF IsLink
    <3> QED
      BY <2>1, <2>2, <3>1 DEF IsLink
  <2> QED
    BY <1>5, <2>2, KeptLinks
<1>12. OwnSession'
  BY <1>5, KeptOwnSession DEF MessageInv
<1>13. GotOK'
  BY <1>5, KeptGot DEF GotOK
<1>14. AcksOK'
  BY <1>4 DEF MessageInv, AcksOK, Received, UidOf
<1>15. RepliesReachRequester' /\ RequestsSeparated'
  BY DEF MessageInv, RepliesReachRequester, RequestsSeparated
<1>16. NoReplyDropped' /\ DroppedOK'
  BY <1>4, <1>6, <1>9 DEF MessageInv, NoReplyDropped, DroppedOK
<1>17. AckNamesReceived'
  BY <1>4 DEF MessageInv, AckNamesReceived
<1> QED
  BY <1>3, <1>10, <1>11, <1>12, <1>13, <1>14, <1>15, <1>16, <1>17 DEF MessageInv

\* SessionManager.onMessage(), whatever it finds.
LEMMA ReceiveStep ==
    ASSUME MessageInv, NEW n \in Nodes, NEW m \in net, Receive(n, m)
    PROVE  MessageInv'
<1> DEFINE s == Place(n, m)
           i == GetExchange(exchanges[n], s, m)
<1>1. /\ exchanges \in [Nodes -> Seq(Exchange)] /\ used \in [Bounded -> Nat]
  BY DEF MessageInv, TypeOK
<1>2. /\ i = 0 => \A j \in 1..Len(exchanges[n]) : ~Match(exchanges[n][j], s, m)
      /\ i # 0 => i \in 1..Len(exchanges[n]) /\ Match(exchanges[n][i], s, m)
  BY <1>1, FindsExchange
<1>3. IF i # 0 THEN Dispatch(n, i, m) ELSE Unsolicited(n, s, m)
  BY DEF Receive, Place
<1>4. Arrival(n, m)
  <2>1. Looked(n, m)
    BY DEF Receive, Looked
  <2>2. net' \subseteq net /\ used' \in [Bounded -> Nat]
    BY <1>1, UseTyped DEF Receive, Bounded
  <2> QED
    BY <2>1, <2>2 DEF Receive, Arrival
<1> HIDE DEF i
<1>5. CASE i # 0
  BY <1>2, <1>3, <1>4, <1>5, DispatchStep
<1>6. CASE i = 0 /\ m.iflag
  <2>1. /\ exchanges' = [exchanges EXCEPT ![n] = Append(exchanges[n], Opened(s, m))]
        /\ got' = got \cup {[at |-> UidOf(n, Len(exchanges[n]) + 1), msg |-> m]}
        /\ dropped' = dropped
    BY <1>1, <1>3, <1>6 DEF Unsolicited, Opened
  <2> QED
    BY <1>2, <1>4, <1>6, <2>1, UnsolicitedStep
<1>7. CASE i = 0 /\ ~m.iflag
  <2>1. exchanges' = exchanges /\ got' = got /\ dropped' = dropped \cup {m}
    BY <1>3, <1>7 DEF Unsolicited
  <2> QED
    BY <1>2, <1>4, <1>7, <2>1, DropStep
<1> QED
  BY <1>5, <1>6, <1>7

-----------------------------------------------------------------------------
(* Losses and restarts *)

\* A datagram that is lost takes nothing with it.
LEMMA LoseStep ==
    ASSUME MessageInv, net' \subseteq net,
           UNCHANGED <<port, sessions, exchanges, nextEx, fresh, used, epoch, got,
                       dropped>>
    PROVE  MessageInv'
<1>1. /\ net' \subseteq net /\ port' = port /\ sessions' = sessions
      /\ exchanges' = exchanges /\ nextEx' = nextEx /\ fresh' = fresh
      /\ used' = used /\ epoch' = epoch /\ got' = got /\ dropped' = dropped
  OBVIOUS
<1>2. TypeOK'
  BY <1>1 DEF MessageInv, TypeOK
<1>3. Kept
  BY <1>1 DEF Kept, MessageInv, TypeOK
<1>4. LinksOK' /\ LinksUnique'
  <2>1. Heard' \subseteq Heard
    BY <1>1 DEF Heard
  <2>2. ASSUME NEW l, IsLink(l)' PROVE IsLink(l)
    <3>1. ASSUME NEW o \in Nodes, NEW j \in 1..Len(exchanges[o]),
                 l = ExchangeLink(o, j)'
          PROVE  IsLink(l)
      <4>1. l = ExchangeLink(o, j)
        BY <1>3, <3>1, KeptLink DEF MessageInv
      <4> QED
        BY <4>1 DEF IsLink
    <3> QED
      BY <1>1, <2>1, <2>2, <3>1 DEF IsLink
  <2> QED
    BY <1>3, <2>2, KeptLinks
<1>5. SessionsDistinct' /\ OwnSession' /\ GotOK' /\ DroppedOK'
  BY <1>1 DEF MessageInv, SessionsDistinct, OwnSession, GotOK, DroppedOK
<1>6. AcksOK'
  BY <1>1 DEF MessageInv, AcksOK, Received, UidOf
<1>7. RepliesReachRequester' /\ RequestsSeparated' /\ NoReplyDropped'
  BY <1>1 DEF MessageInv, RepliesReachRequester, RequestsSeparated, NoReplyDropped
<1>8. AckNamesReceived'
  BY <1>1 DEF MessageInv, AckNamesReceived
<1> QED
  BY <1>2, <1>4, <1>5, <1>6, <1>7, <1>8 DEF MessageInv

\* A restart ends the exchanges of a node; the messages of its earlier runs
\* and what they made at other nodes remain.
LEMMA RestartStep ==
    ASSUME MessageInv, NEW n \in Nodes, Restart(n)
    PROVE  MessageInv'
<1>1. /\ exchanges \in [Nodes -> Seq(Exchange)] /\ epoch \in [Nodes -> Nat]
      /\ sessions \in [Nodes -> Seq(Session)] /\ port \in [Nodes -> Ports]
      /\ nextEx \in [Nodes -> Nat] /\ used \in [Bounded -> Nat]
  BY DEF MessageInv, TypeOK
<1>2. PICK p \in Ports : port' = [port EXCEPT ![n] = p]
  BY DEF Restart
<1>3. /\ sessions' = [sessions EXCEPT ![n] = <<>>]
      /\ exchanges' = [exchanges EXCEPT ![n] = <<>>]
      /\ nextEx' = [nextEx EXCEPT ![n] = 0]
      /\ epoch' = [epoch EXCEPT ![n] = epoch[n] + 1]
      /\ net' = net /\ fresh' = fresh /\ got' = got /\ dropped' = dropped
      /\ Use("restart")
  BY <1>1 DEF Restart
<1>4. TypeOK'
  <2>1. used' \in [Bounded -> Nat]
    BY <1>1, <1>3, UseTyped DEF Bounded
  <2>2. sessions' \in [Nodes -> Seq(Session)] /\ exchanges' \in [Nodes -> Seq(Exchange)]
    BY <1>1, <1>3
  <2>3. /\ port' \in [Nodes -> Ports] /\ nextEx' \in [Nodes -> Nat]
        /\ epoch' \in [Nodes -> Nat]
    BY <1>1, <1>2, <1>3
  <2> QED
    BY <1>3, <2>1, <2>2, <2>3 DEF MessageInv, TypeOK
<1>5. ASSUME NEW o \in Nodes, o # n
      PROVE  /\ exchanges'[o] = exchanges[o] /\ sessions'[o] = sessions[o]
             /\ port'[o] = port[o] /\ epoch'[o] = epoch[o]
  BY <1>1, <1>2, <1>3, <1>5
<1>6. /\ exchanges'[n] = <<>> /\ sessions'[n] = <<>>
      /\ epoch'[n] = epoch[n] + 1 /\ epoch[n] \in Nat
      /\ \A j : j \notin 1..Len(exchanges'[n]) /\ j \notin 1..Len(sessions'[n])
  BY <1>1, <1>3
<1>7. ASSUME NEW l, IsLink(l)' PROVE IsLink(l)
  <2>1. ASSUME NEW o \in Nodes, NEW j \in 1..Len(exchanges'[o]),
               l = ExchangeLink(o, j)'
        PROVE  IsLink(l)
    <3>1. o # n
      BY <1>6
    <3>2. l = ExchangeLink(o, j)
      BY <1>5, <2>1, <3>1 DEF ExchangeLink, UidOf, ClientAddr, ServerAddr
    <3> QED
      BY <1>5, <3>1, <3>2 DEF IsLink
  <2>2. Heard' = Heard
    BY <1>3 DEF Heard
  <2> QED
    BY <1>7, <2>1, <2>2 DEF IsLink
<1>8. LinksUnique'
  BY <1>7 DEF MessageInv, LinksUnique
<1>9. LinksOK'
  <2> SUFFICES ASSUME NEW l, IsLink(l)' PROVE LinkOK(l)'
    BY DEF LinksOK
  <2>1. LinkOK(l)
    BY <1>7 DEF MessageInv, LinksOK
  <2>2. l.origin.node \in Nodes /\ l.origin.epoch \in Nat
    BY <2>1 DEF LinkOK, Uid
  <2>3. CASE l.origin.node = n
    <3>1. l.origin.epoch <= epoch[n]
      BY <2>1, <2>3 DEF LinkOK
    <3>2. l.origin.epoch <= epoch'[n] /\ l.origin.epoch # epoch'[n]
      BY <1>6, <2>2, <3>1
    <3> QED
      BY <1>3, <2>1, <2>3, <3>2 DEF LinkOK
  <2>4. CASE l.origin.node # n
    BY <1>3, <1>5, <2>1, <2>2, <2>4 DEF LinkOK
  <2> QED
    BY <2>3, <2>4
<1>10. SessionsDistinct'
  <2> SUFFICES ASSUME NEW o \in Nodes, NEW j \in 1..Len(sessions'[o]),
                      NEW k \in 1..Len(sessions'[o])
               PROVE  /\ sessions'[o][j].peerNodeId < fresh'
                      /\ sessions'[o][j].transport = "client" =>
                            sessions'[o][j].peerInfo.port = "server"
                      /\ (/\ sessions'[o][j].peerInfo = sessions'[o][k].peerInfo
                          /\ sessions'[o][j].peerNodeId = sessions'[o][k].peerNodeId
                          /\ sessions'[o][j].peerNodeId # NODE_ID_ANY) => j = k
    BY DEF SessionsDistinct
  <2>1. o # n
    BY <1>6
  <2>2. sessions'[o] = sessions[o]
    BY <1>5, <2>1
  <2> QED
    BY <1>3, <2>2 DEF MessageInv, SessionsDistinct
<1>11. OwnSession'
  <2> SUFFICES ASSUME NEW o \in Nodes, NEW i \in 1..Len(exchanges'[o])
               PROVE  /\ exchanges'[o][i].session \in 1..Len(sessions'[o])
                      /\ sessions'[o][exchanges'[o][i].session].transport =
                            IF exchanges'[o][i].isInitiator THEN "client" ELSE "server"
                      /\ \A j \in 1..Len(exchanges'[o]) :
                            exchanges'[o][j].session = exchanges'[o][i].session
                                => i = j
    BY DEF OwnSession
  <2>1. o # n
    BY <1>6
  <2>2. exchanges'[o] = exchanges[o] /\ sessions'[o] = sessions[o]
    BY <1>5, <2>1
  <2> QED
    BY <2>2 DEF MessageInv, OwnSession
<1>12. GotOK'
  <2> SUFFICES ASSUME NEW g \in got
               PROVE  /\ g.at.epoch <= epoch'[g.at.node]
                      /\ g.at.epoch = epoch'[g.at.node] =>
                           /\ g.at.idx \in 1..Len(exchanges'[g.at.node])
                           /\ g.msg.iflag =>
                                /\ ~exchanges'[g.at.node][g.at.idx].isInitiator
                                /\ exchanges'[g.at.node][g.at.idx].peer = g.msg.src
    BY <1>3 DEF GotOK
  <2>1. g.at.node \in Nodes /\ g.at.epoch \in Nat
    BY DEF MessageInv, TypeOK, Uid
  <2>2. CASE g.at.node = n
    <3>1. g.at.epoch <= epoch[n]
      BY <2>2 DEF MessageInv, GotOK
    <3> QED
      BY <1>6, <2>1, <2>2, <3>1
  <2>3. CASE g.at.node # n
    BY <1>5, <2>1, <2>3 DEF MessageInv, GotOK
  <2> QED
    BY <2>2, <2>3
<1>13. AcksOK'
  <2> SUFFICES ASSUME NEW o \in Nodes, NEW i \in 1..Len(exchanges'[o]),
                      exchanges'[o][i].ackCounter # NoAck
               PROVE  Received(UidOf(o, i), exchanges'[o][i].ackCounter,
                               exchanges'[o][i].isInitiator,
                               exchanges'[o][i].peer)
    <3>1. ASSUME NEW o \in Nodes, NEW i \in 1..Len(exchanges'[o])
          PROVE  UidOf(o, i)' = UidOf(o, i)
      <4>1. o # n
        BY <1>6
      <4> QED
        BY <1>5, <4>1 DEF UidOf
    <3> QED
      BY <1>3, <3>1 DEF AcksOK, Received
  <2>1. o # n
    BY <1>6
  <2>2. exchanges'[o] = exchanges[o]
    BY <1>5, <2>1
  <2> QED
    BY <2>2 DEF MessageInv, AcksOK
<1>14. RepliesReachRequester' /\ RequestsSeparated' /\ DroppedOK'
  BY <1>3 DEF MessageInv, RepliesReachRequester, RequestsSeparated, DroppedOK
<1>15. NoReplyDropped'
  <2> SUFFICES ASSUME NEW m \in dropped
               PROVE  m.peer.epoch < epoch'[m.peer.node]
    BY <1>3 DEF NoReplyDropped
  <2>1. /\ m.peer.node \in Nodes /\ m.peer.epoch \in Nat
        /\ m.peer.epoch < epoch[m.peer.node]
    BY DEF MessageInv, DroppedOK, NoReplyDropped, Uid
  <2>2. CASE m.peer.node = n
    BY <1>6, <2>1, <2>2
  <2>3. CASE m.peer.node # n
    BY <1>5, <2>1, <2>3
  <2> QED
    BY <2>2, <2>3
<1>16. AckNamesReceived'
  BY <1>3 DEF MessageInv, AckNamesReceived
<1> QED
  BY <1>4, <1>8, <1>9, <1>10, <1>11, <1>12, <1>13, <1>14, <1>15, <1>16
     DEF MessageInv

-----------------------------------------------------------------------------
(* The theorems *)

\* The invariant holds before anything is sent.
LEMMA MessageInit == Init => MessageInv
<1> SUFFICES ASSUME Init PROVE MessageInv
  OBVIOUS
<1>1. /\ \A n \in Nodes : sessions[n] = <<>> /\ exchanges[n] = <<>>
      /\ net = {} /\ got = {} /\ dropped = {}
  BY DEF Init
<1>2. TypeOK
  BY DEF Init, TypeOK, Bounded
<1>3. \A n \in Nodes : \A j : /\ j \notin 1..Len(exchanges[n])
                              /\ j \notin 1..Len(sessions[n])
  BY <1>1
<1>4. \A l : ~IsLink(l)
  BY <1>1, <1>3 DEF IsLink, Heard
<1>5. LinksOK /\ LinksUnique
  BY <1>4 DEF LinksOK, LinksUnique
<1>6. SessionsDistinct /\ OwnSession /\ AcksOK
  BY <1>3 DEF SessionsDistinct, OwnSession, AcksOK
<1>7. /\ GotOK /\ DroppedOK /\ RepliesReachRequester /\ RequestsSeparated
      /\ NoReplyDropped /\ AckNamesReceived
  BY <1>1 DEF GotOK, DroppedOK, RepliesReachRequester, RequestsSeparated,
              NoReplyDropped, AckNamesReceived
<1> QED
  BY <1>2, <1>5, <1>6, <1>7 DEF MessageInv

\* Every step keeps the invariant.
LEMMA MessageStep == MessageInv /\ [Next]_vars => MessageInv'
<1> SUFFICES ASSUME MessageInv, [Next]_vars PROVE MessageInv'
  OBVIOUS
<1>1. ASSUME NEW n \in Nodes, NEW peer \in Nodes, Open(n, peer) PROVE MessageInv'
  BY <1>1, OpenStep
<1>2. ASSUME NEW n \in Nodes, NEW i \in 1..Len(exchanges[n]), Send(n, i)
      PROVE  MessageInv'
  BY <1>2, SendStep
<1>3. ASSUME NEW n \in Nodes, NEW m \in net, Receive(n, m) PROVE MessageInv'
  BY <1>3, ReceiveStep
<1>4. ASSUME NEW m \in net, Lose(m) PROVE MessageInv'
  BY <1>4, LoseStep DEF Lose
<1>5. ASSUME NEW n \in Nodes, Restart(n) PROVE MessageInv'
  BY <1>5, RestartStep
<1>6. CASE UNCHANGED vars
  BY <1>6, LoseStep DEF vars
<1> QED
  BY <1>1, <1>2, <1>3, <1>4, <1>5, <1>6 DEF Next

\* The inductive invariant holds of every run of the message layer.
THEOREM MessageInvariant == Spec => []MessageInv
BY MessageInit, MessageStep, PTL DEF Spec

\* The tables hold sessions and exchanges of their types, and every dispatched
\* message went to an exchange.
THEOREM TypeCorrect == Spec => []TypeOK
<1>1. MessageInv => TypeOK
  BY DEF MessageInv
<1> QED
  BY <1>1, MessageInvariant, PTL

\* ExchangeManager.onSessionMessage() hands a reply to the exchange whose
\* request it answers and to no other, after restarts too.
THEOREM RepliesRouted == Spec => []RepliesReachRequester
<1>1. MessageInv => RepliesReachRequester
  BY DEF MessageInv
<1> QED
  BY <1>1, MessageInvariant, PTL

\* Requests of different exchanges never share a responder exchange, and all
\* messages of one exchange reach the same one while the responder runs.
THEOREM RequestsApart == Spec => []RequestsSeparated
<1>1. MessageInv => RequestsSeparated
  BY DEF MessageInv
<1> QED
  BY <1>1, MessageInvariant, PTL

\* No reply is dropped for want of an exchange while the process that opened
\* the exchange runs.
THEOREM RepliesKept == Spec => []NoReplyDropped
<1>1. MessageInv => NoReplyDropped
  BY DEF MessageInv
<1> QED
  BY <1>1, MessageInvariant, PTL

\* Exchange.sendMessage() acknowledges only what the exchange received from
\* the exchange at the other end.
THEOREM AcksReceived == Spec => []AckNamesReceived
<1>1. MessageInv => AckNamesReceived
  BY DEF MessageInv
<1> QED
  BY <1>1, MessageInvariant, PTL

=============================================================================
