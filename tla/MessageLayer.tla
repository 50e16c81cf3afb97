---------------------------- MODULE MessageLayer ----------------------------
(***************************************************************************)
(* Routing of unsecured messages: message/SessionManager.js,               *)
(* message/ExchangeManager.js, message/Exchange.js and the unsecured half  *)
(* of message/Session.js, over the two UDP sockets every node opens        *)
(* (net/UdpServer.js, net/UdpClient.js).                                   *)
(*                                                                         *)
(* Every node is both initiator (its `pase` command opens an exchange on a *)
(* fresh unsecured session and sends from the client socket) and responder *)
(* (it answers from the server socket).  A message is matched to a         *)
(* session by the sender's address and a random node id, then to an        *)
(* exchange by exchange id, role and session; there is no duplicate        *)
(* detection, tables only grow, and a restart empties them.                *)
(*                                                                         *)
(* The protocol above (PaseSession, module PaseSession) is kept abstract:  *)
(* it opens an exchange with a request, listens on an exchange that a      *)
(* request opened, and sends further messages on an exchange it has heard  *)
(* from.  It makes every exchange reliable, so a responder acknowledges    *)
(* from its first message and an initiator from its second on.             *)
(*                                                                         *)
(* A name such as Match_AnySession, defined just before the operator it is *)
(* named after, is that operator with a bug: the properties are tried out  *)
(* on it.                                                                  *)
(***************************************************************************)
EXTENDS Naturals, SequencesExt

CONSTANTS
    Nodes,
    Ports,        \* the ephemeral ports a client socket may get
    None,
    Limit         \* bounds: how often a user opens an exchange, a protocol
                  \* sends on one, the network repeats and a node restarts

Bounded == {"open", "send", "dup", "restart"}

ASSUME LimitAssumption == Limit \in [Bounded -> Nat]
ASSUME PortsAssumption == "server" \notin Ports /\ Ports # {}

VARIABLES
    port,       \* the client socket's port of each node
    sessions,   \* _sessionsUnsecured of each node
    exchanges,  \* _exchanges of each node
    nextEx,     \* _nextExchangeId of each node
    net,        \* datagrams in flight
    fresh,      \* the next random value
    used,       \* how much of each bound is used up
    epoch,      \* history: the restarts of each node
    got,        \* history: the dispatches to exchanges
    dropped     \* history: messages dropped for want of an exchange

vars == <<port, sessions, exchanges, nextEx, net, fresh, used, epoch, got,
          dropped>>

ServerAddr(n) == [node |-> n, port |-> "server"]
ClientAddr(n) == [node |-> n, port |-> port[n]]
Address == [node : Nodes, port : Ports \cup {"server"}]

\* An exchange is known by its place in the table of one run of a node.
Uid == [node : Nodes, epoch : Nat, idx : Nat \ {0}]
UidOf(n, i) == [node |-> n, epoch |-> epoch[n], idx |-> i]

NODE_ID_ANY == 0
\* MessageCounter starts at a random value: the value and the offset from it.
Counter == Nat \X Nat
NoAck == <<0, 0>>

Session ==
    [peerInfo : Address, peerNodeId : Nat, base : Nat, sent : Nat,
     transport : {"client", "server"}]
Exchange ==
    [id : Nat, session : Nat \ {0}, isInitiator : BOOLEAN, isAck : BOOLEAN,
     ackCounter : Counter, listener : BOOLEAN, peer : Uid \cup {None}]
Message ==
    [from : Address, to : Address, iflag : BOOLEAN, request : BOOLEAN,
     exchangeId : Nat, nodeId : Nat, counter : Counter, ack : Counter,
     src : Uid, peer : Uid \cup {None}]

\* The tables hold what newSession() and newExchange() make: a session that a
\* message made has a node id (Message.SourceNodeId is never undefined), and a
\* dispatched message went to an exchange of this or of an earlier run.
TypeOK ==
    /\ port \in [Nodes -> Ports]
    /\ sessions \in [Nodes -> Seq(Session)]
    /\ exchanges \in [Nodes -> Seq(Exchange)]
    /\ nextEx \in [Nodes -> Nat]
    /\ net \subseteq Message
    /\ fresh \in Nat \ {0}
    /\ used \in [Bounded -> Nat]
    /\ epoch \in [Nodes -> Nat]
    /\ got \subseteq [at : Uid, msg : Message]
    /\ dropped \subseteq Message

Init ==
    /\ port \in [Nodes -> Ports]
    /\ sessions = [n \in Nodes |-> <<>>]
    /\ exchanges = [n \in Nodes |-> <<>>]
    /\ nextEx = [n \in Nodes |-> 0]
    /\ net = {}
    /\ fresh = 1
    /\ used = [b \in Bounded |-> 0]
    /\ epoch = [n \in Nodes |-> 0]
    /\ got = {}
    /\ dropped = {}

Use(b) ==
    /\ used[b] < Limit[b]
    /\ used' = [used EXCEPT ![b] = @ + 1]

-----------------------------------------------------------------------------
(* Lookups: each is the first match of a table, 0 when there is none. *)

\* SessionManager.getUnsecureSession().  No session is without a peer node id
\* when an event begins: doPase() sends in the event that makes the session.
GetUnsecureSession_AnyNode(table, peerInfo, peerNodeId) ==
    SelectInSeq(table, LAMBDA s : s.peerInfo = peerInfo)
GetUnsecureSession(table, peerInfo, peerNodeId) ==
    SelectInSeq(table, LAMBDA s :
        s.peerInfo = peerInfo /\ s.peerNodeId = peerNodeId)

\* Exchange.match(); all session ids of unsecured messages are 0.
Match_AnySession(x, s, m) ==
    m.exchangeId = x.id /\ m.iflag # x.isInitiator
Match(x, s, m) ==
    /\ m.exchangeId = x.id
    /\ m.iflag # x.isInitiator
    /\ s = x.session

\* ExchangeManager.getExchange().
GetExchange(table, s, m) == SelectInSeq(table, LAMBDA x : Match(x, s, m))

-----------------------------------------------------------------------------
(* Sending: Exchange.sendMessage() and Session.sendMessage() *)

\* The datagram exchange x at place i of node n sends over session s.  An
\* initiator puts the random node id in as source, a responder as destination.
Datagram(n, i, x, s, isRequest) ==
    [from       |-> IF s.transport = "client" THEN ClientAddr(n)
                                              ELSE ServerAddr(n),
     to         |-> s.peerInfo,
     iflag      |-> x.isInitiator,
     request    |-> isRequest,
     exchangeId |-> x.id,
     nodeId     |-> s.peerNodeId,
     counter    |-> <<s.base, s.sent>>,
     ack        |-> IF x.isAck THEN x.ackCounter ELSE NoAck,
     src        |-> UidOf(n, i),
     peer       |-> x.peer]

\* doPase(): newUnsecuredSession() and newExchange() on the client socket, a
\* listener, and the request.  Peer is the server socket of the node named by
\* the command's port.
Open(n, peer) ==
    /\ Use("open")
    /\ LET x == [id |-> nextEx[n], session |-> Len(sessions[n]) + 1,
                 isInitiator |-> TRUE, isAck |-> FALSE, ackCounter |-> NoAck,
                 listener |-> TRUE, peer |-> None]
           s == [peerInfo |-> ServerAddr(peer), peerNodeId |-> fresh,
                 base |-> fresh + 1, sent |-> 0, transport |-> "client"]
       IN /\ exchanges' = [exchanges EXCEPT ![n] = Append(@, x)]
          /\ sessions' = [sessions EXCEPT ![n] =
                            Append(@, [s EXCEPT !.sent = 1])]
          /\ net' = net \cup {Datagram(n, Len(exchanges[n]) + 1, x, s, TRUE)}
    /\ nextEx' = [nextEx EXCEPT ![n] = @ + 1]
    /\ fresh' = fresh + 2
    /\ UNCHANGED <<port, epoch, got, dropped>>

\* A protocol sends on an exchange it listens to and has heard from.  An
\* initiator turns acknowledgements on by then (sendPake1).
Send(n, i) ==
    /\ Use("send")
    /\ exchanges[n][i].listener
    /\ exchanges[n][i].ackCounter # NoAck
    /\ LET x == [exchanges[n][i] EXCEPT !.isAck = TRUE]
           s == sessions[n][x.session]
       IN /\ exchanges' = [exchanges EXCEPT ![n][i] = x]
          /\ sessions' = [sessions EXCEPT ![n][x.session].sent = @ + 1]
          /\ net' = net \cup {Datagram(n, i, x, s, FALSE)}
    /\ UNCHANGED <<port, nextEx, fresh, epoch, got, dropped>>

-----------------------------------------------------------------------------
(* Receiving: SessionManager.onMessage(), onUnsecuredMessage(), then       *)
(* ExchangeManager.onSessionMessage(), in one event.                       *)

\* The session made for a message that has none: it remembers the sender's
\* address and source node id, which a responder's message does not carry.
NewSession_NoNodeId(m) ==
    [peerInfo |-> m.from, peerNodeId |-> IF m.iflag THEN m.nodeId ELSE None,
     base |-> fresh, sent |-> 0, transport |-> "server"]
NewSession(m) ==
    [peerInfo |-> m.from, peerNodeId |-> IF m.iflag THEN m.nodeId ELSE NODE_ID_ANY,
     base |-> fresh, sent |-> 0, transport |-> "server"]

\* An exchange is found: it takes the counter to acknowledge and gets the
\* message.
Dispatch(n, i, m) ==
    /\ exchanges' = [exchanges EXCEPT ![n][i].ackCounter = m.counter]
    /\ got' = got \cup {[at |-> UidOf(n, i), msg |-> m]}
    /\ UNCHANGED dropped

\* No exchange is found: an initiator's message opens one, and a request gets
\* a listener (SessionProtocol.onProtocolMessage); another message is dropped.
Unsolicited(n, s, m) ==
    \/ /\ m.iflag
       /\ exchanges' = [exchanges EXCEPT ![n] = Append(@,
              [id |-> m.exchangeId, session |-> s, isInitiator |-> FALSE,
               isAck |-> TRUE, ackCounter |-> m.counter,
               listener |-> m.request, peer |-> m.src])]
       /\ got' = got \cup {[at |-> UidOf(n, Len(exchanges[n]) + 1), msg |-> m]}
       /\ UNCHANGED dropped
    \/ /\ ~m.iflag
       /\ dropped' = dropped \cup {m}
       /\ UNCHANGED <<exchanges, got>>

Receive(n, m) ==
    /\ m \in net
    /\ m.to \in {ServerAddr(n), ClientAddr(n)}
    /\ \/ net' = net \ {m} /\ UNCHANGED used
       \/ Use("dup") /\ UNCHANGED net
    /\ LET found == GetUnsecureSession(sessions[n], m.from, m.nodeId)
           s == IF found # 0 THEN found ELSE Len(sessions[n]) + 1
           i == GetExchange(exchanges[n], s, m)
       IN /\ IF found # 0 THEN UNCHANGED <<sessions, fresh>>
             ELSE /\ sessions' = [sessions EXCEPT ![n] = Append(@, NewSession(m))]
                  /\ fresh' = fresh + 1
          /\ IF i # 0 THEN Dispatch(n, i, m) ELSE Unsolicited(n, s, m)
    /\ UNCHANGED <<port, nextEx, epoch>>

\* UDP loses a datagram; so does a client port that is no longer open.
Lose(m) ==
    /\ m \in net
    /\ net' = net \ {m}
    /\ UNCHANGED <<port, sessions, exchanges, nextEx, fresh, used, epoch, got,
                   dropped>>

\* The process ends and starts again: the tables are empty, exchange ids
\* start from 0, and the client socket may or may not get its old port.
Restart(n) ==
    /\ Use("restart")
    /\ sessions' = [sessions EXCEPT ![n] = <<>>]
    /\ exchanges' = [exchanges EXCEPT ![n] = <<>>]
    /\ nextEx' = [nextEx EXCEPT ![n] = 0]
    /\ \E p \in Ports : port' = [port EXCEPT ![n] = p]
    /\ epoch' = [epoch EXCEPT ![n] = @ + 1]
    /\ UNCHANGED <<net, fresh, got, dropped>>

Next ==
    \/ \E n, peer \in Nodes : Open(n, peer)
    \/ \E n \in Nodes : \E i \in 1..Len(exchanges[n]) : Send(n, i)
    \/ \E n \in Nodes : \E m \in net : Receive(n, m)
    \/ \E m \in net : Lose(m)
    \/ \E n \in Nodes : Restart(n)

Spec == Init /\ [][Next]_vars

-----------------------------------------------------------------------------
(* Properties *)

\* A reply reaches the exchange whose request it answers and no other, across
\* restarts that begin exchange ids from 0 again on the same port.
RepliesReachRequester ==
    \A g \in got : ~g.msg.iflag => g.at = g.msg.peer

\* Requests of different exchanges (of different nodes, or of two runs of one
\* node) never share a responder exchange, and while the responder runs all
\* messages of one exchange reach the same responder exchange.
RequestsSeparated ==
    \A g, h \in got :
        g.msg.iflag /\ h.msg.iflag =>
            /\ g.at = h.at => g.msg.src = h.msg.src
            /\ /\ g.msg.src = h.msg.src
               /\ g.at.node = h.at.node
               /\ g.at.epoch = h.at.epoch
               => g.at = h.at

\* No reply is thrown away ("invalid responder message has no exchange") while
\* the process that opened the exchange is still running.
NoReplyDropped ==
    \A m \in dropped : m.peer.epoch < epoch[m.peer.node]

\* Every acknowledgement names a message that the sending exchange received
\* from the exchange at the other end.
AckNamesReceived ==
    \A m \in net : m.ack # NoAck =>
        \E g \in got :
            /\ g.at = m.src
            /\ g.msg.counter = m.ack
            /\ IF m.iflag THEN g.msg.peer = m.src ELSE g.msg.src = m.peer
=============================================================================
