-------------------------- MODULE InteractionModel --------------------------
(***************************************************************************)
(* The secure half of a node: SessionManager's table of secure sessions,   *)
(* the exchanges that ExchangeManager makes for unsolicited messages, and  *)
(* the interaction model with its clusters, which answers reads and        *)
(* commands, one of them (CsrRequest) after an await.                      *)
(*                                                                         *)
(* The node is a responder here: no code of the repository opens an        *)
(* exchange on a secure session.  Its peers are external: each holds the   *)
(* other half of a session that PASE made, or uses the well-known test     *)
(* keys, as the shell's msg command does.  The network loses, repeats and  *)
(* reorders: a datagram that was sent may arrive any number of times.      *)
(*                                                                         *)
(* A request is an InvokeCommandRequest with a list of commands, each with *)
(* the data that its handler expects, or a message of another kind.  The   *)
(* handler of a command is one step of the loop over the list; the loop is *)
(* one event, and no other event of the node runs before it ends.          *)
(*                                                                         *)
(* A key stands for the I2R and R2I keys and the attestation challenge     *)
(* that SessionCryptoContext derives from one secret.  A message that does *)
(* not decrypt is dispatched all the same, with the exchange header read   *)
(* from its ciphertext: any exchange id, either I flag, and a protocol id  *)
(* which (it is one of 65536) is taken not to name a registered protocol.  *)
(*                                                                         *)
(* A name such as NextCtr_Kept, defined just before the operator it is     *)
(* named after, is that operator with a bug: the properties are tried out  *)
(* on it.                                                                  *)
(***************************************************************************)
EXTENDS Naturals, Sequences, FiniteSetsExt

CONSTANTS
    Peers,         \* peers with a PASE session; each is also its own key
    TestPeers,     \* peers that use the test keys
    TestKey,       \* the keys of a new SessionCryptoContext
    SessionIds,    \* Crypto.RandomU16()
    ExchangeIds,
    Requests,      \* the lists of commands asked for, of those below
    None,
    MaxRequests, MaxExchanges, MaxRestarts     \* bounds

ASSUME PeersAssumption ==
    /\ Peers \cap TestPeers = {} /\ TestKey \notin Peers
    /\ None \notin Peers \cup [sid : SessionIds, own : SessionIds]
\* With the id 0, Session.sendMessage() would take the session for unsecured.
ASSUME SessionIdsAssumption == SessionIds \subseteq Nat \ {0}
ASSUME BoundsAssumption ==
    MaxRequests \in Nat /\ MaxExchanges \in Nat /\ MaxRestarts \in Nat

\* What becomes of a request: it is answered with data or with a status, or
\* not at all, or the handler throws, or it is one of the two below that work
\* on after their handler has returned.  A command is named as in the cluster's
\* onCommand().
GeneralCommissioning ==
    [ArmFailSafe |-> "data", SetRegulatoryConfig |-> "data",
     CommissioningComplete |-> "status"]
\* The first case refers to a class that the file does not import.
NetworkCommissioning == [ScanNetworks |-> "throw", ConnectNetwork |-> "throw"]
\* The handler refers to an `exchange` that is not declared.
Basic == [MfgSpecificPing |-> "throw"]
OperationalCredentials ==
    [AttestationRequest |-> "data", CertificateChainRequest |-> "data",
     AddTrustedRootCertificate |-> "status", UpdateNoc |-> "none",
     CsrRequest |-> "csr", AddNoc |-> "noc"]
\* onInvokeCommandRequest() itself: Endpoints.json names a cluster that has no
\* class, or does not have the endpoint.
InvokeCommand == [ClusterNotFound |-> "none", EndpointNotFound |-> "throw"]
\* onReadRequest(): ClusterOperationalCredentialsServer has no getAttribute().
Read == [ReadRequest |-> "data", ReadCredentials |-> "throw"]
\* The other opcodes: handlers that only log, and opcodes without one.
OtherOpcode ==
    [StatusResponse |-> "none", SubscribeRequest |-> "none",
     SubscribeResponse |-> "none", ReportData |-> "none",
     WriteRequest |-> "none", WriteResponse |-> "none",
     InvokeCommandResponse |-> "none", TimedRequest |-> "none",
     Unknown |-> "none"]
\* The shell's msg command: a protocol that no node registers a handler for.
ShellMessage == [Msg |-> "none"]

Handlers == {GeneralCommissioning, NetworkCommissioning, Basic,
             OperationalCredentials, InvokeCommand, Read, OtherOpcode,
             ShellMessage}

Commands == UNION {DOMAIN h : h \in Handlers}

\* Only commands come in lists of several.
ASSUME RequestsAssumption ==
    \A cmds \in Requests :
        /\ cmds \in Seq(Commands) \ {<<>>}
        /\ Len(cmds) > 1 => \A k \in 1..Len(cmds) :
               cmds[k] \notin UNION {DOMAIN h : h \in {Read, OtherOpcode, ShellMessage}}

Outcome(cmd) == (CHOOSE h \in Handlers : cmd \in DOMAIN h)[cmd]

\* The fields of a command's data: octet strings and others.
Data(cmd) ==
    CASE cmd \in {"AttestationRequest", "AddTrustedRootCertificate", "CsrRequest"} ->
            <<"bytes">>
      [] cmd = "AddNoc" -> <<"bytes", "bytes", "bytes", "number", "number">>
      [] cmd = "UpdateNoc" -> <<"bytes", "bytes">>
      [] cmd \in {"ArmFailSafe", "SetRegulatoryConfig", "CertificateChainRequest"} ->
            <<"number">>
      [] OTHER -> <<>>

\* Every handler decodes the whole request, and takes its data from the first
\* command of the list.
Decoded(cmds) == Data(cmds[1])

\* What the handler of the k-th command does with that data: it throws when a
\* field is missing, or is not an octet string that it converts at once.
Handled(cmds, k) ==
    LET fields == Decoded(cmds)
        needs == CASE cmds[k] = "AddNoc" -> 4
                   [] cmds[k] \in {"AttestationRequest", "CertificateChainRequest",
                                   "AddTrustedRootCertificate", "CsrRequest"} -> 1
                   [] OTHER -> 0
    IN  IF \/ Len(fields) < needs
           \/ cmds[k] = "AttestationRequest" /\ fields[1] # "bytes"
        THEN "throw" ELSE Outcome(cmds[k])

VARIABLES
    up,            \* the node's process runs
    sessions,      \* SecureSessions
    exchanges,     \* _exchanges: those on secure sessions
    call,          \* the loop over the commands of a request, or None
    jobs,          \* async functions that await
    peer,          \* the peers' halves of their sessions
    net,           \* the requests sent
    replies,       \* the responses sent
    executed,      \* history: the requests handled since the start, in order
    unread,        \* history: requests of a live session that did not decrypt
    restarts

imVars == <<up, sessions, exchanges, call, jobs, peer, net, replies, executed,
            unread, restarts>>

Key == Peers \cup {TestKey}
Session == [local : SessionIds, peer : SessionIds, key : Key,
            to : Peers \cup TestPeers \cup {None}, ctr : Nat]
Exchange == [s : Nat \ {0}, id : ExchangeIds]
Job == [kind : {"csr", "noc"}, s : Nat \ {0}, id : ExchangeIds,
        path : Nat \ {0}, nonce : (Peers \cup TestPeers) \X ExchangeIds,
        field : {"bytes", "number"}]
\* from, id: the peer and its exchange, which also name the request's nonces.
Request == [from : Peers \cup TestPeers, sid : SessionIds, key : Key,
            id : ExchangeIds, cmds : Requests]
\* The place of the next command in the request.
Call == [m : Request, k : Nat \ {0}]
\* path: the place of the command that is answered; nonce: the request whose
\* first command's data is answered.
Reply == [to : Peers \cup TestPeers, sid : SessionIds, key : Key, ctr : Nat,
          id : ExchangeIds, path : Nat \ {0}, kind : 
          {"data", "status", "csr", "noc"},
          nonce : (Peers \cup TestPeers) \X ExchangeIds, challenge : Key]

\* Sessions, exchanges and pending handlers of a node: every exchange and every
\* async handler that awaits refers to a session that SessionManager holds, and
\* a reply is sent to the address a message came from (Session.PeerInfo).
TypeOK ==
    /\ up \in BOOLEAN
    /\ sessions \in Seq(Session)
    /\ exchanges \in Seq(Exchange)
    /\ \A i \in 1..Len(exchanges) : exchanges[i].s \in 1..Len(sessions)
    /\ call # None => call \in Call /\ call.k <= Len(call.m.cmds) /\ up
    /\ jobs \subseteq Job
    /\ \A j \in jobs : j.s \in 1..Len(sessions)
    /\ peer \in [Peers \cup TestPeers ->
                    [sid : SessionIds, own : SessionIds] \cup {None}]
    /\ net \subseteq Request
    /\ replies \subseteq Reply
    /\ executed \in Seq(Request)
    /\ unread \subseteq Request
    /\ restarts \in 0..MaxRestarts

Init ==
    /\ up = TRUE
    /\ sessions = <<>>
    /\ exchanges = <<>>
    /\ call = None
    /\ jobs = {}
    /\ peer = [p \in Peers \cup TestPeers |-> None]
    /\ net = {}
    /\ replies = {}
    /\ executed = <<>>
    /\ unread = {}
    /\ restarts = 0

nodeVars == <<up, sessions, exchanges, call, jobs, replies, executed, unread,
              restarts>>

\* The node takes the next event.
Idle == up /\ call = None

-----------------------------------------------------------------------------
(* The peers.  What they do while the node is busy, they might as well do   *)
(* before.                                                                 *)

\* The end of PASE: PaseSession.createSecureSession() on the node, with the id
\* each side picked for itself; PaseSession's SessionIdsMirror.
Establish(p, local, own) ==
    /\ Idle
    /\ peer[p] = None
    /\ sessions' = Append(sessions, [local |-> local, peer |-> own, key |-> p,
                                     to |-> None, ctr |-> 0])
    /\ peer' = [peer EXCEPT ![p] = [sid |-> local, own |-> own]]
    /\ UNCHANGED <<up, exchanges, call, jobs, net, replies, executed, unread,
                   restarts>>

\* A peer with the test keys just picks an id: doMsg().
PickId(p, sid) ==
    /\ call = None
    /\ peer[p] = None
    /\ peer' = [peer EXCEPT ![p] = [sid |-> sid, own |-> sid]]
    /\ UNCHANGED <<nodeVars, net>>

PeerKey(p) == IF p \in Peers THEN p ELSE TestKey

Ask(p, id, cmds) ==
    /\ call = None
    /\ peer[p] # None
    /\ Cardinality(net) < MaxRequests
    /\ \A m \in net : m.from = p => m.id # id
    /\ net' = net \cup {[from |-> p, sid |-> peer[p].sid, key |-> PeerKey(p),
                         id |-> id, cmds |-> cmds]}
    /\ UNCHANGED <<nodeVars, peer>>

-----------------------------------------------------------------------------
(* SessionManager, Session and ExchangeManager *)

\* getSecureSession(): the first session with this PeerSessionId.
Matches(session, sid) == session.peer = sid

\* onSecureMessage(): the table after the lookup, and the session's place in
\* it.  A session is made up for an id that has none.
Table(sid) ==
    IF \E i \in 1..Len(sessions) : Matches(sessions[i], sid)
    THEN sessions
    ELSE Append(sessions, [local |-> sid, peer |-> sid, key |-> TestKey,
                           to |-> None, ctr |-> 0])

Place(table, sid) == Min({i \in 1..Len(table) : Matches(table[i], sid)})

\* Exchange.match(), for a message that is from an initiator.
Match_AsInitiator(exchange, table, s, sid, id) ==
    /\ exchange.id = id
    /\ table[s].local = sid
    /\ exchange.s = s
    /\ FALSE            \* isInitiator stays true, as its constructor sets it
Match(exchange, table, s, sid, id) ==
    /\ exchange.id = id
    /\ table[s].local = sid
    /\ exchange.s = s

Known(table, s, sid, id) ==
    \E i \in 1..Len(exchanges) : Match(exchanges[i], table, s, sid, id)

\* Session.sendMessage(): the R2I key and the next message counter, to the
\* address that the session's latest message came from.
NextCtr_Kept(ctr) == ctr
NextCtr(ctr) == ctr + 1

SendReply(table, s, id, path, kind, nonce) ==
    /\ replies' = replies \cup
           {[to |-> table[s].to, sid |-> table[s].peer, key |-> table[s].key,
             ctr |-> table[s].ctr, id |-> id, path |-> path, kind |-> kind,
             nonce |-> nonce, challenge |-> table[s].key]}
    /\ sessions' = [table EXCEPT ![s].ctr = NextCtr(@)]

-----------------------------------------------------------------------------
(* The handlers: what SessionManager.onMessage() does with one datagram *)

\* The session of a message, and the table with the sender's address in it.
Arrived_AddressKept(m) ==
    LET table == Table(m.sid)
    IN  [table EXCEPT ![Place(table, m.sid)].to = @]
Arrived(m) ==
    LET table == Table(m.sid)
    IN  [table EXCEPT ![Place(table, m.sid)].to = m.from]

At(m) == Place(Table(m.sid), m.sid)

Decrypts(m) == Arrived(m)[At(m)].key = m.key

\* Neither the I flag nor an exchange that matches: nothing but the session's
\* address changes.  Otherwise an exchange of id x that nobody listens to.
ReceiveGarbled(m, x) ==
    /\ Idle
    /\ ~Decrypts(m)
    /\ sessions' = Arrived(m)
    /\ \/ x = None /\ UNCHANGED exchanges
       \/ /\ x # None
          /\ Len(exchanges) < MaxExchanges
          /\ ~Known(Arrived(m), At(m), m.sid, x)
          /\ exchanges' = Append(exchanges, [s |-> At(m), id |-> x])
    /\ unread' = IF \E i \in 1..Len(sessions) : sessions[i].key = m.key
                 THEN unread \cup {m} ELSE unread
    /\ UNCHANGED <<up, call, jobs, peer, net, replies, executed, restarts>>

\* A message on an exchange the node has: the interaction model does not
\* listen to its exchanges.
ReceiveKnown(m) ==
    /\ Idle
    /\ Decrypts(m)
    /\ Known(Arrived(m), At(m), m.sid, m.id)
    /\ sessions' = Arrived(m)
    /\ UNCHANGED <<up, exchanges, call, jobs, peer, net, replies, executed,
                   unread, restarts>>

\* An unsolicited message: a new exchange, then onProtocolMessage().
Unsolicited(m) ==
    /\ Idle
    /\ Decrypts(m)
    /\ ~Known(Arrived(m), At(m), m.sid, m.id)
    /\ Len(exchanges) < MaxExchanges
    /\ sessions' = Arrived(m)
    /\ exchanges' = Append(exchanges, [s |-> At(m), id |-> m.id])
    /\ call' = [m |-> m, k |-> 1]
    /\ executed' = Append(executed, m)
    /\ UNCHANGED <<up, jobs, peer, net, replies, unread, restarts>>

Receive(m) ==
    \/ \E x \in ExchangeIds \cup {None} : ReceiveGarbled(m, x)
    \/ ReceiveKnown(m)
    \/ Unsolicited(m)

-----------------------------------------------------------------------------
(* The loop over the commands; other messages are handled like one command *)

Nonce(m) == <<m.from, m.id>>

\* The place of the command that is handled in the k-th round.
Current_FromTheEnd(cmds, k) == Len(cmds) - k + 1
Current(cmds, k) == k

\* One round whose handler does this.
Round(outcome) ==
    /\ up
    /\ call # None
    /\ Handled(call.m.cmds, Current(call.m.cmds, call.k)) = outcome
    /\ call' = IF outcome # "throw" /\ call.k < Len(call.m.cmds)
               THEN [call EXCEPT !.k = @ + 1] ELSE None
    /\ UNCHANGED <<exchanges, peer, net, executed, unread, restarts>>

Respond(kind) ==
    SendReply(sessions, At(call.m), call.m.id,
              Current(call.m.cmds, call.k), kind, Nonce(call.m))

OnAnswered ==
    \E kind \in {"data", "status"} :
        /\ Round(kind)
        /\ Respond(kind)
        /\ UNCHANGED <<up, jobs>>

OnIgnored ==
    /\ Round("none")
    /\ UNCHANGED <<up, sessions, jobs, replies>>

\* Nothing catches what a handler throws: the process ends.
OnThrows ==
    /\ Round("throw")
    /\ up' = FALSE
    /\ UNCHANGED <<sessions, jobs, replies>>

NewJob(kind) ==
    [kind |-> kind, s |-> At(call.m), id |-> call.m.id,
     path |-> Current(call.m.cmds, call.k), nonce |-> Nonce(call.m),
     field |-> Decoded(call.m.cmds)[1]]

\* onCsrRequest() up to the await of GenerateCsr().
OnCsrRequest_OnePending ==
    /\ Round("csr")
    /\ jobs' = {j \in jobs : j.kind # "csr"} \cup {NewJob("csr")}
    /\ UNCHANGED <<up, sessions, replies>>
OnCsrRequest ==
    /\ Round("csr")
    /\ jobs' = jobs \cup {NewJob("csr")}
    /\ UNCHANGED <<up, sessions, replies>>

\* onAddNoc() answers before the certificate is decoded.
OnAddNoc ==
    /\ Round("noc")
    /\ Respond("noc")
    /\ jobs' = jobs \cup {NewJob("noc")}
    /\ UNCHANGED up

HandleCommand ==
    \/ OnAnswered
    \/ OnIgnored
    \/ OnThrows
    \/ OnCsrRequest
    \/ OnAddNoc

-----------------------------------------------------------------------------
(* What runs after an await *)

\* The nonce that the pending sendCsrResponse() holds.
CsrNonce_Latest(j) ==
    LET m == executed[Len(executed)] IN Nonce(m)
CsrNonce(j) == j.nonce

\* The rest of sendCsrResponse().
CsrReady(j) ==
    /\ Idle
    /\ j.kind = "csr" /\ j.field = "bytes"
    /\ SendReply(sessions, j.s, j.id, j.path, "csr", CsrNonce(j))
    /\ jobs' = jobs \ {j}
    /\ UNCHANGED <<up, exchanges, call, peer, net, executed, unread, restarts>>

\* proccessNoc() ends.
NocDone(j) ==
    /\ Idle
    /\ j.kind = "noc"
    /\ jobs' = jobs \ {j}
    /\ UNCHANGED <<up, sessions, exchanges, call, peer, net, replies, executed,
                   unread, restarts>>

\* A certificate that cannot be decoded, or a nonce that is not an octet
\* string: nobody handles the rejection, which ends the process.
JobRejects(j) ==
    /\ Idle
    /\ j.kind = "noc" \/ j.field # "bytes"
    /\ jobs' = jobs \ {j}
    /\ up' = FALSE
    /\ UNCHANGED <<sessions, exchanges, call, peer, net, replies, executed,
                   unread, restarts>>

Continue(j) == CsrReady(j) \/ NocDone(j) \/ JobRejects(j)

Restart ==
    /\ restarts < MaxRestarts
    /\ restarts' = restarts + 1
    /\ up' = TRUE
    /\ sessions' = <<>>
    /\ exchanges' = <<>>
    /\ call' = None
    /\ jobs' = {}
    /\ executed' = <<>>
    /\ UNCHANGED <<peer, net, replies, unread>>

-----------------------------------------------------------------------------
Next ==
    \/ \E p \in Peers, local, own \in SessionIds : Establish(p, local, own)
    \/ \E p \in TestPeers, sid \in SessionIds : PickId(p, sid)
    \/ \E p \in Peers \cup TestPeers, id \in ExchangeIds, cmds \in Requests :
           Ask(p, id, cmds)
    \/ \E m \in net : Receive(m)
    \/ HandleCommand
    \/ \E j \in jobs : Continue(j)
    \/ Restart

Spec == Init /\ [][Next]_imVars

\* The loop goes on, and an await ends: GenerateCsr() and decode() do not wait
\* for anything outside.
FairSpec ==
    /\ Spec
    /\ WF_imVars(HandleCommand)
    /\ WF_imVars(\E j \in jobs : Continue(j))

-----------------------------------------------------------------------------
(* Properties *)

\* Duplicate detection is commented out in SessionManager, yet a request is
\* handled at most once between two restarts however often its datagram
\* arrives: the exchange that its first copy made absorbs the others.
HandledOnce ==
    \A i, j \in 1..Len(executed) : executed[i] = executed[j] => i = j

\* A response carries the nonce and the exchange of the request it answers, is
\* encrypted and signed with the keys of the session the request came on, and
\* is addressed with that session's id at the peer: also when other requests
\* are handled while a CSR is generated.  The nonce is the one in the request's
\* first command, whichever command is answered: handlers decode no other.
AnswersItsRequest ==
    \A r \in replies :
        \E m \in net :
            /\ r.nonce = <<m.from, m.id>>
            /\ r.id = m.id
            /\ r.path \in 1..Len(m.cmds) /\ r.kind = Handled(m.cmds, r.path)
            /\ r.key = m.key /\ r.challenge = m.key
            /\ r.sid = peer[m.from].own

\* No two messages are encrypted with the same key and message counter: the
\* nonce of AES-CCM is made of nothing else.  (The test keys are shared by
\* sessions that count on their own.)
CounterUsedOnce ==
    \A r1, r2 \in replies :
        (r1.key = r2.key /\ r1.key # TestKey /\ r1.ctr = r2.ctr) => r1 = r2

\* onInvokeCommandRequest() answers the commands of a list in their order, each
\* once, and skips none: when a command has its answer, so has every command
\* before it, unless it gets none, awaits, or has ended the process.  (On a
\* session of PASE; the test keys outlive a restart.)
CommandsInOrder ==
    \A r \in replies : r.key # TestKey =>
        LET same == {q \in replies : q.nonce = r.nonce /\ q.key = r.key}
            m == CHOOSE m \in net : Nonce(m) = r.nonce
        IN  /\ \A q \in same :
                  /\ q.path = r.path => q = r
                  /\ (q.path < r.path /\ q.kind # "csr") => q.ctr < r.ctr
            /\ \A k \in 1..(r.path - 1) :
                  \/ ~up \/ restarts > 0
                  \/ Handled(m.cmds, k) = "none"
                  \/ \E q \in same : q.path = k
                  \/ \E j \in jobs : j.nonce = r.nonce /\ j.path = k

\* A CSR request is answered unless the process ends first.
CsrAnswered ==
    \A p \in Peers \cup TestPeers, id \in ExchangeIds :
        (\E j \in jobs : j.kind = "csr" /\ j.nonce = <<p, id>>)
            ~> (\/ ~up \/ restarts > 0
                \/ \E r \in replies : r.kind = "csr" /\ r.nonce = <<p, id>>)

\* SessionManager "manages the table of active Session contexts, matches
\* messages with those sessions": a request sent on a session that the table
\* holds is decrypted with that session's key.
MatchesSession == unread = {}
=============================================================================
