---------------------------- MODULE PaseSession ----------------------------
(***************************************************************************)
(* Passcode-authenticated session establishment (PASE) between one client  *)
(* node and one server node, as coded in protocols/session/PaseSession.js  *)
(* and dispatched by protocols/session/SessionProtocol.js.                 *)
(*                                                                         *)
(* Every `pase` shell command opens an exchange of its own with one        *)
(* PaseSession object on each side, so the state of a side is a function   *)
(* of the exchange.  Both nodes are single-threaded event loops; the       *)
(* handlers onPbkdfParamResponse and onPake1 are async functions that      *)
(* suspend twice (generateVerifier, then startClient / startServer), so    *)
(* each of them is three steps.  Whether another event can run while a     *)
(* handler is suspended depends on the external spake2 library:            *)
(* AwaitYields covers both cases.                                          *)
(*                                                                         *)
(* Messages travel over UDP with no retransmission and no duplicate        *)
(* detection.  Random values (initiatorRandom, responderRandom, pA, pB)    *)
(* are fresh numbers; a SPAKE2+ secret is the injective term built from    *)
(* the context (both PBKDF messages), pA and pB, which stands for          *)
(* "both sides derive the same Ke, KcA, KcB iff they agree on all of it"   *)
(* (both sides use the same compiled-in passcode).                         *)
(*                                                                         *)
(* A name such as TimerArmed_NotPake3, defined just before the operator it *)
(* is named after, is that operator with a bug: the properties are tried   *)
(* out on it.                                                              *)
(***************************************************************************)
EXTENDS Naturals, Sequences

CONSTANTS
    Exchanges,     \* the handshakes: one exchange, one PaseSession per side
    SessionIds,    \* the values Crypto.RandomU16() may return
    None,          \* JavaScript's undefined
    Faults,        \* what each exchange may suffer: loss, early timeouts
    MaxDup,        \* how many times the network may deliver a message again
    MaxRestarts,   \* how many times the server process may restart
    AwaitYields    \* may events run while a handler is suspended in await?

ASSUME FaultsAssumption == Faults \in [Exchanges -> SUBSET {"loss", "timeout"}]
ASSUME BoundsAssumption == MaxDup \in Nat /\ MaxRestarts \in Nat
ASSUME NoneAssumption == None \notin [ex : Exchanges, sid : SessionIds]
ASSUME AwaitAssumption == AwaitYields \in BOOLEAN

State == {"IDLE", "AWAIT_PBKDF_PARAM_RSP", "AWAIT_PAKE1", "AWAIT_PAKE2",
          "AWAIT_PAKE3"}

Request  == [ex : Exchanges, sid : SessionIds]    \* encoded PBKDFParamRequest
Response == [sid : SessionIds, rnd : Nat]         \* encoded PBKDFParamResponse

\* computeContext(): the hash of the request and the response.
Context == [req : Request, rsp : Response]

\* The secret of spakeClient.finish / spakeServer.finish.
Secret == [ctx : Context, pA : Nat, pB : Nat]

\* A row of the secure session table.
SecureSession == [local : SessionIds, peer : SessionIds, key : Secret]

\* What was received so far on an exchange of the server: no exchange yet,
\* an exchange without a listener, or an exchange with a PaseSession.
ExchangeState == {"none", "bare", "pase"}

Message ==
    [op : {"ParamRequest"}, ex : Exchanges, req : Request]
        \cup [op : {"ParamResponse"}, ex : Exchanges, rsp : Response]
        \cup [op : {"Pake1"}, ex : Exchanges, pA : Nat]
        \cup [op : {"Pake2"}, ex : Exchanges, pB : Nat, cB : Secret]
        \cup [op : {"Pake3"}, ex : Exchanges, cA : Secret]
        \cup [op : {"StatusReport"}, ex : Exchanges]

VARIABLES
    (* the client's PaseSession objects *)
    cState,     \* _state
    cReq,       \* _pbkdfRequest, which carries _initiatorSessionId
    cRsp,       \* _pbkdfResponse, _responderSessionId and the context of _spake2
    cVerif,     \* number of onPbkdfParamResponse calls awaiting generateVerifier
    cStart,     \* the clients whose startClient is being awaited
    cClient,    \* _spakeClient and _pA
    cSessions,  \* the secure sessions the client created, in order
    (* the server's exchanges and PaseSession objects *)
    sExch, sState,
    sReq,       \* _pbkdfRequest, which carries _initiatorSessionId
    sRsp,       \* _pbkdfResponse, which carries _responderSessionId
    sSpake2,    \* the context of _spake2
    sPA,        \* _pA
    sVerif,     \* number of onPake1 calls awaiting generateVerifier
    sStart,     \* the servers whose startServer is being awaited
    sSecret,    \* #secret, _pB and _cB
    sSessions,  \* the secure sessions the server created, in order
    sUp,        \* the server process runs
    (* the network and the bounds *)
    net, dups, restarts,
    nonce,      \* per exchange, the next fresh random value
    sKeys       \* history: every secret the server ever derived

cVars == <<cState, cReq, cRsp, cVerif, cStart, cClient, cSessions>>
sVars == <<sExch, sState, sReq, sRsp, sSpake2, sPA, sVerif, sStart, sSecret,
           sSessions, sUp>>
vars == <<cVars, sVars, net, dups, restarts, nonce, sKeys>>

\* The fields of the two sides' PaseSession objects hold what their messages
\* put there: a handler that runs in its state never works with an undefined
\* request, response or secret, and a session has the keys of a secret.
TypeOK ==
    /\ cState \in [Exchanges -> State]
    /\ cReq \in [Exchanges -> Request \cup {None}]
    /\ cRsp \in [Exchanges -> Response \cup {None}]
    /\ cVerif \in [Exchanges -> Nat]
    /\ cStart \in [Exchanges -> SUBSET [ctx : Context, pA : Nat]]
    /\ cClient \in [Exchanges -> [ctx : Context, pA : Nat] \cup {None}]
    /\ cSessions \in [Exchanges -> Seq(SecureSession)]
    /\ sExch \in [Exchanges -> ExchangeState]
    /\ sState \in [Exchanges -> State]
    /\ sReq \in [Exchanges -> Request \cup {None}]
    /\ sRsp \in [Exchanges -> Response \cup {None}]
    /\ sSpake2 \in [Exchanges -> Context \cup {None}]
    /\ sPA \in [Exchanges -> Nat \cup {None}]
    /\ sVerif \in [Exchanges -> Nat]
    /\ sStart \in [Exchanges -> SUBSET [ctx : Context, pB : Nat]]
    /\ sSecret \in [Exchanges -> Secret \cup {None}]
    /\ sSessions \in [Exchanges -> Seq(SecureSession)]
    /\ sUp \in BOOLEAN
    /\ net \subseteq Message
    /\ dups \in 0..MaxDup
    /\ restarts \in 0..MaxRestarts
    /\ nonce \in [Exchanges -> Nat]
    /\ sKeys \in [Exchanges -> SUBSET Secret]

Init ==
    /\ cState = [e \in Exchanges |-> "IDLE"]
    /\ cReq = [e \in Exchanges |-> None]
    /\ cRsp = [e \in Exchanges |-> None]
    /\ cVerif = [e \in Exchanges |-> 0]
    /\ cStart = [e \in Exchanges |-> {}]
    /\ cClient = [e \in Exchanges |-> None]
    /\ cSessions = [e \in Exchanges |-> <<>>]
    /\ sExch = [e \in Exchanges |-> "none"]
    /\ sState = [e \in Exchanges |-> "IDLE"]
    /\ sReq = [e \in Exchanges |-> None]
    /\ sRsp = [e \in Exchanges |-> None]
    /\ sSpake2 = [e \in Exchanges |-> None]
    /\ sPA = [e \in Exchanges |-> None]
    /\ sVerif = [e \in Exchanges |-> 0]
    /\ sStart = [e \in Exchanges |-> {}]
    /\ sSecret = [e \in Exchanges |-> None]
    /\ sSessions = [e \in Exchanges |-> <<>>]
    /\ sUp = TRUE
    /\ net = {}
    /\ dups = 0
    /\ restarts = 0
    /\ nonce = [e \in Exchanges |-> 0]
    /\ sKeys = [e \in Exchanges |-> {}]

-----------------------------------------------------------------------------
(* The datagram network *)

Send(m) == net' = net \cup {m} /\ UNCHANGED dups

\* Receiving m and sending the messages of out.  The datagram leaves the
\* network unless it is one that the network will deliver once more.
Consume(m, out) ==
    /\ m \in net
    /\ \/ /\ net' = (net \ {m}) \cup out
          /\ UNCHANGED dups
       \/ /\ dups < MaxDup
          /\ net' = net \cup out
          /\ dups' = dups + 1

Lose(m) ==
    /\ m \in net
    /\ "loss" \in Faults[m.ex]
    /\ net' = net \ {m}
    /\ UNCHANGED <<cVars, sVars, dups, restarts, nonce, sKeys>>

-----------------------------------------------------------------------------
(* Event loops: a handler of a node may start when the process runs and,   *)
(* unless AwaitYields, when no handler of the node is suspended.           *)

CReady == AwaitYields \/ \A e \in Exchanges : cVerif[e] = 0 /\ cStart[e] = {}
SReady ==
    /\ sUp
    /\ AwaitYields \/ \A e \in Exchanges : sVerif[e] = 0 /\ sStart[e] = {}

\* setState(): the RESPONSE_TIMEOUT timer is armed in every state but IDLE.
TimerArmed_NotPake3(state) == state \notin {"IDLE", "AWAIT_PAKE3"}
TimerArmed(state) == state # "IDLE"

\* The timer is long: it only overtakes a datagram or a suspended handler of
\* its exchange where the exchange may suffer that.
MayExpire(e) ==
    \/ "timeout" \in Faults[e]
    \/ /\ \A m \in net : m.ex # e
       /\ cVerif[e] = 0 /\ cStart[e] = {}
       /\ sVerif[e] = 0 /\ sStart[e] = {}

\* createSecureSession() of each role.
InitiatorSession_DefaultKeys(req, rsp, secret) ==
    [local |-> req.sid, peer |-> rsp.sid, key |-> None]
InitiatorSession(req, rsp, secret) ==
    [local |-> req.sid, peer |-> rsp.sid, key |-> secret]
ResponderSession_NotSwapped(req, rsp, secret) ==
    [local |-> req.sid, peer |-> rsp.sid, key |-> secret]
ResponderSession(req, rsp, secret) ==
    [local |-> rsp.sid, peer |-> req.sid, key |-> secret]

-----------------------------------------------------------------------------
(* Client *)

\* doPase(): a new exchange and PaseSession, then startPase() and
\* sendPbkdfParamRequest().
StartPase(e) ==
    /\ CReady
    /\ cReq[e] = None
    /\ cState[e] = "IDLE"
    /\ \E sid \in SessionIds :
         LET req == [ex |-> e, sid |-> sid] IN
         /\ cReq' = [cReq EXCEPT ![e] = req]
         /\ Send([op |-> "ParamRequest", ex |-> e, req |-> req])
    /\ cState' = [cState EXCEPT ![e] = "AWAIT_PBKDF_PARAM_RSP"]
    /\ UNCHANGED <<cRsp, cVerif, cStart, cClient, cSessions, sVars, restarts,
                   nonce, sKeys>>

\* onPbkdfParamResponse() up to its first await.  It has no state check.
OnPbkdfParamResponse(e, m) ==
    /\ CReady
    /\ m.op = "ParamResponse" /\ m.ex = e
    /\ Consume(m, {})
    /\ cRsp' = [cRsp EXCEPT ![e] = m.rsp]
    /\ cVerif' = [cVerif EXCEPT ![e] = @ + 1]
    /\ UNCHANGED <<cState, cReq, cStart, cClient, cSessions, sVars, restarts,
                   nonce, sKeys>>

\* The verifier is there: startClient() on whatever _spake2 is now.
ClientVerifierReady(e) ==
    /\ cVerif[e] # 0
    /\ cVerif' = [cVerif EXCEPT ![e] = @ - 1]
    /\ cStart' = [cStart EXCEPT ![e] =
                    @ \cup {[ctx |-> [req |-> cReq[e], rsp |-> cRsp[e]],
                             pA |-> nonce[e]]}]
    /\ nonce' = [nonce EXCEPT ![e] = @ + 1]
    /\ UNCHANGED <<cState, cReq, cRsp, cClient, cSessions, sVars, net, dups,
                   restarts, sKeys>>

\* startClient() has resolved: the rest of onPbkdfParamResponse(), sendPake1().
SendPake1(e, client) ==
    /\ client \in cStart[e]
    /\ cStart' = [cStart EXCEPT ![e] = @ \ {client}]
    /\ cClient' = [cClient EXCEPT ![e] = client]
    /\ cState' = [cState EXCEPT ![e] = "AWAIT_PAKE2"]
    /\ Send([op |-> "Pake1", ex |-> e, pA |-> client.pA])
    /\ UNCHANGED <<cReq, cRsp, cVerif, cSessions, sVars, restarts, nonce, sKeys>>

\* The secret the client derives from a received pB.  cB is not looked at.
ClientSecret_LatestContext(e, pB) ==
    [ctx |-> [req |-> cReq[e], rsp |-> cRsp[e]], pA |-> nonce[e], pB |-> pB]
ClientSecret(e, pB) ==
    [ctx |-> cClient[e].ctx, pA |-> cClient[e].pA, pB |-> pB]

\* The state check of onPake2().
AcceptsPake2_NoCheck(e) == cClient[e] # None
AcceptsPake2(e) == cState[e] = "AWAIT_PAKE2"

\* onPake2(), sendPake3(), createSecureSession().
OnPake2(e, m) ==
    /\ CReady
    /\ m.op = "Pake2" /\ m.ex = e
    /\ AcceptsPake2(e)
    /\ LET secret == ClientSecret(e, m.pB) IN
       /\ Consume(m, {[op |-> "Pake3", ex |-> e, cA |-> secret]})
       /\ cSessions' = [cSessions EXCEPT ![e] =
                          Append(@, InitiatorSession(cReq[e], cRsp[e], secret))]
    /\ cState' = [cState EXCEPT ![e] = "IDLE"]
    /\ UNCHANGED <<cReq, cRsp, cVerif, cStart, cClient, sVars, restarts, nonce,
                   sKeys>>

\* A Pake2 in another state and a status report are dropped.
ClientDrop(e, m) ==
    /\ CReady
    /\ m.ex = e
    /\ \/ m.op = "Pake2" /\ ~AcceptsPake2(e)
       \/ m.op = "StatusReport"
    /\ Consume(m, {})
    /\ UNCHANGED <<cVars, sVars, restarts, nonce, sKeys>>

\* The RESPONSE_TIMEOUT timer fires.
ClientTimeout(e) ==
    /\ MayExpire(e)
    /\ CReady
    /\ TimerArmed(cState[e])
    /\ cState' = [cState EXCEPT ![e] = "IDLE"]
    /\ UNCHANGED <<cReq, cRsp, cVerif, cStart, cClient, cSessions, sVars, net,
                   dups, restarts, nonce, sKeys>>

-----------------------------------------------------------------------------
(* Server *)

\* The first ParamRequest of an exchange creates its PaseSession; a later one
\* reaches the same object.  onPbkdfParamRequest(), sendPbkdfParamResponse().
OnPbkdfParamRequest(e, m) ==
    /\ SReady
    /\ m.op = "ParamRequest" /\ m.ex = e
    /\ sExch[e] # "bare"
    /\ sState[e] = "IDLE"
    /\ sExch' = [sExch EXCEPT ![e] = "pase"]
    /\ sReq' = [sReq EXCEPT ![e] = m.req]
    /\ \E sid \in SessionIds :
         LET rsp == [sid |-> sid, rnd |-> nonce[e]] IN
         /\ sRsp' = [sRsp EXCEPT ![e] = rsp]
         /\ Consume(m, {[op |-> "ParamResponse", ex |-> e, rsp |-> rsp]})
    /\ nonce' = [nonce EXCEPT ![e] = @ + 1]
    /\ sState' = [sState EXCEPT ![e] = "AWAIT_PAKE1"]
    /\ UNCHANGED <<cVars, sSpake2, sPA, sVerif, sStart, sSecret, sSessions,
                   sUp, restarts, sKeys>>

\* onPake1() up to its first await; the state stays AWAIT_PAKE1.
OnPake1(e, m) ==
    /\ SReady
    /\ m.op = "Pake1" /\ m.ex = e
    /\ sExch[e] = "pase"
    /\ sState[e] = "AWAIT_PAKE1"
    /\ Consume(m, {})
    /\ sPA' = [sPA EXCEPT ![e] = m.pA]
    /\ sSpake2' = [sSpake2 EXCEPT ![e] = [req |-> sReq[e], rsp |-> sRsp[e]]]
    /\ sVerif' = [sVerif EXCEPT ![e] = @ + 1]
    /\ UNCHANGED <<cVars, sExch, sState, sReq, sRsp, sStart, sSecret, sSessions,
                   sUp, restarts, nonce, sKeys>>

\* The verifier is there: startServer() on whatever _spake2 is now.
ServerVerifierReady(e) ==
    /\ sUp
    /\ sVerif[e] # 0
    /\ sVerif' = [sVerif EXCEPT ![e] = @ - 1]
    /\ sStart' = [sStart EXCEPT ![e] =
                    @ \cup {[ctx |-> sSpake2[e], pB |-> nonce[e]]}]
    /\ nonce' = [nonce EXCEPT ![e] = @ + 1]
    /\ UNCHANGED <<cVars, sExch, sState, sReq, sRsp, sSpake2, sPA, sSecret,
                   sSessions, sUp, net, dups, restarts, sKeys>>

\* The secret server.finish() derives from whatever _pA is now.
ServerSecret(e, server) ==
    [ctx |-> server.ctx, pA |-> sPA[e], pB |-> server.pB]

SendPake2_OpensSession(e, server) ==
    /\ sUp
    /\ server \in sStart[e]
    /\ sStart' = [sStart EXCEPT ![e] = @ \ {server}]
    /\ LET secret == ServerSecret(e, server) IN
       /\ sSecret' = [sSecret EXCEPT ![e] = secret]
       /\ sKeys' = [sKeys EXCEPT ![e] = @ \cup {secret}]
       /\ Send([op |-> "Pake2", ex |-> e, pB |-> server.pB, cB |-> secret])
       /\ sSessions' = [sSessions EXCEPT ![e] =
                          Append(@, ResponderSession(sReq[e], sRsp[e], secret))]
    /\ sState' = [sState EXCEPT ![e] = "AWAIT_PAKE3"]
    /\ UNCHANGED <<cVars, sExch, sReq, sRsp, sSpake2, sPA, sVerif, sUp,
                   restarts, nonce>>
\* startServer() has resolved: the rest of onPake1(), sendPake2().
SendPake2(e, server) ==
    /\ sUp
    /\ server \in sStart[e]
    /\ sStart' = [sStart EXCEPT ![e] = @ \ {server}]
    /\ LET secret == ServerSecret(e, server) IN
       /\ sSecret' = [sSecret EXCEPT ![e] = secret]
       /\ sKeys' = [sKeys EXCEPT ![e] = @ \cup {secret}]
       /\ Send([op |-> "Pake2", ex |-> e, pB |-> server.pB, cB |-> secret])
    /\ sState' = [sState EXCEPT ![e] = "AWAIT_PAKE3"]
    /\ UNCHANGED <<cVars, sExch, sReq, sRsp, sSpake2, sPA, sVerif, sSessions,
                   sUp, restarts, nonce>>

\* #secret.verifyHash(): cA was made with the KcA of the server's secret.
VerifyHash(e, cA) == cA = sSecret[e]

\* onPake3() when verifyHash() accepts: status report, session, IDLE.
OnPake3(e, m) ==
    /\ SReady
    /\ m.op = "Pake3" /\ m.ex = e
    /\ sExch[e] = "pase"
    /\ sState[e] = "AWAIT_PAKE3"
    /\ VerifyHash(e, m.cA)
    /\ Consume(m, {[op |-> "StatusReport", ex |-> e]})
    /\ sSessions' = [sSessions EXCEPT ![e] =
                       Append(@, ResponderSession(sReq[e], sRsp[e], sSecret[e]))]
    /\ sState' = [sState EXCEPT ![e] = "IDLE"]
    /\ UNCHANGED <<cVars, sExch, sReq, sRsp, sSpake2, sPA, sVerif, sStart,
                   sSecret, sUp, restarts, nonce, sKeys>>

\* onPake3() when verifyHash() throws: nothing catches it, the process dies.
OnPake3Throws(e, m) ==
    /\ SReady
    /\ m.op = "Pake3" /\ m.ex = e
    /\ sExch[e] = "pase"
    /\ sState[e] = "AWAIT_PAKE3"
    /\ ~VerifyHash(e, m.cA)
    /\ Consume(m, {})
    /\ sUp' = FALSE
    /\ UNCHANGED <<cVars, sExch, sState, sReq, sRsp, sSpake2, sPA, sVerif,
                   sStart, sSecret, sSessions, restarts, nonce, sKeys>>

\* A message the PaseSession rejects because of its state, or that comes to
\* an exchange with no listener; one that opens the exchange without being a
\* ParamRequest leaves an exchange that nobody listens to.
ServerDrop(e, m) ==
    /\ SReady
    /\ m.ex = e
    /\ m.op \in {"ParamRequest", "Pake1", "Pake3"}
    /\ \/ sExch[e] = "bare"
       \/ sExch[e] = "none" /\ m.op # "ParamRequest"
       \/ /\ sExch[e] = "pase"
          /\ \/ m.op = "ParamRequest" /\ sState[e] # "IDLE"
             \/ m.op = "Pake1" /\ sState[e] # "AWAIT_PAKE1"
             \/ m.op = "Pake3" /\ sState[e] # "AWAIT_PAKE3"
    /\ Consume(m, {})
    /\ sExch' = [sExch EXCEPT ![e] = IF @ = "none" THEN "bare" ELSE @]
    /\ UNCHANGED <<cVars, sState, sReq, sRsp, sSpake2, sPA, sVerif, sStart,
                   sSecret, sSessions, sUp, restarts, nonce, sKeys>>

ServerTimeout(e) ==
    /\ MayExpire(e)
    /\ SReady
    /\ TimerArmed(sState[e])
    /\ sState' = [sState EXCEPT ![e] = "IDLE"]
    /\ UNCHANGED <<cVars, sExch, sReq, sRsp, sSpake2, sPA, sVerif, sStart,
                   sSecret, sSessions, sUp, net, dups, restarts, nonce, sKeys>>

\* The server process stops (at any point) and is started again: exchanges,
\* PaseSessions and sessions live in memory only.
ServerRestart ==
    /\ restarts < MaxRestarts
    /\ restarts' = restarts + 1
    /\ sExch' = [e \in Exchanges |-> "none"]
    /\ sState' = [e \in Exchanges |-> "IDLE"]
    /\ sReq' = [e \in Exchanges |-> None]
    /\ sRsp' = [e \in Exchanges |-> None]
    /\ sSpake2' = [e \in Exchanges |-> None]
    /\ sPA' = [e \in Exchanges |-> None]
    /\ sVerif' = [e \in Exchanges |-> 0]
    /\ sStart' = [e \in Exchanges |-> {}]
    /\ sSecret' = [e \in Exchanges |-> None]
    /\ sSessions' = [e \in Exchanges |-> <<>>]
    /\ sUp' = TRUE
    /\ UNCHANGED <<cVars, net, dups, nonce, sKeys>>

-----------------------------------------------------------------------------

ClientReceive(e, m) ==
    \/ OnPbkdfParamResponse(e, m)
    \/ OnPake2(e, m)
    \/ ClientDrop(e, m)

ServerReceive(e, m) ==
    \/ OnPbkdfParamRequest(e, m)
    \/ OnPake1(e, m)
    \/ OnPake3(e, m)
    \/ OnPake3Throws(e, m)
    \/ ServerDrop(e, m)

ClientContinue(e) ==
    \/ ClientVerifierReady(e)
    \/ \E client \in cStart[e] : SendPake1(e, client)

ServerContinue(e) ==
    \/ ServerVerifierReady(e)
    \/ \E server \in sStart[e] : SendPake2(e, server)

Next ==
    \/ \E e \in Exchanges :
         \/ StartPase(e)
         \/ ClientContinue(e)
         \/ ClientTimeout(e)
         \/ ServerContinue(e)
         \/ ServerTimeout(e)
         \/ \E m \in net : ClientReceive(e, m) \/ ServerReceive(e, m)
    \/ \E m \in net : Lose(m)
    \/ ServerRestart

Spec == Init /\ [][Next]_vars

\* Node's event loop delivers queued datagrams, resumes suspended handlers and
\* fires due timers.  Nothing obliges a user to start a handshake, the network
\* to lose or repeat a datagram, or the server to restart.
Fairness ==
    \A e \in Exchanges :
        /\ WF_vars(ClientContinue(e))
        /\ WF_vars(ServerContinue(e))
        /\ WF_vars(ClientTimeout(e))
        /\ WF_vars(ServerTimeout(e))
        /\ WF_vars(\E m \in net : ClientReceive(e, m))
        /\ WF_vars(\E m \in net : ServerReceive(e, m))

FairSpec == Spec /\ Fairness

-----------------------------------------------------------------------------
(* Properties *)

Table(sessions) == {sessions[i] : i \in 1..Len(sessions)}

\* Key confirmation: the server only opens a secure session (onPake3 after
\* verifyHash) under a secret with which the client opened one too, and it
\* names the session id the client chose in its PBKDFParamRequest.  The
\* client needs no message for that after its own Pake3.
ServerKeyConfirmed ==
    \A e \in Exchanges : \A s \in Table(sSessions[e]) :
        \E c \in Table(cSessions[e]) : c.key = s.key /\ c.local = s.peer

\* The two session tables mirror each other: for every secure session of the
\* server the client has one with the same key and the same two session ids,
\* local and peer exchanged (createSecureSession of the two roles).
SessionIdsMirror ==
    \A e \in Exchanges : \A s \in Table(sSessions[e]) :
        \E c \in Table(cSessions[e]) :
            c = [local |-> s.peer, peer |-> s.local, key |-> s.key]

\* A repeated Pake2 or Pake3 never opens a second session under a secret that
\* already has one: the state check and the return to IDLE in onPake2 /
\* sendPake3 and onPake3 are the only defence against replays.
NoKeyReuse ==
    \A e \in Exchanges : \A t \in {cSessions[e], sSessions[e]} :
        \A i, j \in 1..Len(t) : t[i].key = t[j].key => i = j

\* The client only opens a secure session under a secret the server derived:
\* the credentials createSecureSession injects were negotiated.
ClientKeyNegotiated ==
    \A e \in Exchanges : \A c \in Table(cSessions[e]) : c.key \in sKeys[e]

\* No Pake3 makes verifyHash throw in the server process.
ServerSurvives == sUp

\* No PASE state machine stays out of IDLE forever, whatever is lost: the
\* response timer that setState() arms always brings it back.
NoHang ==
    \A e \in Exchanges :
        /\ cState[e] # "IDLE" ~> cState[e] = "IDLE"
        /\ sState[e] # "IDLE" ~> (sState[e] = "IDLE" \/ ~sUp)

\* A handshake that suffers no fault of its own completes, whatever happens to
\* the others on the same two nodes, unless the server restarts: both sides end
\* IDLE with exactly one session each, mirrored and under the same secret.
HandshakeCompletes ==
    \A e \in {x \in Exchanges : Faults[x] = {}} :
        cReq[e] # None ~>
            \/ restarts > 0
            \/ /\ cState[e] = "IDLE" /\ sState[e] = "IDLE"
               /\ Len(cSessions[e]) = 1 /\ Len(sSessions[e]) = 1
               /\ cSessions[e][1] = [local |-> sSessions[e][1].peer,
                                     peer  |-> sSessions[e][1].local,
                                     key   |-> sSessions[e][1].key]
=============================================================================
