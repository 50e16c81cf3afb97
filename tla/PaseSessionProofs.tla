------------------------- MODULE PaseSessionProofs -------------------------
(***************************************************************************)
(* Proofs about PaseSession for any set of handshakes, any session ids,    *)
(* any number of duplicated datagrams and server restarts.                 *)
(***************************************************************************)
EXTENDS PaseSession, TLAPS

(***************************************************************************)
(* TypeOK is not inductive: a suspended handler reads fields that an       *)
(* earlier step must have set.  FieldsSet says which fields are set when.  *)
(***************************************************************************)
ClientFieldsSet ==
    \A e \in Exchanges :
        /\ cRsp[e] # None => cRsp[e] \in Response /\ cReq[e] \in Request
        /\ cVerif[e] # 0 => cRsp[e] \in Response /\ cReq[e] \in Request
        /\ cState[e] = "AWAIT_PAKE2" =>
             /\ cClient[e] \in [ctx : Context, pA : Nat]
             /\ cRsp[e] \in Response
             /\ cReq[e] \in Request
        /\ cStart[e] # {} => cRsp[e] \in Response /\ cReq[e] \in Request

ServerFieldsSet ==
    \A e \in Exchanges :
        /\ sState[e] \in {"AWAIT_PAKE1", "AWAIT_PAKE3"} =>
             sReq[e] \in Request /\ sRsp[e] \in Response
        /\ sVerif[e] # 0 =>
             /\ sSpake2[e] \in Context /\ sPA[e] \in Nat
             /\ sReq[e] \in Request /\ sRsp[e] \in Response
        /\ sStart[e] # {} =>
             sPA[e] \in Nat /\ sReq[e] \in Request /\ sRsp[e] \in Response
        /\ sState[e] = "AWAIT_PAKE3" => sSecret[e] \in Secret

NetFieldsSet ==
    \A m \in net : m.op \in {"ParamRequest", "ParamResponse"} =>
        cReq[m.ex] \in Request

TypeInv == TypeOK /\ ClientFieldsSet /\ ServerFieldsSet /\ NetFieldsSet

-----------------------------------------------------------------------------

\* What a handler may rely on after Consume: the datagram was in the network
\* and nothing but the given answers is added to it.
LEMMA ConsumeFacts ==
    ASSUME NEW m, NEW out, Consume(m, out), dups \in 0..MaxDup
    PROVE  /\ m \in net
           /\ net' \subseteq net \cup out
           /\ dups' \in 0..MaxDup
BY BoundsAssumption DEF Consume

\* Initially the fields are well typed.
LEMMA TypeInit == Init => TypeInv
<1> SUFFICES ASSUME Init PROVE TypeInv
  OBVIOUS
<1>1. TypeOK
  BY BoundsAssumption DEF Init, TypeOK, State, ExchangeState
<1>2. ClientFieldsSet
  <2>1. \A e \in Exchanges : /\ cRsp[e] = None
                             /\ cVerif[e] = 0
                             /\ cState[e] = "IDLE"
                             /\ cStart[e] = {}
    BY DEF Init
  <2> QED
    BY <2>1 DEF ClientFieldsSet
<1>3. ServerFieldsSet
  <2>1. \A e \in Exchanges : /\ sVerif[e] = 0
                             /\ sState[e] = "IDLE"
                             /\ sStart[e] = {}
    BY DEF Init
  <2> QED
    BY <2>1 DEF ServerFieldsSet
<1>4. NetFieldsSet
  BY DEF Init, NetFieldsSet
<1> QED
  BY <1>1, <1>2, <1>3, <1>4 DEF TypeInv

\* Every step keeps the fields well typed and set.
LEMMA TypeStep == TypeInv /\ [Next]_vars => TypeInv'
<1> SUFFICES ASSUME TypeInv, [Next]_vars
             PROVE  TypeInv'
  OBVIOUS
<1> USE DEF TypeInv
<1>1. ASSUME NEW e \in Exchanges, StartPase(e)
      PROVE  TypeInv'
  <2>1. PICK sid \in SessionIds :
          /\ cReq' = [cReq EXCEPT ![e] = [ex |-> e, sid |-> sid]]
          /\ net' = net \cup {[op |-> "ParamRequest", ex |-> e,
                               req |-> [ex |-> e, sid |-> sid]]}
          /\ dups' = dups
    BY <1>1 DEF StartPase, Send
  <2>2. [ex |-> e, sid |-> sid] \in Request
    BY DEF Request
  <2>3. TypeOK'
    BY <1>1, <2>1, <2>2 DEF StartPase, TypeOK, State, Message, sVars
  <2>4. ClientFieldsSet'
    BY <1>1, <2>1, <2>2 DEF StartPase, TypeOK, ClientFieldsSet
  <2>5. ServerFieldsSet'
    BY <1>1 DEF StartPase, ServerFieldsSet, sVars
  <2>6. NetFieldsSet'
    BY <2>1, <2>2 DEF TypeOK, NetFieldsSet
  <2> QED
    BY <2>3, <2>4, <2>5, <2>6
<1>2. ASSUME NEW e \in Exchanges, NEW m \in net, OnPbkdfParamResponse(e, m)
      PROVE  TypeInv'
  <2>1. net' \subseteq net /\ dups' \in 0..MaxDup
    BY <1>2, ConsumeFacts DEF OnPbkdfParamResponse, TypeOK
  <2>2. m.rsp \in Response /\ cReq[e] \in Request
    BY <1>2 DEF OnPbkdfParamResponse, TypeOK, Message, NetFieldsSet
  <2>3. TypeOK'
    BY <1>2, <2>1, <2>2 DEF OnPbkdfParamResponse, TypeOK, sVars
  <2>4. ClientFieldsSet'
    BY <1>2, <2>2 DEF OnPbkdfParamResponse, TypeOK, ClientFieldsSet
  <2>5. ServerFieldsSet'
    BY <1>2 DEF OnPbkdfParamResponse, ServerFieldsSet, sVars
  <2>6. NetFieldsSet'
    BY <1>2, <2>1 DEF OnPbkdfParamResponse, NetFieldsSet
  <2> QED
    BY <2>3, <2>4, <2>5, <2>6
<1>3. ASSUME NEW e \in Exchanges, ClientVerifierReady(e)
      PROVE  TypeInv'
  <2>1. cRsp[e] \in Response /\ cReq[e] \in Request
    BY <1>3 DEF ClientVerifierReady, ClientFieldsSet
  <2>2. [ctx |-> [req |-> cReq[e], rsp |-> cRsp[e]], pA |-> nonce[e]]
          \in [ctx : Context, pA : Nat]
    BY <2>1 DEF Context, TypeOK
  <2>a. cVerif' \in [Exchanges -> Nat]
    <3>1. cVerif[e] - 1 \in Nat
      BY <1>3 DEF ClientVerifierReady, TypeOK
    <3> QED
      BY <1>3, <3>1 DEF ClientVerifierReady, TypeOK
  <2>3. TypeOK'
    BY <1>3, <2>2, <2>a DEF ClientVerifierReady, TypeOK, sVars
  <2>4. ClientFieldsSet'
    BY <1>3, <2>1 DEF ClientVerifierReady, TypeOK, ClientFieldsSet
  <2>5. ServerFieldsSet'
    BY <1>3 DEF ClientVerifierReady, ServerFieldsSet, sVars
  <2>6. NetFieldsSet'
    BY <1>3 DEF ClientVerifierReady, NetFieldsSet
  <2> QED
    BY <2>3, <2>4, <2>5, <2>6
<1>4. ASSUME NEW e \in Exchanges, NEW c \in cStart[e], SendPake1(e, c)
      PROVE  TypeInv'
  <2>1. c \in [ctx : Context, pA : Nat] /\ cRsp[e] \in Response /\ cReq[e] \in Request
    BY <1>4 DEF TypeOK, ClientFieldsSet
  <2>2. net' = net \cup {[op |-> "Pake1", ex |-> e, pA |-> c.pA]} /\ dups' = dups
    BY <1>4 DEF SendPake1, Send
  <2>3. TypeOK'
    BY <1>4, <2>1, <2>2 DEF SendPake1, TypeOK, State, Message, sVars
  <2>4. ClientFieldsSet'
    BY <1>4, <2>1 DEF SendPake1, TypeOK, ClientFieldsSet
  <2>5. ServerFieldsSet'
    BY <1>4 DEF SendPake1, ServerFieldsSet, sVars
  <2>6. NetFieldsSet'
    BY <1>4, <2>2 DEF SendPake1, NetFieldsSet
  <2> QED
    BY <2>3, <2>4, <2>5, <2>6
<1>5. ASSUME NEW e \in Exchanges, NEW m \in net, OnPake2(e, m)
      PROVE  TypeInv'
  <2> DEFINE secret == ClientSecret(e, m.pB)
  <2>1. /\ net' \subseteq net \cup {[op |-> "Pake3", ex |-> e, cA |-> secret]}
        /\ dups' \in 0..MaxDup
    BY <1>5, ConsumeFacts DEF OnPake2, TypeOK
  <2>2. /\ cRsp[e] \in Response /\ cReq[e] \in Request
        /\ cClient[e] \in [ctx : Context, pA : Nat]
        /\ m.pB \in Nat
    BY <1>5 DEF OnPake2, AcceptsPake2, ClientFieldsSet, TypeOK, Message
  <2>a. secret \in Secret
    BY <2>2 DEF ClientSecret, Secret
  <2>b. InitiatorSession(cReq[e], cRsp[e], secret) \in SecureSession
    BY <2>2, <2>a DEF InitiatorSession, SecureSession, Request, Response
  <2>c. cSessions' \in [Exchanges -> Seq(SecureSession)]
    BY <1>5, <2>b DEF OnPake2, TypeOK
  <2>d. net' \subseteq Message
    BY <2>1, <2>a DEF TypeOK, Message
  <2>3. TypeOK'
    BY <1>5, <2>1, <2>c, <2>d DEF OnPake2, TypeOK, State, sVars
  <2>4. ClientFieldsSet'
    BY <1>5 DEF OnPake2, TypeOK, ClientFieldsSet
  <2>5. ServerFieldsSet'
    BY <1>5 DEF OnPake2, ServerFieldsSet, sVars
  <2>6. NetFieldsSet'
    BY <1>5, <2>1 DEF OnPake2, NetFieldsSet
  <2> QED
    BY <2>3, <2>4, <2>5, <2>6
<1>6. ASSUME NEW e \in Exchanges, NEW m \in net, ClientDrop(e, m)
      PROVE  TypeInv'
  <2>1. net' \subseteq net /\ dups' \in 0..MaxDup
    BY <1>6, ConsumeFacts DEF ClientDrop, TypeOK
  <2>3. TypeOK'
    BY <1>6, <2>1 DEF ClientDrop, TypeOK, cVars, sVars
  <2>4. ClientFieldsSet'
    BY <1>6 DEF ClientDrop, ClientFieldsSet, cVars
  <2>5. ServerFieldsSet'
    BY <1>6 DEF ClientDrop, ServerFieldsSet, sVars
  <2>6. NetFieldsSet'
    BY <1>6, <2>1 DEF ClientDrop, NetFieldsSet, cVars
  <2> QED
    BY <2>3, <2>4, <2>5, <2>6
<1>7. ASSUME NEW e \in Exchanges, ClientTimeout(e)
      PROVE  TypeInv'
  <2>3. TypeOK'
    BY <1>7 DEF ClientTimeout, TypeOK, State, sVars
  <2>4. ClientFieldsSet'
    BY <1>7 DEF ClientTimeout, TypeOK, ClientFieldsSet
  <2>5. ServerFieldsSet'
    BY <1>7 DEF ClientTimeout, ServerFieldsSet, sVars
  <2>6. NetFieldsSet'
    BY <1>7 DEF ClientTimeout, NetFieldsSet
  <2> QED
    BY <2>3, <2>4, <2>5, <2>6
<1>8. ASSUME NEW e \in Exchanges, NEW m \in net, OnPbkdfParamRequest(e, m)
      PROVE  TypeInv'
  <2>1. PICK sid \in SessionIds :
          /\ sRsp' = [sRsp EXCEPT ![e] = [sid |-> sid, rnd |-> nonce[e]]]
          /\ Consume(m, {[op |-> "ParamResponse", ex |-> e,
                          rsp |-> [sid |-> sid, rnd |-> nonce[e]]]})
    BY <1>8 DEF OnPbkdfParamRequest
  <2>2. /\ [sid |-> sid, rnd |-> nonce[e]] \in Response
        /\ m.req \in Request
        /\ cReq[e] \in Request
    BY <1>8 DEF OnPbkdfParamRequest, TypeOK, Message, Response, NetFieldsSet
  <2>a. /\ net' \subseteq net \cup {[op |-> "ParamResponse", ex |-> e,
                          rsp |-> [sid |-> sid, rnd |-> nonce[e]]]}
        /\ dups' \in 0..MaxDup
    BY <2>1, ConsumeFacts DEF TypeOK
  <2>b. net' \subseteq Message
    BY <2>a, <2>2 DEF TypeOK, Message
  <2>3. TypeOK'
    BY <1>8, <2>1, <2>2, <2>a, <2>b
    DEF OnPbkdfParamRequest, TypeOK, State, ExchangeState, cVars
  <2>4. ClientFieldsSet'
    BY <1>8 DEF OnPbkdfParamRequest, ClientFieldsSet, cVars
  <2>5. ServerFieldsSet'
    BY <1>8, <2>1, <2>2 DEF OnPbkdfParamRequest, TypeOK, ServerFieldsSet
  <2>6. NetFieldsSet'
    BY <1>8, <2>a, <2>2 DEF OnPbkdfParamRequest, NetFieldsSet, cVars
  <2> QED
    BY <2>3, <2>4, <2>5, <2>6
<1>9. ASSUME NEW e \in Exchanges, NEW m \in net, OnPake1(e, m)
      PROVE  TypeInv'
  <2>1. net' \subseteq net /\ dups' \in 0..MaxDup
    BY <1>9, ConsumeFacts DEF OnPake1, TypeOK
  <2>2. /\ m.pA \in Nat /\ sReq[e] \in Request /\ sRsp[e] \in Response
        /\ [req |-> sReq[e], rsp |-> sRsp[e]] \in Context
    BY <1>9 DEF OnPake1, TypeOK, Message, ServerFieldsSet, Context
  <2>3. TypeOK'
    BY <1>9, <2>1, <2>2 DEF OnPake1, TypeOK, cVars
  <2>4. ClientFieldsSet'
    BY <1>9 DEF OnPake1, ClientFieldsSet, cVars
  <2>5. ServerFieldsSet'
    BY <1>9, <2>2 DEF OnPake1, TypeOK, ServerFieldsSet
  <2>6. NetFieldsSet'
    BY <1>9, <2>1 DEF OnPake1, NetFieldsSet, cVars
  <2> QED
    BY <2>3, <2>4, <2>5, <2>6
<1>10. ASSUME NEW e \in Exchanges, ServerVerifierReady(e)
       PROVE  TypeInv'
  <2>1. /\ sSpake2[e] \in Context /\ sPA[e] \in Nat
        /\ sReq[e] \in Request /\ sRsp[e] \in Response
    BY <1>10 DEF ServerVerifierReady, ServerFieldsSet
  <2>2. [ctx |-> sSpake2[e], pB |-> nonce[e]] \in [ctx : Context, pB : Nat]
    BY <2>1 DEF TypeOK
  <2>a. sVerif' \in [Exchanges -> Nat]
    <3>1. sVerif[e] - 1 \in Nat
      BY <1>10 DEF ServerVerifierReady, TypeOK
    <3> QED
      BY <1>10, <3>1 DEF ServerVerifierReady, TypeOK
  <2>3. TypeOK'
    BY <1>10, <2>2, <2>a DEF ServerVerifierReady, TypeOK, cVars
  <2>4. ClientFieldsSet'
    BY <1>10 DEF ServerVerifierReady, ClientFieldsSet, cVars
  <2>5. ServerFieldsSet'
    BY <1>10, <2>1 DEF ServerVerifierReady, TypeOK, ServerFieldsSet
  <2>6. NetFieldsSet'
    BY <1>10 DEF ServerVerifierReady, NetFieldsSet, cVars
  <2> QED
    BY <2>3, <2>4, <2>5, <2>6
<1>11. ASSUME NEW e \in Exchanges, NEW s \in sStart[e], SendPake2(e, s)
       PROVE  TypeInv'
  <2> DEFINE secret == ServerSecret(e, s)
  <2>1. /\ s \in [ctx : Context, pB : Nat] /\ sPA[e] \in Nat
        /\ sReq[e] \in Request /\ sRsp[e] \in Response
    BY <1>11 DEF TypeOK, ServerFieldsSet
  <2>2. secret \in Secret
    BY <2>1 DEF ServerSecret, Secret
  <2>a. /\ net' = net \cup {[op |-> "Pake2", ex |-> e, pB |-> s.pB, cB |-> secret]}
        /\ dups' = dups
        /\ sSecret' = [sSecret EXCEPT ![e] = secret]
        /\ sKeys' = [sKeys EXCEPT ![e] = @ \cup {secret}]
    BY <1>11 DEF SendPake2, Send
  <2> HIDE DEF secret
  <2>b. net' \subseteq Message
    BY <2>a, <2>1, <2>2 DEF TypeOK, Message
  <2>c. /\ sKeys' \in [Exchanges -> SUBSET Secret]
        /\ sSecret' \in [Exchanges -> Secret \cup {None}]
    BY <2>a, <2>2 DEF TypeOK
  <2>3. TypeOK'
    BY <1>11, <2>a, <2>b, <2>c DEF SendPake2, TypeOK, State, cVars
  <2>4. ClientFieldsSet'
    BY <1>11 DEF SendPake2, ClientFieldsSet, cVars
  <2>5. ServerFieldsSet'
    BY <1>11, <2>1, <2>2, <2>a DEF SendPake2, TypeOK, ServerFieldsSet
  <2>6. NetFieldsSet'
    BY <1>11, <2>a DEF SendPake2, NetFieldsSet, cVars
  <2> QED
    BY <2>3, <2>4, <2>5, <2>6
<1>12. ASSUME NEW e \in Exchanges, NEW m \in net, OnPake3(e, m)
       PROVE  TypeInv'
  <2>1. /\ net' \subseteq net \cup {[op |-> "StatusReport", ex |-> e]}
        /\ dups' \in 0..MaxDup
    BY <1>12, ConsumeFacts DEF OnPake3, TypeOK
  <2>2. sReq[e] \in Request /\ sRsp[e] \in Response /\ sSecret[e] \in Secret
    BY <1>12 DEF OnPake3, ServerFieldsSet
  <2>a. ResponderSession(sReq[e], sRsp[e], sSecret[e]) \in SecureSession
    BY <2>2 DEF ResponderSession, SecureSession, Request, Response
  <2>b. sSessions' \in [Exchanges -> Seq(SecureSession)]
    BY <1>12, <2>a DEF OnPake3, TypeOK
  <2>c. net' \subseteq Message
    BY <2>1 DEF TypeOK, Message
  <2>3. TypeOK'
    BY <1>12, <2>1, <2>b, <2>c DEF OnPake3, TypeOK, State, cVars
  <2>4. ClientFieldsSet'
    BY <1>12 DEF OnPake3, ClientFieldsSet, cVars
  <2>5. ServerFieldsSet'
    BY <1>12 DEF OnPake3, TypeOK, ServerFieldsSet
  <2>6. NetFieldsSet'
    BY <1>12, <2>1 DEF OnPake3, NetFieldsSet, cVars
  <2> QED
    BY <2>3, <2>4, <2>5, <2>6
<1>13. ASSUME NEW e \in Exchanges, NEW m \in net, OnPake3Throws(e, m)
       PROVE  TypeInv'
  <2>1. net' \subseteq net /\ dups' \in 0..MaxDup
    BY <1>13, ConsumeFacts DEF OnPake3Throws, TypeOK
  <2>3. TypeOK'
    BY <1>13, <2>1 DEF OnPake3Throws, TypeOK, cVars
  <2>4. ClientFieldsSet'
    BY <1>13 DEF OnPake3Throws, ClientFieldsSet, cVars
  <2>5. ServerFieldsSet'
    BY <1>13 DEF OnPake3Throws, ServerFieldsSet
  <2>6. NetFieldsSet'
    BY <1>13, <2>1 DEF OnPake3Throws, NetFieldsSet, cVars
  <2> QED
    BY <2>3, <2>4, <2>5, <2>6
<1>14. ASSUME NEW e \in Exchanges, NEW m \in net, ServerDrop(e, m)
       PROVE  TypeInv'
  <2>1. net' \subseteq net /\ dups' \in 0..MaxDup
    BY <1>14, ConsumeFacts DEF ServerDrop, TypeOK
  <2>3. TypeOK'
    BY <1>14, <2>1 DEF ServerDrop, TypeOK, cVars, ExchangeState
  <2>4. ClientFieldsSet'
    BY <1>14 DEF ServerDrop, ClientFieldsSet, cVars
  <2>5. ServerFieldsSet'
    BY <1>14 DEF ServerDrop, ServerFieldsSet
  <2>6. NetFieldsSet'
    BY <1>14, <2>1 DEF ServerDrop, NetFieldsSet, cVars
  <2> QED
    BY <2>3, <2>4, <2>5, <2>6
<1>15. ASSUME NEW e \in Exchanges, ServerTimeout(e)
       PROVE  TypeInv'
  <2>3. TypeOK'
    BY <1>15 DEF ServerTimeout, TypeOK, State, cVars
  <2>4. ClientFieldsSet'
    BY <1>15 DEF ServerTimeout, ClientFieldsSet, cVars
  <2>5. ServerFieldsSet'
    BY <1>15 DEF ServerTimeout, TypeOK, ServerFieldsSet
  <2>6. NetFieldsSet'
    BY <1>15 DEF ServerTimeout, NetFieldsSet, cVars
  <2> QED
    BY <2>3, <2>4, <2>5, <2>6
<1>16. ASSUME NEW m \in net, Lose(m)
       PROVE  TypeInv'
  BY <1>16 DEF Lose, TypeOK, ClientFieldsSet, ServerFieldsSet, NetFieldsSet,
               cVars, sVars
<1>17. ASSUME ServerRestart
       PROVE  TypeInv'
  <2>3. TypeOK'
    BY <1>17, BoundsAssumption
    DEF ServerRestart, TypeOK, State, ExchangeState, cVars
  <2>4. ClientFieldsSet'
    BY <1>17 DEF ServerRestart, ClientFieldsSet, cVars
  <2>5. ServerFieldsSet'
    BY <1>17 DEF ServerRestart, ServerFieldsSet
  <2>6. NetFieldsSet'
    BY <1>17 DEF ServerRestart, NetFieldsSet, cVars
  <2> QED
    BY <2>3, <2>4, <2>5, <2>6
<1>18. ASSUME UNCHANGED vars
       PROVE  TypeInv'
  BY <1>18 DEF vars, cVars, sVars, TypeOK, ClientFieldsSet, ServerFieldsSet,
               NetFieldsSet
<1> QED
  BY <1>1, <1>2, <1>3, <1>4, <1>5, <1>6, <1>7, <1>8, <1>9, <1>10, <1>11,
     <1>12, <1>13, <1>14, <1>15, <1>16, <1>17, <1>18
  DEF Next, ClientReceive, ServerReceive, ClientContinue, ServerContinue

\* The type invariant and the field invariant hold in every reachable state.
LEMMA TypeInvHolds == Spec => []TypeInv
BY TypeInit, TypeStep, PTL DEF Spec

\* Type correctness of the two PASE state machines, their suspended handlers
\* and the network.  No handler ever reads a field that no message has set.
THEOREM TypeCorrect == Spec => []TypeOK
<1>1. TypeInv => TypeOK
  BY DEF TypeInv
<1> QED
  BY <1>1, TypeInvHolds, PTL

-----------------------------------------------------------------------------
(***************************************************************************)
(* Key confirmation.  ServerKeyConfirmed alone is not inductive: when the  *)
(* server accepts a Pake3 the matching client session must already exist,  *)
(* so the invariant also speaks of the Pake3 messages in flight, and the   *)
(* request that the server remembers is the one the client made.           *)
(***************************************************************************)
RequestsAgree ==
    /\ \A m \in net : m.op = "ParamRequest" => m.req = cReq[m.ex]
    /\ \A e \in Exchanges : sReq[e] # None => sReq[e] = cReq[e]

ClientSessionsOwnId ==
    \A e \in Exchanges : \A c \in Table(cSessions[e]) :
        cReq[e] # None /\ c.local = cReq[e].sid

Pake3Backed ==
    \A m \in net : m.op = "Pake3" =>
        \E c \in Table(cSessions[m.ex]) : c.key = m.cA

KeyInv == RequestsAgree /\ ClientSessionsOwnId /\ Pake3Backed /\ ServerKeyConfirmed

\* Pushing a session onto a session table adds it to the table's rows.
LEMMA TableAppend ==
    ASSUME NEW S, NEW t \in Seq(S), NEW x \in S
    PROVE  Table(Append(t, x)) = Table(t) \cup {x}
<1>1. /\ Append(t, x) \in Seq(S)
      /\ Len(Append(t, x)) = Len(t) + 1
      /\ \A i \in 1..Len(t) : Append(t, x)[i] = t[i]
      /\ Append(t, x)[Len(t) + 1] = x
      /\ Len(t) \in Nat
  OBVIOUS
<1>2. ASSUME NEW y
      PROVE  y \in Table(Append(t, x)) <=> y \in Table(t) \cup {x}
  <2>1. ASSUME y \in Table(Append(t, x)) PROVE y \in Table(t) \cup {x}
    <3>1. PICK i \in 1..Len(Append(t, x)) : y = Append(t, x)[i]
      BY <2>1 DEF Table
    <3>2. CASE i = Len(t) + 1
      BY <3>1, <3>2, <1>1
    <3>3. CASE i # Len(t) + 1
      <4>1. i \in 1..Len(t)
        BY <3>3, <1>1
      <4> QED
        BY <3>1, <4>1, <1>1 DEF Table
    <3> QED
      BY <3>2, <3>3
  <2>2. ASSUME y \in Table(t) PROVE y \in Table(Append(t, x))
    <3>1. PICK i \in 1..Len(t) : y = t[i]
      BY <2>2 DEF Table
    <3>2. i \in 1..Len(Append(t, x)) /\ y = Append(t, x)[i]
      BY <3>1, <1>1
    <3> QED
      BY <3>2 DEF Table
  <2>3. x \in Table(Append(t, x))
    <3>1. Len(t) + 1 \in 1..Len(Append(t, x))
      BY <1>1
    <3> QED
      BY <3>1, <1>1 DEF Table
  <2> QED
    BY <2>1, <2>2, <2>3
<1> QED
  BY <1>2

\* A new session table has no rows.
LEMMA EmptyTable == Table(<<>>) = {}
BY DEF Table

\* The rows of a well-typed table are sessions.
LEMMA TableType ==
    ASSUME NEW t \in Seq(SecureSession), NEW x \in Table(t)
    PROVE  x \in SecureSession
BY DEF Table

\* A step that opens no session, leaves the requests alone and puts neither a
\* ParamRequest nor a Pake3 into the network preserves KeyInv.
LEMMA KeyFrame ==
    ASSUME KeyInv, UNCHANGED <<cReq, cSessions, sReq, sSessions>>,
           \A m \in net' : m \in net \/ m.op \notin {"ParamRequest", "Pake3"}
    PROVE  KeyInv'
<1>1. RequestsAgree'
  BY DEF KeyInv, RequestsAgree
<1>2. ClientSessionsOwnId'
  BY DEF KeyInv, ClientSessionsOwnId
<1>3. Pake3Backed'
  BY DEF KeyInv, Pake3Backed
<1>4. ServerKeyConfirmed'
  BY DEF KeyInv, ServerKeyConfirmed
<1> QED
  BY <1>1, <1>2, <1>3, <1>4 DEF KeyInv

\* Initially there is no request and no session.
LEMMA KeyInit == Init => KeyInv
<1> SUFFICES ASSUME Init PROVE KeyInv
  OBVIOUS
<1>1. net = {} /\ \A e \in Exchanges : sReq[e] = None
  BY DEF Init
<1>2. \A e \in Exchanges : Table(cSessions[e]) = {} /\ Table(sSessions[e]) = {}
  <2>1. \A e \in Exchanges : cSessions[e] = <<>> /\ sSessions[e] = <<>>
    BY DEF Init
  <2> QED
    BY <2>1, EmptyTable
<1> QED
  BY <1>1, <1>2 DEF KeyInv, RequestsAgree, ClientSessionsOwnId, Pake3Backed,
                    ServerKeyConfirmed

\* Every step preserves KeyInv.
LEMMA KeyStep == TypeInv /\ KeyInv /\ [Next]_vars => KeyInv'
<1> SUFFICES ASSUME TypeInv, KeyInv, [Next]_vars
             PROVE  KeyInv'
  OBVIOUS
<1>0. TypeOK
  BY DEF TypeInv
<1>1. ASSUME NEW e \in Exchanges, StartPase(e)
      PROVE  KeyInv'
  <2>1. PICK sid \in SessionIds :
          /\ cReq' = [cReq EXCEPT ![e] = [ex |-> e, sid |-> sid]]
          /\ net' = net \cup {[op |-> "ParamRequest", ex |-> e,
                               req |-> [ex |-> e, sid |-> sid]]}
    BY <1>1 DEF StartPase, Send
  <2>2. cReq[e] = None /\ UNCHANGED <<cSessions, sReq, sSessions>>
    BY <1>1 DEF StartPase, sVars
  <2>3. \A m \in net : m.op = "ParamRequest" => m.ex # e
    <3>1. \A m \in net : m.op = "ParamRequest" => m.req \in Request
      BY <1>0 DEF TypeOK, Message
    <3> QED
      BY <2>2, <3>1, NoneAssumption DEF KeyInv, RequestsAgree, Request
  <2>4. RequestsAgree'
    BY <1>0, <2>1, <2>2, <2>3 DEF KeyInv, RequestsAgree, TypeOK
  <2>5. ClientSessionsOwnId'
    BY <1>0, <2>1, <2>2 DEF KeyInv, ClientSessionsOwnId, TypeOK
  <2>6. Pake3Backed'
    BY <2>1, <2>2 DEF KeyInv, Pake3Backed
  <2>7. ServerKeyConfirmed'
    BY <2>2 DEF KeyInv, ServerKeyConfirmed
  <2> QED
    BY <2>4, <2>5, <2>6, <2>7 DEF KeyInv
<1>2. ASSUME NEW e \in Exchanges, NEW m \in net, OnPake2(e, m)
      PROVE  KeyInv'
  <2> DEFINE secret == ClientSecret(e, m.pB)
             row == InitiatorSession(cReq[e], cRsp[e], secret)
  <2>1. /\ net' \subseteq net \cup {[op |-> "Pake3", ex |-> e, cA |-> secret]}
        /\ cSessions' = [cSessions EXCEPT ![e] = Append(cSessions[e], row)]
        /\ UNCHANGED <<cReq, sReq, sSessions>>
    BY <1>2, <1>0, ConsumeFacts DEF OnPake2, TypeOK, sVars
  <2>2. /\ cRsp[e] \in Response /\ cReq[e] \in Request
        /\ cClient[e] \in [ctx : Context, pA : Nat]
        /\ m.pB \in Nat
    BY <1>2 DEF OnPake2, AcceptsPake2, TypeInv, ClientFieldsSet, TypeOK, Message
  <2>3. row.key = secret /\ row.local = cReq[e].sid /\ row \in SecureSession
    BY <2>2 DEF InitiatorSession, ClientSecret, SecureSession, Secret, Request, Response
  <2>4. cReq[e] # None
    BY <2>2, NoneAssumption DEF Request
  <2> HIDE DEF row, secret
  <2>5. /\ Table(cSessions'[e]) = Table(cSessions[e]) \cup {row}
        /\ \A f \in Exchanges \ {e} : cSessions'[f] = cSessions[f]
    <3>1. cSessions[e] \in Seq(SecureSession)
      BY <1>0 DEF TypeOK
    <3>2. Table(Append(cSessions[e], row)) = Table(cSessions[e]) \cup {row}
      BY <3>1, <2>3, TableAppend
    <3> QED
      BY <1>0, <2>1, <3>2 DEF TypeOK
  <2>6. \A f \in Exchanges : Table(cSessions[f]) \subseteq Table(cSessions'[f])
    BY <2>5
  <2>7. RequestsAgree'
    BY <2>1 DEF KeyInv, RequestsAgree
  <2>8. ClientSessionsOwnId'
    BY <2>1, <2>3, <2>4, <2>5 DEF KeyInv, ClientSessionsOwnId
  <2>9. Pake3Backed'
    <3> SUFFICES ASSUME NEW n \in net', n.op = "Pake3"
                 PROVE  \E c \in Table(cSessions'[n.ex]) : c.key = n.cA
      BY DEF Pake3Backed
    <3>1. CASE n \in net
      <4>1. n.ex \in Exchanges
        BY <1>0, <3>1 DEF TypeOK, Message
      <4> QED
        BY <3>1, <4>1, <2>6 DEF KeyInv, Pake3Backed
    <3>2. CASE n = [op |-> "Pake3", ex |-> e, cA |-> secret]
      BY <3>2, <2>3, <2>5
    <3> QED
      BY <3>1, <3>2, <2>1
  <2>10. ServerKeyConfirmed'
    <3>1. \A f \in Exchanges : sSessions'[f] = sSessions[f]
      BY <2>1
    <3> QED
      BY <3>1, <2>6 DEF KeyInv, ServerKeyConfirmed
  <2> QED
    BY <2>7, <2>8, <2>9, <2>10 DEF KeyInv
<1>3. ASSUME NEW e \in Exchanges, NEW m \in net, OnPbkdfParamRequest(e, m)
      PROVE  KeyInv'
  <2>1. PICK sid \in SessionIds :
          Consume(m, {[op |-> "ParamResponse", ex |-> e,
                       rsp |-> [sid |-> sid, rnd |-> nonce[e]]]})
    BY <1>3 DEF OnPbkdfParamRequest
  <2>2. net' \subseteq net \cup {[op |-> "ParamResponse", ex |-> e,
                                 rsp |-> [sid |-> sid, rnd |-> nonce[e]]]}
    BY <1>0, <2>1, ConsumeFacts DEF TypeOK
  <2>3. /\ sReq' = [sReq EXCEPT ![e] = m.req] /\ m.req = cReq[e]
        /\ UNCHANGED <<cReq, cSessions, sSessions>>
    BY <1>3 DEF OnPbkdfParamRequest, cVars, KeyInv, RequestsAgree
  <2>4. RequestsAgree'
    BY <1>0, <2>2, <2>3 DEF KeyInv, RequestsAgree, TypeOK
  <2>5. ClientSessionsOwnId'
    BY <2>3 DEF KeyInv, ClientSessionsOwnId
  <2>6. Pake3Backed'
    BY <2>2, <2>3 DEF KeyInv, Pake3Backed
  <2>7. ServerKeyConfirmed'
    BY <2>3 DEF KeyInv, ServerKeyConfirmed
  <2> QED
    BY <2>4, <2>5, <2>6, <2>7 DEF KeyInv
<1>4. ASSUME NEW e \in Exchanges, NEW m \in net, OnPake3(e, m)
      PROVE  KeyInv'
  <2> DEFINE row == ResponderSession(sReq[e], sRsp[e], sSecret[e])
  <2>1. /\ net' \subseteq net \cup {[op |-> "StatusReport", ex |-> e]}
        /\ sSessions' = [sSessions EXCEPT ![e] = Append(sSessions[e], row)]
        /\ UNCHANGED <<cReq, sReq, cSessions>>
    BY <1>4, <1>0, ConsumeFacts DEF OnPake3, TypeOK, cVars
  <2>2. sReq[e] \in Request /\ sRsp[e] \in Response /\ sSecret[e] \in Secret
    BY <1>4 DEF OnPake3, TypeInv, ServerFieldsSet
  <2>3. /\ row \in SecureSession /\ row.key = sSecret[e] /\ row.peer = sReq[e].sid
        /\ sReq[e] = cReq[e]
    BY <2>2, NoneAssumption
    DEF ResponderSession, SecureSession, Request, Response, KeyInv, RequestsAgree
  <2>4. PICK c \in Table(cSessions[e]) : c.key = sSecret[e]
    BY <1>4 DEF OnPake3, VerifyHash, KeyInv, Pake3Backed
  <2>5. c.local = row.peer
    BY <2>3, <2>4 DEF KeyInv, ClientSessionsOwnId
  <2> HIDE DEF row
  <2>6. /\ Table(sSessions'[e]) = Table(sSessions[e]) \cup {row}
        /\ \A f \in Exchanges \ {e} : sSessions'[f] = sSessions[f]
    <3>1. sSessions[e] \in Seq(SecureSession)
      BY <1>0 DEF TypeOK
    <3>2. Table(Append(sSessions[e], row)) = Table(sSessions[e]) \cup {row}
      BY <3>1, <2>3, TableAppend
    <3> QED
      BY <1>0, <2>1, <3>2 DEF TypeOK
  <2>7. RequestsAgree'
    BY <2>1 DEF KeyInv, RequestsAgree
  <2>8. ClientSessionsOwnId'
    BY <2>1 DEF KeyInv, ClientSessionsOwnId
  <2>9. Pake3Backed'
    BY <2>1 DEF KeyInv, Pake3Backed
  <2>10. ServerKeyConfirmed'
    BY <2>1, <2>3, <2>4, <2>5, <2>6 DEF KeyInv, ServerKeyConfirmed
  <2> QED
    BY <2>7, <2>8, <2>9, <2>10 DEF KeyInv
<1>5. ASSUME ServerRestart
      PROVE  KeyInv'
  <2>1. /\ UNCHANGED <<cReq, cSessions, net>>
        /\ \A e \in Exchanges : sReq'[e] = None /\ sSessions'[e] = <<>>
    BY <1>5 DEF ServerRestart, cVars
  <2>2. \A e \in Exchanges : Table(sSessions'[e]) = {}
    BY <2>1, EmptyTable
  <2> QED
    BY <2>1, <2>2 DEF KeyInv, RequestsAgree, ClientSessionsOwnId, Pake3Backed,
                      ServerKeyConfirmed
<1>6. ASSUME NEW e \in Exchanges, NEW m \in net, OnPbkdfParamResponse(e, m)
      PROVE  KeyInv'
  <2>1. net' \subseteq net
    BY <1>6, <1>0, ConsumeFacts DEF OnPbkdfParamResponse, TypeOK
  <2> QED
    BY <1>6, <2>1, KeyFrame DEF OnPbkdfParamResponse, sVars
<1>7. ASSUME NEW e \in Exchanges, NEW m \in net, ClientDrop(e, m)
      PROVE  KeyInv'
  <2>1. net' \subseteq net
    BY <1>7, <1>0, ConsumeFacts DEF ClientDrop, TypeOK
  <2> QED
    BY <1>7, <2>1, KeyFrame DEF ClientDrop, cVars, sVars
<1>8. ASSUME NEW e \in Exchanges, NEW m \in net, OnPake1(e, m)
      PROVE  KeyInv'
  <2>1. net' \subseteq net
    BY <1>8, <1>0, ConsumeFacts DEF OnPake1, TypeOK
  <2> QED
    BY <1>8, <2>1, KeyFrame DEF OnPake1, cVars
<1>9. ASSUME NEW e \in Exchanges, NEW m \in net, OnPake3Throws(e, m)
      PROVE  KeyInv'
  <2>1. net' \subseteq net
    BY <1>9, <1>0, ConsumeFacts DEF OnPake3Throws, TypeOK
  <2> QED
    BY <1>9, <2>1, KeyFrame DEF OnPake3Throws, cVars
<1>10. ASSUME NEW e \in Exchanges, NEW m \in net, ServerDrop(e, m)
       PROVE  KeyInv'
  <2>1. net' \subseteq net
    BY <1>10, <1>0, ConsumeFacts DEF ServerDrop, TypeOK
  <2> QED
    BY <1>10, <2>1, KeyFrame DEF ServerDrop, cVars
<1>11. ASSUME NEW e \in Exchanges, NEW c \in cStart[e], SendPake1(e, c)
       PROVE  KeyInv'
  BY <1>11, KeyFrame DEF SendPake1, Send, sVars
<1>12. ASSUME NEW e \in Exchanges, NEW s \in sStart[e], SendPake2(e, s)
       PROVE  KeyInv'
  BY <1>12, KeyFrame DEF SendPake2, Send, cVars
<1>13. ASSUME NEW e \in Exchanges, ClientVerifierReady(e) \/ ClientTimeout(e)
       PROVE  KeyInv'
  BY <1>13, KeyFrame DEF ClientVerifierReady, ClientTimeout, sVars
<1>14. ASSUME NEW e \in Exchanges, ServerVerifierReady(e) \/ ServerTimeout(e)
       PROVE  KeyInv'
  BY <1>14, KeyFrame DEF ServerVerifierReady, ServerTimeout, cVars
<1>15. ASSUME NEW m \in net, Lose(m)
       PROVE  KeyInv'
  BY <1>15, KeyFrame DEF Lose, cVars, sVars
<1>16. ASSUME UNCHANGED vars
       PROVE  KeyInv'
  BY <1>16, KeyFrame DEF vars, cVars, sVars
<1> QED
  BY <1>1, <1>2, <1>3, <1>4, <1>5, <1>6, <1>7, <1>8, <1>9, <1>10, <1>11,
     <1>12, <1>13, <1>14, <1>15, <1>16
  DEF Next, ClientReceive, ServerReceive, ClientContinue, ServerContinue

\* KeyInv holds in every reachable state.
LEMMA KeyInvHolds == Spec => []KeyInv
<1>1. Init => TypeInv /\ KeyInv
  BY TypeInit, KeyInit
<1>2. TypeInv /\ KeyInv /\ [Next]_vars => TypeInv' /\ KeyInv'
  BY TypeStep, KeyStep
<1> QED
  BY <1>1, <1>2, PTL DEF Spec

\* Whatever is lost, repeated, reordered or restarted, and whether or not other
\* events run while a handler is suspended: a secure session of the server has
\* the secret of a session of the client, and names the client's session id.
THEOREM KeyConfirmation == Spec => []ServerKeyConfirmed
<1>1. KeyInv => ServerKeyConfirmed
  BY DEF KeyInv
<1> QED
  BY <1>1, KeyInvHolds, PTL

-----------------------------------------------------------------------------
(***************************************************************************)
(* Session ids.  When no event runs while a handler is suspended, the      *)
(* response a side remembers is the one its secret was derived from, so    *)
(* the session ids it hands to createSecureSession are those of the        *)
(* transcript, on both sides.                                              *)
(***************************************************************************)
ClientMirror ==
    \A e \in Exchanges :
        /\ \A x \in cStart[e] : x.ctx.rsp = cRsp[e]
        /\ cState[e] = "AWAIT_PAKE2" /\ cVerif[e] = 0 /\ cStart[e] = {} =>
             cClient[e].ctx.rsp = cRsp[e]
        /\ \A c \in Table(cSessions[e]) : c.peer = c.key.ctx.rsp.sid

ServerMirror ==
    \A e \in Exchanges :
        /\ sVerif[e] # 0 => sSpake2[e].rsp = sRsp[e]
        /\ \A x \in sStart[e] : x.ctx.rsp = sRsp[e]
        /\ sState[e] = "AWAIT_PAKE3" => sSecret[e].ctx.rsp = sRsp[e]
        /\ \A s \in Table(sSessions[e]) : s.local = s.key.ctx.rsp.sid

\* Initially nothing is suspended and there is no session.
LEMMA MirrorInit == Init => ClientMirror /\ ServerMirror
<1> SUFFICES ASSUME Init PROVE ClientMirror /\ ServerMirror
  OBVIOUS
<1>1. \A e \in Exchanges : Table(cSessions[e]) = {} /\ Table(sSessions[e]) = {}
  <2>1. \A e \in Exchanges : cSessions[e] = <<>> /\ sSessions[e] = <<>>
    BY DEF Init
  <2> QED
    BY <2>1, EmptyTable
<1>2. \A e \in Exchanges : cStart[e] = {} /\ cState[e] = "IDLE"
  BY DEF Init
<1>3. \A e \in Exchanges : sStart[e] = {} /\ sState[e] = "IDLE" /\ sVerif[e] = 0
  BY DEF Init
<1>4. ClientMirror
  BY <1>1, <1>2 DEF ClientMirror
<1>5. ServerMirror
  BY <1>1, <1>3 DEF ServerMirror
<1> QED
  BY <1>4, <1>5

\* The client's part of the argument: a step of the client keeps ClientMirror.
LEMMA ClientMirrorStep ==
    ASSUME AwaitYields = FALSE, TypeInv, ClientMirror, [Next]_vars
    PROVE  ClientMirror'
<1>0. TypeOK
  BY DEF TypeInv
<1>1. ASSUME NEW e \in Exchanges, StartPase(e)
      PROVE  ClientMirror'
  BY <1>0, <1>1 DEF StartPase, TypeOK, ClientMirror
<1>2. ASSUME NEW e \in Exchanges, NEW m \in net, OnPbkdfParamResponse(e, m)
      PROVE  ClientMirror'
  <2>1. cStart[e] = {} /\ cVerif'[e] # 0
    BY <1>0, <1>2 DEF OnPbkdfParamResponse, CReady, TypeOK
  <2> QED
    BY <1>0, <1>2, <2>1 DEF OnPbkdfParamResponse, TypeOK, ClientMirror
<1>3. ASSUME NEW e \in Exchanges, ClientVerifierReady(e)
      PROVE  ClientMirror'
  <2>1. cRsp[e] \in Response
    BY <1>3 DEF ClientVerifierReady, TypeInv, ClientFieldsSet
  <2> DEFINE x == [ctx |-> [req |-> cReq[e], rsp |-> cRsp[e]], pA |-> nonce[e]]
  <2>2. cStart' = [cStart EXCEPT ![e] = cStart[e] \cup {x}] /\ x.ctx.rsp = cRsp[e]
    BY <1>3 DEF ClientVerifierReady
  <2> HIDE DEF x
  <2>3. UNCHANGED <<cState, cRsp, cClient, cSessions>>
    BY <1>3 DEF ClientVerifierReady
  <2>4. \A f \in Exchanges \ {e} : cVerif'[f] = cVerif[f]
    BY <1>0, <1>3 DEF ClientVerifierReady, TypeOK
  <2> QED
    BY <1>0, <2>2, <2>3, <2>4 DEF ClientMirror, TypeOK
<1>4. ASSUME NEW e \in Exchanges, NEW c \in cStart[e], SendPake1(e, c)
      PROVE  ClientMirror'
  BY <1>0, <1>4 DEF SendPake1, TypeOK, ClientMirror
<1>5. ASSUME NEW e \in Exchanges, NEW m \in net, OnPake2(e, m)
      PROVE  ClientMirror'
  <2> DEFINE secret == ClientSecret(e, m.pB)
             row == InitiatorSession(cReq[e], cRsp[e], secret)
  <2>1. cVerif[e] = 0 /\ cStart[e] = {} /\ cState[e] = "AWAIT_PAKE2"
    BY <1>5 DEF OnPake2, AcceptsPake2, CReady
  <2>2. /\ cRsp[e] \in Response /\ cReq[e] \in Request
        /\ cClient[e] \in [ctx : Context, pA : Nat]
        /\ m.pB \in Nat
    BY <1>5, <2>1 DEF OnPake2, TypeInv, ClientFieldsSet, TypeOK, Message
  <2>3. row \in SecureSession
    BY <2>2 DEF InitiatorSession, ClientSecret, SecureSession, Secret, Request, Response
  <2>4. row.peer = row.key.ctx.rsp.sid
    BY <2>1, <2>2 DEF InitiatorSession, ClientSecret, ClientMirror
  <2>5. /\ cSessions' = [cSessions EXCEPT ![e] = Append(cSessions[e], row)]
        /\ cState' = [cState EXCEPT ![e] = "IDLE"]
        /\ UNCHANGED <<cRsp, cVerif, cStart, cClient>>
    BY <1>5 DEF OnPake2
  <2> HIDE DEF row, secret
  <2>6. /\ Table(cSessions'[e]) = Table(cSessions[e]) \cup {row}
        /\ \A f \in Exchanges \ {e} : cSessions'[f] = cSessions[f]
    <3>1. cSessions[e] \in Seq(SecureSession)
      BY <1>0 DEF TypeOK
    <3>2. Table(Append(cSessions[e], row)) = Table(cSessions[e]) \cup {row}
      BY <3>1, <2>3, TableAppend
    <3> QED
      BY <1>0, <2>5, <3>2 DEF TypeOK
  <2> QED
    BY <1>0, <2>1, <2>4, <2>5, <2>6 DEF ClientMirror, TypeOK
<1>6. ASSUME NEW e \in Exchanges, ClientTimeout(e)
      PROVE  ClientMirror'
  BY <1>0, <1>6 DEF ClientTimeout, TypeOK, ClientMirror
<1>7. ASSUME UNCHANGED cVars
      PROVE  ClientMirror'
  BY <1>7 DEF cVars, ClientMirror
<1>8. ASSUME NEW e \in Exchanges, ServerContinue(e) \/ ServerTimeout(e)
      PROVE  UNCHANGED cVars
  BY <1>8 DEF ServerContinue, ServerVerifierReady, SendPake2, ServerTimeout
<1>9. ASSUME NEW e \in Exchanges, NEW m \in net, ServerReceive(e, m) \/ ClientDrop(e, m)
      PROVE  UNCHANGED cVars
  BY <1>9 DEF ServerReceive, OnPbkdfParamRequest, OnPake1, OnPake3, OnPake3Throws,
              ServerDrop, ClientDrop
<1>10. ASSUME \/ \E m \in net : Lose(m)
              \/ ServerRestart
              \/ UNCHANGED vars
       PROVE  UNCHANGED cVars
  BY <1>10 DEF Lose, ServerRestart, vars
<1> QED
  BY <1>1, <1>2, <1>3, <1>4, <1>5, <1>6, <1>7, <1>8, <1>9, <1>10
  DEF Next, ClientReceive, ClientContinue

\* The server's part of the argument.
LEMMA ServerMirrorStep ==
    ASSUME AwaitYields = FALSE, TypeInv, ServerMirror, [Next]_vars
    PROVE  ServerMirror'
<1>0. TypeOK
  BY DEF TypeInv
<1>1. ASSUME NEW e \in Exchanges, NEW m \in net, OnPbkdfParamRequest(e, m)
      PROVE  ServerMirror'
  <2>1. sStart[e] = {} /\ sVerif[e] = 0
    BY <1>1 DEF OnPbkdfParamRequest, SReady
  <2>2. PICK rsp : sRsp' = [sRsp EXCEPT ![e] = rsp]
    BY <1>1 DEF OnPbkdfParamRequest
  <2> QED
    BY <1>0, <1>1, <2>1, <2>2 DEF OnPbkdfParamRequest, TypeOK, ServerMirror
<1>2. ASSUME NEW e \in Exchanges, NEW m \in net, OnPake1(e, m)
      PROVE  ServerMirror'
  BY <1>0, <1>2 DEF OnPake1, TypeOK, ServerMirror
<1>3. ASSUME NEW e \in Exchanges, ServerVerifierReady(e)
      PROVE  ServerMirror'
  BY <1>0, <1>3 DEF ServerVerifierReady, TypeOK, ServerMirror
<1>4. ASSUME NEW e \in Exchanges, NEW s \in sStart[e], SendPake2(e, s)
      PROVE  ServerMirror'
  BY <1>0, <1>4 DEF SendPake2, ServerSecret, TypeOK, ServerMirror
<1>5. ASSUME NEW e \in Exchanges, NEW m \in net, OnPake3(e, m)
      PROVE  ServerMirror'
  <2> DEFINE row == ResponderSession(sReq[e], sRsp[e], sSecret[e])
  <2>1. sReq[e] \in Request /\ sRsp[e] \in Response /\ sSecret[e] \in Secret
    BY <1>5 DEF OnPake3, TypeInv, ServerFieldsSet
  <2>2. row \in SecureSession
    BY <2>1 DEF ResponderSession, SecureSession, Request, Response
  <2>3. row.local = row.key.ctx.rsp.sid
    BY <1>5 DEF OnPake3, ResponderSession, ServerMirror
  <2>4. /\ sSessions' = [sSessions EXCEPT ![e] = Append(sSessions[e], row)]
        /\ sState' = [sState EXCEPT ![e] = "IDLE"]
        /\ UNCHANGED <<sRsp, sSpake2, sVerif, sStart, sSecret>>
    BY <1>5 DEF OnPake3
  <2> HIDE DEF row
  <2>5. /\ Table(sSessions'[e]) = Table(sSessions[e]) \cup {row}
        /\ \A f \in Exchanges \ {e} : sSessions'[f] = sSessions[f]
    <3>1. sSessions[e] \in Seq(SecureSession)
      BY <1>0 DEF TypeOK
    <3>2. Table(Append(sSessions[e], row)) = Table(sSessions[e]) \cup {row}
      BY <3>1, <2>2, TableAppend
    <3> QED
      BY <1>0, <2>4, <3>2 DEF TypeOK
  <2> QED
    BY <1>0, <2>3, <2>4, <2>5 DEF ServerMirror, TypeOK
<1>6. ASSUME NEW e \in Exchanges, NEW m \in net,
             OnPake3Throws(e, m) \/ ServerDrop(e, m)
      PROVE  ServerMirror'
  BY <1>6 DEF OnPake3Throws, ServerDrop, ServerMirror
<1>7. ASSUME NEW e \in Exchanges, ServerTimeout(e)
      PROVE  ServerMirror'
  BY <1>0, <1>7 DEF ServerTimeout, TypeOK, ServerMirror
<1>8. ASSUME ServerRestart
      PROVE  ServerMirror'
  <2>1. \A e \in Exchanges : sSessions'[e] = <<>>
    BY <1>8 DEF ServerRestart
  <2>2. \A e \in Exchanges : Table(sSessions'[e]) = {}
    BY <2>1, EmptyTable
  <2>3. \A e \in Exchanges : sStart'[e] = {} /\ sState'[e] = "IDLE" /\ sVerif'[e] = 0
    BY <1>8 DEF ServerRestart
  <2> QED
    BY <2>2, <2>3 DEF ServerMirror
<1>9. ASSUME UNCHANGED sVars
      PROVE  ServerMirror'
  BY <1>9 DEF sVars, ServerMirror
<1>10. ASSUME NEW e \in Exchanges,
              StartPase(e) \/ ClientContinue(e) \/ ClientTimeout(e)
       PROVE  UNCHANGED sVars
  BY <1>10 DEF StartPase, ClientContinue, ClientVerifierReady, SendPake1, ClientTimeout
<1>11. ASSUME NEW e \in Exchanges, NEW m \in net, ClientReceive(e, m)
       PROVE  UNCHANGED sVars
  BY <1>11 DEF ClientReceive, OnPbkdfParamResponse, OnPake2, ClientDrop
<1>12. ASSUME (\E m \in net : Lose(m)) \/ UNCHANGED vars
       PROVE  UNCHANGED sVars
  BY <1>12 DEF Lose, vars
<1> QED
  BY <1>1, <1>2, <1>3, <1>4, <1>5, <1>6, <1>7, <1>8, <1>9, <1>10, <1>11, <1>12
  DEF Next, ServerReceive, ServerContinue

\* If the spake2 library never yields to the event loop, the two session tables
\* mirror each other: same secret, session ids exchanged.
THEOREM SessionsMirror ==
    ASSUME AwaitYields = FALSE
    PROVE  Spec => []SessionIdsMirror
<1> DEFINE Inv == TypeInv /\ KeyInv /\ ClientMirror /\ ServerMirror
<1>1. Init => Inv
  BY TypeInit, KeyInit, MirrorInit
<1>2. Inv /\ [Next]_vars => Inv'
  BY TypeStep, KeyStep, ClientMirrorStep, ServerMirrorStep
<1>3. Inv => SessionIdsMirror
  <2> SUFFICES ASSUME Inv, NEW e \in Exchanges, NEW s \in Table(sSessions[e])
               PROVE  \E c \in Table(cSessions[e]) :
                        c = [local |-> s.peer, peer |-> s.local, key |-> s.key]
    BY DEF SessionIdsMirror
  <2>1. PICK c \in Table(cSessions[e]) : c.key = s.key /\ c.local = s.peer
    BY DEF KeyInv, ServerKeyConfirmed
  <2>2. c.peer = s.local
    BY <2>1 DEF ClientMirror, ServerMirror
  <2>3. c \in SecureSession
    BY TableType DEF TypeInv, TypeOK
  <2>4. c = [local |-> s.peer, peer |-> s.local, key |-> s.key]
    BY <2>1, <2>2, <2>3 DEF SecureSession
  <2> QED
    BY <2>4
<1> HIDE DEF Inv
<1> QED
  BY <1>1, <1>2, <1>3, PTL DEF Spec

-----------------------------------------------------------------------------
(***************************************************************************)
(* Replays.  A secret holds the random number its side drew for it: the pA *)
(* of the client, the pB of the server.  A side that can still open a      *)
(* session has a number that no session of its table has, and so has every *)
(* suspended handler, each its own; so no secret is used twice, however    *)
(* the awaits of several handlers are interleaved.                         *)
(***************************************************************************)
ClientFresh(e) ==
    /\ \A x \in cStart[e] :
         /\ x.pA < nonce[e]
         /\ \A y \in cStart[e] : x.pA = y.pA => x = y
         /\ \A i \in 1..Len(cSessions[e]) : cSessions[e][i].key.pA # x.pA
    /\ cState[e] = "AWAIT_PAKE2" =>
         /\ cClient[e].pA < nonce[e]
         /\ \A x \in cStart[e] : x.pA # cClient[e].pA
         /\ \A i \in 1..Len(cSessions[e]) : cSessions[e][i].key.pA # cClient[e].pA
    /\ \A i \in 1..Len(cSessions[e]) :
         /\ cSessions[e][i].key.pA < nonce[e]
         /\ \A j \in 1..Len(cSessions[e]) :
                cSessions[e][i].key.pA = cSessions[e][j].key.pA => i = j

ServerFresh(e) ==
    /\ \A x \in sStart[e] :
         /\ x.pB < nonce[e]
         /\ \A y \in sStart[e] : x.pB = y.pB => x = y
         /\ \A i \in 1..Len(sSessions[e]) : sSessions[e][i].key.pB # x.pB
    /\ sState[e] = "AWAIT_PAKE3" =>
         /\ sSecret[e].pB < nonce[e]
         /\ \A x \in sStart[e] : x.pB # sSecret[e].pB
         /\ \A i \in 1..Len(sSessions[e]) : sSessions[e][i].key.pB # sSecret[e].pB
    /\ \A i \in 1..Len(sSessions[e]) :
         /\ sSessions[e][i].key.pB < nonce[e]
         /\ \A j \in 1..Len(sSessions[e]) :
                sSessions[e][i].key.pB = sSessions[e][j].key.pB => i = j

FreshInv == \A e \in Exchanges : ClientFresh(e) /\ ServerFresh(e)

\* The random numbers in a well-typed state are numbers.
LEMMA NonceTypes ==
    ASSUME TypeInv, NEW e \in Exchanges
    PROVE  /\ nonce[e] \in Nat
           /\ \A x \in cStart[e] : x.pA \in Nat
           /\ \A x \in sStart[e] : x.pB \in Nat
           /\ cState[e] = "AWAIT_PAKE2" => cClient[e].pA \in Nat
           /\ sState[e] = "AWAIT_PAKE3" => sSecret[e].pB \in Nat
           /\ \A i \in 1..Len(cSessions[e]) : cSessions[e][i].key.pA \in Nat
           /\ \A i \in 1..Len(sSessions[e]) : sSessions[e][i].key.pB \in Nat
<1>0. TypeOK
  BY DEF TypeInv
<1>1. nonce[e] \in Nat
  BY <1>0 DEF TypeOK
<1>2. /\ cStart[e] \in SUBSET [ctx : Context, pA : Nat]
      /\ sStart[e] \in SUBSET [ctx : Context, pB : Nat]
  BY <1>0 DEF TypeOK
<1>3. /\ cState[e] = "AWAIT_PAKE2" => cClient[e].pA \in Nat
      /\ sState[e] = "AWAIT_PAKE3" => sSecret[e].pB \in Nat
  BY DEF TypeInv, ClientFieldsSet, ServerFieldsSet, Secret
<1>4. cSessions[e] \in Seq(SecureSession) /\ sSessions[e] \in Seq(SecureSession)
  BY <1>0 DEF TypeOK
<1>5. \A r \in SecureSession : r.key.pA \in Nat /\ r.key.pB \in Nat
  BY DEF SecureSession, Secret
<1> QED
  BY <1>1, <1>2, <1>3, <1>4, <1>5

\* No step takes a random number back.
LEMMA NonceGrows ==
    ASSUME TypeInv, [Next]_vars, NEW e \in Exchanges
    PROVE  nonce[e] <= nonce'[e]
<1>0. nonce \in [Exchanges -> Nat]
  BY DEF TypeInv, TypeOK
<1>1. \/ UNCHANGED nonce
      \/ \E d \in Exchanges : nonce' = [nonce EXCEPT ![d] = @ + 1]
  <2>1. ASSUME NEW d \in Exchanges,
               \/ StartPase(d) \/ ClientTimeout(d) \/ ServerTimeout(d)
               \/ \E x : SendPake1(d, x) \/ SendPake2(d, x)
        PROVE  UNCHANGED nonce
    BY <2>1 DEF StartPase, ClientTimeout, ServerTimeout, SendPake1, SendPake2
  <2>2. ASSUME NEW d \in Exchanges, ClientVerifierReady(d) \/ ServerVerifierReady(d)
        PROVE  nonce' = [nonce EXCEPT ![d] = @ + 1]
    BY <2>2 DEF ClientVerifierReady, ServerVerifierReady
  <2>3. ASSUME NEW d \in Exchanges, NEW m \in net, OnPbkdfParamRequest(d, m)
        PROVE  nonce' = [nonce EXCEPT ![d] = @ + 1]
    BY <2>3 DEF OnPbkdfParamRequest
  <2>4. ASSUME NEW d \in Exchanges, NEW m \in net,
               \/ ClientReceive(d, m) \/ OnPake1(d, m) \/ OnPake3(d, m)
               \/ OnPake3Throws(d, m) \/ ServerDrop(d, m)
        PROVE  UNCHANGED nonce
    BY <2>4 DEF ClientReceive, OnPbkdfParamResponse, OnPake2, ClientDrop, OnPake1,
                OnPake3, OnPake3Throws, ServerDrop
  <2>5. ASSUME (\E m \in net : Lose(m)) \/ ServerRestart \/ UNCHANGED vars
        PROVE  UNCHANGED nonce
    BY <2>5 DEF Lose, ServerRestart, vars
  <2> QED
    BY <2>1, <2>2, <2>3, <2>4, <2>5
    DEF Next, ServerReceive, ClientContinue, ServerContinue
<1> QED
  BY <1>0, <1>1

\* A step that gives a side no new number and no new session keeps its numbers
\* apart, also when it leaves the state in which it accepts a Pake2 or a Pake3.
LEMMA FreshFrame ==
    ASSUME TypeInv, NEW e \in Exchanges, nonce[e] <= nonce'[e], nonce'[e] \in Nat
    PROVE  /\ (/\ ClientFresh(e) /\ cStart'[e] = cStart[e]
               /\ cSessions'[e] = cSessions[e]
               /\ cState'[e] = "AWAIT_PAKE2" =>
                      cState[e] = "AWAIT_PAKE2" /\ cClient'[e] = cClient[e])
                  => ClientFresh(e)'
           /\ (/\ ServerFresh(e) /\ sStart'[e] = sStart[e]
               /\ sSessions'[e] = sSessions[e]
               /\ sState'[e] = "AWAIT_PAKE3" =>
                      sState[e] = "AWAIT_PAKE3" /\ sSecret'[e] = sSecret[e])
                  => ServerFresh(e)'
<1>0. /\ nonce[e] \in Nat
      /\ \A x \in cStart[e] : x.pA \in Nat
      /\ \A x \in sStart[e] : x.pB \in Nat
      /\ cState[e] = "AWAIT_PAKE2" => cClient[e].pA \in Nat
      /\ sState[e] = "AWAIT_PAKE3" => sSecret[e].pB \in Nat
      /\ \A i \in 1..Len(cSessions[e]) : cSessions[e][i].key.pA \in Nat
      /\ \A i \in 1..Len(sSessions[e]) : sSessions[e][i].key.pB \in Nat
  BY NonceTypes
<1>1. \A k \in Nat : k < nonce[e] => k < nonce'[e]
  BY <1>0
<1>2. ASSUME ClientFresh(e), cStart'[e] = cStart[e], cSessions'[e] = cSessions[e],
             cState'[e] = "AWAIT_PAKE2" =>
                 cState[e] = "AWAIT_PAKE2" /\ cClient'[e] = cClient[e]
      PROVE  ClientFresh(e)'
  BY <1>0, <1>1, <1>2 DEF ClientFresh
<1>3. ASSUME ServerFresh(e), sStart'[e] = sStart[e], sSessions'[e] = sSessions[e],
             sState'[e] = "AWAIT_PAKE3" =>
                 sState[e] = "AWAIT_PAKE3" /\ sSecret'[e] = sSecret[e]
      PROVE  ServerFresh(e)'
  BY <1>0, <1>1, <1>3 DEF ServerFresh
<1> QED
  BY <1>2, <1>3

\* Initially nothing is suspended and there is no session.
LEMMA FreshInit == Init => FreshInv
<1> SUFFICES ASSUME Init, NEW e \in Exchanges
             PROVE  ClientFresh(e) /\ ServerFresh(e)
  BY DEF FreshInv
<1>1. /\ cStart[e] = {} /\ cState[e] = "IDLE" /\ cSessions[e] = <<>>
      /\ sStart[e] = {} /\ sState[e] = "IDLE" /\ sSessions[e] = <<>>
  BY DEF Init
<1> QED
  BY <1>1 DEF ClientFresh, ServerFresh

\* Pushing a session onto a session table, row by row.
LEMMA RowAppended ==
    ASSUME NEW t \in Seq(SecureSession), NEW row \in SecureSession,
           NEW u, u = Append(t, row)
    PROVE  /\ Len(u) = Len(t) + 1 /\ Len(t) \in Nat
           /\ \A i \in 1..Len(t) : i \in 1..Len(u) /\ u[i] = t[i]
           /\ \A i \in 1..Len(u) : i \in 1..Len(t) \/ (i = Len(t) + 1 /\ u[i] = row)
OBVIOUS

\* The steps of the client keep its numbers apart.
LEMMA ClientFreshStep ==
    ASSUME TypeInv, TypeInv', FreshInv, [Next]_vars, NEW e \in Exchanges
    PROVE  ClientFresh(e)'
<1>0. TypeOK /\ TypeOK' /\ ClientFresh(e)
  BY DEF TypeInv, FreshInv
<1>1. nonce[e] <= nonce'[e] /\ nonce'[e] \in Nat
  BY <1>0, NonceGrows DEF TypeOK
<1>2. /\ nonce[e] \in Nat
      /\ \A x \in cStart[e] : x.pA \in Nat
      /\ cState[e] = "AWAIT_PAKE2" => cClient[e].pA \in Nat
      /\ \A i \in 1..Len(cSessions[e]) : cSessions[e][i].key.pA \in Nat
  BY NonceTypes
<1>3. ASSUME cStart'[e] = cStart[e], cSessions'[e] = cSessions[e],
             cState'[e] = "AWAIT_PAKE2" =>
                 cState[e] = "AWAIT_PAKE2" /\ cClient'[e] = cClient[e]
      PROVE  ClientFresh(e)'
  BY <1>0, <1>1, <1>3, FreshFrame
<1>4. ASSUME NEW d \in Exchanges, StartPase(d) \/ ClientTimeout(d)
      PROVE  ClientFresh(e)'
  BY <1>0, <1>3, <1>4 DEF StartPase, ClientTimeout, TypeOK
<1>5. ASSUME NEW d \in Exchanges, NEW m \in net, OnPbkdfParamResponse(d, m)
      PROVE  ClientFresh(e)'
  BY <1>3, <1>5 DEF OnPbkdfParamResponse
<1>6. ASSUME NEW d \in Exchanges, ClientVerifierReady(d)
      PROVE  ClientFresh(e)'
  <2>1. /\ cSessions' = cSessions /\ cState' = cState /\ cClient' = cClient
        /\ nonce' = [nonce EXCEPT ![d] = @ + 1]
    BY <1>6 DEF ClientVerifierReady
  <2>2. PICK x : /\ x.pA = nonce[d]
                 /\ cStart' = [cStart EXCEPT ![d] = @ \cup {x}]
    BY <1>6 DEF ClientVerifierReady
  <2>3. CASE d # e
    BY <1>0, <1>3, <2>1, <2>2, <2>3 DEF TypeOK
  <2>4. CASE d = e
    <3>1. cStart'[e] = cStart[e] \cup {x} /\ nonce'[e] = nonce[e] + 1
      BY <1>0, <2>1, <2>2, <2>4 DEF TypeOK
    <3>2. \A k \in Nat : k < nonce[e] => k # x.pA /\ k < nonce'[e]
      BY <1>2, <2>2, <2>4, <3>1
    <3>3. x.pA < nonce'[e]
      BY <1>2, <2>2, <2>4, <3>1
    <3> QED
      BY <1>0, <1>2, <2>1, <3>1, <3>2, <3>3 DEF ClientFresh
  <2> QED
    BY <2>3, <2>4
<1>7. ASSUME NEW d \in Exchanges, NEW x \in cStart[d], SendPake1(d, x)
      PROVE  ClientFresh(e)'
  <2>1. /\ cSessions' = cSessions /\ nonce' = nonce
        /\ cStart' = [cStart EXCEPT ![d] = @ \ {x}]
        /\ cClient' = [cClient EXCEPT ![d] = x]
        /\ cState' = [cState EXCEPT ![d] = "AWAIT_PAKE2"]
    BY <1>7 DEF SendPake1
  <2>2. CASE d # e
    BY <1>0, <1>3, <2>1, <2>2 DEF TypeOK
  <2>3. CASE d = e
    <3>1. /\ cStart'[e] = cStart[e] \ {x} /\ cClient'[e] = x
          /\ x \in cStart[e] /\ nonce'[e] = nonce[e]
          /\ cSessions'[e] = cSessions[e]
      BY <1>0, <2>1, <2>3 DEF TypeOK
    <3> QED
      BY <1>0, <3>1 DEF ClientFresh
  <2> QED
    BY <2>2, <2>3
<1>8. ASSUME NEW d \in Exchanges, NEW m \in net, OnPake2(d, m)
      PROVE  ClientFresh(e)'
  <2> DEFINE row == InitiatorSession(cReq[d], cRsp[d], ClientSecret(d, m.pB))
  <2>1. /\ cStart' = cStart /\ nonce' = nonce /\ cState[d] = "AWAIT_PAKE2"
        /\ cState' = [cState EXCEPT ![d] = "IDLE"]
        /\ cSessions' = [cSessions EXCEPT ![d] = Append(@, row)]
    BY <1>8 DEF OnPake2, AcceptsPake2
  <2>2. row.key.pA = cClient[d].pA
    BY DEF InitiatorSession, ClientSecret
  <2>3. row \in SecureSession
    <3>1. /\ cRsp[d] \in Response /\ cReq[d] \in Request
          /\ cClient[d] \in [ctx : Context, pA : Nat] /\ m.pB \in Nat
      BY <1>0, <1>8, <2>1 DEF OnPake2, TypeInv, ClientFieldsSet, TypeOK, Message
    <3> QED
      BY <3>1 DEF InitiatorSession, ClientSecret, SecureSession, Secret, Request,
                  Response
  <2> HIDE DEF row
  <2>4. CASE d # e
    <3>1. cSessions'[e] = cSessions[e] /\ cState'[e] = cState[e]
      BY <1>0, <2>1, <2>4 DEF TypeOK
    <3>2. cClient' = cClient
      BY <1>8 DEF OnPake2
    <3> QED
      BY <1>3, <2>1, <3>1, <3>2
  <2>5. CASE d = e
    <3>1. /\ cSessions'[e] = Append(cSessions[e], row) /\ cState'[e] = "IDLE"
          /\ cSessions[e] \in Seq(SecureSession)
      BY <1>0, <2>1, <2>5 DEF TypeOK
    <3>2. /\ Len(cSessions'[e]) = Len(cSessions[e]) + 1 /\ Len(cSessions[e]) \in Nat
          /\ \A i \in 1..Len(cSessions[e]) :
                 i \in 1..Len(cSessions'[e]) /\ cSessions'[e][i] = cSessions[e][i]
          /\ \A i \in 1..Len(cSessions'[e]) :
                 \/ i \in 1..Len(cSessions[e])
                 \/ i = Len(cSessions[e]) + 1 /\ cSessions'[e][i] = row
      BY <2>3, <3>1, RowAppended
    <3>3. \A i \in 1..Len(cSessions[e]) : cSessions[e][i].key.pA # row.key.pA
      BY <1>0, <2>1, <2>2, <2>5 DEF ClientFresh
    <3>4. /\ row.key.pA < nonce[e]
          /\ \A x \in cStart[e] : x.pA # row.key.pA
      BY <1>0, <2>1, <2>2, <2>5 DEF ClientFresh
    <3> QED
      BY <1>0, <2>1, <3>1, <3>2, <3>3, <3>4 DEF ClientFresh
  <2> QED
    BY <2>4, <2>5
<1>9. ASSUME UNCHANGED cVars PROVE ClientFresh(e)'
  BY <1>3, <1>9 DEF cVars
<1>10. ASSUME NEW d \in Exchanges, ServerContinue(d) \/ ServerTimeout(d)
       PROVE  UNCHANGED cVars
  BY <1>10 DEF ServerContinue, ServerVerifierReady, SendPake2, ServerTimeout
<1>11. ASSUME NEW d \in Exchanges, NEW m \in net, ServerReceive(d, m) \/ ClientDrop(d, m)
       PROVE  UNCHANGED cVars
  BY <1>11 DEF ServerReceive, OnPbkdfParamRequest, OnPake1, OnPake3, OnPake3Throws,
               ServerDrop, ClientDrop
<1>12. ASSUME (\E m \in net : Lose(m)) \/ ServerRestart \/ UNCHANGED vars
       PROVE  UNCHANGED cVars
  BY <1>12 DEF Lose, ServerRestart, vars
<1> QED
  BY <1>4, <1>5, <1>6, <1>7, <1>8, <1>9, <1>10, <1>11, <1>12
  DEF Next, ClientReceive, ClientContinue

\* The steps of the server keep its numbers apart.
LEMMA ServerFreshStep ==
    ASSUME TypeInv, TypeInv', FreshInv, [Next]_vars, NEW e \in Exchanges
    PROVE  ServerFresh(e)'
<1>0. TypeOK /\ TypeOK' /\ ServerFresh(e)
  BY DEF TypeInv, FreshInv
<1>1. nonce[e] <= nonce'[e] /\ nonce'[e] \in Nat
  BY <1>0, NonceGrows DEF TypeOK
<1>2. /\ nonce[e] \in Nat
      /\ \A x \in sStart[e] : x.pB \in Nat
      /\ sState[e] = "AWAIT_PAKE3" => sSecret[e].pB \in Nat
      /\ \A i \in 1..Len(sSessions[e]) : sSessions[e][i].key.pB \in Nat
  BY NonceTypes
<1>3. ASSUME sStart'[e] = sStart[e], sSessions'[e] = sSessions[e],
             sState'[e] = "AWAIT_PAKE3" =>
                 sState[e] = "AWAIT_PAKE3" /\ sSecret'[e] = sSecret[e]
      PROVE  ServerFresh(e)'
  BY <1>0, <1>1, <1>3, FreshFrame
<1>4. ASSUME NEW d \in Exchanges, ServerTimeout(d)
      PROVE  ServerFresh(e)'
  BY <1>0, <1>3, <1>4 DEF ServerTimeout, TypeOK
<1>5. ASSUME NEW d \in Exchanges, NEW m \in net,
             OnPake1(d, m) \/ OnPake3Throws(d, m) \/ ServerDrop(d, m)
      PROVE  ServerFresh(e)'
  BY <1>3, <1>5 DEF OnPake1, OnPake3Throws, ServerDrop
<1>6. ASSUME NEW d \in Exchanges, NEW m \in net, OnPbkdfParamRequest(d, m)
      PROVE  ServerFresh(e)'
  <2>1. /\ sStart' = sStart /\ sSessions' = sSessions /\ sSecret' = sSecret
        /\ sState' = [sState EXCEPT ![d] = "AWAIT_PAKE1"]
    BY <1>6 DEF OnPbkdfParamRequest
  <2> QED
    BY <1>0, <1>3, <2>1 DEF TypeOK
<1>7. ASSUME NEW d \in Exchanges, ServerVerifierReady(d)
      PROVE  ServerFresh(e)'
  <2>1. /\ sSessions' = sSessions /\ sState' = sState /\ sSecret' = sSecret
        /\ nonce' = [nonce EXCEPT ![d] = @ + 1]
    BY <1>7 DEF ServerVerifierReady
  <2>2. PICK x : /\ x.pB = nonce[d]
                 /\ sStart' = [sStart EXCEPT ![d] = @ \cup {x}]
    BY <1>7 DEF ServerVerifierReady
  <2>3. CASE d # e
    BY <1>0, <1>3, <2>1, <2>2, <2>3 DEF TypeOK
  <2>4. CASE d = e
    <3>1. sStart'[e] = sStart[e] \cup {x} /\ nonce'[e] = nonce[e] + 1
      BY <1>0, <2>1, <2>2, <2>4 DEF TypeOK
    <3>2. \A k \in Nat : k < nonce[e] => k # x.pB /\ k < nonce'[e]
      BY <1>2, <2>2, <2>4, <3>1
    <3>3. x.pB < nonce'[e]
      BY <1>2, <2>2, <2>4, <3>1
    <3> QED
      BY <1>0, <1>2, <2>1, <3>1, <3>2, <3>3 DEF ServerFresh
  <2> QED
    BY <2>3, <2>4
<1>8. ASSUME NEW d \in Exchanges, NEW x \in sStart[d], SendPake2(d, x)
      PROVE  ServerFresh(e)'
  <2>1. /\ sSessions' = sSessions /\ nonce' = nonce
        /\ sStart' = [sStart EXCEPT ![d] = @ \ {x}]
        /\ sSecret' = [sSecret EXCEPT ![d] = ServerSecret(d, x)]
        /\ sState' = [sState EXCEPT ![d] = "AWAIT_PAKE3"]
    BY <1>8 DEF SendPake2
  <2>2. CASE d # e
    BY <1>0, <1>3, <2>1, <2>2 DEF TypeOK
  <2>3. CASE d = e
    <3>1. /\ sStart'[e] = sStart[e] \ {x} /\ sSecret'[e].pB = x.pB
          /\ x \in sStart[e] /\ nonce'[e] = nonce[e]
          /\ sSessions'[e] = sSessions[e]
      BY <1>0, <2>1, <2>3 DEF TypeOK, ServerSecret
    <3> QED
      BY <1>0, <3>1 DEF ServerFresh
  <2> QED
    BY <2>2, <2>3
<1>9. ASSUME NEW d \in Exchanges, NEW m \in net, OnPake3(d, m)
      PROVE  ServerFresh(e)'
  <2> DEFINE row == ResponderSession(sReq[d], sRsp[d], sSecret[d])
  <2>1. /\ sStart' = sStart /\ nonce' = nonce /\ sState[d] = "AWAIT_PAKE3"
        /\ sState' = [sState EXCEPT ![d] = "IDLE"] /\ sSecret' = sSecret
        /\ sSessions' = [sSessions EXCEPT ![d] = Append(@, row)]
    BY <1>9 DEF OnPake3
  <2>2. row.key.pB = sSecret[d].pB
    BY DEF ResponderSession
  <2>3. row \in SecureSession
    <3>1. sReq[d] \in Request /\ sRsp[d] \in Response /\ sSecret[d] \in Secret
      BY <2>1 DEF TypeInv, ServerFieldsSet
    <3> QED
      BY <3>1 DEF ResponderSession, SecureSession, Request, Response
  <2> HIDE DEF row
  <2>4. CASE d # e
    <3>1. sSessions'[e] = sSessions[e] /\ sState'[e] = sState[e]
      BY <1>0, <2>1, <2>4 DEF TypeOK
    <3> QED
      BY <1>3, <2>1, <3>1
  <2>5. CASE d = e
    <3>1. /\ sSessions'[e] = Append(sSessions[e], row) /\ sState'[e] = "IDLE"
          /\ sSessions[e] \in Seq(SecureSession)
      BY <1>0, <2>1, <2>5 DEF TypeOK
    <3>2. /\ Len(sSessions'[e]) = Len(sSessions[e]) + 1 /\ Len(sSessions[e]) \in Nat
          /\ \A i \in 1..Len(sSessions[e]) :
                 i \in 1..Len(sSessions'[e]) /\ sSessions'[e][i] = sSessions[e][i]
          /\ \A i \in 1..Len(sSessions'[e]) :
                 \/ i \in 1..Len(sSessions[e])
                 \/ i = Len(sSessions[e]) + 1 /\ sSessions'[e][i] = row
      BY <2>3, <3>1, RowAppended
    <3>3. \A i \in 1..Len(sSessions[e]) : sSessions[e][i].key.pB # row.key.pB
      BY <1>0, <2>1, <2>2, <2>5 DEF ServerFresh
    <3>4. /\ row.key.pB < nonce[e]
          /\ \A x \in sStart[e] : x.pB # row.key.pB
      BY <1>0, <2>1, <2>2, <2>5 DEF ServerFresh
    <3> QED
      BY <1>0, <2>1, <3>1, <3>2, <3>3, <3>4 DEF ServerFresh
  <2> QED
    BY <2>4, <2>5
<1>10. ASSUME ServerRestart PROVE ServerFresh(e)'
  <2>1. sStart'[e] = {} /\ sState'[e] = "IDLE" /\ sSessions'[e] = <<>>
    BY <1>10 DEF ServerRestart
  <2> QED
    BY <2>1 DEF ServerFresh
<1>11. ASSUME UNCHANGED sVars PROVE ServerFresh(e)'
  BY <1>3, <1>11 DEF sVars
<1>12. ASSUME NEW d \in Exchanges,
              StartPase(d) \/ ClientContinue(d) \/ ClientTimeout(d)
       PROVE  UNCHANGED sVars
  BY <1>12 DEF StartPase, ClientContinue, ClientVerifierReady, SendPake1, ClientTimeout
<1>13. ASSUME NEW d \in Exchanges, NEW m \in net, ClientReceive(d, m)
       PROVE  UNCHANGED sVars
  BY <1>13 DEF ClientReceive, OnPbkdfParamResponse, OnPake2, ClientDrop
<1>14. ASSUME (\E m \in net : Lose(m)) \/ UNCHANGED vars
       PROVE  UNCHANGED sVars
  BY <1>14 DEF Lose, vars
<1> QED
  BY <1>4, <1>5, <1>6, <1>7, <1>8, <1>9, <1>10, <1>11, <1>12, <1>13, <1>14
  DEF Next, ServerReceive, ServerContinue

\* NoKeyReuse: neither side ever opens two sessions under one secret, for any
\* number of repeated datagrams and restarts, and whether or not other events
\* run while onPbkdfParamResponse() and onPake1() are suspended.
THEOREM KeysUsedOnce == Spec => []NoKeyReuse
<1> DEFINE Inv == TypeInv /\ FreshInv
<1>1. Init => Inv
  BY TypeInit, FreshInit
<1>2. Inv /\ [Next]_vars => Inv'
  <2> SUFFICES ASSUME TypeInv, FreshInv, [Next]_vars PROVE Inv'
    OBVIOUS
  <2>1. TypeInv'
    BY TypeStep
  <2>2. ASSUME NEW e \in Exchanges PROVE ClientFresh(e)' /\ ServerFresh(e)'
    BY <2>1, ClientFreshStep, ServerFreshStep
  <2> QED
    BY <2>1, <2>2 DEF FreshInv
<1>3. Inv => NoKeyReuse
  BY DEF FreshInv, ClientFresh, ServerFresh, NoKeyReuse
<1> HIDE DEF Inv
<1> QED
  BY <1>1, <1>2, <1>3, PTL DEF Spec

-----------------------------------------------------------------------------
(***************************************************************************)
(* Agreement.  As long as the network repeats nothing, a handshake is one  *)
(* thread that passes from side to side: at any time at most one message   *)
(* of it is under way or one handler suspended, so what the other side     *)
(* remembers is still what it sent.  InOnePlace says the first, Agreed the *)
(* second; a status report, which the client drops, is no part of it.      *)
(***************************************************************************)
InFlight(e) == {m \in net : m.ex = e /\ m.op # "StatusReport"}

InOnePlace(e) ==
    /\ cReq[e] = None =>
         InFlight(e) = {} /\ cVerif[e] = 0 /\ cStart[e] = {}
                          /\ sVerif[e] = 0 /\ sStart[e] = {}
    /\ \A m \in InFlight(e) :
         /\ cVerif[e] = 0 /\ cStart[e] = {} /\ sVerif[e] = 0 /\ sStart[e] = {}
         /\ InFlight(e) = {m}
    /\ cVerif[e] # 0 =>
         cVerif[e] = 1 /\ cStart[e] = {} /\ sVerif[e] = 0 /\ sStart[e] = {}
    /\ \A x \in cStart[e] : cStart[e] = {x} /\ sVerif[e] = 0 /\ sStart[e] = {}
    /\ sVerif[e] # 0 => sVerif[e] = 1 /\ sStart[e] = {}
    /\ \A x \in sStart[e] : sStart[e] = {x}

\* The server, unless it has lost its PaseSession, has the client's transcript.
ServerHas(e, ctx) ==
    sExch[e] = "pase" => ctx = [req |-> sReq[e], rsp |-> sRsp[e]]

Agreed(e) ==
    /\ \A m \in InFlight(e) :
         /\ m.op = "ParamResponse" => ServerHas(e, [req |-> cReq[e], rsp |-> m.rsp])
         /\ m.op = "Pake1" => m.pA = cClient[e].pA /\ ServerHas(e, cClient[e].ctx)
         /\ m.op = "Pake2" =>
              /\ ClientSecret(e, m.pB) \in sKeys[e]
              /\ sState[e] = "AWAIT_PAKE3" => sSecret[e] = ClientSecret(e, m.pB)
         /\ m.op = "Pake3" /\ sState[e] = "AWAIT_PAKE3" => sSecret[e] = m.cA
    /\ cVerif[e] # 0 => ServerHas(e, [req |-> cReq[e], rsp |-> cRsp[e]])
    /\ \A x \in cStart[e] : ServerHas(e, x.ctx)
    /\ sVerif[e] # 0 => sSpake2[e] = cClient[e].ctx /\ sPA[e] = cClient[e].pA
    /\ \A x \in sStart[e] : x.ctx = cClient[e].ctx /\ sPA[e] = cClient[e].pA

Negotiated(e) == \A i \in 1..Len(cSessions[e]) : cSessions[e][i].key \in sKeys[e]

ThreadInv ==
    sUp /\ \A e \in Exchanges : InOnePlace(e) /\ Agreed(e) /\ Negotiated(e)

\* Nothing of the handshake e changes but that messages get lost and that a
\* timer brings the server's state back to IDLE.
Rests(e) ==
    /\ InFlight(e)' \subseteq InFlight(e)
    /\ cReq'[e] = cReq[e] /\ cRsp'[e] = cRsp[e] /\ cVerif'[e] = cVerif[e]
    /\ cStart'[e] = cStart[e] /\ cClient'[e] = cClient[e]
    /\ cSessions'[e] = cSessions[e]
    /\ sExch'[e] = "pase" => sExch[e] = "pase"
    /\ sReq'[e] = sReq[e] /\ sRsp'[e] = sRsp[e] /\ sSpake2'[e] = sSpake2[e]
    /\ sPA'[e] = sPA[e] /\ sVerif'[e] = sVerif[e] /\ sStart'[e] = sStart[e]
    /\ sState'[e] = "AWAIT_PAKE3" =>
           sState[e] = "AWAIT_PAKE3" /\ sSecret'[e] = sSecret[e]
    /\ sKeys[e] \subseteq sKeys'[e]

\* A step of another handshake changes no field of the handshake f.
Untouched(f) ==
    /\ cReq'[f] = cReq[f] /\ cRsp'[f] = cRsp[f] /\ cVerif'[f] = cVerif[f]
    /\ cStart'[f] = cStart[f] /\ cClient'[f] = cClient[f]
    /\ cSessions'[f] = cSessions[f]
    /\ sExch'[f] = sExch[f] /\ sState'[f] = sState[f]
    /\ sReq'[f] = sReq[f] /\ sRsp'[f] = sRsp[f] /\ sSpake2'[f] = sSpake2[f]
    /\ sPA'[f] = sPA[f] /\ sVerif'[f] = sVerif[f] /\ sStart'[f] = sStart[f]
    /\ sSecret'[f] = sSecret[f] /\ sKeys'[f] = sKeys[f]

\* A handshake that rests keeps its place and its agreement.
LEMMA RestsStep ==
    ASSUME NEW e, InOnePlace(e), Agreed(e), Negotiated(e), Rests(e)
    PROVE  InOnePlace(e)' /\ Agreed(e)' /\ Negotiated(e)'
<1>1. InOnePlace(e)'
  BY DEF Rests, InOnePlace
<1>2. \A ctx : ServerHas(e, ctx) => ServerHas(e, ctx)'
  BY DEF Rests, ServerHas
<1>3. ASSUME NEW m \in InFlight(e)'
      PROVE  /\ m.op = "ParamResponse" =>
                    ServerHas(e, [req |-> cReq[e], rsp |-> m.rsp])'
             /\ m.op = "Pake1" =>
                    m.pA = cClient'[e].pA /\ ServerHas(e, cClient[e].ctx)'
             /\ m.op = "Pake2" =>
                  /\ ClientSecret(e, m.pB)' \in sKeys'[e]
                  /\ sState'[e] = "AWAIT_PAKE3" =>
                         sSecret'[e] = ClientSecret(e, m.pB)'
             /\ m.op = "Pake3" /\ sState'[e] = "AWAIT_PAKE3" => sSecret'[e] = m.cA
  BY DEF Rests, Agreed, ServerHas, ClientSecret
<1>4. /\ cVerif'[e] # 0 => ServerHas(e, [req |-> cReq[e], rsp |-> cRsp[e]])'
      /\ \A x \in cStart'[e] : ServerHas(e, x.ctx)'
      /\ sVerif'[e] # 0 => sSpake2'[e] = cClient'[e].ctx /\ sPA'[e] = cClient'[e].pA
      /\ \A x \in sStart'[e] : x.ctx = cClient'[e].ctx /\ sPA'[e] = cClient'[e].pA
  BY DEF Rests, Agreed, ServerHas
<1>5. Agreed(e)'
  BY <1>3, <1>4 DEF Agreed
<1>6. Negotiated(e)'
  BY DEF Rests, Negotiated
<1> QED
  BY <1>1, <1>5, <1>6

\* Without repetitions a datagram that is received leaves the network.
LEMMA ConsumeOnce ==
    ASSUME MaxDup = 0, TypeOK, NEW m, NEW out, Consume(m, out)
    PROVE  m \in net /\ net' = (net \ {m}) \cup out
BY DEF TypeOK, Consume

\* A step of one handshake lets the others rest, if its messages are its own.
LEMMA OthersRest ==
    ASSUME TypeOK, NEW e \in Exchanges, NEW f \in Exchanges, e # f,
           \A m \in net' : m \in net \/ m.ex = e,
           \/ StartPase(e) \/ ClientTimeout(e) \/ ServerTimeout(e)
           \/ ClientContinue(e) \/ ServerContinue(e)
           \/ \E m \in net : ClientReceive(e, m) \/ ServerReceive(e, m)
    PROVE  Rests(f)
<1>1. InFlight(f)' \subseteq InFlight(f)
  BY DEF InFlight
<1>2. Untouched(f)
  <2>1. CASE StartPase(e)
    BY <2>1 DEF Untouched, TypeOK, StartPase, sVars
  <2>2. CASE ClientTimeout(e)
    BY <2>2 DEF Untouched, TypeOK, ClientTimeout, sVars
  <2>3. CASE ServerTimeout(e)
    BY <2>3 DEF Untouched, TypeOK, ServerTimeout, cVars
  <2>4. CASE ClientVerifierReady(e)
    BY <2>4 DEF Untouched, TypeOK, ClientVerifierReady, sVars
  <2>5. ASSUME NEW x, SendPake1(e, x) PROVE Untouched(f)
    BY <2>5 DEF Untouched, TypeOK, SendPake1, sVars
  <2>6. CASE ServerVerifierReady(e)
    BY <2>6 DEF Untouched, TypeOK, ServerVerifierReady, cVars
  <2>7. ASSUME NEW x, SendPake2(e, x) PROVE Untouched(f)
    BY <2>7 DEF Untouched, TypeOK, SendPake2, cVars
  <2>8. ASSUME NEW m, OnPbkdfParamResponse(e, m) PROVE Untouched(f)
    BY <2>8 DEF Untouched, TypeOK, OnPbkdfParamResponse, sVars
  <2>9. ASSUME NEW m, OnPake2(e, m) PROVE Untouched(f)
    BY <2>9 DEF Untouched, TypeOK, OnPake2, sVars
  <2>10. ASSUME NEW m, ClientDrop(e, m) PROVE Untouched(f)
    BY <2>10 DEF Untouched, ClientDrop, cVars, sVars
  <2>11. ASSUME NEW m, OnPbkdfParamRequest(e, m) PROVE Untouched(f)
    BY <2>11 DEF Untouched, TypeOK, OnPbkdfParamRequest, cVars
  <2>12. ASSUME NEW m, OnPake1(e, m) PROVE Untouched(f)
    BY <2>12 DEF Untouched, TypeOK, OnPake1, cVars
  <2>13. ASSUME NEW m, OnPake3(e, m) PROVE Untouched(f)
    BY <2>13 DEF Untouched, TypeOK, OnPake3, cVars
  <2>14. ASSUME NEW m, OnPake3Throws(e, m) PROVE Untouched(f)
    BY <2>14 DEF Untouched, OnPake3Throws, cVars
  <2>15. ASSUME NEW m, ServerDrop(e, m) PROVE Untouched(f)
    BY <2>15 DEF Untouched, TypeOK, ServerDrop, cVars
  <2> QED
    BY <2>1, <2>2, <2>3, <2>4, <2>5, <2>6, <2>7, <2>8, <2>9, <2>10, <2>11, <2>12,
       <2>13, <2>14, <2>15
    DEF ClientContinue, ServerContinue, ClientReceive, ServerReceive
<1> QED
  BY <1>1, <1>2 DEF Rests, Untouched

\* What a step at a place of a handshake leaves: its one place is the next.
LEMMA ClientThreadStep ==
    ASSUME MaxDup = 0, TypeInv, NEW e \in Exchanges,
           InOnePlace(e), Agreed(e), Negotiated(e),
           \/ StartPase(e) \/ ClientTimeout(e) \/ ClientContinue(e)
           \/ \E m \in net : ClientReceive(e, m)
    PROVE  /\ InOnePlace(e)' /\ Agreed(e)' /\ Negotiated(e)'
           /\ \A m \in net' : m \in net \/ m.ex = e
<1>0. TypeOK
  BY DEF TypeInv
<1>1. CASE StartPase(e)
  <2>1. PICK m : /\ m.op = "ParamRequest" /\ m.ex = e /\ net' = net \cup {m}
                 /\ cReq'[e] # None /\ cReq[e] = None
    <3>1. PICK sid \in SessionIds :
             /\ cReq' = [cReq EXCEPT ![e] = [ex |-> e, sid |-> sid]]
             /\ net' = net \cup {[op |-> "ParamRequest", ex |-> e,
                                  req |-> [ex |-> e, sid |-> sid]]}
      BY <1>1 DEF StartPase, Send
    <3>2. cReq'[e] = [ex |-> e, sid |-> sid] /\ cReq[e] = None
      BY <1>0, <1>1, <3>1 DEF StartPase, TypeOK
    <3>3. cReq'[e] # None
      BY <3>2, NoneAssumption
    <3> QED
      BY <3>1, <3>2, <3>3
  <2>2. /\ InFlight(e)' = {m} /\ cVerif[e] = 0 /\ cStart[e] = {}
        /\ sVerif[e] = 0 /\ sStart[e] = {}
    BY <2>1 DEF InOnePlace, InFlight
  <2>3. UNCHANGED <<cVerif, cStart, cSessions, sVerif, sStart, sKeys>>
    BY <1>1 DEF StartPase, sVars
  <2> QED
    BY <2>1, <2>2, <2>3 DEF InOnePlace, Agreed, Negotiated
<1>2. CASE ClientTimeout(e)
  <2>1. Rests(e) /\ net' = net
    BY <1>2 DEF ClientTimeout, Rests, InFlight, sVars
  <2> QED
    BY <2>1, RestsStep
<1>3. CASE ClientVerifierReady(e)
  <2>1. PICK x : x = [ctx |-> [req |-> cReq[e], rsp |-> cRsp[e]], pA |-> nonce[e]]
    OBVIOUS
  <2>2. /\ net' = net /\ UNCHANGED <<cReq, cSessions, sVars, sKeys>>
        /\ cVerif'[e] = 0 /\ cStart'[e] = {x} /\ sVerif[e] = 0 /\ sStart[e] = {}
        /\ cVerif[e] # 0
    BY <1>0, <1>3, <2>1 DEF ClientVerifierReady, InOnePlace, TypeOK
  <2>3. InFlight(e)' = {} /\ cReq[e] # None
    BY <2>2 DEF InOnePlace, InFlight
  <2>4. ServerHas(e, x.ctx)
    BY <2>1, <2>2 DEF Agreed
  <2>5. ServerHas(e, x.ctx)'
    BY <2>2, <2>4 DEF ServerHas, sVars
  <2>6. sVerif'[e] = 0 /\ sStart'[e] = {}
    BY <2>2 DEF sVars
  <2>7. InOnePlace(e)'
    BY <2>2, <2>3, <2>6 DEF InOnePlace
  <2>8. Agreed(e)'
    BY <2>2, <2>3, <2>5, <2>6 DEF Agreed
  <2> QED
    BY <2>2, <2>7, <2>8 DEF Negotiated
<1>4. ASSUME NEW x \in cStart[e], SendPake1(e, x)
      PROVE  /\ InOnePlace(e)' /\ Agreed(e)' /\ Negotiated(e)'
             /\ \A m \in net' : m \in net \/ m.ex = e
  <2> DEFINE m == [op |-> "Pake1", ex |-> e, pA |-> x.pA]
  <2>1. /\ net' = net \cup {m} /\ UNCHANGED <<cReq, cSessions, sVars, sKeys>>
        /\ cStart'[e] = {} /\ cClient'[e] = x /\ cVerif' = cVerif
        /\ cVerif[e] = 0 /\ sVerif[e] = 0 /\ sStart[e] = {}
    BY <1>0, <1>4 DEF SendPake1, Send, InOnePlace, TypeOK
  <2>2. InFlight(e) = {} /\ cReq[e] # None
    BY DEF InOnePlace
  <2>3. m.op = "Pake1" /\ m.ex = e /\ m.pA = x.pA
    OBVIOUS
  <2> HIDE DEF m
  <2>4. InFlight(e)' = {m}
    BY <2>1, <2>2, <2>3 DEF InFlight
  <2>5. ServerHas(e, cClient[e].ctx)'
    BY <2>1 DEF Agreed, ServerHas, sVars
  <2>6. sVerif'[e] = 0 /\ sStart'[e] = {} /\ cVerif'[e] = 0
    BY <2>1 DEF sVars
  <2>7. InOnePlace(e)'
    BY <2>1, <2>2, <2>4, <2>6 DEF InOnePlace
  <2>8. Agreed(e)'
    BY <2>1, <2>3, <2>4, <2>5, <2>6 DEF Agreed
  <2> QED
    BY <2>1, <2>3, <2>7, <2>8 DEF Negotiated
<1>5. ASSUME NEW m \in net, OnPbkdfParamResponse(e, m)
      PROVE  /\ InOnePlace(e)' /\ Agreed(e)' /\ Negotiated(e)'
             /\ \A n \in net' : n \in net \/ n.ex = e
  <2>1. net' = net \ {m} /\ m \in InFlight(e)
    BY <1>0, <1>5, ConsumeOnce DEF OnPbkdfParamResponse, InFlight
  <2>2. /\ cVerif[e] = 0 /\ cStart[e] = {} /\ sVerif[e] = 0 /\ sStart[e] = {}
        /\ InFlight(e) = {m} /\ cReq[e] # None
    BY <2>1 DEF InOnePlace
  <2>3. /\ UNCHANGED <<cReq, cStart, cSessions, sVars, sKeys>>
        /\ cRsp'[e] = m.rsp /\ cVerif'[e] = 1
    BY <1>0, <1>5, <2>2 DEF OnPbkdfParamResponse, TypeOK
  <2>4. InFlight(e)' = {}
    BY <2>1, <2>2 DEF InFlight
  <2>5. ServerHas(e, [req |-> cReq[e], rsp |-> cRsp[e]])'
    BY <1>5, <2>1, <2>3 DEF Agreed, ServerHas, sVars, OnPbkdfParamResponse
  <2>6. sVerif'[e] = 0 /\ sStart'[e] = {}
    BY <2>2, <2>3 DEF sVars
  <2>7. InOnePlace(e)'
    BY <2>2, <2>3, <2>4, <2>6 DEF InOnePlace
  <2>8. Agreed(e)'
    BY <2>2, <2>3, <2>4, <2>5, <2>6 DEF Agreed
  <2> QED
    BY <2>1, <2>3, <2>7, <2>8 DEF Negotiated
<1>6. ASSUME NEW m \in net, OnPake2(e, m)
      PROVE  /\ InOnePlace(e)' /\ Agreed(e)' /\ Negotiated(e)'
             /\ \A n \in net' : n \in net \/ n.ex = e
  <2> DEFINE secret == ClientSecret(e, m.pB)
             row == InitiatorSession(cReq[e], cRsp[e], secret)
             n3 == [op |-> "Pake3", ex |-> e, cA |-> secret]
  <2>1. net' = (net \ {m}) \cup {n3} /\ m \in InFlight(e)
    BY <1>0, <1>6, ConsumeOnce DEF OnPake2, InFlight
  <2>2. /\ cVerif[e] = 0 /\ cStart[e] = {} /\ sVerif[e] = 0 /\ sStart[e] = {}
        /\ InFlight(e) = {m} /\ cReq[e] # None
    BY <2>1 DEF InOnePlace
  <2>3. /\ UNCHANGED <<cReq, cRsp, cVerif, cStart, cClient, sVars, sKeys>>
        /\ cSessions'[e] = Append(cSessions[e], row)
        /\ cState[e] = "AWAIT_PAKE2"
    BY <1>0, <1>6 DEF OnPake2, AcceptsPake2, TypeOK
  <2>4. row \in SecureSession
    <3>1. /\ cRsp[e] \in Response /\ cReq[e] \in Request
          /\ cClient[e] \in [ctx : Context, pA : Nat] /\ m.pB \in Nat
      BY <1>0, <1>6, <2>3 DEF OnPake2, TypeInv, ClientFieldsSet, TypeOK, Message
    <3> QED
      BY <3>1 DEF InitiatorSession, ClientSecret, SecureSession, Secret, Request,
                  Response
  <2>5. row.key = secret
    BY DEF InitiatorSession
  <2>6. n3.op = "Pake3" /\ n3.ex = e /\ n3.cA = secret
    OBVIOUS
  <2>7. /\ secret \in sKeys[e]
        /\ sState[e] = "AWAIT_PAKE3" => sSecret[e] = secret
    BY <1>6, <2>1 DEF Agreed, OnPake2
  <2> HIDE DEF secret, row, n3
  <2>8. InFlight(e)' = {n3}
    BY <2>1, <2>2, <2>6 DEF InFlight
  <2>9. /\ sVerif'[e] = 0 /\ sStart'[e] = {} /\ cVerif'[e] = 0 /\ cStart'[e] = {}
        /\ cReq'[e] # None
    BY <2>2, <2>3 DEF sVars
  <2>10. InOnePlace(e)'
    BY <2>8, <2>9 DEF InOnePlace
  <2>11. Agreed(e)'
    BY <2>3, <2>6, <2>7, <2>8, <2>9 DEF Agreed, sVars
  <2>12. Negotiated(e)'
    <3>1. cSessions[e] \in Seq(SecureSession)
      BY <1>0 DEF TypeOK
    <3>2. \A i \in 1..Len(cSessions'[e]) :
             (i \in 1..Len(cSessions[e]) /\ cSessions'[e][i] = cSessions[e][i])
                \/ cSessions'[e][i] = row
      BY <2>3, <2>4, <3>1, RowAppended
    <3> QED
      BY <2>3, <2>5, <2>7, <3>2 DEF Negotiated
  <2> QED
    BY <2>1, <2>6, <2>10, <2>11, <2>12
<1>7. ASSUME NEW m \in net, ClientDrop(e, m)
      PROVE  /\ InOnePlace(e)' /\ Agreed(e)' /\ Negotiated(e)'
             /\ \A n \in net' : n \in net \/ n.ex = e
  <2>1. net' \subseteq net
    BY <1>0, <1>7, ConsumeOnce DEF ClientDrop
  <2>2. Rests(e)
    BY <1>7, <2>1 DEF ClientDrop, Rests, InFlight, cVars, sVars
  <2> QED
    BY <2>1, <2>2, RestsStep
<1> QED
  BY <1>1, <1>2, <1>3, <1>4, <1>5, <1>6, <1>7 DEF ClientContinue, ClientReceive

\* The same for the steps of the server; no Pake3 makes verifyHash() throw.
LEMMA ServerThreadStep ==
    ASSUME MaxDup = 0, TypeInv, KeyInv, NEW e \in Exchanges,
           InOnePlace(e), Agreed(e), Negotiated(e), sUp,
           \/ ServerTimeout(e) \/ ServerContinue(e)
           \/ \E m \in net : ServerReceive(e, m)
    PROVE  /\ InOnePlace(e)' /\ Agreed(e)' /\ Negotiated(e)' /\ sUp'
           /\ \A m \in net' : m \in net \/ m.ex = e
<1>0. TypeOK
  BY DEF TypeInv
<1>1. CASE ServerTimeout(e)
  <2>1. Rests(e) /\ net' = net /\ sUp' = sUp
    BY <1>0, <1>1 DEF ServerTimeout, Rests, InFlight, cVars, TypeOK
  <2> QED
    BY <2>1, RestsStep
<1>2. CASE ServerVerifierReady(e)
  <2>1. PICK x : x = [ctx |-> sSpake2[e], pB |-> nonce[e]]
    OBVIOUS
  <2>2. /\ net' = net /\ UNCHANGED <<cVars, sPA, sKeys, sUp>>
        /\ sVerif'[e] = 0 /\ sStart'[e] = {x} /\ sVerif[e] # 0
    BY <1>0, <1>2, <2>1 DEF ServerVerifierReady, InOnePlace, TypeOK
  <2>3. /\ InFlight(e)' = {} /\ cReq[e] # None
        /\ cVerif[e] = 0 /\ cStart[e] = {}
    BY <2>2 DEF InOnePlace, InFlight
  <2>4. x.ctx = cClient[e].ctx /\ sPA[e] = cClient[e].pA
    BY <2>1, <2>2 DEF Agreed
  <2>5. cVerif'[e] = 0 /\ cStart'[e] = {} /\ cReq'[e] # None
    BY <2>2, <2>3 DEF cVars
  <2>6. InOnePlace(e)'
    BY <2>2, <2>3, <2>5 DEF InOnePlace
  <2>7. Agreed(e)'
    BY <2>2, <2>3, <2>4, <2>5 DEF Agreed, cVars
  <2> QED
    BY <2>2, <2>6, <2>7 DEF Negotiated, cVars
<1>3. ASSUME NEW x \in sStart[e], SendPake2(e, x)
      PROVE  /\ InOnePlace(e)' /\ Agreed(e)' /\ Negotiated(e)' /\ sUp'
             /\ \A m \in net' : m \in net \/ m.ex = e
  <2>1. PICK secret : secret = ServerSecret(e, x)
    OBVIOUS
  <2>2. PICK m : m = [op |-> "Pake2", ex |-> e, pB |-> x.pB, cB |-> secret]
    OBVIOUS
  <2>3. /\ net' = net \cup {m} /\ UNCHANGED <<cVars, sVerif, sUp>>
        /\ sStart' = [sStart EXCEPT ![e] = @ \ {x}]
        /\ sSecret' = [sSecret EXCEPT ![e] = secret]
        /\ sKeys' = [sKeys EXCEPT ![e] = @ \cup {secret}]
    BY <1>3, <2>1, <2>2 DEF SendPake2, Send
  <2>4. sStart[e] = {x} /\ sVerif[e] = 0
    BY DEF InOnePlace
  <2>5. /\ sStart'[e] = {} /\ sSecret'[e] = secret /\ secret \in sKeys'[e]
        /\ sKeys[e] \subseteq sKeys'[e]
    BY <1>0, <2>3, <2>4 DEF TypeOK
  <2>6. /\ InFlight(e) = {} /\ cReq[e] # None
        /\ cVerif[e] = 0 /\ cStart[e] = {}
    BY DEF InOnePlace
  <2>7. m.op = "Pake2" /\ m.ex = e /\ m.pB = x.pB
    BY <2>2
  <2>8. InFlight(e)' = {m}
    BY <2>3, <2>6, <2>7 DEF InFlight
  <2>9. secret = ClientSecret(e, x.pB)
    BY <2>1 DEF Agreed, ServerSecret, ClientSecret
  <2>10. ClientSecret(e, m.pB)' = secret
    BY <2>3, <2>7, <2>9 DEF ClientSecret, cVars
  <2>11. /\ cVerif'[e] = 0 /\ cStart'[e] = {} /\ cReq'[e] # None /\ sVerif'[e] = 0
    BY <2>3, <2>4, <2>6 DEF cVars
  <2>12. InOnePlace(e)'
    BY <2>5, <2>8, <2>11 DEF InOnePlace
  <2>13. Agreed(e)'
    BY <2>5, <2>7, <2>8, <2>10, <2>11 DEF Agreed
  <2> QED
    BY <2>3, <2>5, <2>7, <2>12, <2>13 DEF Negotiated, cVars
<1>4. ASSUME NEW m \in net, OnPbkdfParamRequest(e, m)
      PROVE  /\ InOnePlace(e)' /\ Agreed(e)' /\ Negotiated(e)' /\ sUp'
             /\ \A n \in net' : n \in net \/ n.ex = e
  <2>1. PICK rsp : /\ sRsp' = [sRsp EXCEPT ![e] = rsp]
                   /\ Consume(m, {[op |-> "ParamResponse", ex |-> e, rsp |-> rsp]})
    BY <1>4 DEF OnPbkdfParamRequest
  <2>2. PICK n : n = [op |-> "ParamResponse", ex |-> e, rsp |-> rsp]
    OBVIOUS
  <2>3. net' = (net \ {m}) \cup {n} /\ m \in InFlight(e)
    BY <1>0, <1>4, <2>1, <2>2, ConsumeOnce DEF OnPbkdfParamRequest, InFlight
  <2>4. /\ cVerif[e] = 0 /\ cStart[e] = {} /\ sVerif[e] = 0 /\ sStart[e] = {}
        /\ InFlight(e) = {m} /\ cReq[e] # None
    BY <2>3 DEF InOnePlace
  <2>5. /\ UNCHANGED <<cVars, sVerif, sStart, sUp, sKeys>>
        /\ sReq'[e] = m.req /\ sRsp'[e] = rsp
    BY <1>0, <1>4, <2>1 DEF OnPbkdfParamRequest, TypeOK
  <2>6. m.req = cReq[e]
    BY <1>4 DEF KeyInv, RequestsAgree, OnPbkdfParamRequest
  <2>7. n.op = "ParamResponse" /\ n.ex = e /\ n.rsp = rsp
    BY <2>2
  <2>8. InFlight(e)' = {n}
    BY <2>3, <2>4, <2>7 DEF InFlight
  <2>9. ServerHas(e, [req |-> cReq[e], rsp |-> n.rsp])'
    BY <2>5, <2>6, <2>7 DEF ServerHas, cVars
  <2>10. /\ cVerif'[e] = 0 /\ cStart'[e] = {} /\ cReq'[e] # None
         /\ sVerif'[e] = 0 /\ sStart'[e] = {}
    BY <2>4, <2>5 DEF cVars
  <2>11. InOnePlace(e)'
    BY <2>8, <2>10 DEF InOnePlace
  <2>12. Agreed(e)'
    BY <2>7, <2>8, <2>9, <2>10 DEF Agreed
  <2> QED
    BY <2>3, <2>5, <2>7, <2>11, <2>12 DEF Negotiated, cVars
<1>5. ASSUME NEW m \in net, OnPake1(e, m)
      PROVE  /\ InOnePlace(e)' /\ Agreed(e)' /\ Negotiated(e)' /\ sUp'
             /\ \A n \in net' : n \in net \/ n.ex = e
  <2>1. net' = net \ {m} /\ m \in InFlight(e)
    BY <1>0, <1>5, ConsumeOnce DEF OnPake1, InFlight
  <2>2. /\ cVerif[e] = 0 /\ cStart[e] = {} /\ sVerif[e] = 0 /\ sStart[e] = {}
        /\ InFlight(e) = {m} /\ cReq[e] # None
    BY <2>1 DEF InOnePlace
  <2>3. /\ UNCHANGED <<cVars, sStart, sUp, sKeys>>
        /\ sPA'[e] = m.pA /\ sSpake2'[e] = [req |-> sReq[e], rsp |-> sRsp[e]]
        /\ sVerif'[e] = 1
    BY <1>0, <1>5, <2>2 DEF OnPake1, TypeOK
  <2>4. m.pA = cClient[e].pA /\ cClient[e].ctx = [req |-> sReq[e], rsp |-> sRsp[e]]
    BY <1>5, <2>1 DEF Agreed, ServerHas, OnPake1
  <2>5. InFlight(e)' = {}
    BY <2>1, <2>2 DEF InFlight
  <2>6. cVerif'[e] = 0 /\ cStart'[e] = {} /\ cReq'[e] # None /\ sStart'[e] = {}
    BY <2>2, <2>3 DEF cVars
  <2>7. InOnePlace(e)'
    BY <2>3, <2>5, <2>6 DEF InOnePlace
  <2>8. Agreed(e)'
    BY <2>3, <2>4, <2>5, <2>6 DEF Agreed, cVars
  <2> QED
    BY <2>1, <2>3, <2>7, <2>8 DEF Negotiated, cVars
<1>6. ASSUME NEW m \in net, OnPake3(e, m)
      PROVE  /\ InOnePlace(e)' /\ Agreed(e)' /\ Negotiated(e)' /\ sUp'
             /\ \A n \in net' : n \in net \/ n.ex = e
  <2>1. /\ net' = (net \ {m}) \cup {[op |-> "StatusReport", ex |-> e]}
        /\ m \in InFlight(e)
    BY <1>0, <1>6, ConsumeOnce DEF OnPake3, InFlight
  <2>2. InFlight(e)' \subseteq InFlight(e)
    BY <2>1 DEF InFlight
  <2>3. Rests(e) /\ sUp' = sUp
    BY <1>0, <1>6, <2>2 DEF OnPake3, Rests, cVars, TypeOK
  <2> QED
    BY <2>1, <2>3, RestsStep
<1>7. ASSUME NEW m \in net, OnPake3Throws(e, m) PROVE FALSE
  <2>1. /\ m \in InFlight(e) /\ m.op = "Pake3" /\ sState[e] = "AWAIT_PAKE3"
        /\ m.cA # sSecret[e]
    BY <1>7 DEF OnPake3Throws, InFlight, VerifyHash
  <2> QED
    BY <2>1 DEF Agreed
<1>8. ASSUME NEW m \in net, ServerDrop(e, m)
      PROVE  /\ InOnePlace(e)' /\ Agreed(e)' /\ Negotiated(e)' /\ sUp'
             /\ \A n \in net' : n \in net \/ n.ex = e
  <2>1. net' \subseteq net
    BY <1>0, <1>8, ConsumeOnce DEF ServerDrop
  <2>2. sExch'[e] = "pase" => sExch[e] = "pase"
    BY <1>0, <1>8 DEF ServerDrop, TypeOK
  <2>3. Rests(e) /\ sUp' = sUp
    BY <1>8, <2>1, <2>2 DEF ServerDrop, Rests, InFlight, cVars
  <2> QED
    BY <2>1, <2>3, RestsStep
<1> QED
  BY <1>1, <1>2, <1>3, <1>4, <1>5, <1>6, <1>7, <1>8 DEF ServerContinue, ServerReceive

\* A handshake has not begun, and no server has stopped, at the start.
LEMMA ThreadInit == Init => ThreadInv
<1> SUFFICES ASSUME Init PROVE ThreadInv
  OBVIOUS
<1>1. ASSUME NEW e \in Exchanges
      PROVE  /\ InFlight(e) = {} /\ cVerif[e] = 0 /\ cStart[e] = {}
             /\ sVerif[e] = 0 /\ sStart[e] = {} /\ cSessions[e] = <<>>
  BY DEF Init, InFlight
<1>2. sUp
  BY DEF Init
<1> QED
  BY <1>1, <1>2 DEF ThreadInv, InOnePlace, Agreed, Negotiated

\* A restart ends the handshakes whose thread was in the server.
LEMMA RestartThreadStep ==
    ASSUME TypeOK, NEW e \in Exchanges, InOnePlace(e), Agreed(e), Negotiated(e),
           ServerRestart
    PROVE  InOnePlace(e)' /\ Agreed(e)' /\ Negotiated(e)'
<1>1. /\ UNCHANGED <<cVars, net, sKeys>>
      /\ sVerif'[e] = 0 /\ sStart'[e] = {} /\ sExch'[e] = "none"
      /\ sState'[e] = "IDLE"
  BY DEF ServerRestart
<1>2. InFlight(e)' = InFlight(e)
  BY <1>1 DEF InFlight
<1>3. InOnePlace(e)'
  BY <1>1, <1>2 DEF InOnePlace, cVars
<1>4. \A ctx : ServerHas(e, ctx)'
  BY <1>1 DEF ServerHas
<1>5. \A m \in InFlight(e)' : m \in InFlight(e)
                  /\ ClientSecret(e, m.pB)' = ClientSecret(e, m.pB)
  BY <1>1, <1>2 DEF ClientSecret, cVars
<1>6. /\ ServerHas(e, cClient[e].ctx)'
      /\ ServerHas(e, [req |-> cReq[e], rsp |-> cRsp[e]])'
      /\ \A m \in InFlight(e)' : ServerHas(e, [req |-> cReq[e], rsp |-> m.rsp])'
      /\ \A x \in cStart'[e] : ServerHas(e, x.ctx)'
  BY <1>1 DEF ServerHas
<1>7. Agreed(e)'
  BY <1>1, <1>5, <1>6 DEF Agreed, cVars
<1> QED
  BY <1>1, <1>3, <1>7 DEF Negotiated, cVars

\* Every step keeps each handshake in one place.
LEMMA ThreadStep ==
    ASSUME MaxDup = 0, TypeInv, KeyInv, ThreadInv, [Next]_vars
    PROVE  ThreadInv'
<1>0. TypeOK /\ sUp /\ \A e \in Exchanges : InOnePlace(e) /\ Agreed(e) /\ Negotiated(e)
  BY DEF TypeInv, ThreadInv
<1>1. ASSUME NEW e \in Exchanges,
             \/ StartPase(e) \/ ClientTimeout(e) \/ ClientContinue(e)
             \/ \E m \in net : ClientReceive(e, m)
      PROVE  ThreadInv'
  <2>1. /\ InOnePlace(e)' /\ Agreed(e)' /\ Negotiated(e)'
        /\ \A m \in net' : m \in net \/ m.ex = e
    BY <1>0, <1>1, ClientThreadStep
  <2>2. ASSUME NEW f \in Exchanges, e # f
        PROVE  InOnePlace(f)' /\ Agreed(f)' /\ Negotiated(f)'
    <3>1. Rests(f)
      BY <1>0, <1>1, <2>1, <2>2, OthersRest
    <3> QED
      BY <1>0, <3>1, RestsStep
  <2>3. sUp' = sUp
    BY <1>1 DEF StartPase, ClientTimeout, ClientContinue, ClientVerifierReady, SendPake1,
                ClientReceive, OnPbkdfParamResponse, OnPake2, ClientDrop, sVars
  <2> QED
    BY <1>0, <2>1, <2>2, <2>3 DEF ThreadInv
<1>2. ASSUME NEW e \in Exchanges,
             \/ ServerTimeout(e) \/ ServerContinue(e)
             \/ \E m \in net : ServerReceive(e, m)
      PROVE  ThreadInv'
  <2>1. /\ InOnePlace(e)' /\ Agreed(e)' /\ Negotiated(e)' /\ sUp'
        /\ \A m \in net' : m \in net \/ m.ex = e
    BY <1>0, <1>2, ServerThreadStep
  <2>2. ASSUME NEW f \in Exchanges, e # f
        PROVE  InOnePlace(f)' /\ Agreed(f)' /\ Negotiated(f)'
    <3>1. Rests(f)
      BY <1>0, <1>2, <2>1, <2>2, OthersRest
    <3> QED
      BY <1>0, <3>1, RestsStep
  <2> QED
    BY <2>1, <2>2 DEF ThreadInv
<1>3. ASSUME (\E m \in net : Lose(m)) \/ UNCHANGED vars
      PROVE  ThreadInv'
  <2>1. UNCHANGED <<cVars, sVars, sKeys>> /\ net' \subseteq net
    BY <1>3 DEF Lose, vars
  <2>2. ASSUME NEW e \in Exchanges
        PROVE  InOnePlace(e)' /\ Agreed(e)' /\ Negotiated(e)'
    <3>1. Rests(e)
      BY <2>1 DEF Rests, InFlight, cVars, sVars
    <3> QED
      BY <1>0, <3>1, RestsStep
  <2> QED
    BY <1>0, <2>1, <2>2 DEF ThreadInv, sVars
<1>4. CASE ServerRestart
  <2>1. sUp'
    BY <1>4 DEF ServerRestart
  <2>2. ASSUME NEW e \in Exchanges
        PROVE  InOnePlace(e)' /\ Agreed(e)' /\ Negotiated(e)'
    BY <1>0, <1>4, RestartThreadStep
  <2> QED
    BY <2>1, <2>2 DEF ThreadInv
<1> QED
  BY <1>1, <1>2, <1>3, <1>4 DEF Next

\* If the network repeats nothing, the invariant of the thread holds, whatever
\* is lost, whichever timers fire early and whenever the server restarts.
LEMMA ThreadInvHolds ==
    ASSUME MaxDup = 0
    PROVE  Spec => []ThreadInv
<1> DEFINE Inv == TypeInv /\ KeyInv /\ ThreadInv
<1>1. Init => Inv
  BY TypeInit, KeyInit, ThreadInit
<1>2. Inv /\ [Next]_vars => Inv'
  BY TypeStep, KeyStep, ThreadStep
<1>3. Inv => ThreadInv
  OBVIOUS
<1> HIDE DEF Inv
<1> QED
  BY <1>1, <1>2, <1>3, PTL DEF Spec

\* ClientKeyNegotiated: if the network repeats no datagram, the client's
\* createSecureSession() only gets secrets that the server derived too.
THEOREM KeyNegotiation ==
    ASSUME MaxDup = 0
    PROVE  Spec => []ClientKeyNegotiated
<1>1. ThreadInv => ClientKeyNegotiated
  BY DEF ThreadInv, Negotiated, ClientKeyNegotiated, Table
<1> QED
  BY <1>1, ThreadInvHolds, PTL

\* ServerSurvives: if the network repeats no datagram, verifyHash() never
\* throws, and no handshake stops the server process.
THEOREM Survival ==
    ASSUME MaxDup = 0
    PROVE  Spec => []ServerSurvives
<1>1. ThreadInv => ServerSurvives
  BY DEF ThreadInv, ServerSurvives
<1> QED
  BY <1>1, ThreadInvHolds, PTL

=============================================================================
