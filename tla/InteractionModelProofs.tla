----------------------- MODULE InteractionModelProofs -----------------------
(***************************************************************************)
(* Proofs about InteractionModel for any peers, session ids, exchange ids, *)
(* lists of commands and bounds.                                           *)
(***************************************************************************)
EXTENDS InteractionModel, ArrayLemmas, TLAPS

-----------------------------------------------------------------------------
(***************************************************************************)
(* The inductive invariant, in two parts: what a request's session is, and *)
(* how far the loop over its commands has come.                            *)
(***************************************************************************)
Senders == Peers \cup TestPeers

\* A request's session: the first one with its session id, of the same key, and
\* with an address to answer to.
Settled(m, s) ==
    /\ s \in 1..Len(sessions)
    /\ sessions[s].peer = m.sid /\ sessions[s].key = m.key
    /\ sessions[s].to \in Senders
    /\ \A j \in 1..Len(sessions) : j < s => sessions[j].peer # m.sid

\* A request that was handled has left an exchange on its session.
Absorbed(m) ==
    /\ m \in net
    /\ \E s \in 1..Len(sessions) :
           /\ Settled(m, s)
           /\ \E e \in 1..Len(exchanges) :
                 exchanges[e].s = s /\ exchanges[e].id = m.id

ExecutedOK == \A i \in 1..Len(executed) : Absorbed(executed[i])

Executed(m) == \E i \in 1..Len(executed) : executed[i] = m

CallOK == call # None => Executed(call.m)

\* A session of PASE is its peer's only one and has the ids both ends picked;
\* a session that was made up has one id.
SessionsOK ==
    \A i \in 1..Len(sessions) :
        /\ sessions[i].key = TestKey => sessions[i].local = sessions[i].peer
        /\ sessions[i].key # TestKey =>
               /\ peer[sessions[i].key] # None
               /\ sessions[i].local = peer[sessions[i].key].sid
               /\ sessions[i].peer = peer[sessions[i].key].own
               /\ \A j \in 1..Len(sessions) :
                     sessions[j].key = sessions[i].key => i = j

PeersOK ==
    \A p \in TestPeers : peer[p] # None => peer[p].sid = peer[p].own

\* A request names its sender's session; its sender and exchange name it.
NetOK ==
    \A m \in net :
        /\ peer[m.from] # None
        /\ m.sid = peer[m.from].sid /\ m.key = PeerKey(m.from)
        /\ \A n \in net : (n.from = m.from /\ n.id = m.id) => n = m

\* The request that an async handler works for.
JobOf(j, m) ==
    /\ Executed(m)
    /\ j.nonce = Nonce(m) /\ j.id = m.id
    /\ j.path \in 1..Len(m.cmds) /\ j.kind = Handled(m.cmds, j.path)
    /\ Settled(m, j.s)

JobsOK == \A j \in jobs : \E m \in net : JobOf(j, m)

\* A session of PASE has counted, and has handled the request of, every reply
\* with its key.
RepliesOK ==
    \A r \in replies : \A i \in 1..Len(sessions) :
        (sessions[i].key = r.key /\ r.key # TestKey) =>
            /\ r.ctr < sessions[i].ctr
            /\ \E m \in net : Executed(m) /\ Nonce(m) = r.nonce

\* The commands that the loop has not reached have neither reply nor job.
FreshCall ==
    call # None =>
        /\ \A j \in jobs : j.nonce = Nonce(call.m) => j.path < call.k
        /\ \A r \in replies :
              (r.nonce = Nonce(call.m) /\ r.key # TestKey) => r.path < call.k

JobsDistinct ==
    \A i, j \in jobs : (i.nonce = j.nonce /\ i.path = j.path) => i = j

\* A CSR request that waits has no reply yet.
JobsOpen ==
    \A j \in jobs, r \in replies :
        (j.kind = "csr" /\ r.nonce = j.nonce /\ r.key # TestKey) => r.path # j.path

\* Replies to one request: one for each command, in the order of the commands.
Ordered ==
    \A q, r \in replies :
        (q.nonce = r.nonce /\ q.key = r.key /\ r.key # TestKey) =>
            /\ q.path = r.path => q = r
            /\ (q.path < r.path /\ q.kind # "csr") => q.ctr < r.ctr

\* A command is done with: it has no answer, or has it, or awaits.
Done(m, k) ==
    \/ Handled(m.cmds, k) = "none"
    \/ \E q \in replies : q.nonce = Nonce(m) /\ q.key = m.key /\ q.path = k
    \/ \E j \in jobs : j.kind = "csr" /\ j.nonce = Nonce(m) /\ j.path = k

\* No command is skipped before one that the loop, a job or a reply is at.
NoneSkipped ==
    (up /\ restarts = 0) =>
        /\ call # None => \A k \in 1..(call.k - 1) : Done(call.m, k)
        /\ \A m \in net :
              /\ \A j \in jobs : j.nonce = Nonce(m) =>
                    \A k \in 1..(j.path - 1) : Done(m, k)
              /\ \A r \in replies : r.nonce = Nonce(m) =>
                    \A k \in 1..(r.path - 1) : Done(m, k)

InteractionInv ==
    /\ TypeOK /\ SessionsOK /\ PeersOK /\ NetOK /\ ExecutedOK /\ CallOK /\ JobsOK
    /\ RepliesOK /\ HandledOnce /\ AnswersItsRequest /\ CounterUsedOnce
    /\ FreshCall /\ JobsDistinct /\ JobsOpen /\ Ordered /\ NoneSkipped

-----------------------------------------------------------------------------
(* The data *)

\* The types of a session's, a request's, a reply's and a job's fields.
LEMMA FieldTypes ==
    /\ \A t \in Session :
           /\ t.local \in SessionIds /\ t.peer \in SessionIds /\ t.key \in Key
           /\ t.to \in Senders \cup {None} /\ t.ctr \in Nat
    /\ \A m \in Request :
           /\ m.from \in Senders /\ m.sid \in SessionIds /\ m.key \in Key
           /\ m.id \in ExchangeIds /\ m.cmds \in Requests
    /\ \A r \in Reply : r.key \in Key /\ r.ctr \in Nat /\ r.path \in Nat \ {0}
    /\ \A j \in Job :
           /\ j.s \in Nat \ {0} /\ j.id \in ExchangeIds /\ j.path \in Nat \ {0}
           /\ j.kind \in {"csr", "noc"}
           /\ j.nonce \in Senders \X ExchangeIds
BY DEF Session, Request, Reply, Job, Senders

\* Only the handlers of CsrRequest and of AddNoc work on after they return.
LEMMA Awaiting ==
    ASSUME NEW cmd \in Commands, Outcome(cmd) \in {"csr", "noc"}
    PROVE  cmd \in {"CsrRequest", "AddNoc"}
<1>1. PICK h \in Handlers : cmd \in DOMAIN h /\ Outcome(cmd) = h[cmd]
  <2>1. \E h \in Handlers : cmd \in DOMAIN h
    BY DEF Commands
  <2> QED
    BY <2>1 DEF Outcome
<1>2. CASE h = OperationalCredentials
  BY <1>1, <1>2 DEF OperationalCredentials
<1>3. CASE h = GeneralCommissioning
  BY <1>1, <1>3 DEF GeneralCommissioning
<1>4. CASE h = NetworkCommissioning
  BY <1>1, <1>4 DEF NetworkCommissioning
<1>5. CASE h = Basic
  BY <1>1, <1>5 DEF Basic
<1>6. CASE h = InvokeCommand
  BY <1>1, <1>6 DEF InvokeCommand
<1>7. CASE h = Read
  BY <1>1, <1>7 DEF Read
<1>8. CASE h = OtherOpcode
  BY <1>1, <1>8 DEF OtherOpcode
<1>9. CASE h = ShellMessage
  BY <1>1, <1>9 DEF ShellMessage
<1> QED
  BY <1>1, <1>2, <1>3, <1>4, <1>5, <1>6, <1>7, <1>8, <1>9 DEF Handlers

\* They have a first field, or have thrown.
LEMMA AwaitingField ==
    ASSUME NEW cmds \in Requests, NEW k \in 1..Len(cmds),
           Handled(cmds, k) \in {"csr", "noc"}
    PROVE  Decoded(cmds)[1] \in {"bytes", "number"}
<1>1. cmds \in Seq(Commands) /\ cmds[k] \in Commands /\ cmds[1] \in Commands
  BY RequestsAssumption
<1>2. Decoded(cmds) \in Seq({"bytes", "number"})
  <2> DEFINE F == {"bytes", "number"}
  <2>1. /\ <<"bytes">> \in Seq(F) /\ <<"number">> \in Seq(F)
        /\ <<"bytes", "bytes">> \in Seq(F) /\ <<>> \in Seq(F)
        /\ <<"bytes", "bytes", "bytes", "number", "number">> \in Seq(F)
    OBVIOUS
  <2> HIDE DEF F
  <2> QED
    BY <2>1 DEF Decoded, Data, F
<1>3. cmds[k] \in {"CsrRequest", "AddNoc"}
  BY <1>1, Awaiting DEF Handled
<1>4. ~(Len(Decoded(cmds)) < 1)
  <2>1. CASE cmds[k] = "CsrRequest"
    BY <1>2, <2>1 DEF Handled
  <2>2. CASE cmds[k] = "AddNoc"
    BY <1>2, <2>2 DEF Handled
  <2> QED
    BY <1>3, <2>1, <2>2
<1> QED
  BY <1>2, <1>4

-----------------------------------------------------------------------------
(* The table of sessions *)

\* A session that gets the sender's address, and one that counts a message.
LEMMA SessionUpdate ==
    ASSUME NEW t \in Session
    PROVE  /\ \A p \in Senders :
                 LET a == [t EXCEPT !.to = p] IN
                 /\ a \in Session /\ a.to = p /\ a.local = t.local
                 /\ a.peer = t.peer /\ a.key = t.key /\ a.ctr = t.ctr
           /\ LET c == [t EXCEPT !.ctr = NextCtr(@)] IN
              /\ c \in Session /\ c.to = t.to /\ c.local = t.local
              /\ c.peer = t.peer /\ c.key = t.key /\ c.ctr = t.ctr + 1
BY DEF Session, Senders, NextCtr

\* onSecureMessage() finds the first session with the id, or makes one up.
LEMMA TableOf ==
    ASSUME TypeOK, NEW sid \in SessionIds
    PROVE  LET T == Table(sid)
               s == Place(T, sid)
           IN  /\ T \in Seq(Session) /\ s \in 1..Len(T) /\ T[s].peer = sid
               /\ \A j \in 1..Len(T) : j < s => T[j].peer # sid
               /\ \A i \in 1..Len(sessions) : i \in 1..Len(T) /\ T[i] = sessions[i]
               /\ \A i \in 1..Len(T) : i \notin 1..Len(sessions) =>
                     T[i].key = TestKey /\ T[i].local = T[i].peer
<1> DEFINE T == Table(sid)
           S == {i \in 1..Len(T) : Matches(T[i], sid)}
           new == [local |-> sid, peer |-> sid, key |-> TestKey, to |-> None,
                   ctr |-> 0]
<1>1. sessions \in Seq(Session)
  BY DEF TypeOK
<1>2. new \in Session /\ new.peer = sid /\ new.key = TestKey /\ new.local = sid
  BY DEF Session, Key
<1>3. /\ T \in Seq(Session) /\ S # {}
      /\ \A i \in 1..Len(sessions) : i \in 1..Len(T) /\ T[i] = sessions[i]
      /\ \A i \in 1..Len(T) : i \notin 1..Len(sessions) =>
            T[i].key = TestKey /\ T[i].local = T[i].peer
  <2>1. CASE \E i \in 1..Len(sessions) : Matches(sessions[i], sid)
    <3>1. T = sessions
      BY <2>1 DEF Table
    <3> QED
      BY <1>1, <2>1, <3>1
  <2>2. CASE ~\E i \in 1..Len(sessions) : Matches(sessions[i], sid)
    <3>1. T = Append(sessions, new)
      BY <2>2 DEF Table
    <3> HIDE DEF T, new
    <3>2. /\ T \in Seq(Session) /\ Len(T) = Len(sessions) + 1 /\ Len(sessions) \in Nat
          /\ \A j \in 1..Len(sessions) : T[j] = sessions[j]
          /\ T[Len(sessions) + 1] = new
      BY <1>1, <1>2, <3>1, SeqAppend
    <3>3. Matches(T[Len(sessions) + 1], sid)
      BY <1>2, <3>2 DEF Matches
    <3> QED
      BY <1>2, <3>2, <3>3
  <2> QED
    BY <2>1, <2>2
<1> HIDE DEF T, new
<1>4. S \in SUBSET Nat
  OBVIOUS
<1>5. Min(S) \in S /\ \A y \in S : Min(S) <= y
  BY <1>3, <1>4, MinIsLeast
<1>6. Place(T, sid) = Min(S)
  BY DEF Place
<1> HIDE DEF S
<1>7. PICK s : s = Place(T, sid)
  OBVIOUS
<1>8. s \in 1..Len(T) /\ T[s].peer = sid
  BY <1>5, <1>6, <1>7 DEF S, Matches
<1>9. ASSUME NEW j \in 1..Len(T), j < s PROVE T[j].peer # sid
  <2>1. j \in S => s <= j
    BY <1>5, <1>6, <1>7
  <2> QED
    BY <1>8, <1>9, <2>1 DEF S, Matches
<1> QED
  BY <1>3, <1>7, <1>8, <1>9 DEF T

\* The sessions of table A are those that the node has, perhaps counted on or
\* with another address, and more.
Extends(A) ==
    \A i \in 1..Len(sessions) :
        /\ i \in 1..Len(A)
        /\ A[i].local = sessions[i].local /\ A[i].peer = sessions[i].peer
        /\ A[i].key = sessions[i].key /\ sessions[i].ctr <= A[i].ctr
        /\ sessions[i].to \in Senders => A[i].to \in Senders

\* The others are made up.
MadeUp(A) ==
    \A i \in 1..Len(A) : i \notin 1..Len(sessions) =>
        A[i].key = TestKey /\ A[i].local = A[i].peer

\* The table after the arrival of a message.
LEMMA ArrivedTable ==
    ASSUME TypeOK, NEW m \in Request, NEW s, s = At(m), NEW A, A = Arrived(m)
    PROVE  /\ A \in Seq(Session) /\ Extends(A) /\ MadeUp(A)
           /\ s \in 1..Len(A) /\ A[s].peer = m.sid /\ A[s].to \in Senders
           /\ \A j \in 1..Len(A) : j < s => A[j].peer # m.sid
<1> DEFINE T == Table(m.sid)
           t == [T[s] EXCEPT !.to = m.from]
<1>1. /\ T \in Seq(Session) /\ s \in 1..Len(T) /\ T[s].peer = m.sid
      /\ \A j \in 1..Len(T) : j < s => T[j].peer # m.sid
      /\ \A i \in 1..Len(sessions) : i \in 1..Len(T) /\ T[i] = sessions[i]
      /\ \A i \in 1..Len(T) : i \notin 1..Len(sessions) =>
            T[i].key = TestKey /\ T[i].local = T[i].peer
  BY TableOf, FieldTypes DEF At
<1>2. /\ t \in Session /\ t.to = m.from /\ t.local = T[s].local
      /\ t.peer = T[s].peer /\ t.key = T[s].key /\ t.ctr = T[s].ctr
      /\ m.from \in Senders
  <2>1. T[s] \in Session /\ m.from \in Senders
    BY <1>1, FieldTypes
  <2> HIDE DEF T
  <2> QED
    BY <2>1, SessionUpdate
<1>3. A = [T EXCEPT ![s] = t]
  BY DEF Arrived, At
<1> HIDE DEF T, t
<1>4. /\ A \in Seq(Session) /\ Len(A) = Len(T)
      /\ \A j \in 1..Len(T) : A[j] = IF j = s THEN t ELSE T[j]
  BY <1>1, <1>2, <1>3, SeqUpdate
<1>5. ASSUME NEW j \in 1..Len(T)
      PROVE  /\ A[j].local = T[j].local /\ A[j].peer = T[j].peer
             /\ A[j].key = T[j].key /\ A[j].ctr = T[j].ctr
             /\ T[j].to \in Senders => A[j].to \in Senders
             /\ T[j].ctr \in Nat
  <2>1. T[j].ctr \in Nat
    BY <1>1, FieldTypes
  <2> QED
    BY <1>2, <1>4, <2>1
<1>6. Extends(A)
  BY <1>1, <1>4, <1>5 DEF Extends
<1>7. MadeUp(A)
  BY <1>1, <1>4, <1>5 DEF MadeUp
<1> QED
  BY <1>1, <1>2, <1>4, <1>5, <1>6, <1>7

-----------------------------------------------------------------------------
(* Steps in which the process goes on *)

\* Nothing is taken from the tables; a peer keeps its half of a session.
Kept ==
    /\ Extends(sessions')
    /\ \A i \in 1..Len(exchanges) :
           i \in 1..Len(exchanges') /\ exchanges'[i] = exchanges[i]
    /\ net \subseteq net'
    /\ \A p \in Senders : peer[p] # None => peer'[p] = peer[p]

\* A request keeps its session.
LEMMA KeptSettled ==
    ASSUME Extends(sessions'), NEW m, NEW s, Settled(m, s)
    PROVE  Settled(m, s)'
BY DEF Extends, Settled

\* A request stays absorbed by its exchange.
LEMMA KeptAbsorbed ==
    ASSUME Kept, NEW m, Absorbed(m)
    PROVE  Absorbed(m)'
<1>1. PICK s \in 1..Len(sessions) :
         /\ Settled(m, s)
         /\ \E e \in 1..Len(exchanges) : exchanges[e].s = s /\ exchanges[e].id = m.id
  BY DEF Absorbed
<1>2. PICK e \in 1..Len(exchanges) : exchanges[e].s = s /\ exchanges[e].id = m.id
  BY <1>1
<1>3. Settled(m, s)'
  BY <1>1, KeptSettled DEF Kept
<1>4. s \in 1..Len(sessions') /\ m \in net'
  BY DEF Kept, Extends, Absorbed
<1>5. /\ e \in 1..Len(exchanges') /\ exchanges'[e].s = s
      /\ exchanges'[e].id = m.id
  BY <1>2 DEF Kept
<1> QED
  BY <1>3, <1>4, <1>5 DEF Absorbed

\* An async handler keeps its request.
LEMMA KeptJob ==
    ASSUME Kept, \A n : Executed(n) => Executed(n)', NEW j, NEW m, JobOf(j, m)
    PROVE  JobOf(j, m)'
<1>1. Settled(m, j.s)'
  BY KeptSettled DEF Kept, JobOf
<1> QED
  BY <1>1 DEF JobOf

\* Sessions that are made up take no peer's key.
LEMMA KeptSessions ==
    ASSUME InteractionInv, Kept, MadeUp(sessions')
    PROVE  SessionsOK'
<1> SUFFICES ASSUME NEW i \in 1..Len(sessions')
             PROVE  /\ sessions'[i].key = TestKey =>
                          sessions'[i].local = sessions'[i].peer
                    /\ sessions'[i].key # TestKey =>
                          /\ peer'[sessions'[i].key] # None
                          /\ sessions'[i].local = peer'[sessions'[i].key].sid
                          /\ sessions'[i].peer = peer'[sessions'[i].key].own
                          /\ \A j \in 1..Len(sessions') :
                                sessions'[j].key = sessions'[i].key => i = j
  BY DEF SessionsOK
<1>1. CASE i \notin 1..Len(sessions)
  BY <1>1 DEF MadeUp
<1>2. CASE i \in 1..Len(sessions)
  <2>1. /\ sessions'[i].local = sessions[i].local
        /\ sessions'[i].peer = sessions[i].peer
        /\ sessions'[i].key = sessions[i].key
    BY <1>2 DEF Kept, Extends
  <2>2. CASE sessions[i].key = TestKey
    BY <1>2, <2>1, <2>2 DEF InteractionInv, SessionsOK
  <2>3. CASE sessions[i].key # TestKey
    <3>1. sessions[i].key \in Senders
      <4>1. sessions[i] \in Session
        BY <1>2 DEF InteractionInv, TypeOK
      <4> QED
        BY <2>3, <4>1, FieldTypes DEF Key, Senders
    <3>2. /\ peer[sessions[i].key] # None
          /\ sessions[i].local = peer[sessions[i].key].sid
          /\ sessions[i].peer = peer[sessions[i].key].own
          /\ \A j \in 1..Len(sessions) : sessions[j].key = sessions[i].key => i = j
      BY <1>2, <2>3 DEF InteractionInv, SessionsOK
    <3>3. peer'[sessions[i].key] = peer[sessions[i].key]
      BY <3>1, <3>2 DEF Kept
    <3>4. ASSUME NEW j \in 1..Len(sessions'), sessions'[j].key = sessions[i].key
          PROVE  i = j
      <4>1. j \in 1..Len(sessions)
        BY <2>3, <3>4 DEF MadeUp
      <4>2. sessions'[j].key = sessions[j].key
        BY <4>1 DEF Kept, Extends
      <4> QED
        BY <3>2, <3>4, <4>1, <4>2
    <3> QED
      BY <2>1, <2>3, <3>2, <3>3, <3>4
  <2> QED
    BY <2>2, <2>3
<1> QED
  BY <1>1, <1>2

\* What a reply says of the request it answers.
Answers(r, m) ==
    /\ r.nonce = <<m.from, m.id>>
    /\ r.id = m.id
    /\ r.path \in 1..Len(m.cmds) /\ r.kind = Handled(m.cmds, r.path)
    /\ r.key = m.key /\ r.challenge = m.key
    /\ r.sid = peer[m.from].own

\* A reply goes on answering its request.
LEMMA KeptAnswers ==
    ASSUME InteractionInv, Kept, NEW r, NEW m \in net, Answers(r, m)
    PROVE  Answers(r, m)' /\ m \in net'
<1>1. m.from \in Senders
  BY FieldTypes DEF InteractionInv, TypeOK
<1>2. peer'[m.from] = peer[m.from]
  BY <1>1 DEF InteractionInv, NetOK, Kept
<1> QED
  BY <1>2 DEF Answers, Kept

\* A reply with a peer's key stays counted.
LEMMA KeptReply ==
    ASSUME InteractionInv, Kept, \A n : Executed(n) => Executed(n)',
           NEW r \in replies, NEW i \in 1..Len(sessions), r.key # TestKey,
           sessions[i].key = r.key, TypeOK'
    PROVE  /\ r.ctr < sessions'[i].ctr
           /\ \E m \in net' : Executed(m)' /\ Nonce(m) = r.nonce
<1>1. /\ r.ctr < sessions[i].ctr
      /\ \E m \in net : Executed(m) /\ Nonce(m) = r.nonce
  BY DEF InteractionInv, RepliesOK
<1>2. \E m \in net' : Executed(m)' /\ Nonce(m) = r.nonce
  BY <1>1 DEF Kept
<1>3. i \in 1..Len(sessions') /\ sessions[i].ctr <= sessions'[i].ctr
  BY DEF Kept, Extends
<1>4. r.ctr \in Nat /\ sessions[i].ctr \in Nat /\ sessions'[i].ctr \in Nat
  BY <1>3, FieldTypes DEF InteractionInv, TypeOK
<1> QED
  BY <1>1, <1>2, <1>3, <1>4

\* Without a new reply, and without a new session of an old key, the replies
\* remain what they are.
LEMMA KeptReplies ==
    ASSUME InteractionInv, Kept, \A n : Executed(n) => Executed(n)',
           replies' = replies, TypeOK',
           \A i \in 1..Len(sessions') : i \notin 1..Len(sessions) =>
               \A r \in replies : sessions'[i].key = r.key => r.key = TestKey
    PROVE  AnswersItsRequest' /\ RepliesOK' /\ CounterUsedOnce' /\ Ordered'
<1>1. AnswersItsRequest'
  <2>1. ASSUME NEW r \in replies PROVE \E m \in net' : Answers(r, m)'
    <3>1. PICK m \in net : Answers(r, m)
      BY DEF InteractionInv, AnswersItsRequest, Answers
    <3> QED
      BY <3>1, KeptAnswers
  <2> QED
    BY <2>1 DEF AnswersItsRequest, Answers
<1>2. RepliesOK'
  <2> SUFFICES ASSUME NEW r \in replies, NEW i \in 1..Len(sessions'),
                      sessions'[i].key = r.key, r.key # TestKey
               PROVE  /\ r.ctr < sessions'[i].ctr
                      /\ \E m \in net' : Executed(m)' /\ Nonce(m) = r.nonce
    BY DEF RepliesOK, Nonce
  <2>1. i \in 1..Len(sessions)
    OBVIOUS
  <2>2. sessions[i].key = r.key
    BY <2>1 DEF Kept, Extends
  <2> QED
    BY <2>1, <2>2, KeptReply
<1>3. CounterUsedOnce' /\ Ordered'
  BY DEF InteractionInv, CounterUsedOnce, Ordered
<1> QED
  BY <1>1, <1>2, <1>3

\* Session.sendMessage() for a request that was handled: the reply answers it,
\* with a new counter, after the replies to the commands before it.
LEMMA NewReply ==
    ASSUME InteractionInv, NEW m \in net, NEW s, Settled(m, s), Executed(m),
           NEW path \in 1..Len(m.cmds),
           NEW kind \in {"data", "status", "csr", "noc"},
           kind = Handled(m.cmds, path),
           SendReply(sessions, s, m.id, path, kind, Nonce(m)),
           UNCHANGED <<exchanges, peer, net, executed>>,
           \A q \in replies : (q.nonce = Nonce(m) /\ q.key # TestKey) =>
               q.path # path /\ (kind = "csr" \/ q.path < path)
    PROVE  /\ Kept /\ MadeUp(sessions') /\ SessionsOK'
           /\ sessions' \in Seq(Session) /\ Len(sessions') = Len(sessions)
           /\ AnswersItsRequest' /\ RepliesOK' /\ CounterUsedOnce' /\ Ordered'
           /\ \E r \in Reply : /\ replies' = replies \cup {r}
                               /\ r.nonce = Nonce(m) /\ r.key = m.key
                               /\ r.path = path
<1>1. /\ TypeOK /\ m \in Request /\ m.from \in Senders /\ m.id \in ExchangeIds
      /\ m.key \in Key
  BY FieldTypes DEF InteractionInv, TypeOK
<1>2. /\ s \in 1..Len(sessions) /\ sessions[s].to \in Senders
      /\ sessions[s].peer = m.sid /\ sessions[s].key = m.key
  BY DEF Settled
<1>3. Nonce(m) \in Senders \X ExchangeIds /\ path \in Nat \ {0}
  BY <1>1 DEF Nonce
<1>4. /\ sessions' \in Seq(Session) /\ Extends(sessions')
      /\ Len(sessions') = Len(sessions)
      /\ sessions[s].ctr < sessions'[s].ctr
      /\ \E r \in Reply :
            /\ replies' = replies \cup {r}
            /\ r.sid = sessions[s].peer /\ r.key = sessions[s].key
            /\ r.challenge = r.key /\ r.ctr = sessions[s].ctr
            /\ r.id = m.id /\ r.path = path /\ r.kind = kind /\ r.nonce = Nonce(m)
  <2> DEFINE t == sessions[s]
             c == [t EXCEPT !.ctr = NextCtr(@)]
             r == [to |-> t.to, sid |-> t.peer, key |-> t.key, ctr |-> t.ctr,
                   id |-> m.id, path |-> path, kind |-> kind, nonce |-> Nonce(m),
                   challenge |-> t.key]
  <2>1. sessions \in Seq(Session) /\ t \in Session
    BY <1>1, <1>2 DEF TypeOK
  <2>2. /\ t.local \in SessionIds /\ t.peer \in SessionIds /\ t.key \in Key
        /\ t.ctr \in Nat
    BY <2>1, FieldTypes
  <2>3. /\ c \in Session /\ c.to = t.to /\ c.local = t.local
        /\ c.peer = t.peer /\ c.key = t.key /\ c.ctr = t.ctr + 1
    BY <2>1, SessionUpdate
  <2>4. sessions' = [sessions EXCEPT ![s] = c] /\ replies' = replies \cup {r}
    BY DEF SendReply
  <2>5. r \in Reply
    <3>1. t.to \in Senders
      BY <1>2
    <3> HIDE DEF t
    <3> QED
      BY <1>1, <1>3, <2>2, <3>1 DEF Reply, Senders
  <2>6. /\ r.sid = t.peer /\ r.key = t.key /\ r.challenge = r.key /\ r.ctr = t.ctr
        /\ r.id = m.id /\ r.path = path /\ r.kind = kind /\ r.nonce = Nonce(m)
    OBVIOUS
  <2> HIDE DEF c, r
  <2>7. /\ sessions' \in Seq(Session) /\ Len(sessions') = Len(sessions)
        /\ \A j \in 1..Len(sessions) : sessions'[j] = IF j = s THEN c ELSE sessions[j]
    BY <1>2, <2>1, <2>3, <2>4, SeqUpdate
  <2>8. Extends(sessions')
    <3>1. \A j \in 1..Len(sessions) : sessions[j].ctr \in Nat
      BY <2>1, FieldTypes
    <3> QED
      BY <2>2, <2>3, <2>7, <3>1 DEF Extends
  <2>9. t.ctr < sessions'[s].ctr
    BY <1>2, <2>2, <2>3, <2>7
  <2> QED
    BY <2>4, <2>5, <2>6, <2>7, <2>8, <2>9
<1>5. PICK r \in Reply :
            /\ replies' = replies \cup {r}
            /\ r.sid = m.sid /\ r.key = m.key
            /\ r.challenge = m.key /\ r.ctr = sessions[s].ctr
            /\ r.id = m.id /\ r.path = path /\ r.kind = kind /\ r.nonce = Nonce(m)
  BY <1>2, <1>4
<1>6. Kept /\ MadeUp(sessions')
  BY <1>4 DEF Kept, MadeUp
<1>7. SessionsOK'
  BY <1>6, KeptSessions
<1>8. \A n : Executed(n)' <=> Executed(n)
  BY DEF Executed
<1>9. m.sid = peer[m.from].own
  <2>1. /\ peer[m.from] # None /\ m.sid = peer[m.from].sid
        /\ m.key = PeerKey(m.from)
    BY DEF InteractionInv, NetOK
  <2>2. CASE m.from \in Peers
    <3>1. m.key = m.from /\ m.key # TestKey
      BY <2>1, <2>2, PeersAssumption DEF PeerKey
    <3> QED
      BY <1>2, <3>1 DEF InteractionInv, SessionsOK
  <2>3. CASE m.from \in TestPeers
    BY <2>1, <2>3 DEF InteractionInv, PeersOK
  <2> QED
    BY <1>1, <2>2, <2>3 DEF Senders
<1>10. AnswersItsRequest'
  <2>1. ASSUME NEW q \in replies PROVE \E n \in net' : Answers(q, n)'
    <3>1. PICK n \in net : Answers(q, n)
      BY DEF InteractionInv, AnswersItsRequest, Answers
    <3> QED
      BY <1>6, <3>1, KeptAnswers
  <2>2. Answers(r, m)' /\ m \in net'
    BY <1>5, <1>9 DEF Answers, Nonce
  <2>3. \A q \in replies' : \E n \in net' : Answers(q, n)'
    BY <1>5, <2>1, <2>2
  <2> QED
    BY <2>3 DEF AnswersItsRequest, Answers
<1>11. ASSUME NEW q \in replies, q.key = r.key, r.key # TestKey
       PROVE  q.ctr < r.ctr /\ q.ctr \in Nat /\ r.ctr \in Nat
  <2>1. q.ctr < sessions[s].ctr
    BY <1>2, <1>5, <1>11 DEF InteractionInv, RepliesOK
  <2> QED
    BY <1>5, <2>1, FieldTypes DEF InteractionInv, TypeOK
<1>12. RepliesOK'
  <2> SUFFICES ASSUME NEW q \in replies \cup {r}, NEW i \in 1..Len(sessions),
                      sessions'[i].key = q.key, q.key # TestKey
               PROVE  /\ q.ctr < sessions'[i].ctr
                      /\ \E n \in net : Executed(n) /\ Nonce(n) = q.nonce
    BY <1>4, <1>5, <1>8 DEF RepliesOK, Nonce
  <2>1. sessions[i].key = q.key /\ sessions[i].ctr <= sessions'[i].ctr
    BY <1>4 DEF Extends
  <2>2. CASE q = r
    <3>1. i = s
      BY <1>2, <1>5, <2>1, <2>2 DEF InteractionInv, SessionsOK
    <3> QED
      BY <1>4, <1>5, <2>2, <3>1
  <2>3. CASE q \in replies
    <3>1. /\ q.ctr < sessions[i].ctr
          /\ \E n \in net : Executed(n) /\ Nonce(n) = q.nonce
      BY <2>1, <2>3 DEF InteractionInv, RepliesOK
    <3>2. q.ctr \in Nat /\ sessions[i].ctr \in Nat /\ sessions'[i].ctr \in Nat
      BY <1>4, <2>3, FieldTypes DEF InteractionInv, TypeOK
    <3> QED
      BY <2>1, <3>1, <3>2
  <2> QED
    BY <2>2, <2>3
<1>13. CounterUsedOnce'
  <2> SUFFICES ASSUME NEW a \in replies \cup {r}, NEW b \in replies \cup {r},
                      a.key = b.key, a.key # TestKey, a.ctr = b.ctr
               PROVE  a = b
    BY <1>5 DEF CounterUsedOnce
  <2>1. CASE a \in replies /\ b \in replies
    BY <2>1 DEF InteractionInv, CounterUsedOnce
  <2>2. CASE a = r /\ b \in replies
    BY <1>11, <2>2
  <2>3. CASE a \in replies /\ b = r
    BY <1>11, <2>3
  <2> QED
    BY <2>1, <2>2, <2>3
<1>14. Ordered'
  <2> SUFFICES ASSUME NEW a \in replies \cup {r}, NEW b \in replies \cup {r},
                      a.nonce = b.nonce, a.key = b.key, b.key # TestKey
               PROVE  /\ a.path = b.path => a = b
                      /\ (a.path < b.path /\ a.kind # "csr") => a.ctr < b.ctr
    BY <1>5 DEF Ordered
  <2>1. CASE a \in replies /\ b \in replies
    BY <2>1 DEF InteractionInv, Ordered
  <2>2. CASE a = r /\ b \in replies
    <3>1. b.path # path /\ (kind = "csr" \/ b.path < path)
      BY <1>5, <2>2
    <3>2. b.path \in Nat /\ path \in Nat
      BY <2>2, FieldTypes DEF InteractionInv, TypeOK
    <3> QED
      BY <1>5, <2>2, <3>1, <3>2
  <2>3. CASE a \in replies /\ b = r
    BY <1>5, <1>11, <2>3
  <2>4. CASE a = r /\ b = r
    BY <1>5, <2>4
  <2> QED
    BY <2>1, <2>2, <2>3, <2>4
<1> QED
  BY <1>4, <1>5, <1>6, <1>7, <1>10, <1>12, <1>13, <1>14

\* Requests with one nonce are one request.
LEMMA NonceUnique ==
    ASSUME NetOK, NEW m \in net, NEW n \in net, Nonce(n) = Nonce(m)
    PROVE  n = m
BY DEF NetOK, Nonce

\* Without a new request handled, each one handled is absorbed by its exchange.
LEMMA SameRequests ==
    ASSUME InteractionInv, Kept, executed' = executed
    PROVE  /\ ExecutedOK' /\ HandledOnce'
           /\ \A n : Executed(n) => Executed(n)'
<1>1. ASSUME NEW i \in 1..Len(executed) PROVE Absorbed(executed[i])'
  <2>1. PICK m : m = executed[i]
    OBVIOUS
  <2>2. Absorbed(m)
    BY <2>1 DEF InteractionInv, ExecutedOK
  <2>3. Absorbed(m)'
    BY <2>2, KeptAbsorbed
  <2> QED
    BY <2>1, <2>3
<1>2. ExecutedOK'
  BY <1>1 DEF ExecutedOK
<1>3. HandledOnce' /\ \A n : Executed(n) => Executed(n)'
  BY DEF InteractionInv, HandledOnce, Executed
<1> QED
  BY <1>2, <1>3

\* A command that is done with stays so: a job that ends has its reply.
LEMMA KeptDone ==
    ASSUME NEW m, NEW k, Done(m, k), replies \subseteq replies',
           \A j \in jobs : (j.kind = "csr" /\ j.nonce = Nonce(m) /\ j \notin jobs') =>
               \E q \in replies' : /\ q.nonce = Nonce(m) /\ q.key = m.key
                                   /\ q.path = j.path
    PROVE  Done(m, k)'
BY DEF Done, Nonce

\* Steps between two requests that send nothing.
LEMMA QuietStep ==
    ASSUME InteractionInv, TypeOK', Kept, SessionsOK', PeersOK', NetOK',
           executed' = executed, replies' = replies, jobs' \subseteq jobs,
           call = None, call' = None,
           \A i \in 1..Len(sessions') : i \notin 1..Len(sessions) =>
               \A r \in replies : sessions'[i].key = r.key => r.key = TestKey,
           (up' /\ restarts' = 0) =>
               /\ up /\ restarts = 0
               /\ \A j \in jobs : j.kind = "csr" => j \in jobs'
    PROVE  InteractionInv'
<1>1. ExecutedOK' /\ HandledOnce' /\ \A n : Executed(n) => Executed(n)'
  BY SameRequests
<1>2. AnswersItsRequest' /\ RepliesOK' /\ CounterUsedOnce' /\ Ordered'
  BY <1>1, KeptReplies
<1>3. JobsOK'
  <2>1. ASSUME NEW j \in jobs PROVE \E m \in net' : JobOf(j, m)'
    <3>1. PICK m \in net : JobOf(j, m)
      BY DEF InteractionInv, JobsOK
    <3>2. JobOf(j, m)'
      BY <1>1, <3>1, KeptJob
    <3> QED
      BY <3>2 DEF Kept
  <2> QED
    BY <2>1 DEF JobsOK
<1>4. JobsDistinct' /\ JobsOpen' /\ CallOK' /\ FreshCall'
  BY DEF InteractionInv, JobsDistinct, JobsOpen, CallOK, FreshCall
<1>5. NoneSkipped'
  <2> SUFFICES ASSUME up', restarts' = 0, NEW m \in net'
               PROVE  /\ \A j \in jobs' : j.nonce = Nonce(m) =>
                            \A k \in 1..(j.path - 1) : Done(m, k)'
                      /\ \A r \in replies' : r.nonce = Nonce(m) =>
                            \A k \in 1..(r.path - 1) : Done(m, k)'
    BY DEF NoneSkipped, Nonce
  <2>1. \A n, k : Done(n, k) => Done(n, k)'
    BY KeptDone
  <2>2. ASSUME NEW n \in net, Nonce(n) = Nonce(m) PROVE n = m
    BY <2>2 DEF Kept, NetOK, Nonce
  <2>3. ASSUME NEW j \in jobs', j.nonce = Nonce(m), NEW k \in 1..(j.path - 1)
        PROVE  Done(m, k)'
    <3>1. PICK n \in net : JobOf(j, n)
      BY DEF InteractionInv, JobsOK
    <3>2. n = m
      BY <2>2, <2>3, <3>1 DEF JobOf
    <3>3. Done(m, k)
      BY <2>3, <3>2 DEF InteractionInv, NoneSkipped
    <3> QED
      BY <2>1, <3>3
  <2>4. ASSUME NEW r \in replies', r.nonce = Nonce(m), NEW k \in 1..(r.path - 1)
        PROVE  Done(m, k)'
    <3>1. PICK n \in net : r.nonce = Nonce(n)
      BY DEF InteractionInv, AnswersItsRequest, Nonce
    <3>2. n = m
      BY <2>2, <2>4, <3>1
    <3>3. Done(m, k)
      BY <2>4, <3>2 DEF InteractionInv, NoneSkipped
    <3> QED
      BY <2>1, <3>3
  <2> QED
    BY <2>3, <2>4
<1> QED
  BY <1>1, <1>2, <1>3, <1>4, <1>5 DEF InteractionInv

\* onSecureMessage() finds a request's session again.
LEMMA SettledAt ==
    ASSUME TypeOK, NEW m \in Request, NEW s, Settled(m, s)
    PROVE  At(m) = s /\ Table(m.sid) = sessions
<1>1. Table(m.sid) = sessions
  BY DEF Table, Settled, Matches
<1>2. PICK t : t = At(m)
  OBVIOUS
<1>3. /\ t \in 1..Len(sessions) /\ sessions[t].peer = m.sid
      /\ \A j \in 1..Len(sessions) : j < t => sessions[j].peer # m.sid
  BY <1>1, <1>2, TableOf, FieldTypes DEF At
<1>4. /\ s \in 1..Len(sessions) /\ sessions[s].peer = m.sid
      /\ \A j \in 1..Len(sessions) : j < s => sessions[j].peer # m.sid
  BY DEF Settled
<1>5. ~(t < s) /\ ~(s < t)
  BY <1>3, <1>4
<1>6. s \in Nat /\ t \in Nat
  BY <1>3, <1>4
<1> QED
  BY <1>1, <1>2, <1>5, <1>6

-----------------------------------------------------------------------------
(* The peers *)

\* createSecureSession(): the first session with this peer's key.
LEMMA EstablishStep ==
    ASSUME InteractionInv, NEW p \in Peers, NEW local \in SessionIds,
           NEW own \in SessionIds, Establish(p, local, own)
    PROVE  InteractionInv'
<1> DEFINE t == [local |-> local, peer |-> own, key |-> p, to |-> None, ctr |-> 0]
           h == [sid |-> local, own |-> own]
<1>1. /\ TypeOK /\ sessions \in Seq(Session) /\ p \in Senders
      /\ peer \in [Senders -> [sid : SessionIds, own : SessionIds] \cup {None}]
  BY DEF InteractionInv, TypeOK, Senders
<1>2. /\ up /\ call = None /\ peer[p] = None
      /\ sessions' = Append(sessions, t)
      /\ peer' = [peer EXCEPT ![p] = h]
      /\ up' = up /\ exchanges' = exchanges /\ call' = call /\ jobs' = jobs
      /\ net' = net /\ replies' = replies /\ executed' = executed
      /\ unread' = unread /\ restarts' = restarts
  BY DEF Establish, Idle
<1>3. /\ t \in Session /\ t.key = p /\ t.local = local /\ t.peer = own
  BY DEF Session, Key
<1>4. h \in [sid : SessionIds, own : SessionIds] /\ h.sid = local /\ h.own = own
  OBVIOUS
<1>5. h # None
  <2> HIDE DEF h
  <2> QED
    BY <1>4, PeersAssumption
<1> HIDE DEF t, h
<1>6. /\ sessions' \in Seq(Session) /\ Len(sessions') = Len(sessions) + 1
      /\ Len(sessions) \in Nat
      /\ \A j \in 1..Len(sessions) : sessions'[j] = sessions[j]
      /\ sessions'[Len(sessions) + 1] = t
  BY <1>1, <1>2, <1>3, SeqAppend
<1>7. ASSUME NEW j \in 1..Len(sessions')
      PROVE  \/ j \in 1..Len(sessions) /\ sessions'[j] = sessions[j]
             \/ j = Len(sessions) + 1 /\ sessions'[j] = t
  BY <1>6
<1>8. /\ peer' \in [Senders -> [sid : SessionIds, own : SessionIds] \cup {None}]
      /\ peer'[p] = h
      /\ \A q \in Senders : q # p => peer'[q] = peer[q]
  BY <1>1, <1>2, <1>4
<1>9. TypeOK'
  <2>1. \A j \in 1..Len(sessions) : j \in 1..Len(sessions')
    BY <1>6
  <2> QED
    BY <1>2, <1>6, <1>8, <2>1 DEF InteractionInv, TypeOK, Senders
<1>10. Kept
  <2>1. Extends(sessions')
    <3>1. \A j \in 1..Len(sessions) : sessions[j].ctr \in Nat
      BY <1>1, FieldTypes
    <3> QED
      BY <1>6, <3>1 DEF Extends
  <2>2. \A q \in Senders : peer[q] # None => peer'[q] = peer[q]
    BY <1>2, <1>8
  <2> QED
    BY <1>2, <2>1, <2>2 DEF Kept
<1>11. ASSUME NEW i \in 1..Len(sessions)
       PROVE  sessions[i].key # p
  BY <1>2, <1>11, PeersAssumption DEF InteractionInv, SessionsOK
<1>12. SessionsOK'
  <2> SUFFICES ASSUME NEW i \in 1..Len(sessions')
               PROVE  /\ sessions'[i].key = TestKey =>
                            sessions'[i].local = sessions'[i].peer
                      /\ sessions'[i].key # TestKey =>
                            /\ peer'[sessions'[i].key] # None
                            /\ sessions'[i].local = peer'[sessions'[i].key].sid
                            /\ sessions'[i].peer = peer'[sessions'[i].key].own
                            /\ \A j \in 1..Len(sessions') :
                                  sessions'[j].key = sessions'[i].key => i = j
    BY DEF SessionsOK
  <2>1. CASE i \in 1..Len(sessions)
    <3>1. sessions'[i] = sessions[i] /\ sessions[i].key # p
      BY <1>6, <1>11, <2>1
    <3>2. CASE sessions[i].key = TestKey
      BY <2>1, <3>1, <3>2 DEF InteractionInv, SessionsOK
    <3>3. CASE sessions[i].key # TestKey
      <4>1. sessions[i] \in Session
        BY <1>1, <2>1
      <4>2. sessions[i].key \in Senders
        BY <3>3, <4>1, FieldTypes DEF Key, Senders
      <4>3. peer'[sessions[i].key] = peer[sessions[i].key]
        BY <1>8, <3>1, <4>2
      <4>4. /\ peer[sessions[i].key] # None
            /\ sessions[i].local = peer[sessions[i].key].sid
            /\ sessions[i].peer = peer[sessions[i].key].own
            /\ \A j \in 1..Len(sessions) : sessions[j].key = sessions[i].key => i = j
        BY <2>1, <3>3 DEF InteractionInv, SessionsOK
      <4>5. \A j \in 1..Len(sessions') : sessions'[j].key = sessions[i].key => i = j
        BY <1>3, <1>7, <3>1, <4>4
      <4> QED
        BY <3>1, <3>3, <4>3, <4>4, <4>5
    <3> QED
      BY <3>2, <3>3
  <2>2. CASE i = Len(sessions) + 1
    <3>1. sessions'[i] = t
      BY <1>6, <2>2
    <3>2. \A j \in 1..Len(sessions') : sessions'[j].key = p => i = j
      BY <1>7, <1>11, <2>2
    <3> QED
      BY <1>3, <1>4, <1>5, <1>8, <3>1, <3>2, PeersAssumption
  <2> QED
    BY <1>7, <2>1, <2>2
<1>13. PeersOK'
  <2>1. \A q \in TestPeers : q # p /\ q \in Senders
    BY PeersAssumption DEF Senders
  <2> QED
    BY <1>8, <2>1 DEF InteractionInv, PeersOK
<1>14. ASSUME NEW m \in net PROVE m.from # p /\ m.from \in Senders
  BY <1>2, <1>14, FieldTypes DEF InteractionInv, NetOK, TypeOK
<1>15. NetOK'
  BY <1>2, <1>8, <1>14 DEF InteractionInv, NetOK
<1>16. ASSUME NEW r \in replies PROVE r.key # p
  <2>1. PICK m \in net : r.key = m.key
    BY DEF InteractionInv, AnswersItsRequest
  <2>2. m.key = PeerKey(m.from)
    BY DEF InteractionInv, NetOK
  <2> QED
    BY <1>14, <2>1, <2>2, PeersAssumption DEF PeerKey
<1>17. \A i \in 1..Len(sessions') : i \notin 1..Len(sessions) =>
          \A r \in replies : sessions'[i].key = r.key => r.key = TestKey
  BY <1>3, <1>7, <1>16
<1>18. /\ executed' = executed /\ replies' = replies /\ jobs' \subseteq jobs
       /\ call = None /\ call' = None
       /\ (up' /\ restarts' = 0) =>
             /\ up /\ restarts = 0
             /\ \A j \in jobs : j.kind = "csr" => j \in jobs'
  BY <1>2
<1> QED
  BY <1>9, <1>10, <1>12, <1>13, <1>15, <1>17, <1>18, QuietStep

\* doMsg(): a peer with the test keys picks its session id.
LEMMA PickIdStep ==
    ASSUME InteractionInv, NEW p \in TestPeers, NEW sid \in SessionIds,
           PickId(p, sid)
    PROVE  InteractionInv'
<1> DEFINE h == [sid |-> sid, own |-> sid]
<1>1. /\ TypeOK /\ sessions \in Seq(Session) /\ p \in Senders
      /\ peer \in [Senders -> [sid : SessionIds, own : SessionIds] \cup {None}]
  BY DEF InteractionInv, TypeOK, Senders
<1>2. /\ call = None /\ peer[p] = None
      /\ sessions' = sessions
      /\ peer' = [peer EXCEPT ![p] = h]
      /\ up' = up /\ exchanges' = exchanges /\ call' = call /\ jobs' = jobs
      /\ net' = net /\ replies' = replies /\ executed' = executed
      /\ unread' = unread /\ restarts' = restarts
  BY DEF PickId, nodeVars
<1>3. h \in [sid : SessionIds, own : SessionIds] /\ h.sid = h.own
  OBVIOUS
<1> HIDE DEF h
<1>4. /\ peer' \in [Senders -> [sid : SessionIds, own : SessionIds] \cup {None}]
      /\ peer'[p] = h
      /\ \A q \in Senders : q # p => peer'[q] = peer[q]
  BY <1>1, <1>2, <1>3
<1>5. TypeOK'
  BY <1>2, <1>4 DEF InteractionInv, TypeOK, Senders
<1>6. Kept
  <2>1. \A j \in 1..Len(sessions) : sessions[j].ctr \in Nat
    BY <1>1, FieldTypes
  <2> QED
    BY <1>2, <1>4, <2>1 DEF Kept, Extends
<1>7. MadeUp(sessions')
  BY <1>2 DEF MadeUp
<1>8. SessionsOK'
  BY <1>6, <1>7, KeptSessions
<1>9. PeersOK'
  <2>1. \A q \in TestPeers : q \in Senders
    BY DEF Senders
  <2> QED
    BY <1>3, <1>4, <2>1 DEF InteractionInv, PeersOK
<1>10. ASSUME NEW m \in net PROVE m.from # p /\ m.from \in Senders
  BY <1>2, <1>10, FieldTypes DEF InteractionInv, NetOK, TypeOK
<1>11. NetOK'
  BY <1>2, <1>4, <1>10 DEF InteractionInv, NetOK
<1>12. /\ executed' = executed /\ replies' = replies /\ jobs' \subseteq jobs
       /\ call = None /\ call' = None
       /\ \A i \in 1..Len(sessions') : i \in 1..Len(sessions)
       /\ (up' /\ restarts' = 0) =>
             /\ up /\ restarts = 0
             /\ \A j \in jobs : j.kind = "csr" => j \in jobs'
  BY <1>2
<1> QED
  BY <1>5, <1>6, <1>8, <1>9, <1>11, <1>12, QuietStep

\* A peer sends a request on an exchange that it has not used.
LEMMA AskStep ==
    ASSUME InteractionInv, NEW p \in Senders, NEW id \in ExchangeIds,
           NEW cmds \in Requests, Ask(p, id, cmds)
    PROVE  InteractionInv'
<1> DEFINE n == [from |-> p, sid |-> peer[p].sid, key |-> PeerKey(p), id |-> id,
                 cmds |-> cmds]
<1>1. /\ TypeOK /\ sessions \in Seq(Session)
      /\ peer \in [Senders -> [sid : SessionIds, own : SessionIds] \cup {None}]
  BY DEF InteractionInv, TypeOK, Senders
<1>2. /\ call = None /\ peer[p] # None
      /\ \A m \in net : m.from = p => m.id # id
      /\ net' = net \cup {n}
      /\ sessions' = sessions /\ peer' = peer
      /\ up' = up /\ exchanges' = exchanges /\ call' = call /\ jobs' = jobs
      /\ replies' = replies /\ executed' = executed
      /\ unread' = unread /\ restarts' = restarts
  BY DEF Ask, nodeVars
<1>3. peer[p].sid \in SessionIds
  BY <1>1, <1>2
<1>4. PeerKey(p) \in Key
  BY DEF PeerKey, Key
<1>5. n \in Request /\ n.from = p /\ n.sid = peer[p].sid /\ n.key = PeerKey(p) /\ n.id = id
  BY <1>3, <1>4 DEF Request, Senders
<1> HIDE DEF n
<1>6. TypeOK'
  BY <1>2, <1>5 DEF InteractionInv, TypeOK
<1>7. Kept
  <2>1. \A j \in 1..Len(sessions) : sessions[j].ctr \in Nat
    BY <1>1, FieldTypes
  <2> QED
    BY <1>2, <2>1 DEF Kept, Extends
<1>8. MadeUp(sessions')
  BY <1>2 DEF MadeUp
<1>9. SessionsOK' /\ PeersOK'
  BY <1>2, <1>7, <1>8, KeptSessions DEF InteractionInv, PeersOK
<1>10. NetOK'
  BY <1>2, <1>5 DEF InteractionInv, NetOK, PeerKey
<1>11. /\ executed' = executed /\ replies' = replies /\ jobs' \subseteq jobs
       /\ call = None /\ call' = None
       /\ \A i \in 1..Len(sessions') : i \in 1..Len(sessions)
       /\ (up' /\ restarts' = 0) =>
             /\ up /\ restarts = 0
             /\ \A j \in jobs : j.kind = "csr" => j \in jobs'
  BY <1>2
<1> QED
  BY <1>6, <1>7, <1>9, <1>10, <1>11, QuietStep

-----------------------------------------------------------------------------
(* Receiving *)

\* A message arrives: what holds whether or not a new exchange is made for it.
LEMMA ArrivalStep ==
    ASSUME InteractionInv, NEW m \in net, NEW s, s = At(m),
           sessions' = Arrived(m), peer' = peer, net' = net,
           \/ exchanges' = exchanges
           \/ \E id \in ExchangeIds : exchanges' = Append(exchanges, [s |-> s, id |-> id])
    PROVE  /\ sessions' \in Seq(Session) /\ MadeUp(sessions') /\ Kept
           /\ exchanges' \in Seq(Exchange)
           /\ \A i \in 1..Len(exchanges') : exchanges'[i].s \in 1..Len(sessions')
           /\ \A j \in jobs : j.s \in 1..Len(sessions')
           /\ SessionsOK' /\ PeersOK' /\ NetOK'
<1>1. TypeOK /\ m \in Request /\ exchanges \in Seq(Exchange)
  BY DEF InteractionInv, TypeOK
<1>2. /\ sessions' \in Seq(Session) /\ Extends(sessions') /\ MadeUp(sessions')
      /\ s \in 1..Len(sessions')
  BY <1>1, ArrivedTable
<1>3. /\ exchanges' \in Seq(Exchange)
      /\ \A i \in 1..Len(exchanges) :
            i \in 1..Len(exchanges') /\ exchanges'[i] = exchanges[i]
      /\ \A i \in 1..Len(exchanges') :
            i \in 1..Len(exchanges) \/ exchanges'[i].s = s
  <2>1. CASE exchanges' = exchanges
    BY <1>1, <2>1
  <2>2. CASE \E id \in ExchangeIds : exchanges' = Append(exchanges, [s |-> s, id |-> id])
    <3>1. PICK id \in ExchangeIds : exchanges' = Append(exchanges, [s |-> s, id |-> id])
      BY <2>2
    <3>2. PICK x : x = [s |-> s, id |-> id]
      OBVIOUS
    <3>3. x \in Exchange /\ x.s = s
      <4>1. s \in Nat \ {0}
        BY <1>2
      <4> QED
        BY <3>2, <4>1 DEF Exchange
    <3>4. exchanges' = Append(exchanges, x)
      BY <3>1, <3>2
    <3>5. /\ exchanges' \in Seq(Exchange) /\ Len(exchanges') = Len(exchanges) + 1
          /\ Len(exchanges) \in Nat
          /\ \A i \in 1..Len(exchanges) : exchanges'[i] = exchanges[i]
          /\ exchanges'[Len(exchanges) + 1] = x
      BY <1>1, <3>3, <3>4, SeqAppend
    <3> QED
      BY <3>3, <3>5
  <2> QED
    BY <2>1, <2>2
<1>5. \A k \in 1..Len(sessions) : k \in 1..Len(sessions')
  BY <1>2 DEF Extends
<1>6. ASSUME NEW i \in 1..Len(exchanges')
      PROVE  exchanges'[i].s \in 1..Len(sessions')
  <2>1. CASE i \in 1..Len(exchanges)
    <3>1. exchanges'[i] = exchanges[i] /\ exchanges[i].s \in 1..Len(sessions)
      BY <1>1, <1>3, <2>1 DEF TypeOK
    <3> QED
      BY <1>5, <3>1
  <2>2. CASE exchanges'[i].s = s
    BY <1>2, <2>2
  <2> QED
    BY <1>3, <2>1, <2>2
<1>7. \A j \in jobs : j.s \in 1..Len(sessions')
  BY <1>1, <1>5 DEF TypeOK
<1>8. Kept
  BY <1>2, <1>3 DEF Kept
<1>9. SessionsOK'
  BY <1>2, <1>8, KeptSessions
<1>10. PeersOK' /\ NetOK'
  BY DEF InteractionInv, PeersOK, NetOK
<1> QED
  BY <1>2, <1>3, <1>6, <1>7, <1>8, <1>9, <1>10

\* A message that starts no handler.
LEMMA SilentArrival ==
    ASSUME InteractionInv, NEW m \in net, Idle, sessions' = Arrived(m),
           \/ exchanges' = exchanges
           \/ \E id \in ExchangeIds :
                 exchanges' = Append(exchanges, [s |-> At(m), id |-> id]),
           unread' \subseteq Request,
           UNCHANGED <<up, call, jobs, peer, net, replies, executed, restarts>>
    PROVE  InteractionInv'
<1>1. PICK s : s = At(m)
  OBVIOUS
<1>2. /\ \/ exchanges' = exchanges
         \/ \E id \in ExchangeIds : exchanges' = Append(exchanges, [s |-> s, id |-> id])
      /\ TypeOK /\ m \in Request /\ exchanges \in Seq(Exchange)
  BY <1>1 DEF InteractionInv, TypeOK
<1>3. /\ sessions' \in Seq(Session) /\ MadeUp(sessions') /\ Kept
      /\ exchanges' \in Seq(Exchange)
      /\ \A i \in 1..Len(exchanges') : exchanges'[i].s \in 1..Len(sessions')
      /\ \A j \in jobs : j.s \in 1..Len(sessions')
      /\ SessionsOK' /\ PeersOK' /\ NetOK'
  BY <1>1, <1>2, ArrivalStep
<1>4. TypeOK'
  BY <1>3 DEF InteractionInv, TypeOK
<1>5. \A i \in 1..Len(sessions') : i \notin 1..Len(sessions) =>
          \A r \in replies : sessions'[i].key = r.key => r.key = TestKey
  BY <1>3 DEF MadeUp
<1>6. /\ executed' = executed /\ replies' = replies /\ jobs' \subseteq jobs
      /\ call = None /\ call' = None
      /\ (up' /\ restarts' = 0) =>
            /\ up /\ restarts = 0
            /\ \A j \in jobs : j.kind = "csr" => j \in jobs'
  BY DEF Idle
<1> QED
  BY <1>3, <1>4, <1>5, <1>6, QuietStep

\* A message that decrypts is on a session of its sender's ids.
LEMMA DecryptedSession ==
    ASSUME InteractionInv, NEW m \in net, NEW s, s = At(m), Decrypts(m)
    PROVE  /\ s \in 1..Len(Arrived(m))
           /\ Arrived(m)[s].local = m.sid /\ Arrived(m)[s].peer = m.sid
           /\ Arrived(m)[s].key = m.key
           /\ m.key # TestKey => s \in 1..Len(sessions) /\ sessions[s].key = m.key
<1>1. TypeOK /\ m \in Request
  BY DEF InteractionInv, TypeOK
<1>2. PICK A : A = Arrived(m)
  OBVIOUS
<1>3. /\ A \in Seq(Session) /\ Extends(A) /\ MadeUp(A)
      /\ s \in 1..Len(A) /\ A[s].peer = m.sid
  BY <1>1, <1>2, ArrivedTable
<1>4. A[s].key = m.key
  BY <1>2 DEF Decrypts
<1>5. CASE s \notin 1..Len(sessions)
  <2>1. A[s].key = TestKey /\ A[s].local = A[s].peer
    BY <1>3, <1>5 DEF MadeUp
  <2> QED
    BY <1>2, <1>3, <1>4, <2>1
<1>6. CASE s \in 1..Len(sessions)
  <2>1. /\ A[s].key = sessions[s].key /\ A[s].local = sessions[s].local
        /\ A[s].peer = sessions[s].peer
    BY <1>3, <1>6 DEF Extends
  <2>2. CASE m.key = TestKey
    <3>1. sessions[s].local = sessions[s].peer
      BY <1>4, <1>6, <2>1, <2>2 DEF InteractionInv, SessionsOK
    <3> QED
      BY <1>2, <1>3, <1>4, <2>1, <2>2, <3>1
  <2>3. CASE m.key # TestKey
    <3>1. m.sid = peer[m.from].sid /\ m.key = PeerKey(m.from)
      BY DEF InteractionInv, NetOK
    <3>2. m.from = m.key
      BY <2>3, <3>1 DEF PeerKey
    <3>3. sessions[s].local = peer[m.key].sid
      BY <1>4, <1>6, <2>1, <2>3 DEF InteractionInv, SessionsOK
    <3> QED
      BY <1>2, <1>3, <1>4, <1>6, <2>1, <3>1, <3>2, <3>3
  <2> QED
    BY <2>2, <2>3
<1> QED
  BY <1>5, <1>6

\* A copy of a request that was handled finds the exchange that the first made.
LEMMA ExecutedKnown ==
    ASSUME InteractionInv, NEW m \in net, Executed(m), Decrypts(m)
    PROVE  Known(Arrived(m), At(m), m.sid, m.id)
<1>1. TypeOK /\ m \in Request
  BY DEF InteractionInv, TypeOK
<1>2. Absorbed(m)
  BY DEF InteractionInv, ExecutedOK, Executed
<1>3. PICK s \in 1..Len(sessions), e \in 1..Len(exchanges) :
         Settled(m, s) /\ exchanges[e].s = s /\ exchanges[e].id = m.id
  BY <1>2 DEF Absorbed
<1>4. At(m) = s
  BY <1>1, <1>3, SettledAt
<1>5. Arrived(m)[s].local = m.sid
  BY <1>4, DecryptedSession
<1>6. Match(exchanges[e], Arrived(m), At(m), m.sid, m.id)
  BY <1>3, <1>4, <1>5 DEF Match
<1> QED
  BY <1>6 DEF Known

\* onProtocolMessage(): a request that was not handled since the start.
LEMMA UnsolicitedStep ==
    ASSUME InteractionInv, NEW m \in net, Unsolicited(m)
    PROVE  InteractionInv'
<1>1. PICK s : s = At(m)
  OBVIOUS
<1>2. PICK x : x = [s |-> s, id |-> m.id]
  OBVIOUS
<1>3. PICK c : c = [m |-> m, k |-> 1]
  OBVIOUS
<1>4. /\ up /\ call = None /\ Decrypts(m)
      /\ ~Known(Arrived(m), At(m), m.sid, m.id)
      /\ sessions' = Arrived(m) /\ exchanges' = Append(exchanges, x)
      /\ call' = c /\ executed' = Append(executed, m)
      /\ up' = up /\ jobs' = jobs /\ peer' = peer /\ net' = net
      /\ replies' = replies /\ unread' = unread /\ restarts' = restarts
  BY <1>1, <1>2, <1>3 DEF Unsolicited, Idle
<1>5. /\ TypeOK /\ m \in Request /\ exchanges \in Seq(Exchange)
      /\ executed \in Seq(Request) /\ m.id \in ExchangeIds
      /\ m.cmds \in Seq(Commands) \ {<<>>}
  BY FieldTypes, RequestsAssumption DEF InteractionInv, TypeOK
<1>6. ~Executed(m)
  BY <1>4, ExecutedKnown
<1>7. /\ sessions' \in Seq(Session) /\ MadeUp(sessions') /\ Kept
      /\ exchanges' \in Seq(Exchange)
      /\ \A i \in 1..Len(exchanges') : exchanges'[i].s \in 1..Len(sessions')
      /\ \A j \in jobs : j.s \in 1..Len(sessions')
      /\ SessionsOK' /\ PeersOK' /\ NetOK'
  <2>1. \E id \in ExchangeIds : exchanges' = Append(exchanges, [s |-> s, id |-> id])
    BY <1>2, <1>4, <1>5
  <2> QED
    BY <1>1, <1>4, <2>1, ArrivalStep
<1>8. /\ c.m = m /\ c.k = 1 /\ c \in Call /\ c.k <= Len(c.m.cmds)
  <2>1. c.m = m /\ c.k = 1 /\ c \in Call
    BY <1>3, <1>5 DEF Call
  <2>2. 1 <= Len(m.cmds)
    BY <1>5
  <2> QED
    BY <2>1, <2>2
<1>9. /\ executed' \in Seq(Request) /\ Len(executed') = Len(executed) + 1
      /\ Len(executed) \in Nat
      /\ \A i \in 1..Len(executed) : executed'[i] = executed[i]
      /\ executed'[Len(executed) + 1] = m
  BY <1>4, <1>5, SeqAppend
<1>10. TypeOK'
  BY <1>4, <1>7, <1>8, <1>9 DEF InteractionInv, TypeOK
<1>11. ASSUME NEW i \in 1..Len(executed')
       PROVE  \/ i \in 1..Len(executed) /\ executed'[i] = executed[i]
              \/ i = Len(executed) + 1 /\ executed'[i] = m
  BY <1>9
<1>12. \A n : Executed(n) => Executed(n)'
  BY <1>9 DEF Executed
<1>13. Executed(m)'
  BY <1>9 DEF Executed
<1>14. Settled(m, s)'
  <2>1. /\ s \in 1..Len(sessions') /\ sessions'[s].peer = m.sid
        /\ sessions'[s].to \in Senders
        /\ \A j \in 1..Len(sessions') : j < s => sessions'[j].peer # m.sid
    BY <1>1, <1>4, <1>5, ArrivedTable
  <2>2. sessions'[s].key = m.key
    BY <1>1, <1>4, DecryptedSession
  <2> QED
    BY <2>1, <2>2 DEF Settled
<1>15. Absorbed(m)'
  <2>1. x \in Exchange /\ x.s = s /\ x.id = m.id
    <3>1. s \in Nat \ {0}
      BY <1>14, <1>7 DEF Settled
    <3> QED
      BY <1>2, <1>5, <3>1 DEF Exchange
  <2>2. /\ Len(exchanges') = Len(exchanges) + 1 /\ Len(exchanges) \in Nat
        /\ exchanges'[Len(exchanges) + 1] = x
    BY <1>4, <1>5, <2>1, SeqAppend
  <2>3. PICK e \in 1..Len(exchanges') : exchanges'[e].s = s /\ exchanges'[e].id = m.id
    BY <2>1, <2>2
  <2>4. s \in 1..Len(sessions') /\ m \in net'
    BY <1>4, <1>14 DEF Settled
  <2> QED
    BY <1>14, <2>3, <2>4 DEF Absorbed
<1>16. ExecutedOK'
  <2>1. ASSUME NEW i \in 1..Len(executed') PROVE Absorbed(executed[i])'
    <3>1. PICK n : n = executed'[i]
      OBVIOUS
    <3>2. CASE i \in 1..Len(executed) /\ n = executed[i]
      <4>1. Absorbed(n)
        BY <3>2 DEF InteractionInv, ExecutedOK
      <4>2. Absorbed(n)'
        BY <1>7, <4>1, KeptAbsorbed
      <4> QED
        BY <3>1, <4>2
    <3>3. CASE n = m
      BY <1>15, <3>1, <3>3
    <3> QED
      BY <1>11, <3>1, <3>2, <3>3
  <2> QED
    BY <2>1 DEF ExecutedOK
<1>17. HandledOnce'
  <2>1. \A i \in 1..Len(executed) : executed[i] # m
    BY <1>6 DEF Executed
  <2> SUFFICES ASSUME NEW i \in 1..Len(executed'), NEW j \in 1..Len(executed'),
                      executed'[i] = executed'[j]
               PROVE  i = j
    BY DEF HandledOnce
  <2> QED
    BY <1>11, <2>1 DEF InteractionInv, HandledOnce
<1>18. CallOK'
  BY <1>4, <1>8, <1>13 DEF CallOK
<1>19. JobsOK'
  <2>1. ASSUME NEW j \in jobs PROVE \E n \in net' : JobOf(j, n)'
    <3>1. PICK n \in net : JobOf(j, n)
      BY DEF InteractionInv, JobsOK
    <3>2. JobOf(j, n)'
      BY <1>7, <1>12, <3>1, KeptJob
    <3> QED
      BY <1>4, <3>2
  <2> QED
    BY <1>4, <2>1 DEF JobsOK
<1>20. AnswersItsRequest' /\ RepliesOK' /\ CounterUsedOnce' /\ Ordered'
  <2>1. \A i \in 1..Len(sessions') : i \notin 1..Len(sessions) =>
           \A r \in replies : sessions'[i].key = r.key => r.key = TestKey
    BY <1>7 DEF MadeUp
  <2> QED
    BY <1>4, <1>7, <1>10, <1>12, <2>1, KeptReplies
<1>21. FreshCall'
  <2>1. ASSUME NEW j \in jobs, j.nonce = Nonce(m) PROVE FALSE
    <3>1. PICK n \in net : Executed(n) /\ j.nonce = Nonce(n)
      BY DEF InteractionInv, JobsOK, JobOf
    <3> QED
      BY <1>6, <2>1, <3>1, NonceUnique DEF InteractionInv
  <2>2. ASSUME NEW r \in replies, r.nonce = Nonce(m), r.key # TestKey PROVE FALSE
    <3>1. PICK n \in net : r.nonce = Nonce(n) /\ r.key = n.key
      BY DEF InteractionInv, AnswersItsRequest, Nonce
    <3>2. n = m
      BY <2>2, <3>1, NonceUnique DEF InteractionInv
    <3>3. s \in 1..Len(sessions) /\ sessions[s].key = r.key
      BY <1>1, <1>4, <2>2, <3>1, <3>2, DecryptedSession
    <3>4. PICK o \in net : Executed(o) /\ Nonce(o) = r.nonce
      BY <2>2, <3>3 DEF InteractionInv, RepliesOK
    <3> QED
      BY <1>6, <2>2, <3>4, NonceUnique DEF InteractionInv
  <2> QED
    BY <1>4, <1>8, <2>1, <2>2 DEF FreshCall, Nonce
<1>22. JobsDistinct' /\ JobsOpen'
  BY <1>4 DEF InteractionInv, JobsDistinct, JobsOpen
<1>23. NoneSkipped'
  <2>1. \A n, k : Done(n, k) <=> Done(n, k)'
    BY <1>4 DEF Done, Nonce
  <2>2. call' # None => \A k \in 1..(call'.k - 1) : FALSE
    BY <1>4, <1>8
  <2> QED
    BY <1>4, <2>1, <2>2 DEF InteractionInv, NoneSkipped, Nonce
<1> QED
  BY <1>7, <1>10, <1>16, <1>17, <1>18, <1>19, <1>20, <1>21, <1>22, <1>23
     DEF InteractionInv

\* SessionManager.onMessage(), whatever the message is.
LEMMA ReceiveStep ==
    ASSUME InteractionInv, NEW m \in net, Receive(m)
    PROVE  InteractionInv'
<1>1. m \in Request /\ unread \subseteq Request
  BY DEF InteractionInv, TypeOK
<1>2. ASSUME NEW x \in ExchangeIds \cup {None}, ReceiveGarbled(m, x)
      PROVE  InteractionInv'
  <2>1. \/ exchanges' = exchanges
        \/ \E id \in ExchangeIds :
              exchanges' = Append(exchanges, [s |-> At(m), id |-> id])
    BY <1>2 DEF ReceiveGarbled
  <2>2. /\ Idle /\ sessions' = Arrived(m) /\ unread' \subseteq Request
        /\ UNCHANGED <<up, call, jobs, peer, net, replies, executed, restarts>>
    BY <1>1, <1>2 DEF ReceiveGarbled
  <2> QED
    BY <2>1, <2>2, SilentArrival
<1>3. CASE ReceiveKnown(m)
  <2>1. /\ Idle /\ sessions' = Arrived(m) /\ unread' \subseteq Request
        /\ exchanges' = exchanges
        /\ UNCHANGED <<up, call, jobs, peer, net, replies, executed, restarts>>
    BY <1>1, <1>3 DEF ReceiveKnown
  <2> QED
    BY <2>1, SilentArrival
<1>4. CASE Unsolicited(m)
  BY <1>4, UnsolicitedStep
<1> QED
  BY <1>2, <1>3, <1>4 DEF Receive

-----------------------------------------------------------------------------
(* The loop over the commands *)

\* The request in the loop has its session, and a command is at hand.
LEMMA LoopFacts ==
    ASSUME InteractionInv, call # None
    PROVE  \E m \in net, s \in 1..Len(sessions), k \in Nat \ {0} :
              /\ call.m = m /\ call.k = k /\ k \in 1..Len(m.cmds) /\ up
              /\ call = [m |-> m, k |-> k]
              /\ Executed(m) /\ Settled(m, s) /\ At(m) = s
              /\ m \in Request /\ m.cmds \in Requests /\ m.cmds \in Seq(Commands)
<1>1. call \in Call /\ call.k <= Len(call.m.cmds) /\ up
  BY DEF InteractionInv, TypeOK
<1>2. PICK m, k : m = call.m /\ k = call.k
  OBVIOUS
<1>3. /\ m \in Request /\ k \in Nat \ {0} /\ k <= Len(m.cmds)
      /\ call = [m |-> m, k |-> k]
  BY <1>1, <1>2 DEF Call
<1>4. Executed(m)
  BY <1>2 DEF InteractionInv, CallOK
<1>5. Absorbed(m)
  BY <1>4 DEF InteractionInv, ExecutedOK, Executed
<1>6. PICK s \in 1..Len(sessions) : Settled(m, s)
  BY <1>5 DEF Absorbed
<1>7. At(m) = s
  BY <1>3, <1>6, SettledAt DEF InteractionInv
<1>8. m.cmds \in Requests /\ m.cmds \in Seq(Commands)
  BY <1>3, FieldTypes, RequestsAssumption
<1>9. k \in 1..Len(m.cmds) /\ m \in net
  BY <1>3, <1>5, <1>8 DEF Absorbed
<1> QED
  BY <1>1, <1>2, <1>3, <1>4, <1>6, <1>7, <1>8, <1>9

\* One round: its reply and its job are of the command at hand, and the loop
\* goes on to the next.
LEMMA LoopStep ==
    ASSUME InteractionInv, NEW m \in net, NEW k \in 1..Len(m.cmds),
           call # None, call = [m |-> m, k |-> k], m.cmds \in Seq(Commands),
           NEW outcome, Round(outcome), NEW newReplies, NEW newJobs,
           replies' = replies \cup newReplies, jobs' = jobs \cup newJobs,
           newReplies \subseteq Reply, newJobs \subseteq Job,
           \A q \in newReplies : q.nonce = Nonce(m) /\ q.path = k,
           \A j \in newJobs : j.nonce = Nonce(m) /\ j.path = k,
           \A i, j \in newJobs : i = j,
           \A j \in newJobs : j.kind = "csr" => newReplies = {},
           outcome = "throw" => ~up', up' \in BOOLEAN, up' => Done(m, k)'
    PROVE  /\ call' # None => call' = [m |-> m, k |-> k + 1] /\ k < Len(m.cmds) /\ up
           /\ outcome = "throw" => call' = None
           /\ CallOK' /\ FreshCall' /\ JobsDistinct' /\ JobsOpen' /\ NoneSkipped'
<1>1. call.m = m /\ call.k = k /\ k \in Nat /\ [call EXCEPT !.k = @ + 1] = [m |-> m, k |-> k + 1]
  OBVIOUS
<1>2. /\ up
      /\ call' = IF outcome # "throw" /\ k < Len(m.cmds)
                 THEN [m |-> m, k |-> k + 1] ELSE None
      /\ exchanges' = exchanges /\ peer' = peer /\ net' = net
      /\ executed' = executed /\ unread' = unread /\ restarts' = restarts
  BY <1>1 DEF Round
<1>3. /\ \A j \in jobs : j.nonce = Nonce(m) => j.path < k
      /\ \A r \in replies : (r.nonce = Nonce(m) /\ r.key # TestKey) => r.path < k
  BY <1>1 DEF InteractionInv, FreshCall
<1>4. /\ \A j \in jobs \cup newJobs : j.path \in Nat
      /\ \A r \in replies \cup newReplies : r.path \in Nat
  BY FieldTypes DEF InteractionInv, TypeOK
<1>5. call' # None => /\ call' = [m |-> m, k |-> k + 1] /\ k < Len(m.cmds)
                      /\ call'.m = m /\ call'.k = k + 1
  BY <1>2
<1>6. CallOK'
  <2>1. Executed(m)'
    BY <1>1, <1>2 DEF InteractionInv, CallOK, Executed
  <2> QED
    BY <1>5, <2>1 DEF CallOK
<1>7. FreshCall'
  <2>1. \A j \in jobs \cup newJobs : j.nonce = Nonce(m) => j.path < k + 1
    BY <1>1, <1>3, <1>4
  <2>2. \A r \in replies \cup newReplies :
           (r.nonce = Nonce(m) /\ r.key # TestKey) => r.path < k + 1
    BY <1>1, <1>3, <1>4
  <2> QED
    BY <1>5, <2>1, <2>2 DEF FreshCall, Nonce
<1>8. JobsDistinct'
  <2> SUFFICES ASSUME NEW i \in jobs \cup newJobs, NEW j \in jobs \cup newJobs,
                      i.nonce = j.nonce, i.path = j.path
               PROVE  i = j
    BY DEF JobsDistinct
  <2>1. CASE i \in jobs /\ j \in jobs
    BY <2>1 DEF InteractionInv, JobsDistinct
  <2>2. CASE i \in newJobs /\ j \in newJobs
    BY <2>2
  <2>3. ASSUME NEW a \in jobs, NEW b \in newJobs, a.nonce = b.nonce
        PROVE  a.path # b.path
    BY <1>1, <1>3, <1>4, <2>3
  <2> QED
    BY <2>1, <2>2, <2>3
<1>9. JobsOpen'
  <2> SUFFICES ASSUME NEW j \in jobs \cup newJobs, NEW r \in replies \cup newReplies,
                      j.kind = "csr", r.nonce = j.nonce, r.key # TestKey
               PROVE  r.path # j.path
    BY DEF JobsOpen
  <2>1. CASE j \in jobs /\ r \in replies
    BY <2>1 DEF InteractionInv, JobsOpen
  <2>2. CASE j \in jobs /\ r \in newReplies
    BY <1>1, <1>3, <1>4, <2>2
  <2>3. CASE j \in newJobs
    BY <1>1, <1>3, <1>4, <2>3
  <2> QED
    BY <2>1, <2>2, <2>3
<1>10. NoneSkipped'
  <2> SUFFICES ASSUME up', restarts' = 0
               PROVE  /\ call' # None => \A l \in 1..(call'.k - 1) : Done(call.m, l)'
                      /\ \A n \in net :
                            /\ \A j \in jobs' : j.nonce = Nonce(n) =>
                                  \A l \in 1..(j.path - 1) : Done(n, l)'
                            /\ \A r \in replies' : r.nonce = Nonce(n) =>
                                  \A l \in 1..(r.path - 1) : Done(n, l)'
    BY <1>2 DEF NoneSkipped, Nonce
  <2>1. \A n, l : Done(n, l) => Done(n, l)'
    <3>1. replies \subseteq replies' /\ jobs \subseteq jobs'
      OBVIOUS
    <3> QED
      BY <3>1, KeptDone
  <2>2. /\ \A l \in 1..(k - 1) : Done(m, l)
        /\ \A n \in net :
              /\ \A j \in jobs : j.nonce = Nonce(n) =>
                    \A l \in 1..(j.path - 1) : Done(n, l)
              /\ \A r \in replies : r.nonce = Nonce(n) =>
                    \A l \in 1..(r.path - 1) : Done(n, l)
    BY <1>1, <1>2 DEF InteractionInv, NoneSkipped
  <2>3. \A l \in 1..k : Done(m, l)'
    <3> SUFFICES ASSUME NEW l \in 1..k PROVE Done(m, l)'
      OBVIOUS
    <3>1. CASE l = k
      BY <3>1
    <3>2. CASE l # k
      <4>1. l \in 1..(k - 1)
        BY <1>1, <3>2
      <4> QED
        BY <2>1, <2>2, <4>1
    <3> QED
      BY <3>1, <3>2
  <2>4. ASSUME call' # None, NEW l \in 1..(call'.k - 1) PROVE Done(call.m, l)'
    <3>1. l \in 1..k /\ call'.m = m
      BY <1>1, <1>5, <2>4
    <3>2. Done(m, l)'
      BY <2>3, <3>1
    <3> QED
      BY <3>1, <3>2
  <2>5. ASSUME NEW n \in net, Nonce(m) = Nonce(n) PROVE n = m
    BY <2>5, NonceUnique DEF InteractionInv
  <2>6. ASSUME NEW n \in net, NEW j \in jobs', j.nonce = Nonce(n),
               NEW l \in 1..(j.path - 1)
        PROVE  Done(n, l)'
    <3>1. CASE j \in jobs
      BY <2>1, <2>2, <2>6, <3>1
    <3>2. CASE j \in newJobs
      <4>1. n = m /\ l \in 1..k
        BY <1>1, <2>5, <2>6, <3>2
      <4> QED
        BY <2>3, <4>1
    <3> QED
      BY <3>1, <3>2
  <2>7. ASSUME NEW n \in net, NEW r \in replies', r.nonce = Nonce(n),
               NEW l \in 1..(r.path - 1)
        PROVE  Done(n, l)'
    <3>1. CASE r \in replies
      BY <2>1, <2>2, <2>7, <3>1
    <3>2. CASE r \in newReplies
      <4>1. n = m /\ l \in 1..k
        BY <1>1, <2>5, <2>7, <3>2
      <4> QED
        BY <2>3, <4>1
    <3> QED
      BY <3>1, <3>2
  <2> QED
    BY <2>4, <2>6, <2>7
<1> QED
  BY <1>2, <1>5, <1>6, <1>7, <1>8, <1>9, <1>10

\* One round, with or without a reply, with or without an async handler.
LEMMA RoundStep ==
    ASSUME InteractionInv, NEW outcome, Round(outcome),
           NEW kind \in {"data", "status", "noc"},
           \/ /\ sessions' = sessions /\ replies' = replies
              /\ outcome = "csr" \/ outcome = "none" \/ outcome = "throw"
           \/ outcome = kind /\ Respond(kind),
           \/ jobs' = jobs /\ outcome # "csr"
           \/ outcome \in {"csr", "noc"} /\ jobs' = jobs \cup {NewJob(outcome)},
           up' \in BOOLEAN, outcome = "throw" => ~up', outcome # "throw" => up'
    PROVE  InteractionInv'
<1>0. call # None
  BY DEF Round
<1>1. PICK m \in net, s \in 1..Len(sessions), k \in Nat \ {0} :
         /\ call.m = m /\ call.k = k /\ k \in 1..Len(m.cmds) /\ up
         /\ call = [m |-> m, k |-> k]
         /\ Executed(m) /\ Settled(m, s) /\ At(m) = s
         /\ m \in Request /\ m.cmds \in Requests /\ m.cmds \in Seq(Commands)
  BY <1>0, LoopFacts
<1>2. /\ Handled(m.cmds, k) = outcome
      /\ exchanges' = exchanges /\ peer' = peer /\ net' = net
      /\ executed' = executed /\ unread' = unread /\ restarts' = restarts
  BY <1>1 DEF Round, Current
<1>3. \A q \in replies : (q.nonce = Nonce(m) /\ q.key # TestKey) =>
         q.path # k /\ q.path < k
  <2>1. \A q \in replies : q.path \in Nat
    BY FieldTypes DEF InteractionInv, TypeOK
  <2> QED
    BY <1>0, <1>1, <2>1 DEF InteractionInv, FreshCall
<1>4. /\ sessions \in Seq(Session) /\ replies \subseteq Reply /\ jobs \subseteq Job
      /\ \A j \in jobs : j.s \in 1..Len(sessions)
      /\ m.from \in Senders /\ m.id \in ExchangeIds
  BY <1>1, FieldTypes DEF InteractionInv, TypeOK
<1>5. PICK newReplies :
         /\ replies' = replies \cup newReplies /\ newReplies \subseteq Reply
         /\ \A q \in newReplies : q.nonce = Nonce(m) /\ q.key = m.key /\ q.path = k
         /\ newReplies = {} \/ outcome \in {"data", "status", "noc"}
         /\ newReplies # {} \/ outcome \in {"csr", "none", "throw"}
         /\ sessions' \in Seq(Session) /\ Len(sessions') = Len(sessions)
         /\ Kept /\ MadeUp(sessions') /\ SessionsOK'
         /\ AnswersItsRequest' /\ RepliesOK' /\ CounterUsedOnce' /\ Ordered'
  <2>1. CASE /\ sessions' = sessions /\ replies' = replies
             /\ outcome = "csr" \/ outcome = "none" \/ outcome = "throw"
    <3>1. Kept /\ MadeUp(sessions')
      <4>1. \A j \in 1..Len(sessions) : sessions[j].ctr \in Nat
        BY <1>4, FieldTypes
      <4> QED
        BY <1>2, <2>1, <4>1 DEF Kept, Extends, MadeUp
    <3>2. SessionsOK'
      BY <3>1, KeptSessions
    <3>3. /\ AnswersItsRequest' /\ RepliesOK' /\ CounterUsedOnce' /\ Ordered'
      BY <1>2, <2>1 DEF InteractionInv, AnswersItsRequest, RepliesOK,
                        CounterUsedOnce, Ordered, Executed, Nonce
    <3>4. WITNESS {}
    <3> QED
      BY <1>4, <2>1, <3>1, <3>2, <3>3
  <2>2. CASE outcome = kind /\ Respond(kind)
    <3>1. SendReply(sessions, s, m.id, k, kind, Nonce(m))
      BY <1>1, <2>2 DEF Respond, Current
    <3>2. /\ Kept /\ MadeUp(sessions') /\ SessionsOK'
          /\ sessions' \in Seq(Session) /\ Len(sessions') = Len(sessions)
          /\ AnswersItsRequest' /\ RepliesOK' /\ CounterUsedOnce' /\ Ordered'
          /\ \E r \in Reply : /\ replies' = replies \cup {r}
                              /\ r.nonce = Nonce(m) /\ r.key = m.key
                              /\ r.path = k
      BY <1>1, <1>2, <1>3, <2>2, <3>1, NewReply
    <3>3. PICK r \in Reply : /\ replies' = replies \cup {r}
                             /\ r.nonce = Nonce(m) /\ r.key = m.key /\ r.path = k
      BY <3>2
    <3>4. WITNESS {r}
    <3> QED
      BY <2>2, <3>2, <3>3
  <2> QED
    BY <2>1, <2>2
<1>6. PICK newJobs :
         /\ jobs' = jobs \cup newJobs /\ newJobs \subseteq Job
         /\ \A i, j \in newJobs : i = j
         /\ \A j \in newJobs : /\ j.path = k /\ j.kind = outcome /\ j.s = s
                               /\ JobOf(j, m)
         /\ outcome = "csr" => \E j \in newJobs : j.kind = "csr"
  <2>1. CASE jobs' = jobs /\ outcome # "csr"
    <3>1. WITNESS {}
    <3> QED
      BY <2>1
  <2>2. CASE outcome \in {"csr", "noc"} /\ jobs' = jobs \cup {NewJob(outcome)}
    <3>1. PICK j : j = NewJob(outcome)
      OBVIOUS
    <3>2. Decoded(m.cmds)[1] \in {"bytes", "number"}
      BY <1>1, <1>2, <2>2, AwaitingField
    <3>3. Nonce(m) \in Senders \X ExchangeIds /\ s \in Nat \ {0}
      BY <1>4 DEF Nonce
    <3>4. j = [kind |-> outcome, s |-> s, id |-> m.id, path |-> k,
               nonce |-> Nonce(m), field |-> Decoded(m.cmds)[1]]
      BY <1>1, <3>1 DEF NewJob, Current
    <3>5. /\ j \in Job /\ j.kind = outcome /\ j.s = s /\ j.id = m.id /\ j.path = k
          /\ j.nonce = Nonce(m)
      BY <1>4, <2>2, <3>2, <3>3, <3>4 DEF Job, Senders
    <3>6. JobOf(j, m)
      BY <1>1, <1>2, <3>5 DEF JobOf
    <3>7. WITNESS {j}
    <3> QED
      BY <2>2, <3>1, <3>5, <3>6
  <2> QED
    BY <2>1, <2>2
<1>7. up' => Done(m, k)'
  <2>1. CASE outcome \in {"data", "status", "noc"}
    BY <1>5, <2>1 DEF Done, Nonce
  <2>2. CASE outcome = "csr"
    BY <1>6, <2>2 DEF Done, Nonce, JobOf
  <2>3. CASE outcome = "none"
    BY <1>2, <2>3 DEF Done
  <2> QED
    BY <2>1, <2>2, <2>3
<1>8. /\ call' # None => call' = [m |-> m, k |-> k + 1] /\ k < Len(m.cmds) /\ up
      /\ outcome = "throw" => call' = None
      /\ CallOK' /\ FreshCall' /\ JobsDistinct' /\ JobsOpen' /\ NoneSkipped'
  <2>1. /\ \A q \in newReplies : q.nonce = Nonce(m) /\ q.path = k
        /\ \A j \in newJobs : j.nonce = Nonce(m) /\ j.path = k
        /\ \A j \in newJobs : j.kind = "csr" => newReplies = {}
    BY <1>5, <1>6 DEF JobOf
  <2>2. /\ replies' = replies \cup newReplies /\ newReplies \subseteq Reply
        /\ jobs' = jobs \cup newJobs /\ newJobs \subseteq Job
        /\ \A i, j \in newJobs : i = j
    BY <1>5, <1>6
  <2>3. k \in 1..Len(m.cmds) /\ call = [m |-> m, k |-> k] /\ m.cmds \in Seq(Commands)
    BY <1>1
  <2>4. Round(outcome) /\ up' \in BOOLEAN /\ (outcome = "throw" => ~up')
    OBVIOUS
  <2> QED
    BY <1>0, <1>7, <2>1, <2>2, <2>3, <2>4, LoopStep
<1>9. TypeOK'
  <2>1. call' # None => call' \in Call /\ call'.k <= Len(call'.m.cmds) /\ up'
    <3> SUFFICES ASSUME call' # None
                 PROVE  call' \in Call /\ call'.k <= Len(call'.m.cmds) /\ up'
      OBVIOUS
    <3>1. /\ call' = [m |-> m, k |-> k + 1] /\ k < Len(m.cmds)
          /\ outcome # "throw"
      BY <1>8
    <3>2. Len(m.cmds) \in Nat /\ k + 1 \in Nat \ {0}
      BY <1>1
    <3> QED
      BY <1>1, <3>1, <3>2 DEF Call
  <2>2. \A j \in jobs' : j.s \in 1..Len(sessions')
    BY <1>4, <1>5, <1>6
  <2> QED
    BY <1>2, <1>4, <1>5, <1>6, <2>1, <2>2 DEF InteractionInv, TypeOK
<1>10. ExecutedOK' /\ HandledOnce' /\ \A n : Executed(n) => Executed(n)'
  BY <1>2, <1>5, SameRequests
<1>11. PeersOK' /\ NetOK'
  BY <1>2 DEF InteractionInv, PeersOK, NetOK
<1>12. JobsOK'
  <2>1. ASSUME NEW j \in jobs' PROVE \E n \in net : JobOf(j, n)'
    <3>1. PICK n \in net : JobOf(j, n)
      BY <1>6 DEF InteractionInv, JobsOK
    <3> QED
      BY <1>5, <1>10, <3>1, KeptJob
  <2> QED
    BY <1>2, <2>1 DEF JobsOK
<1> QED
  BY <1>5, <1>8, <1>9, <1>10, <1>11, <1>12 DEF InteractionInv

\* The handlers of one command.
LEMMA HandleStep ==
    ASSUME InteractionInv, HandleCommand
    PROVE  InteractionInv'
<1>0. ASSUME Round("none") \/ Round("throw") \/ Round("csr") \/ Round("noc")
             \/ Round("data") \/ Round("status")
      PROVE  up
  BY <1>0 DEF Round
<1>1. ASSUME NEW kind \in {"data", "status"}, Round(kind), Respond(kind),
             UNCHANGED <<up, jobs>>
      PROVE  InteractionInv'
  BY <1>0, <1>1, RoundStep
<1>2. CASE OnIgnored
  BY <1>0, <1>2, RoundStep DEF OnIgnored
<1>3. CASE OnThrows
  <2>1. /\ Round("throw") /\ ~up' /\ up' \in BOOLEAN /\ sessions' = sessions
        /\ replies' = replies /\ jobs' = jobs
    BY <1>3 DEF OnThrows
  <2> QED
    BY <2>1, RoundStep
<1>4. CASE OnCsrRequest
  BY <1>0, <1>4, RoundStep DEF OnCsrRequest
<1>5. CASE OnAddNoc
  BY <1>0, <1>5, RoundStep DEF OnAddNoc
<1> QED
  BY <1>1, <1>2, <1>3, <1>4, <1>5 DEF HandleCommand, OnAnswered

-----------------------------------------------------------------------------
(* What runs after an await, and a restart *)

\* sendCsrResponse(): the reply takes the place of the job.
LEMMA CsrReadyStep ==
    ASSUME InteractionInv, NEW j \in jobs, CsrReady(j)
    PROVE  InteractionInv'
<1>1. /\ up /\ call = None /\ j.kind = "csr"
      /\ SendReply(sessions, j.s, j.id, j.path, "csr", j.nonce)
      /\ jobs' = jobs \ {j}
      /\ up' = up /\ exchanges' = exchanges /\ call' = call /\ peer' = peer
      /\ net' = net /\ executed' = executed /\ unread' = unread
      /\ restarts' = restarts
  BY DEF CsrReady, Idle, CsrNonce
<1>2. PICK m \in net : JobOf(j, m)
  BY DEF InteractionInv, JobsOK
<1>3. PICK s, path : s = j.s /\ path = j.path
  OBVIOUS
<1>4. /\ Executed(m) /\ Settled(m, s) /\ path \in 1..Len(m.cmds)
      /\ "csr" = Handled(m.cmds, path) /\ j.nonce = Nonce(m) /\ j.id = m.id
  BY <1>1, <1>2, <1>3 DEF JobOf
<1>5. SendReply(sessions, s, m.id, path, "csr", Nonce(m))
  BY <1>1, <1>3, <1>4
<1>6. \A q \in replies : (q.nonce = Nonce(m) /\ q.key # TestKey) => q.path # path
  BY <1>1, <1>3, <1>4 DEF InteractionInv, JobsOpen
<1>7. /\ Kept /\ MadeUp(sessions') /\ SessionsOK'
      /\ sessions' \in Seq(Session) /\ Len(sessions') = Len(sessions)
      /\ AnswersItsRequest' /\ RepliesOK' /\ CounterUsedOnce' /\ Ordered'
      /\ \E r \in Reply : /\ replies' = replies \cup {r}
                          /\ r.nonce = Nonce(m) /\ r.key = m.key
                          /\ r.path = path
  BY <1>1, <1>4, <1>5, <1>6, NewReply
<1>8. PICK r \in Reply : /\ replies' = replies \cup {r}
                         /\ r.nonce = Nonce(m) /\ r.key = m.key /\ r.path = path
  BY <1>7
<1>9. TypeOK'
  BY <1>1, <1>7, <1>8 DEF InteractionInv, TypeOK
<1>10. ExecutedOK' /\ HandledOnce' /\ \A n : Executed(n) => Executed(n)'
  BY <1>1, <1>7, SameRequests
<1>11. PeersOK' /\ NetOK' /\ CallOK' /\ FreshCall'
  BY <1>1 DEF InteractionInv, PeersOK, NetOK, CallOK, FreshCall
<1>12. JobsOK'
  <2>1. ASSUME NEW i \in jobs PROVE \E n \in net : JobOf(i, n)'
    <3>1. PICK n \in net : JobOf(i, n)
      BY DEF InteractionInv, JobsOK
    <3> QED
      BY <1>7, <1>10, <3>1, KeptJob
  <2> QED
    BY <1>1, <2>1 DEF JobsOK
<1>13. JobsDistinct'
  BY <1>1 DEF InteractionInv, JobsDistinct
<1>14. JobsOpen'
  <2> SUFFICES ASSUME NEW i \in jobs \ {j}, NEW q \in replies \cup {r},
                      i.kind = "csr", q.nonce = i.nonce, q.key # TestKey
               PROVE  q.path # i.path
    BY <1>1, <1>8 DEF JobsOpen
  <2>1. CASE q \in replies
    BY <2>1 DEF InteractionInv, JobsOpen
  <2>2. CASE q = r
    BY <1>3, <1>4, <1>8, <2>2 DEF InteractionInv, JobsDistinct
  <2> QED
    BY <2>1, <2>2
<1>15. NoneSkipped'
  <2> SUFFICES ASSUME up', restarts' = 0
               PROVE  \A n \in net :
                         /\ \A i \in jobs' : i.nonce = Nonce(n) =>
                               \A l \in 1..(i.path - 1) : Done(n, l)'
                         /\ \A q \in replies' : q.nonce = Nonce(n) =>
                               \A l \in 1..(q.path - 1) : Done(n, l)'
    BY <1>1 DEF NoneSkipped, Nonce
  <2>1. ASSUME NEW n \in net, NEW l, Done(n, l) PROVE Done(n, l)'
    <3>1. ASSUME NEW i \in jobs, i.kind = "csr", i.nonce = Nonce(n), i \notin jobs'
          PROVE  \E q \in replies' : /\ q.nonce = Nonce(n) /\ q.key = n.key
                                     /\ q.path = i.path
      <4>1. i = j
        BY <1>1, <3>1
      <4>2. n = m
        BY <1>4, <3>1, <4>1, NonceUnique DEF InteractionInv
      <4> QED
        BY <1>3, <1>8, <4>1, <4>2
    <3> QED
      BY <1>8, <2>1, <3>1, KeptDone
  <2>2. \A n \in net :
           /\ \A i \in jobs : i.nonce = Nonce(n) =>
                 \A l \in 1..(i.path - 1) : Done(n, l)
           /\ \A q \in replies : q.nonce = Nonce(n) =>
                 \A l \in 1..(q.path - 1) : Done(n, l)
    BY <1>1 DEF InteractionInv, NoneSkipped
  <2>3. ASSUME NEW n \in net, NEW q \in replies', q.nonce = Nonce(n),
               NEW l \in 1..(q.path - 1)
        PROVE  Done(n, l)'
    <3>1. CASE q \in replies
      BY <2>1, <2>2, <2>3, <3>1
    <3>2. CASE q = r
      <4>1. j.nonce = Nonce(n) /\ l \in 1..(j.path - 1)
        BY <1>3, <1>4, <1>8, <2>3, <3>2
      <4> QED
        BY <2>1, <2>2, <4>1
    <3> QED
      BY <1>8, <3>1, <3>2
  <2> QED
    BY <1>1, <2>1, <2>2, <2>3
<1> QED
  BY <1>7, <1>9, <1>10, <1>11, <1>12, <1>13, <1>14, <1>15 DEF InteractionInv

\* A job ends without a reply: proccessNoc(), or a rejection.
LEMMA JobEndStep ==
    ASSUME InteractionInv, NEW j \in jobs, NocDone(j) \/ JobRejects(j)
    PROVE  InteractionInv'
<1>1. /\ call = None /\ jobs' = jobs \ {j} /\ up' \in BOOLEAN
      /\ sessions' = sessions /\ exchanges' = exchanges /\ call' = None
      /\ peer' = peer /\ net' = net /\ replies' = replies /\ executed' = executed
      /\ unread' = unread /\ restarts' = restarts
      /\ up' => up /\ j.kind = "noc"
  BY DEF NocDone, JobRejects, Idle
<1>2. sessions \in Seq(Session)
  BY DEF InteractionInv, TypeOK
<1>3. TypeOK'
  BY <1>1 DEF InteractionInv, TypeOK
<1>4. Kept
  <2>1. \A i \in 1..Len(sessions) : sessions[i].ctr \in Nat
    BY <1>2, FieldTypes
  <2> QED
    BY <1>1, <2>1 DEF Kept, Extends
<1>5. SessionsOK' /\ PeersOK' /\ NetOK'
  BY <1>1 DEF InteractionInv, SessionsOK, PeersOK, NetOK
<1>6. /\ executed' = executed /\ replies' = replies /\ jobs' \subseteq jobs
      /\ call = None /\ call' = None
      /\ \A i \in 1..Len(sessions') : i \in 1..Len(sessions)
      /\ (up' /\ restarts' = 0) =>
            /\ up /\ restarts = 0
            /\ \A i \in jobs : i.kind = "csr" => i \in jobs'
  BY <1>1
<1> QED
  BY <1>3, <1>4, <1>5, <1>6, QuietStep

\* A restart empties the node's tables; the peers' halves and what was sent
\* remain.
LEMMA RestartStep ==
    ASSUME InteractionInv, Restart
    PROVE  InteractionInv'
<1>1. /\ restarts \in Nat /\ restarts < MaxRestarts /\ restarts' = restarts + 1
      /\ up' = TRUE /\ sessions' = <<>> /\ exchanges' = <<>> /\ call' = None
      /\ jobs' = {} /\ executed' = <<>> /\ peer' = peer /\ net' = net
      /\ replies' = replies /\ unread' = unread
  BY DEF Restart, InteractionInv, TypeOK
<1>2. \A i : /\ i \notin 1..Len(sessions') /\ i \notin 1..Len(exchanges')
             /\ i \notin 1..Len(executed')
  BY <1>1
<1>3. restarts' \in 0..MaxRestarts /\ restarts' # 0
  BY <1>1, BoundsAssumption
<1>4. TypeOK'
  <2>1. /\ sessions' \in Seq(Session) /\ exchanges' \in Seq(Exchange)
        /\ executed' \in Seq(Request)
    BY <1>1
  <2> QED
    BY <1>1, <1>2, <1>3, <2>1 DEF InteractionInv, TypeOK
<1>5. SessionsOK' /\ ExecutedOK' /\ HandledOnce' /\ RepliesOK'
  BY <1>2 DEF SessionsOK, ExecutedOK, HandledOnce, RepliesOK
<1>6. PeersOK' /\ NetOK' /\ AnswersItsRequest' /\ CounterUsedOnce' /\ Ordered'
  BY <1>1 DEF InteractionInv, PeersOK, NetOK, AnswersItsRequest, CounterUsedOnce,
              Ordered
<1>7. CallOK' /\ FreshCall' /\ JobsOK' /\ JobsDistinct' /\ JobsOpen'
  BY <1>1 DEF CallOK, FreshCall, JobsOK, JobsDistinct, JobsOpen
<1>8. NoneSkipped'
  BY <1>3 DEF NoneSkipped
<1> QED
  BY <1>4, <1>5, <1>6, <1>7, <1>8 DEF InteractionInv

-----------------------------------------------------------------------------
(* The theorems *)

\* The invariant holds when the node starts.
LEMMA InteractionInit == Init => InteractionInv
<1> SUFFICES ASSUME Init PROVE InteractionInv
  OBVIOUS
<1>1. /\ up = TRUE /\ sessions = <<>> /\ exchanges = <<>> /\ call = None
      /\ jobs = {} /\ net = {} /\ replies = {} /\ executed = <<>>
      /\ unread = {} /\ restarts = 0
      /\ peer = [p \in Peers \cup TestPeers |-> None]
  BY DEF Init
<1>2. \A i : /\ i \notin 1..Len(sessions) /\ i \notin 1..Len(exchanges)
             /\ i \notin 1..Len(executed)
  BY <1>1
<1>3. TypeOK
  <2>1. restarts \in 0..MaxRestarts
    BY <1>1, BoundsAssumption
  <2>2. /\ sessions \in Seq(Session) /\ exchanges \in Seq(Exchange)
        /\ executed \in Seq(Request)
    BY <1>1
  <2>3. peer \in [Peers \cup TestPeers ->
                     [sid : SessionIds, own : SessionIds] \cup {None}]
    BY <1>1
  <2> QED
    BY <1>1, <1>2, <2>1, <2>2, <2>3 DEF TypeOK
<1>4. SessionsOK /\ ExecutedOK /\ HandledOnce
  BY <1>2 DEF SessionsOK, ExecutedOK, HandledOnce
<1>5. PeersOK
  BY <1>1 DEF PeersOK
<1>6. NetOK /\ AnswersItsRequest /\ CounterUsedOnce /\ Ordered /\ RepliesOK
  BY <1>1 DEF NetOK, AnswersItsRequest, CounterUsedOnce, Ordered, RepliesOK
<1>7. CallOK /\ FreshCall /\ JobsOK /\ JobsDistinct /\ JobsOpen /\ NoneSkipped
  BY <1>1 DEF CallOK, FreshCall, JobsOK, JobsDistinct, JobsOpen, NoneSkipped
<1> QED
  BY <1>3, <1>4, <1>5, <1>6, <1>7 DEF InteractionInv

\* Nothing changes when nothing happens.
LEMMA InteractionStutter ==
    ASSUME InteractionInv, UNCHANGED imVars
    PROVE  InteractionInv'
<1>1. /\ up' = up /\ sessions' = sessions /\ exchanges' = exchanges
      /\ call' = call /\ jobs' = jobs /\ peer' = peer /\ net' = net
      /\ replies' = replies /\ executed' = executed /\ unread' = unread
      /\ restarts' = restarts
  BY DEF imVars
<1>2. TypeOK'
  BY <1>1 DEF InteractionInv, TypeOK
<1>3. SessionsOK' /\ PeersOK' /\ NetOK' /\ HandledOnce' /\ AnswersItsRequest'
  BY <1>1 DEF InteractionInv, SessionsOK, PeersOK, NetOK, HandledOnce,
              AnswersItsRequest
<1>4. Kept
  <2>1. \A i \in 1..Len(sessions) : sessions[i].ctr <= sessions[i].ctr
    <3>1. sessions \in Seq(Session)
      BY DEF InteractionInv, TypeOK
    <3>2. \A i \in 1..Len(sessions) : sessions[i].ctr \in Nat
      BY <3>1, FieldTypes
    <3> QED
      BY <3>2
  <2> QED
    BY <1>1, <2>1 DEF Kept, Extends
<1>5. ExecutedOK' /\ \A n : Executed(n) => Executed(n)'
  BY <1>1, <1>4, SameRequests
<1>6. RepliesOK'
  BY <1>1, <1>5 DEF InteractionInv, RepliesOK
<1>7. CallOK'
  <2>1. PICK c : c = call
    OBVIOUS
  <2>2. c # None => Executed(c.m)'
    BY <1>5, <2>1 DEF InteractionInv, CallOK
  <2> QED
    BY <1>1, <2>1, <2>2 DEF CallOK
<1>8. JobsOK'
  <2>1. ASSUME NEW j \in jobs PROVE \E m \in net' : JobOf(j, m)'
    <3>1. PICK m \in net : JobOf(j, m)
      BY DEF InteractionInv, JobsOK
    <3>2. JobOf(j, m)'
      BY <1>4, <1>5, <3>1, KeptJob
    <3> QED
      BY <1>1, <3>2
  <2> QED
    BY <1>1, <2>1 DEF JobsOK
<1>9. CounterUsedOnce' /\ FreshCall' /\ JobsDistinct' /\ JobsOpen' /\ Ordered'
  BY <1>1 DEF InteractionInv, CounterUsedOnce, FreshCall, JobsDistinct, JobsOpen,
              Ordered, Nonce
<1>10. NoneSkipped'
  <2>1. \A n, k : Done(n, k) => Done(n, k)'
    BY <1>1, KeptDone
  <2>2. ASSUME up, restarts = 0, call # None, NEW k \in 1..(call.k - 1)
        PROVE  Done(call.m, k)'
    <3>1. PICK m : m = call.m
      OBVIOUS
    <3>2. Done(m, k)
      BY <2>2, <3>1 DEF InteractionInv, NoneSkipped
    <3>3. Done(m, k)'
      BY <2>1, <3>2
    <3> QED
      BY <1>1, <3>1, <3>3
  <2>3. ASSUME up, restarts = 0, NEW m \in net
        PROVE  /\ \A j \in jobs : j.nonce = Nonce(m) =>
                     \A k \in 1..(j.path - 1) : Done(m, k)'
               /\ \A r \in replies : r.nonce = Nonce(m) =>
                     \A k \in 1..(r.path - 1) : Done(m, k)'
    BY <2>1, <2>3 DEF InteractionInv, NoneSkipped
  <2> QED
    BY <1>1, <2>2, <2>3 DEF NoneSkipped, Nonce
<1> QED
  BY <1>2, <1>3, <1>5, <1>6, <1>7, <1>8, <1>9, <1>10 DEF InteractionInv

\* Every step keeps the invariant.
LEMMA InteractionStep == InteractionInv /\ [Next]_imVars => InteractionInv'
<1> SUFFICES ASSUME InteractionInv, [Next]_imVars PROVE InteractionInv'
  OBVIOUS
<1>1. ASSUME NEW p \in Peers, NEW local \in SessionIds, NEW own \in SessionIds,
             Establish(p, local, own)
      PROVE  InteractionInv'
  BY <1>1, EstablishStep
<1>2. ASSUME NEW p \in TestPeers, NEW sid \in SessionIds, PickId(p, sid)
      PROVE  InteractionInv'
  BY <1>2, PickIdStep
<1>3. ASSUME NEW p \in Peers \cup TestPeers, NEW id \in ExchangeIds,
             NEW cmds \in Requests, Ask(p, id, cmds)
      PROVE  InteractionInv'
  BY <1>3, AskStep DEF Senders
<1>4. ASSUME NEW m \in net, Receive(m) PROVE InteractionInv'
  BY <1>4, ReceiveStep
<1>5. CASE HandleCommand
  BY <1>5, HandleStep
<1>6. ASSUME NEW j \in jobs, Continue(j) PROVE InteractionInv'
  BY <1>6, CsrReadyStep, JobEndStep DEF Continue
<1>7. CASE Restart
  BY <1>7, RestartStep
<1>8. CASE UNCHANGED imVars
  BY <1>8, InteractionStutter
<1> QED
  BY <1>1, <1>2, <1>3, <1>4, <1>5, <1>6, <1>7, <1>8 DEF Next

\* The inductive invariant holds of every run of the node.
THEOREM InteractionInvariant == Spec => []InteractionInv
BY InteractionInit, InteractionStep, PTL DEF Spec

\* Every exchange and every pending handler refers to a session of the table,
\* and every reply has an address.
THEOREM TypeCorrect == Spec => []TypeOK
<1>1. InteractionInv => TypeOK
  BY DEF InteractionInv
<1> QED
  BY <1>1, InteractionInvariant, PTL

\* ExchangeManager hands a request to its protocol at most once between two
\* restarts, however often SessionManager gets its datagram.
THEOREM RequestsHandledOnce == Spec => []HandledOnce
<1>1. InteractionInv => HandledOnce
  BY DEF InteractionInv
<1> QED
  BY <1>1, InteractionInvariant, PTL

\* A response, also the one that follows an await, has the nonce, the exchange,
\* the keys and the session id of the request it answers.
THEOREM ResponsesMatch == Spec => []AnswersItsRequest
<1>1. InteractionInv => AnswersItsRequest
  BY DEF InteractionInv
<1> QED
  BY <1>1, InteractionInvariant, PTL

\* Session.sendMessage() never encrypts two messages with one key and counter.
THEOREM CountersUnique == Spec => []CounterUsedOnce
<1>1. InteractionInv => CounterUsedOnce
  BY DEF InteractionInv
<1> QED
  BY <1>1, InteractionInvariant, PTL

\* onInvokeCommandRequest() answers the commands of a list in order, each once,
\* and skips none.
THEOREM ListsInOrder == Spec => []CommandsInOrder
<1>1. InteractionInv => CommandsInOrder
  <2> SUFFICES ASSUME InteractionInv, NEW r \in replies, r.key # TestKey
               PROVE  LET same == {q \in replies : q.nonce = r.nonce /\ q.key = r.key}
                          m == CHOOSE m \in net : Nonce(m) = r.nonce
                      IN  /\ \A q \in same :
                                /\ q.path = r.path => q = r
                                /\ (q.path < r.path /\ q.kind # "csr") => q.ctr < r.ctr
                          /\ \A k \in 1..(r.path - 1) :
                                \/ ~up \/ restarts > 0
                                \/ Handled(m.cmds, k) = "none"
                                \/ \E q \in same : q.path = k
                                \/ \E j \in jobs : j.nonce = r.nonce /\ j.path = k
    BY DEF CommandsInOrder
  <2> DEFINE same == {q \in replies : q.nonce = r.nonce /\ q.key = r.key}
             m == CHOOSE m \in net : Nonce(m) = r.nonce
  <2>1. PICK n \in net : Nonce(n) = r.nonce /\ n.key = r.key
    BY DEF InteractionInv, AnswersItsRequest, Nonce
  <2>2. m \in net /\ Nonce(m) = r.nonce
    BY <2>1
  <2> HIDE DEF m
  <2>3. m = n
    BY <2>1, <2>2, NonceUnique DEF InteractionInv
  <2>4. \A q \in same : /\ q.path = r.path => q = r
                        /\ (q.path < r.path /\ q.kind # "csr") => q.ctr < r.ctr
    BY DEF InteractionInv, Ordered
  <2>5. ASSUME NEW k \in 1..(r.path - 1), up, ~(restarts > 0)
        PROVE  \/ Handled(m.cmds, k) = "none"
               \/ \E q \in same : q.path = k
               \/ \E j \in jobs : j.nonce = r.nonce /\ j.path = k
    <3>1. restarts = 0
      BY <2>5 DEF InteractionInv, TypeOK
    <3>2. Done(m, k)
      BY <2>2, <2>5, <3>1 DEF InteractionInv, NoneSkipped
    <3> QED
      BY <2>1, <2>2, <2>3, <3>2 DEF Done
  <2> QED
    BY <2>4, <2>5 DEF m
<1> QED
  BY <1>1, InteractionInvariant, PTL

=============================================================================
