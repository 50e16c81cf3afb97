# TLA+ models of matternode

matternode is a node of the Matter protocol for Node.js. This directory holds
TLA+ modules that model its stateful parts, TLC configurations that check them
on small instances, and TLAPS proofs of theorems about them. `PROJECT.json`
maps every definition to the lines it models, and lists the runs, the hazards
of the code, the findings and the theorems.

## The system

A node is one process with one event loop (`app.ts`, `src/Node.js`). Nothing is
pre-empted: a handler runs until it returns or awaits. What is concurrent is
the network, the other nodes, timers, the continuations of `await`, other
processes on the same machine, and the user at the shell.

| Part | State | Operations | Talks to |
|---|---|---|---|
| PASE (`protocols/session/PaseSession.js`, `SessionProtocol.js`) | per exchange: state, request, response, spake2 client or server, secret, response timer | startPase, one handler per opcode (two with awaits), timeout | exchange it listens to; creates secure sessions |
| Message layer (`message/*.js`, `net/Udp*.js`) | tables of unsecured and secure sessions, table of exchanges, next exchange id, message counters | receive a datagram, open, send | sockets below; protocol handlers above through events |
| Interaction model and clusters (`protocols/interaction_model`, `clusters`) | none but pending async handlers | one per opcode and per command | replies on the exchange of the request |
| Configuration (`platform/PersistantStore.js`, `shell/cmd_config.js`, `net/Discovery.js`) | fields in memory, one file per field, bound port, mDNS target | start, setters, kill | files, sockets, mDNS queries |
| Expect library (`async`, `expect`) | queue of promises and resolvers, pending calls, timers | data event, expect, expectNext, timeout | a child process's output |
| Codecs (`tlv`, `message/Message.js`, `message/MsgCodec.js`) | a buffer | put, encode, decode; getters and setters of header fields; encrypt, decrypt | called by all protocols |
| Crypto, shell, logging | none, or only I/O | | |

What is hard about it: UDP loses, repeats and reorders, and duplicate detection
is commented out; handlers read fields after an await that others may have
changed; restarts begin exchange ids from 0 while old datagrams are in flight;
rows are never removed from the tables and lookups take the first match; an
exception in a handler ends the process; a promise that lost a race goes on
running; a process can be killed between two writes of its configuration; the
setters of a header move each other's fields, so their order matters.

## Modules

In each component module a name like `TimerArmed_NotPake3`, just before
`TimerArmed`, is that operator with a plausible bug. `PROJECT.json` pairs every
property with one such variant that violates it.

### PaseSession

The handshake between a client node and a server node, for a set `Exchanges` of
concurrent handshakes. Each `pase` command opens an exchange of its own with one
`PaseSession` object per side, so every field of the class is a function of the
exchange (`cState`, `cReq`, ... for the client's objects, `sState`, ... for the
server's). There is one action per handler. `onPbkdfParamResponse` and `onPake1`
await twice, so each is three actions: up to `generateVerifier`, up to
`startClient`/`startServer`, and the rest. In between, the continuation reads
`this._spake2` and `this._pA` as they are *then*, as the code does.

`AwaitYields` says whether other events of the node can run while a handler is
suspended. Whether they can is up to the external spake2 library (a promise
that is already resolved continues before the next event, one that does real
asynchronous work does not), so both values are checked.

A secret is the record of everything both sides must agree on (the two PBKDF
messages of `computeContext`, pA and pB); equality of records stands for
equality of the derived Ke, KcA and KcB. Both sides use the passcode that is
compiled in. A `Pake3` carries the client's secret as `cA`, and `verifyHash`
compares it with the server's.

The state check that `onPbkdfParamResponse` lacks is lacking in the model too.

### MessageLayer

Two or more nodes, each with a server socket, a client socket and the tables of
`SessionManager` and `ExchangeManager`. `Receive` is the whole of the 'message'
event: session lookup, creation of a session, exchange lookup, and either the
dispatch, a new exchange, or "invalid responder message has no exchange". The
protocol above is abstract: it may send on any exchange it listens to and has
heard from. Random node ids and initial message counters are fresh numbers;
counters are kept as the random start and an offset. `epoch`, `got` and
`dropped` are history for the properties.

### InteractionModel

A node as responder on secure sessions: the table that PASE fills, the lookup by
`PeerSessionId`, the session with test keys that is made up for an unknown id,
the exchanges, and the interaction model. What a command does to the node is its
outcome: it answers with data or a status, is ignored, throws (which ends the
process), or goes on after an await (`CsrRequest`, `AddNoc`). One record per
cluster gives the outcome of each of its commands, read off `onCommand()`. A
message that does not decrypt is dispatched all the same, as in the code, with an
arbitrary exchange id. The network keeps every request: it can arrive any number
of times, in any order, also after a restart.

A request is a list of commands. `HandleCommand` is one round of the loop of
`onInvokeCommandRequest`; `call` says where the loop is, and no other event of
the node runs before it ends. Every handler decodes the data of the list's first
command, whatever its own place (`Decoded`), so a later command may throw on data
of another shape or answer with the first one's (`Handled`); both are in the
model as they are in the code. `AddNoc` answers first and decodes afterwards, so
there the exception comes after the await (`JobRejects`).

Requests on unsecured sessions are left out: no code sends any. Session ids are
assumed not to be 0 (`SessionIdsAssumption`); with 0 the code treats a secure
message as unencrypted. `CHIP_CONFIG_SECURITY_TEST_MODE` is off, as in the
repository.

### NodeConfig

Processes with their `PersistantStore`, the directories `.node<n>`, and the
socket. `Launch`, one `SetDefault` per field in the order of `setDefaults()`,
`Start`, then `Listening` or `BindFails`; `Kill` is possible at any time. The
setters are `SetField` and `SetNodeNum`, and there is one action per config
command. A hexadecimal value is its digits and its length, so that the padding of
`formatHex` shows. The two files that `NodeNum` writes (port, number) are written
in one step: the port's file is never read back, so no kill between them can be
told from one after.

Discovery has no state but the target that `Start` computes. `onQuery` answers
operational and commissionable queries with the records of the code (those that
a reader uses: PTR, SRV, AAAA), and `onResponse` is what another node's `mdns`
command makes of them; `AdvertisesItself` compares the two ends. It is stated
until a command sets what is advertised: the setters leave
`theNode.Discovery.update()` commented out, so afterwards the two differ until
the next start. `StartKeepsSettings` is about starts that follow each other, cut
short by kills: they fill in what is missing and replace nothing, except the node
number of the command line. It leaves out the port, whose file no start reads,
and directories that two processes share.

### AsyncQueue, FifoQueue, ExpectProcess

`AsyncQueue` has the arrays `promises` and `resolvers` of the class and the
values the promises hold. `FifoQueue` is what its users rely on: the n-th
`dequeue()` is answered with the n-th enqueued value, whichever call comes
first. `ExpectProcess` composes the queue (by INSTANCE) with the child's output,
which arrives in chunks cut anywhere, and with the callers of `expect()` and
`expectNext()`. Its lines are two fragments and an end of line, so that a chunk
can end inside a line.

### Tlv, MessageFrame, Conversation, AppMessage

`Tlv` and `MessageFrame` are pure operators, byte by byte. `Tlv` has the put
functions of `TlvWriter`, `encode()` of a document in `DeterministicJson`, and
`decode()` of `TlvReader`; a 64-bit number is the sequence of its 8 bytes, so all
widths are exact. A decoded document is the list of its nodes in the order of
their bytes, each with the place of the container it is `in`. `MessageFrame` has
the getters and setters of `Message` over a buffer (the setters insert, wipe and
move exactly as in the code) and `encrypt`/`decrypt` of `MsgCodec`; AES-CCM puts
one cell, the sealed text with its key, nonce and header, behind the header.

`Conversation` is an exchange between two nodes over these headers, unsecured (as
PASE has it) or secure (as the `msg` command opens it and a node answers it). It
calls the setters in the order of `Exchange.sendMessage` and
`Session.sendMessage`, and each side's next message is made from the bytes it read
of the one before. What the application sends is a parameter (`Converse`).

`AppMessage` composes `Tlv` and `Conversation`: a writer puts values and
containers of any shape, then the document is the payload of a conversation's
first message.

`Tlv` uses RECURSIVE operators, so it is not proved about; `Conversation` and
`MessageFrame` do without.

## Runs

| Run | Instance | Distinct states | Shows |
|---|---|---|---|
| `pase_replay` | 1 handshake, 2 ids, loss, timeouts, 2 repetitions, 1 restart, awaits do not yield | 998 886 | session tables mirror each other (`SessionIdsMirror`), no secret opens two sessions (`NoKeyReuse`) |
| `pase_lossy` | 2 handshakes, one with loss and timeouts, one without, 1 restart, awaits yield, nothing repeated | 37 654 | `ServerKeyConfirmed`, `ClientKeyNegotiated`, `ServerSurvives`, `NoHang`, `HandshakeCompletes` |
| `pase_repeated_response` | 1 handshake, 1 repetition | violation | `ClientKeyNegotiated` fails |
| `message_routing` | 2 nodes, 2 ports, 2 opens, 2 further sends, 1 repetition, 2 restarts | 1 290 490 | `RepliesReachRequester`, `RequestsSeparated`, `NoReplyDropped`, `AckNamesReceived` |
| `interaction_model` | 1 PASE peer, 1 test-key peer, 2 requests of 6 lists of one or two commands, 2 session ids, 3 exchanges, 1 restart | 468 790 | `HandledOnce`, `AnswersItsRequest`, `CounterUsedOnce`, `CommandsInOrder`, `CsrAnswered` |
| `secure_lookup` | the same with reads only | violation | `MatchesSession` fails |
| `node_config` | 2 processes, 2 node numbers, 3 launches, 1 command | 987 067 | `ConfigDurable`, `StartKeepsSettings`, `AdvertisesItself`, `NumberedNodesCoexist` |
| `node_config_port` | 2 processes, 2 launches, 1 command | violation | `ManualPortUsed` fails |
| `async_queue` | 2 values, 6 calls of each operation | 889 | `NeverBothWaiting`, `IsEmptyExact`, `ImplementsFifo` |
| `expect` | 2 texts, 2 lines, 2 calls | 75 441 | `OutputConserved`, `FindsFirstMatch`, `ExpectSettles` |
| `app_message` | documents of up to 4 nodes, 32 values and 10 forms of tag, payloads of up to 7 bytes sent, conversations of up to 6 messages | 92 446 | `ReadsWhatWasPut`, `EncodesBack`, `FieldsRead`, `ReplyFindsRequester` |
| `app_message_text` | one string, also outside ASCII | violation | `ReadsWhatWasPut` fails |

Every component module also has its type invariant checked.

Deadlock is not checked: all instances are bounded and really stop, when the
user opens no further handshake, the child writes no further line and so on.

### Bounds, and why they are enough

* PASE: handshakes share nothing but the event loop, so one is enough for the
  replay run and two show what suspended handlers of one do to the other. Two
  repetitions allow one message to be repeated on each side, or one message
  twice; the theorems need no bound. With repetitions `ClientKeyNegotiated` and
  `ServerSurvives` do not hold (that is the finding), so the run that checks
  them has none. `SessionIdsMirror` is checked and proved for awaits that do not
  yield: with yielding awaits a second response or request can slip in between.
* Message layer: two nodes that are both client and server, ids that start from
  0 on both, one restart on each side or two on one. The client port may or may
  not be the same after a restart, so old replies can reach the new run.
* Interaction model: two session ids suffice for every coincidence of local and
  peer id between the PASE session and the made-up one. Two requests suffice for
  one handled during the await of the other; three exchanges leave room for one
  opened by a message that did not decrypt. The lists have each kind of outcome,
  before and after a command that awaits or throws; a list of two commands
  already has one that is not the first.
* Codecs: the values are the limits of each width and their neighbours, a byte string
  longer than one length byte can say, and every form of tag at both ends of its
  range. Four nodes make containers that are empty, nested and side by side.
  Every document is written and read; the shorter ones (`MaxPayload`) are sent
  too, since headers do not look at the payload. Six messages let both sides
  acknowledge, and acknowledge again after their counters have moved. The first
  message counter is one that carries when it is incremented.
* Configuration: two processes meet in one directory, or on one port, or in
  neither; the third launch is the restart of one of them. One command is enough
  because no property relates two.

Symmetry is used only where no liveness property is checked, over model values
that no definition singles out.

### Fairness

* `PaseSession`: the event loop delivers what the socket has received, resumes
  handlers whose promise is resolved and fires due timers: weak fairness of
  each per handshake. No fairness for the start of a handshake, for loss,
  repetition or restarts. A lost datagram is not delivered, so `NoHang` rests on
  the timers alone. `HandshakeCompletes` is for a handshake without faults of its
  own, in which no timer fires before the awaited message arrives, whatever
  befalls the other handshake; a restart of the server excuses it.
* `ExpectProcess`: weak fairness of the running callback, of the delivery of
  output the child has written, and of each call's continuation or timer. The
  child need not write and the test need not call.
* `InteractionModel`: weak fairness of the loop over the commands, which is
  running code, and of pending async handlers; CSR generation and certificate
  decoding wait for nothing outside the process.

## Findings

1. A repeated PBKDFParamResponse makes the client open a session under a secret
   the server never derived (`PaseSession.js:478`, run `pase_repeated_response`):
   there is no state check, and cB is not verified.
2. A port set by hand is saved as `ipPort` and looked for as `udpPort`
   (`PersistantStore.js:55`, run `node_config_port`).
3. Secure sessions are looked up by the peer's session id although a message
   carries the receiver's (`SessionManager.js:72`, run `secure_lookup`).
4. `putString` writes a string's length in UTF-16 code units in front of its
   UTF-8 bytes (`TlvWriter.ts:133`, run `app_message_text`).

Seen while modelling, without a run of their own: `AsyncTimeout` does not stop
the search it gives up on, which goes on reading (the model does the same);
commands after the first of a list get the first one's data although a comment
says "Dispatch command path w/ commandData" (`ImCommandMixin.js:92`); `encode()`
writes a whole double, and an integer that was not in its shortest form, as
another element than was read, so `EncodesBack` leaves whole doubles out and the
inputs come from `TlvWriter`; the commissionable instance name of every node is
one constant (`Discovery.js:161`, "random 64-bit number"); `sendStatus` writes
its three fields over each other (`StatusReport.js:73`), unseen because the only
caller sends zeros.

## Proofs

Every theorem below holds for every value of the constants that satisfies the
assumptions named in the modules (`BoundsAssumption`, `NoneAssumption`,
`PeersAssumption`, ...), which TLC evaluates in every run: for any number of
handshakes, nodes, peers, processes and calls, any bounds on repetitions and
restarts, any set of faults. Each invariant was checked with TLC, as an invariant
of the component's run, before it was proved. `None` and `Pending` are assumed
not to be a value of the fields that they stand for the absence of; nothing else
is assumed of them.

`PaseSessionProofs`:

* `TypeCorrect`: `Spec => []TypeOK`. `TypeOK` is not inductive, because a
  suspended handler reads fields that an earlier step must have set. `TypeInv`
  adds which fields are set in which state of each side, and while anything is
  suspended or a PBKDF message in flight.
* `KeyConfirmation`: `Spec => []ServerKeyConfirmed`, with or without yielding
  awaits. When the server accepts a Pake3 the client's session must already be
  there, so `KeyInv` adds that every Pake3 in flight is backed by a client
  session with its secret, that requests in flight and remembered are the
  client's own, and that a client session has the id of its request.
* `SessionsMirror`: `Spec => []SessionIdsMirror` if `AwaitYields = FALSE`. Each
  side's remembered response must be the one in the context of its spake2 object
  whenever it can be used; `ClientMirror` and `ServerMirror` say when that is.
* `KeysUsedOnce`: `Spec => []NoKeyReuse`, with any number of repetitions and with
  or without yielding awaits. A secret holds the random number its side drew for
  it. `FreshInv` says that a side that can still open a session, and every
  suspended handler of it, has a number of its own that no session of its table
  has.
* `KeyNegotiation` and `Survival`: `Spec => []ClientKeyNegotiated` and
  `Spec => []ServerSurvives` if `MaxDup = 0`; with repetitions they do not hold
  (see Findings). `ThreadInv` says that a handshake is then one thread, in one
  place at any time (a message under way or a suspended handler), and what the
  other side remembers while it is there.

`MessageLayerProofs`: `TypeCorrect`, `RepliesRouted`, `RequestsApart`,
`RepliesKept`, `AcksReceived`. The routing of a reply depends on the session that
it is looked up in, which depends on the random node id and the addresses in
every message before it, so `MessageInv` gives each exchange a link (who opened
it, exchange id, node id, client and server address). Both ends and every message
carry it; two links with one origin or one node id are equal (`LinksUnique`);
sessions with an id differ in address or id (`SessionsDistinct`), belong to one
exchange each (`OwnSession`), and what was dispatched or acknowledged was
received there (`GotOK`, `AcksOK`).

`InteractionModelProofs`: `TypeCorrect`, `RequestsHandledOnce`, `ResponsesMatch`,
`CountersUnique`, `ListsInOrder`. `InteractionInv` has two parts. One says where a
request belongs: it is settled on the first session with its id, which has its
key and an address (`Settled`), once handled it has left an exchange there
(`Absorbed`, which is what absorbs a repetition), a PASE session is its peer's
only one. The other says how far the loop over its commands has come: what the
loop has not reached has neither reply nor job (`FreshCall`), an awaited CSR has
no reply yet (`JobsOpen`), replies are one for each command and in order
(`Ordered`), and nothing before the loop, a job or a reply is left undone
(`NoneSkipped`). The last holds up to the first restart, which loses jobs.

`NodeConfigProofs`: `TypeCorrect`, `Durability`, `Advertisement` and the action
properties `Coexistence` and `SettingsKept`. `ConfigInv` says which fields `setDefaults()` has passed
(`Progress`), that processes sharing a directory know that they are not alone
(`Separate`), that a process that is alone uses what is on disk (`Mirror`), and
that what a start derived from the fields still agrees with them unless a command
has set them (`Bound`). `SettingsKept` rests on `Mirror`: `setDefaults()` only
writes a field that it read as missing, or a level as it read it, and what a
process that is alone has read is what the file still holds. It also needs that a
process with a number has the directory of this number (`OwnDirectory`), since
the end of `main()` writes that number.

`AsyncQueueProofs`: `TypeCorrect`, `NeverBoth`, `EmptinessExact`, and `Refinement`
(`Spec => ImplementsFifo`). All rest on `Shape`: entries are numbered in the order
they were made, the promises handed out are 1..T, those still queued T+1..V, and
the resolvers still queued are the last R of the V entries, exactly the pending
ones.

`ExpectProcessProofs`: `TypeCorrect`, `OutputKept`, `FirstMatchFound`, for any
number of lines, calls and chunks. `ExpectInv` takes the shape of the queue from
`ArrayLemmas` and adds two things. For the output: splitting a chunk and joining
its pieces gives the chunk without its ends of line (`SplitKeeps`), so every step
only moves output along. For the calls: the n-th dequeue() got the n-th entry,
only the last call can be pending, and until a call times out the entries taken
are those of the calls in their order, without gaps (`TakenInTurn`), and the ones
a search has passed do not match (`SearchedOK`).

`ConversationProofs`: `ConversationTypes`, `FieldsArrive`, `RepliesFindRequester`,
for every payload, opcode, id and counter and for conversations of any length
between applications that send anything (`ConversationSpec`). The argument goes up
from the bytes. Reading back what was written, or what a concatenation is made of,
gives the parts (`WriteAtFacts`, `Joined`, ...). A buffer that is a header of the
right flags and a body (`IsHeader`, `IsBody`) is read by the getters as the fields
it was laid out from (`FrameRead`). The setters, in the order that `Exchange` and
`Session` call them, make such a buffer, although `SetSourceNodeId`,
`SetDestinationNodeId` and `SetAckCounter` move what follows; so do the encoders
that `doMsg()` uses. What `encrypt` seals, `decrypt` opens with the same key,
because the nonce and the authenticated header lie in the part that is not
encrypted (`SameHeader`). So every datagram carries the fields that were meant
(`Carries`, `DatagramCarries`, `RequestCarries`). `ConversationInv` then says that
the datagram in flight is the last message (`InFlight`), what each side keeps of
what it has read (`InitiatorKeeps`, `ResponderKeeps`), and what the k-th message
says (`Kth`). `IdsAssumption` excludes a secure session whose random id is 0, which
`isUnencrypted` would not tell from an unsecured one, and a node id of 0, which
counts as not set. The steps of `AppMessage` that send are steps of
`ConversationSpec` as long as its document is a sequence of bytes, which is part of
its `TypeOK`.

What `FlattenSeq` and `Split` compute for sequences of any length needs induction
over data. The library states it for an operator, which the provers cannot
instantiate; `ArrayLemmas` has it as a statement about a set (`NatInSet`: a set
that has 0 and with every n has n + 1 has all natural numbers), derived from the
well-foundedness of `<`, and the lemmas use it on sets such as the lengths for
which a law holds.

`ArrayLemmas` has what several proofs share: tables (sequences of rows, per node),
the two arrays of an AsyncQueue, sequences, and that induction.

Only model-checked: all liveness (`NoHang`, `HandshakeCompletes`, `ExpectSettles`,
`CsrAnswered`: the prover does not reason about fairness), and what is about TLV
documents (`ReadsWhatWasPut`, `EncodesBack` and the writer's part of the
`TypeOK` of `AppMessage`), since the prover cannot reason about the recursive
operators of `Tlv`.

## Not modelled

Cryptography and certificates (beyond terms that stand for keys and secrets),
`TlvParser`, which only names the fields of certificates, the contents of
attribute reports (constants), CASE (two helpers that nothing calls), the echo
protocol (not registered by the node), group and privacy messages (never sent),
the mDNS library and the list of interfaces, the shell's line editing and
printing commands, logging and tracing. `PROJECT.json` has the reason for each.

Most lines of the repository are generated: `tools/schema/matter_grammar.js`
(15 722 lines, a stand-alone Lark parser with its tables, used offline) and
`zzz_generated/Clusters.js` (15 503 lines, cluster skeletons by ZAP that no part
of the node loads) are 31 225 of about 41 300. They hold no logic of a running
node and are left out; of the hand-written sources, what the models map is a
little under a half, and most of the rest is constants, templates of messages,
certificate conversion and printing.

## Plan

A composition of PASE with the message layer: `PaseSession`'s network as an
abstraction of `MessageLayer`'s exchanges, shown by refinement.
