----------------------------- MODULE NodeConfig -----------------------------
(***************************************************************************)
(* The configuration of a node and its life as a process: the start of     *)
(* app.ts (Node.init, PersistantStore.init and setDefaults, UdpServer      *)
(* start), the setters that the shell's config commands call, and what     *)
(* Discovery answers from it.  Several processes run on one machine; each  *)
(* keeps its files in ./.node<nodenum>, and each may be killed at any time *)
(* and started again.                                                      *)
(*                                                                         *)
(* A setter writes one or two files; every one of setDefaults is a step of *)
(* its own, so that a kill, or another process, can come between them.     *)
(* External: node-localstorage (a file per key, written before setItem     *)
(* returns) and the operating system's exclusive binding of UDP ports.     *)
(*                                                                         *)
(* A name such as Saved_NotNodeId, defined just before the operator it is  *)
(* named after, is that operator with a bug: the properties are tried out  *)
(* on it.                                                                  *)
(***************************************************************************)
EXTENDS Naturals, Sequences, FiniteSetsExt

CONSTANTS
    Procs,         \* process slots; a slot is used again after a kill
    Nums,          \* the node numbers in use
    Digits,        \* the values a hexadecimal string can stand for
    ManualPorts,   \* what the port command is given
    None,          \* an absent file, argument or value
    MaxLaunches,   \* bound on the processes started
    MaxSets        \* bound on the config commands

ASSUME NumsAssumption == Nums \subseteq Nat /\ 0 \in Nums
ASSUME PortsAssumption == ManualPorts \subseteq Nat
ASSUME BoundsAssumption == MaxLaunches \in Nat /\ MaxSets \in Nat

DEFAULT_PORT == 5540

\* The setters of hexadecimal values and of levels, and the rest.
HexField == {"nodeid", "fabricid", "encryptionKey"}
LevelField == {"logLevel", "traceLevel"}
Field == HexField \cup LevelField \cup {"nodenum", "ipPort", "daPrivateKey"}

\* A hexadecimal string: its value and how many digits it is written with.
Hex == [digits : Digits \cup {"default"}, len : Nat]

Width(f) == IF f = "encryptionKey" THEN 32 ELSE 16

Levels(f) == IF f = "logLevel" THEN {"info", "debug"} ELSE {"0", "1"}

FormatHex(v, width) == [v EXCEPT !.len = Max({v.len, width})]

VARIABLES
    disk,          \* the files of each directory
    mem,           \* the fields of each process's PersistantStore
    proc,          \* the rest of each process
    manual,        \* history: the port that a port command set in a directory
    launches, sets \* counters for the bounds

configVars == <<disk, mem, proc, manual, launches, sets>>

\* The order in which setDefaults() looks at the fields.
Order == <<"nodeid", "fabricid", "encryptionKey", "nodenum", "ipPort",
           "logLevel", "traceLevel", "daPrivateKey">>

\* stage: the field setDefaults() is at, one more when it is through.
\* arg: the command line's node number.  dir: _storageDir.
\* port: what the socket is bound, or to be bound, to.
\* target: Discovery's mdnsTarget.
\* History: touched, the fields set since the start; alone, no other process
\* has had this directory meanwhile; manual, the port that a port command of
\* an earlier process in this directory had set.
Process == [state : {"down", "init", "binding", "up"},
            stage : 1..(Len(Order) + 1), arg : Nums \cup {None}, dir : Nums,
            port : Nat \cup {None}, target : Seq(Hex) \cup {None},
            touched : SUBSET Field, alone : BOOLEAN,
            manual : Nat \cup {None}]

FieldValue(f) ==
    CASE f \in HexField -> {v \in Hex : v.len >= Width(f)}
      [] f \in LevelField -> Levels(f)
      [] f = "daPrivateKey" -> Digits \cup {"default"}
      [] OTHER -> Nat

\* null, which getItem() returns for a file that is not there, is no value.
ASSUME NoneAssumption ==
    None \notin Nat /\ \A f \in Field : None \notin FieldValue(f)

\* Fields and files of PersistantStore: hexadecimal values have at least the
\* width formatHex() pads to, levels are ones the logger and tracer accept,
\* and nothing ever writes the file 'udpPort' that init() reads.
TypeOK ==
    /\ \A d \in Nums :
           /\ DOMAIN disk[d] = Field \cup {"udpPort"}
           /\ disk[d]["udpPort"] = None
           /\ \A f \in Field : disk[d][f] \in FieldValue(f) \cup {None}
    /\ \A p \in Procs : \A f \in Field : mem[p][f] \in FieldValue(f) \cup {None}
    /\ \A p \in Procs : DOMAIN mem[p] = Field
    /\ proc \in [Procs -> Process]
    /\ manual \in [Nums -> Nat \cup {None}]
    /\ launches \in 0..MaxLaunches
    /\ sets \in 0..MaxSets

Down == [state |-> "down", stage |-> 1, arg |-> None, dir |-> 0, port |-> None,
         target |-> None, touched |-> {}, alone |-> TRUE, manual |-> None]

Init ==
    /\ disk = [d \in Nums |-> [f \in Field \cup {"udpPort"} |-> None]]
    /\ mem = [p \in Procs |-> [f \in Field |-> None]]
    /\ proc = [p \in Procs |-> Down]
    /\ manual = [d \in Nums |-> None]
    /\ launches = 0
    /\ sets = 0

Alive(p) == proc[p].state # "down"

-----------------------------------------------------------------------------
(* The setters of PersistantStore: the new fields and files *)

\* A value that a setter puts in memory and in the file of the same name.
\* DaPrivateKey has no file.
Assigned(m, f, v) == [m EXCEPT ![f] = v]
Saved_RawHex(files, f, v) ==
    IF f = "daPrivateKey" THEN files
    ELSE [files EXCEPT ![f] = IF f \in HexField THEN [v EXCEPT !.len = 1] ELSE v]
Saved_NotNodeId(files, f, v) ==
    IF f \in {"daPrivateKey", "nodeid"} THEN files ELSE [files EXCEPT ![f] = v]
Saved(files, f, v) ==
    IF f = "daPrivateKey" THEN files ELSE [files EXCEPT ![f] = v]

SetField(p, f, v) ==
    /\ mem' = [mem EXCEPT ![p] = Assigned(@, f, v)]
    /\ disk' = [disk EXCEPT ![proc[p].dir] = Saved(@, f, v)]

\* set NodeNum: the port follows the node number.
WithNodeNum(m, n) ==
    Assigned(Assigned(m, "nodenum", n), "ipPort", DEFAULT_PORT + n)
FilesWithNodeNum(files, n) ==
    Saved(Saved(files, "ipPort", DEFAULT_PORT + n), "nodenum", n)

SetNodeNum(p, n) ==
    /\ mem' = [mem EXCEPT ![p] = WithNodeNum(@, n)]
    /\ disk' = [disk EXCEPT ![proc[p].dir] = FilesWithNodeNum(@, n)]

-----------------------------------------------------------------------------
(* The start of a process *)

\* init(): what is read back.  The port is looked for in 'udpPort'.
Loaded_NodeIdLost(files) ==
    [f \in Field |-> CASE f = "ipPort" -> files["udpPort"]
                       [] f \in {"daPrivateKey", "nodeid"} -> None
                       [] OTHER -> files[f]]
Loaded(files) ==
    [f \in Field |-> CASE f = "ipPort" -> files["udpPort"]
                       [] f = "daPrivateKey" -> None
                       [] OTHER -> files[f]]

\* app.ts main() up to the reads of PersistantStore.init().
Launch(p, arg) ==
    LET dir == IF arg = None THEN 0 ELSE arg
        others == {q \in Procs \ {p} : Alive(q) /\ proc[q].dir = dir}
    IN  /\ launches < MaxLaunches
        /\ ~Alive(p)
        /\ mem' = [mem EXCEPT ![p] = Loaded(disk[dir])]
        /\ proc' = [q \in Procs |->
               CASE q = p -> [Down EXCEPT !.state = "init", !.arg = arg,
                                          !.dir = dir, !.alone = others = {},
                                          !.manual = manual[dir]]
                 [] q \in others -> [proc[q] EXCEPT !.alone = FALSE]
                 [] OTHER -> proc[q]]
        /\ launches' = launches + 1
        /\ UNCHANGED <<disk, manual, sets>>

\* What setDefaults() sets a missing field to: a random node id, constants.
Defaults(p, f) ==
    CASE f = "nodeid" -> [digits : Digits, len : {16}]
      [] f \in {"fabricid", "encryptionKey"} ->
             {[digits |-> "default", len |-> Width(f)]}
      [] f = "ipPort" -> {DEFAULT_PORT + mem[p]["nodenum"]}
      [] f = "logLevel" -> {"info"}
      [] f = "traceLevel" -> {"0"}
      [] OTHER -> {"default"}

\* setDefaults(), one field: a missing one is set, and a level always.
SetDefault(p) ==
    LET f == Order[proc[p].stage] IN
    /\ proc[p].state = "init"
    /\ proc[p].stage <= Len(Order)
    /\ \/ /\ mem[p][f] = None
          /\ f = "nodenum"
          /\ SetNodeNum(p, 0)
       \/ /\ mem[p][f] = None
          /\ f # "nodenum"
          /\ \E v \in Defaults(p, f) : SetField(p, f, v)
       \/ /\ mem[p][f] # None
          /\ f \in LevelField
          /\ SetField(p, f, mem[p][f])
       \/ /\ mem[p][f] # None
          /\ f \notin LevelField
          /\ UNCHANGED <<mem, disk>>
    /\ proc' = [proc EXCEPT ![p].stage = @ + 1]
    /\ UNCHANGED <<manual, launches, sets>>

\* The end of Node.init() and of main(): Discovery gets its target, the node
\* number of the command line replaces the stored one, and the server's bind()
\* is under way.
Start_BeforeNodeNum(p) ==
    LET arg == proc[p].arg IN
    /\ proc[p].state = "init"
    /\ proc[p].stage > Len(Order)
    /\ IF arg = None THEN UNCHANGED <<mem, disk>> ELSE SetNodeNum(p, arg)
    /\ proc' = [proc EXCEPT ![p].state = "binding",
                            ![p].target = <<mem[p]["fabricid"], mem[p]["nodeid"]>>,
                            ![p].port = mem[p]["ipPort"]]
    /\ UNCHANGED <<manual, launches, sets>>
Start(p) ==
    LET arg == proc[p].arg IN
    /\ proc[p].state = "init"
    /\ proc[p].stage > Len(Order)
    /\ IF arg = None THEN UNCHANGED <<mem, disk>> ELSE SetNodeNum(p, arg)
    /\ proc' = [proc EXCEPT ![p].state = "binding",
                            ![p].target = <<mem[p]["fabricid"], mem[p]["nodeid"]>>,
                            ![p].port = mem'[p]["ipPort"]]
    /\ UNCHANGED <<manual, launches, sets>>

PortTaken(p) ==
    \E q \in Procs \ {p} : proc[q].state = "up" /\ proc[q].port = proc[p].port

Listening(p) ==
    /\ proc[p].state = "binding"
    /\ ~PortTaken(p)
    /\ proc' = [proc EXCEPT ![p].state = "up"]
    /\ UNCHANGED <<disk, mem, manual, launches, sets>>

\* Only the files are left of a process.
Exit(p) ==
    /\ proc' = [proc EXCEPT ![p] = Down]
    /\ mem' = [mem EXCEPT ![p] = [f \in Field |-> None]]
    /\ UNCHANGED <<disk, manual, launches, sets>>

\* UdpServer.onError() emits an 'error' nobody listens to: the process ends.
BindFails(p) ==
    /\ proc[p].state = "binding"
    /\ PortTaken(p)
    /\ Exit(p)

Kill(p) ==
    /\ Alive(p)
    /\ Exit(p)

-----------------------------------------------------------------------------
(* The config commands; the shell takes none before main() has returned *)

CanSet(p) == proc[p].state \in {"binding", "up"} /\ sets < MaxSets

Touch(p, fields) == [proc EXCEPT ![p].touched = @ \cup fields]

\* nodeid, fabricid and key, with as many digits as the user cares to type.
DoHex(p, f, v) ==
    /\ CanSet(p)
    /\ SetField(p, f, FormatHex(v, Width(f)))
    /\ proc' = Touch(p, {f})
    /\ sets' = sets + 1
    /\ UNCHANGED <<manual, launches>>

\* log and trace: a level that the logger or the tracer refuses is replaced by
\* the current one.
DoLevel(p, f, v) ==
    /\ CanSet(p)
    /\ SetField(p, f, IF v \in Levels(f) THEN v ELSE mem[p][f])
    /\ proc' = Touch(p, {f})
    /\ sets' = sets + 1
    /\ UNCHANGED <<manual, launches>>

DoNodeNum(p, n) ==
    /\ CanSet(p)
    /\ SetNodeNum(p, n)
    /\ proc' = Touch(p, {"nodenum", "ipPort"})
    /\ manual' = [manual EXCEPT ![proc[p].dir] = None]
    /\ sets' = sets + 1
    /\ UNCHANGED launches

DoIpPort(p, v) ==
    /\ CanSet(p)
    /\ SetField(p, "ipPort", v)
    /\ proc' = Touch(p, {"ipPort"})
    /\ manual' = [manual EXCEPT ![proc[p].dir] = v]
    /\ sets' = sets + 1
    /\ UNCHANGED launches

DoDaPrivateKey(p, v) ==
    /\ CanSet(p)
    /\ SetField(p, "daPrivateKey", v)
    /\ proc' = Touch(p, {"daPrivateKey"})
    /\ sets' = sets + 1
    /\ UNCHANGED <<manual, launches>>

-----------------------------------------------------------------------------
(* Discovery.  A name is an instance, <<>> for none, and a domain. *)

Domain == {"_matter._tcp", "_matterc._udp"}

PTR(name, instance, domain) ==
    [name |-> name, type |-> "PTR", data |-> <<instance, domain>>]
SRV(instance, domain, port) ==
    [name |-> <<instance, domain>>, type |-> "SRV", port |-> port]
AAAA(instance) == [name |-> <<instance, "local">>, type |-> "AAAA"]

\* The port in the two answers is the one in the store when the query comes.
onOperationalDiscovery(p) ==
    LET target == proc[p].target IN
    [answers |-> {SRV(target, "_matter._tcp", mem[p]["ipPort"]), AAAA(target),
                  PTR(<<<<>>, "_matter._tcp">>, target, "_matter._tcp")},
     additionals |-> {}]

\* The instance is the same for every node.  The subtypes, in their order, are
\* one record here.
onCommissionableDiscovery(p) ==
    LET instance == <<[digits |-> "default", len |-> 16]>> IN
    [answers |-> {PTR(<<<<>>, "_services._dns-sd._udp">>, <<>>, "_matterc._udp"),
                  PTR(<<<<>>, "_sub._matterc._udp">>, instance, "_matterc._udp"),
                  PTR(<<<<>>, "_matterc._udp">>, instance, "_matterc._udp")},
     additionals |-> {SRV(instance, "_matterc._udp", mem[p]["ipPort"]),
                      AAAA(instance)}]

\* onQuery(), for a question that doMdns() asks with queryAll().
onQuery(p, domain) ==
    IF domain = "_matter._tcp" THEN onOperationalDiscovery(p)
                               ELSE onCommissionableDiscovery(p)

\* What the node that asked prints: the instance, and the port of whichever
\* SRV record there is.
onResponse(response) ==
    LET named == {r \in response.answers : \E d \in Domain : r.name = <<<<>>, d>>}
        services == {r \in response.answers \cup response.additionals : r.type = "SRV"}
    IN  [node |-> (CHOOSE r \in named : TRUE).data,
         port |-> (CHOOSE r \in services : TRUE).port]

-----------------------------------------------------------------------------
Next ==
    \E p \in Procs :
        \/ \E arg \in Nums \cup {None} : Launch(p, arg)
        \/ SetDefault(p)
        \/ Start(p)
        \/ Listening(p)
        \/ BindFails(p)
        \/ Kill(p)
        \/ \E f \in HexField, v \in [digits : Digits, len : {1}] : DoHex(p, f, v)
        \/ \E f \in LevelField, v \in {"debug", "1", "bogus"} : DoLevel(p, f, v)
        \/ \E n \in Nums : DoNodeNum(p, n)
        \/ \E v \in ManualPorts : DoIpPort(p, v)
        \/ \E v \in Digits : DoDaPrivateKey(p, v)

Spec == Init /\ [][Next]_configVars

-----------------------------------------------------------------------------
(* Properties *)

\* Once a setter has run, what a kill leaves on disk is what the process was
\* using: from setDefaults() on, every persistent field that is behind the
\* stage reached equals its file, as long as no second process has had the
\* directory.  So a restart comes back with the same identity and settings,
\* however the earlier starts were cut short.
ConfigDurable ==
    \A p \in Procs : \A i \in 1..Len(Order) :
        (/\ Alive(p)
         /\ proc[p].alone
         /\ i < proc[p].stage
         /\ Order[i] \notin {"ipPort", "daPrivateKey"})
            => /\ mem[p][Order[i]] = disk[proc[p].dir][Order[i]]
               /\ mem[p][Order[i]] # None

\* A start completes what an earlier one left, and changes nothing that was
\* saved: init() and setDefaults(), cut short and begun again any number of
\* times, and the end of main() keep the node id that was drawn at random and
\* what the config commands set, in every file.  Only a command replaces a
\* saved value, and the command line's node number the stored one.  The port's
\* file is left out: no start reads it back.  So is a process that shares its
\* directory, which may write what it read long ago.
StartKeepsSettings ==
    [][\A d \in Nums, f \in Field \ {"ipPort"} :
           disk[d][f] \notin {None, disk'[d][f]} =>
               \/ sets' # sets
               \/ f = "nodenum" /\ disk'[d][f] = d
               \/ \E p \in Procs : Alive(p) /\ proc[p].dir = d /\ ~proc[p].alone
      ]_configVars

\* The mdns command of another node finds a node that listens where it is: as
\* long as its identity and port have not been set since its start, the port
\* that is printed, for either service, is the one its socket is bound to, and
\* the operational instance is its own fabric and node id.
AdvertisesItself ==
    \A p \in Procs : \A domain \in Domain :
        LET found == onResponse(onQuery(p, domain)) IN
        proc[p].state = "up" =>
            /\ found.node[2] = domain
            /\ "ipPort" \notin proc[p].touched => found.port = proc[p].port
            /\ (/\ domain = "_matter._tcp"
                /\ proc[p].touched \cap {"nodeid", "fabricid"} = {})
                  => found.node[1] = <<mem[p]["fabricid"], mem[p]["nodeid"]>>

\* README "Running multiple instances": nodes started with different numbers
\* use different ports.  A start fails on a taken port only when the two
\* processes were given the same number, or one of them none.
NumberedNodesCoexist ==
    [][\A p, q \in Procs :
           (BindFails(p) /\ q # p /\ proc[q].state = "up"
                         /\ proc[q].port = proc[p].port)
               => proc[p].arg = proc[q].arg \/ None \in {proc[p].arg, proc[q].arg}
      ]_configVars

\* README "Run": a port that was configured by hand before the node was started
\* is the port it binds.
ManualPortUsed ==
    \A p \in Procs :
        (proc[p].state = "up" /\ proc[p].alone /\ proc[p].manual # None)
            => proc[p].port = proc[p].manual
=============================================================================
