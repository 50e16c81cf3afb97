-------------------------- MODULE NodeConfigProofs --------------------------
(***************************************************************************)
(* Proofs about NodeConfig for any number of processes, node numbers,      *)
(* starts, kills and config commands.                                      *)
(***************************************************************************)
EXTENDS NodeConfig, TLAPS

-----------------------------------------------------------------------------
(* The fields *)

\* Everything that a field or a file may hold.
AnyValue == Hex \cup {"info", "debug", "0", "1", "default"} \cup Digits
                \cup Nat \cup {None}

\* The order of setDefaults() goes through every field once.
LEMMA OrderFacts ==
    /\ Len(Order) = 8
    /\ \A i \in 1..8 : Order[i] \in Field
    /\ \A i, j \in 1..8 : Order[i] = Order[j] => i = j
    /\ Order[1] = "nodeid" /\ Order[2] = "fabricid" /\ Order[4] = "nodenum"
BY DEF Order, Field, HexField, LevelField

\* The values of a field are values, and null is none of them.
LEMMA FieldValues ==
    ASSUME NEW f \in Field
    PROVE  FieldValue(f) \subseteq AnyValue /\ None \notin FieldValue(f)
<1>1. None \notin FieldValue(f)
  BY NoneAssumption
<1>2. FieldValue(f) \subseteq AnyValue
  BY DEF FieldValue, AnyValue, Field, HexField, LevelField, Levels
<1> QED
  BY <1>1, <1>2

\* The fields by name.
LEMMA FieldValueOf ==
    /\ \A f \in HexField : FieldValue(f) = {v \in Hex : v.len >= Width(f)}
    /\ \A f \in LevelField : FieldValue(f) = Levels(f)
    /\ FieldValue("daPrivateKey") = Digits \cup {"default"}
    /\ FieldValue("nodenum") = Nat /\ FieldValue("ipPort") = Nat
BY DEF FieldValue, HexField, LevelField

\* formatHex() pads to the width and never shortens.
LEMMA FormatHexWide ==
    ASSUME NEW v \in Hex, NEW width \in Nat
    PROVE  /\ FormatHex(v, width) \in Hex
           /\ FormatHex(v, width).len >= width
<1>1. v.len \in Nat
  BY DEF Hex
<1>2. Max({v.len, width}) \in {v.len, width} /\ Max({v.len, width}) >= width
  <2>1. \E x \in {v.len, width} : \A y \in {v.len, width} : x >= y
    <3>1. CASE v.len >= width
      BY <1>1, <3>1
    <3>2. CASE ~(v.len >= width)
      BY <1>1, <3>2
    <3> QED
      BY <3>1, <3>2
  <2> QED
    BY <2>1 DEF Max
<1> QED
  BY <1>1, <1>2 DEF FormatHex, Hex

-----------------------------------------------------------------------------
(***************************************************************************)
(* The inductive invariant.  Progress: what setDefaults() has passed is    *)
(* set, and a process that has come to bind() has passed everything.       *)
(* Separate: two processes in one directory know that they are not alone.  *)
(* Mirror: a process that is alone uses what is on disk, from its first    *)
(* read on.  Bound: what a start derived from the fields still agrees with *)
(* them, unless a command has set them since.                              *)
(***************************************************************************)
Stored ==
    /\ mem \in [Procs -> [Field -> AnyValue]]
    /\ disk \in [Nums -> [Field \cup {"udpPort"} -> AnyValue]]

Progress ==
    \A p \in Procs :
        /\ \A i \in 1..8 : i < proc[p].stage => mem[p][Order[i]] # None
        /\ proc[p].state \in {"binding", "up"} => proc[p].stage = 9

Separate ==
    \A p, q \in Procs :
        (p # q /\ Alive(p) /\ Alive(q) /\ proc[p].dir = proc[q].dir)
            => ~proc[p].alone

Mirror ==
    \A p \in Procs : Alive(p) /\ proc[p].alone =>
        \A f \in Field \ {"ipPort", "daPrivateKey"} :
            mem[p][f] = disk[proc[p].dir][f]

Bound ==
    \A p \in Procs : proc[p].state \in {"binding", "up"} =>
        /\ "ipPort" \notin proc[p].touched => mem[p]["ipPort"] = proc[p].port
        /\ proc[p].touched \cap {"nodeid", "fabricid"} = {} =>
               proc[p].target = <<mem[p]["fabricid"], mem[p]["nodeid"]>>
        /\ proc[p].target \in Hex \X Hex
        /\ proc[p].arg # None => proc[p].port = DEFAULT_PORT + proc[p].arg

ConfigInv ==
    TypeOK /\ Stored /\ Progress /\ Separate /\ Mirror /\ Bound

-----------------------------------------------------------------------------
(* What a setter does, field by field *)

\* The process p puts the values w of some fields into memory and files.
Writes(p, w) ==
    /\ mem' \in [Procs -> [Field -> AnyValue]]
    /\ disk' \in [Nums -> [Field \cup {"udpPort"} -> AnyValue]]
    /\ \A q \in Procs, g \in Field :
           mem'[q][g] = IF q = p /\ g \in DOMAIN w THEN w[g] ELSE mem[q][g]
    /\ \A d \in Nums, g \in Field \cup {"udpPort"} :
           disk'[d][g] = IF d = proc[p].dir /\ g \in DOMAIN w \ {"daPrivateKey"}
                         THEN w[g] ELSE disk[d][g]

\* Values that setters are called with.
Settable(w) ==
    DOMAIN w \subseteq Field /\ \A g \in DOMAIN w : w[g] \in FieldValue(g)

\* A setter of one field writes this field.
LEMMA SetFieldWrites ==
    ASSUME Stored, proc \in [Procs -> Process], NEW p \in Procs,
           NEW f \in Field, NEW v \in FieldValue(f), SetField(p, f, v)
    PROVE  Writes(p, [g \in {f} |-> v]) /\ Settable([g \in {f} |-> v])
<1> DEFINE w == [g \in {f} |-> v]
<1>1. v \in AnyValue /\ proc[p].dir \in Nums
  BY FieldValues DEF Process
<1>2. mem' = [mem EXCEPT ![p] = [mem[p] EXCEPT ![f] = v]]
  BY DEF SetField, Assigned, Stored
<1>3. disk' = IF f = "daPrivateKey" THEN disk
              ELSE [disk EXCEPT ![proc[p].dir] =
                      [disk[proc[p].dir] EXCEPT ![f] = v]]
  BY <1>1 DEF SetField, Saved, Stored
<1>4. Settable(w)
  BY DEF Settable
<1>5. /\ mem' \in [Procs -> [Field -> AnyValue]]
      /\ \A q \in Procs, g \in Field :
           mem'[q][g] = IF q = p /\ g = f THEN v ELSE mem[q][g]
  BY <1>1, <1>2 DEF Stored
<1>6. /\ disk' \in [Nums -> [Field \cup {"udpPort"} -> AnyValue]]
      /\ \A d \in Nums, g \in Field \cup {"udpPort"} :
           disk'[d][g] = IF d = proc[p].dir /\ g = f /\ f # "daPrivateKey"
                         THEN v ELSE disk[d][g]
  BY <1>1, <1>3 DEF Stored
<1>7. /\ DOMAIN w = {f}
      /\ w[f] = v
  OBVIOUS
<1>8. Writes(p, w)
  BY <1>5, <1>6, <1>7 DEF Writes
<1> QED
  BY <1>4, <1>8

\* The setter of the node number writes the port as well.
LEMMA SetNodeNumWrites ==
    ASSUME Stored, proc \in [Procs -> Process], NEW p \in Procs,
           NEW n \in Nat, SetNodeNum(p, n)
    PROVE  LET w == [g \in {"nodenum", "ipPort"} |->
                        IF g = "nodenum" THEN n ELSE DEFAULT_PORT + n]
           IN  Writes(p, w) /\ Settable(w)
<1> DEFINE w == [g \in {"nodenum", "ipPort"} |->
                    IF g = "nodenum" THEN n ELSE DEFAULT_PORT + n]
           port == DEFAULT_PORT + n
           dir == proc[p].dir
<1>1. /\ n \in AnyValue /\ port \in AnyValue /\ port \in Nat
      /\ dir \in Nums
      /\ "nodenum" \in Field /\ "ipPort" \in Field
  BY DEF AnyValue, DEFAULT_PORT, Process, Field
<1>2. mem' = [mem EXCEPT ![p] =
                [[mem[p] EXCEPT !["nodenum"] = n] EXCEPT !["ipPort"] = port]]
  BY DEF SetNodeNum, WithNodeNum, Assigned, Stored
<1>3. disk' = [disk EXCEPT ![dir] =
                [[disk[dir] EXCEPT !["ipPort"] = port] EXCEPT !["nodenum"] = n]]
  BY <1>1 DEF SetNodeNum, FilesWithNodeNum, Saved, Stored
<1>4. /\ DOMAIN w = {"nodenum", "ipPort"}
      /\ w["nodenum"] = n /\ w["ipPort"] = port
  OBVIOUS
<1> HIDE DEF port, w, dir
<1>5. /\ mem' \in [Procs -> [Field -> AnyValue]]
      /\ \A q \in Procs, g \in Field :
           mem'[q][g] = IF q = p /\ g = "nodenum" THEN n
                        ELSE IF q = p /\ g = "ipPort" THEN port ELSE mem[q][g]
  BY <1>1, <1>2 DEF Stored
<1>6. /\ disk' \in [Nums -> [Field \cup {"udpPort"} -> AnyValue]]
      /\ \A d \in Nums, g \in Field \cup {"udpPort"} :
           disk'[d][g] = IF d = dir /\ g = "nodenum" THEN n
                         ELSE IF d = dir /\ g = "ipPort" THEN port
                         ELSE disk[d][g]
  BY <1>1, <1>3 DEF Stored
<1>7. Settable(w)
  BY <1>1, <1>4, FieldValueOf DEF Settable
<1>8. Writes(p, w)
  BY <1>4, <1>5, <1>6 DEF Writes, dir
<1> QED
  BY <1>7, <1>8 DEF w

\* The fields and files are well typed.
FilesTyped ==
    /\ \A d \in Nums :
           /\ DOMAIN disk[d] = Field \cup {"udpPort"}
           /\ disk[d]["udpPort"] = None
           /\ \A f \in Field : disk[d][f] \in FieldValue(f) \cup {None}
    /\ \A p \in Procs : \A f \in Field : mem[p][f] \in FieldValue(f) \cup {None}
    /\ \A p \in Procs : DOMAIN mem[p] = Field

\* A step that writes nothing is one that writes no field.
LEMMA NothingWritten ==
    ASSUME Stored, NEW p \in Procs, UNCHANGED <<mem, disk>>
    PROVE  Writes(p, [g \in {} |-> None]) /\ Settable([g \in {} |-> None])
BY DEF Stored, Writes, Settable

\* A write of one process: memory and files stay typed and set, other
\* processes that are alone have other directories, and the writing process
\* writes the same to both.
LEMMA WriteStep ==
    ASSUME ConfigInv, NEW p \in Procs, NEW w, Writes(p, w), Settable(w),
           Alive(p),
           \A q \in Procs : /\ proc'[q].dir = proc[q].dir
                            /\ proc'[q].alone = proc[q].alone
                            /\ Alive(q)' = Alive(q)
    PROVE  /\ Stored' /\ FilesTyped' /\ Separate' /\ Mirror'
           /\ \A q \in Procs : \A f \in Field :
                 mem[q][f] # None => mem'[q][f] # None
           /\ \A q \in Procs \ {p} : mem'[q] = mem[q]
           /\ \A f \in Field : f \in DOMAIN w => mem'[p][f] = w[f] /\ w[f] # None
           /\ \A f \in Field : f \notin DOMAIN w => mem'[p][f] = mem[p][f]
<1>0. "udpPort" \notin Field
  BY DEF Field, HexField, LevelField
<1>1. Stored'
  BY DEF Writes, Stored
<1>2. FilesTyped'
  <2>1. ASSUME NEW d \in Nums
        PROVE  /\ DOMAIN disk'[d] = Field \cup {"udpPort"}
               /\ disk'[d]["udpPort"] = None
               /\ \A f \in Field : disk'[d][f] \in FieldValue(f) \cup {None}
    <3>1. DOMAIN disk'[d] = Field \cup {"udpPort"}
      BY DEF Writes
    <3>2. disk'[d]["udpPort"] = disk[d]["udpPort"]
      BY <1>0 DEF Writes, Settable
    <3>3. disk[d]["udpPort"] = None
      BY DEF ConfigInv, TypeOK
    <3>4. ASSUME NEW f \in Field
          PROVE  disk'[d][f] \in FieldValue(f) \cup {None}
      <4>1. disk[d][f] \in FieldValue(f) \cup {None}
        BY DEF ConfigInv, TypeOK
      <4> QED
        BY <4>1 DEF Writes, Settable
    <3> QED
      BY <3>1, <3>2, <3>3, <3>4
  <2>2. ASSUME NEW q \in Procs, NEW f \in Field
        PROVE  mem'[q][f] \in FieldValue(f) \cup {None}
    <3>1. mem[q][f] \in FieldValue(f) \cup {None}
      BY DEF ConfigInv, TypeOK
    <3> QED
      BY <3>1 DEF Writes, Settable
  <2>3. ASSUME NEW q \in Procs
        PROVE  DOMAIN mem'[q] = Field
    BY DEF Writes
  <2> QED
    BY <2>1, <2>2, <2>3 DEF FilesTyped
<1>3. Separate'
  BY DEF ConfigInv, Separate
<1>4. Mirror'
  <2> SUFFICES ASSUME NEW q \in Procs, Alive(q)', proc'[q].alone,
                      NEW f \in Field \ {"ipPort", "daPrivateKey"}
               PROVE  mem'[q][f] = disk'[proc'[q].dir][f]
    BY DEF Mirror
  <2>1. /\ Alive(q) /\ proc[q].alone /\ proc'[q].dir = proc[q].dir
        /\ proc[q].dir \in Nums
        /\ mem[q][f] = disk[proc[q].dir][f]
    BY DEF ConfigInv, Mirror, TypeOK, Process
  <2>2. q # p => proc[q].dir # proc[p].dir
    BY <2>1 DEF ConfigInv, Separate
  <2> QED
    BY <2>1, <2>2 DEF Writes
<1>5. \A q \in Procs : \A f \in Field : mem[q][f] # None => mem'[q][f] # None
  BY FieldValues DEF Writes, Settable
<1>6. ASSUME NEW q \in Procs \ {p}
      PROVE  mem'[q] = mem[q]
  <2>1. \A f \in Field : mem'[q][f] = mem[q][f]
    BY DEF Writes
  <2>2. mem'[q] \in [Field -> AnyValue] /\ mem[q] \in [Field -> AnyValue]
    BY DEF Writes, ConfigInv, Stored
  <2> QED
    BY <2>1, <2>2
<1>7. /\ \A f \in Field : f \in DOMAIN w => mem'[p][f] = w[f] /\ w[f] # None
      /\ \A f \in Field : f \notin DOMAIN w => mem'[p][f] = mem[p][f]
  BY FieldValues DEF Writes, Settable
<1> QED
  BY <1>1, <1>2, <1>3, <1>4, <1>5, <1>6, <1>7

\* TypeOK in its parts.
LEMMA TypeParts ==
    TypeOK <=> /\ FilesTyped
               /\ proc \in [Procs -> Process]
               /\ manual \in [Nums -> Nat \cup {None}]
               /\ launches \in 0..MaxLaunches
               /\ sets \in 0..MaxSets
BY DEF TypeOK, FilesTyped

\* What a config command changes of a process record, which keeps its type.
LEMMA TouchedProcess ==
    ASSUME NEW r \in Process, NEW t \in SUBSET Field
    PROVE  LET s == [r EXCEPT !.touched = t] IN
           /\ s \in Process
           /\ s.dir = r.dir /\ s.alone = r.alone /\ s.state = r.state
           /\ s.stage = r.stage /\ s.arg = r.arg /\ s.port = r.port
           /\ s.target = r.target /\ s.touched = t
BY DEF Process

\* The next field of setDefaults().
LEMMA StagedProcess ==
    ASSUME NEW r \in Process, NEW n \in 1..(Len(Order) + 1)
    PROVE  LET s == [r EXCEPT !.stage = n] IN
           /\ s \in Process
           /\ s.dir = r.dir /\ s.alone = r.alone /\ s.state = r.state
           /\ s.stage = n
BY DEF Process

\* The socket is bound.
LEMMA ListeningProcess ==
    ASSUME NEW r \in Process
    PROVE  LET s == [r EXCEPT !.state = "up"] IN
           /\ s \in Process
           /\ s.dir = r.dir /\ s.alone = r.alone /\ s.stage = r.stage
           /\ s.arg = r.arg /\ s.port = r.port /\ s.target = r.target
           /\ s.touched = r.touched /\ s.state = "up"
BY DEF Process

\* Another process has come to the directory.
LEMMA NotAloneProcess ==
    ASSUME NEW r \in Process
    PROVE  LET s == [r EXCEPT !.alone = FALSE] IN
           /\ s \in Process
           /\ s.dir = r.dir /\ s.alone = FALSE /\ s.stage = r.stage
           /\ s.arg = r.arg /\ s.port = r.port /\ s.target = r.target
           /\ s.touched = r.touched /\ s.state = r.state
BY DEF Process

\* A process that is down.
LEMMA DownProcess ==
    Down \in Process /\ Down.state = "down" /\ Down.stage = 1
<1>1. 1 \in 1..(Len(Order) + 1)
  BY OrderFacts
<1> QED
  BY <1>1, NumsAssumption DEF Process, Down

\* A config command writes fields and remembers that they were touched.
LEMMA CommandStep ==
    ASSUME ConfigInv, NEW p \in Procs, NEW w, Writes(p, w), Settable(w),
           CanSet(p), proc' = Touch(p, DOMAIN w),
           manual' \in [Nums -> Nat \cup {None}],
           sets' = sets + 1, launches' = launches
    PROVE  ConfigInv'
<1>1. proc \in [Procs -> Process] /\ sets \in 0..MaxSets
      /\ launches \in 0..MaxLaunches
  BY DEF ConfigInv, TypeOK
<1>2. DOMAIN w \subseteq Field
  BY DEF Settable
<1>3. proc' = [proc EXCEPT ![p] =
                 [proc[p] EXCEPT !.touched = proc[p].touched \cup DOMAIN w]]
  BY <1>1 DEF Touch
<1>4. /\ proc[p] \in Process /\ proc[p].touched \cup DOMAIN w \in SUBSET Field
      /\ proc'[p] = [proc[p] EXCEPT !.touched = proc[p].touched \cup DOMAIN w]
      /\ \A q \in Procs \ {p} : proc'[q] = proc[q]
  <2>1. proc[p].touched \in SUBSET Field
    BY <1>1 DEF Process
  <2> QED
    BY <1>1, <1>2, <1>3, <2>1
<1>5. /\ proc' \in [Procs -> Process]
      /\ \A q \in Procs :
        /\ proc'[q].dir = proc[q].dir
        /\ proc'[q].alone = proc[q].alone
        /\ proc'[q].state = proc[q].state
        /\ proc'[q].stage = proc[q].stage
        /\ proc'[q].arg = proc[q].arg
        /\ proc'[q].port = proc[q].port
        /\ proc'[q].target = proc[q].target
        /\ proc'[q].touched = IF q = p THEN proc[q].touched \cup DOMAIN w
                              ELSE proc[q].touched
  <2> DEFINE t == proc[p].touched \cup DOMAIN w
             s == [proc[p] EXCEPT !.touched = t]
  <2>1. /\ s \in Process
        /\ s.dir = proc[p].dir /\ s.alone = proc[p].alone
        /\ s.state = proc[p].state
        /\ s.stage = proc[p].stage /\ s.arg = proc[p].arg
        /\ s.port = proc[p].port
        /\ s.target = proc[p].target /\ s.touched = t
    BY <1>4, TouchedProcess
  <2>2. proc'[p] = s /\ proc' = [proc EXCEPT ![p] = s]
    BY <1>3, <1>4
  <2> HIDE DEF s
  <2> QED
    BY <1>1, <1>4, <2>1, <2>2
<1>6. Alive(p) /\ \A q \in Procs : Alive(q)' = Alive(q)
  BY <1>5 DEF Alive, CanSet
<1>7. /\ Stored' /\ FilesTyped' /\ Separate' /\ Mirror'
      /\ \A q \in Procs : \A f \in Field :
            mem[q][f] # None => mem'[q][f] # None
      /\ \A q \in Procs \ {p} : mem'[q] = mem[q]
      /\ \A f \in Field : f \notin DOMAIN w => mem'[p][f] = mem[p][f]
  BY <1>5, <1>6, WriteStep
<1>8. sets' \in 0..MaxSets /\ launches' \in 0..MaxLaunches
  BY <1>1, BoundsAssumption DEF CanSet
<1>9. TypeOK'
  BY <1>5, <1>7, <1>8 DEF TypeOK, FilesTyped
<1>10. Progress'
  BY <1>5, <1>7, OrderFacts DEF ConfigInv, Progress
<1>11. Bound'
  <2> SUFFICES ASSUME NEW q \in Procs, proc'[q].state \in {"binding", "up"}
               PROVE  /\ "ipPort" \notin proc'[q].touched =>
                            mem'[q]["ipPort"] = proc'[q].port
                      /\ proc'[q].touched \cap {"nodeid", "fabricid"} = {} =>
                            proc'[q].target = <<mem'[q]["fabricid"], mem'[q]["nodeid"]>>
                      /\ proc'[q].target \in Hex \X Hex
                      /\ proc'[q].arg # None =>
                            proc'[q].port = DEFAULT_PORT + proc'[q].arg
    BY DEF Bound
  <2>1. /\ "ipPort" \notin proc[q].touched => mem[q]["ipPort"] = proc[q].port
        /\ proc[q].touched \cap {"nodeid", "fabricid"} = {} =>
               proc[q].target = <<mem[q]["fabricid"], mem[q]["nodeid"]>>
        /\ proc[q].target \in Hex \X Hex
        /\ proc[q].arg # None => proc[q].port = DEFAULT_PORT + proc[q].arg
    BY <1>5 DEF ConfigInv, Bound
  <2>2. /\ "ipPort" \notin proc'[q].touched => mem'[q]["ipPort"] = mem[q]["ipPort"]
        /\ proc'[q].touched \cap {"nodeid", "fabricid"} = {} =>
              /\ mem'[q]["nodeid"] = mem[q]["nodeid"]
              /\ mem'[q]["fabricid"] = mem[q]["fabricid"]
        /\ "ipPort" \notin proc'[q].touched => "ipPort" \notin proc[q].touched
        /\ proc'[q].touched \cap {"nodeid", "fabricid"} = {} =>
              proc[q].touched \cap {"nodeid", "fabricid"} = {}
    BY <1>5, <1>7 DEF Field, HexField
  <2> QED
    BY <1>5, <2>1, <2>2
<1> QED
  BY <1>7, <1>9, <1>10, <1>11 DEF ConfigInv

\* The five config commands.
LEMMA CommandsStep ==
    ASSUME ConfigInv, NEW p \in Procs,
           \/ \E f \in HexField, v \in [digits : Digits, len : {1}] : DoHex(p, f, v)
           \/ \E f \in LevelField, v \in {"debug", "1", "bogus"} : DoLevel(p, f, v)
           \/ \E n \in Nums : DoNodeNum(p, n)
           \/ \E v \in ManualPorts : DoIpPort(p, v)
           \/ \E v \in Digits : DoDaPrivateKey(p, v)
    PROVE  ConfigInv'
<1> USE NumsAssumption, PortsAssumption
<1>0. /\ Stored /\ proc \in [Procs -> Process]
      /\ manual \in [Nums -> Nat \cup {None}] /\ proc[p].dir \in Nums
  BY DEF ConfigInv, TypeOK, Process
<1>1. ASSUME NEW f \in HexField, NEW v \in [digits : Digits, len : {1}],
             DoHex(p, f, v)
      PROVE  ConfigInv'
  <2>1. f \in Field /\ v \in Hex /\ Width(f) \in Nat
    BY DEF Field, Hex, Width
  <2>2. FormatHex(v, Width(f)) \in FieldValue(f)
    BY <2>1, FormatHexWide, FieldValueOf
  <2> DEFINE w == [g \in {f} |-> FormatHex(v, Width(f))]
  <2>3. Writes(p, w) /\ Settable(w)
    BY <1>0, <1>1, <2>1, <2>2, SetFieldWrites DEF DoHex
  <2>4. DOMAIN w = {f}
    OBVIOUS
  <2> HIDE DEF w
  <2> QED
    BY <1>0, <1>1, <2>3, <2>4, CommandStep DEF DoHex
<1>2. ASSUME NEW f \in LevelField, NEW v \in {"debug", "1", "bogus"},
             DoLevel(p, f, v)
      PROVE  ConfigInv'
  <2>1. f \in Field
    BY DEF Field
  <2>2. mem[p][f] \in FieldValue(f) \cup {None} /\ proc[p].stage = 9
    BY <1>2, <2>1 DEF ConfigInv, TypeOK, Progress, DoLevel, CanSet
  <2>3. mem[p][f] # None
    <3>1. \E i \in 1..8 : Order[i] = f
      <4>1. Order[6] = "logLevel" /\ Order[7] = "traceLevel"
        BY DEF Order
      <4> QED
        BY <4>1 DEF LevelField
    <3> QED
      BY <2>2, <3>1 DEF ConfigInv, Progress
  <2> DEFINE x == IF v \in Levels(f) THEN v ELSE mem[p][f]
             w == [g \in {f} |-> x]
  <2>4. x \in FieldValue(f)
    BY <2>2, <2>3, FieldValueOf
  <2>5. SetField(p, f, x)
    BY <1>2 DEF DoLevel
  <2> HIDE DEF x
  <2>6. Writes(p, w) /\ Settable(w)
    BY <1>0, <2>1, <2>4, <2>5, SetFieldWrites
  <2>7. DOMAIN w = {f}
    OBVIOUS
  <2> HIDE DEF w
  <2> QED
    BY <1>0, <1>2, <2>6, <2>7, CommandStep DEF DoLevel
<1>3. ASSUME NEW n \in Nums, DoNodeNum(p, n)
      PROVE  ConfigInv'
  <2> DEFINE w == [g \in {"nodenum", "ipPort"} |->
                      IF g = "nodenum" THEN n ELSE DEFAULT_PORT + n]
  <2>1. Writes(p, w) /\ Settable(w)
    BY <1>0, <1>3, SetNodeNumWrites DEF DoNodeNum
  <2>2. DOMAIN w = {"nodenum", "ipPort"}
    OBVIOUS
  <2>3. manual' \in [Nums -> Nat \cup {None}]
    BY <1>0, <1>3 DEF DoNodeNum
  <2> HIDE DEF w
  <2> QED
    BY <1>3, <2>1, <2>2, <2>3, CommandStep DEF DoNodeNum
<1>4. ASSUME NEW v \in ManualPorts, DoIpPort(p, v)
      PROVE  ConfigInv'
  <2> DEFINE w == [g \in {"ipPort"} |-> v]
  <2>0. "ipPort" \in Field /\ v \in FieldValue("ipPort")
    BY FieldValueOf DEF Field
  <2>1. Writes(p, w) /\ Settable(w)
    BY <1>0, <1>4, <2>0, SetFieldWrites DEF DoIpPort
  <2>2. DOMAIN w = {"ipPort"}
    OBVIOUS
  <2>3. manual' \in [Nums -> Nat \cup {None}]
    BY <1>0, <1>4 DEF DoIpPort
  <2> HIDE DEF w
  <2> QED
    BY <1>4, <2>1, <2>2, <2>3, CommandStep DEF DoIpPort
<1>5. ASSUME NEW v \in Digits, DoDaPrivateKey(p, v)
      PROVE  ConfigInv'
  <2> DEFINE w == [g \in {"daPrivateKey"} |-> v]
  <2>0. "daPrivateKey" \in Field /\ v \in FieldValue("daPrivateKey")
    BY FieldValueOf DEF Field
  <2>1. Writes(p, w) /\ Settable(w)
    BY <1>0, <1>5, <2>0, SetFieldWrites DEF DoDaPrivateKey
  <2>2. DOMAIN w = {"daPrivateKey"}
    OBVIOUS
  <2> HIDE DEF w
  <2> QED
    BY <1>0, <1>5, <2>1, <2>2, CommandStep DEF DoDaPrivateKey
<1> QED
  BY <1>1, <1>2, <1>3, <1>4, <1>5

-----------------------------------------------------------------------------
(* The start and the end of a process *)

\* The defaults are values of their fields.
LEMMA DefaultsTyped ==
    ASSUME ConfigInv, NEW p \in Procs, proc[p].stage \in 1..8,
           mem[p][Order[proc[p].stage]] = None,
           Order[proc[p].stage] # "nodenum",
           NEW v \in Defaults(p, Order[proc[p].stage])
    PROVE  v \in FieldValue(Order[proc[p].stage])
<1> DEFINE f == Order[proc[p].stage]
<1>1. f \in Field
  BY OrderFacts
<1>2. CASE f = "nodeid"
  <2>1. v \in [digits : Digits, len : {16}]
    BY <1>2 DEF Defaults
  <2>2. v \in Hex /\ v.len >= Width(f)
    BY <1>2, <2>1 DEF Hex, Width
  <2> QED
    BY <1>2, <2>2, FieldValueOf DEF HexField
<1>3. CASE f \in {"fabricid", "encryptionKey"}
  <2>1. v = [digits |-> "default", len |-> Width(f)]
    BY <1>3 DEF Defaults
  <2>2. v \in Hex /\ v.len >= Width(f)
    BY <2>1 DEF Hex, Width
  <2> QED
    BY <1>3, <2>2, FieldValueOf DEF HexField
<1>4. CASE f = "ipPort"
  <2>1. proc[p].stage = 5 /\ Order[4] = "nodenum"
    <3>1. Order[5] = "ipPort" /\ Order[4] = "nodenum"
      BY DEF Order
    <3> QED
      BY <1>4, <3>1, OrderFacts
  <2>2. mem[p]["nodenum"] # None
    BY <2>1 DEF ConfigInv, Progress
  <2>3. mem[p]["nodenum"] \in Nat
    BY <2>2, FieldValueOf DEF ConfigInv, TypeOK, Field
  <2>4. v = DEFAULT_PORT + mem[p]["nodenum"]
    BY <1>4 DEF Defaults
  <2> QED
    BY <1>4, <2>3, <2>4, FieldValueOf DEF DEFAULT_PORT
<1>5. CASE f \in LevelField
  BY <1>5, FieldValueOf DEF Defaults, LevelField, Levels
<1>6. CASE f = "daPrivateKey"
  BY <1>6, FieldValueOf DEF Defaults
<1> QED
  BY <1>1, <1>2, <1>3, <1>4, <1>5, <1>6 DEF Field, HexField

\* One field of setDefaults(): whatever is done, the field is set afterwards.
LEMMA SetDefaultStep ==
    ASSUME ConfigInv, NEW p \in Procs, SetDefault(p)
    PROVE  ConfigInv'
<1> DEFINE n == proc[p].stage
           f == Order[n]
           s == [proc[p] EXCEPT !.stage = n + 1]
<1>1. /\ Stored /\ proc \in [Procs -> Process] /\ proc[p] \in Process
      /\ manual \in [Nums -> Nat \cup {None}]
      /\ launches \in 0..MaxLaunches /\ sets \in 0..MaxSets
  BY DEF ConfigInv, TypeOK
<1>2. n \in 1..8 /\ proc[p].state = "init"
  <2>1. n \in 1..(Len(Order) + 1) /\ n <= Len(Order) /\ proc[p].state = "init"
    BY <1>1 DEF Process, SetDefault
  <2> QED
    BY <2>1, OrderFacts
<1>3. f \in Field /\ n + 1 \in 1..(Len(Order) + 1)
  BY <1>2, OrderFacts
<1>4. /\ s \in Process
      /\ s.dir = proc[p].dir /\ s.alone = proc[p].alone
      /\ s.state = proc[p].state /\ s.stage = n + 1
  BY <1>1, <1>3, StagedProcess
<1>5. proc' = [proc EXCEPT ![p] = s]
  BY <1>1 DEF SetDefault
<1> HIDE DEF s
<1>6. /\ proc' \in [Procs -> Process]
      /\ proc'[p] = s
      /\ \A q \in Procs \ {p} : proc'[q] = proc[q]
  BY <1>1, <1>4, <1>5
<1>7. Alive(p) /\ \A q \in Procs : /\ proc'[q].dir = proc[q].dir
                                  /\ proc'[q].alone = proc[q].alone
                                  /\ Alive(q)' = Alive(q)
  BY <1>2, <1>4, <1>6 DEF Alive
<1>8. PICK w : /\ Writes(p, w) /\ Settable(w)
               /\ mem[p][f] = None => f \in DOMAIN w
  <2>1. CASE mem[p][f] = None /\ f = "nodenum" /\ SetNodeNum(p, 0)
    <3> DEFINE w == [g \in {"nodenum", "ipPort"} |->
                      IF g = "nodenum" THEN 0 ELSE DEFAULT_PORT + 0]
    <3>1. Writes(p, w) /\ Settable(w)
      BY <1>1, <2>1, SetNodeNumWrites
    <3>2. f \in DOMAIN w
      BY <2>1
    <3> HIDE DEF w
    <3> QED
      BY <3>1, <3>2
  <2>2. ASSUME mem[p][f] = None, f # "nodenum",
               NEW v \in Defaults(p, f), SetField(p, f, v)
        PROVE  \E w : /\ Writes(p, w) /\ Settable(w)
                      /\ mem[p][f] = None => f \in DOMAIN w
    <3> DEFINE w == [g \in {f} |-> v]
    <3>1. v \in FieldValue(f)
      BY <1>2, <2>2, DefaultsTyped
    <3>2. Writes(p, w) /\ Settable(w)
      BY <1>1, <1>3, <2>2, <3>1, SetFieldWrites
    <3>3. f \in DOMAIN w
      OBVIOUS
    <3> HIDE DEF w
    <3> QED
      BY <3>2, <3>3
  <2>3. CASE mem[p][f] # None /\ SetField(p, f, mem[p][f])
    <3> DEFINE w == [g \in {f} |-> mem[p][f]]
    <3>1. mem[p][f] \in FieldValue(f)
      BY <1>3, <2>3 DEF ConfigInv, TypeOK
    <3>2. Writes(p, w) /\ Settable(w)
      BY <1>1, <1>3, <2>3, <3>1, SetFieldWrites
    <3> HIDE DEF w
    <3> QED
      BY <2>3, <3>2
  <2>4. CASE mem[p][f] # None /\ UNCHANGED <<mem, disk>>
    <3> DEFINE w == [g \in {} |-> None]
    <3>1. Writes(p, w) /\ Settable(w)
      BY <1>1, <2>4, NothingWritten
    <3> HIDE DEF w
    <3> QED
      BY <2>4, <3>1
  <2> QED
    BY <2>1, <2>2, <2>3, <2>4 DEF SetDefault
<1>9. /\ Stored' /\ FilesTyped' /\ Separate' /\ Mirror'
      /\ \A q \in Procs : \A g \in Field :
            mem[q][g] # None => mem'[q][g] # None
      /\ \A q \in Procs \ {p} : mem'[q] = mem[q]
      /\ \A g \in Field : g \in DOMAIN w => mem'[p][g] # None
  BY <1>7, <1>8, WriteStep
<1>10. TypeOK'
  BY <1>1, <1>6, <1>9 DEF TypeOK, FilesTyped, SetDefault
<1>11. Progress'
  <2>1. \A q \in Procs \ {p} : /\ proc'[q].stage = proc[q].stage
                               /\ proc'[q].state = proc[q].state
    BY <1>6
  <2>2. proc'[p].stage = n + 1 /\ proc'[p].state = "init"
    BY <1>2, <1>4, <1>6
  <2>3. mem'[p][f] # None
    BY <1>3, <1>8, <1>9
  <2>4. \A i \in 1..8 : i < n + 1 => mem'[p][Order[i]] # None
    <3> SUFFICES ASSUME NEW i \in 1..8, i < n + 1, i # n
                 PROVE  mem'[p][Order[i]] # None
      BY <2>3
    <3>1. i < n
      BY <1>2
    <3> QED
      BY <1>9, <3>1, OrderFacts DEF ConfigInv, Progress
  <2>5. \A q \in Procs \ {p} : \A i \in 1..8 :
            i < proc'[q].stage => mem'[q][Order[i]] # None
    BY <1>9, <2>1, OrderFacts DEF ConfigInv, Progress
  <2>6. \A q \in Procs : proc'[q].state \in {"binding", "up"} => proc'[q].stage = 9
    BY <2>1, <2>2 DEF ConfigInv, Progress
  <2> QED
    BY <2>2, <2>4, <2>5, <2>6 DEF Progress
<1>12. Bound'
  <2>1. proc'[p].state = "init"
    BY <1>2, <1>4, <1>6
  <2>2. \A q \in Procs \ {p} : proc'[q] = proc[q] /\ mem'[q] = mem[q]
    BY <1>6, <1>9
  <2> QED
    BY <2>1, <2>2 DEF ConfigInv, Bound
<1> QED
  BY <1>9, <1>10, <1>11, <1>12 DEF ConfigInv

\* The end of the start: the port of the socket is the one in the store, and
\* the one of the command line's number if there is one.
LEMMA StartStep ==
    ASSUME ConfigInv, NEW p \in Procs, Start(p)
    PROVE  ConfigInv'
<1> DEFINE arg == proc[p].arg
           target == <<mem[p]["fabricid"], mem[p]["nodeid"]>>
           port == mem'[p]["ipPort"]
           s == [proc[p] EXCEPT !.state = "binding", !.target = target,
                                !.port = port]
<1>1. /\ Stored /\ proc \in [Procs -> Process] /\ proc[p] \in Process
      /\ manual \in [Nums -> Nat \cup {None}]
      /\ launches \in 0..MaxLaunches /\ sets \in 0..MaxSets
  BY DEF ConfigInv, TypeOK
<1>2. proc[p].stage = 9 /\ proc[p].state = "init" /\ arg \in Nums \cup {None}
      /\ proc[p].dir \in Nums
  <2>1. /\ proc[p].stage \in 1..(Len(Order) + 1) /\ proc[p].stage > Len(Order)
        /\ proc[p].state = "init" /\ arg \in Nums \cup {None}
        /\ proc[p].dir \in Nums
    BY <1>1 DEF Process, Start
  <2> QED
    BY <2>1, OrderFacts
<1>3. /\ mem[p]["fabricid"] \in Hex /\ mem[p]["nodeid"] \in Hex
      /\ mem[p]["ipPort"] \in Nat
  <2>1. Order[1] = "nodeid" /\ Order[2] = "fabricid" /\ Order[5] = "ipPort"
    BY DEF Order
  <2>2. /\ mem[p]["fabricid"] # None /\ mem[p]["nodeid"] # None
        /\ mem[p]["ipPort"] # None
    BY <1>2, <2>1 DEF ConfigInv, Progress
  <2>3. "fabricid" \in HexField /\ "nodeid" \in HexField
        /\ "fabricid" \in Field /\ "nodeid" \in Field /\ "ipPort" \in Field
    BY DEF Field, HexField
  <2> QED
    BY <2>2, <2>3, FieldValueOf DEF ConfigInv, TypeOK
<1>4. PICK w : /\ Writes(p, w) /\ Settable(w)
               /\ DOMAIN w \cap {"nodeid", "fabricid"} = {}
               /\ arg # None => /\ "ipPort" \in DOMAIN w
                                /\ w["ipPort"] = DEFAULT_PORT + arg
               /\ arg = None => "ipPort" \notin DOMAIN w
  <2>1. CASE arg = None
    <3> DEFINE w == [g \in {} |-> None]
    <3>1. Writes(p, w) /\ Settable(w)
      BY <1>1, <2>1, NothingWritten DEF Start
    <3>2. DOMAIN w = {}
      OBVIOUS
    <3> HIDE DEF w
    <3> QED
      BY <2>1, <3>1, <3>2
  <2>2. CASE arg # None
    <3> DEFINE w == [g \in {"nodenum", "ipPort"} |->
                      IF g = "nodenum" THEN arg ELSE DEFAULT_PORT + arg]
    <3>1. Writes(p, w) /\ Settable(w)
      BY <1>1, <1>2, <2>2, NumsAssumption, SetNodeNumWrites DEF Start
    <3>2. DOMAIN w = {"nodenum", "ipPort"} /\ w["ipPort"] = DEFAULT_PORT + arg
      OBVIOUS
    <3> HIDE DEF w
    <3> QED
      BY <2>2, <3>1, <3>2
  <2> QED
    BY <2>1, <2>2
<1>5. "ipPort" \in Field /\ "nodeid" \in Field /\ "fabricid" \in Field
  BY DEF Field, HexField
<1>6. /\ arg # None => port = DEFAULT_PORT + arg
      /\ port \in Nat
      /\ mem'[p]["nodeid"] = mem[p]["nodeid"]
      /\ mem'[p]["fabricid"] = mem[p]["fabricid"]
  <2>1. \A g \in Field :
            mem'[p][g] = IF g \in DOMAIN w THEN w[g] ELSE mem[p][g]
    BY <1>4 DEF Writes
  <2>2. arg # None => arg \in Nat
    BY <1>2, NumsAssumption
  <2> QED
    BY <1>3, <1>4, <1>5, <2>1, <2>2 DEF DEFAULT_PORT
<1>7. target \in Hex \X Hex /\ target \in Seq(Hex)
  BY <1>3
<1>8. proc' = [proc EXCEPT ![p] = s]
  BY <1>1 DEF Start
<1> HIDE DEF port, target
<1>9. /\ s \in Process
      /\ s.dir = proc[p].dir /\ s.alone = proc[p].alone /\ s.arg = arg
      /\ s.state = "binding" /\ s.stage = 9
      /\ s.target = target /\ s.port = port
  <2> DEFINE r == proc[p]
  <2>1. /\ r \in Process /\ target \in Seq(Hex) /\ port \in Nat
        /\ r.stage = 9 /\ r.arg = arg
    BY <1>1, <1>2, <1>6, <1>7
  <2>2. s = [r EXCEPT !.state = "binding", !.target = target, !.port = port]
    OBVIOUS
  <2> HIDE DEF s, r
  <2>3. /\ s \in Process
        /\ s.dir = r.dir /\ s.alone = r.alone /\ s.stage = r.stage
        /\ s.arg = r.arg
        /\ s.state = "binding" /\ s.target = target /\ s.port = port
    BY <2>1, <2>2 DEF Process
  <2> QED
    BY <2>1, <2>3 DEF r
<1> HIDE DEF s
<1>10. /\ proc' \in [Procs -> Process]
       /\ proc'[p] = s
       /\ \A q \in Procs \ {p} : proc'[q] = proc[q]
  BY <1>1, <1>8, <1>9
<1>11. Alive(p) /\ \A q \in Procs : /\ proc'[q].dir = proc[q].dir
                                   /\ proc'[q].alone = proc[q].alone
                                   /\ Alive(q)' = Alive(q)
  BY <1>2, <1>9, <1>10 DEF Alive
<1>12. /\ Stored' /\ FilesTyped' /\ Separate' /\ Mirror'
       /\ \A q \in Procs : \A g \in Field :
             mem[q][g] # None => mem'[q][g] # None
       /\ \A q \in Procs \ {p} : mem'[q] = mem[q]
  BY <1>4, <1>11, WriteStep
<1>13. TypeOK'
  BY <1>1, <1>10, <1>12 DEF TypeOK, FilesTyped, Start
<1>14. Progress'
  <2>1. \A q \in Procs : proc'[q].stage = proc[q].stage
    BY <1>2, <1>9, <1>10
  <2>2. \A q \in Procs \ {p} : proc'[q].state = proc[q].state
    BY <1>10
  <2> QED
    BY <1>2, <1>12, <2>1, <2>2, OrderFacts DEF ConfigInv, Progress
<1>15. Bound'
  <2>1. /\ mem'[p]["ipPort"] = proc'[p].port
        /\ proc'[p].target = <<mem'[p]["fabricid"], mem'[p]["nodeid"]>>
        /\ proc'[p].target \in Hex \X Hex
        /\ proc'[p].arg # None => proc'[p].port = DEFAULT_PORT + proc'[p].arg
    BY <1>6, <1>7, <1>9, <1>10 DEF port, target
  <2>2. \A q \in Procs \ {p} : proc'[q] = proc[q] /\ mem'[q] = mem[q]
    BY <1>10, <1>12
  <2> QED
    BY <2>1, <2>2 DEF ConfigInv, Bound
<1> QED
  BY <1>12, <1>13, <1>14, <1>15 DEF ConfigInv

\* The launch of a process: it reads the files of its directory, and the
\* processes that are there are no longer alone.
LEMMA LaunchStep ==
    ASSUME ConfigInv, NEW p \in Procs, NEW arg \in Nums \cup {None},
           Launch(p, arg)
    PROVE  ConfigInv'
<1> DEFINE dir == IF arg = None THEN 0 ELSE arg
           others == {q \in Procs \ {p} : Alive(q) /\ proc[q].dir = dir}
           s == [Down EXCEPT !.state = "init", !.arg = arg, !.dir = dir,
                             !.alone = (others = {}), !.manual = manual[dir]]
           t(q) == [proc[q] EXCEPT !.alone = FALSE]
<1>1. /\ Stored /\ proc \in [Procs -> Process]
      /\ manual \in [Nums -> Nat \cup {None}]
      /\ launches \in 0..MaxLaunches /\ sets \in 0..MaxSets
  BY DEF ConfigInv, TypeOK
<1>2. /\ launches < MaxLaunches /\ ~Alive(p)
      /\ mem' = [mem EXCEPT ![p] = Loaded(disk[dir])]
      /\ proc' = [q \in Procs |-> CASE q = p -> s
                                     [] q \in others -> t(q)
                                     [] OTHER -> proc[q]]
      /\ launches' = launches + 1 /\ disk' = disk /\ manual' = manual
      /\ sets' = sets
  BY DEF Launch
<1>3. dir \in Nums /\ (others = {}) \in BOOLEAN
  BY NumsAssumption
<1>4. /\ s \in Process /\ s.dir = dir /\ s.alone = (others = {})
      /\ s.stage = 1 /\ s.state = "init"
  <2> DEFINE alone == (others = {})
             kept == manual[dir]
  <2> HIDE DEF dir, others
  <2>1. kept \in Nat \cup {None} /\ alone \in BOOLEAN
    BY <1>1, <1>3
  <2>2. s = [Down EXCEPT !.state = "init", !.arg = arg, !.dir = dir,
                         !.alone = alone, !.manual = kept]
    OBVIOUS
  <2> HIDE DEF alone, kept, s
  <2>3. /\ s \in Process /\ s.dir = dir /\ s.alone = alone
        /\ s.stage = 1 /\ s.state = "init"
    BY <1>3, <2>1, <2>2, DownProcess DEF Process
  <2> QED
    BY <2>3 DEF alone
<1>5. ASSUME NEW q \in Procs
      PROVE  /\ t(q) \in Process
             /\ t(q).dir = proc[q].dir /\ t(q).alone = FALSE
             /\ t(q).stage = proc[q].stage
             /\ t(q).arg = proc[q].arg /\ t(q).port = proc[q].port
             /\ t(q).target = proc[q].target
             /\ t(q).touched = proc[q].touched /\ t(q).state = proc[q].state
  <2>1. proc[q] \in Process
    BY <1>1
  <2> QED
    BY <2>1, NotAloneProcess
<1>6. /\ proc'[p] = s
      /\ \A q \in Procs \ {p} :
            proc'[q] = IF q \in others THEN t(q) ELSE proc[q]
  BY <1>2
<1> HIDE DEF s, t
<1>7. proc' \in [Procs -> Process]
  BY <1>1, <1>2, <1>4, <1>5
<1>8. /\ mem'[p] = Loaded(disk[dir])
      /\ \A q \in Procs \ {p} : mem'[q] = mem[q]
      /\ mem' \in [Procs -> [Field -> AnyValue]]
      /\ DOMAIN Loaded(disk[dir]) = Field
      /\ \A f \in Field : Loaded(disk[dir])[f] \in FieldValue(f) \cup {None}
      /\ \A f \in Field \ {"ipPort", "daPrivateKey"} :
            Loaded(disk[dir])[f] = disk[dir][f]
  <2> DEFINE m == Loaded(disk[dir])
  <2> HIDE DEF dir
  <2>1. /\ disk[dir]["udpPort"] = None
        /\ \A f \in Field : disk[dir][f] \in FieldValue(f) \cup {None}
    BY <1>3 DEF ConfigInv, TypeOK
  <2>2. /\ m = [f \in Field |-> m[f]] /\ DOMAIN m = Field
        /\ \A f \in Field :
              m[f] = IF f \in {"ipPort", "daPrivateKey"} THEN None
                     ELSE disk[dir][f]
    BY <2>1 DEF Loaded
  <2> HIDE DEF m
  <2>3. \A f \in Field : m[f] \in FieldValue(f) \cup {None}
    BY <2>1, <2>2
  <2>4. m \in [Field -> AnyValue]
    <3>1. None \in AnyValue
      BY DEF AnyValue
    <3>2. \A f \in Field : m[f] \in AnyValue
      BY <2>3, <3>1, FieldValues
    <3> QED
      BY <2>2, <3>2
  <2>5. mem' = [mem EXCEPT ![p] = m]
    BY <1>2 DEF m, dir
  <2>6. /\ mem'[p] = m
        /\ \A q \in Procs \ {p} : mem'[q] = mem[q]
        /\ mem' \in [Procs -> [Field -> AnyValue]]
    BY <1>1, <2>4, <2>5 DEF Stored
  <2> QED
    BY <2>2, <2>3, <2>6 DEF m
<1> HIDE DEF dir
<1>9. Stored'
  BY <1>1, <1>2, <1>8 DEF Stored
<1>10. TypeOK'
  <2>1. \A q \in Procs : \A f \in Field : mem'[q][f] \in FieldValue(f) \cup {None}
    BY <1>8 DEF ConfigInv, TypeOK
  <2>2. \A q \in Procs : DOMAIN mem'[q] = Field
    BY <1>8
  <2>3. launches' \in 0..MaxLaunches /\ sets' \in 0..MaxSets
    BY <1>1, <1>2, BoundsAssumption
  <2>4. FilesTyped'
    BY <1>2, <2>1, <2>2 DEF FilesTyped, ConfigInv, TypeOK
  <2> QED
    BY <1>1, <1>2, <1>7, <2>3, <2>4 DEF TypeOK, FilesTyped
<1>11. \A q \in Procs \ {p} :
          /\ proc'[q].dir = proc[q].dir /\ proc'[q].stage = proc[q].stage
          /\ proc'[q].arg = proc[q].arg /\ proc'[q].port = proc[q].port
          /\ proc'[q].target = proc[q].target
          /\ proc'[q].touched = proc[q].touched
          /\ proc'[q].state = proc[q].state
          /\ proc'[q].alone => proc[q].alone
          /\ q \in others => ~proc'[q].alone
  <2> SUFFICES ASSUME NEW q \in Procs \ {p}
               PROVE  /\ proc'[q].dir = proc[q].dir /\ proc'[q].stage = proc[q].stage
                      /\ proc'[q].arg = proc[q].arg /\ proc'[q].port = proc[q].port
                      /\ proc'[q].target = proc[q].target
                      /\ proc'[q].touched = proc[q].touched
                      /\ proc'[q].state = proc[q].state
                      /\ proc'[q].alone => proc[q].alone
                      /\ q \in others => ~proc'[q].alone
    OBVIOUS
  <2> HIDE DEF others
  <2>1. CASE q \in others
    <3>1. proc'[q] = t(q)
      BY <1>6, <2>1
    <3> QED
      BY <1>5, <3>1
  <2>2. CASE q \notin others
    <3>1. proc'[q] = proc[q]
      BY <1>6, <2>2
    <3> QED
      BY <2>2, <3>1
  <2> QED
    BY <2>1, <2>2
<1>12. Progress'
  BY <1>4, <1>6, <1>8, <1>11, OrderFacts DEF ConfigInv, Progress
<1>13. Separate'
  <2> SUFFICES ASSUME NEW q \in Procs, NEW r \in Procs, q # r,
                      proc'[q].state # "down", proc'[r].state # "down",
                      proc'[q].dir = proc'[r].dir
               PROVE  ~proc'[q].alone
    BY DEF Separate, Alive
  <2>1. CASE q = p
    <3>1. r \in others
      BY <1>4, <1>6, <1>11, <2>1 DEF Alive
    <3> QED
      BY <1>4, <1>6, <2>1, <3>1
  <2>2. CASE q # p /\ r = p
    <3>1. q \in others
      BY <1>4, <1>6, <1>11, <2>2 DEF Alive
    <3> QED
      BY <1>11, <2>2, <3>1
  <2>3. CASE q # p /\ r # p
    BY <1>11, <2>3 DEF ConfigInv, Separate, Alive
  <2> QED
    BY <2>1, <2>2, <2>3
<1>14. Mirror'
  <2> SUFFICES ASSUME NEW q \in Procs, proc'[q].state # "down", proc'[q].alone,
                      NEW f \in Field \ {"ipPort", "daPrivateKey"}
               PROVE  mem'[q][f] = disk'[proc'[q].dir][f]
    BY DEF Mirror, Alive
  <2>1. CASE q = p
    BY <1>2, <1>4, <1>6, <1>8, <2>1
  <2>2. CASE q # p
    BY <1>2, <1>8, <1>11, <2>2 DEF ConfigInv, Mirror, Alive
  <2> QED
    BY <2>1, <2>2
<1>15. Bound'
  <2>1. proc'[p].state = "init"
    BY <1>4, <1>6
  <2> QED
    BY <1>8, <1>11, <2>1 DEF ConfigInv, Bound
<1> QED
  BY <1>9, <1>10, <1>12, <1>13, <1>14, <1>15 DEF ConfigInv

\* The socket is bound: nothing else changes.
LEMMA ListeningStep ==
    ASSUME ConfigInv, NEW p \in Procs, Listening(p)
    PROVE  ConfigInv'
<1> DEFINE s == [proc[p] EXCEPT !.state = "up"]
<1>1. proc \in [Procs -> Process] /\ proc[p] \in Process
  BY DEF ConfigInv, TypeOK
<1>2. /\ proc' = [proc EXCEPT ![p] = s] /\ proc[p].state = "binding"
      /\ disk' = disk /\ mem' = mem /\ manual' = manual
      /\ launches' = launches /\ sets' = sets
  BY <1>1 DEF Listening
<1>3. /\ s \in Process
      /\ s.dir = proc[p].dir /\ s.alone = proc[p].alone
      /\ s.stage = proc[p].stage /\ s.arg = proc[p].arg
      /\ s.port = proc[p].port /\ s.target = proc[p].target
      /\ s.touched = proc[p].touched /\ s.state = "up"
  BY <1>1, ListeningProcess
<1> HIDE DEF s
<1>4. /\ proc' \in [Procs -> Process]
      /\ proc'[p] = s
      /\ \A q \in Procs \ {p} : proc'[q] = proc[q]
  BY <1>1, <1>2, <1>3
<1>5. \A q \in Procs :
        /\ proc'[q].dir = proc[q].dir /\ proc'[q].alone = proc[q].alone
        /\ proc'[q].stage = proc[q].stage /\ proc'[q].arg = proc[q].arg
        /\ proc'[q].port = proc[q].port /\ proc'[q].target = proc[q].target
        /\ proc'[q].touched = proc[q].touched
        /\ (proc'[q].state = "down") = (proc[q].state = "down")
        /\ proc'[q].state \in {"binding", "up"} =>
              proc[q].state \in {"binding", "up"}
  BY <1>2, <1>3, <1>4
<1>6. TypeOK' /\ Stored'
  BY <1>2, <1>4 DEF ConfigInv, TypeOK, Stored
<1>7. Progress' /\ Bound'
  BY <1>2, <1>5 DEF ConfigInv, Progress, Bound
<1>8. Separate' /\ Mirror'
  BY <1>2, <1>5 DEF ConfigInv, Separate, Mirror, Alive
<1> QED
  BY <1>6, <1>7, <1>8 DEF ConfigInv

\* The end of a process leaves the files, and the other processes, alone.
LEMMA ExitStep ==
    ASSUME ConfigInv, NEW p \in Procs, Exit(p)
    PROVE  ConfigInv'
<1>1. proc \in [Procs -> Process] /\ Stored
  BY DEF ConfigInv, TypeOK
<1>2. /\ disk' = disk /\ manual' = manual
      /\ launches' = launches /\ sets' = sets
  BY DEF Exit
<1>3. /\ proc' \in [Procs -> Process]
      /\ proc'[p].state = "down" /\ proc'[p].stage = 1
      /\ \A q \in Procs \ {p} : proc'[q] = proc[q]
  BY <1>1, DownProcess DEF Exit
<1>4. /\ mem' \in [Procs -> [Field -> AnyValue]]
      /\ \A f \in Field : mem'[p][f] = None
      /\ DOMAIN mem'[p] = Field
      /\ \A q \in Procs \ {p} : mem'[q] = mem[q]
  <2>1. None \in AnyValue
    BY DEF AnyValue
  <2> QED
    BY <1>1, <2>1 DEF Stored, Exit
<1>5. Stored'
  BY <1>1, <1>2, <1>4 DEF Stored
<1>6. TypeOK'
  <2>1. \A q \in Procs : \A f \in Field : mem'[q][f] \in FieldValue(f) \cup {None}
    BY <1>4 DEF ConfigInv, TypeOK
  <2>2. \A q \in Procs : DOMAIN mem'[q] = Field
    BY <1>4
  <2>3. FilesTyped'
    BY <1>2, <2>1, <2>2 DEF FilesTyped, ConfigInv, TypeOK
  <2> QED
    BY <1>2, <1>3, <2>3 DEF TypeOK, FilesTyped, ConfigInv
<1>7. Progress' /\ Bound'
  BY <1>3, <1>4 DEF ConfigInv, Progress, Bound
<1>8. Separate' /\ Mirror'
  BY <1>2, <1>3, <1>4 DEF ConfigInv, Separate, Mirror, Alive
<1> QED
  BY <1>5, <1>6, <1>7, <1>8 DEF ConfigInv

-----------------------------------------------------------------------------
(* The invariant *)

\* No process runs and no file is there.
LEMMA ConfigInit == Init => ConfigInv
<1> SUFFICES ASSUME Init PROVE ConfigInv
  OBVIOUS
<1>0. None \in AnyValue /\ "udpPort" \notin Field
  BY DEF AnyValue, Field, HexField, LevelField
<1>1. proc \in [Procs -> Process] /\ \A p \in Procs : proc[p].state = "down"
                                                   /\ proc[p].stage = 1
  BY DownProcess DEF Init
<1>2. Stored
  BY <1>0 DEF Init, Stored
<1>3. FilesTyped
  BY <1>0 DEF Init, FilesTyped
<1>4. TypeOK
  BY <1>1, <1>3, BoundsAssumption DEF TypeOK, FilesTyped, Init
<1>5. Progress /\ Separate /\ Mirror /\ Bound
  BY <1>1 DEF Progress, Separate, Mirror, Bound, Alive
<1> QED
  BY <1>2, <1>4, <1>5 DEF ConfigInv

\* Every step keeps the invariant.
LEMMA ConfigStep == ConfigInv /\ [Next]_configVars => ConfigInv'
<1> SUFFICES ASSUME ConfigInv, [Next]_configVars PROVE ConfigInv'
  OBVIOUS
<1>1. CASE UNCHANGED configVars
  <2>1. /\ disk' = disk /\ mem' = mem /\ proc' = proc /\ manual' = manual
        /\ launches' = launches /\ sets' = sets
    BY <1>1 DEF configVars
  <2>2. TypeOK' /\ Stored'
    BY <2>1 DEF ConfigInv, TypeOK, Stored
  <2>3. Progress' /\ Bound'
    BY <2>1 DEF ConfigInv, Progress, Bound
  <2>4. Separate' /\ Mirror'
    BY <2>1 DEF ConfigInv, Separate, Mirror, Alive
  <2> QED
    BY <2>2, <2>3, <2>4 DEF ConfigInv
<1>2. ASSUME NEW p \in Procs,
             \/ \E arg \in Nums \cup {None} : Launch(p, arg)
             \/ SetDefault(p)
             \/ Start(p)
             \/ Listening(p)
             \/ BindFails(p)
             \/ Kill(p)
      PROVE  ConfigInv'
  BY <1>2, LaunchStep, SetDefaultStep, StartStep, ListeningStep, ExitStep
     DEF BindFails, Kill
<1> QED
  BY <1>1, <1>2, CommandsStep DEF Next

\* The invariant holds for every number of processes, directories and steps.
THEOREM ConfigInvariant == Spec => []ConfigInv
<1>1. Init => ConfigInv
  BY ConfigInit
<1>2. ConfigInv /\ [Next]_configVars => ConfigInv'
  BY ConfigStep
<1> QED
  BY <1>1, <1>2, PTL DEF Spec

\* TypeOK: every hexadecimal field and file of PersistantStore keeps the width
\* that formatHex() pads to, every level is one that the logger or the tracer
\* accepts, and no file 'udpPort' appears.
THEOREM TypeCorrect == Spec => []TypeOK
<1>1. ConfigInv => TypeOK
  BY DEF ConfigInv
<1> QED
  BY <1>1, ConfigInvariant, PTL

\* ConfigDurable: what setDefaults() or a setter has set is on disk before the
\* next step, so that a kill at any moment loses none of it.
THEOREM Durability == Spec => []ConfigDurable
<1>1. ASSUME ConfigInv PROVE ConfigDurable
  <2> SUFFICES ASSUME NEW p \in Procs, NEW i \in 1..8, Alive(p),
                      proc[p].alone, i < proc[p].stage,
                      Order[i] \notin {"ipPort", "daPrivateKey"}
               PROVE  /\ mem[p][Order[i]] = disk[proc[p].dir][Order[i]]
                      /\ mem[p][Order[i]] # None
    BY OrderFacts DEF ConfigDurable
  <2>1. Order[i] \in Field
    BY OrderFacts
  <2> QED
    BY <1>1, <2>1 DEF ConfigInv, Mirror, Progress
<1> QED
  BY <1>1, ConfigInvariant, PTL

-----------------------------------------------------------------------------
(* Discovery *)

\* What a node prints of an answer with one record for the service and one
\* SRV record.
LEMMA ResponseOf ==
    ASSUME NEW response, NEW ptr, NEW srv,
           {r \in response.answers : \E d \in Domain : r.name = <<<<>>, d>>} = {ptr},
           {r \in response.answers \cup response.additionals : r.type = "SRV"}
               = {srv}
    PROVE  onResponse(response).node = ptr.data /\ onResponse(response).port = srv.port
<1>1. (CHOOSE r \in {ptr} : TRUE) = ptr /\ (CHOOSE r \in {srv} : TRUE) = srv
  OBVIOUS
<1> QED
  BY <1>1 DEF onResponse

\* The operational answer.  The target is not the empty instance.
LEMMA OperationalResponse ==
    ASSUME NEW p \in Procs, proc[p].target \in Hex \X Hex
    PROVE  LET found == onResponse(onQuery(p, "_matter._tcp")) IN
           /\ found.node = <<proc[p].target, "_matter._tcp">>
           /\ found.port = mem[p]["ipPort"]
<1> DEFINE target == proc[p].target
           srv == SRV(target, "_matter._tcp", mem[p]["ipPort"])
           ptr == PTR(<<<<>>, "_matter._tcp">>, target, "_matter._tcp")
           response == onQuery(p, "_matter._tcp")
<1>1. target # <<>>
  OBVIOUS
<1>2. /\ response.answers = {srv, AAAA(target), ptr}
      /\ response.additionals = {}
  BY DEF onQuery, onOperationalDiscovery
<1>3. /\ srv.name = <<target, "_matter._tcp">> /\ srv.type = "SRV"
      /\ srv.port = mem[p]["ipPort"]
      /\ AAAA(target).name = <<target, "local">> /\ AAAA(target).type = "AAAA"
      /\ ptr.name = <<<<>>, "_matter._tcp">> /\ ptr.type = "PTR"
      /\ ptr.data = <<target, "_matter._tcp">>
  BY DEF SRV, AAAA, PTR
<1> HIDE DEF srv, ptr, response, target
<1>4. {r \in response.answers : \E d \in Domain : r.name = <<<<>>, d>>} = {ptr}
  BY <1>1, <1>2, <1>3 DEF Domain
<1>5. {r \in response.answers \cup response.additionals : r.type = "SRV"} = {srv}
  BY <1>2, <1>3
<1>6. onResponse(response).node = ptr.data /\ onResponse(response).port = srv.port
  BY <1>4, <1>5, ResponseOf
<1> QED
  BY <1>3, <1>6 DEF response, target

\* The commissionable answer.
LEMMA CommissionableResponse ==
    ASSUME NEW p \in Procs
    PROVE  LET found == onResponse(onQuery(p, "_matterc._udp")) IN
           /\ found.node[2] = "_matterc._udp"
           /\ found.port = mem[p]["ipPort"]
<1> DEFINE instance == <<[digits |-> "default", len |-> 16]>>
           srv == SRV(instance, "_matterc._udp", mem[p]["ipPort"])
           meta == PTR(<<<<>>, "_services._dns-sd._udp">>, <<>>, "_matterc._udp")
           sub == PTR(<<<<>>, "_sub._matterc._udp">>, instance, "_matterc._udp")
           ptr == PTR(<<<<>>, "_matterc._udp">>, instance, "_matterc._udp")
           response == onQuery(p, "_matterc._udp")
<1>1. /\ response.answers = {meta, sub, ptr}
      /\ response.additionals = {srv, AAAA(instance)}
  BY DEF onQuery, onCommissionableDiscovery
<1>2. /\ srv.type = "SRV" /\ srv.port = mem[p]["ipPort"]
      /\ AAAA(instance).type = "AAAA"
      /\ meta.name = <<<<>>, "_services._dns-sd._udp">> /\ meta.type = "PTR"
      /\ sub.name = <<<<>>, "_sub._matterc._udp">> /\ sub.type = "PTR"
      /\ ptr.name = <<<<>>, "_matterc._udp">> /\ ptr.type = "PTR"
      /\ ptr.data[2] = "_matterc._udp"
  BY DEF SRV, AAAA, PTR
<1> HIDE DEF srv, meta, sub, ptr, response, instance
<1>3. {r \in response.answers : \E d \in Domain : r.name = <<<<>>, d>>} = {ptr}
  BY <1>1, <1>2 DEF Domain
<1>4. {r \in response.answers \cup response.additionals : r.type = "SRV"} = {srv}
  BY <1>1, <1>2
<1>5. onResponse(response).node = ptr.data /\ onResponse(response).port = srv.port
  BY <1>3, <1>4, ResponseOf
<1> QED
  BY <1>2, <1>5 DEF response

\* AdvertisesItself: as long as no command has set them, the port and the
\* instance that another node prints are those of the socket and of the store.
THEOREM Advertisement == Spec => []AdvertisesItself
<1>1. ASSUME ConfigInv PROVE AdvertisesItself
  <2> SUFFICES ASSUME NEW p \in Procs, NEW domain \in Domain,
                      proc[p].state = "up"
               PROVE  LET found == onResponse(onQuery(p, domain)) IN
                      /\ found.node[2] = domain
                      /\ "ipPort" \notin proc[p].touched =>
                            found.port = proc[p].port
                      /\ (/\ domain = "_matter._tcp"
                          /\ proc[p].touched \cap {"nodeid", "fabricid"} = {})
                            => found.node[1] = <<mem[p]["fabricid"], mem[p]["nodeid"]>>
    BY DEF AdvertisesItself
  <2>1. /\ "ipPort" \notin proc[p].touched => mem[p]["ipPort"] = proc[p].port
        /\ proc[p].touched \cap {"nodeid", "fabricid"} = {} =>
              proc[p].target = <<mem[p]["fabricid"], mem[p]["nodeid"]>>
        /\ proc[p].target \in Hex \X Hex
    BY <1>1 DEF ConfigInv, Bound
  <2>2. CASE domain = "_matter._tcp"
    BY <2>1, <2>2, OperationalResponse
  <2>3. CASE domain = "_matterc._udp"
    BY <2>1, <2>3, CommissionableResponse
  <2> QED
    BY <2>2, <2>3 DEF Domain
<1> QED
  BY <1>1, ConfigInvariant, PTL

-----------------------------------------------------------------------------
(* Several nodes *)

\* NumberedNodesCoexist: a bind() fails on the port of another node only when
\* both were given the same number, or one of them none.
THEOREM Coexistence == Spec => NumberedNodesCoexist
<1> DEFINE Clash ==
      \A p, q \in Procs :
          (BindFails(p) /\ q # p /\ proc[q].state = "up"
                        /\ proc[q].port = proc[p].port)
              => proc[p].arg = proc[q].arg \/ None \in {proc[p].arg, proc[q].arg}
<1>1. ASSUME ConfigInv PROVE Clash
  <2> SUFFICES ASSUME NEW p \in Procs, NEW q \in Procs,
                      proc[p].state = "binding", proc[q].state = "up",
                      proc[q].port = proc[p].port,
                      proc[p].arg # None, proc[q].arg # None
               PROVE  proc[p].arg = proc[q].arg
    BY DEF BindFails
  <2>1. /\ proc[p].port = DEFAULT_PORT + proc[p].arg
        /\ proc[q].port = DEFAULT_PORT + proc[q].arg
    BY <1>1 DEF ConfigInv, Bound
  <2>2. proc[p].arg \in Nat /\ proc[q].arg \in Nat
    BY <1>1, NumsAssumption DEF ConfigInv, TypeOK, Process
  <2> QED
    BY <2>1, <2>2 DEF DEFAULT_PORT
<1>2. ConfigInv => [Clash]_configVars
  BY <1>1
<1> HIDE DEF Clash
<1>3. Spec => [][Clash]_configVars
  BY <1>2, ConfigInvariant, PTL
<1> QED
  BY <1>3 DEF Clash, NumberedNodesCoexist

-----------------------------------------------------------------------------
(* What a start keeps *)

\* A process that was given a number has the directory of this number.
OwnDirectory ==
    \A p \in Procs : proc[p].arg # None => proc[p].dir = proc[p].arg

\* No step moves a process to another directory or gives it another number.
LEMMA OwnDirectoryStep ==
    ConfigInv /\ OwnDirectory /\ [Next]_configVars => OwnDirectory'
<1> SUFFICES ASSUME ConfigInv, OwnDirectory, [Next]_configVars,
                    NEW q \in Procs
             PROVE  proc'[q].arg # None => proc'[q].dir = proc'[q].arg
  BY DEF OwnDirectory
<1>1. /\ proc \in [Procs -> Process] /\ proc[q] \in Process
      /\ proc[q].arg # None => proc[q].dir = proc[q].arg
  BY DEF ConfigInv, TypeOK, OwnDirectory
<1>2. CASE proc' = proc
  BY <1>1, <1>2
<1>3. ASSUME NEW p \in Procs, NEW arg \in Nums \cup {None}, Launch(p, arg)
      PROVE  proc'[q].arg # None => proc'[q].dir = proc'[q].arg
  <2> DEFINE dir == IF arg = None THEN 0 ELSE arg
             others == {r \in Procs \ {p} : Alive(r) /\ proc[r].dir = dir}
             alone == (others = {})
             kept == manual[dir]
             s == [Down EXCEPT !.state = "init", !.arg = arg, !.dir = dir,
                               !.alone = alone, !.manual = kept]
             t(r) == [proc[r] EXCEPT !.alone = FALSE]
  <2>1. proc' = [r \in Procs |-> CASE r = p -> s
                                    [] r \in others -> t(r)
                                    [] OTHER -> proc[r]]
    BY <1>3 DEF Launch
  <2>2. arg # None => dir = arg
    OBVIOUS
  <2> HIDE DEF dir, others, alone, kept
  <2>3. s.arg = arg /\ s.dir = dir
    BY DEF Down
  <2>4. t(q).arg = proc[q].arg /\ t(q).dir = proc[q].dir
    BY <1>1, NotAloneProcess
  <2> HIDE DEF s, t
  <2>5. proc'[q] = s \/ proc'[q] = t(q) \/ proc'[q] = proc[q]
    BY <2>1
  <2> QED
    BY <1>1, <2>2, <2>3, <2>4, <2>5
<1>4. ASSUME NEW p \in Procs, SetDefault(p) \/ Start(p) \/ Listening(p)
      PROVE  proc'[q].arg # None => proc'[q].dir = proc'[q].arg
  <2>1. CASE SetDefault(p)
    <3>1. proc' = [proc EXCEPT ![p].stage = @ + 1]
      BY <2>1 DEF SetDefault
    <3>2. proc'[q].arg = proc[q].arg /\ proc'[q].dir = proc[q].dir
      BY ONLY <1>1, <3>1, p \in Procs, q \in Procs DEF Process
    <3> QED
      BY <1>1, <3>2
  <2>2. CASE Start(p)
    <3> DEFINE target == <<mem[p]["fabricid"], mem[p]["nodeid"]>>
               port == mem'[p]["ipPort"]
    <3>1. proc' = [proc EXCEPT ![p].state = "binding", ![p].target = target,
                               ![p].port = port]
      BY <2>2 DEF Start
    <3> HIDE DEF target, port
    <3>2. proc'[q].arg = proc[q].arg /\ proc'[q].dir = proc[q].dir
      BY ONLY <1>1, <3>1, p \in Procs, q \in Procs DEF Process
    <3> QED
      BY <1>1, <3>2
  <2>3. CASE Listening(p)
    <3>1. proc' = [proc EXCEPT ![p].state = "up"]
      BY <2>3 DEF Listening
    <3>2. proc'[q].arg = proc[q].arg /\ proc'[q].dir = proc[q].dir
      BY ONLY <1>1, <3>1, p \in Procs, q \in Procs DEF Process
    <3> QED
      BY <1>1, <3>2
  <2> QED
    BY <1>4, <2>1, <2>2, <2>3
<1>5. ASSUME NEW p \in Procs, Exit(p)
      PROVE  proc'[q].arg # None => proc'[q].dir = proc'[q].arg
  <2>1. proc'[q] \in {proc[q], Down} /\ Down.arg = None
    BY <1>1, <1>5 DEF Exit, Down
  <2> QED
    BY <1>1, <2>1
<1>6. ASSUME NEW p \in Procs, NEW t, proc' = Touch(p, t)
      PROVE  proc'[q].arg # None => proc'[q].dir = proc'[q].arg
  <2>1. proc'[q].arg = proc[q].arg /\ proc'[q].dir = proc[q].dir
    BY <1>1, <1>6 DEF Touch, Process
  <2> QED
    BY <1>1, <2>1
<1>7. CASE UNCHANGED configVars
  BY <1>2, <1>7 DEF configVars
<1>8. ASSUME NEW p \in Procs,
             \/ \E f \in HexField, v \in [digits : Digits, len : {1}] : DoHex(p, f, v)
             \/ \E f \in LevelField, v \in {"debug", "1", "bogus"} : DoLevel(p, f, v)
             \/ \E n \in Nums : DoNodeNum(p, n)
             \/ \E v \in ManualPorts : DoIpPort(p, v)
             \/ \E v \in Digits : DoDaPrivateKey(p, v)
      PROVE  \E t : proc' = Touch(p, t)
  BY <1>8 DEF DoHex, DoLevel, DoNodeNum, DoIpPort, DoDaPrivateKey
<1> QED
  BY <1>3, <1>4, <1>5, <1>6, <1>7, <1>8 DEF Next, BindFails, Kill

\* A file that a process changes is one of its own directory and of a field
\* that it writes; when the process is alone the file held what it had read.
LEMMA ChangedFile ==
    ASSUME ConfigInv, NEW p \in Procs, Alive(p), NEW w, Writes(p, w),
           NEW d \in Nums, NEW f \in Field \ {"ipPort"}, disk'[d][f] # disk[d][f]
    PROVE  /\ d = proc[p].dir /\ f \in DOMAIN w /\ disk'[d][f] = w[f]
           /\ proc[p].alone => mem[p][f] = disk[d][f]
<1>1. d = proc[p].dir /\ f \in DOMAIN w \ {"daPrivateKey"} /\ disk'[d][f] = w[f]
  BY DEF Writes
<1>2. proc[p].alone => mem[p][f] = disk[d][f]
  BY <1>1 DEF ConfigInv, Mirror
<1> QED
  BY <1>1, <1>2

\* One field of setDefaults(): what it changes is in its directory, and was
\* missing if the process is alone.
LEMMA SetDefaultKeeps ==
    ASSUME ConfigInv, NEW p \in Procs, SetDefault(p),
           NEW d \in Nums, NEW g \in Field \ {"ipPort"}, disk'[d][g] # disk[d][g]
    PROVE  /\ Alive(p) /\ proc[p].dir = d
           /\ proc[p].alone => disk[d][g] = None
<1> DEFINE f == Order[proc[p].stage]
<1>1. /\ Stored /\ proc \in [Procs -> Process] /\ Alive(p)
      /\ proc[p].stage \in 1..8 /\ f \in Field
  <2>1. Stored /\ proc \in [Procs -> Process] /\ Alive(p)
    BY DEF ConfigInv, TypeOK, SetDefault, Alive
  <2>2. proc[p].stage \in 1..(Len(Order) + 1) /\ proc[p].stage <= Len(Order)
    BY <2>1 DEF Process, SetDefault
  <2>3. proc[p].stage \in 1..8
    BY <2>2, OrderFacts
  <2> QED
    BY <2>1, <2>3, OrderFacts
<1>2. CASE mem[p][f] = None /\ f = "nodenum" /\ SetNodeNum(p, 0)
  <2> DEFINE w == [h \in {"nodenum", "ipPort"} |->
                    IF h = "nodenum" THEN 0 ELSE DEFAULT_PORT + 0]
  <2>1. Writes(p, w)
    BY <1>1, <1>2, SetNodeNumWrites
  <2>2. DOMAIN w = {"nodenum", "ipPort"}
    OBVIOUS
  <2> HIDE DEF w
  <2>3. /\ g \in DOMAIN w /\ d = proc[p].dir
        /\ proc[p].alone => mem[p][g] = disk[d][g]
    BY <1>1, <2>1, ChangedFile
  <2> QED
    BY <1>1, <1>2, <2>2, <2>3
<1>3. ASSUME mem[p][f] = None, f # "nodenum",
             NEW v \in Defaults(p, f), SetField(p, f, v)
      PROVE  proc[p].dir = d /\ (proc[p].alone => disk[d][g] = None)
  <2> DEFINE w == [h \in {f} |-> v]
  <2>1. v \in FieldValue(f)
    BY <1>1, <1>3, DefaultsTyped
  <2>2. Writes(p, w)
    BY <1>1, <1>3, <2>1, SetFieldWrites
  <2>3. DOMAIN w = {f}
    OBVIOUS
  <2> HIDE DEF w
  <2>4. /\ g \in DOMAIN w /\ d = proc[p].dir
        /\ proc[p].alone => mem[p][g] = disk[d][g]
    BY <1>1, <2>2, ChangedFile
  <2> QED
    BY <1>3, <2>3, <2>4
<1>4. CASE mem[p][f] # None /\ SetField(p, f, mem[p][f])
  <2> DEFINE w == [h \in {f} |-> mem[p][f]]
  <2>1. mem[p][f] \in FieldValue(f)
    BY <1>1, <1>4 DEF ConfigInv, TypeOK
  <2>2. Writes(p, w)
    BY <1>1, <1>4, <2>1, SetFieldWrites
  <2>3. DOMAIN w = {f} /\ w[f] = mem[p][f]
    OBVIOUS
  <2> HIDE DEF w
  <2>4. /\ g \in DOMAIN w /\ disk'[d][g] = w[g] /\ d = proc[p].dir
        /\ proc[p].alone => mem[p][g] = disk[d][g]
    BY <1>1, <2>2, ChangedFile
  <2> QED
    BY <1>1, <2>3, <2>4
<1>5. CASE UNCHANGED <<mem, disk>>
  BY <1>5
<1> QED
  BY <1>1, <1>2, <1>3, <1>4, <1>5 DEF SetDefault

\* The end of the start: what it changes is the node number, to that of the
\* directory.
LEMMA StartKeeps ==
    ASSUME ConfigInv, OwnDirectory, NEW p \in Procs, Start(p),
           NEW d \in Nums, NEW g \in Field \ {"ipPort"}, disk'[d][g] # disk[d][g]
    PROVE  g = "nodenum" /\ disk'[d][g] = d
<1> DEFINE n == proc[p].arg
           w == [h \in {"nodenum", "ipPort"} |->
                    IF h = "nodenum" THEN n ELSE DEFAULT_PORT + n]
<1>1. Stored /\ proc \in [Procs -> Process] /\ Alive(p)
  BY DEF ConfigInv, TypeOK, Start, Alive
<1>2. n # None /\ SetNodeNum(p, n)
  BY DEF Start
<1>3. n \in Nat /\ proc[p].dir = n
  BY <1>1, <1>2, NumsAssumption DEF Process, OwnDirectory
<1>4. Writes(p, w)
  BY <1>1, <1>2, <1>3, SetNodeNumWrites
<1>5. DOMAIN w = {"nodenum", "ipPort"} /\ w["nodenum"] = n
  OBVIOUS
<1> HIDE DEF w, n
<1>6. d = proc[p].dir /\ g \in DOMAIN w /\ disk'[d][g] = w[g]
  BY <1>1, <1>4, ChangedFile
<1> QED
  BY <1>3, <1>5, <1>6

\* StartKeepsSettings: however often init(), setDefaults() and the end of main()
\* are cut short and begun again, they change no value that was saved, but for
\* the node number that the command line gives.
THEOREM SettingsKept == Spec => StartKeepsSettings
<1> DEFINE Keeps ==
      \A d \in Nums, f \in Field \ {"ipPort"} :
          disk[d][f] \notin {None, disk'[d][f]} =>
              \/ sets' # sets
              \/ f = "nodenum" /\ disk'[d][f] = d
              \/ \E p \in Procs : Alive(p) /\ proc[p].dir = d /\ ~proc[p].alone
<1>1. ASSUME ConfigInv, OwnDirectory, [Next]_configVars PROVE Keeps
  <2> SUFFICES ASSUME NEW d \in Nums, NEW f \in Field \ {"ipPort"},
                      disk[d][f] # None, disk'[d][f] # disk[d][f], sets' = sets,
                      ~(f = "nodenum" /\ disk'[d][f] = d)
               PROVE  \E p \in Procs : Alive(p) /\ proc[p].dir = d /\ ~proc[p].alone
    OBVIOUS
  <2>1. sets \in Nat /\ disk' # disk
    BY <1>1 DEF ConfigInv, TypeOK
  <2>2. sets' # sets + 1
    BY <2>1
  <2>3. PICK p \in Procs : SetDefault(p)
    <3>1. ASSUME NEW p \in Procs
          PROVE  ~Start(p)
      BY <1>1, StartKeeps
    <3> QED
      BY <1>1, <2>1, <2>2, <3>1
         DEF Next, configVars, Launch, Listening, BindFails, Kill, Exit,
             DoHex, DoLevel, DoNodeNum, DoIpPort, DoDaPrivateKey
  <2> QED
    BY <1>1, <2>3, SetDefaultKeeps
<1>2. ConfigInv /\ OwnDirectory /\ [Next]_configVars => [Keeps]_configVars
  BY <1>1
<1>3. Init => OwnDirectory
  BY DEF Init, OwnDirectory, Down
<1> HIDE DEF Keeps
<1>4. Spec => [][Keeps]_configVars
  BY <1>2, <1>3, OwnDirectoryStep, ConfigInvariant, PTL DEF Spec
<1> QED
  BY <1>4 DEF Keeps, StartKeepsSettings

=============================================================================
