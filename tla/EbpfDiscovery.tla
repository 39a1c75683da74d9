--------------------------- MODULE EbpfDiscovery ---------------------------
(***************************************************************************)
(* internal/ebpf discovery: a loop walks /proc, classifies every process   *)
(* worth tracing, makes the resulting targets tell each other apart, and   *)
(* hands them to three sinks, one after the other: the supervisor of OBI,  *)
(* the process-metrics collector and the registry of runtimes.             *)
(*                                                                         *)
(* /proc is read file by file while processes start, exit and bind ports,  *)
(* so what is known of one pid may come from two processes.                *)
(***************************************************************************)
EXTENDS Naturals, FiniteSets

CONSTANTS
  Pid, NoPid,
  Port,           \* TCP port numbers
  BaseName,       \* names programs go by
  Name, NoName,   \* those, and what Suffixed makes of them
  Runtime, NoRuntime,
  Program,        \* what processes run, see ProgramType
  NoProcess, NoProgram,
  Suffixed,       \* <<name, port>> |-> the name "<name>-<port>"
  Self,           \* apm2go's own target, without ports
  ApiPorts,       \* its API port, or none where it cannot be determined
  MaxRemembered,  \* registry.go: maxRemembered
  MaxChanges      \* bound on what happens to processes

(* kind and runtime follow from the executable's base name: "interpreter"  *)
(* and "fpm" by prefix, "server" and "denied" by the two tables, "binary"  *)
(* for the rest.  title is the name the argument vector or the table       *)
(* gives: of the script, of the FPM pool (none for its master), of the     *)
(* server.  built says that the file carries Go build information.         *)
ProgramType ==
  [kind : {"interpreter", "fpm", "server", "denied", "binary"}, base : BaseName,
   runtime : Runtime, title : BaseName \cup {NoName}, built : BOOLEAN]

ASSUME ProgramAssumption ==
  /\ Program \subseteq ProgramType
  /\ \A prog \in Program : prog.kind = "server" => prog.title # NoName
ASSUME PortAssumption == Port \subseteq Nat /\ ApiPorts \subseteq Port
ASSUME FiniteAssumption == IsFiniteSet(Pid) /\ IsFiniteSet(Port)
ASSUME RuntimeAssumption == "go" \in Runtime /\ NoRuntime \notin Runtime
ASSUME NoneAssumption ==
  /\ NoPid \notin Pid /\ NoName \notin Name /\ NoProgram \notin Program
  /\ NoProcess \notin [prog : Program, parent : Pid \cup {NoPid}, ports : SUBSET Port]
ASSUME SuffixedAssumption ==
  /\ BaseName \subseteq Name
  /\ Suffixed \in [BaseName \X Port -> Name]
  /\ \A n \in BaseName, p, q \in Port : p # q => Suffixed[<<n, p>>] # Suffixed[<<n, q>>]
ASSUME BoundsAssumption == MaxRemembered \in Nat /\ MaxChanges \in Nat

VARIABLES
  proc,           \* the process table
  changes,        \* changes of it still to come
  scan,           \* the discovery loop
  sink,           \* what each sink was last given
  runtimes,       \* Registry.runtimes, NoRuntime for an unknown name
  since,          \* the names in Registry.since
  quiet           \* history: whether a whole scan has seen the table as it is

vars == <<proc, changes, scan, sink, runtimes, since, quiet>>

Process == [prog : Program, parent : Pid \cup {NoPid}, ports : SUBSET Port]

Target == [pid : Pid, name : Name, runtime : Runtime, ports : SUBSET Port]

ASSUME SelfAssumption ==
  Self \in [pid : {NoPid}, name : Name, runtime : Runtime, ports : {{}}]

Running(p) == proc[p] # NoProcess

(* exe is the program read from the link of cur, which is being            *)
(* classified; found is the slice of targets, in any order.                *)
ScanState ==
  [pc : {"idle", "exe", "classify", "supervisor", "collector", "registry"},
   todo : SUBSET Pid, cur : Pid \cup {NoPid}, exe : Program \cup {NoProgram},
   found : SUBSET Target]

Idle == [pc |-> "idle", todo |-> {}, cur |-> NoPid, exe |-> NoProgram,
         found |-> {}]

(* apm2go starts on a host that may already run anything. *)
Init ==
  /\ proc \in [Pid -> Process \cup {NoProcess}]
  /\ \A p \in Pid : Running(p) => proc[p].parent = NoPid
  /\ changes = MaxChanges
  /\ scan = Idle
  /\ sink = [s \in {"supervisor", "collector", "registry"} |-> {}]
  /\ runtimes = [n \in Name |-> NoRuntime]
  /\ since = {}
  /\ quiet = "changed"

-----------------------------------------------------------------------------
(* The host.                                                               *)

Changes ==
  /\ changes > 0
  /\ changes' = changes - 1
  /\ quiet' = "changed"
  /\ UNCHANGED <<scan, sink, runtimes, since>>

(* A process starts; a server's worker inherits its master's sockets. *)
Launch(p, prog, parent, ports) ==
  /\ ~ Running(p)
  /\ parent # NoPid => Running(parent)
  /\ proc' = [proc EXCEPT ![p] = [prog |-> prog, parent |-> parent, ports |-> ports]]
  /\ Changes

Listen(p, ports) ==
  /\ Running(p)
  /\ proc' = [proc EXCEPT ![p].ports = ports]
  /\ Changes

(* The children of a process that exits are reparented to init. *)
Exit(p) ==
  /\ Running(p)
  /\ proc' = [q \in Pid |->
       CASE q = p -> NoProcess
         [] q # p /\ Running(q) /\ proc[q].parent = p ->
              [proc[q] EXCEPT !.parent = NoPid]
         [] OTHER -> proc[q]]
  /\ Changes

-----------------------------------------------------------------------------
(* Scan.                                                                   *)

ReadDir ==
  /\ scan.pc = "idle"
  /\ scan' = [Idle EXCEPT !.pc = "exe", !.todo = {p \in Pid : Running(p)}]
  /\ quiet' = IF quiet = "changed" THEN "begun" ELSE quiet
  /\ UNCHANGED <<proc, changes, sink, runtimes, since>>

(* The exe link is read first; a process that is gone by now is skipped. *)
ReadExe(p) ==
  /\ scan.pc = "exe"
  /\ p \in scan.todo
  /\ scan' = IF Running(p)
             THEN [scan EXCEPT !.pc = "classify", !.todo = @ \ {p},
                               !.cur = p, !.exe = proc[p].prog]
             ELSE [scan EXCEPT !.todo = @ \ {p}]
  /\ UNCHANGED <<proc, changes, sink, runtimes, since, quiet>>

(* scriptName, with the interpreter's own name as the fallback. *)
ScriptName(now, exe) ==
  IF now.kind = "interpreter" /\ now.title # NoName THEN now.title ELSE exe.base

(* phpFPMPoolName *)
PoolName(now) == IF now.kind = "fpm" THEN now.title ELSE NoName

(* Fault: a worker is told from its master by its command line, which      *)
(* Apache's are not.                                                       *)
IsProcessMasterAlways(p) == TRUE

(* isProcessMaster: the parent runs another executable, or is not readable. *)
IsProcessMaster(p) ==
  LET parent == proc[p].parent
  IN parent \in Pid /\ Running(parent) => proc[parent].prog.base # proc[p].prog.base

(* classifyInterpreter, classifyNativeServer, classifyGoBinary: the name   *)
(* of a process whose executable was exe, or NoName where it is not worth  *)
(* handing to OBI.  What they read belongs to whoever has the pid now.     *)
Classified(exe, p) ==
  CASE exe.kind = "interpreter" -> ScriptName(proc[p].prog, exe)
    [] exe.kind = "fpm"    -> PoolName(proc[p].prog)
    [] exe.kind = "server" -> IF IsProcessMaster(p) THEN exe.title ELSE NoName
    [] exe.kind = "denied" -> NoName
    [] exe.kind = "binary" -> IF proc[p].prog.built THEN exe.base ELSE NoName

(* A process that listens on nothing, is gone by now or has no name is     *)
(* left out.                                                               *)
Classify ==
  /\ scan.pc = "classify"
  /\ LET p == scan.cur
         name == Classified(scan.exe, p)
         worth == Running(p) /\ proc[p].ports # {} /\ name # NoName
         rt == IF scan.exe.kind = "binary" THEN "go" ELSE scan.exe.runtime
     IN scan' = [scan EXCEPT
          !.pc = "exe", !.cur = NoPid, !.exe = NoProgram,
          !.found = IF worth
                    THEN @ \cup {[pid |-> p, name |-> name, runtime |-> rt,
                                  ports |-> proc[p].ports]}
                    ELSE @]
  /\ UNCHANGED <<proc, changes, sink, runtimes, since, quiet>>

-----------------------------------------------------------------------------
(* Discoverer.scan.                                                        *)

Claims(set, port) == Cardinality({t \in set : port \in t.ports})

(* Fault: every claimed port counts. *)
DistinctAny(set, t) == {port \in t.ports : Claims(set, port) >= 1}

Distinct(set, t) == {port \in t.ports : Claims(set, port) = 1}

(* dropSharedPorts: a port that names two targets names neither, but a     *)
(* target left with nothing keeps every port it had.                       *)
DropSharedPorts(set) ==
  {[t EXCEPT !.ports = IF Distinct(set, t) # {} THEN Distinct(set, t) ELSE @]
     : t \in set}

(* Target.Port: the ports are sorted. *)
FirstPort(t) == CHOOSE port \in t.ports : \A other \in t.ports : port <= other

(* Fault: names are told apart before the shared ports are dropped. *)
DisambiguateNamesFirst(set) ==
  LET count(n) == Cardinality({t \in set : t.name = n})
  IN DropSharedPorts(
       {IF count(t.name) > 1
        THEN [t EXCEPT !.name = Suffixed[<<t.name, FirstPort(t)>>]] ELSE t
          : t \in set})

(* disambiguate: a name that is not unique gains the port. *)
Disambiguate(set) ==
  LET out == DropSharedPorts(set)
      count(n) == Cardinality({t \in out : t.name = n})
  IN {IF count(t.name) > 1
      THEN [t EXCEPT !.name = Suffixed[<<t.name, FirstPort(t)>>]] ELSE t
        : t \in out}

ScanReturns ==
  /\ scan.pc = "exe"
  /\ scan.todo = {}
  /\ scan' = [scan EXCEPT !.pc = "supervisor", !.found = Disambiguate(@)]
  /\ UNCHANGED <<proc, changes, sink, runtimes, since, quiet>>

(* WithSelf: apm2go itself joins each sink's copy, with its API port for   *)
(* OBI and without ports for the others.                                   *)
Traced == IF ApiPorts = {} THEN {} ELSE {[Self EXCEPT !.ports = ApiPorts]}

TellSupervisor ==
  /\ scan.pc = "supervisor"
  /\ sink' = [sink EXCEPT !["supervisor"] = scan.found \cup Traced]
  /\ scan' = [scan EXCEPT !.pc = "collector"]
  /\ UNCHANGED <<proc, changes, runtimes, since, quiet>>

TellCollector ==
  /\ scan.pc = "collector"
  /\ sink' = [sink EXCEPT !["collector"] = scan.found \cup {Self}]
  /\ scan' = [scan EXCEPT !.pc = "registry"]
  /\ UNCHANGED <<proc, changes, runtimes, since, quiet>>

Known == {n \in Name : runtimes[n] # NoRuntime}

(* Fault: one name too many fits. *)
AdmittedOneMore(new) ==
  {a \in SUBSET new :
     /\ Cardinality(Known \cup a) <= MaxRemembered + 1 \/ a = {}
     /\ a = new \/ Cardinality(Known \cup a) > MaxRemembered}

(* Which of the new names still fit depends on the order of the slice. *)
Admitted(new) ==
  {a \in SUBSET new :
     /\ Cardinality(Known \cup a) <= MaxRemembered \/ a = {}
     /\ a = new \/ Cardinality(Known \cup a) >= MaxRemembered}

(* Registry.SetTargets: known names are relabelled, new ones admitted up   *)
(* to the limit.  Of two targets with one name the later labels it.        *)
TellRegistry ==
  /\ scan.pc = "registry"
  /\ LET set == scan.found \cup {Self}
         names == {t.name : t \in set}
     IN /\ sink' = [sink EXCEPT !["registry"] = set]
        /\ \E added \in Admitted(names \ Known) :
             /\ since' = since \cup added
             /\ \E last \in SUBSET set :
                  /\ \A n \in names : \E t \in last : t.name = n
                  /\ \A t, u \in last : t.name = u.name => t = u
                  /\ runtimes' = [n \in Name |->
                       IF n \in names \cap (Known \cup added)
                       THEN (CHOOSE t \in last : t.name = n).runtime
                       ELSE runtimes[n]]
  /\ scan' = Idle
  /\ quiet' = IF quiet = "begun" THEN "seen" ELSE quiet
  /\ UNCHANGED <<proc, changes>>

-----------------------------------------------------------------------------
Host ==
  \/ \E p \in Pid, prog \in Program, parent \in Pid \cup {NoPid}, ports \in SUBSET Port :
       Launch(p, prog, parent, ports)
  \/ \E p \in Pid, ports \in SUBSET Port : Listen(p, ports)
  \/ \E p \in Pid : Exit(p)

Discover ==
  \/ ReadDir
  \/ \E p \in Pid : ReadExe(p)
  \/ Classify \/ ScanReturns \/ TellSupervisor \/ TellCollector \/ TellRegistry

Next == Host \/ Discover

Spec == Init /\ [][Next]_vars
-----------------------------------------------------------------------------
(* What a scan ought to find, read off the process table.                  *)

(* The name a process is traced under, before names are told apart. *)
TracedAs(p) ==
  LET prog == proc[p].prog
      forked == \E q \in Pid : proc[p].parent = q /\ Running(q)
                                /\ proc[q].prog.base = prog.base
  IN CASE prog.kind = "interpreter" /\ prog.title = NoName -> prog.base
       [] prog.kind = "interpreter" /\ prog.title # NoName -> prog.title
       [] prog.kind = "fpm" -> prog.title
       [] prog.kind = "server" /\ ~ forked -> prog.title
       [] prog.kind = "binary" /\ prog.built -> prog.base
       [] OTHER -> NoName

Watched == {p \in Pid : Running(p) /\ proc[p].ports # {} /\ TracedAs(p) # NoName}

(* The ports only this one of the watched processes listens on. *)
Own(p) == {port \in proc[p].ports :
             \A q \in Watched : q # p => port \notin proc[q].ports}

Rule(p) == IF Own(p) = {} THEN proc[p].ports ELSE Own(p)

Lowest(ports) == CHOOSE port \in ports : \A other \in ports : port <= other

Expected ==
  {[pid |-> p,
    name |-> IF \E q \in Watched : q # p /\ TracedAs(q) = TracedAs(p)
             THEN Suffixed[<<TracedAs(p), Lowest(Rule(p))>>] ELSE TracedAs(p),
    runtime |-> IF proc[p].prog.kind = "binary" THEN "go" ELSE proc[p].prog.runtime,
    ports |-> Rule(p)] : p \in Watched}

-----------------------------------------------------------------------------
(* Properties.                                                             *)

TypeOK ==
  /\ proc \in [Pid -> Process \cup {NoProcess}]
  /\ changes \in 0 .. MaxChanges
  /\ scan \in ScanState
  /\ sink \in [{"supervisor", "collector", "registry"} ->
                 SUBSET (Target \cup {Self} \cup Traced)]
  /\ runtimes \in [Name -> Runtime \cup {NoRuntime}]
  /\ since \subseteq Name
  /\ quiet \in {"changed", "begun", "seen"}

(* Whatever scans picked up while processes came and went, one scan of a   *)
(* host that stood still puts every sink right, and as long as it stands   *)
(* still no further scan changes a sink, which would restart OBI.          *)
SinksMatchHost ==
  quiet = "seen" =>
    /\ sink["supervisor"] = Expected \cup Traced
    /\ sink["collector"] = Expected \cup {Self}
    /\ sink["registry"] = Expected \cup {Self}

(* OBI selects by port number alone, across network namespaces.  A rule    *)
(* reaches the process of another target only where its own target has no  *)
(* port to itself.                                                         *)
RulesSeparate ==
  quiet = "seen" =>
    \A t \in sink["supervisor"] \ Traced : \A q \in Watched \ {t.pid} :
      t.ports \cap proc[q].ports # {} => Own(t.pid) = {}

(* Two processes with the same name of their own are merged into one       *)
(* service only where neither has a port to itself.                        *)
NamesSeparate ==
  quiet = "seen" =>
    \A t, u \in sink["supervisor"] \ Traced :
      t # u /\ t.name = u.name /\ TracedAs(t.pid) = TracedAs(u.pid) =>
        Own(t.pid) = {} /\ Own(u.pid) = {}

(* The registry stays within its limit, labels every watched service with  *)
(* the runtime of a process that has that name now, and leaves one without *)
(* a label or a first-seen time only when it is full.                      *)
RegistryLabels ==
  /\ Cardinality(Known) <= MaxRemembered
  /\ since = Known
  /\ \A t \in sink["registry"] :
       IF t.name \in Known
       THEN \E u \in sink["registry"] : u.name = t.name /\ u.runtime = runtimes[t.name]
       ELSE Cardinality(Known) = MaxRemembered
=============================================================================
