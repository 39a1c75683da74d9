---------------------------- MODULE JvmDiscovery ----------------------------
(***************************************************************************)
(* internal/discovery, internal/container and the receiver's binder: each  *)
(* pass of the inventory inspects every process under /proc, asks Docker   *)
(* what a container is called, names the services, and then makes ingest   *)
(* reachable at the gateways of the containers it found.                   *)
(*                                                                         *)
(* The files of one process are read one after the other while processes   *)
(* start and exit, its perf data appear some time after it started, and    *)
(* Docker's answers, the missing ones included, are cached for a while.    *)
(***************************************************************************)
EXTENDS Naturals, Sequences

CONSTANTS
  Pid,
  Program,        \* what processes run and where, see ProgramType
  NoProcess, NoJVM,
  Container, NoContainer,
  Known,          \* the containers Docker can describe
  Gateway, NoGateway,
  GatewayOf,      \* the gateway of a container's network, if it has one
  AutoBind,       \* container_bind is "auto"
  MaxChanges      \* bound on what happens to processes and to Docker

(* The rules that may name a service, in the order they are tried. *)
Rules == <<"otel", "spring", "container", "jar", "unit", "main", "pid">>

Flags == {"otel", "spring", "agent"}
EntryPoints == {"jar", "main"}

(* exe is what isJVM goes by.  said is what the command line tells: the    *)
(* rules it serves, and "agent" for a -javaagent of apm2go's.  perf is     *)
(* what the perf data tell, which the kernel does not truncate.            *)
ProgramType ==
  [exe : {"java", "embeds libjvm", "other"},
   said : SUBSET (Flags \cup EntryPoints), perf : SUBSET (Flags \cup EntryPoints),
   unit : BOOLEAN, container : Container \cup {NoContainer}]

ASSUME ProgramAssumption ==
  /\ Program \subseteq ProgramType
  /\ \A prog \in Program : EntryPoints \cap prog.said # EntryPoints
ASSUME ContainerAssumption ==
  /\ Known \subseteq Container /\ NoContainer \notin Container
  /\ NoGateway \notin Gateway
  /\ GatewayOf \in [Container \cup {NoContainer} -> Gateway \cup {NoGateway}]
  /\ GatewayOf[NoContainer] = NoGateway
ASSUME BoundsAssumption == AutoBind \in BOOLEAN /\ MaxChanges \in Nat

(* A process; born is its start time, perf whether its perf data exist. *)
Process ==
  [prog : Program, born : 1 .. MaxChanges + 1, perf : BOOLEAN]

ASSUME NoProcessAssumption == NoProcess \notin Process

VARIABLES
  proc,           \* the process table
  changes,        \* changes still to come
  docker,         \* "absent" since start-up, "up" or "down"
  cache,          \* Resolver.cache: what is held about a container
  fresh,          \* the containers whose entry has not expired
  scan,           \* the pass in progress
  report,         \* what the last complete Scan returned
  serving,        \* Receiver.serving is closed
  bound,          \* binder.bound of both transports
  quiet           \* history: whether a whole scan has seen the table as it is

vars == <<proc, changes, docker, cache, fresh, scan, report, serving, bound, quiet>>

Transport == {"grpc", "http"}

Running(p) == proc[p] # NoProcess

(* The fields of JVM that matter: told is what its arguments tell, start   *)
(* is 0 for the zero time, info is what Container holds, versioned says    *)
(* that the Java version is known, source is ServiceNameSource.            *)
JVM ==
  [pid : Pid, told : SUBSET (Flags \cup EntryPoints), start : 0 .. MaxChanges + 1,
   container : Container \cup {NoContainer}, unit : BOOLEAN,
   gateway : Gateway \cup {NoGateway}, info : {"none", "bare", "named"},
   versioned : BOOLEAN, source : {Rules[i] : i \in 1 .. Len(Rules)}]

(* jvm is the description that Inspect is filling in. *)
ScanState ==
  [pc : {"idle", "inspect", "identify", "resolve", "perf", "extend"},
   todo : SUBSET Pid, jvm : JVM \cup {NoJVM}, found : SUBSET JVM]

Idle == [pc |-> "idle", todo |-> {}, jvm |-> NoJVM, found |-> {}]

Init ==
  /\ proc \in [Pid -> {q \in Process : q.born = 1} \cup {NoProcess}]
  /\ changes = MaxChanges
  /\ docker \in {"absent", "up", "down"}
  /\ cache = [c \in Container |-> "none"]
  /\ fresh = {}
  /\ scan = Idle
  /\ report = {}
  /\ serving = FALSE
  /\ bound = [t \in Transport |-> [g \in Gateway |-> "unknown"]]
  /\ quiet = "changed"

-----------------------------------------------------------------------------
(* The host.                                                               *)

Changes ==
  /\ changes > 0
  /\ changes' = changes - 1
  /\ UNCHANGED <<cache, fresh, scan, report, serving, bound>>

(* A pid that is given out again comes with a later start time. *)
Launch(p, prog) ==
  /\ ~ Running(p)
  /\ proc' = [proc EXCEPT ![p] = [prog |-> prog, born |-> MaxChanges - changes + 2,
                                  perf |-> FALSE]]
  /\ quiet' = "changed"
  /\ UNCHANGED docker
  /\ Changes

PerfAppears(p) ==
  /\ Running(p)
  /\ ~ proc[p].perf
  /\ proc' = [proc EXCEPT ![p].perf = TRUE]
  /\ quiet' = "changed"
  /\ UNCHANGED docker
  /\ Changes

Exit(p) ==
  /\ Running(p)
  /\ proc' = [proc EXCEPT ![p] = NoProcess]
  /\ quiet' = "changed"
  /\ UNCHANGED docker
  /\ Changes

(* A socket that is missing when apm2go starts is never looked for again. *)
DockerTurns ==
  /\ docker # "absent"
  /\ docker' = IF docker = "up" THEN "down" ELSE "up"
  /\ UNCHANGED <<proc, quiet>>
  /\ Changes

(* cacheTTL passes. *)
Expire(c) ==
  /\ c \in fresh
  /\ fresh' = fresh \ {c}
  /\ UNCHANGED <<proc, changes, docker, cache, scan, report, serving, bound, quiet>>

(* The receiver's servers exist. *)
Serve ==
  /\ ~ serving
  /\ serving' = TRUE
  /\ UNCHANGED <<proc, changes, docker, cache, fresh, scan, report, bound, quiet>>

-----------------------------------------------------------------------------
(* Scanner.Scan, called by reconcile.                                      *)

ReadDir ==
  /\ scan.pc = "idle"
  /\ scan' = [Idle EXCEPT !.pc = "inspect", !.todo = {p \in Pid : Running(p)}]
  /\ quiet' = IF quiet = "changed" THEN "begun" ELSE quiet
  /\ UNCHANGED <<proc, changes, docker, cache, fresh, report, serving, bound>>

(* isJVM *)
IsJVM(prog) == prog.exe \in {"java", "embeds libjvm"}

(* Inspect: the process may be gone, or not be a JVM. *)
Inspect(p) ==
  /\ scan.pc = "inspect"
  /\ p \in scan.todo
  /\ scan' = IF Running(p) /\ IsJVM(proc[p].prog)
             THEN [scan EXCEPT !.pc = "identify", !.todo = @ \ {p},
                    !.jvm = [pid |-> p, told |-> proc[p].prog.said, start |-> 0,
                             container |-> NoContainer, unit |-> FALSE,
                             gateway |-> NoGateway, info |-> "none",
                             versioned |-> FALSE, source |-> "pid"]]
             ELSE [scan EXCEPT !.todo = @ \ {p}]
  /\ UNCHANGED <<proc, changes, docker, cache, fresh, report, serving, bound, quiet>>

(* startTime: the zero time where neither stat nor the directory is there. *)
StartTime(p) == IF Running(p) THEN proc[p].born ELSE 0

(* resolveGateway: the default route of the process's network namespace,   *)
(* which it shares with its container; none is needed in apm2go's own.     *)
ResolveGateway(p) == GatewayOf[proc[p].prog.container]

(* readStatus, startTime, readCgroup, detectNamespace, resolveGateway: of  *)
(* whoever has the pid by now.  What cannot be read stays at its zero      *)
(* value.                                                                  *)
Identify ==
  /\ scan.pc = "identify"
  /\ LET p == scan.jvm.pid
     IN scan' = IF ~ Running(p)
                THEN [scan EXCEPT !.pc = "resolve", !.jvm.start = StartTime(p)]
                ELSE [scan EXCEPT !.pc = "resolve", !.jvm.start = StartTime(p),
                        !.jvm.container = proc[p].prog.container,
                        !.jvm.unit = proc[p].prog.unit, !.jvm.gateway = ResolveGateway(p)]
  /\ UNCHANGED <<proc, changes, docker, cache, fresh, report, serving, bound, quiet>>

(* Resolver.Resolve past the cache: Docker's answer, or else the cgroup    *)
(* source's, which has no name.                                            *)
Lookup(c) == IF docker = "up" /\ c \in Known THEN "named" ELSE "bare"

(* Fault: an answer without a name is kept for good. *)
ResolveKeepsBare(c) ==
  IF cache[c] = "bare" \/ c \in fresh THEN cache[c] ELSE Lookup(c)

(* Resolver.Resolve *)
Resolve(c) == IF c \in fresh THEN cache[c] ELSE Lookup(c)

(* resolveContainer *)
ResolveContainer ==
  /\ scan.pc = "resolve"
  /\ LET c == scan.jvm.container
     IN IF c = NoContainer
        THEN /\ scan' = [scan EXCEPT !.pc = "perf"]
             /\ UNCHANGED <<cache, fresh>>
        ELSE /\ scan' = [scan EXCEPT !.pc = "perf", !.jvm.info = Resolve(c)]
             /\ cache' = [cache EXCEPT ![c] = Resolve(c)]
             /\ fresh' = fresh \cup {c}
  /\ UNCHANGED <<proc, changes, docker, report, serving, bound, quiet>>

(* applyPerfData: flags are added to those of the command line, the entry  *)
(* point counts only where the command line has none.                      *)
Overlay(told, perf) ==
  told \cup (perf \cap Flags)
       \cup (IF told \cap EntryPoints = {} THEN perf \cap EntryPoints ELSE {})

(* Whether a rule of deriveServiceName yields a name. *)
Applies(rule, jvm) ==
  \/ rule \in jvm.told
  \/ rule = "container" /\ jvm.info = "named"
  \/ rule = "unit" /\ jvm.unit
  \/ rule = "pid"

(* Fault: the jar outranks the container. *)
DeriveServiceNameJarFirst(jvm) ==
  IF "jar" \in jvm.told /\ jvm.told \cap {"otel", "spring"} = {} THEN "jar"
  ELSE Rules[CHOOSE i \in DOMAIN Rules :
         Applies(Rules[i], jvm) /\ \A j \in 1 .. i - 1 : ~ Applies(Rules[j], jvm)]

(* deriveServiceName: the first rule that applies. *)
DeriveServiceName(jvm) ==
  Rules[CHOOSE i \in DOMAIN Rules :
          Applies(Rules[i], jvm) /\ \A j \in 1 .. i - 1 : ~ Applies(Rules[j], jvm)]

(* The end of Inspect. *)
ReadPerfData ==
  /\ scan.pc = "perf"
  /\ LET now == proc[scan.jvm.pid]
         jvm == IF now # NoProcess /\ IsJVM(now.prog) /\ now.perf
                THEN [scan.jvm EXCEPT !.told = Overlay(@, now.prog.perf), !.versioned = TRUE]
                ELSE scan.jvm
     IN scan' = [scan EXCEPT !.pc = "inspect", !.jvm = NoJVM,
                   !.found = @ \cup {[jvm EXCEPT !.source = DeriveServiceName(jvm)]}]
  /\ UNCHANGED <<proc, changes, docker, cache, fresh, report, serving, bound, quiet>>

ScanReturns ==
  /\ scan.pc = "inspect"
  /\ scan.todo = {}
  /\ scan' = [scan EXCEPT !.pc = "extend"]
  /\ report' = scan.found
  /\ quiet' = IF quiet = "begun" THEN "seen" ELSE quiet
  /\ UNCHANGED <<proc, changes, docker, cache, fresh, serving, bound>>

-----------------------------------------------------------------------------
(* Receiver.ListenOnGateway, for each JVM that was found.                  *)

(* binder.listenOn: an address is tried once, whatever comes of it. *)
ListenOn(t, g) == IF bound[t][g] = "unknown" THEN {"bound", "failed"} ELSE {bound[t][g]}

(* Fault: the second transport is extended only where the first was. *)
ExtendGrpcFirst(jvm) ==
  /\ scan.pc = "extend"
  /\ jvm \in scan.found
  /\ scan' = [scan EXCEPT !.found = @ \ {jvm}]
  /\ IF AutoBind /\ serving /\ jvm.gateway # NoGateway
     THEN \E g \in ListenOn("grpc", jvm.gateway), h \in ListenOn("http", jvm.gateway) :
            bound' = [bound EXCEPT !["grpc"][jvm.gateway] = g,
                        !["http"][jvm.gateway] = IF g = "bound" THEN h ELSE @]
     ELSE UNCHANGED bound
  /\ UNCHANGED <<proc, changes, docker, cache, fresh, report, serving, quiet>>

(* Until the servers exist, and in the other modes, nothing is bound. *)
Extend(jvm) ==
  /\ scan.pc = "extend"
  /\ jvm \in scan.found
  /\ scan' = [scan EXCEPT !.found = @ \ {jvm}]
  /\ IF AutoBind /\ serving /\ jvm.gateway # NoGateway
     THEN \E g \in ListenOn("grpc", jvm.gateway), h \in ListenOn("http", jvm.gateway) :
            bound' = [bound EXCEPT !["grpc"][jvm.gateway] = g, !["http"][jvm.gateway] = h]
     ELSE UNCHANGED bound
  /\ UNCHANGED <<proc, changes, docker, cache, fresh, report, serving, quiet>>

PassEnds ==
  /\ scan.pc = "extend"
  /\ scan.found = {}
  /\ scan' = Idle
  /\ UNCHANGED <<proc, changes, docker, cache, fresh, report, serving, bound, quiet>>

-----------------------------------------------------------------------------
Host ==
  \/ \E p \in Pid, prog \in Program : Launch(p, prog)
  \/ \E p \in Pid : PerfAppears(p) \/ Exit(p)
  \/ DockerTurns

Reconcile ==
  \/ ReadDir
  \/ \E p \in Pid : Inspect(p)
  \/ Identify \/ ResolveContainer \/ ReadPerfData \/ ScanReturns
  \/ \E jvm \in scan.found : Extend(jvm)
  \/ PassEnds

Next == Host \/ Reconcile \/ Serve \/ \E c \in Container : Expire(c)

(* The poll loop runs, time passes, and the receiver starts.  Nothing is   *)
(* assumed of processes and of Docker.                                     *)
Fairness ==
  /\ WF_vars(Reconcile)
  /\ WF_vars(Serve)
  /\ \A c \in Container : WF_vars(Expire(c))

Spec == Init /\ [][Next]_vars /\ Fairness
-----------------------------------------------------------------------------
(* Properties.                                                             *)

TypeOK ==
  /\ proc \in [Pid -> Process \cup {NoProcess}]
  /\ changes \in 0 .. MaxChanges
  /\ docker \in {"absent", "up", "down"}
  /\ cache \in [Container -> {"none", "bare", "named"}]
  /\ fresh \subseteq Container
  /\ scan \in ScanState
  /\ report \subseteq JVM
  /\ serving \in BOOLEAN
  /\ bound \in [Transport -> [Gateway -> {"unknown", "bound", "failed"}]]
  /\ quiet \in {"changed", "begun", "seen"}

Hosted == {p \in Pid : Running(p) /\ IsJVM(proc[p].prog)}

(* What a process tells about itself by its arguments and its perf data. *)
Tells(p) ==
  {r \in Flags \cup EntryPoints :
     \/ r \in proc[p].prog.said
     \/ /\ proc[p].perf
        /\ r \in proc[p].prog.perf
        /\ r \in EntryPoints => EntryPoints \cap proc[p].prog.said = {}}

(* The rules that have a name for a process, by what the host tells of it  *)
(* and by what is held about its container.                                *)
Named(jvm) ==
  Tells(jvm.pid) \cup {"pid"}
    \cup (IF jvm.info = "named" THEN {"container"} ELSE {})
    \cup (IF proc[jvm.pid].prog.unit THEN {"unit"} ELSE {})

(* One scan of a host that stood still reports every JVM once, with the    *)
(* start time that identifies it, its container, gateway, unit and         *)
(* arguments, and names it by the first of the rules that has a name for   *)
(* it, although what the rules go by was read file after file and Docker's *)
(* answer may be an old one.                                               *)
ReportMatchesHost ==
  quiet = "seen" =>
    /\ {jvm.pid : jvm \in report} = Hosted
    /\ \A j, k \in report : j.pid = k.pid => j = k
    /\ \A jvm \in report :
         LET now == proc[jvm.pid]
         IN /\ jvm.start = now.born
            /\ jvm.container = now.prog.container
            /\ jvm.gateway = GatewayOf[now.prog.container]
            /\ jvm.unit = now.prog.unit
            /\ jvm.told = Tells(jvm.pid)
            /\ jvm.versioned = now.perf
            /\ jvm.info = "none" <=> now.prog.container = NoContainer
            /\ \E i \in DOMAIN Rules :
                 /\ jvm.source = Rules[i] /\ Rules[i] \in Named(jvm)
                 /\ \A j \in 1 .. i - 1 : Rules[j] \notin Named(jvm)

(* Docker may have been down when a container was first seen, and that     *)
(* answer is cached.  Once it stays up, the containers it knows are named  *)
(* by what their operators chose.                                          *)
NamesSettle ==
  <>[](docker = "up" =>
         \A jvm \in report : jvm.container \in Known =>
           jvm.source \in {"otel", "spring", "container"})

(* Whatever order the receiver and the inventory start in, both transports *)
(* end up at, or have been refused, every gateway in use.                  *)
GatewaysSettle ==
  AutoBind => <>[](\A jvm \in report, t \in Transport :
                 jvm.gateway # NoGateway => bound[t][jvm.gateway] # "unknown")
=============================================================================
