------------------------ MODULE JvmDiscoveryProofs ------------------------
(***************************************************************************)
(* Proofs about JvmDiscovery: one scan of a host that stands still reports *)
(* its JVMs exactly.                                                       *)
(***************************************************************************)
EXTENDS JvmDiscovery, TLAPS

Filling == {"identify", "resolve", "perf"}

(* While Inspect is at work there is a description to fill in. *)
TypeInv == TypeOK /\ (scan.pc \in Filling => scan.jvm \in JVM)

-----------------------------------------------------------------------------
(* Names.                                                                  *)

(* deriveServiceName takes a rule that applies and that no other precedes. *)
LEMMA DeriveFirst ==
  ASSUME NEW jvm
  PROVE  \E i \in 1 .. 7 :
           /\ DeriveServiceName(jvm) = Rules[i] /\ Applies(Rules[i], jvm)
           /\ \A j \in 1 .. i - 1 : ~ Applies(Rules[j], jvm)
<1> DEFINE A(i) == Applies(Rules[i], jvm)
           First(i) == A(i) /\ \A j \in 1 .. i - 1 : ~ A(j)
<1>1. DOMAIN Rules = 1 .. 7 /\ Rules[7] = "pid"
  BY DEF Rules
<1>2. A(7)
  BY <1>1 DEF Applies
<1>3. \E i \in 1 .. 7 : First(i)
  <2> HIDE DEF A
  <2>1. CASE A(1)
    BY <2>1
  <2>2. CASE ~ A(1) /\ A(2)
    BY <2>2
  <2>3. CASE ~ A(1) /\ ~ A(2) /\ A(3)
    BY <2>3
  <2>4. CASE ~ A(1) /\ ~ A(2) /\ ~ A(3) /\ A(4)
    BY <2>4
  <2>5. CASE ~ A(1) /\ ~ A(2) /\ ~ A(3) /\ ~ A(4) /\ A(5)
    BY <2>5
  <2>6. CASE ~ A(1) /\ ~ A(2) /\ ~ A(3) /\ ~ A(4) /\ ~ A(5) /\ A(6)
    BY <2>6
  <2>7. CASE ~ A(1) /\ ~ A(2) /\ ~ A(3) /\ ~ A(4) /\ ~ A(5) /\ ~ A(6)
    BY <1>2, <2>7
  <2> QED BY <2>1, <2>2, <2>3, <2>4, <2>5, <2>6, <2>7
<1>4. DeriveServiceName(jvm) = Rules[CHOOSE i \in 1 .. 7 : First(i)]
  BY <1>1 DEF DeriveServiceName
<1> DEFINE k == CHOOSE i \in 1 .. 7 : First(i)
<1>5. k \in 1 .. 7 /\ First(k)
  <2> HIDE DEF First
  <2> QED BY <1>3
<1> QED BY <1>4, <1>5

(* So the name comes from one of the rules. *)
LEMMA DeriveType ==
  ASSUME NEW jvm
  PROVE  DeriveServiceName(jvm) \in {Rules[i] : i \in 1 .. Len(Rules)}
<1>1. Len(Rules) = 7
  BY DEF Rules
<1> QED BY <1>1, DeriveFirst

(* What a rule goes by in a description that agrees with the host is what  *)
(* the host has for it.                                                    *)
LEMMA AppliesNamed ==
  ASSUME NEW jvm, jvm.told = Tells(jvm.pid), jvm.unit = proc[jvm.pid].prog.unit,
         NEW i \in 1 .. 7
  PROVE  Applies(Rules[i], jvm) <=> Rules[i] \in Named(jvm)
BY DEF Applies, Named

-----------------------------------------------------------------------------
(* Types.                                                                  *)

(* What runs has the fields of a process. *)
LEMMA RunningIsProcess ==
  ASSUME NEW p \in Pid, TypeOK, proc[p] # NoProcess
  PROVE  /\ proc[p] \in Process
         /\ proc[p].prog \in ProgramType
         /\ proc[p].born \in 1 .. MaxChanges + 1
         /\ proc[p].perf \in BOOLEAN
<1>1. proc[p] \in Process
  BY DEF TypeOK
<1> QED BY <1>1, ProgramAssumption DEF Process

(* The description that Inspect starts from. *)
Blank(p) ==
  [pid |-> p, told |-> proc[p].prog.said, start |-> 0, container |-> NoContainer,
   unit |-> FALSE, gateway |-> NoGateway, info |-> "none", versioned |-> FALSE,
   source |-> "pid"]

(* What ReadPerfData reports. *)
Completed ==
  LET now == proc[scan.jvm.pid]
      jvm == IF now # NoProcess /\ IsJVM(now.prog) /\ now.perf
             THEN [scan.jvm EXCEPT !.told = Overlay(scan.jvm.told, now.prog.perf),
                                   !.versioned = TRUE]
             ELSE scan.jvm
  IN [jvm EXCEPT !.source = DeriveServiceName(jvm)]

(* What the counters file adds to a JVM leaves it one. *)
LEMMA CompletedType ==
  ASSUME TypeOK, scan.jvm \in JVM
  PROVE  Completed \in JVM
<1> DEFINE now == proc[scan.jvm.pid]
           jvm == IF now # NoProcess /\ IsJVM(now.prog) /\ now.perf
                  THEN [scan.jvm EXCEPT !.told = Overlay(scan.jvm.told, now.prog.perf),
                                        !.versioned = TRUE]
                  ELSE scan.jvm
<1>1. scan.jvm.pid \in Pid
  BY DEF JVM
<1>2. jvm \in JVM
  <2>1. CASE now # NoProcess /\ IsJVM(now.prog) /\ now.perf
    <3>1. now.prog.perf \subseteq Flags \cup EntryPoints
      BY <1>1, <2>1, RunningIsProcess DEF ProgramType
    <3>2. Overlay(scan.jvm.told, now.prog.perf) \subseteq Flags \cup EntryPoints
      BY <3>1 DEF Overlay, JVM
    <3>3. jvm = [scan.jvm EXCEPT !.told = Overlay(scan.jvm.told, now.prog.perf),
                                 !.versioned = TRUE]
      BY <2>1
    <3> QED BY <3>2, <3>3 DEF JVM
  <2>2. CASE ~ (now # NoProcess /\ IsJVM(now.prog) /\ now.perf)
    BY <2>2
  <2> QED BY <2>1, <2>2
<1>3. DeriveServiceName(jvm) \in {Rules[i] : i \in 1 .. Len(Rules)}
  BY DeriveType
<1>4. Completed = [jvm EXCEPT !.source = DeriveServiceName(jvm)]
  BY DEF Completed
<1> HIDE DEF jvm
<1> QED BY <1>2, <1>3, <1>4 DEF JVM

(* Every variable keeps its type, the description being filled in too. *)
THEOREM TypeCorrect == Spec => []TypeInv
<1>1. Init => TypeInv
  <2> SUFFICES ASSUME Init PROVE TypeInv
    OBVIOUS
  <2>1. scan \in ScanState /\ scan.pc = "idle"
    BY DEF Init, Idle, ScanState
  <2>2. proc \in [Pid -> Process \cup {NoProcess}]
    BY DEF Init
  <2>3. changes \in 0 .. MaxChanges
    BY BoundsAssumption DEF Init
  <2>4. /\ bound \in [Transport -> [Gateway -> {"unknown", "bound", "failed"}]]
        /\ cache \in [Container -> {"none", "bare", "named"}]
    BY DEF Init
  <2>5. /\ docker \in {"absent", "up", "down"} /\ fresh \subseteq Container
        /\ report \subseteq JVM /\ serving \in BOOLEAN
        /\ quiet \in {"changed", "begun", "seen"}
    BY DEF Init
  <2> QED BY <2>1, <2>2, <2>3, <2>4, <2>5 DEF TypeInv, TypeOK, Filling
<1>2. TypeInv /\ [Next]_vars => TypeInv'
  <2> SUFFICES ASSUME TypeInv, [Next]_vars PROVE TypeInv'
    OBVIOUS
  <2> USE DEF Filling
  <2>0. TypeOK /\ scan \in ScanState
    BY DEF TypeInv, TypeOK
  <2>1. ASSUME Changes, proc' \in [Pid -> Process \cup {NoProcess}],
               docker' \in {"absent", "up", "down"},
               quiet' \in {"changed", "begun", "seen"}
        PROVE  TypeInv'
    <3>1. changes' \in 0 .. MaxChanges
      BY <2>1, BoundsAssumption DEF Changes, TypeInv, TypeOK
    <3> QED BY <2>1, <3>1 DEF Changes, TypeInv, TypeOK
  <2>2. ASSUME NEW p \in Pid, NEW prog \in Program, Launch(p, prog) PROVE TypeInv'
    <3>1. MaxChanges - changes + 2 \in 1 .. MaxChanges + 1
      BY <2>2, BoundsAssumption DEF Launch, Changes, TypeInv, TypeOK
    <3>2. [prog |-> prog, born |-> MaxChanges - changes + 2, perf |-> FALSE] \in Process
      BY <3>1 DEF Process
    <3>3. proc' \in [Pid -> Process \cup {NoProcess}]
      BY <2>2, <3>2 DEF Launch, TypeInv, TypeOK
    <3> QED BY <2>1, <2>2, <3>3 DEF Launch, TypeInv, TypeOK
  <2>3. ASSUME NEW p \in Pid, PerfAppears(p) PROVE TypeInv'
    <3>1. proc[p] \in Process
      BY <2>0, <2>3, RunningIsProcess DEF PerfAppears, Running
    <3>2. [proc[p] EXCEPT !.perf = TRUE] \in Process
      BY <3>1 DEF Process
    <3>3. proc' = [proc EXCEPT ![p] = [proc[p] EXCEPT !.perf = TRUE]]
      BY <2>3 DEF PerfAppears
    <3>4. proc' \in [Pid -> Process \cup {NoProcess}]
      BY <3>2, <3>3 DEF TypeInv, TypeOK
    <3> QED BY <2>1, <2>3, <3>4 DEF PerfAppears, TypeInv, TypeOK
  <2>4. ASSUME NEW p \in Pid, Exit(p) PROVE TypeInv'
    <3>1. proc' \in [Pid -> Process \cup {NoProcess}]
      BY <2>4 DEF Exit, TypeInv, TypeOK
    <3> QED BY <2>1, <2>4, <3>1 DEF Exit, TypeInv, TypeOK
  <2>5. CASE DockerTurns
    BY <2>1, <2>5 DEF DockerTurns, TypeInv, TypeOK
  <2>6. ASSUME NEW c \in Container, Expire(c) PROVE TypeInv'
    BY <2>6 DEF Expire, TypeInv, TypeOK
  <2>7. CASE Serve
    BY <2>7 DEF Serve, TypeInv, TypeOK
  <2>8. CASE ReadDir
    <3>1. scan' = [pc |-> "inspect", todo |-> {p \in Pid : Running(p)},
                   jvm |-> NoJVM, found |-> {}]
      BY <2>8 DEF ReadDir, Idle
    <3>2. scan' \in ScanState /\ scan'.pc = "inspect"
      BY <3>1 DEF ScanState
    <3> QED BY <2>8, <3>2 DEF ReadDir, TypeInv, TypeOK
  <2>9. ASSUME NEW p \in Pid, Inspect(p) PROVE TypeInv'
    <3>1. CASE Running(p) /\ IsJVM(proc[p].prog)
      <4>1. proc[p].prog.said \subseteq Flags \cup EntryPoints
        BY <2>0, <3>1, RunningIsProcess DEF Running, ProgramType
      <4>2. "pid" \in {Rules[i] : i \in 1 .. Len(Rules)}
        <5>1. Len(Rules) = 7 /\ Rules[7] = "pid"
          BY DEF Rules
        <5> QED BY <5>1
      <4>3. Blank(p) \in JVM
        BY <4>1, <4>2, BoundsAssumption DEF Blank, JVM
      <4>4. scan' = [scan EXCEPT !.pc = "identify", !.todo = scan.todo \ {p},
                                 !.jvm = Blank(p)]
        BY <2>9, <3>1 DEF Inspect, Blank
      <4>5. scan' \in ScanState /\ scan'.jvm \in JVM
        BY <2>0, <4>3, <4>4 DEF ScanState
      <4> QED BY <2>9, <4>5 DEF Inspect, TypeInv, TypeOK
    <3>2. CASE ~ (Running(p) /\ IsJVM(proc[p].prog))
      <4>1. scan' = [scan EXCEPT !.todo = scan.todo \ {p}] /\ scan.pc = "inspect"
        BY <2>9, <3>2 DEF Inspect
      <4>2. scan' \in ScanState /\ scan'.pc = "inspect"
        BY <2>0, <4>1 DEF ScanState
      <4> QED BY <2>9, <4>2 DEF Inspect, TypeInv, TypeOK
    <3> QED BY <3>1, <3>2
  <2>10. CASE Identify
    <3> DEFINE now == proc[scan.jvm.pid]
    <3>1. scan.jvm \in JVM /\ scan.jvm.pid \in Pid
      BY <2>10 DEF Identify, TypeInv, JVM
    <3>2. StartTime(scan.jvm.pid) \in 0 .. MaxChanges + 1
      BY <2>0, <3>1, RunningIsProcess, BoundsAssumption DEF StartTime, Running
    <3>3. CASE now = NoProcess
      <4>1. scan' = [scan EXCEPT !.pc = "resolve",
                       !.jvm = [scan.jvm EXCEPT !.start = StartTime(scan.jvm.pid)]]
        BY <2>10, <3>3 DEF Identify, Running
      <4>2. [scan.jvm EXCEPT !.start = StartTime(scan.jvm.pid)] \in JVM
        BY <3>1, <3>2 DEF JVM
      <4>3. scan' \in ScanState /\ scan'.jvm \in JVM
        BY <2>0, <4>1, <4>2 DEF ScanState
      <4> QED BY <2>10, <4>3 DEF Identify, TypeInv, TypeOK
    <3>4. CASE now # NoProcess
      <4>1. scan' = [scan EXCEPT !.pc = "resolve",
                       !.jvm = [scan.jvm EXCEPT !.start = StartTime(scan.jvm.pid),
                                  !.container = now.prog.container,
                                  !.unit = now.prog.unit,
                                  !.gateway = GatewayOf[now.prog.container]]]
        BY <2>10, <3>4 DEF Identify, Running, ResolveGateway
      <4>2. /\ now.prog.container \in Container \cup {NoContainer}
            /\ now.prog.unit \in BOOLEAN
        BY <2>0, <3>1, <3>4, RunningIsProcess DEF ProgramType
      <4>3. GatewayOf[now.prog.container] \in Gateway \cup {NoGateway}
        BY <4>2, ContainerAssumption
      <4>4. scan'.jvm \in JVM
        <5>1. scan'.jvm = [scan.jvm EXCEPT !.start = StartTime(scan.jvm.pid),
                                  !.container = now.prog.container,
                                  !.unit = now.prog.unit,
                                  !.gateway = GatewayOf[now.prog.container]]
          BY <2>0, <4>1 DEF ScanState
        <5> QED BY <3>1, <3>2, <4>2, <4>3, <5>1 DEF JVM
      <4>5. scan' \in ScanState
        BY <2>0, <4>1, <4>4 DEF ScanState
      <4> QED BY <2>10, <4>4, <4>5 DEF Identify, TypeInv, TypeOK
    <3> QED BY <3>3, <3>4
  <2>11. CASE ResolveContainer
    <3> DEFINE c == scan.jvm.container
    <3>1. scan.jvm \in JVM /\ c \in Container \cup {NoContainer}
      BY <2>11 DEF ResolveContainer, TypeInv, JVM
    <3>2. CASE c = NoContainer
      <4>1. scan' = [scan EXCEPT !.pc = "perf"] /\ UNCHANGED <<cache, fresh>>
        BY <2>11, <3>2 DEF ResolveContainer
      <4>2. scan' \in ScanState /\ scan'.jvm \in JVM
        BY <2>0, <3>1, <4>1 DEF ScanState
      <4> QED BY <2>11, <4>1, <4>2 DEF ResolveContainer, TypeInv, TypeOK
    <3>3. CASE c # NoContainer
      <4>1. /\ scan' = [scan EXCEPT !.pc = "perf", !.jvm = [scan.jvm EXCEPT !.info = Resolve(c)]]
            /\ cache' = [cache EXCEPT ![c] = Resolve(c)]
            /\ fresh' = fresh \cup {c}
        BY <2>11, <3>3 DEF ResolveContainer
      <4>2. Resolve(c) \in {"none", "bare", "named"}
        BY <3>1, <3>3, <2>0 DEF Resolve, Lookup, TypeOK
      <4>3. [scan.jvm EXCEPT !.info = Resolve(c)] \in JVM
        BY <3>1, <4>2 DEF JVM
      <4>4. scan' \in ScanState /\ scan'.jvm \in JVM
        BY <2>0, <4>1, <4>3 DEF ScanState
      <4>5. cache' \in [Container -> {"none", "bare", "named"}] /\ fresh' \subseteq Container
        BY <2>0, <3>1, <3>3, <4>1, <4>2 DEF TypeOK
      <4> QED BY <2>11, <4>4, <4>5 DEF ResolveContainer, TypeInv, TypeOK
    <3> QED BY <3>2, <3>3
  <2>12. CASE ReadPerfData
    <3>1. scan.jvm \in JVM
      BY <2>12 DEF ReadPerfData, TypeInv
    <3>2. Completed \in JVM
      BY <2>0, <3>1, CompletedType
    <3>3. scan' = [scan EXCEPT !.pc = "inspect", !.jvm = NoJVM,
                               !.found = scan.found \cup {Completed}]
      <4>1. [scan.jvm EXCEPT !.told = Overlay(@, proc[scan.jvm.pid].prog.perf),
                             !.versioned = TRUE]
            = [scan.jvm EXCEPT !.told = Overlay(scan.jvm.told, proc[scan.jvm.pid].prog.perf),
                               !.versioned = TRUE]
        OBVIOUS
      <4> QED BY <2>12, <4>1 DEF ReadPerfData, Completed
    <3>4. scan' \in ScanState /\ scan'.pc = "inspect"
      BY <2>0, <3>2, <3>3 DEF ScanState
    <3> QED BY <2>12, <3>4 DEF ReadPerfData, TypeInv, TypeOK
  <2>13. CASE ScanReturns
    <3>1. scan' = [scan EXCEPT !.pc = "extend"] /\ report' = scan.found
      BY <2>13 DEF ScanReturns
    <3>2. scan' \in ScanState /\ scan'.pc = "extend" /\ report' \subseteq JVM
      BY <2>0, <3>1 DEF ScanState
    <3> QED BY <2>13, <3>2 DEF ScanReturns, TypeInv, TypeOK
  <2>14. ASSUME NEW jvm \in scan.found, Extend(jvm) PROVE TypeInv'
    <3>1. scan' = [scan EXCEPT !.found = scan.found \ {jvm}] /\ scan.pc = "extend"
      BY <2>14 DEF Extend
    <3>2. scan' \in ScanState /\ scan'.pc = "extend"
      BY <2>0, <3>1 DEF ScanState
    <3>3. bound' \in [Transport -> [Gateway -> {"unknown", "bound", "failed"}]]
      <4>1. CASE UNCHANGED bound
        BY <2>0, <4>1 DEF TypeOK
      <4>2. CASE jvm.gateway # NoGateway
                 /\ \E g \in ListenOn("grpc", jvm.gateway), h \in ListenOn("http", jvm.gateway) :
                      bound' = [bound EXCEPT !["grpc"][jvm.gateway] = g,
                                             !["http"][jvm.gateway] = h]
        <5>1. jvm.gateway \in Gateway
          BY <2>0, <4>2 DEF ScanState, JVM
        <5>2. PICK g \in ListenOn("grpc", jvm.gateway), h \in ListenOn("http", jvm.gateway) :
                bound' = [bound EXCEPT !["grpc"][jvm.gateway] = g, !["http"][jvm.gateway] = h]
          BY <4>2
        <5>3. g \in {"unknown", "bound", "failed"} /\ h \in {"unknown", "bound", "failed"}
          BY <2>0, <5>1 DEF ListenOn, TypeOK, Transport
        <5> QED BY <2>0, <5>1, <5>2, <5>3 DEF TypeOK, Transport
      <4> QED BY <2>14, <4>1, <4>2 DEF Extend
    <3> QED BY <2>14, <3>2, <3>3 DEF Extend, TypeInv, TypeOK
  <2>15. CASE PassEnds
    <3>1. scan' \in ScanState /\ scan'.pc = "idle"
      BY <2>15 DEF PassEnds, Idle, ScanState
    <3> QED BY <2>15, <3>1 DEF PassEnds, TypeInv, TypeOK
  <2>16. CASE UNCHANGED vars
    BY <2>16 DEF vars, TypeInv, TypeOK
  <2> QED BY <2>2, <2>3, <2>4, <2>5, <2>6, <2>7, <2>8, <2>9, <2>10, <2>11, <2>12, <2>13,
             <2>14, <2>15, <2>16 DEF Next, Host, Reconcile
<1> QED BY <1>1, <1>2, PTL DEF Spec

-----------------------------------------------------------------------------
(* The report.                                                             *)

(* jvm says of a process what there is to say. *)
Describes(jvm) ==
  LET now == proc[jvm.pid]
  IN /\ jvm.start = now.born
     /\ jvm.container = now.prog.container
     /\ jvm.gateway = GatewayOf[now.prog.container]
     /\ jvm.unit = now.prog.unit
     /\ jvm.told = Tells(jvm.pid)
     /\ jvm.versioned = now.perf
     /\ jvm.info = "none" <=> now.prog.container = NoContainer
     /\ \E i \in DOMAIN Rules :
          /\ jvm.source = Rules[i] /\ Rules[i] \in Named(jvm)
          /\ \A j \in 1 .. i - 1 : Rules[j] \notin Named(jvm)

(* S reports the processes P, each of them once. *)
Reports(S, P) ==
  /\ {jvm.pid : jvm \in S} = P
  /\ \A j, k \in S : j.pid = k.pid => j = k
  /\ \A jvm \in S : Describes(jvm)

Current == IF scan.pc \in Filling THEN {scan.jvm.pid} ELSE {}

(* How far a scan has come on a host that has not changed since it began:  *)
(* what it found are the JVMs among the processes it has been to, and the  *)
(* description in hand is right as far as it goes.                         *)
Progress ==
  /\ \A c \in fresh : cache[c] # "none"
  /\ quiet # "changed" =>
       /\ scan.pc \in {"inspect"} \cup Filling =>
            Reports(scan.found, Hosted \ (scan.todo \cup Current))
       /\ scan.pc \in Filling =>
            LET now == proc[scan.jvm.pid]
            IN /\ scan.jvm.pid \in Hosted \ scan.todo
               /\ scan.jvm.told = now.prog.said
               /\ scan.jvm.versioned = FALSE
               /\ scan.pc \in {"resolve", "perf"} =>
                    /\ scan.jvm.start = now.born
                    /\ scan.jvm.container = now.prog.container
                    /\ scan.jvm.gateway = GatewayOf[now.prog.container]
                    /\ scan.jvm.unit = now.prog.unit
               /\ scan.pc \in {"identify", "resolve"} => scan.jvm.info = "none"
               /\ scan.pc = "perf" =>
                    (scan.jvm.info = "none" <=> now.prog.container = NoContainer)
       /\ quiet = "begun" => scan.pc \in {"inspect"} \cup Filling
       /\ quiet = "seen" => Reports(report, Hosted)

(* The command line overlaid with the perf data is what the process tells. *)
LEMMA OverlayTells ==
  ASSUME NEW p \in Pid, TypeOK, proc[p] # NoProcess
  PROVE  /\ proc[p].perf = TRUE => Overlay(proc[p].prog.said, proc[p].prog.perf) = Tells(p)
         /\ proc[p].perf = FALSE => proc[p].prog.said = Tells(p)
<1>1. /\ proc[p].prog.said \subseteq Flags \cup EntryPoints
      /\ proc[p].prog.perf \subseteq Flags \cup EntryPoints
  BY RunningIsProcess DEF ProgramType
<1>2. Flags \cap EntryPoints = {}
  BY DEF Flags, EntryPoints
<1> QED BY <1>1, <1>2 DEF Overlay, Tells

(* On a quiet host the end of Inspect describes the process. *)
LEMMA CompletedDescribes ==
  ASSUME TypeInv, Progress, quiet # "changed", scan.pc = "perf"
  PROVE  Completed.pid = scan.jvm.pid /\ Describes(Completed)
<1> DEFINE p == scan.jvm.pid
           now == proc[p]
           jvm == IF now # NoProcess /\ IsJVM(now.prog) /\ now.perf
                  THEN [scan.jvm EXCEPT !.told = Overlay(scan.jvm.told, now.prog.perf),
                                        !.versioned = TRUE]
                  ELSE scan.jvm
<1>1. /\ p \in Pid /\ now # NoProcess /\ IsJVM(now.prog)
      /\ scan.jvm.told = now.prog.said /\ scan.jvm.versioned = FALSE
      /\ scan.jvm.start = now.born /\ scan.jvm.container = now.prog.container
      /\ scan.jvm.gateway = GatewayOf[now.prog.container]
      /\ scan.jvm.unit = now.prog.unit
      /\ scan.jvm.info = "none" <=> now.prog.container = NoContainer
  BY DEF Progress, Filling, Hosted, Running
<1>2. TypeOK /\ scan.jvm \in JVM /\ now.perf \in BOOLEAN
  BY <1>1, RunningIsProcess DEF TypeInv, Filling
<1>3. /\ jvm \in JVM /\ jvm.pid = p /\ jvm.start = scan.jvm.start
      /\ jvm.container = scan.jvm.container /\ jvm.gateway = scan.jvm.gateway
      /\ jvm.info = scan.jvm.info /\ jvm.told = Tells(p) /\ jvm.versioned = now.perf
      /\ jvm.unit = scan.jvm.unit
  <2>1. CASE now.perf = TRUE
    <3>1. jvm = [scan.jvm EXCEPT !.told = Overlay(scan.jvm.told, now.prog.perf),
                                 !.versioned = TRUE]
      BY <1>1, <2>1
    <3>2. Overlay(scan.jvm.told, now.prog.perf) = Tells(p)
      BY <1>1, <1>2, <2>1, OverlayTells
    <3>3. Tells(p) \subseteq Flags \cup EntryPoints
      BY DEF Tells
    <3> HIDE DEF jvm
    <3> QED BY <1>2, <2>1, <3>1, <3>2, <3>3 DEF JVM
  <2>2. CASE now.perf = FALSE
    <3>1. jvm = scan.jvm
      BY <2>2
    <3>2. now.prog.said = Tells(p)
      BY <1>1, <1>2, <2>2, OverlayTells
    <3> HIDE DEF jvm
    <3> QED BY <1>1, <1>2, <2>2, <3>1, <3>2
  <2> QED BY <1>2, <2>1, <2>2
<1>4. Completed = [jvm EXCEPT !.source = DeriveServiceName(jvm)]
  BY DEF Completed
<1>5. \E i \in 1 .. 7 :
        /\ DeriveServiceName(jvm) = Rules[i] /\ Applies(Rules[i], jvm)
        /\ \A j \in 1 .. i - 1 : ~ Applies(Rules[j], jvm)
  BY DeriveFirst
<1> HIDE DEF jvm
<1>6. /\ Completed.pid = p /\ Completed.start = jvm.start
      /\ Completed.container = jvm.container /\ Completed.gateway = jvm.gateway
      /\ Completed.info = jvm.info /\ Completed.told = jvm.told
      /\ Completed.versioned = jvm.versioned /\ Completed.unit = jvm.unit
      /\ Completed.source = DeriveServiceName(jvm)
  BY <1>3, <1>4 DEF JVM
<1>7. \A i \in 1 .. 7 : Applies(Rules[i], jvm) <=> Rules[i] \in Named(jvm)
  BY <1>1, <1>3, AppliesNamed
<1>8. Named(Completed) = Named(jvm)
  BY <1>3, <1>6 DEF Named
<1>9. DOMAIN Rules = 1 .. 7
  BY DEF Rules
<1>10. \E i \in DOMAIN Rules :
         /\ Completed.source = Rules[i] /\ Rules[i] \in Named(Completed)
         /\ \A j \in 1 .. i - 1 : Rules[j] \notin Named(Completed)
  <2>1. PICK i \in 1 .. 7 :
          /\ DeriveServiceName(jvm) = Rules[i] /\ Applies(Rules[i], jvm)
          /\ \A j \in 1 .. i - 1 : ~ Applies(Rules[j], jvm)
    BY <1>5
  <2>2. \A j \in 1 .. i - 1 : j \in 1 .. 7
    OBVIOUS
  <2> QED BY <1>6, <1>7, <1>8, <1>9, <2>1, <2>2
<1> QED BY <1>1, <1>3, <1>6, <1>10 DEF Describes

(* One scan of a host that stood still reports exactly its JVMs, as they   *)
(* are, each named by the first rule that has a name for it, whatever      *)
(* earlier scans picked up.                                                *)
THEOREM ReportCorrect == Spec => []ReportMatchesHost
<1>1. Init => Progress
  BY DEF Init, Progress
<1>2. TypeInv /\ TypeInv' /\ Progress /\ [Next]_vars => Progress'
  <2> SUFFICES ASSUME TypeInv, TypeInv', Progress, [Next]_vars PROVE Progress'
    OBVIOUS
  <2> USE DEF Filling
  <2>1. scan \in ScanState /\ quiet \in {"changed", "begun", "seen"}
    BY DEF TypeInv, TypeOK
  <2>2. ASSUME Changes, quiet' = "changed" PROVE Progress'
    BY <2>2 DEF Changes, Progress
  <2>3. ASSUME UNCHANGED <<proc, scan, report, quiet>>,
               \A c \in fresh' : cache'[c] # "none"
        PROVE  Progress'
    BY <2>3 DEF Progress, Reports, Describes, Current, Hosted, Tells, Named, Running
  <2>4. ASSUME NEW c \in Container, Expire(c) PROVE Progress'
    BY <2>3, <2>4 DEF Expire, Progress
  <2>5. CASE DockerTurns
    BY <2>3, <2>5 DEF DockerTurns, Changes, Progress
  <2>6. CASE Serve
    BY <2>3, <2>6 DEF Serve, Progress
  <2>7. ASSUME UNCHANGED <<proc, cache, fresh>>
        PROVE  /\ Hosted' = Hosted
               /\ \A c \in fresh' : cache'[c] # "none"
               /\ \A jvm : Describes(jvm)' <=> Describes(jvm)
    BY <2>7 DEF Progress, Hosted, Running, Describes, Tells, Named
  <2>8. CASE ReadDir
    <3>1. /\ scan'.pc = "inspect" /\ scan'.todo = {p \in Pid : Running(p)}
          /\ scan'.found = {} /\ UNCHANGED <<proc, cache, fresh, report>>
          /\ quiet' = IF quiet = "changed" THEN "begun" ELSE quiet
      BY <2>8 DEF ReadDir, Idle
    <3>2. Current' = {} /\ Hosted \ scan'.todo = {}
      BY <3>1 DEF Current, Hosted
    <3>3. Reports(scan.found, Hosted \ (scan.todo \cup Current))'
      BY <2>7, <3>1, <3>2 DEF Reports
    <3>4. quiet' = "seen" => Reports(report, Hosted)'
      BY <2>7, <3>1 DEF Progress, Reports
    <3> QED BY <2>7, <3>1, <3>3, <3>4 DEF Progress
  <2>9. ASSUME NEW p \in Pid, Inspect(p) PROVE Progress'
    <3>0. /\ scan.pc = "inspect" /\ p \in scan.todo
          /\ UNCHANGED <<proc, cache, fresh, report, quiet>>
      BY <2>9 DEF Inspect
    <3>1. CASE Running(p) /\ IsJVM(proc[p].prog)
      <4>1. /\ scan'.pc = "identify" /\ scan'.todo = scan.todo \ {p}
            /\ scan'.jvm = Blank(p) /\ scan'.found = scan.found
        BY <2>1, <2>9, <3>1 DEF Inspect, Blank, ScanState
      <4>2. /\ scan'.jvm.pid = p /\ scan'.jvm.told = proc[p].prog.said
            /\ scan'.jvm.versioned = FALSE /\ scan'.jvm.info = "none"
        BY <4>1 DEF Blank
      <4>3. scan'.todo \cup Current' = scan.todo \cup Current /\ p \in Hosted
        BY <3>0, <3>1, <4>1, <4>2 DEF Current, Hosted
      <4> QED BY <2>7, <3>0, <4>1, <4>2, <4>3 DEF Progress, Reports
    <3>2. CASE ~ (Running(p) /\ IsJVM(proc[p].prog))
      <4>1. /\ scan'.pc = "inspect" /\ scan'.todo = scan.todo \ {p}
            /\ scan'.found = scan.found
        BY <2>1, <2>9, <3>2 DEF Inspect, ScanState
      <4>2. Hosted \ (scan'.todo \cup Current') = Hosted \ (scan.todo \cup Current)
        BY <3>0, <3>2, <4>1 DEF Current, Hosted
      <4> QED BY <2>7, <3>0, <4>1, <4>2 DEF Progress, Reports
    <3> QED BY <3>1, <3>2
  <2>10. CASE Identify
    <3> DEFINE now == proc[scan.jvm.pid]
    <3>0. /\ scan.pc = "identify" /\ scan.jvm \in JVM
          /\ UNCHANGED <<proc, cache, fresh, report, quiet>>
      BY <2>10 DEF Identify, TypeInv
    <3>1. CASE quiet = "changed"
      BY <2>7, <3>0, <3>1 DEF Progress
    <3>2. CASE quiet # "changed"
      <4>1. now # NoProcess
        BY <3>0, <3>2 DEF Progress, Hosted, Running
      <4>2. scan' = [scan EXCEPT !.pc = "resolve",
                       !.jvm = [scan.jvm EXCEPT !.start = StartTime(scan.jvm.pid),
                                  !.container = now.prog.container,
                                  !.unit = now.prog.unit,
                                  !.gateway = GatewayOf[now.prog.container]]]
        BY <2>10, <4>1 DEF Identify, Running, ResolveGateway
      <4>3. /\ scan'.pc = "resolve" /\ scan'.todo = scan.todo /\ scan'.found = scan.found
            /\ scan'.jvm = [scan.jvm EXCEPT !.start = StartTime(scan.jvm.pid),
                                  !.container = now.prog.container,
                                  !.unit = now.prog.unit,
                                  !.gateway = GatewayOf[now.prog.container]]
        BY <2>1, <4>2 DEF ScanState
      <4>4. /\ scan'.jvm.pid = scan.jvm.pid /\ scan'.jvm.told = scan.jvm.told
            /\ scan'.jvm.versioned = scan.jvm.versioned /\ scan'.jvm.info = scan.jvm.info
            /\ scan'.jvm.start = StartTime(scan.jvm.pid)
            /\ scan'.jvm.container = now.prog.container
            /\ scan'.jvm.gateway = GatewayOf[now.prog.container]
            /\ scan'.jvm.unit = now.prog.unit
        BY <3>0, <4>3 DEF JVM
      <4>5. StartTime(scan.jvm.pid) = now.born
        BY <4>1 DEF StartTime, Running
      <4>6. Current' = Current
        BY <3>0, <4>3, <4>4 DEF Current
      <4> QED BY <2>7, <3>0, <3>2, <4>3, <4>4, <4>5, <4>6 DEF Progress, Reports
    <3> QED BY <3>1, <3>2
  <2>11. CASE ResolveContainer
    <3> DEFINE c == scan.jvm.container
    <3>0. /\ scan.pc = "resolve" /\ scan.jvm \in JVM
          /\ UNCHANGED <<proc, report, quiet>>
      BY <2>11 DEF ResolveContainer, TypeInv
    <3>1. /\ scan'.pc = "perf" /\ scan'.todo = scan.todo /\ scan'.found = scan.found
          /\ scan'.jvm.pid = scan.jvm.pid /\ scan'.jvm.told = scan.jvm.told
          /\ scan'.jvm.versioned = scan.jvm.versioned /\ scan'.jvm.start = scan.jvm.start
          /\ scan'.jvm.container = c /\ scan'.jvm.gateway = scan.jvm.gateway
          /\ scan'.jvm.unit = scan.jvm.unit
          /\ scan'.jvm.info = IF c = NoContainer THEN scan.jvm.info ELSE Resolve(c)
      <4>1. CASE c = NoContainer
        <5>1. scan' = [scan EXCEPT !.pc = "perf"]
          BY <2>11, <4>1 DEF ResolveContainer
        <5> QED BY <2>1, <4>1, <5>1 DEF ScanState
      <4>2. CASE c # NoContainer
        <5>1. scan' = [scan EXCEPT !.pc = "perf", !.jvm = [scan.jvm EXCEPT !.info = Resolve(c)]]
          BY <2>11, <4>2 DEF ResolveContainer
        <5>2. /\ scan'.jvm = [scan.jvm EXCEPT !.info = Resolve(c)] /\ scan'.pc = "perf"
              /\ scan'.todo = scan.todo /\ scan'.found = scan.found
          BY <2>1, <5>1 DEF ScanState
        <5> QED BY <3>0, <4>2, <5>2 DEF JVM
      <4> QED BY <4>1, <4>2
    <3>2. Resolve(c) # "none"
      BY DEF Resolve, Lookup, Progress
    <3>3. \A d \in fresh' : cache'[d] # "none"
      <4>1. CASE c = NoContainer
        BY <2>11, <4>1 DEF ResolveContainer, Progress
      <4>2. CASE c # NoContainer
        <5>1. c \in Container
          BY <3>0, <4>2 DEF JVM
        <5>2. cache' = [cache EXCEPT ![c] = Resolve(c)] /\ fresh' = fresh \cup {c}
          BY <2>11, <4>2 DEF ResolveContainer
        <5>3. cache \in [Container -> {"none", "bare", "named"}] /\ fresh \subseteq Container
          BY DEF TypeInv, TypeOK
        <5> QED BY <3>2, <5>1, <5>2, <5>3 DEF Progress
      <4> QED BY <4>1, <4>2
    <3>4. Hosted' = Hosted /\ \A jvm : Describes(jvm)' <=> Describes(jvm)
      BY <3>0 DEF Hosted, Running, Describes, Tells, Named
    <3>5. Current' = Current
      BY <3>0, <3>1 DEF Current
    <3> HIDE DEF c
    <3>6. quiet # "changed" => c = proc[scan.jvm.pid].prog.container /\ scan.jvm.info = "none"
      BY <3>0 DEF Progress, c
    <3> QED BY <3>0, <3>1, <3>2, <3>3, <3>4, <3>5, <3>6 DEF Progress, Reports
  <2>12. CASE ReadPerfData
    <3>0. /\ scan.pc = "perf" /\ scan.jvm \in JVM
          /\ UNCHANGED <<proc, cache, fresh, report, quiet>>
      BY <2>12 DEF ReadPerfData, TypeInv
    <3>1. CASE quiet = "changed"
      BY <2>7, <3>0, <3>1 DEF Progress
    <3>2. CASE quiet # "changed"
      <4>1. scan' = [scan EXCEPT !.pc = "inspect", !.jvm = NoJVM,
                                 !.found = scan.found \cup {Completed}]
        <5>1. [scan.jvm EXCEPT !.told = Overlay(@, proc[scan.jvm.pid].prog.perf),
                               !.versioned = TRUE]
              = [scan.jvm EXCEPT !.told = Overlay(scan.jvm.told, proc[scan.jvm.pid].prog.perf),
                                 !.versioned = TRUE]
          OBVIOUS
        <5> QED BY <2>12, <5>1 DEF ReadPerfData, Completed
      <4>2. /\ scan'.pc = "inspect" /\ scan'.todo = scan.todo
            /\ scan'.found = scan.found \cup {Completed}
        BY <2>1, <4>1 DEF ScanState
      <4>3. Completed.pid = scan.jvm.pid /\ Describes(Completed)
        BY <3>0, <3>2, CompletedDescribes
      <4>4. /\ Current = {scan.jvm.pid} /\ Current' = {}
            /\ scan.jvm.pid \in Hosted \ scan.todo
            /\ Reports(scan.found, Hosted \ (scan.todo \cup Current))
        BY <3>0, <3>2, <4>2 DEF Current, Progress
      <4>5. Reports(scan.found \cup {Completed}, Hosted \ scan.todo)
        <5>1. {jvm.pid : jvm \in scan.found \cup {Completed}} = Hosted \ scan.todo
          BY <4>3, <4>4 DEF Reports
        <5>2. \A jvm \in scan.found : jvm.pid # Completed.pid
          BY <4>3, <4>4 DEF Reports
        <5> QED BY <4>3, <4>4, <5>1, <5>2 DEF Reports
      <4>6. Reports(scan.found, Hosted \ (scan.todo \cup Current))'
        BY <2>7, <3>0, <4>2, <4>4, <4>5 DEF Reports
      <4>7. quiet' = "seen" => Reports(report, Hosted)'
        BY <2>7, <3>0 DEF Progress, Reports
      <4> QED BY <2>7, <3>0, <4>2, <4>6, <4>7 DEF Progress
    <3> QED BY <3>1, <3>2
  <2>13. CASE ScanReturns
    <3>1. /\ scan.pc = "inspect" /\ scan.todo = {} /\ scan'.pc = "extend"
          /\ report' = scan.found /\ UNCHANGED <<proc, cache, fresh>>
          /\ quiet' = IF quiet = "begun" THEN "seen" ELSE quiet
      BY <2>1, <2>13 DEF ScanReturns, ScanState
    <3>2. quiet # "changed" => Reports(scan.found, Hosted)
      BY <3>1 DEF Progress, Current, Reports
    <3>3. quiet' # "changed" => quiet # "changed" /\ quiet' = "seen"
      BY <2>1, <3>1
    <3>4. quiet' = "seen" => Reports(report, Hosted)'
      BY <2>7, <3>1, <3>2, <3>3 DEF Reports
    <3> QED BY <2>7, <3>1, <3>3, <3>4 DEF Progress
  <2>14. ASSUME scan.pc \in {"extend", "idle"}, scan'.pc \in {"extend", "idle"},
                UNCHANGED <<proc, cache, fresh, report, quiet>>
         PROVE  Progress'
    <3>1. quiet' = "seen" => Reports(report, Hosted)'
      BY <2>7, <2>14 DEF Progress, Reports
    <3> QED BY <2>7, <2>14, <3>1 DEF Progress
  <2>15. ASSUME NEW jvm \in scan.found, Extend(jvm) PROVE Progress'
    <3>1. scan.pc = "extend" /\ scan'.pc = "extend"
      BY <2>1, <2>15 DEF Extend, ScanState
    <3> QED BY <2>14, <2>15, <3>1 DEF Extend
  <2>16. CASE PassEnds
    BY <2>14, <2>16 DEF PassEnds, Idle
  <2>17. CASE UNCHANGED vars
    BY <2>3, <2>17 DEF vars, Progress
  <2> QED BY <2>2, <2>4, <2>5, <2>6, <2>8, <2>9, <2>10, <2>11, <2>12, <2>13, <2>15, <2>16, <2>17
          DEF Next, Host, Reconcile, Launch, PerfAppears, Exit
<1>3. Progress => ReportMatchesHost
  BY DEF Progress, Reports, Describes, ReportMatchesHost
<1> QED BY <1>1, <1>2, <1>3, TypeCorrect, PTL DEF Spec
=============================================================================
