------------------------ MODULE EbpfDiscoveryProofs ------------------------
(***************************************************************************)
(* Proofs about EbpfDiscovery: one scan of a host that stands still puts   *)
(* every sink right, and the targets it yields tell each other apart       *)
(* wherever anything can.                                                  *)
(***************************************************************************)
EXTENDS EbpfDiscovery, FiniteSetTheorems, TLAPS

-----------------------------------------------------------------------------
(* The image of a finite set under a function is finite. *)
LEMMA FiniteImage ==
  ASSUME NEW S, IsFiniteSet(S), NEW f
  PROVE  IsFiniteSet({f[x] : x \in S})
<1> DEFINE T == {f[x] : x \in S}
           g == [x \in S |-> f[x]]
<1>1. g \in Surjection(S, T)
  BY DEF Surjection
<1> QED BY <1>1, FS_Surjection

(* Counting the elements that satisfy a condition: one means no other. *)
LEMMA CountOne ==
  ASSUME NEW S, IsFiniteSet(S), NEW T \in SUBSET S, NEW t \in T
  PROVE  /\ Cardinality(T) = 1 <=> \A u \in T : u = t
         /\ Cardinality(T) > 1 <=> \E u \in T : u # t
<1>1. IsFiniteSet(T) /\ Cardinality(T) \in Nat
  BY FS_Subset, FS_CardinalityType
<1>2. Cardinality(T) = 1 <=> \E x : T = {x}
  BY <1>1, FS_Singleton
<1>3. Cardinality(T) # 0
  BY <1>1, FS_EmptySet
<1>4. (\E x : T = {x}) <=> \A u \in T : u = t
  <2>1. (\A u \in T : u = t) => T = {t}
    OBVIOUS
  <2>2. ASSUME NEW x, T = {x} PROVE \A u \in T : u = t
    BY <2>2
  <2> QED BY <2>1, <2>2
<1>5. Cardinality(T) = 1 <=> \A u \in T : u = t
  BY <1>2, <1>4, Zenon
<1>6. Cardinality(T) > 1 <=> Cardinality(T) # 1
  BY <1>1, <1>3
<1> QED BY <1>5, <1>6, Zenon

(* A set of ports that is not empty has a lowest one. *)
LEMMA LowestIsPort ==
  ASSUME NEW ports \in SUBSET Port, ports # {}
  PROVE  Lowest(ports) \in ports
<1>1. \E x \in ports : \A y \in ports : ~ (<<y, x>> \in OpToRel(<, Nat))
  BY NatLessThanWellFounded, WFMin, PortAssumption, Zenon
<1>2. PICK x \in ports : \A y \in ports : ~ (<<y, x>> \in OpToRel(<, Nat))
  BY <1>1
<1>3. ASSUME NEW y \in ports PROVE x <= y
  <2>1. ~ (<<y, x>> \in {ss \in Nat \X Nat : ss[1] < ss[2]})
    BY <1>2, Zenon DEF OpToRel
  <2>2. x \in Nat /\ y \in Nat
    BY PortAssumption
  <2> QED BY <2>1, <2>2
<1> QED BY <1>3 DEF Lowest

-----------------------------------------------------------------------------
(* The target of a process as classified, before ports and names are told  *)
(* apart, and with its ports told apart only.                              *)
RuntimeOf(p) == IF proc[p].prog.kind = "binary" THEN "go" ELSE proc[p].prog.runtime

Plain(p) == [pid |-> p, name |-> TracedAs(p), runtime |-> RuntimeOf(p),
             ports |-> proc[p].ports]

Ruled(p) == [pid |-> p, name |-> TracedAs(p), runtime |-> RuntimeOf(p),
             ports |-> Rule(p)]

ProcType == proc \in [Pid -> Process \cup {NoProcess}]

(* Reading the files of a process that does not change gives its name. *)
LEMMA ClassifiedIsTraced ==
  ASSUME ProcType, NEW p \in Pid, Running(p)
  PROVE  /\ Classified(proc[p].prog, p) = TracedAs(p)
         /\ TracedAs(p) \in BaseName \cup {NoName}
         /\ RuntimeOf(p) \in Runtime
         /\ proc[p].ports \subseteq Port
<1>1. proc[p] \in Process /\ proc[p].prog \in ProgramType
  BY ProgramAssumption DEF ProcType, Process, Running
<1> DEFINE prog == proc[p].prog
<1>2. IsProcessMaster(p) <=>
        ~ \E q \in Pid : proc[p].parent = q /\ Running(q) /\ proc[q].prog.base = prog.base
  BY <1>1 DEF IsProcessMaster, Process
<1> DEFINE Goal == /\ Classified(prog, p) = TracedAs(p)
                   /\ TracedAs(p) \in BaseName \cup {NoName}
<1>3. ASSUME prog.kind = "interpreter" PROVE Goal
  BY <1>1, <1>2, <1>3 DEF Classified, TracedAs, ProgramType, ScriptName
<1>4. ASSUME prog.kind = "fpm" PROVE Goal
  BY <1>1, <1>2, <1>4 DEF Classified, TracedAs, ProgramType, PoolName
<1>5. ASSUME prog.kind = "server" PROVE Goal
  BY <1>1, <1>2, <1>5 DEF Classified, TracedAs, ProgramType
<1>6. ASSUME prog.kind = "denied" PROVE Goal
  BY <1>1, <1>2, <1>6 DEF Classified, TracedAs, ProgramType
<1>7. ASSUME prog.kind = "binary" PROVE Goal
  BY <1>1, <1>2, <1>7 DEF Classified, TracedAs, ProgramType
<1>8. RuntimeOf(p) \in Runtime /\ proc[p].ports \subseteq Port
  BY <1>1, RuntimeAssumption DEF RuntimeOf, ProgramType, Process
<1> QED BY <1>1, <1>3, <1>4, <1>5, <1>6, <1>7, <1>8 DEF ProgramType

(* The rule of a watched process is a set of its own ports, not empty. *)
LEMMA RuleIsPorts ==
  ASSUME ProcType, NEW p \in Watched
  PROVE  /\ Rule(p) \subseteq Port
         /\ Rule(p) # {}
         /\ Rule(p) \subseteq proc[p].ports
<1>1. p \in Pid /\ Running(p) /\ proc[p].ports # {}
  BY DEF Watched
<1> QED BY <1>1, ClassifiedIsTraced DEF Rule, Own

(* dropSharedPorts leaves a target the ports only it has, if there are any. *)
LEMMA DropSharedPortsRules ==
  ASSUME ProcType
  PROVE  DropSharedPorts({Plain(p) : p \in Watched}) = {Ruled(p) : p \in Watched}
<1> DEFINE set == {Plain(p) : p \in Watched}
           f == [p \in Watched |-> Plain(p)]
<1>1. IsFiniteSet(Watched)
  BY FiniteAssumption, FS_Subset DEF Watched
<1>2. IsFiniteSet(set)
  <2>1. IsFiniteSet({f[p] : p \in Watched})
    BY <1>1, FiniteImage
  <2>2. {f[p] : p \in Watched} = set
    OBVIOUS
  <2> QED BY <2>1, <2>2
<1>3. ASSUME NEW p \in Watched PROVE Distinct(set, Plain(p)) = Own(p)
  <2>1. ASSUME NEW port \in proc[p].ports
        PROVE  Claims(set, port) = 1 <=>
                 \A q \in Watched : q # p => port \notin proc[q].ports
    <3> DEFINE T == {t \in set : port \in t.ports}
    <3>1. T \in SUBSET set /\ Plain(p) \in T
      BY DEF Plain
    <3>2. Cardinality(T) = 1 <=> \A u \in T : u = Plain(p)
      BY <1>2, <3>1, CountOne
    <3>3. (\A u \in T : u = Plain(p)) <=>
            \A q \in Watched : port \in Plain(q).ports => Plain(q) = Plain(p)
      OBVIOUS
    <3>4. ASSUME NEW q \in Watched
          PROVE  /\ Plain(q).ports = proc[q].ports
                 /\ Plain(q) = Plain(p) <=> q = p
      BY DEF Plain
    <3> QED BY <3>2, <3>3, <3>4 DEF Claims
  <2>2. Plain(p).ports = proc[p].ports
    BY DEF Plain
  <2> QED BY <2>1, <2>2 DEF Distinct, Own
<1>4. ASSUME NEW p \in Watched
      PROVE  [Plain(p) EXCEPT !.ports = IF Distinct(set, Plain(p)) # {}
                                        THEN Distinct(set, Plain(p)) ELSE @] = Ruled(p)
  BY <1>3 DEF Plain, Ruled, Rule
<1> HIDE DEF f
<1>5. DropSharedPorts(set) = {[Plain(p) EXCEPT !.ports =
         IF Distinct(set, Plain(p)) # {} THEN Distinct(set, Plain(p)) ELSE @]
           : p \in Watched}
  BY DEF DropSharedPorts
<1> QED BY <1>4, <1>5

(* What disambiguate makes of the targets of a host that stands still is   *)
(* what ought to be found.                                                 *)
LEMMA DisambiguateExpected ==
  ASSUME ProcType
  PROVE  Disambiguate({Plain(p) : p \in Watched}) = Expected
<1> DEFINE out == {Ruled(p) : p \in Watched}
           f == [p \in Watched |-> Ruled(p)]
           count(n) == Cardinality({t \in out : t.name = n})
           same(p) == \E q \in Watched : q # p /\ TracedAs(q) = TracedAs(p)
           final(t) == IF count(t.name) > 1
                       THEN [t EXCEPT !.name = Suffixed[<<t.name, FirstPort(t)>>]]
                       ELSE t
<1>1. IsFiniteSet(out)
  <2>0. IsFiniteSet(Watched)
    BY FiniteAssumption, FS_Subset DEF Watched
  <2>1. IsFiniteSet({f[p] : p \in Watched})
    BY <2>0, FiniteImage
  <2>2. {f[p] : p \in Watched} = out
    OBVIOUS
  <2> QED BY <2>1, <2>2
<1>2. ASSUME NEW p \in Watched PROVE count(TracedAs(p)) > 1 <=> same(p)
  <2> DEFINE T == {t \in out : t.name = TracedAs(p)}
  <2>1. T \in SUBSET out /\ Ruled(p) \in T
    BY DEF Ruled
  <2>2. Cardinality(T) > 1 <=> \E u \in T : u # Ruled(p)
    BY <1>1, <2>1, CountOne
  <2>3. (\E u \in T : u # Ruled(p)) <=>
          \E q \in Watched : Ruled(q).name = TracedAs(p) /\ Ruled(q) # Ruled(p)
    OBVIOUS
  <2>4. ASSUME NEW q \in Watched
        PROVE  /\ Ruled(q).name = TracedAs(q)
               /\ Ruled(q) = Ruled(p) <=> q = p
    BY DEF Ruled
  <2> QED BY <2>2, <2>3, <2>4
<1>3. ASSUME NEW p \in Watched
      PROVE  final(Ruled(p)) =
               [pid |-> p,
                name |-> IF same(p) THEN Suffixed[<<TracedAs(p), Lowest(Rule(p))>>]
                         ELSE TracedAs(p),
                runtime |-> RuntimeOf(p), ports |-> Rule(p)]
  <2>1. /\ Ruled(p).name = TracedAs(p)
        /\ FirstPort(Ruled(p)) = Lowest(Rule(p))
    BY DEF Ruled, FirstPort, Lowest
  <2>2. count(Ruled(p).name) > 1 <=> same(p)
    BY <1>2, <2>1
  <2> HIDE DEF count, same
  <2> QED BY <2>1, <2>2 DEF Ruled
<1>4. Disambiguate({Plain(p) : p \in Watched}) = {final(t) : t \in out}
  BY DropSharedPortsRules DEF Disambiguate
<1>5. {final(t) : t \in out} = {final(Ruled(p)) : p \in Watched}
  OBVIOUS
<1>6. Expected = {[pid |-> p,
                name |-> IF same(p) THEN Suffixed[<<TracedAs(p), Lowest(Rule(p))>>]
                         ELSE TracedAs(p),
                runtime |-> RuntimeOf(p), ports |-> Rule(p)] : p \in Watched}
  BY DEF Expected, RuntimeOf
<1> HIDE DEF final, same, out
<1> QED BY <1>3, <1>4, <1>5, <1>6

-----------------------------------------------------------------------------
(* Types.                                                                  *)

(* disambiguate yields targets. *)
LEMMA DisambiguateType ==
  ASSUME NEW set \in SUBSET [pid : Pid, name : BaseName, runtime : Runtime,
                             ports : (SUBSET Port) \ {{}}]
  PROVE  Disambiguate(set) \subseteq Target
<1> DEFINE Raw == [pid : Pid, name : BaseName, runtime : Runtime, ports : (SUBSET Port) \ {{}}]
           out == DropSharedPorts(set)
<1>1. ASSUME NEW t \in set
      PROVE  [t EXCEPT !.ports = IF Distinct(set, t) # {} THEN Distinct(set, t) ELSE @] \in Raw
  <2>1. t \in Raw /\ Distinct(set, t) \subseteq t.ports
    BY DEF Distinct
  <2> HIDE DEF Distinct
  <2> QED BY <2>1
<1>2. out \subseteq Raw
  BY <1>1 DEF DropSharedPorts
<1>3. ASSUME NEW t \in Raw
      PROVE  /\ t \in Target
             /\ [t EXCEPT !.name = Suffixed[<<t.name, FirstPort(t)>>]] \in Target
  <2>1. FirstPort(t) \in Port
    <3>1. t.ports \in SUBSET Port /\ t.ports # {}
      OBVIOUS
    <3>2. FirstPort(t) = Lowest(t.ports)
      BY DEF FirstPort, Lowest
    <3> QED BY <3>1, <3>2, LowestIsPort
  <2>2. Suffixed[<<t.name, FirstPort(t)>>] \in Name
    BY <2>1, SuffixedAssumption
  <2> QED BY <2>2, SuffixedAssumption DEF Target
<1> QED BY <1>2, <1>3 DEF Disambiguate

(* While a scan is under way its targets have their programs' names and at *)
(* least one port.                                                         *)
Raw == [pid : Pid, name : BaseName, runtime : Runtime, ports : (SUBSET Port) \ {{}}]

TypeInv ==
  /\ TypeOK
  /\ scan.pc \in {"exe", "classify"} => scan.found \subseteq Raw
  /\ scan.pc = "classify" => scan.cur \in Pid /\ scan.exe \in Program

(* The name a pid is given under another program's executable. *)
LEMMA ClassifiedType ==
  ASSUME ProcType, NEW p \in Pid, Running(p), NEW exe \in Program
  PROVE  /\ Classified(exe, p) \in BaseName \cup {NoName}
         /\ proc[p].ports \in SUBSET Port
<1>1. proc[p] \in Process /\ proc[p].prog \in ProgramType /\ exe \in ProgramType
  BY ProgramAssumption DEF ProcType, Process, Running
<1>2. ScriptName(proc[p].prog, exe) \in BaseName /\ PoolName(proc[p].prog) \in BaseName \cup {NoName}
  BY <1>1 DEF ScriptName, PoolName, ProgramType
<1> QED BY <1>1, <1>2 DEF Classified, ProgramType, Process

(* The process table, the scan, the sinks and the registry keep their types. *)
THEOREM TypeCorrect == Spec => []TypeInv
<1>1. Init => TypeInv
  <2> SUFFICES ASSUME Init PROVE TypeInv
    OBVIOUS
  <2>1. Idle \in ScanState
    BY DEF Idle, ScanState
  <2> QED BY <2>1, BoundsAssumption DEF Init, TypeInv, TypeOK, Idle
<1>2. TypeInv /\ [Next]_vars => TypeInv'
  <2> SUFFICES ASSUME TypeInv, [Next]_vars PROVE TypeInv'
    OBVIOUS
  <2> USE DEF TypeInv, TypeOK
  <2>1. CASE Host
    <3>1. proc' \in [Pid -> Process \cup {NoProcess}]
      <4>1. ASSUME NEW p \in Pid, NEW prog \in Program, NEW parent \in Pid \cup {NoPid},
                   NEW ports \in SUBSET Port, Launch(p, prog, parent, ports)
            PROVE  proc' \in [Pid -> Process \cup {NoProcess}]
        BY <4>1 DEF Launch, Process
      <4>2. ASSUME NEW p \in Pid, NEW ports \in SUBSET Port, Listen(p, ports)
            PROVE  proc' \in [Pid -> Process \cup {NoProcess}]
        BY <4>2 DEF Listen, Process, Running
      <4>3. ASSUME NEW p \in Pid, Exit(p)
            PROVE  proc' \in [Pid -> Process \cup {NoProcess}]
        <5>1. ASSUME NEW q \in Pid, Running(q)
              PROVE  [proc[q] EXCEPT !.parent = NoPid] \in Process
          BY <5>1 DEF Running, Process
        <5> QED BY <4>3, <5>1 DEF Exit
      <4> QED BY <2>1, <4>1, <4>2, <4>3 DEF Host
    <3>2. Changes
      BY <2>1 DEF Host, Launch, Listen, Exit
    <3> QED BY <3>1, <3>2, BoundsAssumption DEF Changes, Traced
  <2>2. CASE ReadDir
    BY <2>2 DEF ReadDir, ScanState, Idle, Traced
  <2>3. ASSUME NEW p \in Pid, ReadExe(p) PROVE TypeInv'
    <3>1. Running(p) => proc[p].prog \in Program
      BY DEF Running, Process
    <3> QED BY <2>3, <3>1 DEF ReadExe, ScanState, Traced
  <2>4. CASE Classify
    <3> DEFINE p == scan.cur
               name == Classified(scan.exe, p)
               rt == IF scan.exe.kind = "binary" THEN "go" ELSE scan.exe.runtime
               new == [pid |-> p, name |-> name, runtime |-> rt, ports |-> proc[p].ports]
               worth == Running(p) /\ proc[p].ports # {} /\ name # NoName
    <3>1. worth => new \in Raw
      <4>1. p \in Pid /\ scan.exe \in Program
        BY <2>4 DEF Classify
      <4>2. rt \in Runtime
        BY <4>1, ProgramAssumption, RuntimeAssumption DEF ProgramType
      <4>3. Running(p) => name \in BaseName \cup {NoName} /\ proc[p].ports \in SUBSET Port
        BY <4>1, ClassifiedType DEF ProcType
      <4>4. worth => name \in BaseName /\ proc[p].ports \in (SUBSET Port) \ {{}}
        BY <4>3
      <4> HIDE DEF name, rt, p, worth
      <4> QED BY <4>1, <4>2, <4>4 DEF Raw
    <3>2. scan' = [scan EXCEPT !.pc = "exe", !.cur = NoPid, !.exe = NoProgram,
                     !.found = IF worth THEN @ \cup {new} ELSE @]
      BY <2>4 DEF Classify
    <3>3. Raw \subseteq Target
      BY SuffixedAssumption DEF Raw, Target
    <3>4. scan.found \subseteq Raw
      BY <2>4 DEF Classify
    <3>5. UNCHANGED <<proc, changes, sink, runtimes, since, quiet>>
      BY <2>4 DEF Classify
    <3> HIDE DEF worth, new
    <3> QED BY <3>1, <3>2, <3>3, <3>4, <3>5 DEF ScanState, Traced
  <2>5. CASE ScanReturns
    <3>1. Disambiguate(scan.found) \subseteq Target
      BY <2>5, DisambiguateType DEF ScanReturns, Raw
    <3> QED BY <2>5, <3>1 DEF ScanReturns, ScanState, Traced
  <2>6. CASE TellSupervisor
    BY <2>6 DEF TellSupervisor, ScanState, Traced
  <2>7. CASE TellCollector
    BY <2>7 DEF TellCollector, ScanState, Traced
  <2>8. CASE TellRegistry
    <3> DEFINE set == scan.found \cup {Self}
               names == {t.name : t \in set}
    <3>1. /\ \A t \in set : t.name \in Name /\ t.runtime \in Runtime
          /\ names \subseteq Name
      BY SelfAssumption DEF ScanState, Target
    <3>2. PICK added \in Admitted(names \ Known) :
            /\ since' = since \cup added
            /\ \E last \in SUBSET set :
                 /\ \A n \in names : \E t \in last : t.name = n
                 /\ \A t, u \in last : t.name = u.name => t = u
                 /\ runtimes' = [n \in Name |->
                      IF n \in names \cap (Known \cup added)
                      THEN (CHOOSE t \in last : t.name = n).runtime
                      ELSE runtimes[n]]
      BY <2>8 DEF TellRegistry
    <3>3. runtimes' \in [Name -> Runtime \cup {NoRuntime}]
      BY <3>1, <3>2
    <3>4. since' \subseteq Name
      BY <3>1, <3>2 DEF Admitted
    <3>5. sink' = [sink EXCEPT !["registry"] = set] /\ scan' = Idle
          /\ quiet' = (IF quiet = "begun" THEN "seen" ELSE quiet)
          /\ UNCHANGED <<proc, changes>>
      BY <2>8 DEF TellRegistry
    <3> QED BY <3>3, <3>4, <3>5 DEF ScanState, Idle, Traced
  <2>9. CASE UNCHANGED vars
    BY <2>9 DEF vars, Traced
  <2> QED BY <2>1, <2>2, <2>3, <2>4, <2>5, <2>6, <2>7, <2>8, <2>9 DEF Next, Discover
<1> QED BY <1>1, <1>2, PTL DEF Spec

-----------------------------------------------------------------------------
(* The sinks.                                                              *)

PlainOf(S) == {Plain(p) : p \in S}

(* How far a scan has come on a host that has not changed since it began:  *)
(* what it found are the watched processes it has been to, and the sinks   *)
(* it has been to hold what ought to be found.                             *)
Progress ==
  quiet # "changed" =>
    /\ scan.pc \in {"exe", "classify"} =>
         scan.found = PlainOf(Watched \ (scan.todo \cup {scan.cur}))
    /\ scan.pc = "exe" => scan.cur = NoPid
    /\ scan.pc = "classify" => /\ Running(scan.cur)
                               /\ scan.exe = proc[scan.cur].prog
                               /\ scan.cur \notin scan.todo
    /\ scan.pc \in {"supervisor", "collector", "registry"} => scan.found = Expected
    /\ scan.pc \in {"collector", "registry"} => sink["supervisor"] = Expected \cup Traced
    /\ scan.pc = "registry" => sink["collector"] = Expected \cup {Self}
    /\ quiet = "begun" => scan.pc # "idle"

(* One scan of a host that stands still puts every sink right, whatever    *)
(* earlier scans picked up of processes that came and went, and further    *)
(* scans leave the sinks alone.                                            *)
THEOREM SinksCorrect == Spec => []SinksMatchHost
<1> DEFINE Inv == Progress /\ SinksMatchHost
<1>1. Init => Inv
  BY DEF Init, Progress, SinksMatchHost
<1>2. TypeInv /\ Inv /\ [Next]_vars => Inv'
  <2> SUFFICES ASSUME TypeInv, Progress, SinksMatchHost, [Next]_vars
               PROVE  Progress' /\ SinksMatchHost'
    OBVIOUS
  <2>1. CASE Host
    <3>1. quiet' = "changed"
      BY <2>1 DEF Host, Launch, Listen, Exit, Changes
    <3> QED BY <3>1 DEF Progress, SinksMatchHost
  <2>2. ASSUME UNCHANGED proc
        PROVE  /\ Expected' = Expected
               /\ Watched' = Watched
               /\ \A S : PlainOf(S)' = PlainOf(S)
               /\ \A p : Running(p)' = Running(p)
               /\ Traced' = Traced
    BY <2>2 DEF Expected, Watched, PlainOf, Plain, RuntimeOf, TracedAs, Running,
                Rule, Own, Lowest, Traced
  <2>3. ProcType /\ scan \in ScanState
    BY DEF TypeInv, TypeOK, ProcType
  <2>4. NoPid \notin Watched
    BY NoneAssumption DEF Watched
  <2>5. CASE ReadDir
    <3>1. /\ scan'.pc = "exe" /\ scan'.cur = NoPid /\ scan'.found = {}
          /\ scan'.todo = {p \in Pid : Running(p)}
          /\ UNCHANGED <<proc, sink>>
          /\ quiet' = "seen" <=> quiet = "seen"
      BY <2>5 DEF ReadDir, Idle
    <3>2. PlainOf(Watched \ (scan'.todo \cup {scan'.cur})) = {}
      BY <3>1 DEF PlainOf, Watched
    <3> QED BY <2>2, <3>1, <3>2 DEF Progress, SinksMatchHost
  <2>6. ASSUME NEW p \in Pid, ReadExe(p) PROVE Progress' /\ SinksMatchHost'
    <3>1. UNCHANGED <<proc, sink, quiet>> /\ scan.pc = "exe" /\ p \in scan.todo
      BY <2>6 DEF ReadExe
    <3>2. /\ scan'.found = scan.found /\ scan'.todo = scan.todo \ {p}
          /\ IF Running(p)
             THEN scan'.pc = "classify" /\ scan'.cur = p /\ scan'.exe = proc[p].prog
             ELSE scan'.pc = "exe" /\ scan'.cur = scan.cur
      BY <2>3, <2>6 DEF ReadExe, ScanState
    <3>3. quiet # "changed" =>
            Watched \ (scan'.todo \cup {scan'.cur}) = Watched \ (scan.todo \cup {scan.cur})
      BY <2>4, <3>1, <3>2 DEF Progress, Watched
    <3> QED BY <2>2, <3>1, <3>2, <3>3 DEF Progress, SinksMatchHost
  <2>7. CASE Classify
    <3> DEFINE p == scan.cur
               name == Classified(scan.exe, p)
               worth == Running(p) /\ proc[p].ports # {} /\ name # NoName
               rt == IF scan.exe.kind = "binary" THEN "go" ELSE scan.exe.runtime
               new == [pid |-> p, name |-> name, runtime |-> rt, ports |-> proc[p].ports]
    <3>1. UNCHANGED <<proc, sink, quiet>> /\ scan.pc = "classify" /\ p \in Pid
      BY <2>7 DEF Classify, TypeInv
    <3>2. /\ scan'.pc = "exe" /\ scan'.cur = NoPid /\ scan'.todo = scan.todo
          /\ scan'.found = IF worth THEN scan.found \cup {new} ELSE scan.found
      BY <2>3, <2>7 DEF Classify, ScanState
    <3>3. ASSUME quiet # "changed"
          PROVE  scan'.found = PlainOf(Watched \ (scan'.todo \cup {scan'.cur}))
      <4>1. /\ Running(p) /\ scan.exe = proc[p].prog /\ p \notin scan.todo
            /\ scan.found = PlainOf(Watched \ (scan.todo \cup {p}))
        BY <3>1, <3>3 DEF Progress
      <4>2. name = TracedAs(p) /\ rt = RuntimeOf(p)
        BY <2>3, <3>1, <4>1, ClassifiedIsTraced DEF RuntimeOf
      <4>3. (worth <=> p \in Watched) /\ new = Plain(p)
        BY <3>1, <4>1, <4>2 DEF Watched, Plain
      <4>4. CASE worth
        <5>1. Watched \ (scan'.todo \cup {scan'.cur})
                = (Watched \ (scan.todo \cup {p})) \cup {p}
          BY <2>4, <3>2, <4>1, <4>3, <4>4
        <5> HIDE DEF p, worth, new
        <5> QED BY <3>2, <4>1, <4>3, <4>4, <5>1 DEF PlainOf
      <4>5. CASE ~ worth
        <5>1. Watched \ (scan'.todo \cup {scan'.cur}) = Watched \ (scan.todo \cup {p})
          BY <2>4, <3>2, <4>1, <4>3, <4>5
        <5> QED BY <3>2, <4>1, <4>5, <5>1
      <4> QED BY <4>4, <4>5
    <3> HIDE DEF p, worth, new
    <3> QED BY <2>2, <3>1, <3>2, <3>3 DEF Progress, SinksMatchHost
  <2>8. CASE ScanReturns
    <3>1. /\ UNCHANGED <<proc, sink, quiet>> /\ scan.pc = "exe" /\ scan.todo = {}
          /\ scan'.pc = "supervisor" /\ scan'.found = Disambiguate(scan.found)
      BY <2>3, <2>8 DEF ScanReturns, ScanState
    <3>2. ASSUME quiet # "changed" PROVE scan'.found = Expected
      <4>1. scan.found = PlainOf(Watched \ (scan.todo \cup {NoPid}))
        BY <3>1, <3>2 DEF Progress
      <4>2. Watched \ (scan.todo \cup {NoPid}) = Watched
        BY <2>4, <3>1
      <4>3. PlainOf(Watched) = {Plain(p) : p \in Watched}
        BY DEF PlainOf
      <4> QED BY <2>3, <3>1, <4>1, <4>2, <4>3, DisambiguateExpected
    <3> QED BY <2>2, <3>1, <3>2 DEF Progress, SinksMatchHost
  <2>9. CASE TellSupervisor
    <3>1. /\ UNCHANGED <<proc, quiet>> /\ scan.pc = "supervisor"
          /\ scan'.pc = "collector" /\ scan'.found = scan.found
          /\ sink'["supervisor"] = scan.found \cup Traced
          /\ sink'["collector"] = sink["collector"] /\ sink'["registry"] = sink["registry"]
      BY <2>3, <2>9 DEF TellSupervisor, ScanState, TypeInv, TypeOK
    <3> QED BY <2>2, <3>1 DEF Progress, SinksMatchHost
  <2>10. CASE TellCollector
    <3>1. /\ UNCHANGED <<proc, quiet>> /\ scan.pc = "collector"
          /\ scan'.pc = "registry" /\ scan'.found = scan.found
          /\ sink'["collector"] = scan.found \cup {Self}
          /\ sink'["supervisor"] = sink["supervisor"] /\ sink'["registry"] = sink["registry"]
      BY <2>3, <2>10 DEF TellCollector, ScanState, TypeInv, TypeOK
    <3> QED BY <2>2, <3>1 DEF Progress, SinksMatchHost
  <2>11. CASE TellRegistry
    <3>1. /\ UNCHANGED proc /\ scan.pc = "registry" /\ scan'.pc = "idle"
          /\ quiet' = IF quiet = "begun" THEN "seen" ELSE quiet
      BY <2>11 DEF TellRegistry, Idle
    <3>2. /\ sink'["registry"] = scan.found \cup {Self}
          /\ sink'["supervisor"] = sink["supervisor"] /\ sink'["collector"] = sink["collector"]
      BY <2>11 DEF TellRegistry, TypeInv, TypeOK
    <3>3. quiet \in {"changed", "begun", "seen"}
      BY DEF TypeInv, TypeOK
    <3> QED BY <2>2, <3>1, <3>2, <3>3 DEF Progress, SinksMatchHost
  <2>12. CASE UNCHANGED vars
    <3>1. UNCHANGED <<proc, scan, sink, quiet>>
      BY <2>12 DEF vars
    <3> QED BY <2>2, <3>1 DEF Progress, SinksMatchHost
  <2> QED BY <2>1, <2>5, <2>6, <2>7, <2>8, <2>9, <2>10, <2>11, <2>12 DEF Next, Discover
<1> QED BY <1>1, <1>2, TypeCorrect, PTL DEF Spec

(* A rule reaches the process of another target only where its own target  *)
(* has no port to itself.                                                  *)
THEOREM RulesCorrect == Spec => []RulesSeparate
<1>1. TypeInv /\ SinksMatchHost => RulesSeparate
  <2> SUFFICES ASSUME TypeInv, SinksMatchHost, quiet = "seen",
                      NEW t \in sink["supervisor"] \ Traced,
                      NEW q \in Watched \ {t.pid},
                      t.ports \cap proc[q].ports # {}
               PROVE  Own(t.pid) = {}
    BY DEF RulesSeparate
  <2>1. t \in Expected
    BY DEF SinksMatchHost
  <2>2. t.pid \in Watched /\ t.ports = Rule(t.pid)
    <3>1. PICK p \in Watched : t = [pid |-> p,
             name |-> IF \E q1 \in Watched : q1 # p /\ TracedAs(q1) = TracedAs(p)
                      THEN Suffixed[<<TracedAs(p), Lowest(Rule(p))>>] ELSE TracedAs(p),
             runtime |-> IF proc[p].prog.kind = "binary" THEN "go" ELSE proc[p].prog.runtime,
             ports |-> Rule(p)]
      BY <2>1 DEF Expected
    <3>2. t.pid = p /\ t.ports = Rule(p)
      BY <3>1
    <3> QED BY <3>2
  <2> QED BY <2>2 DEF Rule, Own
<1> QED BY <1>1, TypeCorrect, SinksCorrect, PTL

(* Two processes with the same name of their own are merged into one       *)
(* service only where neither has a port to itself.                        *)
THEOREM NamesCorrect == Spec => []NamesSeparate
<1>1. TypeInv /\ SinksMatchHost => NamesSeparate
  <2> SUFFICES ASSUME TypeInv, SinksMatchHost, quiet = "seen",
                      NEW t \in sink["supervisor"] \ Traced,
                      NEW u \in sink["supervisor"] \ Traced,
                      t # u, t.name = u.name, TracedAs(t.pid) = TracedAs(u.pid)
               PROVE  Own(t.pid) = {} /\ Own(u.pid) = {}
    BY DEF NamesSeparate
  <2>1. t \in Expected /\ u \in Expected
    BY DEF SinksMatchHost
  <2>2. /\ t.pid \in Watched /\ u.pid \in Watched /\ t.pid # u.pid
        /\ t.name = Suffixed[<<TracedAs(t.pid), Lowest(Rule(t.pid))>>]
        /\ u.name = Suffixed[<<TracedAs(u.pid), Lowest(Rule(u.pid))>>]
    <3>1. PICK p \in Watched : t = [pid |-> p,
             name |-> IF \E q \in Watched : q # p /\ TracedAs(q) = TracedAs(p)
                      THEN Suffixed[<<TracedAs(p), Lowest(Rule(p))>>] ELSE TracedAs(p),
             runtime |-> IF proc[p].prog.kind = "binary" THEN "go" ELSE proc[p].prog.runtime,
             ports |-> Rule(p)]
      BY <2>1 DEF Expected
    <3>2. PICK p2 \in Watched : u = [pid |-> p2,
             name |-> IF \E q \in Watched : q # p2 /\ TracedAs(q) = TracedAs(p2)
                      THEN Suffixed[<<TracedAs(p2), Lowest(Rule(p2))>>] ELSE TracedAs(p2),
             runtime |-> IF proc[p2].prog.kind = "binary" THEN "go" ELSE proc[p2].prog.runtime,
             ports |-> Rule(p2)]
      BY <2>1 DEF Expected
    <3>3. t.pid = p /\ u.pid = p2 /\ p # p2
      BY <3>1, <3>2
    <3> QED BY <3>1, <3>2, <3>3
  <2>3. ProcType
    BY DEF TypeInv, TypeOK, ProcType
  <2> DEFINE a == t.pid
             b == u.pid
  <2>4. ASSUME NEW p \in Watched
        PROVE  Lowest(Rule(p)) \in Rule(p) /\ Rule(p) \subseteq Port
               /\ Rule(p) \subseteq proc[p].ports
    <3>1. Rule(p) \in SUBSET Port /\ Rule(p) # {} /\ Rule(p) \subseteq proc[p].ports
      BY <2>3, RuleIsPorts
    <3> QED BY <3>1, LowestIsPort
  <2>5. TracedAs(a) \in BaseName
    BY <2>2, <2>3, ClassifiedIsTraced DEF Watched
  <2>6. Lowest(Rule(a)) = Lowest(Rule(b))
    BY <2>2, <2>4, <2>5, SuffixedAssumption
  <2>7. ASSUME NEW p \in Watched, NEW q \in Watched, p # q, NEW port \in Rule(p),
               port \in proc[q].ports
        PROVE  Own(p) = {}
    BY <2>7 DEF Rule, Own
  <2> QED BY <2>2, <2>4, <2>6, <2>7
<1> QED BY <1>1, TypeCorrect, SinksCorrect, PTL


-----------------------------------------------------------------------------
(* The registry.  Its limit is a count of names, so the argument needs     *)
(* what it counts to be finite: the targets of a scan, which come one pid  *)
(* at a time, and the names already known.                                 *)
RegistryInv ==
  /\ IsFiniteSet(scan.found)
  /\ IsFiniteSet(Known)
  /\ RegistryLabels

(* disambiguate keeps the number of targets finite. *)
LEMMA DisambiguateFinite ==
  ASSUME NEW set, IsFiniteSet(set)
  PROVE  IsFiniteSet(Disambiguate(set))
<1> DEFINE ruled(t) == [t EXCEPT !.ports = IF Distinct(set, t) # {}
                                           THEN Distinct(set, t) ELSE @]
           out == DropSharedPorts(set)
           named(t) == IF Cardinality({u \in out : u.name = t.name}) > 1
                       THEN [t EXCEPT !.name = Suffixed[<<t.name, FirstPort(t)>>]]
                       ELSE t
           f == [t \in set |-> ruled(t)]
           g == [t \in out |-> named(t)]
<1>1. out = {f[t] : t \in set}
  BY DEF DropSharedPorts
<1>2. IsFiniteSet(out)
  <2> HIDE DEF out, f
  <2> QED
    BY <1>1, FiniteImage
<1>3. Disambiguate(set) = {g[t] : t \in out}
  <2>1. Disambiguate(set) = {named(t) : t \in out}
    BY Zenon DEF Disambiguate
  <2> HIDE DEF named, out
  <2> QED
    BY <2>1
<1> HIDE DEF out, g
<1> QED
  BY <1>2, <1>3, FiniteImage

(* SetTargets: what the registry knows and labels after a scan. *)
LEMMA TellRegistryInv ==
  ASSUME TypeInv, RegistryInv, TellRegistry
  PROVE  RegistryInv'
<1> DEFINE set == scan.found \cup {Self}
           names == {t.name : t \in set}
<1>0. /\ runtimes \in [Name -> Runtime \cup {NoRuntime}]
      /\ sink \in [{"supervisor", "collector", "registry"} ->
                     SUBSET (Target \cup {Self} \cup Traced)]
      /\ \A t \in set : t.name \in Name /\ t.runtime \in Runtime
      /\ names \subseteq Name
  BY SelfAssumption DEF TypeInv, TypeOK, ScanState, Target
<1>1. PICK added \in Admitted(names \ Known) :
        /\ since' = since \cup added
        /\ \E last \in SUBSET set :
             /\ \A n \in names : \E t \in last : t.name = n
             /\ \A t, u \in last : t.name = u.name => t = u
             /\ runtimes' = [n \in Name |->
                  IF n \in names \cap (Known \cup added)
                  THEN (CHOOSE t \in last : t.name = n).runtime
                  ELSE runtimes[n]]
  BY DEF TellRegistry
<1>2. PICK last \in SUBSET set :
             /\ \A n \in names : \E t \in last : t.name = n
             /\ runtimes' = [n \in Name |->
                  IF n \in names \cap (Known \cup added)
                  THEN (CHOOSE t \in last : t.name = n).runtime
                  ELSE runtimes[n]]
  BY <1>1
<1>3. /\ scan'.found = {}
      /\ sink'["registry"] = set
  BY <1>0 DEF TellRegistry, Idle
<1>4. added \subseteq names \ Known
  BY DEF Admitted
<1>5. ASSUME NEW n \in names \cap (Known \cup added)
      PROVE  \E u \in set : /\ u.name = n
                            /\ u.runtime = runtimes'[n]
                            /\ runtimes'[n] \in Runtime
  <2> DEFINE u == CHOOSE t \in last : t.name = n
  <2>1. u \in last /\ u.name = n
    BY <1>2, <1>5
  <2>2. runtimes'[n] = u.runtime
    BY <1>0, <1>2, <1>5
  <2> HIDE DEF u
  <2> QED
    BY <1>0, <2>1, <2>2
<1> HIDE DEF set, names
<1>6. \A n \in Name \ (names \cap (Known \cup added)) : runtimes'[n] = runtimes[n]
  BY <1>2
<1>7. Known' = Known \cup added
  <2>1. Known' \subseteq Known \cup added
    BY <1>6 DEF Known
  <2>2. added \subseteq Known'
    BY <1>0, <1>4, <1>5, RuntimeAssumption DEF Known
  <2>3. Known \subseteq Known'
    BY <1>5, <1>6, RuntimeAssumption DEF Known
  <2> QED
    BY <2>1, <2>2, <2>3
<1>8. IsFiniteSet(Known') /\ Cardinality(Known') \in Nat
  <2> DEFINE f == [t \in set |-> t.name]
  <2>1. IsFiniteSet(set)
    BY FS_AddElement DEF RegistryInv, set
  <2>2. names = {f[t] : t \in set}
    BY DEF names
  <2>3. IsFiniteSet(names)
    <3> HIDE DEF f
    <3> QED
      BY <2>1, <2>2, FiniteImage
  <2>4. IsFiniteSet(added)
    <3>1. added \in SUBSET names
      BY <1>4
    <3> QED
      BY <2>3, <3>1, FS_Subset
  <2>5. IsFiniteSet(Known \cup added)
    BY <2>4, FS_Union DEF RegistryInv
  <2> QED
    BY <1>7, <2>5, FS_CardinalityType
<1>9. MaxRemembered \in Nat
  BY BoundsAssumption
<1>10. /\ Cardinality(Known \cup added) <= MaxRemembered \/ added = {}
       /\ added = names \ Known \/ Cardinality(Known \cup added) >= MaxRemembered
  BY DEF Admitted
<1>11. Cardinality(Known') <= MaxRemembered
  <2>1. CASE added = {}
    BY <1>7, <2>1 DEF RegistryInv, RegistryLabels
  <2>2. CASE added # {}
    BY <1>7, <1>10, <2>2
  <2> QED
    BY <2>1, <2>2
<1>12. since' = Known'
  BY <1>1, <1>7 DEF RegistryInv, RegistryLabels
<1>13. ASSUME NEW t \in sink'["registry"], t.name \in Known'
       PROVE  \E u \in sink'["registry"] :
                u.name = t.name /\ u.runtime = runtimes'[t.name]
  <2>1. t.name \in names
    BY <1>3, <1>13 DEF names
  <2> QED
    BY <1>3, <1>5, <1>7, <1>13, <2>1
<1>14. ASSUME NEW t \in sink'["registry"], t.name \notin Known'
       PROVE  Cardinality(Known') = MaxRemembered
  <2>1. t.name \in names \ Known /\ t.name \notin added
    BY <1>3, <1>7, <1>14 DEF names
  <2>2. Cardinality(Known') >= MaxRemembered
    BY <1>7, <1>10, <2>1
  <2> QED
    BY <1>8, <1>9, <1>11, <2>2
<1>15. RegistryLabels'
  BY <1>11, <1>12, <1>13, <1>14 DEF RegistryLabels
<1> QED
  BY <1>3, <1>8, <1>15, FS_EmptySet DEF RegistryInv

(* The registry never outgrows its limit, labels a name only with the      *)
(* runtime of a process that has it, and turns a service away only when it *)
(* is full, however the order of the targets falls out.                    *)
THEOREM RegistryCorrect == Spec => []RegistryLabels
<1>1. Init => RegistryInv
  <2> SUFFICES ASSUME Init PROVE RegistryInv
    OBVIOUS
  <2>1. Known = {} /\ scan.found = {} /\ sink["registry"] = {} /\ since = {}
    BY DEF Init, Known, Idle
  <2>2. IsFiniteSet({}) /\ Cardinality({}) = 0
    BY FS_EmptySet
  <2>3. 0 <= MaxRemembered
    BY BoundsAssumption
  <2> QED
    BY <2>1, <2>2, <2>3 DEF RegistryInv, RegistryLabels
<1>2. TypeInv /\ RegistryInv /\ [Next]_vars => RegistryInv'
  <2> SUFFICES ASSUME TypeInv, RegistryInv, [Next]_vars PROVE RegistryInv'
    OBVIOUS
  <2>1. scan \in ScanState
        /\ sink \in [{"supervisor", "collector", "registry"} ->
                       SUBSET (Target \cup {Self} \cup Traced)]
    BY DEF TypeInv, TypeOK
  <2>2. ASSUME UNCHANGED <<runtimes, since>>, sink'["registry"] = sink["registry"],
               IsFiniteSet(scan'.found)
        PROVE  RegistryInv'
    <3>1. Known' = Known
      BY <2>2 DEF Known
    <3> QED
      BY <2>2, <3>1 DEF RegistryInv, RegistryLabels
  <2>3. IsFiniteSet(scan.found)
    BY DEF RegistryInv
  <2>4. CASE Host \/ UNCHANGED vars
    <3>1. UNCHANGED <<scan, sink, runtimes, since>>
      BY <2>4 DEF Host, Launch, Listen, Exit, Changes, vars
    <3> QED
      BY <2>2, <2>3, <3>1
  <2>5. CASE ReadDir
    <3>1. scan'.found = {} /\ UNCHANGED <<sink, runtimes, since>>
      BY <2>5 DEF ReadDir, Idle
    <3> QED
      BY <2>2, <3>1, FS_EmptySet
  <2>6. ASSUME NEW p \in Pid, ReadExe(p) PROVE RegistryInv'
    <3>1. scan'.found = scan.found /\ UNCHANGED <<sink, runtimes, since>>
      BY <2>1, <2>6 DEF ReadExe, ScanState
    <3> QED
      BY <2>2, <2>3, <3>1
  <2>7. CASE Classify
    <3>1. /\ scan'.found = scan.found \/ \E new : scan'.found = scan.found \cup {new}
          /\ UNCHANGED <<sink, runtimes, since>>
      BY <2>1, <2>7 DEF Classify, ScanState
    <3>2. IsFiniteSet(scan'.found)
      BY <2>3, <3>1, FS_AddElement
    <3> QED
      BY <2>2, <3>1, <3>2
  <2>8. CASE ScanReturns
    <3>1. scan'.found = Disambiguate(scan.found) /\ UNCHANGED <<sink, runtimes, since>>
      BY <2>1, <2>8 DEF ScanReturns, ScanState
    <3> QED
      BY <2>2, <2>3, <3>1, DisambiguateFinite
  <2>9. CASE TellSupervisor \/ TellCollector
    <3>1. /\ scan'.found = scan.found /\ sink'["registry"] = sink["registry"]
          /\ UNCHANGED <<runtimes, since>>
      BY <2>1, <2>9 DEF TellSupervisor, TellCollector, ScanState
    <3> QED
      BY <2>2, <2>3, <3>1
  <2> QED
    BY <2>4, <2>5, <2>6, <2>7, <2>8, <2>9, TellRegistryInv DEF Next, Discover
<1>3. RegistryInv => RegistryLabels
  BY DEF RegistryInv
<1> QED
  BY <1>1, <1>2, <1>3, TypeCorrect, PTL DEF Spec

=============================================================================
