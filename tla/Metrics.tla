------------------------------- MODULE Metrics -------------------------------
(***************************************************************************)
(* The names telemetry is filed under, and the measurements apm2go takes   *)
(* itself: pipeline.cardinalityGuard with the callers of normalize and     *)
(* ConsumeMetrics, and the collectors of internal/procmetrics and          *)
(* internal/hostmetrics, which are two of those callers.                   *)
(*                                                                         *)
(* admit looks a name up under the read lock, releases it, and records the *)
(* name under the write lock: each of the two is one step here, so that    *)
(* callers race for the last free slots.  The process collector works on a *)
(* copy of the discovered targets while processes exit and their pids are  *)
(* used again.                                                             *)
(***************************************************************************)
EXTENDS Integers, FiniteSets

CONSTANTS
  Exporter,       \* goroutines that consume spans
  Service,        \* names in telemetry and of discovered processes
  Operation,
  NoName,         \* the empty name
  OverflowLabel,
  HostService,
  MaxServices, MaxOperations,
  Sends,          \* [Exporter -> set of <<service, operation>>]: what it sends
  MaxCalls,       \* bound on the spans of an exporter and on host samples
  Pid,
  NameOf,         \* [process number -> Service]
  NumCPU,
  MaxTime,        \* bound on the clock
  MaxProcesses    \* bound on processes started

ProcCollector == "process-metrics"
HostCollector == "host-metrics"
Caller  == Exporter \cup {ProcCollector, HostCollector}
Process == 1..MaxProcesses
NoProcess == 0

ASSUME BudgetAssumption == MaxServices \in Nat \ {0} /\ MaxOperations \in Nat \ {0}
ASSUME BoundAssumption ==
  /\ MaxTime \in Nat /\ MaxProcesses \in Nat /\ NumCPU \in Nat \ {0} /\ MaxCalls \in Nat
ASSUME NameAssumption ==
  /\ NameOf \in [Process -> Service]
  /\ Sends \in [Exporter -> SUBSET ((Service \cup {NoName}) \X (Operation \cup {NoName}))]
  /\ {OverflowLabel, NoName, HostService} \cap Service = {}
  /\ OverflowLabel # HostService /\ NoName \notin {OverflowLabel, HostService}
  /\ Exporter \cap {ProcCollector, HostCollector} = {}

VARIABLES
  services,    \* cardinalityGuard.services
  operations,  \* cardinalityGuard.operations: pairs <<service, operation>>
  call,        \* [Caller -> Call]: the call of the guard each caller is in
  sent,        \* [Exporter \cup {HostCollector} -> calls made]
  filed,       \* <<name, label>> pairs services went to the queues under
  filedOps,    \* <<service label, operation, label>> likewise
  now,
  running,     \* [Pid -> Process \cup {NoProcess}]
  started,     \* processes started so far
  used,        \* [Pid -> CPU time the running process has used]
  targets,     \* [Pid -> Process \cup {NoProcess}]: Collector.targets
  prior,       \* [Pid -> Sample]: Collector.prior
  round        \* the collection in progress

guardVars     == <<services, operations, call, filed, filedOps>>
hostVars      == <<now, running, started, used>>
collectorVars == <<prior, round>>
metricsVars == <<guardVars, sent, hostVars, targets, collectorVars>>

Call == [pc : {"idle", "service", "admit service", "operation", "admit operation"},
         service : Service \cup {HostService, NoName},
         operation : Operation \cup {NoName},
         label : Service \cup {HostService, NoName, OverflowLabel}]
NoCall == [pc |-> "idle", service |-> NoName, operation |-> NoName, label |-> NoName]

(* The code keeps cpu and at, the start of the round.  The rest is history *)
(* of the series of samples of one process, of: the CPU time at the first  *)
(* one, the CPU time charged by the figures reported since (each times its *)
(* elapsed time and numCPU), the CPU time between rounds of one instant,   *)
(* and whether the first of those figures is relative to another process.  *)
Sample   == [known : BOOLEAN, cpu : Nat, at : Nat, of : Nat,
             first : Nat, charged : Int, skipped : Int, mixed : BOOLEAN]
NoSample == [known |-> FALSE, cpu |-> 0, at |-> 0, of |-> NoProcess,
             first |-> 0, charged |-> 0, skipped |-> 0, mixed |-> FALSE]

-----------------------------------------------------------------------------
(* cardinalityGuard.                                                       *)

(* Fault: a full set collapses the names it holds, too. *)
RoomOnly(set, key, max) == Cardinality(set) < max

(* Fault: the second look is left out. *)
NoSecondLook(set, key, max) == TRUE

(* admit, under the write lock. *)
Admits(set, key, max) == Cardinality(set) < max \/ key \in set

(* service and, with the service's label, operation: where the call goes   *)
(* from here.  Metrics have no operation.                                  *)
ServiceDone(c, label) ==
  /\ filed' = IF call[c].service = NoName THEN filed
              ELSE filed \cup {<<call[c].service, label>>}
  /\ call' = [call EXCEPT ![c] = IF c \in Exporter
                THEN [@ EXCEPT !.pc = "operation", !.label = label] ELSE NoCall]

OperationDone(c, label) ==
  /\ filedOps' = IF call[c].operation = NoName THEN filedOps
                 ELSE filedOps \cup {<<call[c].label, call[c].operation, label>>}
  /\ call' = [call EXCEPT ![c] = NoCall]

LookUpService(c) ==
  /\ call[c].pc = "service"
  /\ LET name == call[c].service IN
     \/ name = NoName /\ ServiceDone(c, OverflowLabel)
     \/ name \in services /\ ServiceDone(c, name)
     \/ /\ name \notin services \cup {NoName} /\ Cardinality(services) >= MaxServices
        /\ ServiceDone(c, OverflowLabel)
     \/ /\ name \notin services \cup {NoName} /\ Cardinality(services) < MaxServices
        /\ call' = [call EXCEPT ![c].pc = "admit service"]
        /\ UNCHANGED filed
  /\ UNCHANGED <<services, operations, filedOps, sent, hostVars, targets, collectorVars>>

AdmitService(c) ==
  /\ call[c].pc = "admit service"
  /\ LET name == call[c].service IN
     IF Admits(services, name, MaxServices)
     THEN services' = services \cup {name} /\ ServiceDone(c, name)
     ELSE UNCHANGED services /\ ServiceDone(c, OverflowLabel)
  /\ UNCHANGED <<operations, filedOps, sent, hostVars, targets, collectorVars>>

LookUpOperation(c) ==
  /\ call[c].pc = "operation"
  /\ LET name == call[c].operation
         key  == <<call[c].label, name>> IN
     \/ name = NoName /\ OperationDone(c, OverflowLabel)
     \/ key \in operations /\ OperationDone(c, name)
     \/ /\ name # NoName /\ key \notin operations /\ Cardinality(operations) >= MaxOperations
        /\ OperationDone(c, OverflowLabel)
     \/ /\ name # NoName /\ key \notin operations /\ Cardinality(operations) < MaxOperations
        /\ call' = [call EXCEPT ![c].pc = "admit operation"]
        /\ UNCHANGED filedOps
  /\ UNCHANGED <<services, operations, filed, sent, hostVars, targets, collectorVars>>

AdmitOperation(c) ==
  /\ call[c].pc = "admit operation"
  /\ LET key == <<call[c].label, call[c].operation>> IN
     IF Admits(operations, key, MaxOperations)
     THEN operations' = operations \cup {key} /\ OperationDone(c, call[c].operation)
     ELSE UNCHANGED operations /\ OperationDone(c, OverflowLabel)
  /\ UNCHANGED <<services, filed, sent, hostVars, targets, collectorVars>>

(* normalize, for a span of a name and an operation *)
Normalize(c, s, o) ==
  /\ call[c].pc = "idle" /\ sent[c] < MaxCalls
  /\ sent' = [sent EXCEPT ![c] = @ + 1]
  /\ call' = [call EXCEPT ![c] =
       [pc |-> "service", service |-> s, operation |-> o, label |-> NoName]]
  /\ UNCHANGED <<services, operations, filed, filedOps, hostVars, targets, collectorVars>>

(* hostmetrics.Collector.collect hands over a sample. *)
SampleHost ==
  /\ call[HostCollector].pc = "idle" /\ sent[HostCollector] < MaxCalls
  /\ sent' = [sent EXCEPT ![HostCollector] = @ + 1]
  /\ call' = [call EXCEPT ![HostCollector] = [NoCall EXCEPT !.pc = "service", !.service = HostService]]
  /\ UNCHANGED <<services, operations, filed, filedOps, hostVars, targets, collectorVars>>

-----------------------------------------------------------------------------
(* The host and the discovery.                                             *)

TimePasses ==
  /\ now < MaxTime
  /\ now' = now + 1
  /\ \E work \in [Pid -> 0..NumCPU] :
       used' = [p \in Pid |-> IF running[p] = NoProcess THEN 0 ELSE used[p] + work[p]]
  /\ UNCHANGED <<guardVars, sent, running, started, targets, collectorVars>>

StartProcess(p) ==
  /\ running[p] = NoProcess /\ started < MaxProcesses
  /\ started' = started + 1
  /\ running' = [running EXCEPT ![p] = started + 1]
  /\ UNCHANGED <<guardVars, sent, now, used, targets, collectorVars>>

ExitProcess(p) ==
  /\ running[p] # NoProcess
  /\ running' = [running EXCEPT ![p] = NoProcess]
  /\ used' = [used EXCEPT ![p] = 0]
  /\ UNCHANGED <<guardVars, sent, now, started, targets, collectorVars>>

(* A scan of the eBPF discovery ends. *)
SetTargets ==
  /\ targets # running
  /\ targets' = running
  /\ UNCHANGED <<guardVars, sent, hostVars, collectorVars>>

-----------------------------------------------------------------------------
(* procmetrics.Collector.collect.                                          *)

NoRound == [on |-> FALSE, targets |-> [p \in Pid |-> NoProcess], at |-> 0, todo |-> {}, metrics |-> {}]

(* A round is over once its metrics are handed over. *)
Left(r) == IF ~ r.on /\ r.metrics = {} THEN NoRound ELSE r

(* collect, up to the loop: the snapshot and the time of the round *)
BeginRound ==
  /\ ~ round.on /\ round.metrics = {} /\ call[ProcCollector].pc = "idle"
  /\ round' = [on |-> TRUE, targets |-> targets, at |-> now,
               todo |-> {p \in Pid : targets[p] # NoProcess}, metrics |-> {}]
  /\ UNCHANGED <<guardVars, sent, hostVars, targets, prior>>

(* Fault: no check for a counter that went backwards. *)
ReportedAnyway(elapsed, diff) == elapsed > 0

(* cpuMetric reports no figure without time between, or with a counter     *)
(* that went backwards.                                                    *)
Reported(elapsed, diff) == elapsed > 0 /\ diff >= 0

(* cpuMetric, for the process that has the pid by now *)
Sampled(p) ==
  LET was      == prior[p]
      diff     == used[p] - was.cpu
      elapsed  == round.at - was.at
      same     == was.known /\ was.of = running[p]
      reported == was.known /\ Reported(elapsed, diff)
  IN  [known |-> TRUE, cpu |-> used[p], at |-> round.at, of |-> running[p],
       first   |-> IF same THEN was.first ELSE used[p],
       charged |-> (IF same THEN was.charged ELSE 0) + (IF reported THEN diff ELSE 0),
       skipped |-> IF same THEN was.skipped + (IF elapsed = 0 THEN diff ELSE 0) ELSE 0,
       mixed   |-> IF same THEN was.mixed ELSE reported]

(* sampleTarget: CPU with its baseline; memory and disk need none.  The    *)
(* process may be gone by now, or some or all of its counters unreadable:  *)
(* the baseline then stays.                                                *)
SampleTarget(p) ==
  /\ round.on /\ p \in round.todo
  /\ \/ /\ running[p] # NoProcess
        /\ prior' = [prior EXCEPT ![p] = Sampled(p)]
        /\ round' = [round EXCEPT !.todo = @ \ {p}, !.metrics = @ \cup {p}]
     \/ /\ \E others \in SUBSET {p} :
             /\ running[p] = NoProcess => others = {}
             /\ round' = [round EXCEPT !.todo = @ \ {p}, !.metrics = @ \cup others]
        /\ UNCHANGED prior
  /\ UNCHANGED <<guardVars, sent, hostVars, targets>>

(* Only a pid of the round's snapshot keeps its baseline. *)
Keeps(p) == round.targets[p] # NoProcess

(* The end of the loop: baselines of pids that were passed over go. *)
DropHistory ==
  /\ round.on /\ round.todo = {}
  /\ prior' = [p \in Pid |-> IF Keeps(p) THEN prior[p] ELSE NoSample]
  /\ round' = Left([round EXCEPT !.on = FALSE])
  /\ UNCHANGED <<guardVars, sent, hostVars, targets>>

(* ConsumeMetrics, metric by metric, before the next round *)
ConsumeMetric(p) ==
  /\ ~ round.on /\ p \in round.metrics
  /\ call[ProcCollector].pc = "idle"
  /\ call' = [call EXCEPT ![ProcCollector] =
       [NoCall EXCEPT !.pc = "service", !.service = NameOf[round.targets[p]]]]
  /\ round' = Left([round EXCEPT !.metrics = @ \ {p}])
  /\ UNCHANGED <<services, operations, filed, filedOps, sent, hostVars, targets, prior>>

-----------------------------------------------------------------------------
MetricsInit ==
  /\ services = {} /\ operations = {} /\ filed = {} /\ filedOps = {}
  /\ call = [c \in Caller |-> NoCall]
  /\ sent = [c \in Exporter \cup {HostCollector} |-> 0]
  /\ now = 0 /\ started = 0
  /\ running = [p \in Pid |-> NoProcess]
  /\ used = [p \in Pid |-> 0]
  /\ targets = [p \in Pid |-> NoProcess]
  /\ prior = [p \in Pid |-> NoSample]
  /\ round = NoRound

Guard(c) == LookUpService(c) \/ AdmitService(c) \/ LookUpOperation(c) \/ AdmitOperation(c)

MetricsNext ==
  \/ \E c \in Exporter : \E span \in Sends[c] : Normalize(c, span[1], span[2])
  \/ \E c \in Caller : Guard(c)
  \/ SampleHost
  \/ TimePasses \/ SetTargets \/ BeginRound \/ DropHistory
  \/ \E p \in Pid : StartProcess(p) \/ ExitProcess(p) \/ SampleTarget(p) \/ ConsumeMetric(p)

MetricsSpec == MetricsInit /\ [][MetricsNext]_metricsVars

-----------------------------------------------------------------------------
MetricsTypeOK ==
  /\ services \subseteq Service \cup {HostService}
  /\ operations \subseteq (Service \cup {OverflowLabel}) \X Operation
  /\ call \in [Caller -> Call]
  /\ sent \in [Exporter \cup {HostCollector} -> 0..MaxCalls]
  /\ now \in 0..MaxTime /\ started \in 0..MaxProcesses
  /\ running \in [Pid -> Process \cup {NoProcess}]
  /\ targets \in [Pid -> Process \cup {NoProcess}]
  /\ \A p \in Pid : used[p] \in Nat /\ prior[p] \in Sample

(* However callers race, no more names get past the guard than the budgets *)
(* allow, with the overflow label for all others.                          *)
FiledNamesBounded ==
  /\ Cardinality({pair[2] : pair \in filed} \ {OverflowLabel}) <= MaxServices
  /\ Cardinality({<<f[1], f[3]>> : f \in {g \in filedOps : g[3] # OverflowLabel}}) <= MaxOperations

(* A name is filed under itself for good or collapsed for good: no series  *)
(* is cut into two by the guard, also when two callers bring the same new  *)
(* name while the last slot is taken.                                      *)
OneLabelPerName ==
  /\ \A f, g \in filed : f[1] = g[1] => f[2] = g[2]
  /\ \A f, g \in filedOps : f[1] = g[1] /\ f[2] = g[2] => f[3] = g[3]

(* The CPU figures of a process add up to the CPU time it has used since   *)
(* its first sample, whichever samples failed between, and however its pid *)
(* and the targets changed: none is counted twice, none is lost but what   *)
(* falls between two rounds that begin in the same instant.  If the first  *)
(* figure is relative to a predecessor on the pid, they still charge the   *)
(* process with no more than it used itself, and with nothing negative.    *)
UsageAddsUp ==
  \A p \in Pid : prior[p].known =>
    LET s == prior[p] IN
    /\ s.charged <= s.cpu - (IF s.mixed THEN 0 ELSE s.first)
    /\ s.charged + s.skipped >= s.cpu - s.first

(* No figure is relative to the CPU time of another process: "a pid reused *)
(* by an unrelated process never inherits a stale baseline".               *)
NoInheritedBaseline == \A p \in Pid : ~ prior[p].mixed
=============================================================================
