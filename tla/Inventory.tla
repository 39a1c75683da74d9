------------------------------ MODULE Inventory ------------------------------
(***************************************************************************)
(* internal/inventory: the Manager that polls the host for JVMs and drives *)
(* each one through the instrumentation lifecycle.                         *)
(*                                                                         *)
(* Three kinds of goroutine share the entries map: the single reconcile    *)
(* loop, the attach goroutines it spawns, and the operators' requests      *)
(* (Attach, SetManualOnly).  Every critical section of Manager.mu is one   *)
(* action; what runs between two critical sections interleaves.            *)
(*                                                                         *)
(* Time is kept as flags.  A deadline is only ever compared with the time  *)
(* read at the start of a reconcile pass, so deadlines pass between two    *)
(* passes.                                                                 *)
(***************************************************************************)
EXTENDS Injector

CONSTANTS
  KindsOf,        \* [Key -> SUBSET Kind]: what scans may read of a process;
                  \* a JVM's description changes once its perf data appears
  AutoAttach,     \* config attach.auto_attach
  MaxRetries,     \* config attach.max_retries
  MaxRequests,    \* bound on operator requests
  MaxMisses,      \* bound on scans that fail to read a live process
  MaxRestarts     \* bound on restarts of apm2go

ASSUME KindsOfAssumption == KindsOf \in [Key -> SUBSET Kind]
ASSUME RetriesAssumption == MaxRetries \in Nat
ASSUME AutoAttachAssumption == AutoAttach \in BOOLEAN
ASSUME BoundsAssumption ==
  MaxRequests \in Nat /\ MaxMisses \in Nat /\ MaxRestarts \in Nat

VARIABLES
  entries,        \* [Key -> EntryState], state "absent" for a key not in the map
  inflight,       \* Manager.inflight
  rec,            \* the reconcile loop
  budget          \* how much of each bound is left

managerVars == <<entries, inflight, rec, budget>>
vars == <<targetVars, worker, managerVars>>

State == {"discovered", "pending", "attaching", "attached", "failed",
          "skipped", "exited"}

(* next is NextAttempt: zero, in the future, or in the past.  byOperator   *)
(* stands for the Reason SetManualOnly writes and later compares with.     *)
(* lapsed says that ExitedAt is more than exitedRetention ago.             *)
EntryState ==
  [state : State \cup {"absent"}, kind : Kind, attempts : Nat,
   next : {"zero", "armed", "due"}, manualOnly : BOOLEAN,
   byOperator : BOOLEAN, lapsed : BOOLEAN]

Absent ==
  [state |-> "absent", kind |-> "plain", attempts |-> 0, next |-> "zero",
   manualOnly |-> FALSE, byOperator |-> FALSE, lapsed |-> FALSE]

Tracked(k) == entries[k].state # "absent"

(* The reconcile loop: waiting for a tick, about to observe one of the     *)
(* JVMs the scan found, or about to decide on the one just observed.       *)
RecState ==
  [pc : {"tick", "observe", "decide"}, todo : SUBSET Key,
   cur : Key \cup {NoKey}, seen : SUBSET Key]

IdleRec == [pc |-> "tick", todo |-> {}, cur |-> NoKey, seen |-> {}]

Budget == [requests : 0..MaxRequests, misses : 0..MaxMisses,
           restarts : 0..MaxRestarts]

Init ==
  /\ InjectorInit
  /\ entries = [k \in Key |-> Absent]
  /\ inflight = {}
  /\ rec = IdleRec
  /\ budget = [requests |-> MaxRequests, misses |-> MaxMisses,
               restarts |-> MaxRestarts]

-----------------------------------------------------------------------------
(* Time.                                                                   *)

(* discovery.min_uptime has passed since the process started. *)
Settles(k) ==
  /\ rec.pc = "tick"
  /\ proc[k] = "young"
  /\ proc' = [proc EXCEPT ![k] = "settled"]
  /\ UNCHANGED <<marker, agents, worker, managerVars>>

(* attach.retry_backoff has passed since the last failure. *)
BackoffElapses(k) ==
  /\ rec.pc = "tick"
  /\ entries[k].next = "armed"
  /\ entries' = [entries EXCEPT ![k].next = "due"]
  /\ UNCHANGED <<targetVars, worker, inflight, rec, budget>>

(* exitedRetention has passed since the entry was marked exited.  No       *)
(* operator request spends those ten minutes between its pid lookup and    *)
(* the lock right after it.                                                *)
RetentionLapses(k) ==
  /\ rec.pc = "tick"
  /\ entries[k].state = "exited"
  /\ ~ entries[k].lapsed
  /\ \A w \in Worker :
       worker[w].key = k => worker[w].pc \notin {"keyed", "disable", "enable"}
  /\ entries' = [entries EXCEPT ![k].lapsed = TRUE]
  /\ UNCHANGED <<targetVars, worker, inflight, rec, budget>>

-----------------------------------------------------------------------------
(* The reconcile loop.                                                     *)

(* Scan: the JVMs readable under /proc.  A process whose files cannot be   *)
(* read is skipped like one that vanished.                                 *)
Scan ==
  /\ rec.pc = "tick"
  /\ \E missed \in SUBSET {k \in Key : Alive(k)} :
       LET found == {k \in Key : Alive(k)} \ missed
           cost  == IF missed = {} THEN 0 ELSE 1
       IN /\ cost <= budget.misses
          /\ budget' = [budget EXCEPT !.misses = @ - cost]
          /\ rec' = [pc |-> "observe", todo |-> found,
                     cur |-> NoKey, seen |-> found]
  /\ UNCHANGED <<targetVars, worker, entries, inflight>>

(* classify *)
Classify(kind, settled) ==
  CASE kind \in {"excluded", "unsupported"} -> "skipped"
    [] kind = "preloaded"                   -> "attached"
    [] OTHER -> IF settled THEN "discovered" ELSE "pending"

Classified(e, k) ==
  LET s == Classify(e.kind, proc[k] # "young")
  IN  [e EXCEPT !.state = s, !.byOperator = FALSE]

(* observe: a new key is classified, a pending one reclassified, any other *)
(* entry only has its description refreshed.                               *)
Observe(k) ==
  /\ rec.pc = "observe"
  /\ k \in rec.todo
  /\ \E kind \in KindsOf[k] :
       LET e == [entries[k] EXCEPT !.kind = kind]
       IN entries' = [entries EXCEPT ![k] =
            IF entries[k].state \in {"absent", "pending"}
            THEN Classified(e, k) ELSE e]
  /\ rec' = [rec EXCEPT !.pc = "decide", !.todo = @ \ {k}, !.cur = k]
  /\ UNCHANGED <<targetVars, worker, inflight, budget>>

(* Fault: failed entries are never retried. *)
ShouldAttachOnce(e) == AutoAttach /\ ~ e.manualOnly /\ e.state = "discovered"

(* shouldAttach *)
ShouldAttach(e) ==
  /\ AutoAttach
  /\ ~ e.manualOnly
  /\ \/ e.state = "discovered"
     \/ e.state = "failed" /\ e.attempts < MaxRetries /\ e.next = "due"

(* The decision for the entry just observed, under a lock of its own, and  *)
(* the `go m.attach(ctx, key)` that follows it.                            *)
Decide ==
  /\ rec.pc = "decide"
  /\ IF ShouldAttach(entries[rec.cur])
     THEN \E w \in Worker :
            /\ worker[w].pc = "idle"
            /\ worker' = [worker EXCEPT ![w] =
                 [IdleWorker EXCEPT !.pc = "spawned", !.key = rec.cur,
                                    !.auto = TRUE]]
     ELSE UNCHANGED worker
  /\ rec' = [rec EXCEPT !.pc = "observe", !.cur = NoKey]
  /\ UNCHANGED <<targetVars, entries, inflight, budget>>

(* Fault: exited entries are kept. *)
ReapedNeverDropped(e) ==
  IF e.state # "exited"
  THEN [e EXCEPT !.state = "exited", !.next = "zero", !.lapsed = FALSE]
  ELSE e

Reaped(e) ==
  IF e.state # "exited"
  THEN [e EXCEPT !.state = "exited", !.next = "zero", !.lapsed = FALSE]
  ELSE IF e.lapsed THEN Absent ELSE e

(* reapMissing, which ends the pass. *)
ReapMissing ==
  /\ rec.pc = "observe"
  /\ rec.todo = {}
  /\ entries' = [k \in Key |->
       IF Tracked(k) /\ k \notin rec.seen THEN Reaped(entries[k])
                                          ELSE entries[k]]
  /\ rec' = IdleRec
  /\ UNCHANGED <<targetVars, worker, inflight, budget>>

-----------------------------------------------------------------------------
(* Manager.attach, around the injection itself.                            *)

(* Fault: the key is stored without looking whether it was there. *)
AttachEnterUnchecked(w) ==
  /\ worker[w].pc = "spawned"
  /\ inflight' = inflight \cup {worker[w].key}
  /\ Step(w, "held")
  /\ UNCHANGED <<targetVars, entries, rec, budget>>

(* inflight.LoadOrStore; a busy key ends the goroutine. *)
AttachEnter(w) ==
  LET k == worker[w].key
  IN /\ worker[w].pc = "spawned"
     /\ IF k \in inflight
        THEN /\ worker' = [worker EXCEPT ![w] = IdleWorker]
             /\ UNCHANGED inflight
        ELSE /\ inflight' = inflight \cup {k}
             /\ Step(w, "held")
     /\ UNCHANGED <<targetVars, entries, rec, budget>>

(* The first critical section: the entry becomes attaching whatever state  *)
(* it is in by now.                                                        *)
AttachBegin(w) ==
  LET k == worker[w].key
  IN /\ worker[w].pc = "held"
     /\ IF Tracked(k)
        THEN /\ entries' = [entries EXCEPT ![k].state = "attaching",
                                           ![k].attempts = @ + 1]
             /\ worker' = [worker EXCEPT ![w].pc = "probe",
                             ![w].kind = entries[k].kind,
                             ![w].attempt = entries[k].attempts + 1]
        ELSE /\ Step(w, "release")
             /\ UNCHANGED entries
     /\ UNCHANGED <<targetVars, inflight, rec, budget>>

(* The entry after a failed attempt, and after a successful one            *)
(* (applyResult).                                                          *)
AfterFailure(e, attempt) ==
  [e EXCEPT !.state = "failed", !.byOperator = FALSE,
            !.next = IF attempt < MaxRetries THEN "armed" ELSE "zero"]

ApplyResult(e) ==
  [e EXCEPT !.state = "attached", !.byOperator = FALSE, !.next = "zero"]

(* Fault: a failure returns before the outcome is recorded. *)
AttachRecordSuccessOnly(w) ==
  LET k == worker[w].key
  IN /\ worker[w].pc = "record"
     /\ entries' = [entries EXCEPT ![k] =
          IF ~ Tracked(k) \/ worker[w].failed THEN @ ELSE ApplyResult(@)]
     /\ Step(w, "release")
     /\ UNCHANGED <<targetVars, inflight, rec, budget>>

(* The second critical section. *)
AttachRecord(w) ==
  LET k == worker[w].key
  IN /\ worker[w].pc = "record"
     /\ entries' = [entries EXCEPT ![k] =
          IF ~ Tracked(k) THEN @
          ELSE IF worker[w].failed THEN AfterFailure(@, worker[w].attempt)
          ELSE ApplyResult(@)]
     /\ Step(w, "release")
     /\ UNCHANGED <<targetVars, inflight, rec, budget>>

(* The deferred inflight.Delete. *)
AttachRelease(w) ==
  /\ worker[w].pc = "release"
  /\ inflight' = inflight \ {worker[w].key}
  /\ worker' = [worker EXCEPT ![w] = IdleWorker]
  /\ UNCHANGED <<targetVars, entries, rec, budget>>

-----------------------------------------------------------------------------
(* Operator requests.  Each resolves the pid under one lock and acts on    *)
(* the entry under another.                                                *)

(* keyForPID: any entry with the pid that is not exited. *)
KeysForPid(pid) ==
  {k \in Key : Tracked(k) /\ PidOf[k] = pid /\ entries[k].state # "exited"}

Request(w, pid, pc) ==
  /\ worker[w].pc = "idle"
  /\ budget.requests > 0
  /\ budget' = [budget EXCEPT !.requests = @ - 1]
  /\ \E k \in KeysForPid(pid) :
       worker' = [worker EXCEPT ![w] =
                    [IdleWorker EXCEPT !.pc = pc, !.key = k]]
  /\ UNCHANGED <<targetVars, entries, inflight, rec>>

(* Attach: clear the retry budget and the operator's veto, then go through *)
(* the same attach as the reconcile loop.                                  *)
ManualAttach(w) ==
  /\ worker[w].pc = "keyed"
  /\ entries' = [entries EXCEPT ![worker[w].key].attempts = 0,
                                ![worker[w].key].manualOnly = FALSE]
  /\ Step(w, "spawned")
  /\ UNCHANGED <<targetVars, inflight, rec, budget>>

Disabled(e) ==
  IF e.state = "discovered"
  THEN [e EXCEPT !.manualOnly = TRUE, !.state = "skipped", !.byOperator = TRUE]
  ELSE [e EXCEPT !.manualOnly = TRUE]

Enabled(e) ==
  IF e.state = "skipped" /\ e.byOperator
  THEN [e EXCEPT !.manualOnly = FALSE, !.state = "discovered",
                 !.byOperator = FALSE]
  ELSE [e EXCEPT !.manualOnly = FALSE]

SetManualOnly(w) ==
  LET k == worker[w].key
  IN /\ worker[w].pc \in {"disable", "enable"}
     /\ entries' = [entries EXCEPT ![k] =
          IF worker[w].pc = "disable" THEN Disabled(@) ELSE Enabled(@)]
     /\ worker' = [worker EXCEPT ![w] = IdleWorker]
     /\ UNCHANGED <<targetVars, inflight, rec, budget>>

-----------------------------------------------------------------------------
(* apm2go stops, at any point, and starts again: the inventory is only in  *)
(* memory, the instrumented processes keep what was loaded into them.      *)
Restart ==
  /\ budget.restarts > 0
  /\ budget' = [budget EXCEPT !.restarts = @ - 1]
  /\ entries' = [k \in Key |-> Absent]
  /\ inflight' = {}
  /\ rec' = IdleRec
  /\ worker' = [w \in Worker |-> IdleWorker]
  /\ UNCHANGED targetVars

Environment ==
  /\ \E k \in Key : Born(k) \/ Dies(k)
  /\ UNCHANGED managerVars

Time == \E k \in Key : Settles(k) \/ BackoffElapses(k) \/ RetentionLapses(k)

Reconcile == Scan \/ (\E k \in Key : Observe(k)) \/ Decide \/ ReapMissing

(* One goroutine's step of attach, injection included. *)
Attach(w) ==
  \/ AttachEnter(w)
  \/ AttachBegin(w)
  \/ Inject(w) /\ UNCHANGED managerVars
  \/ AttachRecord(w)
  \/ AttachRelease(w)

Operator(w) ==
  \/ \E pid \in Pid, pc \in {"keyed", "disable", "enable"} : Request(w, pid, pc)
  \/ ManualAttach(w)
  \/ SetManualOnly(w)

Next ==
  \/ Environment
  \/ Time
  \/ Reconcile
  \/ \E w \in Worker : Attach(w) \/ Operator(w)
  \/ Restart

Spec == Init /\ [][Next]_vars

(* The poll loop ticks for ever, and a goroutine that was started runs:    *)
(* every handshake is bounded by attach.timeout.  Deadlines pass whatever  *)
(* the loop does; strong fairness makes up for their being placed between  *)
(* passes.  Nothing is assumed of processes, operators and restarts.       *)
Fairness ==
  /\ WF_vars(Reconcile)
  /\ \A k \in Key : SF_vars(Settles(k)) /\ SF_vars(BackoffElapses(k))
                      /\ SF_vars(RetentionLapses(k))
  /\ \A w \in Worker :
       WF_vars(Attach(w) \/ ManualAttach(w) \/ SetManualOnly(w))

FairSpec == Spec /\ Fairness

-----------------------------------------------------------------------------
(* Properties.                                                             *)

TypeOK ==
  /\ InjectorTypeOK
  /\ entries \in [Key -> EntryState]
  /\ inflight \subseteq Key
  /\ rec \in RecState
  /\ rec.pc = "decide" => rec.cur \in Key
  /\ \A w \in Worker : worker[w].pc # "idle" => worker[w].key \in Key
  /\ budget \in Budget

(* Between LoadOrStore and the deferred Delete. *)
Holding(w) == worker[w].pc \in {"held", "probe", "bootstrap", "otel",
                               "record", "release"}

(* Between the two critical sections of attach. *)
Injecting(w) == worker[w].pc \in {"probe", "bootstrap", "otel", "record"}

(* Only one attach per process at a time: two goroutines never hold the    *)
(* same key, whatever the reconcile loop spawned and operators asked for.  *)
OneHandshake ==
  \A v, w \in Worker :
    v # w /\ Holding(v) /\ Holding(w) => worker[v].key # worker[w].key

(* An entry shown as attaching has an injection in flight: no path through *)
(* attach, the reaper or an operator request leaves it attaching for ever. *)
AttachingIsInFlight ==
  \A k \in Key : entries[k].state = "attaching" =>
    \E w \in Worker : Injecting(w) /\ worker[w].key = k

(* A process that has the OpenTelemetry agent is given it again only by an *)
(* injection whose properties request went unanswered: whenever the target *)
(* answers, retries after lost replies, manual attaches and restarts leave *)
(* it alone, although pids are reused and the answer is used after other   *)
(* goroutines have run.                                                    *)
LoadedAgainOnlyBlindly ==
  \A k \in Key : \A i, j \in DOMAIN agents[k] :
    i < j /\ agents[k][i].for = k /\ agents[k][j].for = k
      => agents[k][j].blind

(* Inject is idempotent (its comment): the OpenTelemetry agent is loaded   *)
(* into a process at most once.                                            *)
LoadedAtMostOnce == \A k \in Key : Len(agents[k]) <= 1

(* A JVM shown as attached carries apm2go's configuration, even when the   *)
(* success was inferred from the marker by a later run of apm2go.          *)
AttachedIsConfigured ==
  \A k \in Key :
    entries[k].state = "attached" /\ "preloaded" \notin KindsOf[k]
      => k \in marker

(* A JVM shown as attached has the OpenTelemetry agent loaded (the comment *)
(* on StateAttached).                                                      *)
AttachedIsInstrumented ==
  \A k \in Key :
    entries[k].state = "attached" /\ "preloaded" \notin KindsOf[k]
      => agents[k] # <<>>

(* The reconcile loop leaves a process alone once an operator disabled     *)
(* auto-attach for it (the comment on ManualOnly).                         *)
VetoHolds ==
  [][\A w \in Worker :
       worker[w].auto /\ worker[w].pc = "held" /\ worker'[w].pc = "probe"
         => ~ entries[worker[w].key].manualOnly]_vars

(* Every JVM that stays up is driven to its target state: attached,        *)
(* skipped, left to the operator, or failed with no retry to come.         *)
DrivenToTarget ==
  \A k \in Key : Alive(k) ~>
    \/ ~ Alive(k)
    \/ entries[k].state \in {"attached", "skipped"}
    \/ entries[k].manualOnly
    \/ entries[k].state = "failed" /\ entries[k].next = "zero"

(* Entries of dead processes do not accumulate: even one that a late       *)
(* attach brought back is reaped and finally dropped.                      *)
DeadAreForgotten ==
  \A k \in Key : proc[k] = "dead" ~> [](~ Tracked(k))

=============================================================================
