--------------------------- MODULE InventoryProofs ---------------------------
(***************************************************************************)
(* Theorems about Inventory, for every set of processes and goroutines and *)
(* every configuration.                                                    *)
(***************************************************************************)
EXTENDS Inventory, TLAPS

(* A goroutine at rest. *)
LEMMA IdleWorkerType == IdleWorker \in WorkerState
BY DEF IdleWorker, WorkerState, WorkerPC, Kind

(* The entry of a key that is not there. *)
LEMMA AbsentType == Absent \in EntryState
BY DEF Absent, EntryState, State, Kind

(* The reconciler at rest. *)
LEMMA IdleRecType == IdleRec \in RecState
BY DEF IdleRec, RecState

(* The initial state is typed. *)
LEMMA InitTypeOK == Init => TypeOK
<1> SUFFICES ASSUME Init PROVE TypeOK
  OBVIOUS
<1>1. InjectorTypeOK
  BY IdleWorkerType DEF Init, InjectorInit, InjectorTypeOK
<1>2. entries \in [Key -> EntryState] /\ inflight \subseteq Key
  BY AbsentType DEF Init
<1>3. rec \in RecState /\ (rec.pc = "decide" => rec.cur \in Key)
  BY IdleRecType DEF Init, IdleRec
<1>4. \A w \in Worker : worker[w].pc # "idle" => worker[w].key \in Key
  BY DEF Init, InjectorInit, IdleWorker
<1>5. budget \in Budget
  BY BoundsAssumption DEF Init, Budget
<1> QED
  BY <1>1, <1>2, <1>3, <1>4, <1>5 DEF TypeOK

(* What a goroutine's moves through Inject leave intact. *)
WorkersTyped ==
  /\ worker \in [Worker -> WorkerState]
  /\ \A w \in Worker : worker[w].pc # "idle" => worker[w].key \in Key

(* A goroutine's step keeps its type. *)
LEMMA StepTyped ==
  ASSUME WorkersTyped, NEW w \in Worker, worker[w].pc # "idle",
         NEW pc \in WorkerPC \ {"idle"}, Step(w, pc)
  PROVE  WorkersTyped'
BY DEF WorkersTyped, Step, WorkerState

(* So does the end of Inject, *)
LEMMA FinishTyped ==
  ASSUME WorkersTyped, NEW w \in Worker, worker[w].pc # "idle",
         NEW b \in BOOLEAN, Finish(w, b)
  PROVE  WorkersTyped'
BY DEF WorkersTyped, Finish, WorkerState, WorkerPC

(* and the goroutine's return. *)
LEMMA DismissTyped ==
  ASSUME WorkersTyped, NEW w \in Worker,
         worker' = [worker EXCEPT ![w] = IdleWorker]
  PROVE  WorkersTyped'
BY IdleWorkerType DEF WorkersTyped, IdleWorker

(* Inject touches the target and the goroutine's own record only. *)
LEMMA InjectTypeOK ==
  ASSUME TypeOK, NEW w \in Worker, Inject(w)
  PROVE  InjectorTypeOK' /\ WorkersTyped'
<1> USE DEF InjectorTypeOK, targetVars
<1>0. InjectorTypeOK /\ WorkersTyped /\ worker[w].key \in Key \cup {NoKey}
  BY DEF TypeOK, WorkersTyped, WorkerState
<1>1. CASE RefuseTarget(w)
  BY <1>0, <1>1, FinishTyped DEF RefuseTarget, WorkersTyped
<1>2. CASE ProbeAnswered(w)
  <2>1. Finish(w, FALSE) \/ Step(w, "bootstrap")
    BY <1>2 DEF ProbeAnswered
  <2>2. WorkersTyped'
    BY <1>0, <1>2, <2>1, FinishTyped, StepTyped DEF ProbeAnswered, WorkerPC
  <2> QED
    BY <1>0, <1>2, <2>2 DEF ProbeAnswered, WorkersTyped
<1>3. CASE ProbeUnanswered(w)
  <2>1. WorkersTyped'
    BY <1>0, <1>3 DEF ProbeUnanswered, WorkersTyped, WorkerState, WorkerPC
  <2> QED
    BY <1>0, <1>3, <2>1 DEF ProbeUnanswered, WorkersTyped
<1>4. CASE AttachFails(w)
  BY <1>0, <1>4, FinishTyped DEF AttachFails, WorkersTyped
<1>5. CASE LoadBootstrap(w)
  <2>1. Finish(w, TRUE) \/ Step(w, "otel")
    BY <1>5 DEF LoadBootstrap
  <2>2. WorkersTyped'
    BY <1>0, <1>5, <2>1, FinishTyped, StepTyped DEF LoadBootstrap, WorkerPC
  <2>3. marker' \subseteq Key
    BY <1>0, <1>5 DEF LoadBootstrap, ReachedBy
  <2> QED
    BY <1>0, <1>5, <2>2, <2>3 DEF LoadBootstrap, WorkersTyped
<1>6. CASE LoadOtel(w)
  <2>1. WorkersTyped'
    BY <1>0, <1>6, FinishTyped DEF LoadOtel
  <2> DEFINE load == [for |-> worker[w].key, blind |-> worker[w].blind]
  <2>2. load \in Load
    BY <1>0, <1>6 DEF LoadOtel, WorkersTyped, WorkerState, Load
  <2>3. PICK p \in ReachedBy(worker[w].key) :
          agents' = [agents EXCEPT ![p] = Append(@, load)]
    BY <1>6 DEF LoadOtel
  <2> HIDE DEF load
  <2>4. p \in Key /\ Append(agents[p], load) \in Seq(Load)
    BY <1>0, <2>2, <2>3 DEF ReachedBy
  <2>5. agents' \in [Key -> Seq(Load)]
    BY <1>0, <2>3, <2>4
  <2> QED
    BY <1>0, <1>6, <2>1, <2>5 DEF LoadOtel, WorkersTyped
<1> QED
  BY <1>1, <1>2, <1>3, <1>4, <1>5, <1>6 DEF Inject

(* Entries keep their type under every update the manager applies. *)
LEMMA EntryUpdates ==
  ASSUME NEW e \in EntryState, NEW n \in Nat
  PROVE  /\ AfterFailure(e, n) \in EntryState
         /\ ApplyResult(e) \in EntryState
         /\ Reaped(e) \in EntryState
         /\ Disabled(e) \in EntryState
         /\ Enabled(e) \in EntryState
<1> USE DEF EntryState, State
<1>1. AfterFailure(e, n) \in EntryState  BY DEF AfterFailure
<1>2. ApplyResult(e) \in EntryState      BY DEF ApplyResult
<1>3. Reaped(e) \in EntryState           BY AbsentType DEF Reaped
<1>4. Disabled(e) \in EntryState         BY DEF Disabled
<1>5. Enabled(e) \in EntryState          BY DEF Enabled
<1> QED  BY <1>1, <1>2, <1>3, <1>4, <1>5

(* What a scan makes of an entry. *)
LEMMA ClassifiedType ==
  ASSUME NEW e \in EntryState, NEW k \in Key
  PROVE  /\ Classified(e, k) \in EntryState
         /\ Classified(e, k).state # "attaching"
BY DEF Classified, Classify, EntryState, State, Kind

(* Every step keeps the types. *)
LEMMA NextTypeOK == TypeOK /\ [Next]_vars => TypeOK'
<1> SUFFICES ASSUME TypeOK, [Next]_vars PROVE TypeOK'
  OBVIOUS
<1>0. InjectorTypeOK /\ WorkersTyped
  BY DEF TypeOK, InjectorTypeOK, WorkersTyped
<1>1. CASE Environment
  <2> PICK k \in Key : Born(k) \/ Dies(k)
    BY <1>1 DEF Environment
  <2>1. InjectorTypeOK'
    BY <1>0 DEF Born, Dies, InjectorTypeOK
  <2> QED
    BY <1>1, <2>1 DEF Environment, managerVars, TypeOK, Born, Dies
<1>2. CASE Time
  <2> PICK k \in Key : Settles(k) \/ BackoffElapses(k) \/ RetentionLapses(k)
    BY <1>2 DEF Time
  <2>1. CASE Settles(k)
    BY <1>0, <2>1 DEF Settles, managerVars, TypeOK, InjectorTypeOK
  <2>2. CASE BackoffElapses(k)
    <3>1. entries' \in [Key -> EntryState]
      BY <2>2 DEF BackoffElapses, TypeOK, EntryState
    <3> QED
      BY <2>2, <3>1 DEF BackoffElapses, targetVars, TypeOK, InjectorTypeOK
  <2>3. CASE RetentionLapses(k)
    <3>1. entries' \in [Key -> EntryState]
      BY <2>3 DEF RetentionLapses, TypeOK, EntryState
    <3> QED
      BY <2>3, <3>1 DEF RetentionLapses, targetVars, TypeOK, InjectorTypeOK
  <2> QED
    BY <2>1, <2>2, <2>3
<1>3. CASE Scan
  <2>1. rec' \in RecState /\ rec'.pc # "decide"
    BY <1>3 DEF Scan, RecState
  <2>2. budget' \in Budget
    BY <1>3, BoundsAssumption DEF Scan, TypeOK, Budget
  <2> QED
    BY <1>3, <2>1, <2>2 DEF Scan, targetVars, TypeOK, InjectorTypeOK
<1>4. CASE \E k \in Key : Observe(k)
  <2> PICK k \in Key : Observe(k)
    BY <1>4
  <2>1. PICK kind \in KindsOf[k] :
          entries' = [entries EXCEPT ![k] =
            IF entries[k].state \in {"absent", "pending"}
            THEN Classified([entries[k] EXCEPT !.kind = kind], k)
            ELSE [entries[k] EXCEPT !.kind = kind]]
    BY DEF Observe
  <2>2. [entries[k] EXCEPT !.kind = kind] \in EntryState
    BY KindsOfAssumption DEF TypeOK, EntryState
  <2>3. entries' \in [Key -> EntryState]
    BY <2>1, <2>2, ClassifiedType DEF TypeOK
  <2>4. rec' \in RecState /\ rec'.cur \in Key
    BY DEF Observe, TypeOK, RecState
  <2> QED
    BY <2>3, <2>4 DEF Observe, targetVars, TypeOK, InjectorTypeOK
<1>5. CASE Decide
  <2>1. rec' \in RecState /\ rec'.pc # "decide"
    BY <1>5 DEF Decide, TypeOK, RecState
  <2>2. WorkersTyped'
    <3>1. rec.cur \in Key
      BY <1>5 DEF Decide, TypeOK
    <3>2. [IdleWorker EXCEPT !.pc = "spawned", !.key = rec.cur, !.auto = TRUE]
            \in WorkerState
      BY <3>1, IdleWorkerType DEF WorkerState, WorkerPC
    <3>3. CASE UNCHANGED worker
      BY <1>0, <3>3 DEF WorkersTyped
    <3>4. CASE ~ UNCHANGED worker
      <4> PICK w \in Worker : worker' = [worker EXCEPT ![w] =
            [IdleWorker EXCEPT !.pc = "spawned", !.key = rec.cur, !.auto = TRUE]]
        BY <1>5, <3>4 DEF Decide
      <4> QED
        BY <1>0, <3>1, <3>2 DEF WorkersTyped, IdleWorker
    <3> QED
      BY <3>3, <3>4
  <2> QED
    BY <1>5, <2>1, <2>2 DEF Decide, targetVars, TypeOK, InjectorTypeOK, WorkersTyped
<1>6. CASE ReapMissing
  <2>1. entries' \in [Key -> EntryState]
    BY <1>6, EntryUpdates DEF ReapMissing, TypeOK
  <2>2. rec' \in RecState /\ rec'.pc # "decide"
    BY <1>6, IdleRecType DEF ReapMissing, IdleRec
  <2> QED
    BY <1>6, <2>1, <2>2 DEF ReapMissing, targetVars, TypeOK, InjectorTypeOK
<1>7. ASSUME NEW w \in Worker, Attach(w) PROVE TypeOK'
  <2> DEFINE k == worker[w].key
  <2>1. CASE AttachEnter(w)
    <3>1. k \in Key
      BY <2>1 DEF AttachEnter, TypeOK
    <3>2. inflight' \subseteq Key
      BY <2>1, <3>1 DEF AttachEnter, TypeOK
    <3>3. WorkersTyped'
      <4>1. CASE k \in inflight
        BY <1>0, <2>1, <4>1, DismissTyped DEF AttachEnter
      <4>2. CASE k \notin inflight
        BY <1>0, <2>1, <4>2, StepTyped DEF AttachEnter, WorkerPC
      <4> QED
        BY <4>1, <4>2
    <3> QED
      BY <2>1, <3>2, <3>3
      DEF AttachEnter, targetVars, TypeOK, InjectorTypeOK, WorkersTyped
  <2>2. CASE AttachBegin(w)
    <3>1. k \in Key
      BY <2>2 DEF AttachBegin, TypeOK
    <3>2. CASE Tracked(k)
      <4>1. entries' \in [Key -> EntryState]
        BY <2>2, <3>1, <3>2 DEF AttachBegin, TypeOK, EntryState, State
      <4>2. entries[k].kind \in Kind /\ entries[k].attempts + 1 \in Nat
        BY <3>1 DEF TypeOK, EntryState
      <4>3. WorkersTyped'
        BY <1>0, <2>2, <3>1, <3>2, <4>2
        DEF AttachBegin, WorkersTyped, WorkerState, WorkerPC
      <4> QED
        BY <2>2, <4>1, <4>3
        DEF AttachBegin, targetVars, TypeOK, InjectorTypeOK, WorkersTyped
    <3>3. CASE ~ Tracked(k)
      <4>1. WorkersTyped'
        BY <1>0, <2>2, <3>3, StepTyped DEF AttachBegin, WorkerPC
      <4> QED
        BY <2>2, <3>3, <4>1
        DEF AttachBegin, targetVars, TypeOK, InjectorTypeOK, WorkersTyped
    <3> QED
      BY <3>2, <3>3
  <2>3. CASE Inject(w) /\ UNCHANGED managerVars
    BY <2>3, InjectTypeOK DEF TypeOK, WorkersTyped, managerVars
  <2>4. CASE AttachRecord(w)
    <3>1. k \in Key /\ worker[w].attempt \in Nat
      BY <1>0, <2>4 DEF AttachRecord, TypeOK, WorkersTyped, WorkerState
    <3>2. entries' \in [Key -> EntryState]
      BY <2>4, <3>1, EntryUpdates DEF AttachRecord, TypeOK
    <3>3. WorkersTyped'
      BY <1>0, <2>4, StepTyped DEF AttachRecord, WorkerPC
    <3> QED
      BY <2>4, <3>2, <3>3
      DEF AttachRecord, targetVars, TypeOK, InjectorTypeOK, WorkersTyped
  <2>5. CASE AttachRelease(w)
    <3>1. WorkersTyped'
      BY <1>0, <2>5, DismissTyped DEF AttachRelease
    <3> QED
      BY <2>5, <3>1
      DEF AttachRelease, targetVars, TypeOK, InjectorTypeOK, WorkersTyped
  <2> QED
    BY <1>7, <2>1, <2>2, <2>3, <2>4, <2>5 DEF Attach
<1>8. ASSUME NEW w \in Worker, Operator(w) PROVE TypeOK'
  <2>1. CASE \E pid \in Pid, pc \in {"keyed", "disable", "enable"} :
               Request(w, pid, pc)
    <3> PICK pid \in Pid, pc \in {"keyed", "disable", "enable"} :
               Request(w, pid, pc)
      BY <2>1
    <3> PICK k \in Key : worker' = [worker EXCEPT ![w] =
               [IdleWorker EXCEPT !.pc = pc, !.key = k]]
      BY DEF Request, KeysForPid
    <3>1. [IdleWorker EXCEPT !.pc = pc, !.key = k] \in WorkerState
      BY IdleWorkerType DEF WorkerState, WorkerPC
    <3>2. WorkersTyped'
      BY <1>0, <3>1 DEF WorkersTyped, IdleWorker
    <3>3. budget' \in Budget
      BY BoundsAssumption DEF Request, TypeOK, Budget
    <3> QED
      BY <3>2, <3>3 DEF Request, targetVars, TypeOK, InjectorTypeOK, WorkersTyped
  <2>2. CASE ManualAttach(w)
    <3>1. WorkersTyped'
      BY <1>0, <2>2, StepTyped DEF ManualAttach, WorkerPC
    <3>2. entries' \in [Key -> EntryState]
      BY <2>2 DEF ManualAttach, TypeOK, EntryState
    <3> QED
      BY <2>2, <3>1, <3>2
      DEF ManualAttach, targetVars, TypeOK, InjectorTypeOK, WorkersTyped
  <2>3. CASE SetManualOnly(w)
    <3>1. WorkersTyped'
      BY <1>0, <2>3, DismissTyped DEF SetManualOnly
    <3>2. entries' \in [Key -> EntryState]
      BY <2>3, EntryUpdates DEF SetManualOnly, TypeOK
    <3> QED
      BY <2>3, <3>1, <3>2
      DEF SetManualOnly, targetVars, TypeOK, InjectorTypeOK, WorkersTyped
  <2> QED
    BY <1>8, <2>1, <2>2, <2>3 DEF Operator
<1>9. CASE Restart
  <2>1. WorkersTyped'
    BY <1>9, IdleWorkerType DEF Restart, WorkersTyped, IdleWorker
  <2>2. rec' \in RecState /\ rec'.pc # "decide"
    BY <1>9, IdleRecType DEF Restart, IdleRec
  <2>3. budget' \in Budget
    BY <1>9, BoundsAssumption DEF Restart, TypeOK, Budget
  <2> QED
    BY <1>9, <2>1, <2>2, <2>3, AbsentType
    DEF Restart, targetVars, TypeOK, InjectorTypeOK, WorkersTyped
<1>10. CASE UNCHANGED vars
  BY <1>10 DEF vars, targetVars, managerVars, TypeOK, InjectorTypeOK
<1> QED
  BY <1>1, <1>2, <1>3, <1>4, <1>5, <1>6, <1>7, <1>8, <1>9, <1>10
  DEF Next, Reconcile

(* The manager's and the targets' state is well typed in every reachable   *)
(* state; in particular a goroutine past its start always has a process,   *)
(* and the reconcile loop only decides about one it has observed.          *)
THEOREM TypeCorrect == Spec => []TypeOK
BY InitTypeOK, NextTypeOK, PTL DEF Spec

-----------------------------------------------------------------------------
(* One handshake per process.                                              *)

(* A goroutine between LoadOrStore and Delete finds its key stored: the    *)
(* link between the lock and its holders that makes OneHandshake           *)
(* inductive.                                                              *)
LockHeld == \A w \in Worker : Holding(w) => worker[w].key \in inflight

HandshakeInv == LockHeld /\ OneHandshake

(* A step in which no goroutine but w moves, the lock does not change, and *)
(* w does not come to hold a key it did not hold.                          *)
LEMMA HandshakeKept ==
  ASSUME HandshakeInv, NEW w \in Worker,
         \A v \in Worker \ {w} : worker'[v] = worker[v],
         Holding(w)' => Holding(w) /\ worker'[w].key = worker[w].key,
         UNCHANGED inflight
  PROVE  HandshakeInv'
BY DEF HandshakeInv, LockHeld, OneHandshake, Holding

(* Steps that leave the goroutines and the in-flight marks alone. *)
LEMMA HandshakeStable ==
  HandshakeInv /\ UNCHANGED <<worker, inflight>> => HandshakeInv'
BY DEF HandshakeInv, LockHeld, OneHandshake, Holding

(* What a step of Inject may change. *)
LEMMA InjectMoves ==
  ASSUME TypeOK, NEW w \in Worker, Inject(w)
  PROVE  /\ \A v \in Worker \ {w} : worker'[v] = worker[v]
         /\ Injecting(w)
         /\ Injecting(w)'
         /\ worker'[w].key = worker[w].key
<1> USE DEF TypeOK, InjectorTypeOK, WorkerState, Injecting
<1>1. Injecting(w)
  BY DEF Inject, RefuseTarget, ProbeAnswered, ProbeUnanswered, AttachFails,
         LoadBootstrap, LoadOtel
<1>2. \/ Step(w, "bootstrap") \/ Step(w, "otel")
      \/ worker' = [worker EXCEPT ![w].pc = "bootstrap", ![w].blind = TRUE]
      \/ \E b \in BOOLEAN : Finish(w, b)
  BY DEF Inject, RefuseTarget, ProbeAnswered, ProbeUnanswered, AttachFails,
         LoadBootstrap, LoadOtel
<1> QED
  BY <1>1, <1>2 DEF Step, Finish

(* Every step preserves the handshake. *)
LEMMA HandshakeNext == TypeOK /\ HandshakeInv /\ [Next]_vars => HandshakeInv'
<1> SUFFICES ASSUME TypeOK, HandshakeInv, [Next]_vars PROVE HandshakeInv'
  OBVIOUS
<1>0. worker \in [Worker -> WorkerState]
  BY DEF TypeOK, InjectorTypeOK
<1>1. CASE Environment \/ Time \/ Scan \/ (\E k \in Key : Observe(k))
           \/ ReapMissing \/ UNCHANGED vars
  <2>1. UNCHANGED <<worker, inflight>>
    BY <1>1 DEF Environment, Time, Born, Dies, Settles, BackoffElapses,
       RetentionLapses, Scan, Observe, ReapMissing, vars, managerVars
  <2> QED
    BY <2>1, HandshakeStable
<1>2. CASE Decide
  <2>1. CASE UNCHANGED worker
    BY <1>2, <2>1, HandshakeStable DEF Decide
  <2>2. CASE ~ UNCHANGED worker
    <3> PICK w \in Worker : worker' = [worker EXCEPT ![w] =
          [IdleWorker EXCEPT !.pc = "spawned", !.key = rec.cur, !.auto = TRUE]]
      BY <1>2, <2>2 DEF Decide
    <3>1. worker'[w].pc = "spawned"
      BY <1>0 DEF IdleWorker
    <3> QED
      BY <1>0, <1>2, <3>1, HandshakeKept DEF Decide, Holding
  <2> QED
    BY <2>1, <2>2
<1>3. ASSUME NEW w \in Worker, Attach(w) PROVE HandshakeInv'
  <2>1. CASE AttachEnter(w)
    <3>1. CASE worker[w].key \in inflight
      <4>1. worker' = [worker EXCEPT ![w] = IdleWorker] /\ UNCHANGED inflight
        BY <2>1, <3>1 DEF AttachEnter
      <4>2. worker'[w].pc = "idle"
        BY <1>0, <4>1 DEF IdleWorker
      <4> QED
        BY <1>0, <4>1, <4>2, HandshakeKept DEF Holding
    <3>2. CASE worker[w].key \notin inflight
      <4>1. inflight' = inflight \cup {worker[w].key} /\ Step(w, "held")
        BY <2>1, <3>2 DEF AttachEnter
      <4>2. /\ \A v \in Worker \ {w} : worker'[v] = worker[v]
            /\ worker'[w].key = worker[w].key
        BY <1>0, <4>1 DEF Step, WorkerState
      <4>3. \A v \in Worker \ {w} : Holding(v) => worker[v].key # worker[w].key
        BY <3>2 DEF HandshakeInv, LockHeld
      <4> QED
        BY <4>1, <4>2, <4>3 DEF HandshakeInv, LockHeld, OneHandshake, Holding
    <3> QED
      BY <3>1, <3>2
  <2>2. CASE AttachBegin(w)
    <3>1. /\ \A v \in Worker \ {w} : worker'[v] = worker[v]
          /\ worker'[w].key = worker[w].key
          /\ Holding(w)
      BY <1>0, <2>2 DEF AttachBegin, Step, WorkerState, Holding
    <3> QED
      BY <2>2, <3>1, HandshakeKept DEF AttachBegin
  <2>3. CASE Inject(w) /\ UNCHANGED managerVars
    BY <2>3, InjectMoves, HandshakeKept DEF Injecting, Holding, managerVars
  <2>4. CASE AttachRecord(w)
    <3>1. /\ \A v \in Worker \ {w} : worker'[v] = worker[v]
          /\ worker'[w].key = worker[w].key
          /\ Holding(w)
      BY <1>0, <2>4 DEF AttachRecord, Step, WorkerState, Holding
    <3> QED
      BY <2>4, <3>1, HandshakeKept DEF AttachRecord
  <2>5. CASE AttachRelease(w)
    <3>1. /\ \A v \in Worker \ {w} : worker'[v] = worker[v]
          /\ worker'[w].pc = "idle"
          /\ inflight' = inflight \ {worker[w].key}
          /\ Holding(w)
      BY <1>0, <2>5 DEF AttachRelease, IdleWorker, Holding
    <3>2. \A v \in Worker \ {w} : Holding(v) => worker[v].key # worker[w].key
      BY <3>1 DEF HandshakeInv, OneHandshake
    <3> QED
      BY <3>1, <3>2 DEF HandshakeInv, LockHeld, OneHandshake, Holding
  <2> QED
    BY <1>3, <2>1, <2>2, <2>3, <2>4, <2>5 DEF Attach
<1>4. ASSUME NEW w \in Worker, Operator(w) PROVE HandshakeInv'
  <2>1. /\ \A v \in Worker \ {w} : worker'[v] = worker[v]
        /\ worker'[w].pc \in {"keyed", "disable", "enable", "spawned", "idle"}
    <3>1. CASE \E pid \in Pid, pc \in {"keyed", "disable", "enable"} :
                 Request(w, pid, pc)
      <4> PICK pid \in Pid, pc \in {"keyed", "disable", "enable"} :
                 Request(w, pid, pc)
        BY <3>1
      <4> PICK k \in Key : worker' = [worker EXCEPT ![w] =
                 [IdleWorker EXCEPT !.pc = pc, !.key = k]]
        BY DEF Request, KeysForPid
      <4> QED
        BY <1>0 DEF IdleWorker
    <3>2. CASE ManualAttach(w)
      BY <1>0, <3>2 DEF ManualAttach, Step, WorkerState
    <3>3. CASE SetManualOnly(w)
      BY <1>0, <3>3 DEF SetManualOnly, IdleWorker
    <3> QED
      BY <1>4, <3>1, <3>2, <3>3 DEF Operator
  <2>2. UNCHANGED inflight
    BY <1>4 DEF Operator, Request, ManualAttach, SetManualOnly
  <2> QED
    BY <2>1, <2>2, HandshakeKept DEF Holding
<1>5. CASE Restart
  BY <1>5 DEF Restart, IdleWorker, HandshakeInv, LockHeld, OneHandshake, Holding
<1> QED
  BY <1>1, <1>2, <1>3, <1>4, <1>5 DEF Next, Reconcile

(* Mutual exclusion of attach handshakes, for any number of goroutines:    *)
(* the sync.Map inflight keeps a manual attach and the reconcile loop's    *)
(* goroutines apart, across failures, reaping and restarts.                *)
THEOREM MutualExclusion == Spec => []OneHandshake
<1>1. Init => HandshakeInv
  BY DEF Init, InjectorInit, IdleWorker, HandshakeInv, LockHeld, OneHandshake,
         Holding
<1>2. HandshakeInv => OneHandshake
  BY DEF HandshakeInv
<1> QED
  BY <1>1, <1>2, HandshakeNext, TypeCorrect, PTL DEF Spec

-----------------------------------------------------------------------------
(* No entry is left attaching.                                             *)

(* Every step preserves AttachingIsInFlight. *)
LEMMA AttachingNext ==
  TypeOK /\ AttachingIsInFlight /\ [Next]_vars => AttachingIsInFlight'
<1> SUFFICES ASSUME TypeOK, AttachingIsInFlight, [Next]_vars,
                    NEW k \in Key, entries'[k].state = "attaching"
             PROVE  \E w \in Worker : Injecting(w)' /\ worker'[w].key = k
  BY DEF AttachingIsInFlight
<1> DEFINE Goal == \E w \in Worker : Injecting(w)' /\ worker'[w].key = k
           Kept == \E w \in Worker : Injecting(w) /\ worker[w].key = k
<1>0. /\ worker \in [Worker -> WorkerState]
      /\ entries \in [Key -> EntryState]
  BY DEF TypeOK, InjectorTypeOK
<1>a. entries[k].state = "attaching" => Kept
  BY DEF AttachingIsInFlight
<1>1. CASE Environment \/ Time \/ Scan \/ UNCHANGED vars
  <2>1. UNCHANGED worker
    BY <1>1 DEF Environment, Time, Born, Dies, Settles, BackoffElapses,
       RetentionLapses, Scan, vars, managerVars
  <2>2. entries'[k].state = entries[k].state
    BY <1>0, <1>1 DEF Environment, Time, Born, Dies, Settles, BackoffElapses,
       RetentionLapses, Scan, vars, managerVars, EntryState
  <2> QED
    BY <1>a, <2>1, <2>2 DEF Injecting
<1>2. CASE \E j \in Key : Observe(j)
  <2> PICK j \in Key : Observe(j)
    BY <1>2
  <2> PICK kind \in KindsOf[j] :
          entries' = [entries EXCEPT ![j] =
            IF entries[j].state \in {"absent", "pending"}
            THEN Classified([entries[j] EXCEPT !.kind = kind], j)
            ELSE [entries[j] EXCEPT !.kind = kind]]
    BY DEF Observe
  <2>1. [entries[j] EXCEPT !.kind = kind] \in EntryState
        /\ [entries[j] EXCEPT !.kind = kind].state = entries[j].state
    BY <1>0, KindsOfAssumption DEF EntryState
  <2>2. entries[k].state = "attaching"
    BY <1>0, <2>1, ClassifiedType
  <2> QED
    BY <1>a, <2>2 DEF Observe, Injecting
<1>3. CASE Decide
  <2>1. Kept
    BY <1>3, <1>a DEF Decide
  <2>2. CASE UNCHANGED worker
    BY <2>1, <2>2 DEF Injecting
  <2>3. CASE ~ UNCHANGED worker
    <3> PICK v \in Worker : worker[v].pc = "idle" /\ worker' = [worker EXCEPT
          ![v] = [IdleWorker EXCEPT !.pc = "spawned", !.key = rec.cur,
                                    !.auto = TRUE]]
      BY <1>3, <2>3 DEF Decide
    <3> QED
      BY <1>0, <2>1 DEF Injecting
  <2> QED
    BY <2>2, <2>3
<1>4. CASE ReapMissing
  <2>1. entries[k].state = "attaching"
    <3>1. CASE entries'[k] = Reaped(entries[k])
      BY <1>0, <3>1 DEF Reaped, Absent, EntryState
    <3>2. CASE entries'[k] = entries[k]
      BY <3>2
    <3> QED
      BY <1>4, <3>1, <3>2 DEF ReapMissing
  <2> QED
    BY <1>4, <1>a, <2>1 DEF ReapMissing, Injecting
<1>5. ASSUME NEW v \in Worker, Attach(v) PROVE Goal
  <2>1. CASE AttachEnter(v)
    <3>1. Kept /\ ~ Injecting(v)
      BY <1>a, <2>1 DEF AttachEnter, Injecting
    <3>2. \A w \in Worker \ {v} : worker'[w] = worker[w]
      BY <1>0, <2>1 DEF AttachEnter, Step
    <3> QED
      BY <3>1, <3>2 DEF Injecting
  <2>2. CASE AttachBegin(v)
    <3>1. \A w \in Worker \ {v} : worker'[w] = worker[w]
      BY <1>0, <2>2 DEF AttachBegin, Step
    <3>2. CASE k = worker[v].key /\ Tracked(k)
      BY <1>0, <2>2, <3>2 DEF AttachBegin, Injecting, WorkerState
    <3>3. CASE ~ (k = worker[v].key /\ Tracked(k))
      <4>1. entries'[k] = entries[k]
        BY <1>0, <2>2, <3>3 DEF AttachBegin
      <4>2. Kept /\ ~ Injecting(v)
        BY <1>a, <2>2, <4>1 DEF AttachBegin, Injecting
      <4> QED
        BY <3>1, <4>2 DEF Injecting
    <3> QED
      BY <3>2, <3>3
  <2>3. CASE Inject(v) /\ UNCHANGED managerVars
    <3>1. Kept
      BY <1>a, <2>3 DEF managerVars
    <3> QED
      BY <2>3, <3>1, InjectMoves DEF Injecting
  <2>4. CASE AttachRecord(v)
    <3>1. \A w \in Worker \ {v} : worker'[w] = worker[w]
      BY <1>0, <2>4 DEF AttachRecord, Step
    <3>2. k # worker[v].key
      BY <1>0, <2>4 DEF AttachRecord, AfterFailure, ApplyResult, Tracked, EntryState
    <3>3. Kept
      BY <1>0, <1>a, <2>4, <3>2 DEF AttachRecord
    <3> QED
      BY <3>1, <3>2, <3>3 DEF Injecting
  <2>5. CASE AttachRelease(v)
    <3>1. Kept /\ ~ Injecting(v)
      BY <1>a, <2>5 DEF AttachRelease, Injecting
    <3>2. \A w \in Worker \ {v} : worker'[w] = worker[w]
      BY <1>0, <2>5 DEF AttachRelease
    <3> QED
      BY <3>1, <3>2 DEF Injecting
  <2> QED
    BY <1>5, <2>1, <2>2, <2>3, <2>4, <2>5 DEF Attach
<1>6. ASSUME NEW v \in Worker, Operator(v) PROVE Goal
  <2>1. \A w \in Worker \ {v} : worker'[w] = worker[w]
    BY <1>0, <1>6 DEF Operator, Request, ManualAttach, SetManualOnly, Step
  <2>2. ~ Injecting(v)
    BY <1>6 DEF Operator, Request, ManualAttach, SetManualOnly, Injecting
  <2>3. entries[k].state = "attaching"
    <3>1. CASE \E pid \in Pid, pc \in {"keyed", "disable", "enable"} :
                 Request(v, pid, pc)
      BY <3>1 DEF Request
    <3>2. CASE ManualAttach(v)
      BY <1>0, <3>2 DEF ManualAttach, EntryState
    <3>3. CASE SetManualOnly(v)
      BY <1>0, <3>3 DEF SetManualOnly, Disabled, Enabled, EntryState
    <3> QED
      BY <1>6, <3>1, <3>2, <3>3 DEF Operator
  <2> QED
    BY <1>a, <2>1, <2>2, <2>3 DEF Injecting
<1>7. CASE Restart
  BY <1>7 DEF Restart, Absent
<1> QED
  BY <1>1, <1>2, <1>3, <1>4, <1>5, <1>6, <1>7 DEF Next, Reconcile

(* An entry shown as attaching always has a goroutine between the two      *)
(* critical sections of attach that will write its outcome.                *)
THEOREM AttachingCorrect == Spec => []AttachingIsInFlight
<1>1. Init => AttachingIsInFlight
  BY DEF Init, Absent, AttachingIsInFlight
<1> QED
  BY <1>1, AttachingNext, TypeCorrect, PTL DEF Spec

-----------------------------------------------------------------------------
(* What is loaded into a process.                                          *)

(* No two identities share a pid: pids are not reused.  Nothing in the     *)
(* code compares start times before it attaches, so without this a request *)
(* may reach a stranger.                                                   *)
PidsUnique == \A j, k \in Key : PidOf[j] = PidOf[k] => j = k

(* The stages of attach at which a goroutine relies on what it found in    *)
(* the target or did to it.                                                *)
Committed(w) == worker[w].pc \in {"bootstrap", "otel", "record"}

(* Past its first attach, and once it has succeeded, a goroutine has seen  *)
(* or set the marker in its target.                                        *)
MarkerSeen ==
  \A w \in Worker :
    worker[w].pc = "otel" \/ (worker[w].pc = "record" /\ ~ worker[w].failed)
      => worker[w].key \in marker

ConfiguredInv == MarkerSeen /\ AttachedIsConfigured

(* With unique pids a request reaches the process it is meant for, or      *)
(* nobody.                                                                 *)
LEMMA ReachesItself ==
  ASSUME PidsUnique, NEW k \in Key, NEW p \in ReachedBy(k)
  PROVE  p = k /\ Alive(k)
BY DEF PidsUnique, ReachedBy

(* Nothing but Inject loads anything, brings a goroutine to a committed    *)
(* stage, or revives a process; and an entry becomes attached only through *)
(* classify, for a preloaded JVM, or when a successful attach is recorded. *)
LEMMA OutsideInject ==
  ASSUME TypeOK, [Next]_vars,
         ~ \E w \in Worker : Inject(w) /\ UNCHANGED managerVars
  PROVE  /\ UNCHANGED <<marker, agents>>
         /\ \A k \in Key : /\ proc[k] = "dead" => proc'[k] = "dead"
                           /\ proc'[k] = "unborn" => proc[k] = "unborn"
         /\ \A w \in Worker : Committed(w)' => worker'[w] = worker[w]
         /\ \A k \in Key : entries'[k].state = "attached" =>
              \/ entries[k].state = "attached"
              \/ "preloaded" \in KindsOf[k]
              \/ \E w \in Worker : /\ worker[w].pc = "record"
                                   /\ ~ worker[w].failed
                                   /\ worker[w].key = k
<1> DEFINE Procs == \A k \in Key : /\ proc[k] = "dead" => proc'[k] = "dead"
                                   /\ proc'[k] = "unborn" => proc[k] = "unborn"
           Workers == \A w \in Worker : Committed(w)' => worker'[w] = worker[w]
           Recorded(k) == \E w \in Worker : /\ worker[w].pc = "record"
                                            /\ ~ worker[w].failed
                                            /\ worker[w].key = k
           Shown == \A k \in Key : entries'[k].state = "attached" =>
                      \/ entries[k].state = "attached"
                      \/ "preloaded" \in KindsOf[k]
                      \/ Recorded(k)
           Goal == UNCHANGED <<marker, agents>> /\ Procs /\ Workers /\ Shown
<1> SUFFICES Goal
  OBVIOUS
<1>0. /\ worker \in [Worker -> WorkerState]
      /\ entries \in [Key -> EntryState]
      /\ proc \in [Key -> {"unborn", "young", "settled", "dead"}]
  BY DEF TypeOK, InjectorTypeOK
<1>1. CASE Environment
  <2>1. UNCHANGED <<marker, agents, worker, entries>>
    BY <1>1 DEF Environment, Born, Dies, managerVars
  <2>2. Procs
    BY <1>0, <1>1 DEF Environment, Born, Dies, Alive
  <2> QED
    BY <2>1, <2>2
<1>2. CASE Time
  <2>1. UNCHANGED <<marker, agents, worker>>
    BY <1>2 DEF Time, Settles, BackoffElapses, RetentionLapses, targetVars
  <2>2. Procs
    BY <1>0, <1>2 DEF Time, Settles, BackoffElapses, RetentionLapses, targetVars
  <2>3. Shown
    BY <1>0, <1>2
    DEF Time, Settles, BackoffElapses, RetentionLapses, managerVars, EntryState
  <2> QED
    BY <2>1, <2>2, <2>3
<1>3. CASE Scan \/ UNCHANGED vars
  BY <1>3 DEF Scan, targetVars, vars, managerVars
<1>4. CASE \E k \in Key : Observe(k)
  <2> PICK j \in Key : Observe(j)
    BY <1>4
  <2> PICK kind \in KindsOf[j] :
          entries' = [entries EXCEPT ![j] =
            IF entries[j].state \in {"absent", "pending"}
            THEN Classified([entries[j] EXCEPT !.kind = kind], j)
            ELSE [entries[j] EXCEPT !.kind = kind]]
    BY DEF Observe
  <2> DEFINE e == [entries[j] EXCEPT !.kind = kind]
  <2>1. e \in EntryState /\ e.state = entries[j].state /\ e.kind = kind
    BY <1>0, KindsOfAssumption DEF EntryState
  <2>2. Classified(e, j).state = "attached" => kind = "preloaded"
    BY <2>1 DEF Classified, Classify, EntryState
  <2>3. Shown
    BY <1>0, <2>1, <2>2
  <2> QED
    BY <2>3 DEF Observe, targetVars
<1>5. CASE Decide
  <2>1. Workers
    <3>1. CASE UNCHANGED worker
      BY <3>1
    <3>2. CASE ~ UNCHANGED worker
      <4> PICK w \in Worker : worker' = [worker EXCEPT ![w] =
            [IdleWorker EXCEPT !.pc = "spawned", !.key = rec.cur, !.auto = TRUE]]
        BY <1>5, <3>2 DEF Decide
      <4> QED
        BY <1>0 DEF IdleWorker, Committed
    <3> QED
      BY <3>1, <3>2
  <2> QED
    BY <1>5, <2>1 DEF Decide, targetVars
<1>6. CASE ReapMissing
  <2>0. ASSUME NEW e \in EntryState
        PROVE  Reaped(e).state = "attached" => e.state = "attached"
    BY DEF Reaped, Absent, EntryState
  <2>1. Shown
    BY <1>0, <1>6, <2>0 DEF ReapMissing
  <2> QED
    BY <1>6, <2>1 DEF ReapMissing, targetVars
<1>7. ASSUME NEW w \in Worker, Attach(w) PROVE Goal
  <2>0. UNCHANGED targetVars
    BY <1>7 DEF Attach, AttachEnter, AttachBegin, AttachRecord, AttachRelease
  <2>1. Workers
    BY <1>0, <1>7 DEF Attach, AttachEnter, AttachBegin, AttachRecord,
       AttachRelease, Step, IdleWorker, Committed, WorkerState
  <2>2. CASE AttachEnter(w) \/ AttachRelease(w)
    BY <2>0, <2>1, <2>2 DEF AttachEnter, AttachRelease, targetVars
  <2>3. CASE AttachBegin(w)
    <3>1. Shown
      BY <1>0, <2>3 DEF AttachBegin, EntryState
    <3> QED
      BY <2>0, <2>1, <3>1 DEF targetVars
  <2>4. CASE AttachRecord(w)
    <3>1. \A k \in Key : k # worker[w].key => entries'[k] = entries[k]
      BY <1>0, <2>4 DEF AttachRecord
    <3>2. CASE worker[w].failed
      BY <1>0, <2>0, <2>1, <2>4, <3>1, <3>2
      DEF AttachRecord, AfterFailure, EntryState, targetVars
    <3>3. CASE ~ worker[w].failed
      <4>1. Recorded(worker[w].key)
        BY <2>4, <3>3 DEF AttachRecord
      <4> QED
        BY <2>0, <2>1, <3>1, <4>1 DEF targetVars
    <3> QED
      BY <3>2, <3>3
  <2> QED
    BY <1>7, <2>2, <2>3, <2>4 DEF Attach
<1>8. ASSUME NEW w \in Worker, Operator(w) PROVE Goal
  <2>0. UNCHANGED targetVars
    BY <1>8 DEF Operator, Request, ManualAttach, SetManualOnly
  <2>1. CASE \E pid \in Pid, pc \in {"keyed", "disable", "enable"} :
               Request(w, pid, pc)
    <3> PICK pid \in Pid, pc \in {"keyed", "disable", "enable"} :
               Request(w, pid, pc)
      BY <2>1
    <3> PICK k \in Key : worker' = [worker EXCEPT ![w] =
               [IdleWorker EXCEPT !.pc = pc, !.key = k]]
      BY DEF Request, KeysForPid
    <3>1. Workers
      BY <1>0 DEF IdleWorker, Committed
    <3> QED
      BY <2>0, <3>1 DEF Request, targetVars
  <2>2. CASE ManualAttach(w)
    <3>1. Workers
      BY <1>0, <2>2 DEF ManualAttach, Step, Committed, WorkerState
    <3>2. Shown
      BY <1>0, <2>2 DEF ManualAttach, EntryState
    <3> QED
      BY <2>0, <3>1, <3>2 DEF targetVars
  <2>3. CASE SetManualOnly(w)
    <3>1. Workers
      BY <1>0, <2>3 DEF SetManualOnly, IdleWorker, Committed
    <3>2. Shown
      BY <1>0, <2>3 DEF SetManualOnly, Disabled, Enabled, EntryState
    <3> QED
      BY <2>0, <3>1, <3>2 DEF targetVars
  <2> QED
    BY <1>8, <2>1, <2>2, <2>3 DEF Operator
<1>9. CASE Restart
  BY <1>9 DEF Restart, targetVars, IdleWorker, Committed, Absent
<1> QED
  BY <1>1, <1>2, <1>3, <1>4, <1>5, <1>6, <1>7, <1>8, <1>9 DEF Next, Reconcile

(* What Inject does to a target, and what it leaves the goroutine with.    *)
LEMMA ConfiguredInject ==
  ASSUME TypeOK, PidsUnique, ConfiguredInv, NEW w \in Worker, Inject(w),
         UNCHANGED managerVars
  PROVE  ConfiguredInv'
<1> DEFINE k == worker[w].key
<1>0. worker \in [Worker -> WorkerState] /\ k \in Key
  BY InjectMoves DEF TypeOK, InjectorTypeOK, Injecting
<1>1. /\ \A v \in Worker \ {w} : worker'[v] = worker[v]
      /\ worker'[w].key = k
  BY InjectMoves
<1>2. marker \subseteq marker'
  BY DEF Inject, RefuseTarget, ProbeAnswered, ProbeUnanswered, AttachFails,
         LoadBootstrap, LoadOtel, targetVars
<1>3. AttachedIsConfigured'
  BY <1>2 DEF ConfiguredInv, AttachedIsConfigured, managerVars
<1>4. worker'[w].pc = "otel" \/ (worker'[w].pc = "record" /\ ~ worker'[w].failed)
        => k \in marker'
  <2>1. CASE RefuseTarget(w)
    BY <1>0, <2>1 DEF RefuseTarget, Finish, WorkerState
  <2>2. CASE ProbeAnswered(w)
    <3> PICK p \in ReachedBy(k) :
               IF p \in marker THEN Finish(w, FALSE) ELSE Step(w, "bootstrap")
      BY <2>2 DEF ProbeAnswered
    <3>1. p = k
      BY <1>0, ReachesItself
    <3>2. CASE k \in marker
      BY <1>2, <3>2
    <3>3. CASE k \notin marker
      BY <1>0, <3>1, <3>3 DEF Step, WorkerState
    <3> QED
      BY <3>2, <3>3
  <2>3. CASE ProbeUnanswered(w)
    BY <1>0, <2>3 DEF ProbeUnanswered, WorkerState
  <2>4. CASE AttachFails(w)
    BY <1>0, <2>4 DEF AttachFails, Finish, WorkerState
  <2>5. CASE LoadBootstrap(w)
    BY <1>0, <2>5, ReachesItself DEF LoadBootstrap
  <2>6. CASE LoadOtel(w)
    BY <1>2, <2>6 DEF LoadOtel, ConfiguredInv, MarkerSeen
  <2> QED
    BY <2>1, <2>2, <2>3, <2>4, <2>5, <2>6 DEF Inject
<1>5. MarkerSeen'
  BY <1>1, <1>2, <1>4 DEF ConfiguredInv, MarkerSeen
<1> QED
  BY <1>3, <1>5 DEF ConfiguredInv

(* Every step preserves ConfiguredInv. *)
LEMMA ConfiguredNext ==
  TypeOK /\ PidsUnique /\ ConfiguredInv /\ [Next]_vars => ConfiguredInv'
<1> SUFFICES ASSUME TypeOK, PidsUnique, ConfiguredInv, [Next]_vars
             PROVE  ConfiguredInv'
  OBVIOUS
<1>1. CASE \E w \in Worker : Inject(w) /\ UNCHANGED managerVars
  BY <1>1, ConfiguredInject
<1>2. CASE ~ \E w \in Worker : Inject(w) /\ UNCHANGED managerVars
  <2>1. MarkerSeen'
    BY <1>2, OutsideInject DEF ConfiguredInv, MarkerSeen, Committed
  <2>2. AttachedIsConfigured'
    BY <1>2, OutsideInject DEF ConfiguredInv, MarkerSeen, AttachedIsConfigured
  <2> QED
    BY <2>1, <2>2 DEF ConfiguredInv
<1> QED
  BY <1>1, <1>2

(* While pids are not reused, a JVM shown as attached carries apm2go's     *)
(* configuration, however the success came about: reported by a handshake  *)
(* of this run, or inferred from the marker an earlier run left.  The      *)
(* agents' answers may be lost at every step, and probes go unanswered.    *)
THEOREM AttachedCarriesMarker ==
  PidsUnique => (Spec => []AttachedIsConfigured)
<1> SUFFICES ASSUME PidsUnique PROVE Spec => []AttachedIsConfigured
  OBVIOUS
<1>1. Init => ConfiguredInv
  BY DEF Init, InjectorInit, IdleWorker, Absent, ConfiguredInv, MarkerSeen,
         AttachedIsConfigured
<1>2. ConfiguredInv => AttachedIsConfigured
  BY DEF ConfiguredInv
<1>3. TypeOK /\ ConfiguredInv /\ [Next]_vars => ConfiguredInv'
  BY ConfiguredNext
<1> QED
  BY <1>1, <1>2, <1>3, TypeCorrect, PTL DEF Spec

-----------------------------------------------------------------------------
(* Loads into a process that already has the agent, pids reused or not.    *)

(* The system gives a pid to one process at a time, *)
OnePerPid ==
  \A j, k \in Key : Alive(j) /\ Alive(k) /\ PidOf[j] = PidOf[k] => j = k

(* and everything the manager has a key for has been seen running: a key   *)
(* whose process is not running now will never run again.                  *)
OnceSeen ==
  /\ \A k \in Key : Tracked(k) => proc[k] # "unborn"
  /\ \A k \in Key : k \in rec.todo \/ k = rec.cur => proc[k] # "unborn"
  /\ \A w \in Worker : \A k \in Key : worker[w].key = k => proc[k] # "unborn"

(* The agent was loaded into k by a goroutine that meant k. *)
Carries(k) == \E i \in DOMAIN agents[k] : agents[k][i].for = k

(* Such a process has the marker, *)
CarriersMarked == \A k \in Key : Carries(k) => k \in marker

(* which the goroutine about to load the agent has set before, unless its  *)
(* target died and the requests reach nobody or a stranger.                *)
MarkedBeforeLoad ==
  \A w \in Worker : worker[w].pc = "otel" =>
    worker[w].key \in marker \/ proc[worker[w].key] = "dead"

(* A goroutine that goes on after an answer has a target without the agent *)
(* for as long as that target lives.                                       *)
AnsweredEmpty ==
  \A w \in Worker, k \in Key :
    /\ worker[w].pc \in {"bootstrap", "otel"}
    /\ worker[w].key = k
    /\ ~ worker[w].blind
    => ~ Carries(k) \/ proc[k] = "dead"

HostInv == OnePerPid /\ OnceSeen

AgainInv ==
  CarriersMarked /\ MarkedBeforeLoad /\ AnsweredEmpty /\ LoadedAgainOnlyBlindly

(* Nothing brings a process back, and only Born starts one, on a free pid. *)
LEMMA OnePerPidNext == TypeOK /\ OnePerPid /\ [Next]_vars => OnePerPid'
<1> SUFFICES ASSUME TypeOK, OnePerPid, [Next]_vars PROVE OnePerPid'
  OBVIOUS
<1>0. proc \in [Key -> {"unborn", "young", "settled", "dead"}]
  BY DEF TypeOK, InjectorTypeOK
<1>1. CASE \E k \in Key : Born(k)
  BY <1>0, <1>1 DEF Born, ReachedBy, Alive, OnePerPid
<1>2. CASE \E k \in Key : Dies(k) \/ Settles(k)
  BY <1>0, <1>2 DEF Dies, Settles, Alive, OnePerPid
<1>3. CASE UNCHANGED proc
  BY <1>3 DEF Alive, OnePerPid
<1>4. \/ \E k \in Key : Born(k) \/ Dies(k) \/ Settles(k)
      \/ UNCHANGED proc
  <2>1. ASSUME NEW w \in Worker, Attach(w) \/ Operator(w) PROVE UNCHANGED proc
    BY <2>1 DEF Attach, AttachEnter, AttachBegin, AttachRecord, AttachRelease,
       Inject, RefuseTarget, ProbeAnswered, ProbeUnanswered, AttachFails,
       LoadBootstrap, LoadOtel, Operator, Request, ManualAttach, SetManualOnly,
       targetVars
  <2>2. CASE Environment \/ Time
    BY <2>2 DEF Environment, Time, BackoffElapses, RetentionLapses, targetVars
  <2>3. CASE Reconcile \/ Restart \/ UNCHANGED vars
    BY <2>3 DEF Reconcile, Scan, Observe, Decide, ReapMissing, Restart, vars,
       targetVars
  <2> QED
    BY <2>1, <2>2, <2>3 DEF Next
<1> QED
  BY <1>1, <1>2, <1>3, <1>4

(* A process that was started stays started. *)
LEMMA StaysBorn ==
  ASSUME TypeOK, [Next]_vars, NEW k \in Key, proc[k] # "unborn"
  PROVE  proc'[k] # "unborn"
<1>1. CASE \E w \in Worker : Inject(w) /\ UNCHANGED managerVars
  BY <1>1 DEF Inject, RefuseTarget, ProbeAnswered, ProbeUnanswered, AttachFails,
     LoadBootstrap, LoadOtel, targetVars
<1>2. CASE ~ \E w \in Worker : Inject(w) /\ UNCHANGED managerVars
  BY <1>2, OutsideInject
<1> QED
  BY <1>1, <1>2

(* Keys come from scans, and pass from the scan to the entries and from    *)
(* there to the goroutines.                                                *)
LEMMA OnceSeenNext == TypeOK /\ OnceSeen /\ [Next]_vars => OnceSeen'
<1> SUFFICES ASSUME TypeOK, OnceSeen, [Next]_vars PROVE OnceSeen'
  OBVIOUS
<1> DEFINE Entries == \A k \in Key : Tracked(k)' => proc[k] # "unborn"
           Found   == \A k \in Key : k \in rec'.todo \/ k = rec'.cur
                        => proc[k] # "unborn"
           Taken   == \A w \in Worker : \A k \in Key :
                        worker'[w].key = k => proc[k] # "unborn"
<1> SUFFICES Entries /\ Found /\ Taken
  BY StaysBorn DEF OnceSeen
<1>0. /\ worker \in [Worker -> WorkerState]
      /\ entries \in [Key -> EntryState]
      /\ rec \in RecState
      /\ proc \in [Key -> {"unborn", "young", "settled", "dead"}]
  BY DEF TypeOK, InjectorTypeOK
<1>a. UNCHANGED entries => Entries
  BY DEF OnceSeen, Tracked
<1>b. UNCHANGED rec => Found
  BY DEF OnceSeen
<1>c. UNCHANGED worker => Taken
  BY DEF OnceSeen
<1>d. NoKey \notin Key
  BY NoKeyAssumption
<1>e. ASSUME NEW w \in Worker, \A v \in Worker \ {w} : worker'[v] = worker[v],
             worker'[w].key = worker[w].key \/ worker'[w].key = NoKey
      PROVE  Taken
  BY <1>d, <1>e DEF OnceSeen
<1>1. CASE Environment \/ UNCHANGED vars
  BY <1>1, <1>a, <1>b, <1>c DEF Environment, Born, Dies, managerVars, vars
<1>2. CASE Time
  <2>1. UNCHANGED <<rec, worker>>
    BY <1>2 DEF Time, Settles, BackoffElapses, RetentionLapses, managerVars
  <2>2. \A k \in Key : entries'[k].state = entries[k].state
    BY <1>0, <1>2
    DEF Time, Settles, BackoffElapses, RetentionLapses, managerVars, EntryState
  <2> QED
    BY <1>b, <1>c, <2>1, <2>2 DEF OnceSeen, Tracked
<1>3. CASE Scan
  <2>1. Found
    BY <1>0, <1>3, <1>d DEF Scan, Alive
  <2> QED
    BY <1>3, <1>a, <1>c, <2>1 DEF Scan
<1>4. CASE \E k \in Key : Observe(k)
  <2> PICK j \in Key : Observe(j)
    BY <1>4
  <2>1. \A k \in Key \ {j} : entries'[k] = entries[k]
    BY <1>0 DEF Observe
  <2>2. rec'.todo = rec.todo \ {j} /\ rec'.cur = j /\ j \in rec.todo
    BY <1>0 DEF Observe, RecState
  <2> QED
    BY <1>c, <2>1, <2>2 DEF Observe, OnceSeen, Tracked
<1>5. CASE Decide
  <2>1. rec'.todo = rec.todo /\ rec'.cur = NoKey
    BY <1>0, <1>5 DEF Decide, RecState
  <2>2. CASE UNCHANGED worker
    BY <1>5, <1>a, <1>c, <1>d, <2>1, <2>2 DEF Decide, OnceSeen
  <2>3. CASE ~ UNCHANGED worker
    <3> PICK w \in Worker : worker' = [worker EXCEPT ![w] =
          [IdleWorker EXCEPT !.pc = "spawned", !.key = rec.cur, !.auto = TRUE]]
      BY <1>5, <2>3 DEF Decide
    <3>1. /\ \A v \in Worker \ {w} : worker'[v] = worker[v]
          /\ worker'[w].key = rec.cur
      BY <1>0 DEF IdleWorker
    <3> QED
      BY <1>5, <1>a, <1>d, <2>1, <3>1 DEF Decide, OnceSeen
  <2> QED
    BY <2>2, <2>3
<1>6. CASE ReapMissing
  <2>1. \A k \in Key : Tracked(k)' => Tracked(k)
    BY <1>0, <1>6 DEF ReapMissing, Tracked
  <2>2. Found
    BY <1>6, <1>d DEF ReapMissing, IdleRec
  <2> QED
    BY <1>6, <1>c, <2>1, <2>2 DEF ReapMissing, OnceSeen
<1>7. ASSUME NEW w \in Worker, Attach(w) PROVE Entries /\ Found /\ Taken
  <2>1. CASE AttachEnter(w) \/ AttachRelease(w)
    <3>1. /\ \A v \in Worker \ {w} : worker'[v] = worker[v]
          /\ worker'[w].key = worker[w].key \/ worker'[w].key = NoKey
      BY <1>0, <2>1 DEF AttachEnter, AttachRelease, Step, IdleWorker, WorkerState
    <3> QED
      BY <1>a, <1>b, <1>e, <2>1, <3>1 DEF AttachEnter, AttachRelease
  <2>2. CASE AttachBegin(w)
    <3>1. /\ \A v \in Worker \ {w} : worker'[v] = worker[v]
          /\ worker'[w].key = worker[w].key
      BY <1>0, <2>2 DEF AttachBegin, Step, WorkerState
    <3>2. \A k \in Key : Tracked(k)' => Tracked(k)
      BY <1>0, <2>2 DEF AttachBegin, Tracked, EntryState
    <3> QED
      BY <1>b, <1>e, <2>2, <3>1, <3>2 DEF AttachBegin, OnceSeen
  <2>3. CASE Inject(w) /\ UNCHANGED managerVars
    BY <1>a, <1>b, <1>e, <2>3, InjectMoves DEF managerVars
  <2>4. CASE AttachRecord(w)
    <3>1. /\ \A v \in Worker \ {w} : worker'[v] = worker[v]
          /\ worker'[w].key = worker[w].key
      BY <1>0, <2>4 DEF AttachRecord, Step, WorkerState
    <3>2. \A k \in Key : Tracked(k)' => Tracked(k)
      BY <1>0, <2>4 DEF AttachRecord, Tracked
    <3> QED
      BY <1>b, <1>e, <2>4, <3>1, <3>2 DEF AttachRecord, OnceSeen
  <2> QED
    BY <1>7, <2>1, <2>2, <2>3, <2>4 DEF Attach
<1>8. ASSUME NEW w \in Worker, Operator(w) PROVE Entries /\ Found /\ Taken
  <2>1. CASE \E pid \in Pid, pc \in {"keyed", "disable", "enable"} :
               Request(w, pid, pc)
    <3> PICK pid \in Pid, pc \in {"keyed", "disable", "enable"} :
               Request(w, pid, pc)
      BY <2>1
    <3> PICK k \in KeysForPid(pid) : worker' = [worker EXCEPT ![w] =
               [IdleWorker EXCEPT !.pc = pc, !.key = k]]
      BY DEF Request
    <3>1. /\ \A v \in Worker \ {w} : worker'[v] = worker[v]
          /\ worker'[w].key = k /\ Tracked(k)
      BY <1>0 DEF IdleWorker, KeysForPid
    <3> QED
      BY <1>a, <1>b, <3>1 DEF Request, OnceSeen
  <2>2. CASE ManualAttach(w) \/ SetManualOnly(w)
    <3>1. /\ \A v \in Worker \ {w} : worker'[v] = worker[v]
          /\ worker'[w].key = worker[w].key \/ worker'[w].key = NoKey
      BY <1>0, <2>2 DEF ManualAttach, SetManualOnly, Step, IdleWorker, WorkerState
    <3>2. \A k \in Key : Tracked(k)' => Tracked(k)
      BY <1>0, <2>2 DEF ManualAttach, SetManualOnly, Disabled, Enabled, Tracked,
         EntryState
    <3> QED
      BY <1>b, <1>e, <2>2, <3>1, <3>2 DEF ManualAttach, SetManualOnly, OnceSeen
  <2> QED
    BY <1>8, <2>1, <2>2 DEF Operator
<1>9. CASE Restart
  BY <1>9, <1>d DEF Restart, IdleWorker, IdleRec, Absent, Tracked
<1> QED
  BY <1>1, <1>2, <1>3, <1>4, <1>5, <1>6, <1>7, <1>8, <1>9 DEF Next, Reconcile

(* A request meant for a process that was seen running reaches that        *)
(* process, unless it is dead by now.                                      *)
LEMMA ReachesOrDead ==
  ASSUME TypeOK, OnePerPid, NEW k \in Key, proc[k] # "unborn",
         NEW p \in ReachedBy(k)
  PROVE  p \in Key /\ (p = k \/ proc[k] = "dead")
BY DEF TypeOK, InjectorTypeOK, OnePerPid, ReachedBy, Alive

(* One more load of a process. *)
LEMMA LoadAdds ==
  ASSUME agents \in [Key -> Seq(Load)], NEW p \in Key, NEW load \in Load,
         agents' = [agents EXCEPT ![p] = Append(@, load)]
  PROVE  /\ \A j \in Key \ {p} : agents'[j] = agents[j]
         /\ Len(agents[p]) \in Nat
         /\ DOMAIN agents[p] = 1 .. Len(agents[p])
         /\ DOMAIN agents'[p] = 1 .. Len(agents[p]) + 1
         /\ \A i \in 1 .. Len(agents[p]) : agents'[p][i] = agents[p][i]
         /\ agents'[p][Len(agents[p]) + 1] = load
<1>1. agents[p] \in Seq(Load) /\ agents'[p] = Append(agents[p], load)
  OBVIOUS
<1>2. \A j \in Key \ {p} : agents'[j] = agents[j]
  OBVIOUS
<1> QED
  BY <1>1, <1>2

(* A goroutine with an answer loads the agent only into a process that did *)
(* not have it, and nobody else means to load it there.                    *)
LEMMA AgainInject ==
  ASSUME TypeOK, HostInv, OneHandshake, AgainInv, NEW w \in Worker, Inject(w)
  PROVE  AgainInv'
<1> DEFINE k == worker[w].key
<1> USE DEF AgainInv
<1>0. /\ worker \in [Worker -> WorkerState] /\ k \in Key
      /\ agents \in [Key -> Seq(Load)]
  BY InjectMoves DEF TypeOK, InjectorTypeOK, Injecting
<1>1. /\ \A v \in Worker \ {w} : worker'[v] = worker[v]
      /\ worker'[w].key = k
  BY InjectMoves
<1>2. \A v \in Worker \ {w} :
        worker[v].pc \in {"bootstrap", "otel"} => worker[v].key # k
  BY InjectMoves DEF OneHandshake, Injecting, Holding
<1>3. UNCHANGED proc
  BY DEF Inject, RefuseTarget, ProbeAnswered, ProbeUnanswered, AttachFails,
         LoadBootstrap, LoadOtel, targetVars
<1>4. proc[k] # "unborn"
  BY <1>0 DEF HostInv, OnceSeen
<1>5. \A p \in ReachedBy(k) : p \in Key /\ (p = k \/ proc[k] = "dead")
  BY <1>0, <1>4, ReachesOrDead DEF HostInv
<1>6. CASE UNCHANGED agents
  <2>0. \A j \in Key : Carries(j)' <=> Carries(j)
    BY <1>6 DEF Carries
  <2>1. marker \subseteq marker'
    BY DEF Inject, RefuseTarget, ProbeAnswered, ProbeUnanswered, AttachFails,
           LoadBootstrap, LoadOtel, targetVars
  <2>2. CarriersMarked' /\ LoadedAgainOnlyBlindly'
    BY <1>6, <2>0, <2>1 DEF CarriersMarked, LoadedAgainOnlyBlindly
  <2>3. /\ worker'[w].pc = "otel" => k \in marker' \/ proc[k] = "dead"
        /\ worker'[w].pc \in {"bootstrap", "otel"} /\ ~ worker'[w].blind
             => ~ Carries(k) \/ proc[k] = "dead"
    <3>1. CASE RefuseTarget(w) \/ AttachFails(w) \/ LoadOtel(w)
      BY <1>0, <3>1 DEF RefuseTarget, AttachFails, LoadOtel, Finish, WorkerState
    <3>2. CASE ProbeAnswered(w)
      <4> PICK p \in ReachedBy(k) :
                 IF p \in marker THEN Finish(w, FALSE) ELSE Step(w, "bootstrap")
        BY <3>2 DEF ProbeAnswered
      <4>1. CASE p \in marker
        BY <1>0, <4>1 DEF Finish, WorkerState
      <4>2. CASE p \notin marker
        <5>1. worker'[w].pc = "bootstrap"
          BY <1>0, <4>2 DEF Step, WorkerState
        <5>2. ~ Carries(k) \/ proc[k] = "dead"
          BY <1>0, <1>5, <4>2 DEF CarriersMarked
        <5> QED
          BY <5>1, <5>2
      <4> QED
        BY <4>1, <4>2
    <3>3. CASE ProbeUnanswered(w)
      BY <1>0, <3>3 DEF ProbeUnanswered, WorkerState
    <3>4. CASE LoadBootstrap(w)
      <4>1. k \in marker' \/ proc[k] = "dead"
        BY <1>5, <3>4 DEF LoadBootstrap
      <4>2. worker'[w].pc \in {"otel", "record"}
            /\ worker'[w].blind = worker[w].blind /\ worker[w].pc = "bootstrap"
        BY <1>0, <3>4 DEF LoadBootstrap, Step, Finish, WorkerState
      <4> QED
        BY <1>0, <4>1, <4>2 DEF AnsweredEmpty
    <3> QED
      BY <3>1, <3>2, <3>3, <3>4 DEF Inject
  <2>4. MarkedBeforeLoad'
    BY <1>1, <1>3, <2>1, <2>3 DEF MarkedBeforeLoad
  <2>5. AnsweredEmpty'
    <3> SUFFICES ASSUME NEW v \in Worker, NEW q \in Key,
                        worker'[v].pc \in {"bootstrap", "otel"},
                        worker'[v].key = q, ~ worker'[v].blind
                 PROVE  ~ Carries(q)' \/ proc'[q] = "dead"
      BY DEF AnsweredEmpty
    <3>1. CASE v = w
      BY <1>0, <1>1, <1>3, <2>0, <2>3, <3>1
    <3>2. CASE v # w
      BY <1>1, <1>3, <2>0, <3>2 DEF AnsweredEmpty
    <3> QED
      BY <3>1, <3>2
  <2> QED
    BY <2>2, <2>4, <2>5
<1>7. CASE LoadOtel(w)
  <2> DEFINE load == [for |-> k, blind |-> worker[w].blind]
  <2>1. PICK p \in ReachedBy(k) : agents' = [agents EXCEPT ![p] = Append(@, load)]
    BY <1>7 DEF LoadOtel
  <2>2. load \in Load /\ load.for = k /\ load.blind = worker[w].blind
    BY <1>0 DEF Load, WorkerState
  <2> HIDE DEF load
  <2>3. p \in Key /\ (p = k \/ proc[k] = "dead") /\ Alive(p)
    BY <1>5 DEF ReachedBy
  <2>4. /\ \A j \in Key \ {p} : agents'[j] = agents[j]
        /\ Len(agents[p]) \in Nat
        /\ DOMAIN agents[p] = 1 .. Len(agents[p])
        /\ DOMAIN agents'[p] = 1 .. Len(agents[p]) + 1
        /\ \A i \in 1 .. Len(agents[p]) : agents'[p][i] = agents[p][i]
        /\ agents'[p][Len(agents[p]) + 1] = load
    BY <1>0, <2>1, <2>2, <2>3, LoadAdds
  <2>5. worker'[w].pc = "record" /\ UNCHANGED marker /\ worker[w].pc = "otel"
    BY <1>0, <1>7 DEF LoadOtel, Finish, WorkerState
  <2>6. \A j \in Key : Carries(j)' => Carries(j) \/ (j = k /\ p = k)
    <3> SUFFICES ASSUME NEW j \in Key, NEW i \in DOMAIN agents'[j],
                        agents'[j][i].for = j
                 PROVE  Carries(j) \/ (j = k /\ p = k)
      BY DEF Carries
    <3>1. CASE j # p
      BY <2>4, <3>1 DEF Carries
    <3>2. CASE j = p /\ i = Len(agents[p]) + 1
      BY <2>2, <2>4, <3>2
    <3>3. CASE j = p /\ i # Len(agents[p]) + 1
      <4>1. i \in DOMAIN agents[p]
        BY <2>4, <3>3
      <4> QED
        BY <2>4, <3>3, <4>1 DEF Carries
    <3> QED
      BY <3>1, <3>2, <3>3
  <2>7. p = k => k \in marker /\ (Carries(k) => worker[w].blind)
    BY <2>3, <2>5 DEF MarkedBeforeLoad, AnsweredEmpty, Alive
  <2>8. CarriersMarked'
    BY <2>5, <2>6, <2>7 DEF CarriersMarked
  <2>9. MarkedBeforeLoad'
    BY <1>1, <1>3, <2>5 DEF MarkedBeforeLoad
  <2>10. AnsweredEmpty'
    <3> SUFFICES ASSUME NEW v \in Worker, NEW q \in Key,
                        worker'[v].pc \in {"bootstrap", "otel"},
                        worker'[v].key = q, ~ worker'[v].blind
                 PROVE  ~ Carries(q)' \/ proc'[q] = "dead"
      BY DEF AnsweredEmpty
    <3>1. v # w /\ worker'[v] = worker[v] /\ q # k
      BY <1>1, <1>2, <2>5
    <3> QED
      BY <1>3, <2>6, <3>1 DEF AnsweredEmpty
  <2>11. LoadedAgainOnlyBlindly'
    <3> SUFFICES ASSUME NEW q \in Key,
                        NEW i \in DOMAIN agents'[q], NEW j \in DOMAIN agents'[q],
                        i < j, agents'[q][i].for = q, agents'[q][j].for = q
                 PROVE  agents'[q][j].blind
      BY DEF LoadedAgainOnlyBlindly
    <3>1. CASE q # p
      BY <2>4, <3>1 DEF LoadedAgainOnlyBlindly
    <3>2. CASE q = p /\ j # Len(agents[p]) + 1
      <4>1. i \in DOMAIN agents[p] /\ j \in DOMAIN agents[p]
        BY <2>4, <3>2
      <4> QED
        BY <2>3, <2>4, <3>2, <4>1 DEF LoadedAgainOnlyBlindly
    <3>3. CASE q = p /\ j = Len(agents[p]) + 1
      <4>1. p = k
        BY <2>2, <2>4, <3>3
      <4>2. i \in DOMAIN agents[p]
        BY <2>4, <3>3
      <4>3. Carries(k)
        BY <2>4, <3>3, <4>1, <4>2 DEF Carries
      <4> QED
        BY <2>2, <2>4, <2>7, <3>3, <4>1, <4>3
    <3> QED
      BY <3>1, <3>2, <3>3
  <2> QED
    BY <2>8, <2>9, <2>10, <2>11
<1> QED
  BY <1>6, <1>7 DEF Inject, RefuseTarget, ProbeAnswered, ProbeUnanswered,
     AttachFails, LoadBootstrap, targetVars

(* Every step preserves AgainInv. *)
LEMMA AgainNext ==
  TypeOK /\ HostInv /\ OneHandshake /\ AgainInv /\ [Next]_vars => AgainInv'
<1> SUFFICES ASSUME TypeOK, HostInv, OneHandshake, AgainInv, [Next]_vars
             PROVE  AgainInv'
  OBVIOUS
<1>1. CASE \E w \in Worker : Inject(w) /\ UNCHANGED managerVars
  BY <1>1, AgainInject
<1>2. CASE ~ \E w \in Worker : Inject(w) /\ UNCHANGED managerVars
  <2>1. /\ UNCHANGED <<marker, agents>>
        /\ \A k \in Key : proc[k] = "dead" => proc'[k] = "dead"
        /\ \A w \in Worker : worker'[w].pc \in {"bootstrap", "otel"}
             => worker'[w] = worker[w]
    BY <1>2, OutsideInject DEF Committed
  <2>2. \A w \in Worker : worker[w].pc # "idle" => worker[w].key \in Key
    BY DEF TypeOK
  <2>3. CarriersMarked' /\ LoadedAgainOnlyBlindly'
    BY <2>1 DEF AgainInv, CarriersMarked, Carries, LoadedAgainOnlyBlindly
  <2>4. MarkedBeforeLoad' /\ AnsweredEmpty'
    BY <2>1, <2>2 DEF AgainInv, MarkedBeforeLoad, AnsweredEmpty, Carries
  <2> QED
    BY <2>3, <2>4 DEF AgainInv
<1> QED
  BY <1>1, <1>2

(* A process that has the OpenTelemetry agent is given it again only by an *)
(* injection that got no answer to its properties request: for any number  *)
(* of goroutines, retries, lost replies, operator requests and restarts,   *)
(* and although pids are reused.                                           *)
THEOREM AnsweredProbePreventsReload == Spec => []LoadedAgainOnlyBlindly
<1>1. Init => HostInv /\ AgainInv
  <2> SUFFICES ASSUME Init PROVE HostInv /\ AgainInv
    OBVIOUS
  <2>1. OnePerPid
    BY DEF Init, InjectorInit, OnePerPid, Alive
  <2>2. OnceSeen
    BY NoKeyAssumption
    DEF Init, InjectorInit, OnceSeen, Tracked, Absent, IdleRec, IdleWorker
  <2>3. \A k \in Key : agents[k] = <<>> /\ DOMAIN agents[k] = {}
    BY DEF Init, InjectorInit
  <2>4. \A w \in Worker : worker[w].pc = "idle"
    BY DEF Init, InjectorInit, IdleWorker
  <2>5. CarriersMarked /\ LoadedAgainOnlyBlindly
    BY <2>3 DEF CarriersMarked, Carries, LoadedAgainOnlyBlindly
  <2>6. MarkedBeforeLoad /\ AnsweredEmpty
    BY <2>4 DEF MarkedBeforeLoad, AnsweredEmpty
  <2> QED
    BY <2>1, <2>2, <2>5, <2>6 DEF HostInv, AgainInv
<1>2. TypeOK /\ HostInv /\ [Next]_vars => HostInv'
  BY OnePerPidNext, OnceSeenNext DEF HostInv
<1>3. AgainInv => LoadedAgainOnlyBlindly
  BY DEF AgainInv
<1> QED
  BY <1>1, <1>2, <1>3, AgainNext, TypeCorrect, MutualExclusion, PTL DEF Spec
=============================================================================
