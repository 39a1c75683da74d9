---------------------------- MODULE Diagnostics ----------------------------
(***************************************************************************)
(* On-demand JVM diagnostics: the handlers of internal/api/diagnostics.go, *)
(* jvmdiag.Collect, the diagnostics table of internal/store, and the       *)
(* retention pass that prunes it.                                          *)
(*                                                                         *)
(* An operator asks for dumps of the JVM with one pid.  The JVM behind the *)
(* pid may be replaced at any time and the inventory learns of it at the   *)
(* next scan; clients disconnect; writers queue for the store's writer     *)
(* lock, which the retention pass holds over several statements, while     *)
(* readers take no lock.                                                   *)
(***************************************************************************)
EXTENDS Naturals, FiniteSets

CONSTANTS
  Request,      \* diagnostic requests; also the random ids of their rows
  Kind,
  Histogram,    \* the one kind that can be compared
  Keep,         \* storage.max_diagnostics_per_jvm
  Retention,    \* storage.diagnostic_retention
  MaxTime,      \* bound on the clock
  MaxJvms,      \* bound on the processes that hold the pid, one after another
  MaxPasses,    \* bound on retention passes
  Maintainer, NoOne

ASSUME KindAssumption == Histogram \in Kind
ASSUME BoundAssumption ==
  /\ Keep \in Nat \ {0} /\ Retention \in Nat \ {0}
  /\ MaxTime \in Nat /\ MaxJvms \in Nat \ {0} /\ MaxPasses \in Nat
ASSUME ActorAssumption ==
  /\ Maintainer \notin Request /\ NoOne \notin Request /\ Maintainer # NoOne

VARIABLES
  now,
  jvm,         \* the process behind the pid; its number is its start time
  tracked,     \* the process the inventory's entry for the pid describes
  request,     \* [Request -> RequestState]
  table,       \* the rows of diagnostics
  writeMu,     \* holder of the store's writer lock
  pass,        \* the retention pass: "idle", "expire", "select" or "delete"
  passes,
  overQuota,   \* the ids that pass has selected and not yet deleted
  reading,     \* the dump a comparison in progress has read
  compared     \* the start times and processes of the dumps that the last
               \* comparison put together

requestVars == <<request, table>>
passVars    == <<pass, passes, overQuota>>
comparison  == <<reading, compared>>
diagnosticsVars == <<now, jvm, tracked, requestVars, writeMu, passVars, comparison>>

Time == 0..MaxTime
Jvm  == 1..MaxJvms

Row == [id : Request, ts : Time, kind : Kind, start : Jvm, of : Jvm]

(* of: the process that produced the dump.  ctx: is the context live, did  *)
(* the client's leaving cancel it, or did the storing take too long?       *)
Context == {"live", "cancelled", "late"}
RequestState ==
  [pc : {"idle", "collect", "store", "insert", "done"}, ctx : Context,
   kind : Kind, start : Jvm, of : Jvm, ts : Time,
   reply : {"none", "bad_gateway", "stored", "lost_cancelled", "lost_late", "lost_error"}]

Fresh == [pc |-> "idle", ctx |-> "live", kind |-> Histogram, start |-> 1, of |-> 1,
          ts |-> 0, reply |-> "none"]
Done(answer) == [Fresh EXCEPT !.pc = "done", !.reply = answer]

-----------------------------------------------------------------------------
(* The host, the inventory and the clients.                                *)

Tick ==
  /\ now < MaxTime
  /\ now' = now + 1
  /\ UNCHANGED <<jvm, tracked, requestVars, writeMu, passVars, comparison>>

(* The JVM exits and another one gets its pid. *)
Replace ==
  /\ jvm < MaxJvms
  /\ jvm' = jvm + 1
  /\ UNCHANGED <<now, tracked, requestVars, writeMu, passVars, comparison>>

Scan ==
  /\ tracked # jvm
  /\ tracked' = jvm
  /\ UNCHANGED <<now, jvm, requestVars, writeMu, passVars, comparison>>

(* The browser gives up: the request's context is cancelled. *)
Disconnect(r) ==
  /\ request[r].pc \in {"collect", "store", "insert"}
  /\ request[r].ctx = "live"
  /\ request' = [request EXCEPT ![r] = [@ EXCEPT !.ctx = "cancelled"]]
  /\ UNCHANGED <<now, jvm, tracked, table, writeMu, passVars, comparison>>

-----------------------------------------------------------------------------
(* CollectDiagnostic.                                                      *)

(* The entry is looked up and Collect notes the time it starts. *)
Ask(r, k) ==
  /\ request[r].pc = "idle"
  /\ request' = [request EXCEPT ![r] =
       [@ EXCEPT !.pc = "collect", !.kind = k, !.start = tracked, !.ts = now]]
  /\ UNCHANGED <<now, jvm, tracked, table, writeMu, passVars, comparison>>

(* The command runs in whatever process has the pid by now. *)
Collected(r) ==
  /\ request[r].pc = "collect" /\ request[r].ctx = "live"
  /\ request' = [request EXCEPT ![r] = [@ EXCEPT !.pc = "store", !.of = jvm]]
  /\ UNCHANGED <<now, jvm, tracked, table, writeMu, passVars, comparison>>

(* The context ends, or the JVM refuses, is gone or answers in part. *)
CollectFails(r) ==
  /\ request[r].pc = "collect"
  /\ request' = [request EXCEPT ![r] = Done("bad_gateway")]
  /\ UNCHANGED <<now, jvm, tracked, table, writeMu, passVars, comparison>>

(* The 30 s of storeDiagnostic pass, perhaps while waiting for the lock. *)
StoreTimeout(r) ==
  /\ request[r].pc \in {"store", "insert"}
  /\ request[r].ctx = "live"
  /\ request' = [request EXCEPT ![r] = [@ EXCEPT !.ctx = "late"]]
  /\ UNCHANGED <<now, jvm, tracked, table, writeMu, passVars, comparison>>

(* Fault: WriteDiagnostic does not queue for the writer lock. *)
UnlockedWrite(r) ==
  /\ request[r].pc = "store"
  /\ request' = [request EXCEPT ![r] = [@ EXCEPT !.pc = "insert"]]
  /\ UNCHANGED <<now, jvm, tracked, table, writeMu, passVars, comparison>>

LockWriter(r) ==
  /\ request[r].pc = "store"
  /\ writeMu = NoOne /\ writeMu' = r
  /\ request' = [request EXCEPT ![r] = [@ EXCEPT !.pc = "insert"]]
  /\ UNCHANGED <<now, jvm, tracked, table, passVars, comparison>>

(* Fault: the start time is looked up again when the row is written. *)
RowOfEntryNow(r) ==
  [id |-> r, ts |-> request[r].ts, kind |-> request[r].kind,
   start |-> tracked, of |-> request[r].of]

NewRow(r) ==
  [id |-> r, ts |-> request[r].ts, kind |-> request[r].kind,
   start |-> request[r].start, of |-> request[r].of]

Unlocked(r) == IF writeMu = r THEN NoOne ELSE writeMu

(* The insert, which may fail and does fail once its context is over; the  *)
(* dump is answered either way.                                            *)
Insert(r) ==
  /\ request[r].pc = "insert"
  /\ \/ /\ request[r].ctx = "live"
        /\ table' = table \cup {NewRow(r)}
        /\ request' = [request EXCEPT ![r] = Done("stored")]
     \/ /\ request[r].ctx = "live"
        /\ request' = [request EXCEPT ![r] = Done("lost_error")]
        /\ UNCHANGED table
     \/ /\ request[r].ctx # "live"
        /\ request' = [request EXCEPT ![r] =
             Done(IF @.ctx = "late" THEN "lost_late" ELSE "lost_cancelled")]
        /\ UNCHANGED table
  /\ writeMu' = Unlocked(r)
  /\ UNCHANGED <<now, jvm, tracked, passVars, comparison>>

-----------------------------------------------------------------------------
(* The retention pass: Maintainer.Retention, from the writer lock   *)
(* to the pruning of the diagnostics.                                      *)

BeginPass ==
  /\ pass = "idle" /\ passes < MaxPasses
  /\ writeMu = NoOne /\ writeMu' = Maintainer
  /\ pass' = "expire" /\ passes' = passes + 1
  /\ UNCHANGED <<now, jvm, tracked, requestVars, overQuota, comparison>>

(* Fault: the pass calls PruneDiagnostics, which takes the lock again. *)
ExpireRelocks ==
  /\ pass = "expire" /\ writeMu = NoOne
  /\ table' = {row \in table : row.ts + Retention >= now}
  /\ pass' = "select"
  /\ UNCHANGED <<now, jvm, tracked, request, writeMu, passes, overQuota, comparison>>

Expire ==
  /\ pass = "expire"
  /\ table' = {row \in table : row.ts + Retention >= now}
  /\ pass' = "select"
  /\ UNCHANGED <<now, jvm, tracked, request, writeMu, passes, overQuota, comparison>>

(* Fault: a new process behind the pid counts as the old one. *)
PartitionByPid(row) == {other \in table : other.kind = row.kind}

(* PARTITION BY pid, start_time, kind *)
Partition(row) == {other \in table : other.kind = row.kind /\ other.start = row.start}

(* The rows past the newest Keep of their partition; rows with equal times *)
(* are ranked in any order.                                                *)
IsOverQuota(rows) ==
  \A row \in table :
    LET kept == Partition(row) \ rows IN
    /\ row \in rows => /\ Cardinality(kept) = Keep
                       /\ \A other \in kept : other.ts >= row.ts
    /\ row \notin rows => Cardinality(kept) <= Keep

SelectOverQuota ==
  /\ pass = "select"
  /\ \E rows \in SUBSET table :
       /\ IsOverQuota(rows)
       /\ overQuota' = {row.id : row \in rows}
  /\ pass' = "delete"
  /\ UNCHANGED <<now, jvm, tracked, requestVars, writeMu, passes, comparison>>

DeleteOne(id) ==
  /\ pass = "delete" /\ id \in overQuota
  /\ table' = {row \in table : row.id # id}
  /\ overQuota' = overQuota \ {id}
  /\ UNCHANGED <<now, jvm, tracked, request, writeMu, pass, passes, comparison>>

LeavePass ==
  /\ pass' = "idle" /\ overQuota' = {}
  /\ writeMu' = NoOne
  /\ UNCHANGED <<now, jvm, tracked, requestVars, passes, comparison>>

EndPass == pass = "delete" /\ overQuota = {} /\ LeavePass

(* A statement of the pass fails: what is left waits for the next one. *)
PassFails == pass # "idle" /\ LeavePass

-----------------------------------------------------------------------------
(* CompareDiagnostics reads its two dumps one after the other.             *)

Origin(row) == [start |-> row.start, of |-> row.of]

Comparable(a, b) == a.kind = Histogram /\ b.kind = Histogram /\ a.start = b.start

ReadFirst(row) ==
  /\ reading = {} /\ row \in table
  /\ reading' = {row} /\ compared' = {}
  /\ UNCHANGED <<now, jvm, tracked, requestVars, writeMu, passVars>>

(* Either dump may be the earlier one: they are put in order. *)
ReadSecond(row) ==
  /\ reading # {} /\ row \in table
  /\ compared' = IF \A first \in reading : Comparable(first, row)
                 THEN {Origin(dump) : dump \in reading \cup {row}} ELSE {}
  /\ reading' = {}
  /\ UNCHANGED <<now, jvm, tracked, requestVars, writeMu, passVars>>

(* The second dump is gone by now. *)
SecondMissing ==
  /\ reading # {}
  /\ \E r \in Request : request[r].reply = "stored" /\ \A row \in table : row.id # r
  /\ reading' = {} /\ compared' = {}
  /\ UNCHANGED <<now, jvm, tracked, requestVars, writeMu, passVars>>

-----------------------------------------------------------------------------
DiagnosticsInit ==
  /\ now = 0 /\ jvm = 1 /\ tracked = 1
  /\ request = [r \in Request |-> Fresh]
  /\ table = {} /\ writeMu = NoOne
  /\ pass = "idle" /\ passes = 0 /\ overQuota = {}
  /\ reading = {} /\ compared = {}

Handle(r) == Collected(r) \/ CollectFails(r) \/ LockWriter(r) \/ Insert(r)

Prune == Expire \/ SelectOverQuota \/ (\E id \in Request : DeleteOne(id)) \/ EndPass

Compare == (\E row \in table : ReadFirst(row) \/ ReadSecond(row)) \/ SecondMissing

DiagnosticsNext ==
  \/ Tick \/ Replace \/ Scan
  \/ \E r \in Request : Disconnect(r) \/ StoreTimeout(r) \/ Handle(r)
  \/ \E r \in Request, k \in Kind : Ask(r, k)
  \/ BeginPass \/ Prune \/ PassFails
  \/ Compare

DiagnosticsSpec == DiagnosticsInit /\ [][DiagnosticsNext]_diagnosticsVars

(* A handler runs on, and gets the lock in its turn (Go's mutex hands over *)
(* to a waiter that has starved); a pass that has begun runs on.           *)
Fairness ==
  /\ \A r \in Request :
       /\ WF_diagnosticsVars(Collected(r) \/ CollectFails(r))
       /\ SF_diagnosticsVars(LockWriter(r))
       /\ WF_diagnosticsVars(Insert(r))
  /\ WF_diagnosticsVars(Prune)

DiagnosticsFairSpec == DiagnosticsSpec /\ Fairness

-----------------------------------------------------------------------------
DiagnosticsTypeOK ==
  /\ now \in Time /\ jvm \in Jvm /\ tracked \in Jvm
  /\ request \in [Request -> RequestState]
  /\ table \subseteq Row
  /\ writeMu \in Request \cup {Maintainer, NoOne}
  /\ pass \in {"idle", "expire", "select", "delete"}
  /\ passes \in 0..MaxPasses
  /\ overQuota \subseteq Request
  /\ reading \subseteq Row /\ compared \subseteq [start : Jvm, of : Jvm]

(* A dump that was stored is dropped only for age, or while Keep dumps of  *)
(* the same process and kind that are at least as new stay: whatever else  *)
(* is collected, a later process behind the same pid takes nothing away    *)
(* from it, and a pass that fails half-way has not dropped a newer dump    *)
(* before an older one's replacement is in.                                *)
OnlySurplusDropped ==
  [][\A row \in table \ table' :
       \/ row.ts + Retention < now
       \/ Cardinality({other \in table' :
            /\ other.kind = row.kind /\ other.start = row.start
            /\ other.ts >= row.ts}) >= Keep]_diagnosticsVars

(* A pass that runs to its end leaves at most Keep dumps of any process    *)
(* and kind, whatever was being stored meanwhile.                          *)
QuotaAfterPass ==
  [][pass = "delete" /\ overQuota = {} /\ pass' = "idle" =>
       \A row \in table' :
         Cardinality({other \in table' :
           other.kind = row.kind /\ other.start = row.start}) <= Keep]_diagnosticsVars

(* A comparison in which the JVM that runs now appears, by its start time, *)
(* is of its own dumps alone: however late the inventory was when they     *)
(* were asked for, and whatever was replaced, collected and pruned between *)
(* the two dumps and the two reads, no dump of a predecessor is taken for  *)
(* one of the running JVM.                                                 *)
RunningComparedWithItself ==
  (\E c \in compared : c.start = jvm) => \A c \in compared : c.of = jvm

(* "Only histograms of the same process can be compared": also where       *)
(* another JVM had the pid by the time the command reached it.             *)
ComparesOneProcess == Cardinality({c.of : c \in compared}) <= 1

(* Every request is answered, whatever the retention pass is doing. *)
RequestAnswered ==
  \A r \in Request : request[r].pc = "collect" ~> request[r].pc = "done"

(* A dump that was collected is not lost because the browser has given up  *)
(* by the time it is stored.                                               *)
StoredForTheGone == \A r \in Request : request[r].reply # "lost_cancelled"
=============================================================================
