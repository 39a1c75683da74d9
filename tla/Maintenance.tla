---------------------------- MODULE Maintenance ----------------------------
(***************************************************************************)
(* internal/store/maintenance.go beside the span writer: one goroutine     *)
(* rolls complete minutes of spans up into per-minute tables, advances a   *)
(* persisted watermark, and deletes what is past its retention.            *)
(*                                                                         *)
(* Time is counted in minutes.  A span's ts is the minute it started in,   *)
(* which may lie well before the minute it is written in: a span is only   *)
(* exported once it has ended.  The metrics and diagnostics that Retention *)
(* also deletes share no state with the spans and are left out.            *)
(***************************************************************************)
EXTENDS Integers, FiniteSets, FiniteSetsExt

CONSTANTS
  Span,
  EntrySpan,       \* the spans that serve a request: entrySpanPredicate
  NoSpan,
  ParentOf,        \* [Span -> Span \cup {NoSpan}]: the parent in another service
  NoMark,          \* no watermark row in meta
  MaxClock,        \* bound on the minutes that pass
  MaxLate,         \* bound on how long before its write a span started
  CatchUp,         \* rollupCatchUpLimit
  SpanRetention,   \* storage.span_retention; 0 keeps spans for ever
  RollupRetention, \* storage.rollup_retention; 0 keeps rollups for ever
  MaxFaults        \* bound on failed statements and restarts

ASSUME SpanAssumption ==
  /\ EntrySpan \subseteq Span /\ NoSpan \notin Span
  /\ ParentOf \in [Span -> Span \cup {NoSpan}]
ASSUME MarkAssumption == NoMark \notin Int
ASSUME TimesAssumption ==
  /\ MaxClock \in Nat /\ MaxLate \in Nat
  /\ CatchUp \in Nat \ {0}
  /\ SpanRetention \in Nat /\ RollupRetention \in Nat /\ MaxFaults \in Nat

VARIABLES
  clock,           \* the current minute
  spans,           \* the rows of the spans table
  ts,              \* [Span -> minute], of the spans written so far
  rollup,          \* [Span -> how often rollup_1m counts the span]
  deps,            \* [Span -> how often deps_1m counts it as a callee]
  mark,            \* the watermark row
  job,             \* where runOnce stands
  faults,          \* failures and restarts left
  dropped,         \* history: spans that retention deleted
  late,            \* history: spans written below what was being rolled up
  expired          \* history: minutes below it lost their rollups to retention

vars == <<clock, spans, ts, rollup, deps, mark, job, faults, dropped, late, expired>>

Minute == 0 .. MaxClock

(* from and to are the rollup's window; now is Retention's reading of the  *)
(* clock, taken before it waits for the writer lock.                       *)
JobState == [pc : {"idle", "rollup", "retain", "spans", "rollups", "deps"},
             from : Minute, to : Minute, now : Minute]

Idle == [pc |-> "idle", from |-> 0, to |-> 0, now |-> 0]

Init ==
  /\ clock = 0
  /\ spans = {}
  /\ ts = [s \in Span |-> 0]
  /\ rollup = [s \in Span |-> 0]
  /\ deps = [s \in Span |-> 0]
  /\ mark = NoMark
  /\ job = Idle
  /\ faults = MaxFaults
  /\ dropped = {}
  /\ late = {}
  /\ expired = 0

Written == spans \cup dropped

(* Retention holds writeMu from its first statement to its last. *)
Locked == job.pc \in {"spans", "rollups", "deps"}

Tick ==
  /\ clock < MaxClock
  /\ clock' = clock + 1
  /\ UNCHANGED <<spans, ts, rollup, deps, mark, job, faults, dropped, late, expired>>

(* WriteSpans, one span of a batch. *)
WriteSpan(s) ==
  /\ s \notin Written
  /\ ~ Locked
  /\ \E t \in Minute :
       /\ clock - MaxLate <= t /\ t <= clock
       /\ ts' = [ts EXCEPT ![s] = t]
       /\ late' = IF \/ mark # NoMark /\ t < mark
                     \/ job.pc = "rollup" /\ t < job.from
                  THEN late \cup {s} ELSE late
  /\ spans' = spans \cup {s}
  /\ UNCHANGED <<clock, rollup, deps, mark, job, faults, dropped, expired>>

(* Fault: without a row the watermark is taken to be the current minute. *)
WatermarkFromNow == IF mark # NoMark THEN mark ELSE clock

(* watermark: the stored one, or the oldest span's minute, or now. *)
Watermark ==
  IF mark # NoMark THEN mark
  ELSE IF spans = {} THEN clock
  ELSE Min({ts[s] : s \in spans})

-----------------------------------------------------------------------------
(* Rollup.                                                                 *)

(* The window ends before the current minute and after CatchUp at most. *)
WindowEnd(from) == IF clock - from > CatchUp THEN from + CatchUp ELSE clock

(* The watermark and the clock are read before writeMu is taken. *)
RollupBegin ==
  /\ job.pc = "idle"
  /\ LET from == Watermark
     IN job' = IF from < clock
               THEN [job EXCEPT !.pc = "rollup", !.from = from,
                                !.to = WindowEnd(from)]
               ELSE [job EXCEPT !.pc = "retain"]
  /\ UNCHANGED <<clock, spans, ts, rollup, deps, mark, faults, dropped, late, expired>>

InWindow(s) == s \in Written /\ job.from <= ts[s] /\ ts[s] < job.to

(* rollupInsert: every entry span of the window is counted in its minute. *)
CountedSpans == {s \in spans \cap EntrySpan : InWindow(s)}

(* depsInsert: caller and callee must both lie in the window. *)
CountedEdges ==
  {s \in spans : /\ InWindow(s)
                 /\ ParentOf[s] \in spans /\ InWindow(ParentOf[s])}

(* What a table counts once the window's rows are deleted and inserted. *)
Rebuilt(table, counted) ==
  [s \in Span |-> (IF InWindow(s) THEN 0 ELSE table[s])
                    + (IF s \in counted THEN 1 ELSE 0)]

(* Fault: the watermark is recorded as the current minute. *)
RollupCommitSkips ==
  /\ job.pc = "rollup"
  /\ rollup' = Rebuilt(rollup, CountedSpans)
  /\ deps' = Rebuilt(deps, CountedEdges)
  /\ mark' = clock
  /\ job' = [job EXCEPT !.pc = "retain"]
  /\ UNCHANGED <<clock, spans, ts, faults, dropped, late, expired>>

(* The transaction: clear both windows, insert, record the watermark. *)
RollupCommit ==
  /\ job.pc = "rollup"
  /\ rollup' = Rebuilt(rollup, CountedSpans)
  /\ deps' = Rebuilt(deps, CountedEdges)
  /\ mark' = job.to
  /\ job' = [job EXCEPT !.pc = "retain"]
  /\ UNCHANGED <<clock, spans, ts, faults, dropped, late, expired>>

(* The watermark cannot be read, or a statement of the transaction fails:  *)
(* everything is rolled back and Retention runs.                           *)
RollupFails ==
  /\ job.pc \in {"idle", "rollup"}
  /\ faults > 0
  /\ faults' = faults - 1
  /\ job' = [job EXCEPT !.pc = "retain"]
  /\ UNCHANGED <<clock, spans, ts, rollup, deps, mark, dropped, late, expired>>

-----------------------------------------------------------------------------
(* Retention: one statement after the other, each committed on its own.    *)

RetentionBegin ==
  /\ job.pc = "retain"
  /\ job' = [job EXCEPT !.pc = "spans", !.now = clock]
  /\ UNCHANGED <<clock, spans, ts, rollup, deps, mark, faults, dropped, late, expired>>

Expire(gone) == spans' = spans \ gone /\ dropped' = dropped \cup gone

(* Fault: the age alone decides. *)
SpanCutoffByAge == job.now - SpanRetention

(* The age limit, held back to the watermark. *)
SpanCutoff == Min({job.now - SpanRetention, Watermark})

(* Spans of the cutoff's own minute are partly older than it, unless the   *)
(* cutoff is the watermark, which is a whole minute.                       *)
DeleteSpans ==
  /\ job.pc = "spans"
  /\ \E part \in SUBSET {s \in spans : ts[s] = SpanCutoff /\ ts[s] < Watermark} :
       Expire(IF SpanRetention = 0 THEN {}
              ELSE {s \in spans : ts[s] < SpanCutoff} \cup part)
  /\ job' = [job EXCEPT !.pc = "rollups"]
  /\ UNCHANGED <<clock, ts, rollup, deps, mark, faults, late, expired>>

Purged(table, cutoff) ==
  [s \in Span |-> IF s \in Written /\ ts[s] < cutoff THEN 0 ELSE table[s]]

(* A row's bucket_ts is the start of its minute, so the cutoff's own       *)
(* minute goes too when the cutoff is past its first instant.              *)
Cutoffs(age) == {age, age + 1}

DeleteRollups ==
  /\ job.pc = "rollups"
  /\ \E cutoff \in Cutoffs(job.now - RollupRetention) :
       IF RollupRetention = 0 THEN UNCHANGED <<rollup, expired>>
       ELSE /\ rollup' = Purged(rollup, cutoff)
            /\ expired' = Max({expired, cutoff})
  /\ job' = [job EXCEPT !.pc = "deps"]
  /\ UNCHANGED <<clock, spans, ts, deps, mark, faults, dropped, late>>

DeleteDeps ==
  /\ job.pc = "deps"
  /\ \E cutoff \in Cutoffs(job.now - RollupRetention) :
       deps' = IF RollupRetention = 0 THEN deps ELSE Purged(deps, cutoff)
  /\ job' = Idle
  /\ UNCHANGED <<clock, spans, ts, rollup, mark, faults, dropped, late, expired>>

(* A statement fails and Retention returns, or the process is restarted:   *)
(* what was committed stays.                                               *)
Interrupted ==
  /\ job.pc # "idle"
  /\ faults > 0
  /\ faults' = faults - 1
  /\ job' = Idle
  /\ UNCHANGED <<clock, spans, ts, rollup, deps, mark, dropped, late, expired>>

RunOnce ==
  \/ RollupBegin \/ RollupCommit \/ RollupFails
  \/ RetentionBegin \/ DeleteSpans \/ DeleteRollups \/ DeleteDeps

Next == Tick \/ (\E s \in Span : WriteSpan(s)) \/ RunOnce \/ Interrupted

Spec == Init /\ [][Next]_vars

(* The ticker fires for ever and statements return. *)
FairSpec == Spec /\ WF_vars(RunOnce)

-----------------------------------------------------------------------------
(* Properties.                                                             *)

TypeOK ==
  /\ clock \in Minute
  /\ spans \subseteq Span
  /\ ts \in [Span -> Minute]
  /\ rollup \in [Span -> Nat]
  /\ deps \in [Span -> Nat]
  /\ mark \in Minute \cup {NoMark}
  /\ job \in JobState
  /\ faults \in 0 .. MaxFaults
  /\ dropped \subseteq Span
  /\ late \subseteq Span
  /\ expired \in Nat

Below(s) == s \in Written /\ mark # NoMark /\ ts[s] < mark

(* Failed passes, restarts, catch-up windows and retention never make the  *)
(* rollups count a span twice, nor miss an entry span that was written     *)
(* before its minute was taken: below the watermark it is counted exactly  *)
(* once, for as long as rollups of that minute are kept.                   *)
RolledExactlyOnce ==
  \A s \in Span :
    /\ rollup[s] <= 1
    /\ Below(s) /\ s \in EntrySpan \ late /\ ts[s] >= expired => rollup[s] = 1

(* A span is only deleted once its minute was rolled up, even when rollups *)
(* have been failing for longer than the span retention.                   *)
DropsFollowRollup ==
  \A s \in dropped :
    Below(s) /\ (s \in EntrySpan \ late /\ ts[s] >= expired => rollup[s] = 1)

(* A backlog is worked off in several passes: once time stands still, the  *)
(* watermark reaches the current minute.                                   *)
BacklogDrains ==
  clock = MaxClock /\ (\E s \in spans : ts[s] < MaxClock) ~> mark = MaxClock

(* maintenance.go: minutes below the watermark have certainly finished, so *)
(* that no later arrival contradicts their rollups.                        *)
RollupsNotContradicted ==
  \A s \in spans \cap EntrySpan : Below(s) /\ ts[s] >= expired => rollup[s] = 1
=============================================================================
