--------------------------- MODULE TelemetryProofs ---------------------------
(***************************************************************************)
(* Theorems about what becomes of telemetry: Maintenance, which rolls the  *)
(* spans up and deletes them, and Metrics, the names telemetry is filed    *)
(* under and the figures apm2go measures itself.  Each holds for all sets  *)
(* of spans, callers, names and processes and all budgets and retentions.  *)
(* The definitions without a prefix are those of Maintenance.              *)
(***************************************************************************)
EXTENDS Maintenance, Metrics, FiniteSetTheorems, WellFoundedInduction, TLAPS

-----------------------------------------------------------------------------
(* Minimum and maximum.                                                    *)

(* A set of natural numbers that is not empty has a least element. *)
LEMMA LeastNatural ==
  ASSUME NEW S \in SUBSET Nat, S # {}
  PROVE  Min(S) \in S /\ \A y \in S : Min(S) <= y
<1>1. \E x \in S : \A y \in S : ~ (<<y, x>> \in OpToRel(<, Nat))
  BY NatLessThanWellFounded, WFMin, Zenon
<1>2. PICK x \in S : \A y \in S : ~ (<<y, x>> \in OpToRel(<, Nat))
  BY <1>1, Zenon
<1>3. ASSUME NEW y \in S PROVE x <= y
  <2>1. ~ (<<y, x>> \in {ss \in Nat \X Nat : ss[1] < ss[2]})
    BY <1>2, Zenon DEF OpToRel
  <2> QED BY <2>1
<1> QED BY <1>3 DEF Min

(* The smaller and the larger of two numbers. *)
LEMMA MinOfTwo ==
  ASSUME NEW a \in Int, NEW b \in Int
  PROVE  Min({a, b}) \in Int /\ Min({a, b}) <= a /\ Min({a, b}) <= b
<1>1. \E x \in {a, b} : \A y \in {a, b} : x =< y
  BY a <= b \/ b <= a
<1> QED BY <1>1 DEF Min

(* The same for the larger. *)
LEMMA MaxOfTwo ==
  ASSUME NEW a \in Int, NEW b \in Int
  PROVE  Max({a, b}) \in Int /\ Max({a, b}) >= a /\ Max({a, b}) >= b
<1>1. \E x \in {a, b} : \A y \in {a, b} : x >= y
  BY a <= b \/ b <= a
<1> QED BY <1>1 DEF Max

-----------------------------------------------------------------------------
(* The store and its maintenance: types.                                   *)

(* No row is ever below a watermark that has not been stored: it is then   *)
(* the minute of the oldest row, if there is any.                          *)
LEMMA WatermarkFacts ==
  ASSUME TypeOK
  PROVE  /\ Watermark \in Minute
         /\ mark # NoMark => Watermark = mark
         /\ mark = NoMark => \A s \in spans : Watermark <= ts[s]
<1>1. CASE mark # NoMark
  BY <1>1 DEF TypeOK, Watermark
<1>2. CASE mark = NoMark /\ spans = {}
  BY <1>2 DEF TypeOK, Watermark
<1>3. CASE mark = NoMark /\ spans # {}
  <2> DEFINE S == {ts[s] : s \in spans}
  <2>1. S \subseteq Minute /\ S # {}
    BY <1>3 DEF TypeOK
  <2>2. S \in SUBSET Nat
    BY <2>1, TimesAssumption DEF Minute
  <2>3. Min(S) \in S /\ \A y \in S : Min(S) <= y
    BY <2>1, <2>2, LeastNatural
  <2>4. Watermark = Min(S)
    BY <1>3 DEF Watermark
  <2> QED
    BY <1>3, <2>1, <2>3, <2>4
<1> QED BY <1>1, <1>2, <1>3

(* A rollup's window is not empty and ends by the current minute. *)
LEMMA WindowEndFacts ==
  ASSUME TypeOK, NEW from \in Minute, from < clock
  PROVE  WindowEnd(from) \in Minute /\ from < WindowEnd(from)
BY TimesAssumption DEF TypeOK, WindowEnd, Minute

(* The records and tables the actions build are well typed. *)
LEMMA IdleType == Idle \in JobState
BY TimesAssumption DEF Idle, JobState, Minute

(* Rebuilding a window keeps the counts counts, *)
LEMMA RebuiltType ==
  ASSUME NEW table \in [Span -> Nat], NEW counted
  PROVE  Rebuilt(table, counted) \in [Span -> Nat]
<1>1. ASSUME NEW s \in Span
      PROVE  (IF InWindow(s) THEN 0 ELSE table[s])
               + (IF s \in counted THEN 1 ELSE 0) \in Nat
  <2>1. (IF InWindow(s) THEN 0 ELSE table[s]) \in Nat
    OBVIOUS
  <2>2. (IF s \in counted THEN 1 ELSE 0) \in Nat
    OBVIOUS
  <2> QED BY <2>1, <2>2
<1> QED BY <1>1 DEF Rebuilt

(* and so does deleting old rows. *)
LEMMA PurgedType ==
  ASSUME NEW table \in [Span -> Nat], NEW cutoff
  PROVE  Purged(table, cutoff) \in [Span -> Nat]
BY DEF Purged

(* Types hold at first and across every step. *)
LEMMA InitTypeOK == Init => TypeOK
BY TimesAssumption, IdleType DEF Init, TypeOK, Minute

(* Cutoffs may be negative: Retention may exceed the time passed. *)
LEMMA CutoffsType ==
  ASSUME TypeOK, NEW cutoff \in Cutoffs(job.now - RollupRetention)
  PROVE  cutoff \in Int
BY TimesAssumption DEF TypeOK, JobState, Minute, Cutoffs

(* Every step keeps the types. *)
LEMMA NextTypeOK == TypeOK /\ [Next]_vars => TypeOK'
<1> SUFFICES ASSUME TypeOK, [Next]_vars PROVE TypeOK'
  OBVIOUS
<1>1. CASE Tick
  BY <1>1, TimesAssumption DEF Tick, TypeOK, Minute
<1>2. CASE \E s \in Span : WriteSpan(s)
  <2> PICK s \in Span : WriteSpan(s)
    BY <1>2
  <2>1. ts' \in [Span -> Minute] /\ late' \subseteq Span /\ spans' \subseteq Span
    BY DEF WriteSpan, TypeOK
  <2> QED
    BY <2>1 DEF WriteSpan, TypeOK
<1>3. CASE RollupBegin
  <2>1. job' \in JobState
    <3>1. CASE Watermark < clock
      <4>1. job' = [job EXCEPT !.pc = "rollup", !.from = Watermark,
                               !.to = WindowEnd(Watermark)]
        BY <1>3, <3>1 DEF RollupBegin
      <4> QED
        BY <3>1, <4>1, WatermarkFacts, WindowEndFacts DEF TypeOK, JobState
    <3>2. CASE ~ (Watermark < clock)
      <4>1. job' = [job EXCEPT !.pc = "retain"]
        BY <1>3, <3>2 DEF RollupBegin
      <4> QED
        BY <4>1 DEF TypeOK, JobState
    <3> QED BY <3>1, <3>2
  <2> QED
    BY <1>3, <2>1 DEF RollupBegin, TypeOK
<1>4. CASE RollupCommit
  <2>1. rollup' \in [Span -> Nat] /\ deps' \in [Span -> Nat]
    BY <1>4, RebuiltType DEF RollupCommit, TypeOK
  <2>2. mark' \in Minute /\ job' \in JobState
    BY <1>4 DEF RollupCommit, TypeOK, JobState
  <2> QED
    BY <1>4, <2>1, <2>2 DEF RollupCommit, TypeOK
<1>5. CASE RollupFails
  BY <1>5, TimesAssumption DEF RollupFails, TypeOK, JobState
<1>6. CASE RetentionBegin
  BY <1>6 DEF RetentionBegin, TypeOK, JobState
<1>7. CASE DeleteSpans
  <2>1. PICK gone \in SUBSET spans : Expire(gone)
    <3>1. PICK part \in SUBSET {s \in spans : ts[s] = SpanCutoff /\ ts[s] < Watermark} :
            Expire(IF SpanRetention = 0 THEN {}
                   ELSE {s \in spans : ts[s] < SpanCutoff} \cup part)
      BY <1>7 DEF DeleteSpans
    <3> QED BY <3>1
  <2>2. job' \in JobState
    BY <1>7 DEF DeleteSpans, TypeOK, JobState
  <2> QED
    BY <1>7, <2>1, <2>2 DEF DeleteSpans, Expire, TypeOK
<1>8. CASE DeleteRollups
  <2> PICK cutoff \in Cutoffs(job.now - RollupRetention) :
       IF RollupRetention = 0 THEN UNCHANGED <<rollup, expired>>
       ELSE /\ rollup' = Purged(rollup, cutoff)
            /\ expired' = Max({expired, cutoff})
    BY <1>8 DEF DeleteRollups
  <2>1. rollup' \in [Span -> Nat]
    BY PurgedType DEF TypeOK
  <2>2. expired' \in Nat
    <3>1. expired \in Int /\ cutoff \in Int /\ expired >= 0
      BY CutoffsType DEF TypeOK
    <3>2. Max({expired, cutoff}) \in Int /\ Max({expired, cutoff}) >= expired
      BY <3>1, MaxOfTwo
    <3> QED
      BY <3>1, <3>2 DEF TypeOK
  <2>3. job' \in JobState
    BY <1>8 DEF DeleteRollups, TypeOK, JobState
  <2> QED
    BY <1>8, <2>1, <2>2, <2>3 DEF DeleteRollups, TypeOK
<1>9. CASE DeleteDeps
  BY <1>9, PurgedType, IdleType DEF DeleteDeps, TypeOK
<1>10. CASE Interrupted
  BY <1>10, TimesAssumption, IdleType DEF Interrupted, TypeOK
<1>11. CASE UNCHANGED vars
  BY <1>11 DEF vars, TypeOK
<1> QED
  BY <1>1, <1>2, <1>3, <1>4, <1>5, <1>6, <1>7, <1>8, <1>9, <1>10, <1>11
  DEF Next, RunOnce

(* The store and its maintenance are well typed in every reachable state:  *)
(* in particular the rollup's window never ends after the bound on the     *)
(* clock, and the watermark is a minute.                                   *)
THEOREM MaintenanceTypeCorrect == Spec => []TypeOK
BY InitTypeOK, NextTypeOK, PTL DEF Spec

-----------------------------------------------------------------------------
(* Rolled up exactly once.                                                 *)

(* A rollup under way starts where the last one ended.  The first one ever *)
(* starts at the oldest row there was when it began, so that whatever lies *)
(* below its window came in after that and is late.                        *)
WindowInv ==
  job.pc = "rollup" =>
    /\ job.from < job.to
    /\ mark # NoMark => job.from = mark
    /\ mark = NoMark => \A s \in spans \ late : job.from <= ts[s]

RollupInv == WindowInv /\ RolledExactlyOnce /\ DropsFollowRollup

(* Nothing in a rollup's window has been dropped. *)
LEMMA WindowUndropped ==
  ASSUME TypeOK, RollupInv, job.pc = "rollup", NEW s \in Span, InWindow(s)
  PROVE  s \in spans
<1>1. ASSUME s \in dropped PROVE FALSE
  <2>1. mark # NoMark /\ ts[s] < mark
    BY <1>1 DEF RollupInv, DropsFollowRollup, Below
  <2>2. job.from = mark
    BY <2>1 DEF RollupInv, WindowInv
  <2> QED
    BY <2>1, <2>2 DEF InWindow, TypeOK, JobState, Minute
<1> QED
  BY <1>1 DEF InWindow, Written

(* What the transaction leaves in rollup_1m for one span. *)
LEMMA RebuiltCounts ==
  ASSUME TypeOK, NEW s \in Span, NEW counted,
         s \in counted => InWindow(s)
  PROVE  /\ s \in counted => Rebuilt(rollup, counted)[s] = 1
         /\ ~ InWindow(s) => Rebuilt(rollup, counted)[s] = rollup[s]
         /\ InWindow(s) /\ s \notin counted => Rebuilt(rollup, counted)[s] = 0
BY DEF TypeOK, Rebuilt

(* The transaction keeps the counts right: what it clears it counts again, *)
(* and what it newly covers it counts for the first time.                  *)
LEMMA CommitRollupInv ==
  ASSUME TypeOK, RollupInv, RollupCommit
  PROVE  RollupInv'
<1>0. /\ job \in JobState /\ ts \in [Span -> Minute] /\ job.pc = "rollup"
      /\ rollup \in [Span -> Nat] /\ mark \in Minute \cup {NoMark}
      /\ mark' = job.to /\ job.to \in Minute /\ job.from \in Minute
  BY DEF TypeOK, RollupCommit, JobState
<1>1. WindowInv'
  BY <1>0 DEF RollupCommit, WindowInv, JobState
<1>2. mark' # NoMark /\ (mark # NoMark => mark < mark')
  BY <1>0, MarkAssumption, TimesAssumption DEF RollupInv, WindowInv, Minute
<1>3. \A s \in Span : Below(s) => Below(s)'
  BY <1>0, <1>2, TimesAssumption DEF Below, Written, RollupCommit, Minute
<1>4. ASSUME NEW s \in Span
      PROVE  /\ rollup'[s] <= 1
             /\ Below(s)' /\ s \in EntrySpan \ late /\ ts[s] >= expired
                  => rollup'[s] = 1
  <2>0. rollup' = Rebuilt(rollup, CountedSpans) /\ rollup[s] \in Nat
        /\ rollup[s] <= 1
    BY <1>0 DEF RollupCommit, RollupInv, RolledExactlyOnce
  <2>1. CASE s \in CountedSpans
    BY <2>0, <2>1, RebuiltCounts DEF CountedSpans
  <2>2. CASE s \notin CountedSpans /\ ~ InWindow(s)
    <3>1. rollup'[s] = rollup[s]
      BY <2>0, <2>2, RebuiltCounts
    <3>2. ASSUME Below(s)', s \in EntrySpan \ late, ts[s] >= expired
          PROVE  rollup[s] = 1
      <4>1. s \in Written /\ ts[s] < job.to /\ ts[s] \in Minute
        BY <1>0, <3>2 DEF Below, Written, RollupCommit
      <4>2. ts[s] < job.from
        BY <1>0, <2>2, <4>1, TimesAssumption DEF InWindow, Minute
      <4>3. mark # NoMark
        <5>1. ASSUME mark = NoMark PROVE FALSE
          <6>1. s \in spans
            BY <4>1, <5>1 DEF Written, RollupInv, DropsFollowRollup, Below
          <6>2. job.from <= ts[s]
            BY <1>0, <3>2, <5>1, <6>1 DEF RollupInv, WindowInv
          <6> QED
            BY <1>0, <4>1, <4>2, <6>2, TimesAssumption DEF Minute
        <5> QED BY <5>1
      <4>4. Below(s)
        BY <1>0, <4>1, <4>2, <4>3 DEF Below, RollupInv, WindowInv
      <4> QED
        BY <3>2, <4>4 DEF RollupInv, RolledExactlyOnce
    <3> QED
      BY <2>0, <3>1, <3>2
  <2>3. CASE s \notin CountedSpans /\ InWindow(s)
    <3>1. rollup'[s] = 0
      BY <2>0, <2>3, RebuiltCounts
    <3>2. s \notin EntrySpan
      BY <1>0, <2>3, WindowUndropped DEF CountedSpans
    <3> QED
      BY <3>1, <3>2
  <2> QED
    BY <2>1, <2>2, <2>3
<1>5. RolledExactlyOnce'
  BY <1>4 DEF RolledExactlyOnce, RollupCommit
<1>6. DropsFollowRollup'
  <2> SUFFICES ASSUME NEW s \in dropped
               PROVE  Below(s)' /\ (s \in EntrySpan \ late /\ ts[s] >= expired
                                      => rollup'[s] = 1)
    BY DEF DropsFollowRollup, RollupCommit
  <2>1. s \in Span /\ Below(s)'
    BY <1>3 DEF RollupInv, DropsFollowRollup, TypeOK
  <2> QED
    BY <1>4, <2>1
<1> QED
  BY <1>1, <1>5, <1>6 DEF RollupInv

(* Only spans below a stored watermark are deleted. *)
LEMMA DeleteRollupInv ==
  ASSUME TypeOK, RollupInv, DeleteSpans
  PROVE  RollupInv'
<1>1. PICK gone \in SUBSET spans :
        /\ Expire(gone)
        /\ \A s \in gone : ts[s] < Watermark
  <2>1. PICK part \in SUBSET {s \in spans : ts[s] = SpanCutoff /\ ts[s] < Watermark} :
          Expire(IF SpanRetention = 0 THEN {}
                 ELSE {s \in spans : ts[s] < SpanCutoff} \cup part)
    BY DEF DeleteSpans
  <2>2. Watermark \in Int /\ job.now - SpanRetention \in Int
    BY WatermarkFacts, TimesAssumption DEF TypeOK, JobState, Minute
  <2>3. SpanCutoff \in Int /\ SpanCutoff <= Watermark
    BY <2>2, MinOfTwo DEF SpanCutoff
  <2>4. \A s \in spans : ts[s] \in Int
    BY TimesAssumption DEF TypeOK, Minute
  <2>5. CASE SpanRetention = 0
    BY <2>1, <2>5
  <2>6. CASE SpanRetention # 0
    <3> DEFINE out == {s \in spans : ts[s] < SpanCutoff} \cup part
    <3>1. Expire(out) /\ out \in SUBSET spans
      BY <2>1, <2>6
    <3>2. \A s \in out : ts[s] < Watermark
      BY <2>1, <2>2, <2>3, <2>4
    <3> QED BY <3>1, <3>2
  <2> QED BY <2>5, <2>6
<1>2. \A s \in gone : Below(s)
  <2> SUFFICES ASSUME NEW s \in gone PROVE Below(s)
    OBVIOUS
  <2>1. s \in spans /\ ts[s] < Watermark /\ ts[s] \in Int /\ Watermark \in Int
    BY <1>1, WatermarkFacts, TimesAssumption DEF TypeOK, Minute
  <2>2. mark # NoMark
    BY <2>1, WatermarkFacts
  <2> QED
    BY <2>1, <2>2, WatermarkFacts DEF Below, Written
<1>3. /\ spans' = spans \ gone /\ dropped' = dropped \cup gone
      /\ UNCHANGED <<ts, rollup, mark, late, expired>> /\ job'.pc = "rollups"
  BY <1>1 DEF DeleteSpans, Expire, TypeOK, JobState
<1>4. Written' = Written
  BY <1>3 DEF Written
<1>5. \A s \in Span : Below(s)' <=> Below(s)
  BY <1>3, <1>4 DEF Below
<1>6. WindowInv'
  BY <1>3 DEF WindowInv
<1>7. RolledExactlyOnce'
  BY <1>3, <1>5 DEF RollupInv, RolledExactlyOnce
<1>8. DropsFollowRollup'
  <2> SUFFICES ASSUME NEW s \in dropped'
               PROVE  Below(s)' /\ (s \in EntrySpan \ late /\ ts[s] >= expired
                                      => rollup[s] = 1)
    BY <1>3 DEF DropsFollowRollup
  <2>1. s \in Span /\ Below(s)
    BY <1>2, <1>3 DEF RollupInv, DropsFollowRollup, TypeOK
  <2> QED
    BY <1>5, <2>1 DEF RollupInv, RolledExactlyOnce
<1> QED
  BY <1>6, <1>7, <1>8 DEF RollupInv

(* A span is written at or above the watermark and the window's start, or  *)
(* it is late.                                                             *)
LEMMA WriteRollupInv ==
  ASSUME TypeOK, RollupInv, NEW s \in Span, WriteSpan(s)
  PROVE  RollupInv'
<1>1. PICK t \in Minute :
        /\ ts' = [ts EXCEPT ![s] = t]
        /\ late' = IF \/ mark # NoMark /\ t < mark
                      \/ job.pc = "rollup" /\ t < job.from
                   THEN late \cup {s} ELSE late
  BY DEF WriteSpan
<1>2. /\ spans' = spans \cup {s} /\ s \notin Written
      /\ UNCHANGED <<rollup, mark, job, dropped, expired>>
      /\ ts \in [Span -> Minute] /\ job \in JobState
  BY DEF WriteSpan, TypeOK
<1>3. /\ ts'[s] = t
      /\ \A u \in Span \ {s} : ts'[u] = ts[u]
      /\ late \subseteq late' /\ \A u \in Span \ {s} : u \in late' <=> u \in late
  BY <1>1, <1>2
<1>4. s \notin late' => /\ mark # NoMark => ~ (t < mark)
                        /\ job.pc = "rollup" => ~ (t < job.from)
  BY <1>1
<1>5. \A u \in Span \ {s} : Below(u)' <=> Below(u)
  BY <1>2, <1>3 DEF Below, Written
<1>6. WindowInv'
  <2> SUFFICES ASSUME job.pc = "rollup", mark = NoMark,
                      NEW u \in spans' \ late'
               PROVE  job.from <= ts'[u]
    BY <1>2 DEF RollupInv, WindowInv
  <2>1. CASE u = s
    BY <1>2, <1>3, <1>4, <2>1, TimesAssumption DEF JobState, Minute
  <2>2. CASE u # s
    <3>1. u \in spans \ late /\ ts'[u] = ts[u]
      BY <1>2, <1>3, <2>2 DEF TypeOK
    <3> QED
      BY <3>1 DEF RollupInv, WindowInv
  <2> QED BY <2>1, <2>2
<1>7. RolledExactlyOnce'
  <2> SUFFICES ASSUME NEW u \in Span
               PROVE  /\ rollup[u] <= 1
                      /\ Below(u)' /\ u \in EntrySpan \ late' /\ ts'[u] >= expired
                           => rollup[u] = 1
    BY <1>2 DEF RolledExactlyOnce
  <2>1. CASE u = s
    BY <1>2, <1>3, <1>4, <2>1 DEF RollupInv, RolledExactlyOnce, Below
  <2>2. CASE u # s
    BY <1>3, <1>5, <2>2 DEF RollupInv, RolledExactlyOnce
  <2> QED BY <2>1, <2>2
<1>8. DropsFollowRollup'
  <2> SUFFICES ASSUME NEW u \in dropped
               PROVE  Below(u)' /\ (u \in EntrySpan \ late' /\ ts'[u] >= expired
                                      => rollup[u] = 1)
    BY <1>2 DEF DropsFollowRollup
  <2>1. u \in Span \ {s}
    BY <1>2 DEF Written, TypeOK
  <2> QED
    BY <1>3, <1>5, <2>1 DEF RollupInv, DropsFollowRollup
<1> QED
  BY <1>6, <1>7, <1>8 DEF RollupInv

(* What loses its rollup to retention lies below expired from then on. *)
LEMMA PurgeRollupInv ==
  ASSUME TypeOK, RollupInv, DeleteRollups
  PROVE  RollupInv'
<1>1. PICK cutoff \in Cutoffs(job.now - RollupRetention) :
       IF RollupRetention = 0 THEN UNCHANGED <<rollup, expired>>
       ELSE /\ rollup' = Purged(rollup, cutoff)
            /\ expired' = Max({expired, cutoff})
  BY DEF DeleteRollups
<1>2. UNCHANGED <<spans, ts, mark, dropped, late>> /\ job'.pc = "deps"
  BY DEF DeleteRollups, TypeOK, JobState
<1>3. \A s \in Span : Below(s)' <=> Below(s)
  BY <1>2 DEF Below, Written
<1>4. WindowInv'
  BY <1>2 DEF WindowInv
<1>5. CASE RollupRetention = 0
  BY <1>1, <1>2, <1>3, <1>4, <1>5
  DEF RollupInv, RolledExactlyOnce, DropsFollowRollup, TypeOK
<1>6. CASE RollupRetention # 0
  <2>1. cutoff \in Int /\ expired \in Int /\ \A s \in Span : ts[s] \in Int
    BY CutoffsType, TimesAssumption DEF TypeOK, Minute
  <2>2. expired' \in Int /\ expired' >= expired /\ expired' >= cutoff
    BY <1>1, <1>6, <2>1, MaxOfTwo
  <2>3. ASSUME NEW s \in Span
        PROVE  /\ rollup'[s] <= 1
               /\ ts[s] >= expired' => rollup'[s] = rollup[s] /\ ts[s] >= expired
    <3>1. rollup'[s] = IF s \in Written /\ ts[s] < cutoff THEN 0 ELSE rollup[s]
      BY <1>1, <1>6 DEF Purged
    <3>2. rollup[s] <= 1
      BY DEF RollupInv, RolledExactlyOnce
    <3>3. ts[s] \in Int
      BY <2>1
    <3> QED
      BY <2>1, <2>2, <3>1, <3>2, <3>3
  <2>4. RolledExactlyOnce'
    BY <1>2, <1>3, <2>3 DEF RollupInv, RolledExactlyOnce
  <2>5. DropsFollowRollup'
    BY <1>2, <1>3, <2>3 DEF RollupInv, DropsFollowRollup, TypeOK
  <2> QED
    BY <1>4, <2>4, <2>5 DEF RollupInv
<1> QED
  BY <1>5, <1>6

(* Steps that leave the tables and the watermark alone and start no        *)
(* rollup.                                                                 *)
LEMMA OthersRollupInv ==
  ASSUME RollupInv, UNCHANGED <<spans, ts, rollup, mark, dropped, late, expired>>,
         job'.pc = "rollup" => job' = job
  PROVE  RollupInv'
<1>1. WindowInv'
  BY DEF RollupInv, WindowInv
<1>2. RolledExactlyOnce' /\ DropsFollowRollup'
  BY DEF RollupInv, RolledExactlyOnce, DropsFollowRollup, Below, Written
<1> QED BY <1>1, <1>2 DEF RollupInv

(* Every step keeps RollupInv. *)
LEMMA NextRollupInv == TypeOK /\ RollupInv /\ [Next]_vars => RollupInv'
<1> SUFFICES ASSUME TypeOK, RollupInv, [Next]_vars PROVE RollupInv'
  OBVIOUS
<1>1. CASE Tick \/ UNCHANGED vars
  BY <1>1, OthersRollupInv DEF Tick, vars
<1>2. CASE \E s \in Span : WriteSpan(s)
  BY <1>2, WriteRollupInv
<1>3. CASE RollupBegin
  <2>1. CASE Watermark < clock
    <3>1. job' = [job EXCEPT !.pc = "rollup", !.from = Watermark,
                             !.to = WindowEnd(Watermark)]
      BY <1>3, <2>1 DEF RollupBegin
    <3>2. job'.from = Watermark /\ job'.to = WindowEnd(Watermark)
      BY <3>1 DEF TypeOK, JobState
    <3>3. Watermark < WindowEnd(Watermark)
      BY <2>1, WatermarkFacts, WindowEndFacts
    <3>4. UNCHANGED <<spans, ts, rollup, mark, dropped, late, expired>>
      BY <1>3 DEF RollupBegin
    <3>5. WindowInv'
      BY <3>2, <3>3, <3>4, WatermarkFacts DEF WindowInv
    <3>6. RolledExactlyOnce' /\ DropsFollowRollup'
      BY <3>4 DEF RollupInv, RolledExactlyOnce, DropsFollowRollup, Below, Written
    <3> QED
      BY <3>5, <3>6 DEF RollupInv
  <2>2. CASE ~ (Watermark < clock)
    <3>1. job'.pc = "retain"
      BY <1>3, <2>2 DEF RollupBegin, TypeOK, JobState
    <3> QED
      BY <1>3, <3>1, OthersRollupInv DEF RollupBegin
  <2> QED BY <2>1, <2>2
<1>4. CASE RollupCommit
  BY <1>4, CommitRollupInv
<1>5. CASE DeleteSpans
  BY <1>5, DeleteRollupInv
<1>6. CASE DeleteRollups
  BY <1>6, PurgeRollupInv
<1>7. CASE RollupFails \/ RetentionBegin \/ DeleteDeps \/ Interrupted
  <2>0. \/ job' = [job EXCEPT !.pc = "retain"]
        \/ job' = [job EXCEPT !.pc = "spans", !.now = clock]
        \/ job' = Idle
    BY <1>7 DEF RollupFails, RetentionBegin, DeleteDeps, Interrupted
  <2>1. job'.pc # "rollup"
    <3>1. job \in JobState
      BY DEF TypeOK
    <3>2. CASE job' = Idle
      BY <3>2 DEF Idle
    <3>3. CASE job' = [job EXCEPT !.pc = "retain"]
      BY <3>1, <3>3 DEF JobState
    <3>4. CASE job' = [job EXCEPT !.pc = "spans", !.now = clock]
      BY <3>1, <3>4 DEF JobState
    <3> QED BY <2>0, <3>2, <3>3, <3>4
  <2> QED
    BY <1>7, <2>1, OthersRollupInv
    DEF RollupFails, RetentionBegin, DeleteDeps, Interrupted
<1> QED
  BY <1>1, <1>2, <1>3, <1>4, <1>5, <1>6, <1>7 DEF Next, RunOnce

(* RollupInv is an invariant. *)
LEMMA SpecRollupInv == Spec => []RollupInv
<1>1. Init => RollupInv
  BY DEF Init, Idle, RollupInv, WindowInv, RolledExactlyOnce,
         DropsFollowRollup, Below
<1> QED
  BY <1>1, NextRollupInv, MaintenanceTypeCorrect, PTL DEF Spec

(* Maintainer.Rollup counts every entry span that was not late exactly     *)
(* once, whatever the lateness, the catch-up limit, the retentions and the *)
(* number of failed passes and restarts.                                   *)
THEOREM RollupsExact == Spec => []RolledExactlyOnce
<1>1. RollupInv => RolledExactlyOnce
  BY DEF RollupInv
<1> QED BY <1>1, SpecRollupInv, PTL

(* Maintainer.Retention deletes no span whose minute was not rolled up,    *)
(* with or without a stored watermark.                                     *)
THEOREM DropsAfterRollup == Spec => []DropsFollowRollup
<1>1. RollupInv => DropsFollowRollup
  BY DEF RollupInv
<1> QED BY <1>1, SpecRollupInv, PTL

(* The watermark that setMeta records never goes back, nor is it lost. *)
THEOREM WatermarkAdvances ==
  Spec => [][mark # NoMark => mark' # NoMark /\ mark <= mark']_vars
<1>1. TypeOK /\ RollupInv /\ [Next]_vars
        => [mark # NoMark => mark' # NoMark /\ mark <= mark']_vars
  <2> SUFFICES ASSUME TypeOK, RollupInv, Next, mark # NoMark
               PROVE  mark' # NoMark /\ mark <= mark'
    OBVIOUS
  <2>1. CASE RollupCommit
    <3>1. mark' = job.to /\ job.from < job.to /\ job.from = mark
          /\ job.to \in Minute /\ mark \in Minute
      BY <2>1 DEF RollupCommit, RollupInv, WindowInv, TypeOK, JobState
    <3> QED
      BY <3>1, MarkAssumption, TimesAssumption DEF Minute
  <2>2. CASE ~ RollupCommit
    <3>1. mark' = mark /\ mark \in Minute
      BY <2>2 DEF Next, RunOnce, Tick, WriteSpan, RollupBegin, RollupFails,
         RetentionBegin, DeleteSpans, DeleteRollups, DeleteDeps, Interrupted,
         TypeOK
    <3> QED
      BY <3>1, TimesAssumption DEF Minute
  <2> QED BY <2>1, <2>2
<1> QED
  BY <1>1, SpecRollupInv, MaintenanceTypeCorrect, PTL DEF Spec

-----------------------------------------------------------------------------
(* The cardinality guard and the collectors: types.                        *)

(* What a call of the guard has found out so far: only an exporter's call  *)
(* goes on to the operation, with a label that is a name or the overflow   *)
(* label, and only a name that is not empty is ever admitted.              *)
CallsTyped ==
  /\ call \in [Caller -> Call]
  /\ \A c \in Caller :
       /\ call[c].pc = "admit service" => call[c].service # NoName
       /\ call[c].pc \in {"operation", "admit operation"} =>
            c \in Exporter /\ call[c].label \in Service \cup {OverflowLabel}
       /\ call[c].pc = "admit operation" => call[c].operation # NoName
       /\ c \in Exporter => call[c].service # HostService

NamesTyped ==
  /\ services \subseteq Service \cup {HostService}
  /\ operations \subseteq (Service \cup {OverflowLabel}) \X Operation

HostTyped ==
  /\ now \in 0..MaxTime /\ started \in 0..MaxProcesses
  /\ running \in [Pid -> Process \cup {NoProcess}]
  /\ targets \in [Pid -> Process \cup {NoProcess}]
  /\ used \in [Pid -> Nat]

(* A round only handles pids of its own snapshot, so every metric it hands *)
(* over has a process to be named after.                                   *)
RoundTyped ==
  /\ round \in [on : BOOLEAN, targets : [Pid -> Process \cup {NoProcess}],
                at : Nat, todo : SUBSET Pid, metrics : SUBSET Pid]
  /\ \A p \in round.todo \cup round.metrics : round.targets[p] # NoProcess

PriorTyped == prior \in [Pid -> Sample]

SentTyped == sent \in [Exporter \cup {HostCollector} -> 0..MaxCalls]

MetricsTyped ==
  CallsTyped /\ NamesTyped /\ HostTyped /\ RoundTyped /\ PriorTyped /\ SentTyped

(* The idle call and the missing baseline are well typed. *)
LEMMA NoCallType == NoCall \in Call
BY DEF NoCall, Call

(* No sample is a sample. *)
LEMMA NoSampleType == NoSample \in Sample
BY DEF NoSample, Sample, NoProcess

(* The next sample of a pid, field by field, and its type. *)
LEMMA SampledFields ==
  ASSUME HostTyped, RoundTyped, PriorTyped, NEW p \in Pid
  PROVE  LET was == prior[p]
             new == Sampled(p)
             diff == used[p] - was.cpu
             elapsed == round.at - was.at
             same == was.known /\ was.of = running[p]
             reported == was.known /\ Reported(elapsed, diff)
         IN  /\ new \in Sample
             /\ new.known /\ new.cpu = used[p] /\ new.at = round.at
             /\ new.of = running[p]
             /\ same => /\ new.first = was.first /\ (new.mixed <=> was.mixed)
                        /\ new.charged = was.charged + (IF reported THEN diff ELSE 0)
                        /\ new.skipped = was.skipped + (IF elapsed = 0 THEN diff ELSE 0)
             /\ ~ same => /\ new.first = used[p] /\ (new.mixed <=> reported)
                          /\ new.charged = IF reported THEN diff ELSE 0
                          /\ new.skipped = 0
<1> DEFINE was == prior[p]
           diff == used[p] - was.cpu
           elapsed == round.at - was.at
           same == was.known /\ was.of = running[p]
           reported == was.known /\ Reported(elapsed, diff)
           first == IF same THEN was.first ELSE used[p]
           charged == (IF same THEN was.charged ELSE 0) + (IF reported THEN diff ELSE 0)
           skipped == IF same THEN was.skipped + (IF elapsed = 0 THEN diff ELSE 0) ELSE 0
           mixed == IF same THEN was.mixed ELSE reported
<1>1. /\ used[p] \in Nat /\ round.at \in Nat /\ running[p] \in Nat
      /\ was \in Sample
  BY DEF HostTyped, RoundTyped, PriorTyped, Process, NoProcess
<1>2. /\ was.cpu \in Nat /\ was.at \in Nat /\ was.of \in Nat /\ was.first \in Nat
      /\ was.charged \in Int /\ was.skipped \in Int
      /\ was.known \in BOOLEAN /\ was.mixed \in BOOLEAN
  BY <1>1 DEF Sample
<1>3. diff \in Int /\ elapsed \in Int
  BY <1>1, <1>2
<1>4. same \in BOOLEAN /\ reported \in BOOLEAN
  BY <1>2, Zenon DEF Reported
<1>5. mixed \in BOOLEAN
  BY <1>2, <1>4, Zenon
<1>6. Sampled(p) = [known |-> TRUE, cpu |-> used[p], at |-> round.at, of |-> running[p],
                    first |-> first, charged |-> charged, skipped |-> skipped,
                    mixed |-> mixed]
  BY Zenon DEF Sampled
<1> HIDE DEF diff, elapsed, reported, same
<1>7. first \in Nat /\ charged \in Int /\ skipped \in Int
  BY <1>1, <1>2, <1>3
<1>8. same => /\ first = was.first /\ (mixed <=> was.mixed)
              /\ charged = was.charged + (IF reported THEN diff ELSE 0)
              /\ skipped = was.skipped + (IF elapsed = 0 THEN diff ELSE 0)
  OBVIOUS
<1>9. ~ same => /\ first = used[p] /\ (mixed <=> reported)
                /\ charged = (IF reported THEN diff ELSE 0)
                /\ skipped = 0
  BY <1>3
<1> HIDE DEF was, first, charged, skipped, mixed
<1>10. Sampled(p) \in Sample
  BY <1>1, <1>5, <1>6, <1>7 DEF Sample
<1>11. /\ Sampled(p).known = TRUE /\ Sampled(p).cpu = used[p]
       /\ Sampled(p).at = round.at
       /\ Sampled(p).of = running[p] /\ Sampled(p).first = first
       /\ Sampled(p).charged = charged /\ Sampled(p).skipped = skipped
       /\ Sampled(p).mixed = mixed
  BY <1>6
<1> QED
  BY <1>8, <1>9, <1>10, <1>11 DEF was, diff, elapsed, same, reported

(* A call that ends is idle again. *)
LEMMA CallEnds ==
  ASSUME CallsTyped, NEW c \in Caller, call' = [call EXCEPT ![c] = NoCall]
  PROVE  CallsTyped'
<1>1. call' \in [Caller -> Call]
  BY NoCallType DEF CallsTyped
<1>2. /\ call'[c] = NoCall
      /\ \A d \in Caller \ {c} : call'[d] = call[d]
  BY DEF CallsTyped
<1>3. NoName # HostService
  BY NameAssumption
<1> QED
  BY <1>1, <1>2, <1>3 DEF CallsTyped, NoCall

(* A call that starts is about to look up its service. *)
LEMMA CallStarts ==
  ASSUME CallsTyped, NEW c \in Caller, NEW e \in Call, e.pc = "service",
         c \in Exporter => e.service # HostService,
         call' = [call EXCEPT ![c] = e]
  PROVE  CallsTyped'
<1>1. call' \in [Caller -> Call]
  BY DEF CallsTyped
<1>2. /\ call'[c] = e
      /\ \A d \in Caller \ {c} : call'[d] = call[d]
  BY DEF CallsTyped
<1> QED
  BY <1>1, <1>2 DEF CallsTyped

(* A call whose service has its label goes on to the operation or ends. *)
LEMMA ServiceDoneTyped ==
  ASSUME CallsTyped, NEW c \in Caller,
         NEW label \in Service \cup {HostService, OverflowLabel},
         c \in Exporter => label # HostService, ServiceDone(c, label)
  PROVE  CallsTyped'
<1>1. CASE c \notin Exporter
  BY <1>1, CallEnds DEF ServiceDone
<1>2. CASE c \in Exporter
  <2> DEFINE e == [call[c] EXCEPT !.pc = "operation", !.label = label]
  <2>1. call' = [call EXCEPT ![c] = e]
    BY <1>2 DEF ServiceDone
  <2>2. /\ e \in Call /\ e.pc = "operation" /\ e.label = label
        /\ e.service = call[c].service
    BY DEF CallsTyped, Call
  <2>3. /\ call' \in [Caller -> Call] /\ call'[c] = e
        /\ \A d \in Caller \ {c} : call'[d] = call[d]
    BY <2>1, <2>2 DEF CallsTyped
  <2> HIDE DEF e
  <2> QED
    BY <1>2, <2>2, <2>3 DEF CallsTyped
<1> QED BY <1>1, <1>2

(* A look-up that finds room leads to the write lock. *)
LEMMA CallAdmits ==
  ASSUME CallsTyped, NEW c \in Caller, NEW pc,
         \/ /\ pc = "admit service" /\ call[c].service # NoName
         \/ /\ pc = "admit operation" /\ call[c].pc = "operation"
            /\ call[c].operation # NoName,
         call' = [call EXCEPT ![c].pc = pc]
  PROVE  CallsTyped'
<1> DEFINE e == [call[c] EXCEPT !.pc = pc]
<1>1. call' = [call EXCEPT ![c] = e]
  BY DEF CallsTyped
<1>2. /\ e \in Call /\ e.pc = pc /\ e.label = call[c].label
      /\ e.service = call[c].service /\ e.operation = call[c].operation
  BY DEF CallsTyped, Call
<1>3. /\ call' \in [Caller -> Call] /\ call'[c] = e
      /\ \A d \in Caller \ {c} : call'[d] = call[d]
  BY <1>1, <1>2 DEF CallsTyped
<1> HIDE DEF e
<1> QED
  BY <1>2, <1>3 DEF CallsTyped

(* The guard admits names only, never the empty one. *)
LEMMA GuardTyped ==
  ASSUME CallsTyped, NamesTyped, NEW c \in Caller, Guard(c)
  PROVE  CallsTyped' /\ NamesTyped'
<1> DEFINE name == call[c].service
<1>0. /\ call[c] \in Call
      /\ name \in Service \cup {HostService, NoName}
      /\ c \in Exporter => name # HostService
      /\ OverflowLabel # HostService /\ NoName \notin Service
  BY NameAssumption DEF CallsTyped, Call
<1>1. CASE LookUpService(c)
  <2>1. NamesTyped'
    BY <1>1 DEF LookUpService, NamesTyped
  <2>2. CASE ServiceDone(c, OverflowLabel)
    BY <1>0, <2>1, <2>2, ServiceDoneTyped
  <2>3. CASE name \in services /\ ServiceDone(c, name)
    BY <1>0, <2>1, <2>3, ServiceDoneTyped DEF NamesTyped
  <2>4. CASE name # NoName /\ call' = [call EXCEPT ![c].pc = "admit service"]
    BY <2>1, <2>4, CallAdmits
  <2> QED
    BY <1>1, <2>2, <2>3, <2>4 DEF LookUpService
<1>2. CASE AdmitService(c)
  <2>1. name \in Service \cup {HostService}
    BY <1>0, <1>2 DEF AdmitService, CallsTyped
  <2>2. NamesTyped'
    BY <1>2, <2>1 DEF AdmitService, NamesTyped
  <2>3. ServiceDone(c, name) \/ ServiceDone(c, OverflowLabel)
    BY <1>2 DEF AdmitService
  <2> QED
    BY <1>0, <2>1, <2>2, <2>3, ServiceDoneTyped
<1>3. CASE LookUpOperation(c)
  <2>1. NamesTyped'
    BY <1>3 DEF LookUpOperation, NamesTyped
  <2>2. CASE call' = [call EXCEPT ![c] = NoCall]
    BY <2>1, <2>2, CallEnds
  <2>3. CASE /\ call[c].operation # NoName
             /\ call' = [call EXCEPT ![c].pc = "admit operation"]
    BY <1>3, <2>1, <2>3, CallAdmits DEF LookUpOperation
  <2> QED
    BY <1>3, <2>2, <2>3 DEF LookUpOperation, OperationDone
<1>4. CASE AdmitOperation(c)
  <2>1. call[c].operation \in Operation
        /\ call[c].label \in Service \cup {OverflowLabel}
    BY <1>0, <1>4 DEF AdmitOperation, CallsTyped, Call
  <2>2. NamesTyped'
    <3>1. <<call[c].label, call[c].operation>>
            \in (Service \cup {OverflowLabel}) \X Operation
      BY <2>1
    <3>2. UNCHANGED services /\
          (UNCHANGED operations \/ operations' =
             operations \cup {<<call[c].label, call[c].operation>>})
      BY <1>4 DEF AdmitOperation
    <3> QED
      BY <3>1, <3>2 DEF NamesTyped
  <2>3. call' = [call EXCEPT ![c] = NoCall]
    BY <1>4 DEF AdmitOperation, OperationDone
  <2> QED
    BY <2>2, <2>3, CallEnds
<1> QED
  BY <1>1, <1>2, <1>3, <1>4 DEF Guard

(* A round that is left keeps the pids of its snapshot. *)
LEMMA LeftTyped ==
  ASSUME NEW r \in [on : BOOLEAN, targets : [Pid -> Process \cup {NoProcess}],
                    at : Nat, todo : SUBSET Pid, metrics : SUBSET Pid],
         \A p \in r.todo \cup r.metrics : r.targets[p] # NoProcess,
         round' = Left(r)
  PROVE  RoundTyped'
<1>1. CASE round' = r
  BY <1>1 DEF RoundTyped
<1>2. CASE round' = NoRound
  BY <1>2 DEF RoundTyped, NoRound
<1> QED BY <1>1, <1>2 DEF Left

(* Every step keeps the types. *)
LEMMA MetricsNextTyped ==
  MetricsTyped /\ [MetricsNext]_metricsVars => MetricsTyped'
<1> SUFFICES ASSUME MetricsTyped, [MetricsNext]_metricsVars PROVE MetricsTyped'
  OBVIOUS
<1> USE DEF MetricsTyped, guardVars, hostVars, collectorVars
<1>1. ASSUME NEW c \in Exporter, NEW span \in Sends[c],
             Normalize(c, span[1], span[2])
      PROVE  MetricsTyped'
  <2> DEFINE e == [pc |-> "service", service |-> span[1], operation |-> span[2],
                   label |-> NoName]
  <2>1. span[1] \in Service \cup {NoName} /\ span[2] \in Operation \cup {NoName}
    BY NameAssumption
  <2>2. e \in Call /\ e.pc = "service" /\ e.service # HostService
    BY <2>1, NameAssumption DEF Call
  <2>3. c \in Caller /\ call' = [call EXCEPT ![c] = e]
    BY <1>1 DEF Normalize, Caller
  <2>4. CallsTyped'
    <3> HIDE DEF e
    <3> QED BY <2>2, <2>3, CallStarts
  <2>5. SentTyped'
    BY <1>1, BoundAssumption DEF Normalize, SentTyped
  <2> QED
    BY <1>1, <2>4, <2>5
    DEF Normalize, NamesTyped, HostTyped, RoundTyped, PriorTyped
<1>2. ASSUME NEW c \in Caller, Guard(c) PROVE MetricsTyped'
  <2>1. UNCHANGED <<sent, hostVars, targets, collectorVars>>
    BY <1>2 DEF Guard, LookUpService, AdmitService, LookUpOperation, AdmitOperation
  <2>2. CallsTyped' /\ NamesTyped'
    BY <1>2, GuardTyped
  <2> QED
    BY <2>1, <2>2 DEF HostTyped, RoundTyped, PriorTyped, SentTyped
<1>3. CASE SampleHost
  <2> DEFINE e == [NoCall EXCEPT !.pc = "service", !.service = HostService]
  <2>1. e \in Call /\ e.pc = "service"
    BY DEF NoCall, Call
  <2>2. HostCollector \in Caller \ Exporter
    BY NameAssumption DEF Caller
  <2>3. call' = [call EXCEPT ![HostCollector] = e]
    BY <1>3 DEF SampleHost
  <2>4. CallsTyped'
    <3> HIDE DEF e
    <3> QED BY <2>1, <2>2, <2>3, CallStarts
  <2>5. SentTyped'
    BY <1>3, BoundAssumption DEF SampleHost, SentTyped
  <2> QED
    BY <1>3, <2>4, <2>5
    DEF SampleHost, NamesTyped, HostTyped, RoundTyped, PriorTyped
<1>4. CASE TimePasses
  <2>1. now' \in 0..MaxTime
    BY <1>4, BoundAssumption DEF TimePasses, HostTyped
  <2>2. used' \in [Pid -> Nat]
    <3> PICK work \in [Pid -> 0..NumCPU] : used' =
           [p \in Pid |-> IF running[p] = NoProcess THEN 0 ELSE used[p] + work[p]]
      BY <1>4 DEF TimePasses
    <3>1. ASSUME NEW p \in Pid PROVE used[p] + work[p] \in Nat
      BY BoundAssumption DEF HostTyped
    <3> QED
      BY <3>1
  <2> QED
    BY <1>4, <2>1, <2>2
    DEF TimePasses, CallsTyped, NamesTyped, HostTyped, RoundTyped, PriorTyped, SentTyped
<1>5. CASE SetTargets
  BY <1>5
  DEF SetTargets, CallsTyped, NamesTyped, HostTyped, RoundTyped, PriorTyped, SentTyped
<1>6. CASE BeginRound
  <2>1. RoundTyped'
    BY <1>6, BoundAssumption DEF BeginRound, RoundTyped, HostTyped
  <2> QED
    BY <1>6, <2>1
    DEF BeginRound, CallsTyped, NamesTyped, HostTyped, PriorTyped, SentTyped
<1>7. CASE DropHistory
  <2>1. RoundTyped'
    <3> DEFINE r == [round EXCEPT !.on = FALSE]
    <3>1. /\ r \in [on : BOOLEAN, targets : [Pid -> Process \cup {NoProcess}],
                    at : Nat, todo : SUBSET Pid, metrics : SUBSET Pid]
          /\ r.todo = round.todo /\ r.metrics = round.metrics
          /\ r.targets = round.targets
      BY DEF RoundTyped
    <3>2. round' = Left(r)
      BY <1>7 DEF DropHistory
    <3>3. \A p \in r.todo \cup r.metrics : r.targets[p] # NoProcess
      BY <3>1 DEF RoundTyped
    <3> HIDE DEF r
    <3> QED BY <3>1, <3>2, <3>3, LeftTyped
  <2>2. PriorTyped'
    BY <1>7, NoSampleType DEF DropHistory, PriorTyped
  <2> QED
    BY <1>7, <2>1, <2>2
    DEF DropHistory, CallsTyped, NamesTyped, HostTyped, SentTyped
<1>8. ASSUME NEW p \in Pid, StartProcess(p) PROVE MetricsTyped'
  <2>1. HostTyped'
    BY <1>8, BoundAssumption DEF StartProcess, HostTyped, Process
  <2> QED
    BY <1>8, <2>1
    DEF StartProcess, CallsTyped, NamesTyped, RoundTyped, PriorTyped, SentTyped
<1>9. ASSUME NEW p \in Pid, ExitProcess(p) PROVE MetricsTyped'
  <2>1. HostTyped'
    BY <1>9 DEF ExitProcess, HostTyped
  <2> QED
    BY <1>9, <2>1
    DEF ExitProcess, CallsTyped, NamesTyped, RoundTyped, PriorTyped, SentTyped
<1>10. ASSUME NEW p \in Pid, SampleTarget(p) PROVE MetricsTyped'
  <2>1. PICK others \in SUBSET {p} :
          round' = [round EXCEPT !.todo = @ \ {p}, !.metrics = @ \cup others]
    BY <1>10 DEF SampleTarget
  <2>2. RoundTyped'
    BY <1>10, <2>1 DEF SampleTarget, RoundTyped
  <2>3. PriorTyped'
    <3>1. CASE UNCHANGED prior
      BY <3>1 DEF PriorTyped
    <3>2. CASE ~ UNCHANGED prior
      <4>1. prior' = [prior EXCEPT ![p] = Sampled(p)]
        BY <1>10, <3>2 DEF SampleTarget
      <4>2. Sampled(p) \in Sample
        BY SampledFields
      <4> QED
        BY <4>1, <4>2 DEF PriorTyped
    <3> QED BY <3>1, <3>2
  <2> QED
    BY <1>10, <2>2, <2>3
    DEF SampleTarget, CallsTyped, NamesTyped, HostTyped, SentTyped
<1>11. ASSUME NEW p \in Pid, ConsumeMetric(p) PROVE MetricsTyped'
  <2> DEFINE r == [round EXCEPT !.metrics = @ \ {p}]
             e == [NoCall EXCEPT !.pc = "service",
                                 !.service = NameOf[round.targets[p]]]
  <2>1. /\ r \in [on : BOOLEAN, targets : [Pid -> Process \cup {NoProcess}],
                  at : Nat, todo : SUBSET Pid, metrics : SUBSET Pid]
        /\ r.todo = round.todo /\ r.metrics \subseteq round.metrics
        /\ r.targets = round.targets
    BY DEF RoundTyped
  <2>2. round' = Left(r) /\ p \in round.metrics
    BY <1>11 DEF ConsumeMetric
  <2>3. \A q \in r.todo \cup r.metrics : r.targets[q] # NoProcess
    BY <2>1 DEF RoundTyped
  <2>4. RoundTyped'
    <3> HIDE DEF r
    <3> QED BY <2>1, <2>2, <2>3, LeftTyped
  <2>5. round.targets[p] \in Process
    BY <2>2 DEF RoundTyped
  <2>6. e \in Call /\ e.pc = "service"
    BY <2>5, NameAssumption DEF NoCall, Call
  <2>7. ProcCollector \in Caller \ Exporter
    BY NameAssumption DEF Caller
  <2>8. CallsTyped'
    <3>1. call' = [call EXCEPT ![ProcCollector] = e]
      BY <1>11 DEF ConsumeMetric
    <3> HIDE DEF e
    <3> QED BY <2>6, <2>7, <3>1, CallStarts
  <2> QED
    BY <1>11, <2>4, <2>8
    DEF ConsumeMetric, NamesTyped, HostTyped, PriorTyped, SentTyped
<1>12. CASE UNCHANGED metricsVars
  BY <1>12 DEF metricsVars, CallsTyped, NamesTyped, HostTyped, RoundTyped,
     PriorTyped, SentTyped
<1> QED
  BY <1>1, <1>2, <1>3, <1>4, <1>5, <1>6, <1>7, <1>8, <1>9, <1>10, <1>11, <1>12
  DEF MetricsNext

(* The types hold at first. *)
LEMMA MetricsInitTyped == MetricsInit => MetricsTyped
<1> SUFFICES ASSUME MetricsInit PROVE MetricsTyped
  OBVIOUS
<1>1. CallsTyped
  BY NoCallType, NameAssumption DEF MetricsInit, CallsTyped, NoCall
<1>2. NamesTyped /\ SentTyped
  BY BoundAssumption DEF MetricsInit, NamesTyped, SentTyped
<1>3. HostTyped
  BY BoundAssumption DEF MetricsInit, HostTyped
<1>4. RoundTyped
  BY DEF MetricsInit, RoundTyped, NoRound
<1>5. PriorTyped
  BY NoSampleType DEF MetricsInit, PriorTyped
<1> QED
  BY <1>1, <1>2, <1>3, <1>4, <1>5 DEF MetricsTyped

(* MetricsTyped is an invariant. *)
LEMMA MetricsSpecTyped == MetricsSpec => []MetricsTyped
BY MetricsInitTyped, MetricsNextTyped, PTL DEF MetricsSpec

(* The guard's and the collectors' state is well typed in every reachable  *)
(* state: no empty name is admitted, only an exporter's calls reach the    *)
(* operations, and a metric always has a process to be named after.        *)
THEOREM MetricsTypeCorrect == MetricsSpec => []MetricsTypeOK
<1>1. MetricsTyped => MetricsTypeOK
  BY DEF MetricsTyped, MetricsTypeOK, CallsTyped, NamesTyped, HostTyped,
         PriorTyped, SentTyped
<1> QED BY <1>1, MetricsSpecTyped, PTL

-----------------------------------------------------------------------------
(* The guard's budgets, and one label per name.                            *)

(* What has been filed agrees with what has been admitted: a name under    *)
(* itself is in the set, and a name was only collapsed when it was not in  *)
(* the set and the set was full, from when on the set does not change.     *)
ServicesAgree ==
  /\ IsFiniteSet(services) /\ Cardinality(services) <= MaxServices
  /\ \A f \in filed :
       \/ f[2] = f[1] /\ f[1] \in services
       \/ /\ f[2] = OverflowLabel /\ f[1] \notin services
          /\ Cardinality(services) >= MaxServices

OperationsAgree ==
  /\ IsFiniteSet(operations) /\ Cardinality(operations) <= MaxOperations
  /\ \A f \in filedOps :
       \/ f[3] = f[2] /\ <<f[1], f[2]>> \in operations
       \/ /\ f[3] = OverflowLabel /\ <<f[1], f[2]>> \notin operations
          /\ Cardinality(operations) >= MaxOperations

(* Under the write lock a set grows only while there is room. *)
LEMMA AdmitsWithinBudget ==
  ASSUME NEW S, IsFiniteSet(S), NEW max \in Nat, Cardinality(S) <= max,
         NEW key, Admits(S, key, max)
  PROVE  /\ IsFiniteSet(S \cup {key}) /\ Cardinality(S \cup {key}) <= max
         /\ Cardinality(S) >= max => S \cup {key} = S
         /\ Cardinality(S) \in Nat /\ Cardinality(S \cup {key}) \in Nat
         /\ Cardinality(S \cup {key}) >= Cardinality(S)
<1>1. Cardinality(S) \in Nat
  BY FS_CardinalityType
<1>2. CASE key \in S
  <2>1. S \cup {key} = S
    BY <1>2
  <2> QED BY <1>1, <2>1
<1>3. CASE key \notin S
  <2>1. IsFiniteSet(S \cup {key}) /\ Cardinality(S \cup {key}) = Cardinality(S) + 1
    BY <1>3, FS_AddElement
  <2>2. Cardinality(S) < max
    BY <1>3 DEF Admits
  <2> QED BY <1>1, <2>1, <2>2
<1> QED BY <1>2, <1>3

(* A service goes to the queues under its own name or, with the set full,  *)
(* under the overflow label.                                               *)
LEMMA FilesService ==
  ASSUME ServicesAgree, NEW c, NEW label, UNCHANGED services,
         ServiceDone(c, label),
         \/ call[c].service = NoName
         \/ label = call[c].service /\ call[c].service \in services
         \/ /\ label = OverflowLabel /\ call[c].service \notin services
            /\ Cardinality(services) >= MaxServices
  PROVE  ServicesAgree'
<1>1. CASE call[c].service = NoName
  BY <1>1 DEF ServiceDone, ServicesAgree
<1>2. CASE call[c].service # NoName
  <2>1. filed' = filed \cup {<<call[c].service, label>>}
    BY <1>2 DEF ServiceDone
  <2> QED
    BY <1>2, <2>1 DEF ServicesAgree
<1> QED BY <1>1, <1>2

(* The same for an operation, keyed by the label of its service. *)
LEMMA FilesOperation ==
  ASSUME OperationsAgree, NEW c, NEW label, UNCHANGED operations,
         OperationDone(c, label),
         \/ call[c].operation = NoName
         \/ /\ label = call[c].operation
            /\ <<call[c].label, call[c].operation>> \in operations
         \/ /\ label = OverflowLabel
            /\ <<call[c].label, call[c].operation>> \notin operations
            /\ Cardinality(operations) >= MaxOperations
  PROVE  OperationsAgree'
<1>1. CASE call[c].operation = NoName
  BY <1>1 DEF OperationDone, OperationsAgree
<1>2. CASE call[c].operation # NoName
  <2>1. filedOps' = filedOps \cup {<<call[c].label, call[c].operation, label>>}
    BY <1>2 DEF OperationDone
  <2> QED
    BY <1>2, <2>1 DEF OperationsAgree
<1> QED BY <1>1, <1>2

(* Every step of the guard keeps the services agreeing. *)
LEMMA GuardServicesAgree ==
  ASSUME MetricsTyped, ServicesAgree, NEW c \in Caller, Guard(c)
  PROVE  ServicesAgree'
<1> DEFINE name == call[c].service
<1>0. /\ Cardinality(services) \in Nat
      /\ MaxServices \in Nat
  BY FS_CardinalityType, BudgetAssumption DEF ServicesAgree
<1>1. CASE LookUpService(c)
  <2>1. UNCHANGED services
    BY <1>1 DEF LookUpService
  <2>2. CASE name = NoName /\ ServiceDone(c, OverflowLabel)
    BY <2>1, <2>2, FilesService
  <2>3. CASE name \in services /\ ServiceDone(c, name)
    BY <2>1, <2>3, FilesService
  <2>4. CASE /\ name \notin services \cup {NoName}
             /\ Cardinality(services) >= MaxServices
             /\ ServiceDone(c, OverflowLabel)
    BY <2>1, <2>4, FilesService
  <2>5. CASE UNCHANGED filed
    BY <2>1, <2>5 DEF ServicesAgree
  <2> QED
    BY <1>1, <2>2, <2>3, <2>4, <2>5 DEF LookUpService
<1>2. CASE AdmitService(c)
  <2>1. name # NoName
    BY <1>2 DEF AdmitService, MetricsTyped, CallsTyped
  <2>2. CASE Admits(services, name, MaxServices)
    <3>1. services' = services \cup {name} /\ ServiceDone(c, name)
      BY <1>2, <2>2 DEF AdmitService
    <3>2. /\ IsFiniteSet(services') /\ Cardinality(services') <= MaxServices
          /\ Cardinality(services) >= MaxServices => services' = services
      BY <1>0, <2>2, <3>1, AdmitsWithinBudget DEF ServicesAgree
    <3>3. filed' = filed \cup {<<name, name>>}
      BY <2>1, <3>1 DEF ServiceDone
    <3>4. ASSUME NEW f \in filed'
          PROVE  \/ f[2] = f[1] /\ f[1] \in services'
                 \/ /\ f[2] = OverflowLabel /\ f[1] \notin services'
                    /\ Cardinality(services') >= MaxServices
      <4>1. CASE f = <<name, name>>
        BY <3>1, <4>1
      <4>2. CASE f \in filed /\ f[1] \in services
        BY <3>1, <4>2 DEF ServicesAgree
      <4>3. CASE f \in filed /\ f[1] \notin services
        <5>1. f[2] = OverflowLabel /\ Cardinality(services) >= MaxServices
          BY <4>3 DEF ServicesAgree
        <5>2. services' = services
          BY <3>2, <5>1
        <5> QED BY <4>3, <5>1, <5>2
      <4> QED BY <3>3, <4>1, <4>2, <4>3
    <3> QED
      BY <3>2, <3>4 DEF ServicesAgree
  <2>3. CASE ~ Admits(services, name, MaxServices)
    <3>1. UNCHANGED services /\ ServiceDone(c, OverflowLabel)
      BY <1>2, <2>3 DEF AdmitService
    <3>2. name \notin services /\ Cardinality(services) >= MaxServices
      BY <1>0, <2>3 DEF Admits
    <3> QED
      BY <3>1, <3>2, FilesService
  <2> QED BY <2>2, <2>3
<1>3. CASE LookUpOperation(c) \/ AdmitOperation(c)
  BY <1>3 DEF LookUpOperation, AdmitOperation, ServicesAgree
<1> QED
  BY <1>1, <1>2, <1>3 DEF Guard

(* Every step of the guard keeps the operations agreeing. *)
LEMMA GuardOperationsAgree ==
  ASSUME MetricsTyped, OperationsAgree, NEW c \in Caller, Guard(c)
  PROVE  OperationsAgree'
<1> DEFINE name == call[c].operation
           key == <<call[c].label, name>>
<1>0. /\ Cardinality(operations) \in Nat
      /\ MaxOperations \in Nat
  BY FS_CardinalityType, BudgetAssumption DEF OperationsAgree
<1>1. CASE LookUpOperation(c)
  <2>1. UNCHANGED operations
    BY <1>1 DEF LookUpOperation
  <2>2. CASE name = NoName /\ OperationDone(c, OverflowLabel)
    BY <2>1, <2>2, FilesOperation
  <2>3. CASE key \in operations /\ OperationDone(c, name)
    BY <2>1, <2>3, FilesOperation
  <2>4. CASE /\ key \notin operations
             /\ Cardinality(operations) >= MaxOperations
             /\ OperationDone(c, OverflowLabel)
    BY <2>1, <2>4, FilesOperation
  <2>5. CASE UNCHANGED filedOps
    BY <2>1, <2>5 DEF OperationsAgree
  <2> QED
    BY <1>1, <2>2, <2>3, <2>4, <2>5 DEF LookUpOperation
<1>2. CASE AdmitOperation(c)
  <2>1. name # NoName
    BY <1>2 DEF AdmitOperation, MetricsTyped, CallsTyped
  <2>2. CASE Admits(operations, key, MaxOperations)
    <3>1. operations' = operations \cup {key} /\ OperationDone(c, name)
      BY <1>2, <2>2 DEF AdmitOperation
    <3>2. /\ IsFiniteSet(operations') /\ Cardinality(operations') <= MaxOperations
          /\ Cardinality(operations) >= MaxOperations => operations' = operations
      BY <1>0, <2>2, <3>1, AdmitsWithinBudget DEF OperationsAgree
    <3>3. filedOps' = filedOps \cup {<<call[c].label, name, name>>}
      BY <2>1, <3>1 DEF OperationDone
    <3>4. ASSUME NEW f \in filedOps'
          PROVE  \/ f[3] = f[2] /\ <<f[1], f[2]>> \in operations'
                 \/ /\ f[3] = OverflowLabel /\ <<f[1], f[2]>> \notin operations'
                    /\ Cardinality(operations') >= MaxOperations
      <4>1. CASE f = <<call[c].label, name, name>>
        BY <3>1, <4>1
      <4>2. CASE f \in filedOps /\ <<f[1], f[2]>> \in operations
        BY <3>1, <4>2 DEF OperationsAgree
      <4>3. CASE f \in filedOps /\ <<f[1], f[2]>> \notin operations
        <5>1. f[3] = OverflowLabel /\ Cardinality(operations) >= MaxOperations
          BY <4>3 DEF OperationsAgree
        <5>2. operations' = operations
          BY <3>2, <5>1
        <5> QED BY <4>3, <5>1, <5>2
      <4> QED BY <3>3, <4>1, <4>2, <4>3
    <3> QED
      BY <3>2, <3>4 DEF OperationsAgree
  <2>3. CASE ~ Admits(operations, key, MaxOperations)
    <3>1. UNCHANGED operations /\ OperationDone(c, OverflowLabel)
      BY <1>2, <2>3 DEF AdmitOperation
    <3>2. key \notin operations /\ Cardinality(operations) >= MaxOperations
      BY <1>0, <2>3 DEF Admits
    <3> QED
      BY <3>1, <3>2, FilesOperation
  <2> QED BY <2>2, <2>3
<1>3. CASE LookUpService(c) \/ AdmitService(c)
  BY <1>3 DEF LookUpService, AdmitService, OperationsAgree
<1> QED
  BY <1>1, <1>2, <1>3 DEF Guard

GuardInv == ServicesAgree /\ OperationsAgree

(* Nobody but the guard touches the sets and what was filed. *)
LEMMA NextGuardInv ==
  MetricsTyped /\ GuardInv /\ [MetricsNext]_metricsVars => GuardInv'
<1> SUFFICES ASSUME MetricsTyped, GuardInv, [MetricsNext]_metricsVars
             PROVE  GuardInv'
  OBVIOUS
<1>1. ASSUME NEW c \in Caller, Guard(c) PROVE GuardInv'
  BY <1>1, GuardServicesAgree, GuardOperationsAgree DEF GuardInv
<1>2. CASE UNCHANGED <<services, operations, filed, filedOps>>
  BY <1>2 DEF GuardInv, ServicesAgree, OperationsAgree
<1> QED
  BY <1>1, <1>2 DEF MetricsNext, Normalize, SampleHost, TimePasses, SetTargets,
     BeginRound, DropHistory, StartProcess, ExitProcess, SampleTarget,
     ConsumeMetric, guardVars, metricsVars

(* GuardInv is an invariant. *)
LEMMA SpecGuardInv == MetricsSpec => []GuardInv
<1>1. MetricsInit => GuardInv
  BY FS_EmptySet, BudgetAssumption
  DEF MetricsInit, GuardInv, ServicesAgree, OperationsAgree
<1> QED
  BY <1>1, NextGuardInv, MetricsSpecTyped, PTL DEF MetricsSpec

(* The cardinality guard keeps both budgets for any number of callers,     *)
(* although each looks a name up under one lock and records it under       *)
(* another.                                                                *)
THEOREM BudgetsKept == MetricsSpec => []FiledNamesBounded
<1>1. GuardInv => FiledNamesBounded
  <2> SUFFICES ASSUME GuardInv PROVE FiledNamesBounded
    OBVIOUS
  <2> DEFINE names == {pair[2] : pair \in filed} \ {OverflowLabel}
             keys == {<<f[1], f[3]>> : f \in {g \in filedOps : g[3] # OverflowLabel}}
  <2>1. names \subseteq services
    BY DEF GuardInv, ServicesAgree
  <2>2. keys \subseteq operations
    BY DEF GuardInv, OperationsAgree
  <2>3. Cardinality(names) <= Cardinality(services)
    BY <2>1, FS_Subset DEF GuardInv, ServicesAgree
  <2>4. Cardinality(keys) <= Cardinality(operations)
    BY <2>2, FS_Subset DEF GuardInv, OperationsAgree
  <2>5. /\ Cardinality(services) \in Nat /\ Cardinality(names) \in Nat
        /\ Cardinality(operations) \in Nat /\ Cardinality(keys) \in Nat
    BY <2>1, <2>2, FS_Subset, FS_CardinalityType
    DEF GuardInv, ServicesAgree, OperationsAgree
  <2>6. Cardinality(names) <= MaxServices
    BY <2>3, <2>5, BudgetAssumption DEF GuardInv, ServicesAgree
  <2>7. Cardinality(keys) <= MaxOperations
    BY <2>4, <2>5, BudgetAssumption DEF GuardInv, OperationsAgree
  <2> QED
    BY <2>6, <2>7 DEF FiledNamesBounded
<1> QED BY <1>1, SpecGuardInv, PTL

(* The guard files a name under one label for good: none is filed under    *)
(* itself by one caller and collapsed by another.                          *)
THEOREM LabelsStable == MetricsSpec => []OneLabelPerName
<1>1. GuardInv => OneLabelPerName
  BY DEF GuardInv, ServicesAgree, OperationsAgree, OneLabelPerName
<1> QED BY <1>1, SpecGuardInv, PTL

-----------------------------------------------------------------------------
(* CPU figures.                                                            *)

(* A baseline is no later than the round that will use it, and what is     *)
(* still running under the pid has used at least what it had by then.      *)
BaselineInv ==
  /\ round.on => round.at <= now
  /\ \A p \in Pid :
       /\ running[p] <= started
       /\ prior[p].known =>
            /\ prior[p].of \in 1..started
            /\ prior[p].of = running[p] => prior[p].cpu <= used[p]
            /\ prior[p].at <= now
            /\ round.on => prior[p].at <= round.at

UsageInv == BaselineInv /\ UsageAddsUp

(* The figures of a baseline are numbers. *)
LEMMA SampleFields ==
  ASSUME MetricsTyped, NEW p \in Pid
  PROVE  /\ prior[p].cpu \in Nat /\ prior[p].at \in Nat /\ prior[p].of \in Nat
         /\ prior[p].first \in Nat /\ prior[p].charged \in Int
         /\ prior[p].skipped \in Int
         /\ used[p] \in Nat /\ running[p] \in Nat /\ started \in Nat
         /\ now \in Nat /\ round.at \in Nat
BY BoundAssumption
DEF MetricsTyped, PriorTyped, HostTyped, RoundTyped, Sample, Process, NoProcess

(* A sample keeps the sums right. *)
LEMMA SampleUsageInv ==
  ASSUME MetricsTyped, UsageInv, NEW q \in Pid, SampleTarget(q)
  PROVE  UsageInv'
<1>1. /\ UNCHANGED <<now, used, running, started>> /\ round.on
      /\ round'.on = round.on /\ round'.at = round.at
  BY DEF SampleTarget, hostVars, MetricsTyped, RoundTyped
<1>2. CASE UNCHANGED prior
  BY <1>1, <1>2 DEF UsageInv, BaselineInv, UsageAddsUp
<1>3. CASE ~ UNCHANGED prior
  <2> DEFINE was == prior[q]
             new == Sampled(q)
             diff == used[q] - was.cpu
             elapsed == round.at - was.at
             same == was.known /\ was.of = running[q]
             reported == was.known /\ Reported(elapsed, diff)
  <2>1. prior' = [prior EXCEPT ![q] = new] /\ running[q] # NoProcess
    BY <1>3 DEF SampleTarget
  <2>2. prior'[q] = new /\ \A p \in Pid \ {q} : prior'[p] = prior[p]
    BY <2>1 DEF MetricsTyped, PriorTyped
  <2>3. /\ new.known /\ new.cpu = used[q] /\ new.at = round.at
        /\ new.of = running[q]
        /\ same => /\ new.first = was.first /\ (new.mixed <=> was.mixed)
                   /\ new.charged = was.charged + (IF reported THEN diff ELSE 0)
                   /\ new.skipped = was.skipped + (IF elapsed = 0 THEN diff ELSE 0)
        /\ ~ same => /\ new.first = used[q] /\ (new.mixed <=> reported)
                     /\ new.charged = IF reported THEN diff ELSE 0
                     /\ new.skipped = 0
    BY SampledFields DEF MetricsTyped
  <2>4. /\ was.cpu \in Nat /\ was.at \in Nat /\ was.first \in Nat
        /\ was.charged \in Int /\ was.skipped \in Int
        /\ used[q] \in Nat /\ running[q] \in Nat /\ started \in Nat
        /\ now \in Nat /\ round.at \in Nat
    BY SampleFields
  <2>5. reported <=> was.known /\ elapsed > 0 /\ diff >= 0
    BY DEF Reported
  <2>6. BaselineInv'
    <3>1. /\ new.of \in 1..started /\ new.cpu <= used[q]
          /\ new.at <= now /\ new.at <= round.at
      BY <1>1, <2>1, <2>3, <2>4 DEF UsageInv, BaselineInv, NoProcess
    <3> HIDE DEF new
    <3> QED BY <1>1, <2>2, <3>1 DEF UsageInv, BaselineInv
  <2>7. /\ new.charged <= new.cpu - (IF new.mixed THEN 0 ELSE new.first)
        /\ new.charged + new.skipped >= new.cpu - new.first
    <3>1. CASE same
      <4>1. /\ diff >= 0 /\ elapsed >= 0
            /\ was.charged <= was.cpu - (IF was.mixed THEN 0 ELSE was.first)
            /\ was.charged + was.skipped >= was.cpu - was.first
        BY <1>1, <2>4, <3>1 DEF UsageInv, BaselineInv, UsageAddsUp
      <4>2. /\ new.charged = was.charged + (IF elapsed = 0 THEN 0 ELSE diff)
            /\ new.skipped = was.skipped + (IF elapsed = 0 THEN diff ELSE 0)
            /\ new.first = was.first /\ (new.mixed <=> was.mixed)
            /\ new.cpu = was.cpu + diff
        BY <2>3, <2>4, <2>5, <3>1, <4>1
      <4> HIDE DEF new
      <4>3. new.charged + new.skipped = was.charged + was.skipped + diff
        BY <2>4, <4>2
      <4> QED
        BY <2>4, <4>1, <4>2, <4>3
    <3>2. CASE ~ same
      <4> HIDE DEF new
      <4> QED BY <2>3, <2>4, <2>5, <3>2
    <3> QED BY <3>1, <3>2
  <2>8. UsageAddsUp'
    <3> HIDE DEF new
    <3> QED BY <2>2, <2>7 DEF UsageInv, UsageAddsUp
  <2> QED BY <2>6, <2>8 DEF UsageInv
<1> QED BY <1>2, <1>3

(* Every step keeps UsageInv. *)
LEMMA NextUsageInv ==
  MetricsTyped /\ UsageInv /\ [MetricsNext]_metricsVars => UsageInv'
<1> SUFFICES ASSUME MetricsTyped, UsageInv, [MetricsNext]_metricsVars
             PROVE  UsageInv'
  OBVIOUS
<1>1. CASE TimePasses
  <2>1. UNCHANGED <<prior, round, running, started>> /\ now' = now + 1
    BY <1>1 DEF TimePasses, collectorVars
  <2>2. PICK work \in [Pid -> 0..NumCPU] : used' =
           [p \in Pid |-> IF running[p] = NoProcess THEN 0 ELSE used[p] + work[p]]
    BY <1>1 DEF TimePasses
  <2>3. ASSUME NEW p \in Pid, prior[p].known, prior[p].of = running[p]
        PROVE  prior[p].cpu <= used'[p]
    <3>1. running[p] # NoProcess /\ prior[p].cpu <= used[p]
      BY <2>3 DEF UsageInv, BaselineInv, NoProcess
    <3>2. used'[p] = used[p] + work[p]
      BY <2>2, <3>1
    <3>3. work[p] \in Nat
      BY BoundAssumption
    <3> QED
      BY <3>1, <3>2, <3>3, SampleFields
  <2>4. ASSUME NEW p \in Pid, prior[p].known PROVE prior[p].at <= now'
    BY <2>1, <2>4, SampleFields DEF UsageInv, BaselineInv
  <2>5. round.on => round.at <= now'
    BY <2>1, BoundAssumption
    DEF UsageInv, BaselineInv, MetricsTyped, HostTyped, RoundTyped
  <2> QED
    BY <2>1, <2>3, <2>4, <2>5 DEF UsageInv, BaselineInv, UsageAddsUp
<1>2. ASSUME NEW q \in Pid, ExitProcess(q) PROVE UsageInv'
  <2>1. /\ UNCHANGED <<prior, round, now, started>>
        /\ running'[q] = NoProcess /\ used' = [used EXCEPT ![q] = 0]
        /\ \A p \in Pid \ {q} : running'[p] = running[p] /\ used'[p] = used[p]
    BY <1>2 DEF ExitProcess, collectorVars, MetricsTyped, HostTyped
  <2>2. prior[q].known => prior[q].of # running'[q]
    BY <2>1 DEF UsageInv, BaselineInv, NoProcess
  <2>3. running'[q] <= started
    BY <2>1, SampleFields DEF NoProcess
  <2> QED
    BY <2>1, <2>2, <2>3 DEF UsageInv, BaselineInv, UsageAddsUp
<1>3. ASSUME NEW q \in Pid, StartProcess(q) PROVE UsageInv'
  <2>1. /\ UNCHANGED <<prior, round, now, used>> /\ started' = started + 1
        /\ running'[q] = started + 1
        /\ \A p \in Pid \ {q} : running'[p] = running[p]
    BY <1>3 DEF StartProcess, collectorVars, MetricsTyped, HostTyped
  <2>2. ASSUME NEW p \in Pid
        PROVE  /\ running'[p] <= started'
               /\ prior[p].known => prior[p].of \in 1..started'
    BY <2>1, SampleFields DEF UsageInv, BaselineInv
  <2>3. prior[q].known => prior[q].of # running'[q]
    BY <2>1, SampleFields DEF UsageInv, BaselineInv
  <2> QED
    BY <2>1, <2>2, <2>3 DEF UsageInv, BaselineInv, UsageAddsUp
<1>4. ASSUME NEW q \in Pid, SampleTarget(q) PROVE UsageInv'
  BY <1>4, SampleUsageInv
<1>5. CASE BeginRound
  <2>1. /\ UNCHANGED <<prior, now, used, running, started>>
        /\ round'.on /\ round'.at = now
    BY <1>5 DEF BeginRound, hostVars
  <2> QED
    BY <2>1, BoundAssumption
    DEF UsageInv, BaselineInv, UsageAddsUp, MetricsTyped, HostTyped
<1>6. CASE DropHistory
  <2>1. UNCHANGED <<now, used, running, started>> /\ ~ round'.on
    BY <1>6 DEF DropHistory, Left, NoRound, hostVars, MetricsTyped, RoundTyped
  <2>2. \A p \in Pid : prior'[p].known => prior'[p] = prior[p]
    BY <1>6 DEF DropHistory, NoSample
  <2> QED
    BY <2>1, <2>2 DEF UsageInv, BaselineInv, UsageAddsUp
<1>7. ASSUME NEW q \in Pid, ConsumeMetric(q) PROVE UsageInv'
  <2>1. UNCHANGED <<now, used, running, started, prior>> /\ ~ round'.on
    BY <1>7 DEF ConsumeMetric, Left, NoRound, hostVars, MetricsTyped, RoundTyped
  <2> QED
    BY <2>1 DEF UsageInv, BaselineInv, UsageAddsUp
<1>8. CASE UNCHANGED <<now, used, running, started, prior, round>>
  BY <1>8 DEF UsageInv, BaselineInv, UsageAddsUp
<1> QED
  BY <1>1, <1>2, <1>3, <1>4, <1>5, <1>6, <1>7, <1>8
  DEF MetricsNext, Normalize, Guard, SampleHost,
     LookUpService, AdmitService, LookUpOperation, AdmitOperation, SetTargets,
     hostVars, collectorVars, metricsVars

(* The CPU figures of procmetrics add up to what each process has used,    *)
(* over failed samples, changes of the targets and reuse of the pid.       *)
THEOREM UsageAccounted == MetricsSpec => []UsageAddsUp
<1>1. MetricsInit => UsageInv
  BY DEF MetricsInit, NoSample, NoProcess, NoRound, UsageInv, BaselineInv, UsageAddsUp
<1>2. UsageInv => UsageAddsUp
  BY DEF UsageInv
<1> QED
  BY <1>1, <1>2, NextUsageInv, MetricsSpecTyped, PTL DEF MetricsSpec
=============================================================================
