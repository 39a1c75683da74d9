-------------------------- MODULE SupervisorProofs --------------------------
(***************************************************************************)
(* Proofs about Supervisor for every set of targets and every number of    *)
(* scans and crashes: no wake-up is lost, there is one child at most, and  *)
(* restarts never outnumber the changes of the target set.                 *)
(***************************************************************************)
EXTENDS Supervisor, TLAPS

(* The properties of the run hold together: each is preserved by every     *)
(* step, given the types.                                                  *)
Inv == TypeOK /\ NoLostWakeup /\ OneChild /\ RestartsFollowChanges

(* Nothing is running, pending or counted at the start. *)
LEMMA InitInv == Init => Inv
  <1> SUFFICES ASSUME Init PROVE Inv
    OBVIOUS
  <1>1. ~ changed /\ changed \in BOOLEAN /\ stopping \in BOOLEAN
    BY Zenon DEF Init
  <1>2. TypeOK
    BY <1>1, BoundsAssumption DEF Init, TypeOK, RunState
  <1>3. NoLostWakeup /\ OneChild /\ RestartsFollowChanges
    BY <1>1 DEF Init, NoLostWakeup, OneChild, RestartsFollowChanges
  <1> QED BY <1>2, <1>3 DEF Inv

(* SetTargets leaves a wake-up behind whenever it replaces the set. *)
LEMMA SetTargetsInv ==
  ASSUME Inv, NEW set \in SUBSET Target, SetTargets(set) PROVE Inv'
  BY BoundsAssumption
  DEF SetTargets, Inv, TypeOK, RunState, NoLostWakeup, OneChild,
      RestartsFollowChanges

(* Reading the set, waiting for one and beginning: no child is running.    *)
LEMMA ReadingInv ==
  ASSUME Inv, Begin \/ Snapshot \/ EmptyWakes \/ BackoffEnds \/ Returns
  PROVE  Inv'
  <1> USE BoundsAssumption
      DEF Inv, TypeOK, RunState, NoLostWakeup, OneChild, RestartsFollowChanges,
          Goto
  <1>1. CASE Begin
    BY <1>1 DEF Begin
  <1>2. CASE Snapshot
    BY <1>2 DEF Snapshot
  <1>3. CASE EmptyWakes
    <2>1. ~ changed' /\ changed' \in BOOLEAN
      BY <1>3, Zenon DEF EmptyWakes
    <2> QED BY <1>3, <2>1 DEF EmptyWakes
  <1>4. CASE BackoffEnds
    BY <1>4 DEF BackoffEnds
  <1>5. CASE Returns
    BY <1>5 DEF Returns
  <1> QED BY <1>1, <1>2, <1>3, <1>4, <1>5

(* Starting, watching and ending the child. *)
LEMMA ChildInv ==
  ASSUME Inv,
         \/ StartChild \/ StartFails \/ ChildExits
         \/ Wakes \/ StopsWaiting \/ SeesExit \/ Reap
  PROVE  Inv'
  <1> USE BoundsAssumption
      DEF Inv, TypeOK, RunState, NoLostWakeup, OneChild, RestartsFollowChanges,
          Goto
  <1>1. CASE StartChild
    BY <1>1 DEF StartChild
  <1>2. CASE StartFails
    BY <1>2 DEF StartFails
  <1>3. CASE ChildExits
    BY <1>3 DEF ChildExits
  <1>4. CASE Wakes
    <2>1. ~ changed' /\ changed' \in BOOLEAN
      BY <1>4, Zenon DEF Wakes
    <2> QED BY <1>4, <2>1 DEF Wakes
  <1>5. CASE StopsWaiting
    BY <1>5 DEF StopsWaiting
  <1>6. CASE SeesExit
    BY <1>6 DEF SeesExit
  <1>7. CASE Reap
    BY <1>7 DEF Reap
  <1> QED BY <1>1, <1>2, <1>3, <1>4, <1>5, <1>6, <1>7

(* Every step, and stuttering, preserves the invariant. *)
LEMMA NextInv == Inv /\ [Next]_vars => Inv'
  <1> SUFFICES ASSUME Inv, [Next]_vars PROVE Inv'
    OBVIOUS
  <1>1. ASSUME NEW set \in SUBSET Target, SetTargets(set) PROVE Inv'
    BY <1>1, SetTargetsInv
  <1>2. CASE Run
    BY <1>2, ReadingInv, ChildInv DEF Run
  <1>3. CASE ChildExits
    BY <1>3, ChildInv
  <1>4. CASE Cancel
    BY <1>4 DEF Cancel, Inv, TypeOK, RunState, NoLostWakeup, OneChild,
                RestartsFollowChanges
  <1>5. CASE UNCHANGED vars
    BY <1>5 DEF vars, Inv, TypeOK, RunState, NoLostWakeup, OneChild,
                RestartsFollowChanges
  <1> QED BY <1>1, <1>2, <1>3, <1>4, <1>5 DEF Next

(* The invariant holds of every reachable state. *)
THEOREM Invariance == Spec => []Inv
  BY InitInv, NextInv, PTL DEF Spec

(* Run never waits with an outdated target set and no wake-up pending,     *)
(* however SetTargets interleaves with its snapshot, start and backoff.    *)
THEOREM WakeupsArrive == Spec => []NoLostWakeup
  <1>1. Inv => NoLostWakeup
    BY DEF Inv
  <1> QED BY Invariance, <1>1, PTL

(* Two OBI processes are never alive at once, and Run leaves none behind. *)
THEOREM SingleChild == Spec => []OneChild
  <1>1. Inv => OneChild
    BY DEF Inv
  <1> QED BY Invariance, <1>1, PTL

(* A changed target set costs one restart of OBI at most. *)
THEOREM RestartsBounded == Spec => []RestartsFollowChanges
  <1>1. Inv => RestartsFollowChanges
    BY DEF Inv
  <1> QED BY Invariance, <1>1, PTL
=============================================================================
