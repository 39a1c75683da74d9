----------------------------- MODULE Supervisor -----------------------------
(***************************************************************************)
(* internal/ebpf/supervisor.go: one goroutine, Run, keeps a child process  *)
(* (OBI) running for the current set of targets, while the discovery loop  *)
(* replaces that set with SetTargets.  The two share the set, under a      *)
(* mutex, and a channel that holds one wake-up.                            *)
(***************************************************************************)
EXTENDS Naturals

CONSTANTS
  Target,        \* the processes a scan may find
  MaxScans,      \* bound on the scans that find something else
  MaxCrashes     \* bound on the child's own exits and failures to start

ASSUME BoundsAssumption == MaxScans \in Nat /\ MaxCrashes \in Nat

VARIABLES
  targets,       \* Supervisor.targets
  changed,       \* a wake-up is in the channel
  run,           \* where Run stands, and the set it last read
  children,      \* how many OBI processes are alive
  stopping,      \* the context is cancelled
  crashes,       \* exits and failures of the child still to come
  scans,         \* history: SetTargets calls that replaced the set
  restarts       \* history: children stopped for a wake-up

vars == <<targets, changed, run, children, stopping, crashes, scans, restarts>>

(* "top" reads the set, "start" writes the configuration and starts the    *)
(* child, "wait" is the select over its exit, "reap" has cancelled it and  *)
(* waits for Wait, "off" found no eBPF on the host or no binary.           *)
RunState ==
  [pc : {"begin", "off", "top", "empty", "start", "wait", "reap",
         "backoff", "returned"},
   set : SUBSET Target]

Init ==
  /\ targets = {}
  /\ changed = FALSE
  /\ run = [pc |-> "begin", set |-> {}]
  /\ children = 0
  /\ stopping = FALSE
  /\ crashes = MaxCrashes
  /\ scans = 0
  /\ restarts = 0

Goto(pc) == run' = [run EXCEPT !.pc = pc]

(* Fault: an unchanged set wakes Run up as well. *)
SetTargetsAlways(set) ==
  /\ scans < MaxScans
  /\ targets' = set
  /\ changed' = TRUE
  /\ scans' = IF set = targets THEN scans ELSE scans + 1
  /\ UNCHANGED <<run, children, stopping, crashes, restarts>>

(* SetTargets: an unchanged set is a no-op; otherwise the wake-up joins    *)
(* one that may already be pending.                                        *)
SetTargets(set) ==
  /\ scans < MaxScans
  /\ set # targets
  /\ targets' = set
  /\ changed' = TRUE
  /\ scans' = scans + 1
  /\ UNCHANGED <<run, children, stopping, crashes, restarts>>

-----------------------------------------------------------------------------
(* Run.                                                                    *)

(* Detect and materialize. *)
Begin ==
  /\ run.pc = "begin"
  /\ Goto("off") \/ Goto("top")
  /\ UNCHANGED <<targets, changed, children, stopping, crashes, scans, restarts>>

Snapshot ==
  /\ run.pc = "top"
  /\ run' = [pc |-> IF targets = {} THEN "empty" ELSE "start", set |-> targets]
  /\ UNCHANGED <<targets, changed, children, stopping, crashes, scans, restarts>>

(* Nothing to instrument: wait for a set. *)
EmptyWakes ==
  /\ run.pc = "empty"
  /\ changed
  /\ changed' = FALSE
  /\ Goto("top")
  /\ UNCHANGED <<targets, children, stopping, crashes, scans, restarts>>

(* Fault: pending wake-ups are discarded when the child starts. *)
StartChildDrains ==
  /\ run.pc = "start"
  /\ ~ stopping
  /\ children' = children + 1
  /\ changed' = FALSE
  /\ Goto("wait")
  /\ UNCHANGED <<targets, stopping, crashes, scans, restarts>>

(* cmd.Start, which refuses a context that is already cancelled. *)
StartChild ==
  /\ run.pc = "start"
  /\ ~ stopping
  /\ children' = children + 1
  /\ Goto("wait")
  /\ UNCHANGED <<targets, changed, stopping, crashes, scans, restarts>>

(* The configuration cannot be written or the child cannot be started. *)
StartFails ==
  /\ run.pc = "start"
  /\ \/ stopping /\ UNCHANGED crashes
     \/ crashes > 0 /\ crashes' = crashes - 1
  /\ Goto("backoff")
  /\ UNCHANGED <<targets, changed, children, stopping, scans, restarts>>

(* The child exits by itself, or is killed through the cancelled context. *)
ChildExits ==
  /\ run.pc = "wait"
  /\ children > 0
  /\ \/ stopping /\ UNCHANGED crashes
     \/ crashes > 0 /\ crashes' = crashes - 1
  /\ children' = children - 1
  /\ UNCHANGED <<targets, changed, run, stopping, scans, restarts>>

(* Fault: the loop goes on without waiting for the child's exit. *)
WakesNoWait ==
  /\ run.pc = "wait"
  /\ changed
  /\ changed' = FALSE
  /\ restarts' = restarts + 1
  /\ Goto("top")
  /\ UNCHANGED <<targets, children, stopping, crashes, scans>>

(* The select: a wake-up, the end of the context, or the child's exit. *)
Wakes ==
  /\ run.pc = "wait"
  /\ changed
  /\ changed' = FALSE
  /\ restarts' = restarts + 1
  /\ Goto("reap")
  /\ UNCHANGED <<targets, children, stopping, crashes, scans>>

StopsWaiting ==
  /\ run.pc = "wait"
  /\ stopping
  /\ Goto("reap")
  /\ UNCHANGED <<targets, changed, children, stopping, crashes, scans, restarts>>

(* The exit arrives: a failure to back off from, unless it came with the   *)
(* end of the context.                                                     *)
SeesExit ==
  /\ run.pc = "wait"
  /\ children = 0
  /\ Goto(IF stopping THEN "returned" ELSE "backoff")
  /\ UNCHANGED <<targets, changed, children, stopping, crashes, scans, restarts>>

(* stop() killed the child and <-exited returned. *)
Reap ==
  /\ run.pc = "reap"
  /\ children' = 0
  /\ Goto(IF stopping THEN "returned" ELSE "top")
  /\ UNCHANGED <<targets, changed, stopping, crashes, scans, restarts>>

(* sleepOrDone, when the timer ends it. *)
BackoffEnds ==
  /\ run.pc = "backoff"
  /\ Goto("top")
  /\ UNCHANGED <<targets, changed, children, stopping, crashes, scans, restarts>>

(* Fault: the backoff is a plain sleep. *)
ReturnsNotFromSleep ==
  /\ run.pc \in {"off", "empty"}
  /\ stopping
  /\ Goto("returned")
  /\ UNCHANGED <<targets, changed, children, stopping, crashes, scans, restarts>>

(* The other waits end with the context. *)
Returns ==
  /\ run.pc \in {"off", "empty", "backoff"}
  /\ stopping
  /\ Goto("returned")
  /\ UNCHANGED <<targets, changed, children, stopping, crashes, scans, restarts>>

Cancel ==
  /\ ~ stopping
  /\ stopping' = TRUE
  /\ UNCHANGED <<targets, changed, run, children, crashes, scans, restarts>>

Run ==
  \/ Begin \/ Snapshot \/ EmptyWakes \/ StartChild \/ StartFails
  \/ Wakes \/ StopsWaiting \/ SeesExit \/ Reap \/ BackoffEnds \/ Returns

Next ==
  \/ \E set \in SUBSET Target : SetTargets(set)
  \/ Run
  \/ ChildExits
  \/ Cancel

Spec == Init /\ [][Next]_vars

(* Run is scheduled, its backoff ends and a killed child exits; a select   *)
(* picks among its ready cases at random, so a cancelled context is        *)
(* noticed.  Nothing is assumed of the child's own exits.                  *)
FairSpec == Spec /\ WF_vars(Run) /\ SF_vars(Returns)

-----------------------------------------------------------------------------
(* Properties.                                                             *)

TypeOK ==
  /\ targets \subseteq Target
  /\ changed \in BOOLEAN
  /\ run \in RunState
  /\ children \in Nat
  /\ stopping \in BOOLEAN
  /\ crashes \in 0 .. MaxCrashes
  /\ scans \in 0 .. MaxScans
  /\ restarts \in Nat

(* No wake-up is lost: whenever Run waits with a set that is no longer the *)
(* current one, or is about to, a wake-up is pending for it.               *)
NoLostWakeup ==
  run.pc \in {"empty", "start", "wait"} /\ run.set # targets => changed

(* At most one OBI process is alive, through crashes, restarts and the     *)
(* backoff, and none when Run has returned.                                *)
OneChild ==
  /\ children <= 1
  /\ run.pc # "wait" /\ run.pc # "reap" => children = 0

(* Every restart drops telemetry, so there is at most one per real change  *)
(* of the set: a wake-up that Run has already acted on costs one restart   *)
(* and no second.                                                          *)
RestartsFollowChanges == restarts <= scans /\ (changed => restarts < scans)

Serving(set) == IF set = {} THEN run.pc = "empty" ELSE
                  run.pc = "wait" /\ run.set = set /\ children = 1

(* The set that discovery settles on is what OBI ends up instrumenting,    *)
(* through failed starts and crashes, unless the host cannot run it.       *)
AppliesLatest ==
  \A set \in SUBSET Target :
    targets = set ~> targets # set \/ stopping \/ run.pc = "off" \/ Serving(set)

(* A cancelled context ends Run wherever it stands. *)
SupervisorStops == stopping ~> run.pc = "returned"
=============================================================================
