------------------------------ MODULE Injector ------------------------------
(***************************************************************************)
(* internal/injector: how one goroutine instruments one JVM, and what the  *)
(* target process looks like while that happens.                           *)
(*                                                                         *)
(* Inject asks the target for its system properties, and, when apm2go's    *)
(* marker is absent, performs two attaches in sequence: the bootstrap      *)
(* agent, which sets the configuration and, last, the marker; then the     *)
(* OpenTelemetry agent.  Each is a request to another process, addressed   *)
(* by pid, whose reply may be lost after it took effect.                   *)
(***************************************************************************)
EXTENDS Naturals, Sequences, FiniteSets

CONSTANTS
  Key,            \* JVM identities: pid and start time (JVM.Key)
  Pid,
  PidOf,          \* [Key -> Pid]
  Worker,         \* goroutines: spawned attaches and operator requests
  NoKey,
  MaxLoads        \* bound on agent loads per process: a live target leaves
                  \* the properties request unanswered only below it

ASSUME PidOfAssumption == PidOf \in [Key -> Pid]
ASSUME NoKeyAssumption == NoKey \notin Key
ASSUME LoadsAssumption == MaxLoads \in Nat \ {0}

VARIABLES
  proc,           \* [Key -> {"unborn", "young", "settled", "dead"}]
  marker,         \* processes carrying the apm2go.bootstrap.applied property
  agents,         \* [Key -> Seq(Load)]: the loads of the OpenTelemetry agent
                  \* into each process
  worker          \* [Worker -> WorkerState]

(* On whose behalf the agent was loaded, and whether the goroutine that    *)
(* loaded it had no answer to its properties request.                      *)
Load == [for : Key, blind : BOOLEAN]

targetVars == <<proc, marker, agents>>

(* What a scan can tell about a JVM that decides its fate: a plain target, *)
(* one the discovery filter excludes, one too old to attach to, or one     *)
(* already started with apm2go's own -javaagent flag.                      *)
Kind == {"plain", "excluded", "unsupported", "preloaded"}

(* JVM.Attachable *)
Attachable(kind) == kind \notin {"unsupported", "preloaded"}

(* Where a goroutine stands.  "keyed", "disable" and "enable" are operator *)
(* requests between their pid lookup and the lock that follows it;         *)
(* "spawned" is the entry of Manager.attach; "held" has stored its key in  *)
(* inflight; "probe", "bootstrap" and "otel" are the stages of Inject;     *)
(* "record" is about to take the lock and write the outcome; "release" is  *)
(* about to run the deferred inflight.Delete.  auto tells a goroutine the  *)
(* reconcile loop spawned from an operator's request; blind, one that      *)
(* injects without an answer from alreadyInstrumented.                     *)
WorkerPC == {"idle", "keyed", "disable", "enable", "spawned", "held",
             "probe", "bootstrap", "otel", "record", "release"}

WorkerState ==
  [pc : WorkerPC, key : Key \cup {NoKey}, kind : Kind,
   attempt : Nat, failed : BOOLEAN, auto : BOOLEAN, blind : BOOLEAN]

IdleWorker ==
  [pc |-> "idle", key |-> NoKey, kind |-> "plain",
   attempt |-> 0, failed |-> FALSE, auto |-> FALSE, blind |-> FALSE]

Alive(k) == proc[k] \in {"young", "settled"}

(* The process a request addressed to k's pid reaches: whoever has that    *)
(* pid now.  Nothing between the scan and the attach compares start times. *)
ReachedBy(k) == {p \in Key : Alive(p) /\ PidOf[p] = PidOf[k]}

Step(w, pc) == worker' = [worker EXCEPT ![w].pc = pc]

Finish(w, failed) ==
  worker' = [worker EXCEPT ![w].pc = "record", ![w].failed = failed]

-----------------------------------------------------------------------------
(* The processes of the host.                                              *)

InjectorInit ==
  /\ proc = [k \in Key |-> "unborn"]
  /\ marker = {}
  /\ agents = [k \in Key |-> <<>>]
  /\ worker = [w \in Worker |-> IdleWorker]

(* A JVM starts; its pid is free. *)
Born(k) ==
  /\ proc[k] = "unborn"
  /\ ReachedBy(k) = {}
  /\ proc' = [proc EXCEPT ![k] = "young"]
  /\ UNCHANGED <<marker, agents, worker>>

Dies(k) ==
  /\ Alive(k)
  /\ proc' = [proc EXCEPT ![k] = "dead"]
  /\ UNCHANGED <<marker, agents, worker>>

-----------------------------------------------------------------------------
(* Inject.                                                                 *)

(* The Attachable check at the top of Inject, on the description captured  *)
(* when the attach began.                                                  *)
RefuseTarget(w) ==
  /\ worker[w].pc = "probe"
  /\ ~ Attachable(worker[w].kind)
  /\ Finish(w, TRUE)
  /\ UNCHANGED targetVars

(* Fault: the answer is not looked at. *)
ProbeIgnoresMarker(w) ==
  /\ worker[w].pc = "probe"
  /\ Attachable(worker[w].kind)
  /\ ReachedBy(worker[w].key) # {}
  /\ Step(w, "bootstrap")
  /\ UNCHANGED targetVars

(* alreadyInstrumented answers: with the marker set nothing is injected    *)
(* and the result is a success.                                            *)
ProbeAnswered(w) ==
  /\ worker[w].pc = "probe"
  /\ Attachable(worker[w].kind)
  /\ \E p \in ReachedBy(worker[w].key) :
       IF p \in marker THEN Finish(w, FALSE) ELSE Step(w, "bootstrap")
  /\ UNCHANGED targetVars

(* alreadyInstrumented fails: the error is logged and the injection goes   *)
(* on as if the marker were absent.                                        *)
ProbeUnanswered(w) ==
  /\ worker[w].pc = "probe"
  /\ Attachable(worker[w].kind)
  /\ \A p \in ReachedBy(worker[w].key) : Len(agents[p]) < MaxLoads
  /\ worker' = [worker EXCEPT ![w].pc = "bootstrap", ![w].blind = TRUE]
  /\ UNCHANGED targetVars

(* Fault: a bootstrap attach that failed does not stop the second one. *)
BootstrapErrorIgnored(w) ==
  /\ worker[w].pc \in {"bootstrap", "otel"}
  /\ IF worker[w].pc = "bootstrap" THEN Step(w, "otel") ELSE Finish(w, TRUE)
  /\ UNCHANGED targetVars

(* Staging the jars, issuing a token, writing the configuration file, or   *)
(* the attach of the bootstrap or of the OpenTelemetry agent fails without *)
(* having any effect on the target.                                        *)
AttachFails(w) ==
  /\ worker[w].pc \in {"bootstrap", "otel"}
  /\ Finish(w, TRUE)
  /\ UNCHANGED targetVars

(* Step one: BootstrapAgent.apply runs in the target and ends by setting   *)
(* the marker.  The reply may still be lost, to the handshake's timeout or *)
(* a cancelled request.                                                    *)
LoadBootstrap(w) ==
  /\ worker[w].pc = "bootstrap"
  /\ \E p \in ReachedBy(worker[w].key) : marker' = marker \cup {p}
  /\ \/ Step(w, "otel")
     \/ Finish(w, TRUE)
  /\ UNCHANGED <<proc, agents>>

(* Step two: the OpenTelemetry agent starts in the target. *)
LoadOtel(w) ==
  /\ worker[w].pc = "otel"
  /\ \E p \in ReachedBy(worker[w].key) :
       agents' = [agents EXCEPT ![p] = Append(@,
         [for |-> worker[w].key, blind |-> worker[w].blind])]
  /\ \E lost \in BOOLEAN : Finish(w, lost)
  /\ UNCHANGED <<proc, marker>>

Inject(w) ==
  \/ RefuseTarget(w)
  \/ ProbeAnswered(w)
  \/ ProbeUnanswered(w)
  \/ AttachFails(w)
  \/ LoadBootstrap(w)
  \/ LoadOtel(w)

InjectorTypeOK ==
  /\ proc \in [Key -> {"unborn", "young", "settled", "dead"}]
  /\ marker \subseteq Key
  /\ agents \in [Key -> Seq(Load)]
  /\ worker \in [Worker -> WorkerState]
=============================================================================
