------------------------------- MODULE Ingest -------------------------------
(***************************************************************************)
(* The credentials of ingest: internal/ingesttoken, the receiver's         *)
(* authenticator, and the parts of internal/injector, cmd/apm2go and the   *)
(* bootstrap agent that carry a token from the registry to an exporter.    *)
(*                                                                         *)
(* Every injection mints a token, which must be on disk before it is       *)
(* handed to a JVM: the exporter of a running JVM keeps its token for      *)
(* life, while apm2go may be killed and started again at any point, also   *)
(* in the middle of a save.  The attach command of the CLI injects with a  *)
(* token of its own, which no daemon knows.                                *)
(***************************************************************************)
EXTENDS Naturals, Sequences

CONSTANTS
  Process,        \* JVMs, all running
  Service,
  ServiceOf,      \* [Process -> Service]
  RequireToken,   \* receiver.require_token
  Inline,         \* the JVMs whose configuration fits into the attach argument
  MaxTokens,      \* bound on tokens minted, over all runs of the daemon
  MaxStarts,      \* bound on starts of the daemon
  OneShot,        \* the token of the attach command
  NoToken, NoProcess

Token == 1..MaxTokens
Credential == Token \cup {OneShot, NoToken}

ASSUME ServiceAssumption == ServiceOf \in [Process -> Service]
ASSUME OptionAssumption == RequireToken \in BOOLEAN /\ Inline \subseteq Process
ASSUME BoundAssumption == MaxTokens \in Nat /\ MaxStarts \in Nat
ASSUME TokenAssumption ==
  /\ OneShot \notin Token /\ NoToken \notin Token /\ OneShot # NoToken
  /\ NoProcess \notin Process

VARIABLES
  daemon,     \* "down", "up", or "refused": it could not read its tokens
  starts,
  mintedFor,  \* Seq(Service): the services tokens 1, 2, ... were minted for
  valid,      \* Registry.valid: the tokens in memory
  mu,         \* the process whose Issue holds the registry's lock
  disk,       \* [FileName -> File]
  inject,     \* [Process -> InjectPC]: the daemon's injection
  token,      \* [Process -> Credential]: the token that injection minted
  outcome,    \* [Process -> Outcome]: what the inventory shows; "warned" is
              \* attached, with the warning that its telemetry is refused
  command,    \* [Process -> CommandPC]: the attach command
  config,     \* [Process -> Credential]: agent-<pid>.properties in the target
  property,   \* [Process -> Credential]: the target's system property; set
              \* together with the marker
  exporter,   \* [Process -> Credential]: what the running agent exports with
  answer      \* [Process -> {"none", "accepted", "refused"}]: last export

registryVars == <<mintedFor, valid, mu, disk>>
targetVars   == <<config, property, exporter>>
vars == <<daemon, starts, registryVars, inject, token, outcome, command,
          targetVars, answer>>

InjectPC  == {"idle", "probe", "stage", "opened", "written", "configure",
              "bootstrap", "otel"}
CommandPC == {"idle", "bootstrap", "otel", "done"}

Outcome   == {"none", "attached", "warned", "failed"}

FileName  == {"store", "temp"}
File      == [state : {"absent", "torn", "whole"}, tokens : SUBSET Token]
Absent    == [state |-> "absent", tokens |-> {}]
Torn      == [state |-> "torn", tokens |-> {}]
Whole(ts) == [state |-> "whole", tokens |-> ts]

-----------------------------------------------------------------------------
(* The registry and the receiver.                                          *)

(* Fault: the store is rewritten in place. *)
WrittenInPlace == "store"

(* saveLocked writes a temporary file and renames it. *)
WrittenFile == "temp"

(* NewPersistentRegistry: a missing store holds no tokens. *)
Loaded == disk["store"].tokens

(* NewPersistentRegistry: a store that cannot be parsed keeps the daemon   *)
(* from starting.  The inventory starts empty.                             *)
Start ==
  /\ daemon = "down" /\ starts < MaxStarts
  /\ starts' = starts + 1
  /\ daemon' = IF disk["store"].state = "torn" THEN "refused" ELSE "up"
  /\ valid' = Loaded
  /\ UNCHANGED <<mintedFor, mu, disk, inject, token, outcome, command,
                 targetVars, answer>>

(* The daemon is killed. *)
Crash ==
  /\ daemon = "up"
  /\ daemon' = "down"
  /\ valid' = {} /\ mu' = NoProcess
  /\ inject' = [p \in Process |-> "idle"]
  /\ token' = [p \in Process |-> NoToken]
  /\ outcome' = [p \in Process |-> "none"]
  /\ UNCHANGED <<starts, mintedFor, disk, command, targetVars, answer>>

(* Registry.Accepts *)
Accepts(c) == c \in valid

(* authenticator.permits *)
Permits(c) == ~ RequireToken \/ Accepts(c)

(* An exporter's request reaches a receiver that is up.  Accepts waits     *)
(* for a save in progress.                                                 *)
Export(p) ==
  /\ daemon = "up"
  /\ RequireToken => mu = NoProcess
  /\ exporter[p] # NoToken
  /\ answer' = [answer EXCEPT ![p] = IF Permits(exporter[p]) THEN "accepted" ELSE "refused"]
  /\ UNCHANGED <<daemon, starts, registryVars, inject, token, outcome, command, targetVars>>

-----------------------------------------------------------------------------
(* Inject, in the daemon.                                                  *)

Goto(p, label) == inject' = [inject EXCEPT ![p] = label]

Finish(p, result) ==
  /\ Goto(p, "idle")
  /\ outcome' = [outcome EXCEPT ![p] = result]
  /\ token' = [token EXCEPT ![p] = NoToken]

(* The reconcile loop takes up a process it does not know as attached. *)
Begin(p) ==
  /\ daemon = "up"
  /\ inject[p] = "idle" /\ outcome[p] \in {"none", "failed"}
  /\ Goto(p, "probe")
  /\ UNCHANGED <<daemon, starts, registryVars, token, outcome, command, targetVars, answer>>

HasTokenFor(s) == \E c \in valid : mintedFor[c] = s

(* A JVM that carries the marker is reported as attached and left alone,   *)
(* with a warning if no token of its service is known; an unanswered       *)
(* request counts as the marker being absent.                              *)
Probe(p) ==
  /\ inject[p] = "probe"
  /\ \/ /\ property[p] # NoToken
        /\ RequireToken => mu = NoProcess
        /\ Finish(p, IF RequireToken /\ ~ HasTokenFor(ServiceOf[p]) THEN "warned" ELSE "attached")
     \/ Goto(p, "stage") /\ UNCHANGED <<token, outcome>>
  /\ UNCHANGED <<daemon, starts, registryVars, command, targetVars, answer>>

(* Issue, up to the write: the token becomes valid in memory, and the lock *)
(* is held until the save is over.                                         *)
Issue(p) ==
  /\ inject[p] = "stage" /\ mu = NoProcess
  /\ Len(mintedFor) < MaxTokens
  /\ mintedFor' = Append(mintedFor, ServiceOf[p])
  /\ valid' = valid \cup {Len(mintedFor) + 1}
  /\ token' = [token EXCEPT ![p] = Len(mintedFor) + 1]
  /\ mu' = p
  /\ disk' = [disk EXCEPT ![WrittenFile] = Torn]
  /\ Goto(p, "opened")
  /\ UNCHANGED <<daemon, starts, outcome, command, targetVars, answer>>

Write(p) ==
  /\ inject[p] = "opened"
  /\ disk' = [disk EXCEPT ![WrittenFile] = Whole(valid)]
  /\ Goto(p, "written")
  /\ UNCHANGED <<daemon, starts, mintedFor, valid, mu, token, outcome, command, targetVars, answer>>

Rename(p) ==
  /\ inject[p] = "written"
  /\ disk' = [disk EXCEPT !["store"] = disk[WrittenFile], !["temp"] = Absent]
  /\ mu' = NoProcess
  /\ Goto(p, "configure")
  /\ UNCHANGED <<daemon, starts, mintedFor, valid, token, outcome, command, targetVars, answer>>

(* Fault: the token is returned although it was not saved. *)
SaveErrorDropped(p) ==
  /\ inject[p] \in {"opened", "written"}
  /\ disk' = [disk EXCEPT !["temp"] = Absent]
  /\ mu' = NoProcess
  /\ Goto(p, "configure")
  /\ UNCHANGED <<daemon, starts, mintedFor, valid, token, outcome, command, targetVars, answer>>

(* The disk is full, or a step of the save fails otherwise: the temporary  *)
(* file is removed and the injection fails, the token stays in memory.     *)
SaveFails(p) ==
  /\ inject[p] \in {"opened", "written"}
  /\ disk' = [disk EXCEPT !["temp"] = Absent]
  /\ mu' = NoProcess
  /\ Finish(p, "failed")
  /\ UNCHANGED <<daemon, starts, mintedFor, valid, command, targetVars, answer>>

(* The configuration, with the token in it, travels in the attach argument *)
(* or in a file of the target's.                                           *)
Configure(p) ==
  /\ inject[p] = "configure"
  /\ config' = IF p \in Inline THEN config ELSE [config EXCEPT ![p] = token[p]]
  /\ Goto(p, "bootstrap")
  /\ UNCHANGED <<daemon, starts, registryVars, token, outcome, command, property, exporter, answer>>

(* Staging the jars, writing the configuration or an attach fails. *)
InjectFails(p) ==
  /\ inject[p] \in {"stage", "configure", "bootstrap", "otel"}
  /\ Finish(p, "failed")
  /\ UNCHANGED <<daemon, starts, registryVars, command, targetVars, answer>>

(* BootstrapAgent.apply: the properties are set whatever was there before. *)
Apply(p, c) ==
  property' = [property EXCEPT ![p] = IF p \in Inline THEN c ELSE config[p]]

(* The agent reads its configuration once, when it is first loaded. *)
LoadAgent(p) ==
  exporter' = [exporter EXCEPT ![p] =
                 IF exporter[p] = NoToken THEN property[p] ELSE exporter[p]]

LoadBootstrap(p) ==
  /\ inject[p] = "bootstrap"
  /\ Apply(p, token[p])
  /\ \/ Goto(p, "otel") /\ UNCHANGED <<token, outcome>>
     \/ Finish(p, "failed")
  /\ UNCHANGED <<daemon, starts, registryVars, command, config, exporter, answer>>

LoadOtel(p) ==
  /\ inject[p] = "otel"
  /\ LoadAgent(p)
  /\ \E result \in {"attached", "failed"} : Finish(p, result)
  /\ UNCHANGED <<daemon, starts, registryVars, command, config, property, answer>>

-----------------------------------------------------------------------------
(* apm2go attach <pid>: one injection, with a registry of its own that is  *)
(* never saved.  It may stop at any step.                                  *)

CommandBegin(p) ==
  /\ command[p] = "idle"
  /\ \/ /\ property[p] # NoToken
        /\ command' = [command EXCEPT ![p] = "done"]
        /\ UNCHANGED config
     \/ /\ command' = [command EXCEPT ![p] = "bootstrap"]
        /\ config' = IF p \in Inline THEN config ELSE [config EXCEPT ![p] = OneShot]
  /\ UNCHANGED <<daemon, starts, registryVars, inject, token, outcome, property, exporter, answer>>

CommandBootstrap(p) ==
  /\ command[p] = "bootstrap"
  /\ Apply(p, OneShot)
  /\ command' = [command EXCEPT ![p] = "otel"]
  /\ UNCHANGED <<daemon, starts, registryVars, inject, token, outcome, config, exporter, answer>>

CommandOtel(p) ==
  /\ command[p] = "otel"
  /\ LoadAgent(p)
  /\ command' = [command EXCEPT ![p] = "done"]
  /\ UNCHANGED <<daemon, starts, registryVars, inject, token, outcome, config, property, answer>>

-----------------------------------------------------------------------------
Init ==
  /\ daemon = "down" /\ starts = 0
  /\ mintedFor = <<>> /\ valid = {} /\ mu = NoProcess
  /\ disk = [file \in FileName |-> Absent]
  /\ inject = [p \in Process |-> "idle"]
  /\ token = [p \in Process |-> NoToken]
  /\ outcome = [p \in Process |-> "none"]
  /\ command = [p \in Process |-> "idle"]
  /\ config = [p \in Process |-> NoToken]
  /\ property = [p \in Process |-> NoToken]
  /\ exporter = [p \in Process |-> NoToken]
  /\ answer = [p \in Process |-> "none"]

Inject(p) ==
  \/ Begin(p) \/ Probe(p) \/ Issue(p) \/ Write(p) \/ Rename(p) \/ SaveFails(p)
  \/ Configure(p) \/ InjectFails(p) \/ LoadBootstrap(p) \/ LoadOtel(p)

Command(p) == CommandBegin(p) \/ CommandBootstrap(p) \/ CommandOtel(p)

Next ==
  \/ Start \/ Crash
  \/ \E p \in Process : Inject(p) \/ Command(p) \/ Export(p)

Spec == Init /\ [][Next]_vars

-----------------------------------------------------------------------------
TypeOK ==
  /\ daemon \in {"down", "up", "refused"} /\ starts \in 0..MaxStarts
  /\ mintedFor \in Seq(Service) /\ Len(mintedFor) <= MaxTokens
  /\ valid \subseteq Token
  /\ mu \in Process \cup {NoProcess}
  /\ disk \in [FileName -> File]
  /\ inject \in [Process -> InjectPC]
  /\ token \in [Process -> Token \cup {NoToken}]
  /\ outcome \in [Process -> Outcome]
  /\ command \in [Process -> CommandPC]
  /\ config \in [Process -> Credential]
  /\ property \in [Process -> Credential]
  /\ exporter \in [Process -> Credential]
  /\ answer \in [Process -> {"none", "accepted", "refused"}]

(* No daemon refuses a JVM that a daemon instrumented: not the one that    *)
(* minted the token, and not one started after a kill at any point of the  *)
(* injection or of a save.                                                 *)
InstrumentedIsHeard ==
  \A p \in Process : answer[p] = "refused" => exporter[p] = OneShot

(* The token store is readable at every start. *)
StartsAgain == daemon # "refused"

(* What makes a restart harmless: a token some JVM may come to use is in   *)
(* the store already, whole.                                               *)
Saved(c) == c \in Token => c \in disk["store"].tokens
HandedOutIsSaved ==
  \A p \in Process :
    /\ Saved(config[p]) /\ Saved(property[p]) /\ Saved(exporter[p])
    /\ inject[p] \in {"configure", "bootstrap", "otel"} => Saved(token[p])

(* A JVM the inventory reports as attached exports with a token of the     *)
(* daemon's own, also after the attach command was used on it.             *)
AttachedWithOwnToken ==
  \A p \in Process : outcome[p] = "attached" => exporter[p] # OneShot
=============================================================================
