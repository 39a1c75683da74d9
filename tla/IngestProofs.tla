---------------------------- MODULE IngestProofs ----------------------------
(***************************************************************************)
(* Proofs about Ingest for any processes, services, tokens and kills of    *)
(* the daemon: the token store is readable at every start, a token is in   *)
(* the store before a JVM may use it, and so no daemon refuses what a      *)
(* daemon instrumented.                                                    *)
(***************************************************************************)
EXTENDS Ingest, TLAPS

Saving == {"opened", "written"}

(* Only a live daemon injects, and whoever is saving holds the lock. *)
LockInv ==
  /\ daemon # "up" => inject = [p \in Process |-> "idle"]
  /\ \A p \in Process : inject[p] \in Saving => mu = p

(* The store and the registry: the store was renamed into place whole, a   *)
(* running daemon knows all of it, and what is about to replace it is the  *)
(* whole registry.                                                         *)
StoreInv ==
  /\ disk["store"].state # "torn"
  /\ daemon = "up" => disk["store"].tokens \subseteq valid
  /\ \A p \in Process : inject[p] \in Saving => token[p] \in valid
  /\ \A p \in Process : inject[p] = "written" => disk["temp"] = Whole(valid)

IInv ==
  /\ TypeOK /\ LockInv /\ StoreInv
  /\ StartsAgain /\ HandedOutIsSaved /\ InstrumentedIsHeard

(* A daemon that was never started has handed nothing out. *)
LEMMA InitIInv == Init => IInv
  <1> SUFFICES ASSUME Init PROVE IInv
    OBVIOUS
  <1> USE DEF Init
  <1>1. TypeOK
    <2>1. mintedFor \in Seq(Service) /\ Len(mintedFor) <= MaxTokens
      BY BoundAssumption
    <2>2. Absent \in File
      BY DEF Absent, File
    <2> QED BY <2>1, <2>2, BoundAssumption
            DEF TypeOK, InjectPC, CommandPC, Outcome, Credential
  <1>2. LockInv
    BY DEF LockInv, Saving
  <1>3. StoreInv
    BY DEF StoreInv, Saving, Absent, FileName
  <1>4. StartsAgain /\ InstrumentedIsHeard
    BY DEF StartsAgain, InstrumentedIsHeard
  <1>5. HandedOutIsSaved
    BY TokenAssumption DEF HandedOutIsSaved, Saved
  <1> QED BY <1>1, <1>2, <1>3, <1>4, <1>5 DEF IInv

(* A start loads the whole store, so the daemon knows every token in it. *)
LEMMA StartIInv ==
  ASSUME IInv, Start PROVE IInv'
  <1> USE TokenAssumption, BoundAssumption
          DEF Start, Loaded, StoreInv, StartsAgain, IInv, registryVars, targetVars
  <1>1. TypeOK'
    BY DEF TypeOK, FileName, File
  <1>2. LockInv'
    BY DEF LockInv, Saving, TypeOK
  <1>3. StoreInv'
    BY DEF StoreInv, Saving, LockInv, TypeOK
  <1>4. StartsAgain'
    BY DEF StartsAgain
  <1>5. HandedOutIsSaved'
    BY DEF HandedOutIsSaved, Saved
  <1>6. InstrumentedIsHeard'
    BY DEF InstrumentedIsHeard
  <1> QED BY <1>1, <1>2, <1>3, <1>4, <1>5, <1>6

(* A kill loses the registry and every injection, and leaves the store as  *)
(* the last rename put it.                                                 *)
LEMMA CrashIInv ==
  ASSUME IInv, Crash PROVE IInv'
  <1> USE TokenAssumption, BoundAssumption
          DEF Crash, IInv, registryVars, targetVars
  <1>1. TypeOK'
    BY DEF TypeOK, InjectPC, Outcome
  <1>2. LockInv'
    BY DEF LockInv, Saving
  <1>3. StoreInv'
    BY DEF StoreInv, Saving
  <1>4. StartsAgain'
    BY DEF StartsAgain
  <1>5. HandedOutIsSaved'
    BY DEF HandedOutIsSaved, Saved
  <1>6. InstrumentedIsHeard'
    BY DEF InstrumentedIsHeard
  <1> QED BY <1>1, <1>2, <1>3, <1>4, <1>5, <1>6

(* An export is answered with the running daemon's registry, which holds   *)
(* the token because the store does.                                       *)
LEMMA ExportIInv ==
  ASSUME IInv, NEW p \in Process, Export(p) PROVE IInv'
  <1> USE TokenAssumption, BoundAssumption
          DEF Export, Permits, Accepts, IInv, registryVars, targetVars
  <1>1. TypeOK'
    BY DEF TypeOK
  <1>2. LockInv'
    BY DEF LockInv
  <1>3. StoreInv'
    BY DEF StoreInv
  <1>4. StartsAgain'
    BY DEF StartsAgain
  <1>5. HandedOutIsSaved'
    BY DEF HandedOutIsSaved, Saved
  <1>6. InstrumentedIsHeard'
    BY DEF InstrumentedIsHeard, TypeOK, Credential, HandedOutIsSaved, Saved, StoreInv
  <1> QED BY <1>1, <1>2, <1>3, <1>4, <1>5, <1>6

(* An injection that begins holds no token yet. *)
LEMMA BeginIInv ==
  ASSUME IInv, NEW p \in Process, Begin(p) PROVE IInv'
  <1> USE TokenAssumption, BoundAssumption
          DEF Begin, Goto, IInv, registryVars, targetVars
  <1>1. TypeOK'
    BY DEF TypeOK, InjectPC
  <1>2. LockInv'
    BY DEF LockInv, Saving
  <1>3. StoreInv'
    BY DEF StoreInv, Saving
  <1>4. StartsAgain'
    BY DEF StartsAgain
  <1>5. HandedOutIsSaved'
    BY DEF HandedOutIsSaved, Saved
  <1>6. InstrumentedIsHeard'
    BY DEF InstrumentedIsHeard
  <1> QED BY <1>1, <1>2, <1>3, <1>4, <1>5, <1>6

(* A probe ends the injection or lets it go on to ask for a token. *)
LEMMA ProbeIInv ==
  ASSUME IInv, NEW p \in Process, Probe(p) PROVE IInv'
  <1> USE TokenAssumption, BoundAssumption
          DEF Probe, Goto, Finish, IInv, registryVars, targetVars
  <1>1. TypeOK'
    BY DEF TypeOK, InjectPC, Outcome
  <1>2. LockInv'
    BY DEF LockInv, Saving, TypeOK
  <1>3. StoreInv'
    BY DEF StoreInv, Saving, TypeOK
  <1>4. StartsAgain'
    BY DEF StartsAgain
  <1>5. HandedOutIsSaved'
    BY DEF HandedOutIsSaved, Saved, TypeOK
  <1>6. InstrumentedIsHeard'
    BY DEF InstrumentedIsHeard
  <1> QED BY <1>1, <1>2, <1>3, <1>4, <1>5, <1>6

(* Issue mints under the lock and opens the temporary file only. *)
LEMMA IssueIInv ==
  ASSUME IInv, NEW p \in Process, Issue(p) PROVE IInv'
  <1> USE TokenAssumption, BoundAssumption
          DEF Issue, Goto, WrittenFile, IInv, registryVars, targetVars
  <1>1. TypeOK'
    <2>1. mintedFor' \in Seq(Service) /\ Len(mintedFor') = Len(mintedFor) + 1
      <3>1. mintedFor \in Seq(Service) /\ ServiceOf[p] \in Service
        BY ServiceAssumption DEF TypeOK
      <3>2. mintedFor' = Append(mintedFor, ServiceOf[p])
        OBVIOUS
      <3> HIDE DEF Issue, IInv
      <3> QED BY <3>1, <3>2
    <2>2. Len(mintedFor) + 1 \in Token
      BY DEF TypeOK, Token
    <2>3. disk' \in [FileName -> File]
      BY DEF TypeOK, FileName, File, Torn
    <2>4. Len(mintedFor') <= MaxTokens
      BY <2>1, <2>2 DEF Token
    <2>5. UNCHANGED <<daemon, starts, outcome, command, config, property, exporter, answer>>
      OBVIOUS
    <2>6. valid' \subseteq Token /\ mu' \in Process \cup {NoProcess}
      BY <2>2 DEF TypeOK
    <2>7. inject' \in [Process -> InjectPC] /\ token' \in [Process -> Token \cup {NoToken}]
      BY <2>2 DEF TypeOK, InjectPC
    <2> QED BY <2>1, <2>3, <2>4, <2>5, <2>6, <2>7 DEF TypeOK
  <1>2. LockInv'
    BY DEF LockInv
  <1>3. StoreInv'
    BY DEF StoreInv, Saving, TypeOK, LockInv
  <1>4. StartsAgain'
    BY DEF StartsAgain
  <1>5. HandedOutIsSaved'
    BY DEF HandedOutIsSaved, Saved
  <1>6. InstrumentedIsHeard'
    BY DEF InstrumentedIsHeard
  <1> QED BY <1>1, <1>2, <1>3, <1>4, <1>5, <1>6

(* The temporary file is written with the whole registry, under the lock. *)
LEMMA WriteIInv ==
  ASSUME IInv, NEW p \in Process, Write(p) PROVE IInv'
  <1> USE TokenAssumption, BoundAssumption
          DEF Write, Goto, WrittenFile, IInv, registryVars, targetVars
  <1>1. TypeOK'
    BY DEF TypeOK, InjectPC, File, Whole
  <1>2. LockInv'
    BY DEF LockInv, Saving
  <1>3. StoreInv'
    BY DEF StoreInv, Saving, FileName, TypeOK
  <1>4. StartsAgain'
    BY DEF StartsAgain
  <1>5. HandedOutIsSaved'
    BY DEF HandedOutIsSaved, Saved
  <1>6. InstrumentedIsHeard'
    BY DEF InstrumentedIsHeard
  <1> QED BY <1>1, <1>2, <1>3, <1>4, <1>5, <1>6

(* The rename puts the whole registry in the store's place, so the token   *)
(* is saved before the injection goes on.                                  *)
LEMMA RenameIInv ==
  ASSUME IInv, NEW p \in Process, Rename(p) PROVE IInv'
  <1> USE TokenAssumption, BoundAssumption
          DEF Rename, Goto, WrittenFile, IInv, registryVars, targetVars
  <1>1. TypeOK'
    BY DEF TypeOK, InjectPC, File, FileName, Absent
  <1>2. LockInv'
    BY DEF LockInv, Saving, TypeOK
  <1>3. StoreInv'
    BY DEF StoreInv, Saving, Whole, FileName, TypeOK, LockInv
  <1>4. StartsAgain'
    BY DEF StartsAgain
  <1>5. HandedOutIsSaved'
    BY DEF HandedOutIsSaved, Saved, FileName, TypeOK, StoreInv, Saving, Whole, LockInv
  <1>6. InstrumentedIsHeard'
    BY DEF InstrumentedIsHeard
  <1> QED BY <1>1, <1>2, <1>3, <1>4, <1>5, <1>6

(* A save that fails ends the injection: its token reaches no JVM. *)
LEMMA SaveFailsIInv ==
  ASSUME IInv, NEW p \in Process, SaveFails(p) PROVE IInv'
  <1> USE TokenAssumption, BoundAssumption
          DEF SaveFails, Finish, Goto, IInv, registryVars, targetVars
  <1>1. TypeOK'
    BY DEF TypeOK, InjectPC, Outcome, File, Absent
  <1>2. LockInv'
    BY DEF LockInv, Saving, TypeOK
  <1>3. StoreInv'
    BY DEF StoreInv, Saving, TypeOK, LockInv
  <1>4. StartsAgain'
    BY DEF StartsAgain
  <1>5. HandedOutIsSaved'
    BY DEF HandedOutIsSaved, Saved
  <1>6. InstrumentedIsHeard'
    BY DEF InstrumentedIsHeard
  <1> QED BY <1>1, <1>2, <1>3, <1>4, <1>5, <1>6

(* The configuration file gets a token that is already saved. *)
LEMMA ConfigureIInv ==
  ASSUME IInv, NEW p \in Process, Configure(p) PROVE IInv'
  <1> USE TokenAssumption, BoundAssumption
          DEF Configure, Goto, IInv, registryVars, targetVars
  <1>1. TypeOK'
    BY DEF TypeOK, InjectPC, Credential
  <1>2. LockInv'
    BY DEF LockInv, Saving
  <1>3. StoreInv'
    BY DEF StoreInv, Saving
  <1>4. StartsAgain'
    BY DEF StartsAgain
  <1>5. HandedOutIsSaved'
    BY DEF HandedOutIsSaved, Saved
  <1>6. InstrumentedIsHeard'
    BY DEF InstrumentedIsHeard
  <1> QED BY <1>1, <1>2, <1>3, <1>4, <1>5, <1>6

(* A failed injection hands nothing out. *)
LEMMA InjectFailsIInv ==
  ASSUME IInv, NEW p \in Process, InjectFails(p) PROVE IInv'
  <1> USE TokenAssumption, BoundAssumption
          DEF InjectFails, Finish, Goto, IInv, registryVars, targetVars
  <1>1. TypeOK'
    BY DEF TypeOK, InjectPC, Outcome
  <1>2. LockInv'
    BY DEF LockInv, Saving
  <1>3. StoreInv'
    BY DEF StoreInv, Saving
  <1>4. StartsAgain'
    BY DEF StartsAgain
  <1>5. HandedOutIsSaved'
    BY DEF HandedOutIsSaved, Saved
  <1>6. InstrumentedIsHeard'
    BY DEF InstrumentedIsHeard
  <1> QED BY <1>1, <1>2, <1>3, <1>4, <1>5, <1>6

(* The bootstrap agent copies a saved token into the system property. *)
LEMMA LoadBootstrapIInv ==
  ASSUME IInv, NEW p \in Process, LoadBootstrap(p) PROVE IInv'
  <1> USE TokenAssumption, BoundAssumption
          DEF LoadBootstrap, Apply, Finish, Goto, IInv, registryVars, targetVars
  <1>1. TypeOK'
    <2>1. property' \in [Process -> Credential]
      BY DEF TypeOK, Credential
    <2>2. inject' \in [Process -> InjectPC] /\ outcome' \in [Process -> Outcome]
      BY DEF TypeOK, InjectPC, Outcome
    <2>3. token' \in [Process -> Token \cup {NoToken}]
      BY DEF TypeOK
    <2>4. UNCHANGED <<daemon, starts, mintedFor, valid, mu, disk, command, config, exporter, answer>>
      OBVIOUS
    <2> QED BY <2>1, <2>2, <2>3, <2>4 DEF TypeOK
  <1>2. LockInv'
    BY DEF LockInv, Saving, TypeOK
  <1>3. StoreInv'
    BY DEF StoreInv, Saving, TypeOK
  <1>4. StartsAgain'
    BY DEF StartsAgain
  <1>5. HandedOutIsSaved'
    BY DEF HandedOutIsSaved, Saved, TypeOK
  <1>6. InstrumentedIsHeard'
    BY DEF InstrumentedIsHeard
  <1> QED BY <1>1, <1>2, <1>3, <1>4, <1>5, <1>6

(* The OTel agent takes its exporter's token from the property. *)
LEMMA LoadOtelIInv ==
  ASSUME IInv, NEW p \in Process, LoadOtel(p) PROVE IInv'
  <1> USE TokenAssumption, BoundAssumption
          DEF LoadOtel, LoadAgent, Finish, Goto, IInv, registryVars, targetVars
  <1>1. TypeOK'
    BY DEF TypeOK, InjectPC, Outcome
  <1>2. LockInv'
    BY DEF LockInv, Saving
  <1>3. StoreInv'
    BY DEF StoreInv, Saving
  <1>4. StartsAgain'
    BY DEF StartsAgain
  <1>5. HandedOutIsSaved'
    BY DEF HandedOutIsSaved, Saved
  <1>6. InstrumentedIsHeard'
    BY DEF InstrumentedIsHeard
  <1> QED BY <1>1, <1>2, <1>3, <1>4, <1>5, <1>6

(* The one-shot command configures with its own credential, not a token. *)
LEMMA CommandBeginIInv ==
  ASSUME IInv, NEW p \in Process, CommandBegin(p) PROVE IInv'
  <1> USE TokenAssumption, BoundAssumption
          DEF CommandBegin, IInv, registryVars, targetVars
  <1>1. TypeOK'
    BY DEF TypeOK, CommandPC, Credential
  <1>2. LockInv'
    BY DEF LockInv
  <1>3. StoreInv'
    BY DEF StoreInv
  <1>4. StartsAgain'
    BY DEF StartsAgain
  <1>5. HandedOutIsSaved'
    BY DEF HandedOutIsSaved, Saved, TypeOK
  <1>6. InstrumentedIsHeard'
    BY DEF InstrumentedIsHeard
  <1> QED BY <1>1, <1>2, <1>3, <1>4, <1>5, <1>6

(* The command's bootstrap agent copies what the configuration holds. *)
LEMMA CommandBootstrapIInv ==
  ASSUME IInv, NEW p \in Process, CommandBootstrap(p) PROVE IInv'
  <1> USE TokenAssumption, BoundAssumption
          DEF CommandBootstrap, Apply, IInv, registryVars, targetVars
  <1>1. TypeOK'
    BY DEF TypeOK, CommandPC, Credential
  <1>2. LockInv'
    BY DEF LockInv
  <1>3. StoreInv'
    BY DEF StoreInv
  <1>4. StartsAgain'
    BY DEF StartsAgain
  <1>5. HandedOutIsSaved'
    BY DEF HandedOutIsSaved, Saved
  <1>6. InstrumentedIsHeard'
    BY DEF InstrumentedIsHeard
  <1> QED BY <1>1, <1>2, <1>3, <1>4, <1>5, <1>6

(* The command's OTel agent takes its exporter's token from the property. *)
LEMMA CommandOtelIInv ==
  ASSUME IInv, NEW p \in Process, CommandOtel(p) PROVE IInv'
  <1> USE TokenAssumption, BoundAssumption
          DEF CommandOtel, LoadAgent, IInv, registryVars, targetVars
  <1>1. TypeOK'
    BY DEF TypeOK, CommandPC
  <1>2. LockInv'
    BY DEF LockInv
  <1>3. StoreInv'
    BY DEF StoreInv
  <1>4. StartsAgain'
    BY DEF StartsAgain
  <1>5. HandedOutIsSaved'
    BY DEF HandedOutIsSaved, Saved
  <1>6. InstrumentedIsHeard'
    BY DEF InstrumentedIsHeard
  <1> QED BY <1>1, <1>2, <1>3, <1>4, <1>5, <1>6

(* Every step keeps the invariant. *)
LEMMA NextIInv == IInv /\ [Next]_vars => IInv'
  <1> SUFFICES ASSUME IInv, [Next]_vars PROVE IInv'
    OBVIOUS
  <1>1. CASE Start
    BY <1>1, StartIInv
  <1>2. CASE Crash
    BY <1>2, CrashIInv
  <1>3. ASSUME NEW p \in Process, Inject(p) PROVE IInv'
    BY <1>3, BeginIInv, ProbeIInv, IssueIInv, WriteIInv, RenameIInv, SaveFailsIInv,
       ConfigureIInv, InjectFailsIInv, LoadBootstrapIInv, LoadOtelIInv
    DEF Inject
  <1>4. ASSUME NEW p \in Process, Command(p) PROVE IInv'
    BY <1>4, CommandBeginIInv, CommandBootstrapIInv, CommandOtelIInv DEF Command
  <1>5. ASSUME NEW p \in Process, Export(p) PROVE IInv'
    BY <1>5, ExportIInv
  <1>6. CASE UNCHANGED vars
    BY <1>6 DEF vars, registryVars, targetVars, IInv, TypeOK, LockInv, StoreInv,
                StartsAgain, HandedOutIsSaved, Saved, InstrumentedIsHeard
  <1> QED BY <1>1, <1>2, <1>3, <1>4, <1>5, <1>6 DEF Next

(* Every state of every behaviour of the daemon, the JVMs and the one-shot *)
(* command satisfies the inductive invariant.                              *)
THEOREM Invariance == Spec => []IInv
  BY InitIInv, NextIInv, PTL DEF Spec

(* Every variable of Ingest keeps its type. *)
THEOREM TypeCorrect == Spec => []TypeOK
  <1>1. IInv => TypeOK
    BY DEF IInv
  <1> QED BY <1>1, Invariance, PTL

(* The token store is readable at every start, whenever the daemon was     *)
(* killed and whichever save failed before.                                *)
THEOREM StoreReadable == Spec => []StartsAgain
  <1>1. IInv => StartsAgain
    BY DEF IInv
  <1> QED BY <1>1, Invariance, PTL

(* A token that some JVM may come to use is in the store. *)
THEOREM SavedBeforeUse == Spec => []HandedOutIsSaved
  <1>1. IInv => HandedOutIsSaved
    BY DEF IInv
  <1> QED BY <1>1, Invariance, PTL

(* No daemon, the one that minted the token or a later one, refuses a JVM  *)
(* that a daemon instrumented.                                             *)
THEOREM NeverRefused == Spec => []InstrumentedIsHeard
  <1>1. IInv => InstrumentedIsHeard
    BY DEF IInv
  <1> QED BY <1>1, Invariance, PTL
=============================================================================
