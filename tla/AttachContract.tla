--------------------------- MODULE AttachContract ---------------------------
(***************************************************************************)
(* What the callers of internal/attach (the injector and jvmdiag) rely on, *)
(* with the handshake left out: an exchange is called, the target may      *)
(* carry its request out at any time from then on, even after the caller   *)
(* was told of a failure, and success is reported only for a request the   *)
(* target has carried out, or for a target that no longer exists.          *)
(***************************************************************************)
CONSTANT Exchange

VARIABLES
  status,     \* [Exchange -> {"idle", "running", "ok", "failed"}]
  executed,   \* exchanges whose request the target has carried out
  alive       \* does the target still run?

contractVars == <<status, executed, alive>>

Init ==
  /\ status = [x \in Exchange |-> "idle"]
  /\ executed = {}
  /\ alive = TRUE

Call(x) ==
  /\ status[x] = "idle"
  /\ status' = [status EXCEPT ![x] = "running"]
  /\ UNCHANGED <<executed, alive>>

Execute(x) ==
  /\ status[x] # "idle"
  /\ alive
  /\ executed' = executed \cup {x}
  /\ UNCHANGED <<status, alive>>

Succeed(x) ==
  /\ status[x] = "running"
  /\ x \in executed \/ ~ alive
  /\ status' = [status EXCEPT ![x] = "ok"]
  /\ UNCHANGED <<executed, alive>>

Fail(x) ==
  /\ status[x] = "running"
  /\ status' = [status EXCEPT ![x] = "failed"]
  /\ UNCHANGED <<executed, alive>>

Die ==
  /\ alive
  /\ alive' = FALSE
  /\ UNCHANGED <<status, executed>>

Next ==
  \/ Die
  \/ \E x \in Exchange : Call(x) \/ Execute(x) \/ Succeed(x) \/ Fail(x)

Spec == Init /\ [][Next]_contractVars
=============================================================================
