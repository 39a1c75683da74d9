---------------------------- MODULE MCSupervisor ----------------------------
(* An instance of Supervisor with two targets. *)
EXTENDS Supervisor

CONSTANTS t1, t2
=============================================================================
