------------------------------ MODULE MCIngest ------------------------------
(* Two replicas of one service: one gets its configuration with the attach *)
(* argument, the other through a file.                                     *)
EXTENDS Ingest

CONSTANTS p1, p2, s

MCServiceOf == [p \in Process |-> s]
=============================================================================
