--------------------------- MODULE MCMaintenance ---------------------------
(* Instances of Maintenance: spans of which one calls another service.     *)
EXTENDS Maintenance

CONSTANTS s1, s2, s3

MCParentOf == [s \in Span |-> IF s = s2 THEN s1 ELSE NoSpan]
=============================================================================
