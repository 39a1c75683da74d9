------------------------------ MODULE MCMetrics ------------------------------
(* Two exporters and the collectors race for the last slot of a budget,    *)
(* with equal and with different names; one pid is used by two processes   *)
(* in turn.                                                                *)
EXTENDS Metrics, TLC

CONSTANTS a, b, x, y, e1, e2

MCNameOf == [n \in Process |-> a]
MCSends  == e1 :> {<<a, x>>} @@ e2 :> {<<a, x>>, <<b, y>>, <<NoName, NoName>>}
=============================================================================
