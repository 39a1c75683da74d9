--------------------------- MODULE MCDiagnostics ---------------------------
(* Two requests, one more than is kept.                                    *)
EXTENDS Diagnostics

CONSTANTS r1, r2
=============================================================================
