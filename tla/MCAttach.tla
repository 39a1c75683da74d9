------------------------------ MODULE MCAttach ------------------------------
(* Two exchanges, of any two kinds, by apm2go as root, as the target's own *)
(* user, or as a third one.                                                *)
EXTENDS Attach, TLC

CONSTANTS x1, x2
=============================================================================
