--------------------------- MODULE MCBusinessFlow ---------------------------
(* The instance of BusinessFlow for TLC.  Its run checks liveness, which rules *)
(* symmetry out.                                                               *)
EXTENDS BusinessFlow, TLC
=============================================================================
