--------------------------- MODULE MCAlphaWorkflow ---------------------------
(* The instance of AlphaWorkflow for TLC.  Its run checks liveness, which       *)
(* rules symmetry out.                                                         *)
EXTENDS AlphaWorkflow, TLC
=============================================================================
