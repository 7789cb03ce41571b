-------------------------- MODULE MCBrainExecution --------------------------
(* The instances of BrainExecution for TLC.  Its main run checks liveness,     *)
(* which rules symmetry out.                                                  *)
EXTENDS BrainExecution, TLC
=============================================================================
