------------------------- MODULE MCComputerWorkflow -------------------------
(* The instance of ComputerWorkflow for TLC *)
EXTENDS ComputerWorkflow, TLC

\* Requests, and ids of checkpoints, are interchangeable
Symmetry == Permutations(Requests) \cup Permutations(Checkpoints)
=============================================================================
