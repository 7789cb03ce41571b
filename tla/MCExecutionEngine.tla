-------------------------- MODULE MCExecutionEngine --------------------------
(* Instances of ExecutionEngine for TLC *)
EXTENDS ExecutionEngine, TLC

\* Worker processes, and requests, are interchangeable
Symmetry == Permutations(Workers) \cup Permutations(Requests)
==============================================================================
