---------------------------- MODULE MCTaskQueues ----------------------------
(* Instances of TaskQueues for TLC *)
EXTENDS TaskQueues, TLC

\* Event identities, and workers, are interchangeable
Symmetry == Permutations(Events) \cup Permutations(Workers)
=============================================================================
