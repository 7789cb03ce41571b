-------------------------- MODULE MCKnowledgeCenter --------------------------
(* The instance of KnowledgeCenter for TLC *)
EXTENDS KnowledgeCenter, TLC

\* Requests, ids of versions, and texts are interchangeable
Symmetry == Permutations(Requests) \cup Permutations(Versions) \cup Permutations(Contents)

TextsInUse ==
  ({version[v].content : v \in Versions} \cup {req[r].content : r \in Requests}) \ {None}

\* A bound: two versions with every text, asset and report, the third with one text,
\* one asset and no report.  The numbers of an asset look at none of these.
ThirdVersion ==
  (\A v \in Versions : version[v].of # None) =>
     /\ Cardinality(TextsInUse) = 1
     /\ \E k \in Assets : VersionsOf(k) = Versions
     /\ \A p \in Reports : ~Submitted(p)
=============================================================================
