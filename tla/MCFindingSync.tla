--------------------------- MODULE MCFindingSync ---------------------------
(* A small instance of FindingSync.  Workers, projects and tests are interchangeable. *)
EXTENDS FindingSync, TLC

MCSuites == {Test, {}}
MCseverityOf == [t \in Test |-> "high"]

Symmetry == Permutations(Worker) \cup Permutations(Project) \cup Permutations(Test)
=============================================================================
