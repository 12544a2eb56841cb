-------------------------- MODULE MCFindingReaders --------------------------
(* A small instance of FindingReaders: one CI job that allows nothing, one viewer. *)
EXTENDS FindingReaders, TLC

MCSuites == {Test, {}}

MCseverityOf == [t \in Test |-> "high"]

Strict == [statuses |-> {"FAIL"}, severities |-> Severity,
           maxFailures |-> 1, maxRegressions |-> 0, check |-> TRUE]
MCpolicyOf == [c \in Client |-> Strict]

Symmetry == Permutations(Worker) \cup Permutations(Project) \cup Permutations(Test)
=============================================================================
