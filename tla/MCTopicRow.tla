----------------------------- MODULE MCTopicRow -----------------------------
(* TopicRow for TLC: the action runs are interchangeable.                  *)
EXTENDS TopicRow, TLC

Symmetry == Permutations(Workers)

\* Every deployment.
Everywhere == AllDeployments

\* The deployment that updates under the version check, with a unique index.
Strict == {[aggregate |-> TRUE, store |-> "sql", engine |-> "sql", unique |-> TRUE]}
=============================================================================
