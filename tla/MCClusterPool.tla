---------------------------- MODULE MCClusterPool ----------------------------
(* ClusterPool with a few pairs of two problems.                            *)
EXTENDS ClusterPool

\* Exact at these bounds.
MCPart == [c \in 1 .. MaxClusters |-> [s \in 1 .. NPairs |-> (c * s) \div NPairs]]

\* The first pair's problem is the first: problems are interchangeable.
FirstProblem == CHOOSE p \in Problems : TRUE
MCInit == Init /\ problem[1] = FirstProblem
MCSpec == MCInit /\ [][Next]_vars /\ Fairness
=============================================================================
