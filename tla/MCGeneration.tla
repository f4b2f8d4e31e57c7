---------------------------- MODULE MCGeneration ----------------------------
(* Generation of three tasks with two keys of different weights.           *)
EXTENDS Generation

MCTasks == 1 .. 3
MCWeight == <<1, 2>>

\* Only the third task was there in an earlier run.
MCInit == Init /\ \A t \in 1 .. 2 : sol[t] = "none" /\ ~marker[t]
MCSpec == MCInit /\ [][Next]_vars /\ Fairness
=============================================================================
