----------------------------- MODULE SynthesisRun -----------------------------
(***************************************************************************)
(* The synthesis as one run that nothing interrupts. It decides the        *)
(* result of each stage once, in order, from what was decided before; an   *)
(* iteration begins when all packages of the ones before are whole, and    *)
(* the run is finished when those of all are. Of kills and resumes only    *)
(* this is to be seen: a package is not whole while it is written again.   *)
(***************************************************************************)
EXTENDS Naturals, FiniteSets, FiniteSetsExt

CONSTANTS
  Iterations,   \* num_iterations
  B,            \* the size of a batch
  NDiv, NFinal, \* how many candidates stages 3 and 5 keep
  Ids,          \* what tells a batch from another of the same iteration
  None          \* a seed from the seed list

VARIABLES
  decided,   \* the stages, with their iterations, that have been decided
  results,   \* their results
  written,   \* the candidates whose package is whole
  finished,  \* is all done?
  mixed      \* was all begun afresh over what was decided?

vars == <<decided, results, written, finished, mixed>>

Rounds == 1 .. Iterations
Stages == 1 .. 4

Init ==
  /\ decided = {}
  /\ results = [i \in Rounds |-> [s \in Stages |-> {}]]
  /\ written = {}
  /\ finished = FALSE
  /\ mixed = FALSE

\* The problems of an iteration: the best of those that were built.
Problems(i) ==
  {c \in results[i][4] : Cardinality({d \in results[i][4] : d.slot < c.slot}) < NFinal}

Complete(i) == <<i, 4>> \in decided /\ Problems(i) \subseteq written

Seeds(i) == {None} \union UNION {Problems(j) : j \in 1 .. i - 1}

\* One candidate for each slot of the batch, or none.
Batches(i) ==
  {C \in UNION {SUBSET [by : {id}, iter : {i}, slot : 1 .. B, seed : Seeds(i)] : id \in Ids} :
     \A c, d \in C : c.slot = d.slot => c = d}

Best(C) == kSubset(IF Cardinality(C) <= NDiv THEN Cardinality(C) ELSE NDiv, C)

Decide(i, s) ==
  /\ <<i, s>> \notin decided
  /\ decided' = decided \union {<<i, s>>}
  /\ IF s = 1 THEN \A j \in 1 .. i - 1 : Complete(j) ELSE <<i, s - 1>> \in decided
  /\ \E C \in CASE s = 1 -> Batches(i)
                [] s = 3 -> Best(results[i][2])
                [] OTHER -> SUBSET results[i][s - 1] :
       results' = [results EXCEPT ![i][s] = C]
  /\ UNCHANGED <<written, finished>>

Write(c) ==
  /\ written' = written \union {c}
  /\ UNCHANGED <<decided, results, finished>>

Rewrite(c) ==
  /\ written' = written \ {c}
  /\ UNCHANGED <<decided, results, finished>>

Finish ==
  /\ \A i \in Rounds : Complete(i)
  /\ finished' = TRUE
  /\ UNCHANGED <<decided, results, written>>

\* The process that has finished ends.
Leave == finished /\ finished' = FALSE /\ UNCHANGED <<decided, results, written>>

\* A fresh start over older results: nothing is promised any more.
Afresh == mixed'

Next ==
  \/ /\ ~mixed'
     /\ \/ \E i \in Rounds, s \in Stages : Decide(i, s)
        \/ \E i \in Rounds : \E c \in Problems(i) : Write(c) \/ Rewrite(c)
        \/ Finish
        \/ Leave
  \/ Afresh

Spec == Init /\ [][Next]_vars
=============================================================================
