-------------------------- MODULE MCBatchEvaluator --------------------------
(* BatchEvaluator on a few pairs and workers.                              *)
EXTENDS BatchEvaluator, TLC

\* Pairs, workers and contents are interchangeable, for safety only.
Symmetry == Permutations(Pairs) \union Permutations(Workers) \union Permutations(Contents)
=============================================================================
