---------------------------- MODULE MCJudgeEngine ----------------------------
(* JudgeEngine on a few submissions and workers.                           *)
EXTENDS JudgeEngine, TLC

\* Submissions and workers are interchangeable, for invariants only.
Symmetry == Permutations(Subs) \union Permutations(Workers)

\* A reset or a crash, not both: what is promised is promised until the first.
OneDisturbance == resets + crashes <= 1
=============================================================================
