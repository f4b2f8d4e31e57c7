------------------------- MODULE MCBuildEnvironment -------------------------
(* BuildEnvironment with a few solutions and rounds.                       *)
EXTENDS BuildEnvironment
=============================================================================
