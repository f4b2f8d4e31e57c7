------------------------------ MODULE MCPipeline ------------------------------
(* Pipeline with two small iterations.                                      *)
EXTENDS Pipeline
=============================================================================
