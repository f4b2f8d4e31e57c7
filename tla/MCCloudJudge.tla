----------------------------- MODULE MCCloudJudge -----------------------------
(* CloudJudge with two threads.                                             *)
EXTENDS CloudJudge
=============================================================================
