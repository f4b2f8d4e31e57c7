--------------------------- MODULE MCCheckerCache ---------------------------
(* CheckerCache on small sets of workers, contents and go-judge files.     *)
EXTENDS CheckerCache
=============================================================================
