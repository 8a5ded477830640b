--------------------------- MODULE MCStreamExecutor ---------------------------
(* StreamExecutor on small instances; all its constants are numbers. *)
EXTENDS StreamExecutor
=============================================================================
