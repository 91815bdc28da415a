--------------------------- MODULE MCSourceRuntime ---------------------------
(* Instances of SourceRuntime for TLC.                                      *)
EXTENDS SourceRuntime
=============================================================================
