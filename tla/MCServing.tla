----------------------------- MODULE MCServing -----------------------------
(* Instances of Serving for TLC.                                            *)
EXTENDS Serving
=============================================================================
