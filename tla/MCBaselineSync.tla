--------------------------- MODULE MCBaselineSync ---------------------------
(* Instances of BaselineSync for TLC.                                       *)
EXTENDS BaselineSync, TLC

MCSymmetry == Permutations(Files) \cup Permutations(Readers)
=============================================================================
