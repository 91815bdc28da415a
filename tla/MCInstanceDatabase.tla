------------------------- MODULE MCInstanceDatabase -------------------------
(* Instances of InstanceDatabase for TLC.                                   *)
EXTENDS InstanceDatabase, TLC

MCSymmetry == Permutations(Processes) \cup Permutations(Ids)
=============================================================================
