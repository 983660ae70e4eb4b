---------------------------- MODULE MCSelfUpdate ----------------------------
(* Instances of SelfUpdate for TLC. *)
EXTENDS SelfUpdate, TLC

Symm == Permutations(Helper)
=============================================================================
