------------------------------ MODULE MCRemote ------------------------------
(* Instances of Remote for TLC. *)
EXTENDS Remote, TLC

Symm == Permutations(Loop) \cup Permutations(Tab)
=============================================================================
