------------------------------ MODULE MCGrants ------------------------------
(* Instances of Grants for TLC. *)
EXTENDS Grants, TLC

Symm == Permutations(Socket) \cup Permutations(Key)
=============================================================================
