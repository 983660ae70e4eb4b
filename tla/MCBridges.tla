----------------------------- MODULE MCBridges -----------------------------
(* Instances of Bridges for TLC. *)
EXTENDS Bridges, TLC

Symm == Permutations(Channel)
=============================================================================
