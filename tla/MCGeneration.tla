---------------------------- MODULE MCGeneration ----------------------------
(***************************************************************************)
(* An instance of Generation for TLC.                                      *)
(***************************************************************************)
EXTENDS Generation, TLC

NameOfPath == [p \in Paths |-> p]

Symmetry == Permutations(Images) \cup Permutations(Admins) \cup Permutations(Mirrors)
=============================================================================
