---------------------------- MODULE MCBrandImages ----------------------------
(***************************************************************************)
(* Instances of BrandImages for TLC: repository files pa and pb, and pc,   *)
(* which has the file name of pa.                                          *)
(***************************************************************************)
EXTENDS BrandImages, TLC

CONSTANTS pa, pb, pc

NameOfPath == [p \in Paths |-> IF p = pc THEN pa ELSE p]

Symmetry == Permutations(Images) \cup Permutations(Admins) \cup Permutations(Mirrors)
=============================================================================
