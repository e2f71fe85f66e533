---------------------------- MODULE MCUserAdmin ----------------------------
(***************************************************************************)
(* Instances of UserAdmin for TLC: two or three addresses, up to three     *)
(* invitations, one or two requests in flight.                             *)
(***************************************************************************)
EXTENDS UserAdmin, TLC

CONSTANTS u1, u2, u3, i1, i2, i3, q1, q2

\* Addresses, invitations and requests are interchangeable.
Interchangeable == Permutations(Users) \cup Permutations(Invs) \cup Permutations(Requests)
=============================================================================
