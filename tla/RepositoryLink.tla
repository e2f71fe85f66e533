--------------------------- MODULE RepositoryLink ---------------------------
(***************************************************************************)
(* What the GitHub bridge promises of the repository connection: there is  *)
(* at most one, its token may push to its repository, rotating the token   *)
(* keeps the repository, and the way to another repository leads through a *)
(* disconnect.  (specs/2-github-bridge/spec.md, FR-1.2 and Scenario 5)     *)
(***************************************************************************)
CONSTANT MayPush    \* the pairs of a repository and a token with push access
VARIABLE linked     \* the connected repository with its token

Init == linked = {}

Connect == /\ linked = {}
           /\ \E link \in MayPush : linked' = {link}

Rotate == \E old \in linked, new \in MayPush : /\ new[1] = old[1]
                                               /\ linked' = {new}

Disconnect == /\ linked # {}
              /\ linked' = {}

Next == Connect \/ Rotate \/ Disconnect

Spec == Init /\ [][Next]_linked
=============================================================================
