--------------------------- MODULE MCGitHubBridge ---------------------------
(***************************************************************************)
(* Instances of GitHubBridge for TLC: two repositories, of which t1 may    *)
(* push to both and t2 to one, two folders, two requests.                  *)
(***************************************************************************)
EXTENDS GitHubBridge, TLC

CONSTANTS ra, rb, t1, t2

PushAccess == {<<ra, t1>>, <<ra, t2>>, <<rb, t1>>}

\* Connection rows and requests are interchangeable.
Interchangeable == Permutations(Conns) \cup Permutations(Requests)
=============================================================================
