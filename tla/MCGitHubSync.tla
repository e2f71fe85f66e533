---------------------------- MODULE MCGitHubSync ----------------------------
(***************************************************************************)
(* Instances of GitHubSync for TLC: files f1 and f2, two runs on one or    *)
(* two pods, and up to one indexing worker.  One file is pushed            *)
(* twice, so that it changes while a run or the worker is on it; every run *)
(* may write every file.                                                   *)
(***************************************************************************)
EXTENDS GitHubSync, TLC

CONSTANTS f1, f2, w1, r1, r2, p1, p2

Writes == [d \in Docs |-> Cardinality(Runs)]
Pushes == (f1 :> 2) @@ (f2 :> 1)
PushesOfOne == f1 :> 2

\* Runs and pods are interchangeable; used without liveness only.
RunsAndPods == Permutations(Runs) \cup Permutations(Pods)
=============================================================================
