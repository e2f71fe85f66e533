----------------------------- MODULE MCKBIndex -----------------------------
(***************************************************************************)
(* Instances of KBIndex for TLC: a synced file f1 that is written twice,   *)
(* an uploaded document u1 that is approved once, and two workers.  The    *)
(* functions of TextPipeline, by which a worker cuts what it indexes, are  *)
(* evaluated along with them.                                              *)
(***************************************************************************)
EXTENDS KBIndex, TextPipeline, TLC

CONSTANTS f1, u1, w1, w2

Writes == (f1 :> 2) @@ (u1 :> 1)

\* The functions have no state: they are evaluated for every section, every
\* text and every row of answers of the instance, before the first state.
ASSUME TextChecked ==
    /\ NoParagraphLost /\ OverlapIsLongestTail /\ BudgetIsSoft /\ PassesPartition
    /\ TransientErrorsAreRetried
=============================================================================
