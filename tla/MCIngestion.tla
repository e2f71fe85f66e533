---------------------------- MODULE MCIngestion ----------------------------
(***************************************************************************)
(* Instances of Ingestion for TLC: one or two documents in one batch,      *)
(* workers w1 and w2, requests r1 and r2.  With two pods, w2 and r2 run in *)
(* the second one.                                                         *)
(***************************************************************************)
EXTENDS Ingestion, TLC

CONSTANTS d1, d2, b1, w1, w2, r1, r2, p1, p2

OneBatch == (d1 :> b1) @@ (d2 :> b1)
OneBatchOneDoc == d1 :> b1

Everyone == {w1, w2, r1, r2}
OnePod == [a \in Everyone |-> p1]
TwoPods == [a \in Everyone |-> IF a \in {w2, r2} THEN p2 ELSE p1]
=============================================================================
