------------------------------- MODULE MCChat -------------------------------
(***************************************************************************)
(* An instance of Chat for TLC: the pod of the second question may have a  *)
(* clock that is ahead of the others', or be slower between the flush and  *)
(* the commit of the others.                                               *)
(***************************************************************************)
EXTENDS Chat

ClockOfSecond == [r \in 1 .. MaxRequests |-> IF r = 2 THEN {3} ELSE {0}]
=============================================================================
