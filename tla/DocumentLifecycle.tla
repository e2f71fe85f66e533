-------------------------- MODULE DocumentLifecycle --------------------------
(***************************************************************************)
(* What the pipeline promises of one document, as its data model documents *)
(* the statuses: where a document may start, and from which status to      *)
(* which it may go.  The database holds nobody to it: whoever moves a      *)
(* document does so from the status it saw, and may be late.  The pull     *)
(* request statuses are left out: no step of the worker reaches them.      *)
(* (specs/3-ingestion-pipeline/data-model.md, "Processing status           *)
(* transitions"; specs/006-content-sync-ingest/data-model.md, "Status      *)
(* transition diagram")                                                    *)
(***************************************************************************)
CONSTANTS
    Docs,
    Actors,   \* who works on documents
    NoView    \* the view of an actor that has none

VARIABLES
    status,   \* of each document
    view      \* the document each actor is on and the status it saw it in

\* The transitions an actor may make: of a worker, of the administrator who
\* decides, of a retry, of a review that flags.
Documented ==
    { <<"processing", "completed">>, <<"processing", "failed">>,
      <<"pending_approval", "queued">>, <<"pending_approval", "rejected">>,
      <<"failed", "queued">>, <<"completed", "queued">> }

Init == /\ status = [d \in Docs |-> "absent"]
        /\ view = [a \in Actors |-> NoView]

Moves(S, from, to) ==
    /\ \A d \in S : status[d] = from
    /\ status' = [d \in Docs |-> IF d \in S THEN to ELSE status[d]]

Submit(S, to) == /\ to \in {"queued", "pending_approval"}
                 /\ Moves(S, "absent", to)
                 /\ UNCHANGED view

\* A worker takes a document that is queued: this it does on the table itself.
Claim(a, d) == /\ view[a] = NoView
               /\ Moves({d}, "queued", "processing")
               /\ view' = [view EXCEPT ![a] = <<d, "processing">>]

Look(a, d) == /\ view[a] = NoView
              /\ view' = [view EXCEPT ![a] = <<d, status[d]>>]
              /\ UNCHANGED status

\* A documented transition of the status the actor saw.  A worker that finds
\* its outcome there already may leave the document as it is.
Act(a, d, from, to) ==
    /\ view[a] = <<d, from>>
    /\ <<from, to>> \in Documented
    /\ \/ status' = [status EXCEPT ![d] = to]
       \/ from = "processing" /\ UNCHANGED status
    /\ view' = [view EXCEPT ![a] = NoView]

\* Actors give up, answer without a change, or die.
Leave(A) == /\ view' = [a \in Actors |-> IF a \in A THEN NoView ELSE view[a]]
            /\ UNCHANGED status

\* The watchdog, also on the status itself.
TimeOut(d) == Moves({d}, "processing", "failed") /\ UNCHANGED view

\* A restart resets to queued whatever is in processing.
Recover(S) == Moves(S, "processing", "queued") /\ UNCHANGED view

Next ==
    \/ \E S \in SUBSET Docs : \/ \E to \in {"queued", "pending_approval"} : Submit(S, to)
                              \/ Recover(S)
    \/ \E a \in Actors, d \in Docs :
          \/ Claim(a, d) \/ Look(a, d)
          \/ \E t \in Documented : Act(a, d, t[1], t[2])
    \/ \E A \in SUBSET Actors : Leave(A)
    \/ \E d \in Docs : TimeOut(d)

Spec == Init /\ [][Next]_<<status, view>>
=============================================================================
