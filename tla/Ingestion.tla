------------------------------ MODULE Ingestion ------------------------------
(***************************************************************************)
(* The document ingestion pipeline: the ingestion_documents table used as  *)
(* a work queue, the counters of ingestion_batches, the processed output,  *)
(* the staged source files in object storage, and everybody who writes     *)
(* them: the queue workers, the timeout watchdog and the startup recovery  *)
(* of every pod, and the HTTP handlers for submit, approve, reject, retry  *)
(* and review.  (utils/queue.py, src/api/ingestion.py)                     *)
(*                                                                         *)
(* One action is one database statement or transaction boundary at which   *)
(* another session may interleave.  The database runs at READ COMMITTED:   *)
(* a session reads rows, works on its own copy, and flushes the attributes *)
(* it changed (module OrmFlush).                                           *)
(***************************************************************************)
EXTENDS Naturals, FiniteSets, OrmFlush

CONSTANTS
    Docs,         \* documents that may be uploaded
    Batches,      \* batches that may be submitted
    BatchOf,      \* the batch each document is uploaded in
    Pods,         \* backend pods sharing the one database
    Workers,      \* asyncio queue workers, over all pods
    Requests,     \* HTTP requests that can be in flight at once
    PodOf,        \* the pod each worker and request runs in
    Faults,       \* the kinds of fault this environment has
    NoDoc,        \* the document of an actor without an open session
    MaxSessions,  \* bound: sessions in flight at once
    MaxEntries,   \* bound: a request entries no document beyond this
    MaxCrashes    \* bound: pod terminations

FaultKinds == {"crash", "overrun", "commit_error"}

ASSUME ConstAssumption ==
    /\ BatchOf \in [Docs -> Batches]
    /\ \A a \in Workers \cup Requests : PodOf[a] \in Pods
    /\ Workers \cap Requests = {}
    /\ NoDoc \notin Docs
    /\ Faults \subseteq FaultKinds
    /\ MaxSessions \in Nat /\ MaxEntries \in Nat /\ MaxCrashes \in Nat

VARIABLES
    docs,      \* ingestion_documents
    batches,   \* ingestion_batches
    content,   \* processed_documents, with the KB row that cascades from it
    source,    \* the documents whose uploaded file is in object storage
    session,   \* what each worker or request has in flight
    up,        \* the pods that run
    entries,   \* history: how often a document was put in the queue
    cleared,   \* history: documents an administrator let into the queue
    overruled, \* history: those decided about again, by a request that was late
    crashes,   \* history: pod terminations so far
    calm       \* history: no two sessions overlapped, nothing timed out

history == <<entries, cleared, overruled, crashes, calm>>
vars == <<docs, batches, content, source, session, up, history>>

Actors == Workers \cup Requests
DocsOf(b) == {d \in Docs : BatchOf[d] = b}
Total(b) == Cardinality(DocsOf(b))

(***************************************************************************)
(* Rows                                                                    *)
(***************************************************************************)
ProcessingStatus == {"absent", "pending_approval", "queued", "processing",
                     "completed", "failed", "rejected"}
BatchStatus == {"absent", "in_progress", "completed",
                "completed_with_failures"}

\* `started` is processing_started_at IS NOT NULL, `failure` is
\* failure_reason IS NOT NULL, `folder` is destination_folder IS NOT NULL.
DocRow == [status : ProcessingStatus, started : BOOLEAN, failure : BOOLEAN,
           folder : BOOLEAN]
BatchRow == [status : BatchStatus, completed : Nat, failed : Nat]

\* `id` tells the rows inserted one after the other for a document apart;
\* `live` is whether the latest one still exists; `in_kb` is whether a
\* knowledge_base_documents row refers to it.
ContentRow == [id : Nat, live : BOOLEAN, approved : BOOLEAN, in_kb : BOOLEAN]

NoDocRow == [status |-> "absent", started |-> FALSE, failure |-> FALSE,
             folder |-> FALSE]
NoBatchRow == [status |-> "absent", completed |-> 0, failed |-> 0]
NoContent == [id |-> 0, live |-> FALSE, approved |-> FALSE, in_kb |-> FALSE]

(***************************************************************************)
(* Sessions.  `op` is what the actor is doing, `step` how far it got:      *)
(*   claimed  the claim is committed, process_document has not begun       *)
(*   loaded   the document row is loaded (a request also passed its check) *)
(*   ready    the batch row is loaded too; what remains is the commit      *)
(*   cleanup  committed; what remains is deleting the staged source        *)
(***************************************************************************)
WorkOps == {"work", "complete", "fail", "fail_in_pr"}
RequestOps == {"retry", "flag", "approve_output", "approve", "reject"}
BatchOps == {"retry", "flag"}
DecideOps == {"approve", "reject"}
Steps == {"idle", "claimed", "loaded", "ready", "cleanup"}

Session == [step : Steps, op : WorkOps \cup RequestOps, doc : Docs \cup {NoDoc},
            row : DocRow, content_id : Nat, fetched : BOOLEAN, batch : BatchRow]

Idle == [step |-> "idle", op |-> "work", doc |-> NoDoc, row |-> NoDocRow,
         content_id |-> 0, fetched |-> FALSE, batch |-> NoBatchRow]

InFlight == {a \in Actors : session[a].step # "idle"}
MayOpen(a) == /\ session[a].step = "idle"
              /\ PodOf[a] \in up
              /\ Cardinality(InFlight) < MaxSessions

\* The workers that hold document d and have not committed an outcome yet.
Holders(d) == {w \in Workers : /\ session[w].doc = d
                               /\ session[w].step \in {"claimed", "loaded", "ready"}}

(***************************************************************************)
(* POST /batches.  The batch and its documents are one transaction after   *)
(* the uploads; a failed upload rolls it back and leaves the files already *)
(* uploaded behind.                                                        *)
(***************************************************************************)
Unused(b) == /\ batches[b].status = "absent"
             /\ DocsOf(b) \cap source = {}

\* Mutant: every upload is queued, whoever sends it.
InitialStatus_NoApproval(admin) == "queued"

InitialStatus(admin) == IF admin THEN "queued" ELSE "pending_approval"

SubmitBatch(b, admin, folder) ==
    LET row == [NoDocRow EXCEPT
                  !.status = InitialStatus(admin),
                  !.folder = admin /\ folder]
    IN /\ up # {}
       /\ Unused(b)
       /\ DocsOf(b) # {}
       /\ batches' = [batches EXCEPT ![b] = [NoBatchRow EXCEPT !.status = "in_progress"]]
       /\ docs' = [d \in Docs |-> IF BatchOf[d] = b THEN row ELSE docs[d]]
       /\ source' = source \cup DocsOf(b)
       /\ cleared' = IF admin THEN cleared \cup DocsOf(b) ELSE cleared
       /\ entries' = [d \in Docs |-> IF row.status = "queued" /\ BatchOf[d] = b
                                     THEN 1 ELSE entries[d]]
       /\ UNCHANGED <<content, session, up, overruled, crashes, calm>>

SubmitFails(b) ==
    /\ up # {}
    /\ Unused(b)
    /\ \E S \in SUBSET DocsOf(b) :
          /\ S # {} /\ S # DocsOf(b)
          /\ source' = source \cup S
    /\ UNCHANGED <<docs, batches, content, session, up, history>>

\* The id of the processed document of d, 0 when it has none.
LiveId(d) == IF content[d].live THEN content[d].id ELSE 0

(***************************************************************************)
(* Reading: the claim, process_document's db.get and download, and the     *)
(* load-and-check with which every request on a document begins.           *)
(***************************************************************************)

\* Mutant: without the row lock a worker takes what another just took.
Claimable_Unlocked == {"queued", "processing"}

Claimable == {"queued"}

\* Mutant: the claim does not set processing_started_at.
Claimed_NoStartTime(row) == [row EXCEPT !.status = "processing"]

Claimed(row) == [row EXCEPT !.status = "processing", !.started = TRUE]

\* SELECT ... WHERE queued FOR UPDATE SKIP LOCKED, set processing, commit.
\* Which of the queued documents is taken is left open.
Claim(w, d) ==
    /\ MayOpen(w)
    /\ docs[d].status \in Claimable
    /\ docs' = [docs EXCEPT ![d] = Claimed(@)]
    /\ session' = [session EXCEPT ![w] = [@ EXCEPT !.step = "claimed", !.doc = d]]
    /\ calm' = (calm /\ InFlight = {})
    /\ UNCHANGED <<batches, content, source, up, entries, cleared, overruled, crashes>>

\* A second session loads the row again and downloads the source file.
LoadDocument(w) ==
    LET d == session[w].doc
    IN /\ session[w].step = "claimed"
       /\ session' = [session EXCEPT ![w] =
                         [@ EXCEPT !.step = "loaded", !.row = docs[d],
                                   !.fetched = d \in source]]
       /\ UNCHANGED <<docs, batches, content, source, up, history>>

\* The status each request demands of the document it has just loaded.
Demands(op) ==
    CASE op = "retry" -> "failed"
      [] op \in {"flag", "approve_output"} -> "completed"
      [] op \in {"approve", "reject"} -> "pending_approval"

OpenRequest(r, op, d) ==
    /\ MayOpen(r)
    /\ docs[d].status = Demands(op)
    /\ op \in BatchOps => entries[d] < MaxEntries
    /\ session' = [session EXCEPT ![r] =
                     [Idle EXCEPT !.step = "loaded", !.op = op, !.doc = d,
                                  !.row = docs[d], !.content_id = LiveId(d)]]
    /\ calm' = (calm /\ InFlight = {})
    /\ UNCHANGED <<docs, batches, content, source, up, entries, cleared, overruled, crashes>>

(***************************************************************************)
(* The pipeline's outcome.  A document without a source cannot be          *)
(* downloaded.  A document with a destination folder takes the pull        *)
(* request branch, which raises before anything reaches GitHub: there is   *)
(* no active connection, or line 147 uses a module that is not imported.   *)
(* By then the new processed_documents row is already in the session.      *)
(***************************************************************************)
Outcomes(s) ==
    {"fail"} \cup (IF ~s.fetched THEN {}
                   ELSE IF s.row.folder THEN {"fail_in_pr"} ELSE {"complete"})

\* The pipeline has ended; the session selects the processed document it
\* will replace and loads the batch row whose counter it will change.
FinishPipeline(w, outcome) ==
    LET d == session[w].doc
    IN /\ session[w].step = "loaded"
       /\ outcome \in Outcomes(session[w])
       /\ session' = [session EXCEPT ![w] =
                         [@ EXCEPT !.step = "ready", !.op = outcome,
                                   !.content_id = LiveId(d),
                                   !.batch = batches[BatchOf[d]]]]
       /\ UNCHANGED <<docs, batches, content, source, up, history>>

\* Retry and review load the batch row after the document row.
LoadBatch(r) ==
    /\ session[r].step = "loaded"
    /\ session[r].op \in BatchOps
    /\ session' = [session EXCEPT ![r] =
                      [@ EXCEPT !.step = "ready", !.batch = batches[BatchOf[session[r].doc]]]]
    /\ UNCHANGED <<docs, batches, content, source, up, history>>

(***************************************************************************)
(* Commits                                                                 *)
(***************************************************************************)

\* Mutant: the status is not reset.
Requeued_StatusKept(row) == [row EXCEPT !.started = FALSE, !.failure = FALSE]

Requeued(row) ==
    [row EXCEPT !.status = "queued", !.started = FALSE, !.failure = FALSE]

\* The document row after the assignments of the operation.
Assigned(op, row) ==
    CASE op = "complete" -> [row EXCEPT !.status = "completed", !.failure = FALSE]
      [] op \in {"fail", "fail_in_pr"} ->
            [row EXCEPT !.status = "failed", !.failure = TRUE]
      [] op \in {"retry", "flag"} -> Requeued(row)
      [] op = "approve" -> [row EXCEPT !.status = "queued", !.folder = TRUE]
      [] op = "reject" -> [row EXCEPT !.status = "rejected"]
      [] OTHER -> row

\* Mutant: off by one, the last document does not close the batch.
Recompute_OffByOne(row, total) ==
    [row EXCEPT !.status = IF row.completed + row.failed <= total THEN "in_progress"
                           ELSE IF row.failed = 0 THEN "completed"
                           ELSE "completed_with_failures"]

\* _recompute_batch_status, which two files define alike.
Recompute(row, total) ==
    [row EXCEPT !.status = IF row.completed + row.failed < total THEN "in_progress"
                           ELSE IF row.failed = 0 THEN "completed"
                           ELSE "completed_with_failures"]

Decrement(n) == IF n > 0 THEN n - 1 ELSE 0

\* Mutant: a retry leaves failed_count alone.
Retried_StillFailed(row) == [row EXCEPT !.status = "in_progress"]

Retried(row) == [row EXCEPT !.failed = Decrement(@), !.status = "in_progress"]

\* The batch row after the assignments of the operation.
Counted(op, row, total) ==
    CASE op = "complete" -> Recompute([row EXCEPT !.completed = @ + 1], total)
      [] op \in {"fail", "fail_in_pr"} ->
            Recompute([row EXCEPT !.failed = @ + 1], total)
      [] op = "retry" -> Retried(row)
      [] op = "flag" ->
            [row EXCEPT !.completed = Decrement(@), !.status = "in_progress"]

\* UNIQUE(ingestion_document_id): another worker inserted a row after this
\* one selected what it would replace.
InsertConflicts(s) == content[s.doc].live /\ content[s.doc].id # s.content_id

\* The processed output after the operation.  Deleting a row that is gone
\* is a warning; updating one that is gone is an error (see CommitFails).
Produced(op, row, id) ==
    CASE op \in {"complete", "fail_in_pr"} ->
            [id |-> row.id + 1, live |-> TRUE, approved |-> FALSE, in_kb |-> FALSE]
      [] op = "flag" /\ row.id = id ->
            [row EXCEPT !.live = FALSE, !.approved = FALSE, !.in_kb = FALSE]
      [] op = "approve_output" /\ id # 0 ->
            [row EXCEPT !.approved = TRUE, !.in_kb = TRUE]
      [] OTHER -> row

\* Mutant: an approval is written whatever row it was given for.
Refused_StaleApproval(s) ==
    s.op \in {"complete", "fail_in_pr"} /\ InsertConflicts(s)

\* The database refuses the flush whatever the environment does.
Refused(s) ==
    \/ s.op \in {"complete", "fail_in_pr"} /\ InsertConflicts(s)
    \/ /\ s.op = "approve_output" /\ s.content_id # 0
       /\ ~content[s.doc].live \/ content[s.doc].id # s.content_id

AtCommit(s) == \/ s.step = "ready"
               \/ s.step = "loaded" /\ s.op \in RequestOps \ BatchOps

Commit(a) ==
    LET s == session[a]
        d == s.doc
        b == BatchOf[d]
    IN /\ AtCommit(s)
       /\ ~Refused(s)
       /\ docs' = [docs EXCEPT ![d] = Flush(@, s.row, Assigned(s.op, s.row))]
       /\ batches' = IF s.step = "ready"
                      THEN [batches EXCEPT ![b] =
                              Flush(@, s.batch, Counted(s.op, s.batch, Total(b)))]
                      ELSE batches
       /\ content' = [content EXCEPT ![d] = Produced(s.op, @, s.content_id)]
       /\ session' = [session EXCEPT ![a] =
                         IF s.op \in {"complete", "reject"}
                         THEN [Idle EXCEPT !.step = "cleanup", !.doc = d]
                         ELSE Idle]
       /\ entries' = IF Assigned(s.op, s.row).status = "queued"
                      THEN [entries EXCEPT ![d] = @ + 1] ELSE entries
       /\ cleared' = IF s.op = "approve" THEN cleared \cup {d} ELSE cleared
       /\ overruled' = IF s.op \in DecideOps /\ docs[d].status # "pending_approval"
                        THEN overruled \cup {d} ELSE overruled
       /\ UNCHANGED <<source, up, crashes, calm>>

\* Mutant: the source is deleted in a `finally`, after a failed commit too.
AfterFailedCommit_Cleanup(d) == [Idle EXCEPT !.step = "cleanup", !.doc = d]

AfterFailedCommit(d) == Idle

\* The flush raises.  A request answers 500; a worker's attempt to mark the
\* document failed raises again on the same session and is only logged.
CommitFails(a) ==
    /\ AtCommit(session[a])
    /\ Refused(session[a]) \/ "commit_error" \in Faults
    /\ session' = [session EXCEPT ![a] = AfterFailedCommit(@.doc)]
    /\ UNCHANGED <<docs, batches, content, source, up, history>>

\* Best effort: delete_from_gcs swallows every error.
DeleteSource(a) ==
    /\ session[a].step = "cleanup"
    /\ source' \in {source, source \ {session[a].doc}}
    /\ session' = [session EXCEPT ![a] = Idle]
    /\ UNCHANGED <<docs, batches, content, up, history>>

(***************************************************************************)
(* Time and failure                                                        *)
(***************************************************************************)

\* Mutant: the watchdog looks at the start time alone.
Watched_AnyStatus(row) == row.started

Watched(row) == row.status = "processing" /\ row.started

\* The watchdog of some pod finds a claim older than the limit.  Unless
\* processing may overrun the limit, no worker is on the document any more.
Watchdog(d) ==
    /\ up # {}
    /\ Watched(docs[d])
    /\ "overrun" \in Faults \/ Holders(d) = {}
    /\ docs' = [docs EXCEPT ![d].status = "failed", ![d].failure = TRUE]
    /\ calm' = FALSE
    /\ UNCHANGED <<batches, content, source, session, up, entries, cleared, overruled,
                   crashes>>

\* A pod is terminated: its tasks are cancelled wherever they are.
Crash(p) ==
    /\ "crash" \in Faults /\ crashes < MaxCrashes
    /\ p \in up
    /\ up' = up \ {p}
    /\ session' = [a \in Actors |-> IF PodOf[a] = p THEN Idle ELSE session[a]]
    /\ crashes' = crashes + 1
    /\ UNCHANGED <<docs, batches, content, source, entries, cleared, overruled, calm>>

\* A pod starts: startup_recovery runs before its workers do, and takes
\* every document in processing, whichever pod is at work on it.
Start(p) ==
    LET stuck == {d \in Docs : docs[d].status = "processing"}
    IN /\ p \in Pods \ up
       /\ up' = up \cup {p}
       /\ docs' = [d \in Docs |->
                      IF d \in stuck
                      THEN [docs[d] EXCEPT !.status = "queued", !.started = FALSE]
                      ELSE docs[d]]
       /\ entries' = [d \in Docs |-> IF d \in stuck THEN entries[d] + 1 ELSE entries[d]]
       /\ UNCHANGED <<batches, content, source, session, cleared, overruled, crashes, calm>>

(***************************************************************************)
(* Specification                                                           *)
(***************************************************************************)
Init ==
    /\ docs = [d \in Docs |-> NoDocRow]
    /\ batches = [b \in Batches |-> NoBatchRow]
    /\ content = [d \in Docs |-> NoContent]
    /\ source = {}
    /\ session = [a \in Actors |-> Idle]
    /\ up = Pods
    /\ entries = [d \in Docs |-> 0]
    /\ cleared = {} /\ overruled = {}
    /\ crashes = 0
    /\ calm = TRUE

WorkerStep(w) ==
    \/ \E d \in Docs : Claim(w, d)
    \/ LoadDocument(w)
    \/ \E outcome \in WorkOps : FinishPipeline(w, outcome)

\* What an open session does next, a worker's or a request's.
CloseSession(a) == Commit(a) \/ CommitFails(a) \/ DeleteSource(a)

Next ==
    \/ \E b \in Batches, admin, folder \in BOOLEAN : SubmitBatch(b, admin, folder)
    \/ \E b \in Batches : SubmitFails(b)
    \/ \E w \in Workers : WorkerStep(w)
    \/ \E r \in Requests, op \in RequestOps, d \in Docs : OpenRequest(r, op, d)
    \/ \E r \in Requests : LoadBatch(r)
    \/ \E a \in Actors : CloseSession(a)
    \/ \E d \in Docs : Watchdog(d)
    \/ \E p \in Pods : Crash(p) \/ Start(p)

Spec == Init /\ [][Next]_vars

\* Asyncio keeps scheduling every task, a handler runs to its answer, the
\* watchdog runs every minute, and the deployment replaces a lost pod.
\* Nobody is obliged to send a request.
Fairness ==
    /\ \A w \in Workers : WF_vars(WorkerStep(w))
    /\ \A r \in Requests : WF_vars(LoadBatch(r))
    /\ \A a \in Actors : WF_vars(CloseSession(a))
    /\ \A d \in Docs : WF_vars(Watchdog(d))
    /\ \A p \in Pods : WF_vars(Start(p))

FairSpec == Spec /\ Fairness

(***************************************************************************)
(* Properties                                                              *)
(***************************************************************************)

\* Rows, sessions and histories keep their shape.
TypeOK ==
    /\ docs \in [Docs -> DocRow]
    /\ batches \in [Batches -> BatchRow]
    /\ content \in [Docs -> ContentRow]
    /\ source \subseteq Docs
    /\ session \in [Actors -> Session]
    /\ up \subseteq Pods
    /\ entries \in [Docs -> Nat]
    /\ cleared \subseteq Docs /\ overruled \subseteq Docs
    /\ crashes \in Nat
    /\ calm \in BOOLEAN

\* The watchdog compares processing_started_at, and NULL never compares as
\* older: a document in processing without a start time would be stuck for
\* ever.  Retries, reviews and the startup recovery all clear that column
\* while claims set it, from sessions that do not see each other.
WatchdogSeesEveryClaim ==
    \A d \in Docs : docs[d].status = "processing" => docs[d].started

\* A completed document has its processed output, although workers that
\* repeat each other's work delete and insert it and reviews delete it.
CompletedHasContent ==
    \A d \in Docs : docs[d].status = "completed" => content[d].live

\* Nothing an editor uploaded is claimed, processed or turned into output
\* before an administrator let it into the queue.
OnlyClearedIsProcessed ==
    \A d \in Docs :
        \/ docs[d].status \notin {"absent", "pending_approval", "rejected"}
        \/ Holders(d) # {}
        \/ content[d].live
        => d \in cleared

\* SKIP LOCKED gives one worker one entry of the queue: as many workers can
\* be on a document as it was put in the queue, never more.
OneWorkerPerEntry ==
    \A d \in Docs : Cardinality(Holders(d)) <= entries[d]

\* What is in the knowledge base after a step was there before, or is the
\* very row an open review approves.
Published(d) ==
    content'[d].in_kb =>
       \/ content[d].in_kb /\ content[d].id = content'[d].id
       \/ \E r \in Requests : /\ session[r].op = "approve_output"
                              /\ session[r].doc = d
                              /\ session[r].content_id = content'[d].id

\* Output enters the knowledge base only through a PATCH that loaded that
\* very row: output that a worker regenerates while the PATCH is open is not
\* approved by it.  What the client previewed before is not in the request.
PublishesWhatItLoaded == [][\A d \in Docs : Published(d)]_vars

\* The staged file is deleted only after the outcome that makes it
\* superfluous is committed, and it stays so, for any number of requests:
\* only a decision that overrules another one takes the file of a document
\* that still needs it.
SourceOutlivesItsUse ==
    \A d \in Docs \ (source \cup overruled) :
        docs[d].status \in {"absent", "rejected"} \/ content[d].id > 0

\* Work that entered the queue is not forgotten, whatever dies on the way:
\* a worker ends it, or the watchdog does, or a restart queues it again.
EveryDocumentSettles ==
    \A d \in Docs : docs[d].status \in {"queued", "processing"}
                       ~> docs[d].status \in {"completed", "failed", "rejected"}

InStatus(b, S) == {d \in DocsOf(b) : docs[d].status \in S}
Quiet == InFlight = {}

\* As long as sessions did not overlap and nothing timed out, the running
\* counters are the number of documents in that status, whatever crashed.
CountersExact ==
    calm /\ Quiet => \A b \in Batches :
        /\ batches[b].completed = Cardinality(InStatus(b, {"completed"}))
        /\ batches[b].failed = Cardinality(InStatus(b, {"failed"}))

\* FR-2.5: a batch whose documents have all completed or failed is closed.
TerminalBatchIsClosed ==
    Quiet => \A b \in Batches :
        /\ batches[b].status # "absent"
        /\ InStatus(b, {"completed", "failed"}) = DocsOf(b)
        => batches[b].status # "in_progress"

\* The batch status says what became of the documents, as long as sessions
\* did not overlap and nothing timed out: in progress until all of them
\* have ended, and completed without failures only if all are completed.
BatchStatusIsRight ==
    calm => /\ TerminalBatchIsClosed
            /\ \A b \in Batches : batches[b].status = "completed" =>
                                     InStatus(b, {"completed"}) = DocsOf(b)

(***************************************************************************)
(* The documented lifecycle.  A worker believes its document in processing *)
(* from its claim to its outcome, a request in the status it found.        *)
(***************************************************************************)
status == [d \in Docs |-> docs[d].status]

OnADoc(a) == session[a].step \in {"claimed", "loaded", "ready"}

view == [a \in Actors |->
           IF ~OnADoc(a) THEN NoDoc
           ELSE <<session[a].doc,
                  IF a \in Workers THEN "processing" ELSE session[a].row.status>>]

Lifecycle == INSTANCE DocumentLifecycle WITH NoView <- NoDoc
FollowsLifecycle == Lifecycle!Spec
=============================================================================
