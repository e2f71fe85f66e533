-------------------------- MODULE Ingestion_proofs --------------------------
(***************************************************************************)
(* Proofs about Ingestion, for every number of documents, batches, pods,   *)
(* workers and requests, every fault and every bound.                      *)
(***************************************************************************)
EXTENDS Ingestion, FiniteSetTheorems, TLAPS

(***************************************************************************)
(* What a flush does to a row, attribute by attribute.                     *)
(***************************************************************************)
LEMMA DocFlush ==
    ASSUME NEW row \in DocRow, NEW loaded \in DocRow, NEW new \in DocRow
    PROVE  LET f == Flush(row, loaded, new)
           IN /\ f \in DocRow
              /\ f.status = IF new.status # loaded.status THEN new.status ELSE row.status
              /\ f.started = IF new.started # loaded.started THEN new.started
                                                              ELSE row.started
<1>1. DOMAIN row = {"status", "started", "failure", "folder"}
  BY DEF DocRow
<1>. QED
  BY <1>1 DEF Flush, DocRow

\* A flush of a batch row that started from a batch row leaves one.
LEMMA BatchFlush ==
    ASSUME NEW row \in BatchRow, NEW loaded \in BatchRow, NEW new \in BatchRow
    PROVE  Flush(row, loaded, new) \in BatchRow
<1>1. DOMAIN row = {"status", "completed", "failed"}
  BY DEF BatchRow
<1>. QED
  BY <1>1 DEF Flush, BatchRow

(***************************************************************************)
(* The values operations assign have the type of a row.                    *)
(***************************************************************************)
AllOps == WorkOps \cup RequestOps

\* Every operation assigns a document row the values its columns allow.
LEMMA AssignedType ==
    ASSUME NEW op \in AllOps, NEW row \in DocRow
    PROVE  Assigned(op, row) \in DocRow
BY DEF Assigned, Requeued, DocRow, ProcessingStatus, AllOps, WorkOps, RequestOps

\* _recompute_batch_status changes the status to one of the enumeration.
LEMMA RecomputeType ==
    ASSUME NEW row \in BatchRow, NEW total
    PROVE  Recompute(row, total) \in BatchRow
BY DEF Recompute, BatchRow, BatchStatus

CountingOps == {"complete", "fail", "fail_in_pr", "retry", "flag"}

\* max(0, n - 1) does not go below zero.
LEMMA DecrementType == ASSUME NEW n \in Nat PROVE Decrement(n) \in Nat
BY DEF Decrement

\* Every counting operation leaves a batch row: no counter below zero.
LEMMA CountedType ==
    ASSUME NEW op \in CountingOps, NEW row \in BatchRow, NEW total
    PROVE  Counted(op, row, total) \in BatchRow
<1>1. CASE op = "complete"
  <2>1. [row EXCEPT !.completed = @ + 1] \in BatchRow
    BY DEF BatchRow
  <2>. QED
    BY <1>1, <2>1, RecomputeType DEF Counted
<1>2. CASE op \in {"fail", "fail_in_pr"}
  <2>1. [row EXCEPT !.failed = @ + 1] \in BatchRow
    BY DEF BatchRow
  <2>. QED
    BY <1>2, <2>1, RecomputeType DEF Counted
<1>3. CASE op = "retry"
  <2>1. [row EXCEPT !.failed = Decrement(@), !.status = "in_progress"] \in BatchRow
    BY DecrementType DEF BatchRow, BatchStatus
  <2>. QED
    BY <1>3, <2>1 DEF Counted, Retried
<1>4. CASE op = "flag"
  <2>1. [row EXCEPT !.completed = Decrement(@), !.status = "in_progress"] \in BatchRow
    BY DecrementType DEF BatchRow, BatchStatus
  <2>. QED
    BY <1>4, <2>1 DEF Counted
<1>. QED
  BY <1>1, <1>2, <1>3, <1>4 DEF CountingOps

\* Every operation leaves a processed_documents row or the mark of none.
LEMMA ProducedType ==
    ASSUME NEW op \in AllOps, NEW row \in ContentRow, NEW id \in Nat
    PROVE  Produced(op, row, id) \in ContentRow
<1>1. [row EXCEPT !.live = FALSE, !.approved = FALSE, !.in_kb = FALSE] \in ContentRow
  BY DEF ContentRow
<1>2. [row EXCEPT !.approved = TRUE, !.in_kb = TRUE] \in ContentRow
  BY DEF ContentRow
<1>3. [id |-> row.id + 1, live |-> TRUE, approved |-> FALSE, in_kb |-> FALSE]
         \in ContentRow
  BY DEF ContentRow
<1>4. CASE op \in {"complete", "fail_in_pr"}
  BY <1>3, <1>4 DEF Produced
<1>5. CASE op = "flag"
  BY <1>1, <1>5 DEF Produced
<1>6. CASE op = "approve_output"
  BY <1>2, <1>6 DEF Produced
<1>7. CASE op \in {"work", "fail", "retry", "approve", "reject"}
  BY <1>7 DEF Produced
<1>. QED
  BY <1>4, <1>5, <1>6, <1>7 DEF AllOps, WorkOps, RequestOps

\* An actor that does nothing has a well-formed session.
LEMMA IdleType == Idle \in Session
BY DEF Idle, Session, Steps, WorkOps, RequestOps, NoDocRow, DocRow, ProcessingStatus,
       NoBatchRow, BatchRow, BatchStatus

(***************************************************************************)
(* The inductive invariant of the sessions: a session works on a document, *)
(* an outcome is chosen before the batch row is loaded, a worker never     *)
(* runs a request's operation, and a request that is still open loaded its *)
(* document in the status it demands.                                      *)
(***************************************************************************)
Sound(a, s) ==
    /\ s.step # "idle" => s.doc \in Docs
    /\ s.step \in {"idle", "claimed"} => s.op = "work"
    /\ s.step = "ready" => s.op \in CountingOps
    /\ a \in Workers => s.op \in WorkOps
    /\ a \notin Workers /\ s.step \in {"loaded", "ready"} => s.op \in RequestOps
    /\ s.step \in {"loaded", "ready"} /\ s.op \in RequestOps =>
          s.row.status = Demands(s.op)

SessionOK == \A a \in Actors : Sound(a, session[a])

\* ... and a sound one.
LEMMA IdleSound == \A a : Sound(a, Idle)
BY DEF Sound, Idle, WorkOps

\* An action replaces at most one session.
LEMMA OneSession ==
    ASSUME TypeOK, SessionOK, NEW a \in Actors, NEW s \in Session, Sound(a, s),
           session' = [session EXCEPT ![a] = s]
    PROVE  session' \in [Actors -> Session] /\ SessionOK'
BY DEF TypeOK, SessionOK, Sound

\* The database before the first upload is well-typed.
LEMMA InitType == Init => TypeOK /\ SessionOK
BY IdleType, IdleSound DEF Init, TypeOK, SessionOK, NoDocRow, DocRow, ProcessingStatus,
                NoBatchRow, BatchRow, BatchStatus, NoContent, ContentRow

\* Submitting a batch, also one whose upload fails, keeps the types.
LEMMA SubmitType ==
    ASSUME TypeOK, SessionOK, NEW b \in Batches,
           \/ \E admin, folder \in BOOLEAN : SubmitBatch(b, admin, folder)
           \/ SubmitFails(b)
    PROVE  TypeOK' /\ SessionOK'
<1>1. CASE SubmitFails(b)
  BY <1>1 DEF SubmitFails, history, TypeOK, SessionOK, DocsOf
<1>2. ASSUME NEW admin \in BOOLEAN, NEW folder \in BOOLEAN,
             SubmitBatch(b, admin, folder)
      PROVE  TypeOK' /\ SessionOK'
  <2>. DEFINE row == [NoDocRow EXCEPT !.status = InitialStatus(admin),
                                      !.folder = admin /\ folder]
  <2>1. row \in DocRow
    BY DEF InitialStatus, NoDocRow, DocRow, ProcessingStatus
  <2>2. docs' \in [Docs -> DocRow]
    BY <1>2, <2>1 DEF SubmitBatch, TypeOK
  <2>3. [NoBatchRow EXCEPT !.status = "in_progress"] \in BatchRow
    BY DEF NoBatchRow, BatchRow, BatchStatus
  <2>4. batches' \in [Batches -> BatchRow]
    BY <1>2, <2>3 DEF SubmitBatch, TypeOK
  <2>5. entries' \in [Docs -> Nat]
    BY <1>2 DEF SubmitBatch, TypeOK
  <2>. QED
    BY <1>2, <2>2, <2>4, <2>5 DEF SubmitBatch, TypeOK, SessionOK, DocsOf
<1>. QED
  BY <1>1, <1>2

\* A claim keeps the types.
LEMMA ClaimType ==
    ASSUME TypeOK, SessionOK, NEW w \in Workers, NEW d \in Docs, Claim(w, d)
    PROVE  TypeOK' /\ SessionOK'
<1>1. Claimed(docs[d]) \in DocRow
  BY DEF Claimed, TypeOK, DocRow, ProcessingStatus
<1>2. docs' \in [Docs -> DocRow]
  BY <1>1 DEF Claim, TypeOK
<1>. DEFINE s == [session[w] EXCEPT !.step = "claimed", !.doc = d]
<1>3. w \in Actors /\ session[w] \in Session /\ Sound(w, session[w])
  BY DEF TypeOK, SessionOK, Actors
<1>4. s \in Session
  BY <1>3 DEF Session, Steps
<1>5. Sound(w, s)
  BY <1>3 DEF Sound, Session, Claim, MayOpen, WorkOps, RequestOps
<1>6. session' = [session EXCEPT ![w] = s]
  BY DEF Claim
<1>7. session' \in [Actors -> Session] /\ SessionOK'
  BY <1>3, <1>4, <1>5, <1>6, OneSession
<1>. QED
  BY <1>2, <1>7 DEF Claim, TypeOK, history

\* Loading a claimed document keeps the types.
LEMMA LoadType ==
    ASSUME TypeOK, SessionOK, NEW w \in Workers, LoadDocument(w)
    PROVE  TypeOK' /\ SessionOK'
<1>. DEFINE d == session[w].doc
            found == d \in source
            s == [session[w] EXCEPT !.step = "loaded", !.row = docs[d],
                                    !.fetched = found]
<1>1. w \in Actors /\ session[w] \in Session /\ Sound(w, session[w])
  BY DEF TypeOK, SessionOK, Actors
<1>2. d \in Docs /\ docs[d] \in DocRow
  BY <1>1 DEF LoadDocument, Sound, TypeOK
<1>3. s \in Session
  <2>1. found \in BOOLEAN
    OBVIOUS
  <2>. HIDE DEF found
  <2>. QED
    BY <1>1, <1>2, <2>1 DEF Session, Steps
<1>4. s.step = "loaded" /\ s.op = session[w].op /\ s.doc = d
  BY <1>1 DEF Session
<1>5. Sound(w, s)
  BY <1>1, <1>2, <1>4 DEF Sound, LoadDocument, WorkOps, RequestOps
<1>6. session' = [session EXCEPT ![w] = s]
  BY DEF LoadDocument
<1>7. session' \in [Actors -> Session] /\ SessionOK'
  BY <1>1, <1>3, <1>5, <1>6, OneSession
<1>. QED
  BY <1>7 DEF LoadDocument, TypeOK, history

\* The id of the live output of a document is a number.
LEMMA LiveIdType == ASSUME TypeOK, NEW d \in Docs PROVE LiveId(d) \in Nat
BY DEF LiveId, TypeOK, ContentRow

\* A request that loads a document and passes its check keeps the types.
LEMMA OpenType ==
    ASSUME TypeOK, SessionOK, NEW r \in Requests, NEW op \in RequestOps, NEW d \in Docs,
           OpenRequest(r, op, d)
    PROVE  TypeOK' /\ SessionOK'
<1>. DEFINE s == [Idle EXCEPT !.step = "loaded", !.op = op, !.doc = d,
                              !.row = docs[d], !.content_id = LiveId(d)]
<1>1. r \in Actors /\ r \notin Workers /\ docs[d] \in DocRow
  BY ConstAssumption DEF TypeOK, Actors
<1>2. s \in Session
  BY <1>1, IdleType, LiveIdType DEF Session, Steps
<1>3. /\ s.step = "loaded" /\ s.op = op /\ s.doc = d /\ s.row = docs[d]
      /\ docs[d].status = Demands(op)
  BY IdleType DEF OpenRequest, Session, Idle
<1>4. Sound(r, s)
  BY <1>1, <1>3 DEF Sound
<1>5. session' = [session EXCEPT ![r] = s]
  BY DEF OpenRequest
<1>6. session' \in [Actors -> Session] /\ SessionOK'
  BY <1>1, <1>2, <1>4, <1>5, OneSession
<1>. QED
  BY <1>6 DEF OpenRequest, TypeOK, history

\* The end of the pipeline, before its commit, keeps the types.
LEMMA FinishType ==
    ASSUME TypeOK, SessionOK, NEW w \in Workers, NEW outcome \in WorkOps,
           FinishPipeline(w, outcome)
    PROVE  TypeOK' /\ SessionOK'
<1>. DEFINE d == session[w].doc
            s == [session[w] EXCEPT !.step = "ready", !.op = outcome,
                                    !.content_id = LiveId(d),
                                    !.batch = batches[BatchOf[d]]]
<1>1. w \in Actors /\ session[w] \in Session /\ Sound(w, session[w])
  BY DEF TypeOK, SessionOK, Actors
<1>2. d \in Docs
  BY <1>1 DEF FinishPipeline, Sound
<1>3. batches[BatchOf[d]] \in BatchRow
  BY <1>2, ConstAssumption DEF TypeOK
<1>4. outcome \in {"complete", "fail", "fail_in_pr"}
  BY DEF FinishPipeline, Outcomes
<1>5. s \in Session
  BY <1>1, <1>2, <1>3, LiveIdType DEF Session, Steps
<1>6. s.step = "ready" /\ s.op = outcome /\ s.doc = d
  BY <1>1 DEF Session
<1>7. Sound(w, s)
  BY <1>2, <1>4, <1>6 DEF Sound, CountingOps, WorkOps, RequestOps
<1>8. session' = [session EXCEPT ![w] = s]
  BY DEF FinishPipeline
<1>9. session' \in [Actors -> Session] /\ SessionOK'
  BY <1>1, <1>5, <1>7, <1>8, OneSession
<1>. QED
  BY <1>9 DEF FinishPipeline, TypeOK, history

\* Loading the batch row keeps the types.
LEMMA LoadBatchType ==
    ASSUME TypeOK, SessionOK, NEW r \in Requests, LoadBatch(r)
    PROVE  TypeOK' /\ SessionOK'
<1>. DEFINE d == session[r].doc
            s == [session[r] EXCEPT !.step = "ready", !.batch = batches[BatchOf[d]]]
<1>1. r \in Actors /\ session[r] \in Session /\ Sound(r, session[r])
  BY DEF TypeOK, SessionOK, Actors
<1>2. d \in Docs
  BY <1>1 DEF LoadBatch, Sound
<1>3. batches[BatchOf[d]] \in BatchRow
  BY <1>2, ConstAssumption DEF TypeOK
<1>4. s \in Session
  BY <1>1, <1>3 DEF Session, Steps
<1>5. s.step = "ready" /\ s.op = session[r].op /\ s.doc = d /\ s.row = session[r].row
  BY <1>1 DEF Session
<1>6. Sound(r, s)
  BY <1>1, <1>2, <1>5 DEF LoadBatch, Sound, BatchOps, CountingOps, WorkOps, RequestOps
<1>7. session' = [session EXCEPT ![r] = s]
  BY DEF LoadBatch
<1>8. session' \in [Actors -> Session] /\ SessionOK'
  BY <1>1, <1>4, <1>6, <1>7, OneSession
<1>. QED
  BY <1>8 DEF LoadBatch, TypeOK, history

\* What is known of a session that is about to commit.
LEMMA CommitPre ==
    ASSUME TypeOK, SessionOK, NEW a \in Actors, AtCommit(session[a])
    PROVE  /\ session[a] \in Session
           /\ session[a].doc \in Docs
           /\ session[a].op \in AllOps \ {"work"}
           /\ session[a].step = "ready" => session[a].op \in CountingOps
           /\ session[a].op \in RequestOps =>
                 session[a].row.status = Demands(session[a].op)
           /\ a \in Workers => session[a].op \in WorkOps
           /\ a \notin Workers => session[a].op \in RequestOps
           /\ BatchOf[session[a].doc] \in Batches
<1>1. session[a] \in Session /\ Sound(a, session[a])
  BY DEF TypeOK, SessionOK
<1>2. session[a].doc \in Docs
  BY <1>1 DEF Sound, AtCommit
<1>. QED
  BY <1>1, <1>2, ConstAssumption
     DEF Sound, AtCommit, Session, AllOps, WorkOps, RequestOps, CountingOps

\* The commit of a worker or request keeps the types.
LEMMA CommitType ==
    ASSUME TypeOK, SessionOK, NEW a \in Actors, Commit(a)
    PROVE  TypeOK' /\ SessionOK'
<1>. DEFINE s == session[a]
            d == s.doc
            b == BatchOf[d]
            t == IF s.op \in {"complete", "reject"}
                 THEN [Idle EXCEPT !.step = "cleanup", !.doc = d] ELSE Idle
<1>1. /\ AtCommit(s) /\ s \in Session /\ d \in Docs /\ b \in Batches /\ s.op \in AllOps
      /\ s.step = "ready" => s.op \in CountingOps
  BY CommitPre DEF Commit
<1>2. s.row \in DocRow /\ s.batch \in BatchRow /\ s.content_id \in Nat
  BY <1>1 DEF Session
<1>3. docs' \in [Docs -> DocRow]
  <2>1. Flush(docs[d], s.row, Assigned(s.op, s.row)) \in DocRow
    BY <1>1, <1>2, AssignedType, DocFlush DEF TypeOK
  <2>. QED
    BY <1>1, <2>1 DEF Commit, TypeOK
<1>4. batches' \in [Batches -> BatchRow]
  <2>1. CASE s.step = "ready"
    <3>1. Flush(batches[b], s.batch, Counted(s.op, s.batch, Total(b))) \in BatchRow
      BY <1>1, <1>2, <2>1, CountedType, BatchFlush DEF TypeOK
    <3>. QED
      BY <1>1, <2>1, <3>1 DEF Commit, TypeOK
  <2>2. CASE s.step # "ready"
    BY <2>2 DEF Commit, TypeOK
  <2>. QED
    BY <2>1, <2>2
<1>5. content' \in [Docs -> ContentRow]
  <2>1. Produced(s.op, content[d], s.content_id) \in ContentRow
    BY <1>1, <1>2, ProducedType DEF TypeOK
  <2>. QED
    BY <1>1, <2>1 DEF Commit, TypeOK
<1>6. session' \in [Actors -> Session] /\ SessionOK'
  <2>1. t \in Session
    BY <1>1, IdleType DEF Session, Steps
  <2>2. Sound(a, t)
    BY <1>1, IdleSound DEF Sound, Idle, WorkOps
  <2>3. session' = [session EXCEPT ![a] = t]
    BY DEF Commit
  <2>. QED
    BY <2>1, <2>2, <2>3, OneSession
<1>7. entries' \in [Docs -> Nat]
  BY <1>1 DEF Commit, TypeOK
<1>8. cleared' \subseteq Docs /\ overruled' \subseteq Docs
  BY <1>1 DEF Commit, TypeOK
<1>9. UNCHANGED <<source, up, crashes, calm>>
  BY DEF Commit
<1>. QED
  BY <1>3, <1>4, <1>5, <1>6, <1>7, <1>8, <1>9 DEF TypeOK

\* A failed commit and the deletion of the staged file keep the types.
LEMMA EndType ==
    ASSUME TypeOK, SessionOK, NEW a \in Actors, CommitFails(a) \/ DeleteSource(a)
    PROVE  TypeOK' /\ SessionOK'
<1>1. session' = [session EXCEPT ![a] = Idle]
  BY DEF CommitFails, DeleteSource, AfterFailedCommit
<1>2. session' \in [Actors -> Session] /\ SessionOK'
  BY <1>1, IdleType, IdleSound, OneSession
<1>3. source' \subseteq Docs
  BY DEF CommitFails, DeleteSource, TypeOK
<1>. QED
  BY <1>2, <1>3 DEF CommitFails, DeleteSource, TypeOK, history

\* The watchdog, a pod's death and its recovery keep the types.
LEMMA FaultType ==
    ASSUME TypeOK, SessionOK,
           \/ \E d \in Docs : Watchdog(d)
           \/ \E p \in Pods : Crash(p) \/ Start(p)
    PROVE  TypeOK' /\ SessionOK'
<1>1. ASSUME NEW d \in Docs, Watchdog(d) PROVE TypeOK' /\ SessionOK'
  <2>1. [docs[d] EXCEPT !.status = "failed", !.failure = TRUE] \in DocRow
    BY DEF TypeOK, DocRow, ProcessingStatus
  <2>2. docs' = [docs EXCEPT ![d] = [docs[d] EXCEPT !.status = "failed",
                                                    !.failure = TRUE]]
    BY <1>1 DEF Watchdog, TypeOK
  <2>3. docs' \in [Docs -> DocRow]
    BY <2>1, <2>2 DEF TypeOK
  <2>. QED
    BY <1>1, <2>3 DEF Watchdog, TypeOK, SessionOK, history
<1>2. ASSUME NEW p \in Pods, Crash(p) PROVE TypeOK' /\ SessionOK'
  <2>1. \A a \in Actors : session'[a] = IF PodOf[a] = p THEN Idle ELSE session[a]
    BY <1>2 DEF Crash
  <2>2. \A a \in Actors : session'[a] \in Session
    BY <2>1, IdleType DEF TypeOK
  <2>3. session' \in [Actors -> Session]
    BY <1>2, <2>2 DEF Crash
  <2>4. SessionOK'
    BY <2>1, IdleSound DEF SessionOK, Sound
  <2>. QED
    BY <1>2, <2>3, <2>4 DEF Crash, TypeOK
<1>3. ASSUME NEW p \in Pods, Start(p) PROVE TypeOK' /\ SessionOK'
  <2>1. \A d \in Docs : [docs[d] EXCEPT !.status = "queued", !.started = FALSE] \in DocRow
    BY DEF TypeOK, DocRow, ProcessingStatus
  <2>2. docs' \in [Docs -> DocRow]
    <3>. DEFINE stuck == {d \in Docs : docs[d].status = "processing"}
                next(d) == IF d \in stuck
                           THEN [docs[d] EXCEPT !.status = "queued", !.started = FALSE]
                           ELSE docs[d]
    <3>1. docs' = [d \in Docs |-> next(d)]
      BY <1>3 DEF Start
    <3>2. \A d \in Docs : next(d) \in DocRow
      BY <2>1 DEF TypeOK
    <3>. HIDE DEF next
    <3>. QED
      BY <3>1, <3>2
  <2>3. entries' \in [Docs -> Nat]
    <3>. DEFINE next(d) == IF docs[d].status = "processing" THEN entries[d] + 1
                                                            ELSE entries[d]
    <3>1. entries' = [d \in Docs |-> next(d)]
      BY <1>3 DEF Start
    <3>2. \A d \in Docs : next(d) \in Nat
      BY DEF TypeOK
    <3>. HIDE DEF next
    <3>. QED
      BY <3>1, <3>2
  <2>. QED
    BY <1>3, <2>2, <2>3 DEF Start, TypeOK, SessionOK
<1>. QED
  BY <1>1, <1>2, <1>3

\* Every reachable state is well-typed, for every instance of the pipeline.
LEMMA NextType == TypeOK /\ SessionOK /\ [Next]_vars => TypeOK' /\ SessionOK'
<1>. SUFFICES ASSUME TypeOK, SessionOK, [Next]_vars PROVE TypeOK' /\ SessionOK'
  OBVIOUS
<1>1. CASE \E b \in Batches : \/ \E admin, folder \in BOOLEAN : SubmitBatch(b, admin, folder)
                             \/ SubmitFails(b)
  BY <1>1, SubmitType
<1>2. CASE \E w \in Workers : WorkerStep(w)
  BY <1>2, ClaimType, LoadType, FinishType DEF WorkerStep
<1>3. CASE \E r \in Requests, op \in RequestOps, d \in Docs : OpenRequest(r, op, d)
  BY <1>3, OpenType
<1>4. CASE \E r \in Requests : LoadBatch(r)
  BY <1>4, LoadBatchType
<1>5. CASE \E a \in Actors : CloseSession(a)
  BY <1>5, CommitType, EndType DEF CloseSession
<1>6. CASE \/ \E d \in Docs : Watchdog(d)
          \/ \E p \in Pods : Crash(p) \/ Start(p)
  BY <1>6, FaultType
<1>7. CASE UNCHANGED vars
  BY <1>7 DEF vars, history, TypeOK, SessionOK
<1>. QED
  BY <1>1, <1>2, <1>3, <1>4, <1>5, <1>6, <1>7 DEF Next

\* Rows, sessions and histories always have their types, whatever the
\* interleaving and the faults: in particular the counters of a batch never
\* go below zero.
THEOREM TypeCorrect == Spec => []TypeOK
<1>1. TypeOK /\ SessionOK /\ [Next]_vars => (TypeOK /\ SessionOK)'
  BY NextType
<1>. QED
  BY <1>1, InitType, PTL DEF Spec

\* What a session holds fits its step, in every reachable state: a worker
\* only works, a request only does what requests do, and whoever is not idle
\* has a document.
THEOREM SessionsSound == Spec => []SessionOK
<1>1. TypeOK /\ SessionOK /\ [Next]_vars => (TypeOK /\ SessionOK)'
  BY NextType
<1>. QED
  BY <1>1, InitType, PTL DEF Spec

(***************************************************************************)
(* What a commit writes, in terms of the status and the start time.        *)
(***************************************************************************)
LEMMA AssignedIs ==
    ASSUME NEW op \in AllOps \ {"work"}, NEW row \in DocRow
    PROVE  LET new == Assigned(op, row)
           IN /\ op = "complete" => new.status = "completed"
              /\ op \in {"fail", "fail_in_pr"} => new.status = "failed"
              /\ op \in {"retry", "flag", "approve"} => new.status = "queued"
              /\ op = "reject" => new.status = "rejected"
              /\ op = "approve_output" => new = row
              /\ op \notin {"retry", "flag"} => new.started = row.started
<1>1. CASE op = "complete"
  BY <1>1 DEF Assigned, DocRow
<1>2. CASE op \in {"fail", "fail_in_pr"}
  BY <1>2 DEF Assigned, DocRow
<1>3. CASE op \in {"retry", "flag"}
  BY <1>3 DEF Assigned, Requeued, DocRow
<1>4. CASE op = "approve"
  BY <1>4 DEF Assigned, DocRow
<1>5. CASE op = "reject"
  BY <1>5 DEF Assigned, DocRow
<1>6. CASE op = "approve_output"
  BY <1>6 DEF Assigned
<1>. QED
  BY <1>1, <1>2, <1>3, <1>4, <1>5, <1>6 DEF AllOps, WorkOps, RequestOps

\* The status a commit leaves in the row.  Only a request can change it in a
\* way that depends on what was loaded, and it loaded what it demands.
LEMMA CommitStatus ==
    ASSUME TypeOK, SessionOK, NEW a \in Actors, Commit(a)
    PROVE  LET op == session[a].op
               d == session[a].doc
           IN /\ d \in Docs
              /\ \A e \in Docs \ {d} : docs'[e] = docs[e]
              /\ \/ docs'[d].status = docs[d].status
                    /\ op \notin {"retry", "flag", "approve", "reject"}
                    /\ docs'[d].started = docs[d].started
                 \/ docs'[d].status = "completed" /\ op = "complete"
                 \/ docs'[d].status = "failed" /\ op \in {"fail", "fail_in_pr"}
                 \/ docs'[d].status = "queued" /\ op \in {"retry", "flag", "approve"}
                 \/ docs'[d].status = "rejected" /\ op = "reject"
<1>. DEFINE s == session[a]
            d == s.doc
            new == Assigned(s.op, s.row)
            f == Flush(docs[d], s.row, new)
<1>1. /\ s \in Session /\ d \in Docs /\ s.op \in AllOps \ {"work"}
      /\ s.op \in RequestOps => s.row.status = Demands(s.op)
  BY CommitPre DEF Commit
<1>2. s.row \in DocRow /\ new \in DocRow /\ docs[d] \in DocRow
  BY <1>1, AssignedType DEF Session, TypeOK
<1>3. /\ f.status = IF new.status # s.row.status THEN new.status ELSE docs[d].status
      /\ f.started = IF new.started # s.row.started THEN new.started ELSE docs[d].started
  BY <1>2, DocFlush
<1>4. docs'[d] = f /\ \A e \in Docs \ {d} : docs'[e] = docs[e]
  BY <1>1 DEF Commit, TypeOK
<1>5. s.op \in {"retry", "flag", "approve", "reject"} => new.status # s.row.status
  BY <1>1, <1>2, AssignedIs DEF Demands, RequestOps
<1>. HIDE DEF f, new
<1>6. CASE new.status = s.row.status
  BY <1>1, <1>2, <1>3, <1>4, <1>5, <1>6, AssignedIs DEF new
<1>7. CASE new.status # s.row.status
  BY <1>1, <1>2, <1>3, <1>4, <1>7, AssignedIs DEF new, AllOps, WorkOps, RequestOps
<1>. QED
  BY <1>1, <1>4, <1>6, <1>7

(***************************************************************************)
(* The watchdog can see every claim.                                       *)
(***************************************************************************)
LEMMA InitialNotProcessing ==
    \A admin \in BOOLEAN : InitialStatus(admin) \in {"queued", "pending_approval"}
BY DEF InitialStatus

\* No step leaves a document in processing without its start time.
LEMMA WatchdogStep ==
    TypeOK /\ SessionOK /\ WatchdogSeesEveryClaim /\ [Next]_vars
       => WatchdogSeesEveryClaim'
<1>. SUFFICES ASSUME TypeOK, SessionOK, WatchdogSeesEveryClaim, [Next]_vars,
                     NEW e \in Docs, docs'[e].status = "processing"
              PROVE  docs'[e].started
  BY DEF WatchdogSeesEveryClaim
<1>1. CASE UNCHANGED docs
  BY <1>1 DEF WatchdogSeesEveryClaim
<1>2. ASSUME NEW b \in Batches, NEW admin \in BOOLEAN, NEW folder \in BOOLEAN,
             SubmitBatch(b, admin, folder)
      PROVE  docs'[e].started
  <2>1. CASE BatchOf[e] = b
    BY <1>2, <2>1, InitialNotProcessing DEF SubmitBatch, NoDocRow
  <2>2. CASE BatchOf[e] # b
    BY <1>2, <2>2 DEF SubmitBatch, WatchdogSeesEveryClaim
  <2>. QED
    BY <2>1, <2>2
<1>3. ASSUME NEW w \in Workers, NEW d \in Docs, Claim(w, d)
      PROVE  docs'[e].started
  BY <1>3 DEF Claim, Claimed, TypeOK, DocRow, WatchdogSeesEveryClaim
<1>4. ASSUME NEW a \in Actors, Commit(a)
      PROVE  docs'[e].started
  <2>1. CASE e = session[a].doc
    BY <1>4, <2>1, CommitStatus DEF WatchdogSeesEveryClaim
  <2>2. CASE e # session[a].doc
    BY <1>4, <2>2, CommitStatus DEF WatchdogSeesEveryClaim
  <2>. QED
    BY <2>1, <2>2
<1>5. ASSUME NEW d \in Docs, Watchdog(d)
      PROVE  docs'[e].started
  BY <1>5 DEF Watchdog, TypeOK, DocRow, WatchdogSeesEveryClaim
<1>6. ASSUME NEW p \in Pods, Start(p)
      PROVE  docs'[e].started
  <2>1. CASE docs[e].status = "processing"
    BY <1>6, <2>1 DEF Start, TypeOK, DocRow
  <2>2. CASE docs[e].status # "processing"
    BY <1>6, <2>2 DEF Start, TypeOK, DocRow
  <2>. QED
    BY <2>1, <2>2
<1>. QED
  BY <1>1, <1>2, <1>3, <1>4, <1>5, <1>6
     DEF Next, WorkerStep, CloseSession, vars, history, SubmitFails, LoadDocument, FinishPipeline,
         OpenRequest, LoadBatch, CommitFails, DeleteSource, Crash

\* No interleaving of claims, retries, reviews, watchdogs and recoveries, in
\* any number of pods, leaves a document in processing without the start
\* time by which the watchdog finds it.
THEOREM WatchdogComplete == Spec => []WatchdogSeesEveryClaim
<1>1. Init => WatchdogSeesEveryClaim
  BY DEF Init, NoDocRow, WatchdogSeesEveryClaim
<1>2. TypeOK /\ SessionOK /\ WatchdogSeesEveryClaim /\ [Next]_vars
         => WatchdogSeesEveryClaim'
  BY WatchdogStep
<1>. QED
  BY <1>1, <1>2, TypeCorrect, SessionsSound, PTL DEF Spec

(***************************************************************************)
(* Completed documents have content.                                       *)
(***************************************************************************)

\* What an operation does to the existence of the processed document.
LEMMA ProducedIs ==
    ASSUME NEW op \in AllOps \ {"work"}, NEW row \in ContentRow, NEW id \in Nat
    PROVE  LET new == Produced(op, row, id)
           IN /\ op \in {"complete", "fail_in_pr"} => new.live
              /\ op \notin {"complete", "fail_in_pr", "flag"} => new.live = row.live
              /\ op = "flag" => (new.live => row.live)
<1>1. CASE op \in {"complete", "fail_in_pr"}
  <2>1. Produced(op, row, id) = [id |-> row.id + 1, live |-> TRUE, approved |-> FALSE,
                                 in_kb |-> FALSE]
    BY <1>1 DEF Produced
  <2>2. Produced(op, row, id).live
    BY <2>1
  <2>. QED
    BY <1>1, <2>2
<1>2. CASE op = "flag"
  <2>1. CASE row.id = id
    BY <1>2, <2>1 DEF Produced, ContentRow
  <2>2. CASE row.id # id
    BY <1>2, <2>2 DEF Produced
  <2>. QED
    BY <2>1, <2>2
<1>3. CASE op = "approve_output"
  <2>1. CASE id # 0
    BY <1>3, <2>1 DEF Produced, ContentRow
  <2>2. CASE id = 0
    BY <1>3, <2>2 DEF Produced
  <2>. QED
    BY <1>3, <2>1, <2>2
<1>4. CASE op \in {"fail", "retry", "approve", "reject"}
  <2>1. Produced(op, row, id) = row
    BY <1>4 DEF Produced
  <2>. QED
    BY <1>4, <2>1
<1>. QED
  BY <1>1, <1>2, <1>3, <1>4 DEF AllOps, WorkOps, RequestOps

\* What a commit does to the existence of each processed document.
LEMMA CommitContent ==
    ASSUME TypeOK, SessionOK, NEW a \in Actors, Commit(a)
    PROVE  LET op == session[a].op
               d == session[a].doc
           IN /\ \A e \in Docs \ {d} : content'[e] = content[e]
              /\ op \in {"complete", "fail_in_pr"} => content'[d].live
              /\ op \notin {"complete", "fail_in_pr", "flag"} =>
                    content'[d].live = content[d].live
              /\ op = "flag" => (content'[d].live => content[d].live)
<1>. DEFINE s == session[a]
            d == s.doc
<1>1. s \in Session /\ d \in Docs /\ s.op \in AllOps \ {"work"}
  BY CommitPre DEF Commit
<1>2. content[d] \in ContentRow /\ s.content_id \in Nat
  BY <1>1 DEF TypeOK, Session
<1>3. /\ content'[d] = Produced(s.op, content[d], s.content_id)
      /\ \A e \in Docs \ {d} : content'[e] = content[e]
  BY <1>1 DEF Commit, TypeOK
<1>. QED
  BY <1>1, <1>2, <1>3, ProducedIs

\* No step leaves a completed document without its output.
LEMMA CompletedStep ==
    TypeOK /\ SessionOK /\ CompletedHasContent /\ [Next]_vars => CompletedHasContent'
<1>. SUFFICES ASSUME TypeOK, SessionOK, CompletedHasContent, [Next]_vars,
                     NEW e \in Docs, docs'[e].status = "completed"
              PROVE  content'[e].live
  BY DEF CompletedHasContent
<1>1. CASE UNCHANGED <<docs, content>>
  BY <1>1 DEF CompletedHasContent
<1>2. ASSUME NEW b \in Batches, NEW admin \in BOOLEAN, NEW folder \in BOOLEAN,
             SubmitBatch(b, admin, folder)
      PROVE  content'[e].live
  <2>1. CASE BatchOf[e] = b
    BY <1>2, <2>1, InitialNotProcessing DEF SubmitBatch, NoDocRow
  <2>2. CASE BatchOf[e] # b
    BY <1>2, <2>2 DEF SubmitBatch, CompletedHasContent
  <2>. QED
    BY <2>1, <2>2
<1>3. ASSUME NEW w \in Workers, NEW d \in Docs, Claim(w, d)
      PROVE  content'[e].live
  BY <1>3 DEF Claim, Claimed, TypeOK, DocRow, CompletedHasContent
<1>4. ASSUME NEW a \in Actors, Commit(a)
      PROVE  content'[e].live
  <2>1. CASE e = session[a].doc
    BY <1>4, <2>1, CommitStatus, CommitContent DEF CompletedHasContent
  <2>2. CASE e # session[a].doc
    BY <1>4, <2>2, CommitStatus, CommitContent DEF CompletedHasContent
  <2>. QED
    BY <2>1, <2>2
<1>5. ASSUME NEW d \in Docs, Watchdog(d)
      PROVE  content'[e].live
  BY <1>5 DEF Watchdog, TypeOK, DocRow, CompletedHasContent
<1>6. ASSUME NEW p \in Pods, Start(p)
      PROVE  content'[e].live
  <2>1. CASE docs[e].status = "processing"
    BY <1>6, <2>1 DEF Start, TypeOK, DocRow
  <2>2. CASE docs[e].status # "processing"
    BY <1>6, <2>2 DEF Start, TypeOK, DocRow, CompletedHasContent
  <2>. QED
    BY <2>1, <2>2
<1>. QED
  BY <1>1, <1>2, <1>3, <1>4, <1>5, <1>6
     DEF Next, WorkerStep, CloseSession, vars, history, SubmitFails, LoadDocument, FinishPipeline,
         OpenRequest, LoadBatch, CommitFails, DeleteSource, Crash

\* A document is never shown as completed without an output to show, however
\* many workers process it at once and whatever reviewers do meanwhile.
THEOREM CompletedHasOutput == Spec => []CompletedHasContent
<1>1. Init => CompletedHasContent
  BY DEF Init, NoDocRow, CompletedHasContent
<1>2. TypeOK /\ SessionOK /\ CompletedHasContent /\ [Next]_vars => CompletedHasContent'
  BY CompletedStep
<1>. QED
  BY <1>1, <1>2, TypeCorrect, SessionsSound, PTL DEF Spec

(***************************************************************************)
(* Only cleared documents are processed.  The property is not inductive by *)
(* itself: a claimed document must still be cleared when its worker        *)
(* commits, so every session past its own check carries the clearance.     *)
(***************************************************************************)
PastApproval(s) ==
    /\ s.step \in {"claimed", "loaded", "ready"}
    /\ s.op \notin {"approve", "reject"}

ClearanceInv ==
    /\ \A d \in Docs :
          docs[d].status \notin {"absent", "pending_approval", "rejected"} => d \in cleared
    /\ \A d \in Docs : content[d].live => d \in cleared
    /\ \A a \in Actors : PastApproval(session[a]) => session[a].doc \in cleared

\* Before the first upload nothing needs clearance.
LEMMA ClearanceInit == Init => ClearanceInv
BY DEF Init, ClearanceInv, NoDocRow, NoContent, Idle, PastApproval

\* The strengthening implies the property.
LEMMA ClearanceImplies ==
    TypeOK /\ SessionOK /\ ClearanceInv => OnlyClearedIsProcessed
<1>. SUFFICES ASSUME TypeOK, SessionOK, ClearanceInv, NEW d \in Docs,
                     NEW w \in Workers, w \in Holders(d)
              PROVE  d \in cleared
  BY DEF OnlyClearedIsProcessed, ClearanceInv, Holders
<1>1. w \in Actors /\ Sound(w, session[w]) /\ session[w].doc = d
  BY DEF SessionOK, Actors, Holders
<1>2. PastApproval(session[w])
  BY <1>1 DEF Holders, PastApproval, Sound, WorkOps
<1>. QED
  BY <1>1, <1>2 DEF ClearanceInv

\* Only an administrator's upload is queued at once.
LEMMA ClearanceSubmit ==
    ASSUME TypeOK, ClearanceInv, NEW b \in Batches, NEW admin \in BOOLEAN,
           NEW folder \in BOOLEAN, SubmitBatch(b, admin, folder)
    PROVE  ClearanceInv'
<1>1. cleared \subseteq cleared'
  BY DEF SubmitBatch
<1>2. ASSUME NEW d \in Docs,
             docs'[d].status \notin {"absent", "pending_approval", "rejected"}
      PROVE  d \in cleared'
  <2>1. CASE BatchOf[d] = b
    <3>1. docs'[d].status = InitialStatus(admin)
      BY <2>1 DEF SubmitBatch, NoDocRow
    <3>. QED
      BY <1>2, <2>1, <3>1 DEF InitialStatus, SubmitBatch, DocsOf
  <2>2. CASE BatchOf[d] # b
    BY <1>1, <1>2, <2>2 DEF SubmitBatch, ClearanceInv
  <2>. QED
    BY <2>1, <2>2
<1>. QED
  BY <1>1, <1>2 DEF SubmitBatch, ClearanceInv

\* The actions that open a session or take it further.
LEMMA ClearanceSession ==
    ASSUME TypeOK, SessionOK, ClearanceInv, NEW a \in Actors, NEW s \in Session,
           session' = [session EXCEPT ![a] = s], UNCHANGED <<content, cleared>>,
           \A d \in Docs : docs'[d].status = docs[d].status \/ docs[d].status = "queued",
           PastApproval(s) => s.doc \in cleared
    PROVE  ClearanceInv'
BY DEF ClearanceInv, TypeOK

\* A claim takes a queued document, which was cleared.
LEMMA ClearanceClaim ==
    ASSUME TypeOK, SessionOK, ClearanceInv, NEW w \in Workers, NEW d \in Docs, Claim(w, d)
    PROVE  ClearanceInv'
<1>. DEFINE s == [session[w] EXCEPT !.step = "claimed", !.doc = d]
<1>1. w \in Actors /\ session[w] \in Session
  BY DEF Actors, TypeOK
<1>2. s \in Session /\ s.doc = d
  BY <1>1 DEF Session, Steps
<1>3. docs[d].status = "queued" /\ d \in cleared
  BY DEF Claim, Claimable, ClearanceInv
<1>4. \A e \in Docs : docs'[e].status = docs[e].status \/ docs[e].status = "queued"
  BY <1>3 DEF Claim, TypeOK
<1>5. session' = [session EXCEPT ![w] = s] /\ UNCHANGED <<content, cleared>>
  BY DEF Claim, history
<1>. QED
  BY <1>1, <1>2, <1>3, <1>4, <1>5, ClearanceSession

\* Loading copies a row; the copy is as cleared as the document.
LEMMA ClearanceLoad ==
    ASSUME TypeOK, SessionOK, ClearanceInv, NEW a \in Actors,
           \/ LoadDocument(a)
           \/ a \in Workers /\ \E outcome \in WorkOps : FinishPipeline(a, outcome)
           \/ LoadBatch(a)
    PROVE  ClearanceInv'
<1>. DEFINE s == session'[a]
<1>1. session[a] \in Session /\ UNCHANGED <<docs, content, cleared>>
  BY DEF TypeOK, LoadDocument, FinishPipeline, LoadBatch, history
<1>2. /\ session[a].step \in {"claimed", "loaded"}
      /\ \A x \in Actors \ {a} : session'[x] = session[x]
  BY DEF LoadDocument, FinishPipeline, LoadBatch, TypeOK
<1>3. /\ s.doc = session[a].doc
      /\ s.op \notin {"approve", "reject"} => session[a].op \notin {"approve", "reject"}
  <2>1. CASE LoadDocument(a)
    BY <1>1, <2>1 DEF LoadDocument, TypeOK, Session
  <2>2. ASSUME a \in Workers, NEW outcome \in WorkOps, FinishPipeline(a, outcome)
        PROVE  s.doc = session[a].doc /\ session[a].op \notin {"approve", "reject"}
    <3>1. session[a].op \in WorkOps
      BY <2>2 DEF SessionOK, Sound
    <3>2. s.doc = session[a].doc
      BY <1>1, <2>2 DEF FinishPipeline, TypeOK, Session
    <3>. QED
      BY <3>1, <3>2 DEF WorkOps
  <2>3. CASE LoadBatch(a)
    BY <1>1, <2>3 DEF LoadBatch, TypeOK, Session
  <2>. QED
    BY <2>1, <2>2, <2>3
<1>. HIDE DEF s
<1>4. PastApproval(s) => s.doc \in cleared
  BY <1>2, <1>3 DEF PastApproval, ClearanceInv
<1>. QED
  BY <1>1, <1>2, <1>4 DEF ClearanceInv, s

\* A request copies a row; the copy is as cleared as the document.
LEMMA ClearanceOpen ==
    ASSUME TypeOK, SessionOK, ClearanceInv, NEW r \in Requests, NEW op \in RequestOps,
           NEW d \in Docs, OpenRequest(r, op, d)
    PROVE  ClearanceInv'
<1>. DEFINE s == [Idle EXCEPT !.step = "loaded", !.op = op, !.doc = d,
                              !.row = docs[d], !.content_id = LiveId(d)]
<1>1. r \in Actors /\ docs[d] \in DocRow
  BY DEF Actors, TypeOK
<1>2. s \in Session
  BY <1>1, IdleType, LiveIdType DEF Session, Steps
<1>3. s.op = op /\ s.doc = d
  BY DEF Idle
<1>4. op \notin {"approve", "reject"} => docs[d].status \in {"failed", "completed"}
  BY DEF OpenRequest, Demands, RequestOps
<1>5. PastApproval(s) => s.doc \in cleared
  BY <1>3, <1>4 DEF PastApproval, ClearanceInv
<1>6. session' = [session EXCEPT ![r] = s] /\ UNCHANGED <<docs, content, cleared>>
  BY DEF OpenRequest, history
<1>. QED
  BY <1>1, <1>2, <1>5, <1>6, ClearanceSession

\* A commit queues only what an approval clears or what was cleared before.
LEMMA ClearanceCommit ==
    ASSUME TypeOK, SessionOK, ClearanceInv, NEW a \in Actors, Commit(a)
    PROVE  ClearanceInv'
<1>. DEFINE op == session[a].op
            d == session[a].doc
<1>1. d \in Docs /\ op \in AllOps \ {"work"} /\ session[a].step \in {"loaded", "ready"}
  BY CommitPre DEF Commit, AtCommit
<1>2. cleared \subseteq cleared' /\ (op = "approve" => d \in cleared')
  BY DEF Commit
<1>3. op \notin {"approve", "reject"} => d \in cleared
  BY <1>1 DEF ClearanceInv, PastApproval
<1>4. \A e \in Docs :
         docs'[e].status \notin {"absent", "pending_approval", "rejected"} => e \in cleared'
  BY <1>2, <1>3, CommitStatus DEF ClearanceInv
<1>5. \A e \in Docs : content'[e].live => e \in cleared'
  BY <1>2, <1>3, CommitContent DEF ClearanceInv
<1>6. \A x \in Actors : PastApproval(session'[x]) => session'[x].doc \in cleared'
  <2>1. session'[a].step \in {"idle", "cleanup"}
    BY DEF Commit, TypeOK, Idle
  <2>2. \A x \in Actors \ {a} : session'[x] = session[x]
    BY DEF Commit, TypeOK
  <2>. QED
    BY <1>2, <2>1, <2>2 DEF PastApproval, ClearanceInv
<1>. QED
  BY <1>4, <1>5, <1>6 DEF ClearanceInv

\* A failed commit and the deletion of the staged file change no document.
LEMMA ClearanceEnd ==
    ASSUME TypeOK, ClearanceInv, NEW a \in Actors, CommitFails(a) \/ DeleteSource(a)
    PROVE  ClearanceInv'
<1>1. session' = [session EXCEPT ![a] = Idle] /\ UNCHANGED <<docs, content, cleared>>
  BY DEF CommitFails, DeleteSource, AfterFailedCommit, history
<1>2. ~PastApproval(Idle)
  BY DEF Idle, PastApproval
<1>. QED
  BY <1>1, <1>2 DEF ClearanceInv, TypeOK

\* Watchdog, crash and recovery move only documents that were processed.
LEMMA ClearanceFault ==
    ASSUME TypeOK, ClearanceInv,
           \/ \E d \in Docs : Watchdog(d)
           \/ \E p \in Pods : Crash(p) \/ Start(p)
    PROVE  ClearanceInv'
<1>1. ASSUME NEW d \in Docs, Watchdog(d) PROVE ClearanceInv'
  <2>1. /\ docs[d].status = "processing"
        /\ \A e \in Docs \ {d} : docs'[e] = docs[e]
    BY <1>1 DEF Watchdog, Watched, TypeOK
  <2>. QED
    BY <1>1, <2>1 DEF Watchdog, ClearanceInv, history
<1>2. ASSUME NEW p \in Pods, Crash(p) PROVE ClearanceInv'
  <2>1. \A x \in Actors : session'[x] = session[x] \/ session'[x] = Idle
    BY <1>2 DEF Crash
  <2>2. ~PastApproval(Idle)
    BY DEF Idle, PastApproval
  <2>. QED
    BY <1>2, <2>1, <2>2 DEF Crash, ClearanceInv
<1>3. ASSUME NEW p \in Pods, Start(p) PROVE ClearanceInv'
  <2>1. \A e \in Docs : docs'[e].status = docs[e].status \/ docs[e].status = "processing"
    BY <1>3 DEF Start
  <2>. QED
    BY <1>3, <2>1 DEF Start, ClearanceInv
<1>. QED
  BY <1>1, <1>2, <1>3

\* Every step keeps the clearance invariant.
LEMMA ClearanceStep ==
    TypeOK /\ SessionOK /\ ClearanceInv /\ [Next]_vars => ClearanceInv'
<1>. SUFFICES ASSUME TypeOK, SessionOK, ClearanceInv, [Next]_vars PROVE ClearanceInv'
  OBVIOUS
<1>1. ASSUME NEW b \in Batches, SubmitFails(b) PROVE ClearanceInv'
  BY <1>1 DEF SubmitFails, ClearanceInv, history
<1>2. CASE UNCHANGED vars
  BY <1>2 DEF vars, history, ClearanceInv
<1>. QED
  BY <1>1, <1>2, ClearanceSubmit, ClearanceClaim, ClearanceLoad, ClearanceOpen,
     ClearanceCommit, ClearanceEnd, ClearanceFault
     DEF Next, WorkerStep, CloseSession, Actors

\* Nothing that an administrator did not let into the queue is ever claimed,
\* processed or turned into output: no race of approvals, rejections,
\* recoveries and retries gets a pending upload past the approval.
THEOREM ApprovalGatesProcessing == Spec => []OnlyClearedIsProcessed
<1>1. TypeOK /\ SessionOK /\ ClearanceInv /\ [Next]_vars => ClearanceInv'
  BY ClearanceStep
<1>. QED
  BY <1>1, ClearanceInit, ClearanceImplies, TypeCorrect, SessionsSound, PTL DEF Spec

(***************************************************************************)
(* Only what was reviewed is published: no invariant of the history is     *)
(* needed, the check is the database's own at the commit of the approval.  *)
(***************************************************************************)
LEMMA PublishCommit ==
    ASSUME TypeOK, SessionOK, NEW a \in Actors, Commit(a), NEW d \in Docs
    PROVE  Published(d)
<1>. DEFINE s == session[a]
<1>1. /\ s \in Session /\ s.doc \in Docs /\ s.op \in AllOps \ {"work"}
      /\ a \in Workers => s.op \in WorkOps
  BY CommitPre DEF Commit
<1>2. /\ content[s.doc] \in ContentRow /\ s.content_id \in Nat
      /\ content'[s.doc] = Produced(s.op, content[s.doc], s.content_id)
      /\ \A e \in Docs \ {s.doc} : content'[e] = content[e]
  BY <1>1 DEF Commit, TypeOK, Session
<1>3. CASE d # s.doc
  BY <1>2, <1>3 DEF Published
<1>4. CASE d = s.doc /\ s.op \in {"complete", "fail_in_pr"}
  <2>1. content'[d] = [id |-> content[d].id + 1, live |-> TRUE, approved |-> FALSE,
                       in_kb |-> FALSE]
    BY <1>2, <1>4 DEF Produced
  <2>2. ~content'[d].in_kb
    BY <2>1
  <2>. QED
    BY <2>2 DEF Published
<1>5. CASE d = s.doc /\ s.op = "approve_output"
  <2>1. CASE s.content_id = 0
    <3>1. content'[d] = content[d]
      BY <1>2, <1>5, <2>1 DEF Produced
    <3>. QED
      BY <3>1 DEF Published
  <2>2. CASE s.content_id # 0
    <3>1. content[d].id = s.content_id
      BY <1>5, <2>2 DEF Commit, Refused
    <3>2. content'[d].id = content[d].id
      BY <1>2, <1>5, <2>2 DEF Produced, ContentRow
    <3>3. a \in Requests
      BY <1>1, <1>5 DEF Actors, WorkOps
    <3>. QED
      BY <1>5, <3>1, <3>2, <3>3 DEF Published
  <2>. QED
    BY <2>1, <2>2
<1>6. CASE d = s.doc /\ s.op = "flag"
  <2>1. CASE content[d].id = s.content_id
    <3>1. ~content'[d].in_kb
      BY <1>2, <1>6, <2>1 DEF Produced, ContentRow
    <3>. QED
      BY <3>1 DEF Published
  <2>2. CASE content[d].id # s.content_id
    <3>1. content'[d] = content[d]
      BY <1>2, <1>6, <2>2 DEF Produced
    <3>. QED
      BY <3>1 DEF Published
  <2>. QED
    BY <2>1, <2>2
<1>7. CASE d = s.doc /\ s.op \in {"fail", "retry", "approve", "reject"}
  <2>1. content'[d] = content[d]
    BY <1>2, <1>7 DEF Produced
  <2>. QED
    BY <2>1 DEF Published
<1>. QED
  BY <1>1, <1>3, <1>4, <1>5, <1>6, <1>7 DEF AllOps, WorkOps, RequestOps

\* Every step that puts output into the knowledge base is the commit of a
\* review of that very output.
LEMMA PublishStep ==
    TypeOK /\ SessionOK /\ [Next]_vars => [\A d \in Docs : Published(d)]_vars
<1>. SUFFICES ASSUME TypeOK, SessionOK, Next, NEW d \in Docs PROVE Published(d)
  OBVIOUS
<1>1. CASE UNCHANGED content
  BY <1>1 DEF Published
<1>2. ASSUME NEW a \in Actors, Commit(a) PROVE Published(d)
  BY <1>2, PublishCommit
<1>. QED
  BY <1>1, <1>2
     DEF Next, WorkerStep, CloseSession, SubmitBatch, SubmitFails, Claim, LoadDocument,
         FinishPipeline, OpenRequest, LoadBatch, CommitFails, DeleteSource, Watchdog,
         Crash, Start, history

\* Output enters the knowledge base only by the approval of that very row:
\* a worker that regenerates it while the review is open makes the approval
\* fail instead of publishing text nobody read.
THEOREM PublishedWasLoaded == Spec => PublishesWhatItLoaded
<1>1. TypeOK /\ SessionOK /\ [Next]_vars => [\A d \in Docs : Published(d)]_vars
  BY PublishStep
<1>. QED
  BY <1>1, TypeCorrect, SessionsSound, PTL DEF Spec, PublishesWhatItLoaded
(***************************************************************************)
(* One worker for each entry of the queue.  The count is inductive only    *)
(* together with the entry nobody has taken yet; and a submission, which   *)
(* starts the count of its documents afresh, must find no worker on them:  *)
(* whoever is on a document found it in a batch that had been inserted.    *)
(***************************************************************************)
InABatch ==
    \A d \in Docs :
        docs[d].status # "absent" \/ (\E a \in Actors : session[a].doc = d)
        => batches[BatchOf[d]].status # "absent"

Waiting(d) == IF docs[d].status = "queued" THEN 1 ELSE 0

EntriesSuffice(d) ==
    /\ IsFiniteSet(Holders(d))
    /\ Cardinality(Holders(d)) + Waiting(d) <= entries[d]

EntryInv == InABatch /\ \A d \in Docs : EntriesSuffice(d)

\* A batch that was inserted stays: no operation assigns another beginning.
LEMMA CountedIsThere ==
    ASSUME NEW op \in CountingOps, NEW row \in BatchRow, NEW total
    PROVE  Counted(op, row, total).status # "absent"
<1>1. \A r \in BatchRow : Recompute(r, total).status # "absent"
  BY DEF Recompute, BatchRow
<1>2. CASE op = "complete"
  <2>1. [row EXCEPT !.completed = @ + 1] \in BatchRow
    BY DEF BatchRow
  <2>. QED
    BY <1>1, <1>2, <2>1 DEF Counted
<1>3. CASE op \in {"fail", "fail_in_pr"}
  <2>1. [row EXCEPT !.failed = @ + 1] \in BatchRow
    BY DEF BatchRow
  <2>. QED
    BY <1>1, <1>3, <2>1 DEF Counted
<1>4. CASE op = "retry"
  BY <1>4 DEF Counted, Retried, BatchRow
<1>5. CASE op = "flag"
  BY <1>5 DEF Counted, BatchRow
<1>. QED
  BY <1>2, <1>3, <1>4, <1>5 DEF CountingOps

LEMMA FlushedIsThere ==
    ASSUME NEW row \in BatchRow, NEW loaded \in BatchRow, NEW new \in BatchRow,
           row.status # "absent", new.status # "absent"
    PROVE  Flush(row, loaded, new).status # "absent"
<1>1. DOMAIN row = {"status", "completed", "failed"}
  BY DEF BatchRow
<1>. QED
  BY <1>1 DEF Flush, BatchRow

\* What a step does to the batches, rows and sessions of a document.
LEMMA InABatchKept ==
    ASSUME InABatch,
           \A b \in Batches : batches[b].status # "absent" => batches'[b].status # "absent",
           \A d \in Docs : docs'[d].status # "absent" /\ docs[d].status = "absent"
                              => batches'[BatchOf[d]].status # "absent",
           \A a \in Actors : \/ session'[a].doc \in {session[a].doc, NoDoc}
                             \/ docs[session'[a].doc].status # "absent"
    PROVE  InABatch'
<1>. SUFFICES ASSUME NEW d \in Docs,
                     docs'[d].status # "absent" \/ \E a \in Actors : session'[a].doc = d
              PROVE  batches'[BatchOf[d]].status # "absent"
  BY DEF InABatch
<1>1. BatchOf[d] \in Batches
  BY ConstAssumption
<1>2. CASE docs'[d].status # "absent"
  BY <1>1, <1>2 DEF InABatch
<1>3. ASSUME NEW a \in Actors, session'[a].doc = d
      PROVE  batches[BatchOf[d]].status # "absent"
  <2>1. d # NoDoc
    BY ConstAssumption
  <2>2. session[a].doc = d \/ docs[d].status # "absent"
    BY <1>3, <2>1
  <2>. QED
    BY <2>2 DEF InABatch
<1>. QED
  BY <1>1, <1>2, <1>3

\* Every step but a claim: who leaves a document leaves an entry behind, and
\* what is put in the queue is counted.
LEMMA EntriesKept ==
    ASSUME NEW d \in Docs, EntriesSuffice(d),
           entries[d] \in Nat, entries'[d] \in Nat,
           Holders(d)' \subseteq Holders(d),
           entries'[d] >= entries[d],
           \/ docs'[d].status # "queued" \/ docs[d].status = "queued"
           \/ entries'[d] = entries[d] + 1
    PROVE  EntriesSuffice(d)'
<1>1. IsFiniteSet(Holders(d)) /\ Cardinality(Holders(d)) \in Nat
  BY FS_CardinalityType DEF EntriesSuffice
<1>2. /\ IsFiniteSet(Holders(d)')
      /\ Cardinality(Holders(d)') <= Cardinality(Holders(d))
      /\ Cardinality(Holders(d)') \in Nat
  BY <1>1, FS_Subset, FS_CardinalityType
<1>3. Cardinality(Holders(d)') + Waiting(d)' <= entries'[d]
  BY <1>1, <1>2 DEF EntriesSuffice, Waiting
<1>. QED
  BY <1>2, <1>3 DEF EntriesSuffice
LEMMA HoldersLeave ==
    ASSUME \A w \in Workers :
              \/ session'[w] = session[w]
              \/ session'[w].step \notin {"claimed", "loaded", "ready"}
              \/ /\ session[w].step \in {"claimed", "loaded"}
                 /\ session'[w].doc = session[w].doc,
           NEW d \in Docs
    PROVE  Holders(d)' \subseteq Holders(d)
BY DEF Holders

\* A claim is the one step that adds a worker, and it takes the entry.
LEMMA EntryClaim ==
    ASSUME TypeOK, SessionOK, EntryInv, NEW w \in Workers, NEW d \in Docs, Claim(w, d)
    PROVE  EntryInv'
<1>1. /\ session[w].step = "idle" /\ docs[d].status = "queued"
      /\ docs' = [docs EXCEPT ![d] = Claimed(@)]
      /\ session' = [session EXCEPT ![w] = [@ EXCEPT !.step = "claimed", !.doc = d]]
      /\ UNCHANGED <<batches, entries>>
  BY DEF Claim, MayOpen, Claimable
<1>2. /\ docs'[d].status = "processing"
      /\ \A e \in Docs \ {d} : docs'[e] = docs[e]
  BY <1>1 DEF Claimed, TypeOK, DocRow
<1>3. /\ session'[w].doc = d
      /\ \A a \in Actors \ {w} : session'[a] = session[a]
  BY <1>1 DEF TypeOK, Actors, Session
<1>4. InABatch'
  <2>1. \A a \in Actors : \/ session'[a].doc \in {session[a].doc, NoDoc}
                          \/ docs[session'[a].doc].status # "absent"
    BY <1>1, <1>3
  <2>2. \A e \in Docs : docs'[e].status # "absent" => docs[e].status # "absent"
    BY <1>1, <1>2
  <2>. QED
    BY <1>1, <2>1, <2>2, InABatchKept DEF EntryInv
<1>5. EntriesSuffice(d)'
  <2>1. Holders(d)' \subseteq Holders(d) \cup {w}
    BY <1>3 DEF Holders, Actors
  <2>2. /\ IsFiniteSet(Holders(d)) /\ Cardinality(Holders(d)) \in Nat
        /\ Cardinality(Holders(d)) + 1 <= entries[d] /\ entries[d] \in Nat
    BY <1>1, FS_CardinalityType DEF EntryInv, EntriesSuffice, Waiting, TypeOK
  <2>3. /\ IsFiniteSet(Holders(d) \cup {w})
        /\ Cardinality(Holders(d) \cup {w}) <= Cardinality(Holders(d)) + 1
        /\ Cardinality(Holders(d) \cup {w}) \in Nat
    <3>1. /\ IsFiniteSet(Holders(d) \cup {w})
          /\ Cardinality(Holders(d) \cup {w}) =
                IF w \in Holders(d) THEN Cardinality(Holders(d)) ELSE Cardinality(Holders(d)) + 1
      BY <2>2, FS_AddElement
    <3>. QED
      BY <2>2, <3>1
  <2>4. /\ IsFiniteSet(Holders(d)')
        /\ Cardinality(Holders(d)') <= Cardinality(Holders(d) \cup {w})
        /\ Cardinality(Holders(d)') \in Nat
    BY <2>1, <2>3, FS_Subset, FS_CardinalityType
  <2>5. Cardinality(Holders(d)') <= entries'[d]
    BY <1>1, <2>2, <2>3, <2>4
  <2>6. Waiting(d)' = 0
    BY <1>2 DEF Waiting
  <2>. QED
    BY <2>4, <2>5, <2>6 DEF EntriesSuffice
<1>6. ASSUME NEW e \in Docs, e # d
      PROVE  EntriesSuffice(e)'
  <2>1. Holders(e)' \subseteq Holders(e)
    BY <1>3, <1>6 DEF Holders, Actors
  <2>2. /\ docs'[e] = docs[e] /\ entries'[e] = entries[e] /\ entries[e] \in Nat
        /\ EntriesSuffice(e)
    BY <1>1, <1>2, <1>6 DEF TypeOK, EntryInv
  <2>. QED
    BY <2>1, <2>2, EntriesKept
<1>. QED
  BY <1>4, <1>5, <1>6 DEF EntryInv

\* Every other step of a session that leaves documents and batches alone.
LEMMA EntrySession ==
    ASSUME TypeOK, EntryInv, UNCHANGED <<docs, batches, entries>>,
           \A w \in Workers :
              \/ session'[w] = session[w]
              \/ session'[w].step \notin {"claimed", "loaded", "ready"}
              \/ /\ session[w].step \in {"claimed", "loaded"}
                 /\ session'[w].doc = session[w].doc,
           \A a \in Actors : \/ session'[a].doc \in {session[a].doc, NoDoc}
                             \/ docs[session'[a].doc].status # "absent"
    PROVE  EntryInv'
<1>1. InABatch'
  BY InABatchKept DEF EntryInv
<1>2. ASSUME NEW d \in Docs PROVE EntriesSuffice(d)'
  <2>1. Holders(d)' \subseteq Holders(d)
    BY HoldersLeave
  <2>2. entries[d] \in Nat /\ entries'[d] = entries[d] /\ docs'[d] = docs[d]
    BY DEF TypeOK
  <2>. QED
    BY <2>1, <2>2, EntriesKept DEF EntryInv
<1>. QED
  BY <1>1, <1>2 DEF EntryInv

LEMMA EntryLoad ==
    ASSUME TypeOK, SessionOK, EntryInv, NEW a \in Actors,
           \/ LoadDocument(a)
           \/ \E outcome \in WorkOps : FinishPipeline(a, outcome)
           \/ LoadBatch(a)
    PROVE  EntryInv'
<1>1. /\ UNCHANGED <<docs, batches, entries>>
      /\ \A x \in Actors \ {a} : session'[x] = session[x]
      /\ session[a].step \in {"claimed", "loaded"}
  BY DEF LoadDocument, FinishPipeline, LoadBatch, history, TypeOK
<1>2. session'[a].doc = session[a].doc
  <2>1. session[a] \in Session
    BY DEF TypeOK
  <2>2. CASE LoadDocument(a)
    BY <2>1, <2>2 DEF LoadDocument, TypeOK, Session
  <2>3. ASSUME NEW outcome \in WorkOps, FinishPipeline(a, outcome)
        PROVE  session'[a].doc = session[a].doc
    BY <2>1, <2>3 DEF FinishPipeline, TypeOK, Session
  <2>4. CASE LoadBatch(a)
    BY <2>1, <2>4 DEF LoadBatch, TypeOK, Session
  <2>. QED
    BY <2>2, <2>3, <2>4
<1>. QED
  BY <1>1, <1>2, EntrySession DEF Actors

LEMMA EntryOpen ==
    ASSUME TypeOK, SessionOK, EntryInv, NEW r \in Requests, NEW op \in RequestOps,
           NEW d \in Docs, OpenRequest(r, op, d)
    PROVE  EntryInv'
<1>1. r \in Actors /\ r \notin Workers
  BY ConstAssumption DEF Actors
<1>2. docs[d].status # "absent"
  BY DEF OpenRequest, Demands, RequestOps
<1>3. /\ UNCHANGED <<docs, batches, entries>> /\ session'[r].doc = d
      /\ \A x \in Actors \ {r} : session'[x] = session[x]
  BY <1>1 DEF OpenRequest, TypeOK, Idle
<1>. QED
  BY <1>1, <1>2, <1>3, EntrySession DEF Actors

LEMMA EntryEnd ==
    ASSUME TypeOK, EntryInv,
           \/ \E a \in Actors : CommitFails(a) \/ DeleteSource(a)
           \/ \E p \in Pods : Crash(p)
    PROVE  EntryInv'
<1>1. /\ UNCHANGED <<docs, batches, entries>>
      /\ \A x \in Actors : session'[x] = session[x] \/ session'[x] = Idle
  BY DEF CommitFails, DeleteSource, AfterFailedCommit, Crash, history, TypeOK
<1>2. Idle.step = "idle" /\ Idle.doc = NoDoc
  BY DEF Idle
<1>. QED
  BY <1>1, <1>2, EntrySession DEF Actors
\* The submission that queues its documents finds nobody on them.
LEMMA EntrySubmit ==
    ASSUME TypeOK, SessionOK, EntryInv, NEW b \in Batches, NEW admin \in BOOLEAN,
           NEW folder \in BOOLEAN, SubmitBatch(b, admin, folder)
    PROVE  EntryInv'
<1>1. /\ batches[b].status = "absent" /\ batches'[b].status = "in_progress"
      /\ \A c \in Batches \ {b} : batches'[c] = batches[c]
      /\ session' = session
  BY DEF SubmitBatch, Unused, TypeOK, NoBatchRow
<1>2. ASSUME NEW d \in Docs, BatchOf[d] # b
      PROVE  docs'[d] = docs[d] /\ entries'[d] = entries[d]
  BY <1>2 DEF SubmitBatch, TypeOK
<1>3. ASSUME NEW d \in Docs, BatchOf[d] = b
      PROVE  /\ docs'[d].status = InitialStatus(admin)
             /\ entries'[d] = IF InitialStatus(admin) = "queued" THEN 1 ELSE entries[d]
  BY <1>3 DEF SubmitBatch, NoDocRow
<1>4. InABatch'
  <2>1. \A c \in Batches : batches[c].status # "absent" => batches'[c].status # "absent"
    BY <1>1
  <2>2. ASSUME NEW d \in Docs, docs'[d].status # "absent", docs[d].status = "absent"
        PROVE  batches'[BatchOf[d]].status # "absent"
    <3>1. BatchOf[d] = b
      BY <1>2, <2>2
    <3>. QED
      BY <1>1, <3>1
  <2>. QED
    BY <1>1, <2>1, <2>2, InABatchKept DEF EntryInv
<1>5. ASSUME NEW d \in Docs PROVE EntriesSuffice(d)'
  <2>1. Holders(d)' = Holders(d) /\ entries[d] \in Nat /\ EntriesSuffice(d)
    BY <1>1 DEF Holders, TypeOK, EntryInv
  <2>2. CASE BatchOf[d] # b
    BY <1>2, <2>1, <2>2, EntriesKept
  <2>3. CASE BatchOf[d] = b
    <3>1. Holders(d) = {}
      BY <1>1, <2>3 DEF EntryInv, InABatch, Holders, Actors
    <3>2. IsFiniteSet(Holders(d)') /\ Cardinality(Holders(d)') = 0
      BY <2>1, <3>1, FS_EmptySet
    <3>3. Waiting(d)' <= entries'[d] /\ Waiting(d)' \in Nat
      BY <1>3, <2>1, <2>3 DEF Waiting
    <3>. QED
      BY <3>2, <3>3 DEF EntriesSuffice
  <2>. QED
    BY <2>2, <2>3
<1>. QED
  BY <1>4, <1>5 DEF EntryInv

\* A commit that leaves a document queued has counted the entry.
LEMMA EntryCommit ==
    ASSUME TypeOK, SessionOK, EntryInv, NEW a \in Actors, Commit(a)
    PROVE  EntryInv'
<1>. DEFINE s == session[a]
            d == s.doc
            b == BatchOf[d]
<1>1. /\ s \in Session /\ d \in Docs /\ s.op \in AllOps \ {"work"} /\ b \in Batches
      /\ s.step = "ready" => s.op \in CountingOps
  BY CommitPre DEF Commit
<1>2. s.row \in DocRow /\ s.batch \in BatchRow
  BY <1>1 DEF Session
<1>3. /\ \A x \in Actors \ {a} : session'[x] = session[x]
      /\ session'[a].step \in {"idle", "cleanup"} /\ session'[a].doc \in {d, NoDoc}
  BY DEF Commit, TypeOK, Idle
<1>4. \A e \in Docs \ {d} : docs'[e] = docs[e] /\ entries'[e] = entries[e]
  BY <1>1, CommitStatus DEF Commit, TypeOK
<1>5. /\ docs'[d].status # "queued" \/ docs[d].status = "queued"
                                    \/ entries'[d] = entries[d] + 1
      /\ entries'[d] \in {entries[d], entries[d] + 1}
  <2>1. s.op \in {"retry", "flag", "approve"} => Assigned(s.op, s.row).status = "queued"
    BY <1>1, <1>2, AssignedIs
  <2>2. entries' = IF Assigned(s.op, s.row).status = "queued"
                   THEN [entries EXCEPT ![d] = @ + 1] ELSE entries
    BY DEF Commit
  <2>3. entries'[d] = IF Assigned(s.op, s.row).status = "queued"
                      THEN entries[d] + 1 ELSE entries[d]
    BY <1>1, <2>2 DEF TypeOK
  <2>4. docs'[d].status = "queued" => \/ docs[d].status = "queued"
                                      \/ s.op \in {"retry", "flag", "approve"}
    BY CommitStatus
  <2>. QED
    BY <2>1, <2>3, <2>4
<1>6. \A c \in Batches : batches[c].status # "absent" => batches'[c].status # "absent"
  <2>1. CASE s.step = "ready"
    <3>1. PICK new : new = Counted(s.op, s.batch, Total(b))
      OBVIOUS
    <3>2. batches' = [batches EXCEPT ![b] = Flush(@, s.batch, new)]
      BY <2>1, <3>1 DEF Commit
    <3>3. batches'[b] = Flush(batches[b], s.batch, new)
          /\ \A c \in Batches \ {b} : batches'[c] = batches[c]
      BY <1>1, <3>2 DEF TypeOK
    <3>4. new \in BatchRow /\ new.status # "absent"
      BY <1>1, <1>2, <2>1, <3>1, CountedType, CountedIsThere
    <3>5. batches[b] \in BatchRow
      BY <1>1 DEF TypeOK
    <3>6. batches[b].status # "absent" => batches'[b].status # "absent"
      BY <1>2, <3>3, <3>4, <3>5, FlushedIsThere
    <3>. QED
      BY <3>3, <3>6
  <2>2. CASE s.step # "ready"
    BY <2>2 DEF Commit
  <2>. QED
    BY <2>1, <2>2
<1>7. batches[b].status # "absent"
  BY <1>1 DEF EntryInv, InABatch
<1>. HIDE DEF s, d, b
<1>8. InABatch'
  <2>1. ASSUME NEW e \in Docs, docs'[e].status # "absent", docs[e].status = "absent"
        PROVE  batches'[BatchOf[e]].status # "absent"
    <3>1. e = d
      BY <1>4, <2>1
    <3>. QED
      BY <1>1, <1>6, <1>7, <3>1 DEF b
  <2>2. \A x \in Actors : session'[x].doc \in {session[x].doc, NoDoc}
    BY <1>3 DEF s, d
  <2>. QED
    BY <1>6, <2>1, <2>2, InABatchKept DEF EntryInv
<1>9. ASSUME NEW e \in Docs PROVE EntriesSuffice(e)'
  <2>1. Holders(e)' \subseteq Holders(e)
    BY <1>3, HoldersLeave DEF Actors
  <2>2. entries[e] \in Nat /\ EntriesSuffice(e)
    BY DEF TypeOK, EntryInv
  <2>3. /\ docs'[e].status # "queued" \/ docs[e].status = "queued"
                                      \/ entries'[e] = entries[e] + 1
        /\ entries'[e] \in {entries[e], entries[e] + 1}
    BY <1>4, <1>5
  <2>4. entries'[e] \in Nat /\ entries'[e] >= entries[e]
    BY <2>2, <2>3
  <2>. QED
    BY <2>1, <2>2, <2>3, <2>4, EntriesKept
<1>. QED
  BY <1>8, <1>9 DEF EntryInv

\* Watchdog and recovery find their documents in the table.
LEMMA EntryFault ==
    ASSUME TypeOK, EntryInv, (\E d \in Docs : Watchdog(d)) \/ (\E p \in Pods : Start(p))
    PROVE  EntryInv'
<1>1. /\ UNCHANGED <<batches, session>>
      /\ \A e \in Docs : /\ docs'[e].status # "absent" => docs[e].status # "absent"
                         /\ \/ docs'[e].status # "queued" \/ docs[e].status = "queued"
                            \/ entries'[e] = entries[e] + 1
                         /\ entries'[e] \in {entries[e], entries[e] + 1}
  <2>1. ASSUME NEW d \in Docs, Watchdog(d)
        PROVE  /\ UNCHANGED <<batches, session, entries>>
               /\ \A e \in Docs : /\ docs'[e].status # "absent" => docs[e].status # "absent"
                                  /\ docs'[e].status # "queued" \/ docs[e].status = "queued"
    <3>1. /\ UNCHANGED <<batches, session, entries>>
          /\ docs[d].status = "processing" /\ docs'[d].status = "failed"
          /\ \A e \in Docs \ {d} : docs'[e] = docs[e]
      BY <2>1 DEF Watchdog, Watched, TypeOK, DocRow
    <3>. QED
      BY <3>1
  <2>2. ASSUME NEW p \in Pods, Start(p), NEW e \in Docs
        PROVE  /\ UNCHANGED <<batches, session>>
               /\ docs'[e].status # "absent" => docs[e].status # "absent"
               /\ \/ docs'[e].status # "queued" \/ docs[e].status = "queued"
                  \/ entries'[e] = entries[e] + 1
               /\ entries'[e] \in {entries[e], entries[e] + 1}
    <3>1. CASE docs[e].status = "processing"
      BY <2>2, <3>1 DEF Start
    <3>2. CASE docs[e].status # "processing"
      BY <2>2, <3>2 DEF Start
    <3>. QED
      BY <3>1, <3>2
  <2>3. ASSUME NEW p \in Pods, Start(p) PROVE UNCHANGED <<batches, session>>
    BY <2>3 DEF Start
  <2>. QED
    BY <2>1, <2>2, <2>3
<1>2. InABatch'
  BY <1>1, InABatchKept DEF EntryInv
<1>3. ASSUME NEW e \in Docs PROVE EntriesSuffice(e)'
  <2>1. Holders(e)' \subseteq Holders(e) /\ entries[e] \in Nat /\ EntriesSuffice(e)
    BY <1>1 DEF Holders, TypeOK, EntryInv
  <2>2. entries'[e] \in Nat /\ entries'[e] >= entries[e]
    BY <1>1, <2>1
  <2>. QED
    BY <1>1, <2>1, <2>2, EntriesKept
<1>. QED
  BY <1>2, <1>3 DEF EntryInv

LEMMA EntryInit == Init => EntryInv
<1>. SUFFICES ASSUME Init PROVE EntryInv
  OBVIOUS
<1>1. InABatch
  BY ConstAssumption DEF Init, InABatch, Idle, NoDocRow
<1>2. ASSUME NEW d \in Docs PROVE EntriesSuffice(d)
  <2>1. Holders(d) = {}
    BY DEF Init, Idle, Holders, Actors
  <2>2. IsFiniteSet(Holders(d)) /\ Cardinality(Holders(d)) = 0
    BY <2>1, FS_EmptySet
  <2>3. Waiting(d) = 0 /\ entries[d] = 0
    BY DEF Init, Waiting, NoDocRow
  <2>. QED
    BY <2>2, <2>3 DEF EntriesSuffice
<1>. QED
  BY <1>1, <1>2 DEF EntryInv

LEMMA EntryStep == TypeOK /\ SessionOK /\ EntryInv /\ [Next]_vars => EntryInv'
<1>. SUFFICES ASSUME TypeOK, SessionOK, EntryInv, [Next]_vars PROVE EntryInv'
  OBVIOUS
<1>1. CASE UNCHANGED <<docs, batches, session, entries>>
  BY <1>1, EntrySession
<1>2. ASSUME NEW b \in Batches, SubmitFails(b) PROVE EntryInv'
  BY <1>1, <1>2 DEF SubmitFails, history
<1>3. CASE UNCHANGED vars
  BY <1>1, <1>3 DEF vars, history
<1>. QED
  BY <1>2, <1>3, EntrySubmit, EntryClaim, EntryLoad, EntryOpen, EntryCommit, EntryEnd,
     EntryFault
  DEF Next, WorkerStep, CloseSession, Actors

\* However many workers and pods poll the queue, and whatever restarts,
\* retries and overruns, no two workers are on a document for one entry of it
\* (SELECT ... FOR UPDATE SKIP LOCKED, src/utils/queue.py).
THEOREM OneWorkerForEachEntry == Spec => []OneWorkerPerEntry
<1>1. TypeOK /\ EntryInv => OneWorkerPerEntry
  <2> SUFFICES ASSUME TypeOK, EntryInv, NEW d \in Docs
               PROVE  Cardinality(Holders(d)) <= entries[d]
    BY DEF OneWorkerPerEntry
  <2>1. Cardinality(Holders(d)) \in Nat /\ entries[d] \in Nat
    BY FS_CardinalityType DEF EntryInv, EntriesSuffice, TypeOK
  <2>. QED
    BY <2>1 DEF EntryInv, EntriesSuffice, Waiting
<1>2. TypeOK /\ SessionOK /\ EntryInv /\ [Next]_vars => EntryInv'
  BY EntryStep
<1>. QED
  BY <1>1, <1>2, EntryInit, TypeCorrect, SessionsSound, PTL DEF Spec
(***************************************************************************)
(* The staged file.  Whoever does not decide about an upload is on a       *)
(* document that was let into the queue; a decision that changes that, or  *)
(* that takes back a rejection, came late, and is remembered as such.      *)
(***************************************************************************)
LetIn(d) == docs[d].status \notin {"absent", "pending_approval", "rejected"}

InOrder(d) == LetIn(d) \/ d \in overruled

OnItsStatus(a) ==
    OnADoc(a) /\ session[a].op \notin DecideOps => InOrder(session[a].doc)

\* The file of d is of no use any more, or its decision was overruled.
Over(d) == docs[d].status = "rejected" \/ content[d].id > 0 \/ d \in overruled

CleansUp(a) == session[a].step = "cleanup" => Over(session[a].doc)

SourceInv ==
    /\ InABatch
    /\ \A a \in Actors : OnItsStatus(a) /\ CleansUp(a)
    /\ \A d \in Docs \ source : docs[d].status = "absent" \/ Over(d)

\* A step that leaves the documents alone.
LEMMA SourceSession ==
    ASSUME SessionOK, SourceInv, InABatch', UNCHANGED <<docs, content, overruled>>,
           source \subseteq source',
           \A a \in Actors : \/ session'[a] = session[a]
                             \/ OnItsStatus(a)' /\ session'[a].step # "cleanup"
    PROVE  SourceInv'
<1>1. \A d \in Docs : InOrder(d)' = InOrder(d) /\ Over(d)' = Over(d)
  BY DEF InOrder, LetIn, Over
<1>2. ASSUME NEW a \in Actors PROVE OnItsStatus(a)'
  <2>1. CASE session'[a] = session[a]
    BY <2>1 DEF SourceInv, OnItsStatus, OnADoc, InOrder, LetIn
  <2>. QED
    BY <2>1
<1>3. ASSUME NEW a \in Actors PROVE CleansUp(a)'
  <2>1. CASE session'[a] = session[a]
    BY <2>1 DEF SourceInv, CleansUp, Over
  <2>2. CASE session'[a].step # "cleanup"
    BY <2>2 DEF CleansUp
  <2>. QED
    BY <2>1, <2>2
<1>. QED
  BY <1>1, <1>2, <1>3 DEF SourceInv

LEMMA SourceLoad ==
    ASSUME TypeOK, SessionOK, SourceInv, InABatch', NEW a \in Actors,
           \/ LoadDocument(a)
           \/ a \in Workers /\ \E outcome \in WorkOps : FinishPipeline(a, outcome)
           \/ LoadBatch(a)
    PROVE  SourceInv'
<1>1. /\ UNCHANGED <<docs, content, source, overruled>>
      /\ \A x \in Actors \ {a} : session'[x] = session[x]
  BY DEF LoadDocument, FinishPipeline, LoadBatch, history, TypeOK
<1>2. /\ session[a].step \in {"claimed", "loaded"}
      /\ session'[a].step \in {"loaded", "ready"} /\ session'[a].doc = session[a].doc
      /\ \/ session'[a].op = session[a].op
         \/ {session[a].op, session'[a].op} \subseteq WorkOps
  <2>1. session[a] \in Session
    BY DEF TypeOK
  <2>2. CASE LoadDocument(a)
    BY <2>1, <2>2 DEF LoadDocument, TypeOK, Session
  <2>3. ASSUME a \in Workers, NEW outcome \in WorkOps, FinishPipeline(a, outcome)
        PROVE  /\ session[a].step \in {"claimed", "loaded"}
               /\ session'[a].step \in {"loaded", "ready"} /\ session'[a].doc = session[a].doc
               /\ {session[a].op, session'[a].op} \subseteq WorkOps
    <3>1. session[a].op \in WorkOps
      BY <2>3 DEF SessionOK, Sound
    <3>2. /\ session[a].step = "loaded" /\ session'[a].step = "ready"
          /\ session'[a].op = outcome /\ session'[a].doc = session[a].doc
      BY <2>1, <2>3 DEF FinishPipeline, TypeOK, Session
    <3>. QED
      BY <2>3, <3>1, <3>2
  <2>4. CASE LoadBatch(a)
    BY <2>1, <2>4 DEF LoadBatch, TypeOK, Session
  <2>. QED
    BY <2>2, <2>3, <2>4
<1>3. session'[a].op \in DecideOps <=> session[a].op \in DecideOps
  BY <1>2 DEF WorkOps, DecideOps
<1>4. OnItsStatus(a)'
  BY <1>1, <1>2, <1>3 DEF SourceInv, OnItsStatus, OnADoc, InOrder, LetIn
<1>. QED
  BY <1>1, <1>2, <1>4, SourceSession

LEMMA SourceOpen ==
    ASSUME TypeOK, SessionOK, SourceInv, InABatch', NEW r \in Requests, NEW op \in RequestOps,
           NEW d \in Docs, OpenRequest(r, op, d)
    PROVE  SourceInv'
<1>1. /\ r \in Actors /\ UNCHANGED <<docs, content, source, overruled>>
      /\ \A x \in Actors \ {r} : session'[x] = session[x]
  BY DEF OpenRequest, history, TypeOK, Actors
<1>2. /\ session'[r].op = op /\ session'[r].doc = d /\ session'[r].step = "loaded"
      /\ docs[d].status = Demands(op)
  BY <1>1 DEF OpenRequest, TypeOK, Idle
<1>3. OnItsStatus(r)'
  BY <1>1, <1>2 DEF OnItsStatus, InOrder, LetIn, Demands, RequestOps, DecideOps
<1>. QED
  BY <1>1, <1>2, <1>3, SourceSession

LEMMA SourceEnd ==
    ASSUME TypeOK, SessionOK, SourceInv, InABatch',
           \/ \E a \in Actors : CommitFails(a)
           \/ \E p \in Pods : Crash(p)
    PROVE  SourceInv'
<1>1. /\ UNCHANGED <<docs, content, source, overruled>>
      /\ \A x \in Actors : session'[x] = session[x] \/ session'[x] = Idle
  BY DEF CommitFails, AfterFailedCommit, Crash, history, TypeOK
<1>2. Idle.step = "idle"
  BY DEF Idle
<1>3. ASSUME NEW x \in Actors, session'[x] # session[x]
      PROVE  OnItsStatus(x)' /\ session'[x].step # "cleanup"
  <2>1. session'[x].step = "idle"
    BY <1>1, <1>2, <1>3
  <2>. QED
    BY <2>1 DEF OnItsStatus, OnADoc
<1>. QED
  BY <1>1, <1>3, SourceSession

\* Only a file whose document is over is deleted.
LEMMA SourceDelete ==
    ASSUME TypeOK, SessionOK, SourceInv, InABatch', NEW a \in Actors, DeleteSource(a)
    PROVE  SourceInv'
<1>1. /\ UNCHANGED <<docs, content, overruled>>
      /\ source \ {session[a].doc} \subseteq source'
      /\ session[a].step = "cleanup" /\ Over(session[a].doc)
      /\ session'[a] = Idle
      /\ \A x \in Actors \ {a} : session'[x] = session[x]
  BY DEF DeleteSource, SourceInv, CleansUp, TypeOK, history
<1>2. \A d \in Docs : Over(d)' = Over(d)
  BY <1>1 DEF Over
<1>3. ASSUME NEW x \in Actors PROVE OnItsStatus(x)'
  <2>1. Idle.step = "idle"
    BY DEF Idle
  <2>2. session'[x] = session[x] \/ session'[x] = Idle
    BY <1>1
  <2>. QED
    BY <1>1, <2>1, <2>2 DEF SourceInv, OnItsStatus, OnADoc, InOrder, LetIn
<1>4. ASSUME NEW x \in Actors PROVE CleansUp(x)'
  <2>1. Idle.step = "idle"
    BY DEF Idle
  <2>2. session'[x] = session[x] \/ session'[x].step = "idle"
    BY <1>1, <2>1
  <2>. QED
    BY <1>1, <2>2 DEF SourceInv, CleansUp, Over
<1>5. \A d \in Docs \ source' : docs'[d].status = "absent" \/ Over(d)'
  <2> SUFFICES ASSUME NEW d \in Docs \ source' PROVE docs[d].status = "absent" \/ Over(d)
    BY <1>1, <1>2
  <2>1. d \notin source \/ d = session[a].doc
    BY <1>1
  <2>. QED
    BY <1>1, <2>1 DEF SourceInv
<1>. QED
  BY <1>3, <1>4, <1>5 DEF SourceInv

\* A step that moves documents.
LEMMA SourceMove ==
    ASSUME SourceInv, InABatch', source \subseteq source',
           \A a \in Actors : OnItsStatus(a)' /\ CleansUp(a)',
           \A d \in Docs : Over(d) => Over(d)',
           \A d \in Docs \ source' :
              docs[d].status = "absent" => docs'[d].status = "absent" \/ Over(d)'
    PROVE  SourceInv'
BY DEF SourceInv

LEMMA SourceClaim ==
    ASSUME TypeOK, SessionOK, SourceInv, InABatch', NEW w \in Workers, NEW d \in Docs,
           Claim(w, d)
    PROVE  SourceInv'
<1>1. /\ session[w].step = "idle" /\ docs[d].status = "queued"
      /\ docs'[d].status = "processing"
      /\ \A e \in Docs \ {d} : docs'[e] = docs[e]
      /\ UNCHANGED <<content, source, overruled>>
  BY DEF Claim, MayOpen, Claimable, Claimed, TypeOK, DocRow
<1>2. /\ session'[w].step = "claimed" /\ session'[w].doc = d /\ session'[w].op = "work"
      /\ \A x \in Actors \ {w} : session'[x] = session[x]
  <2>1. session[w] \in Session /\ session[w].op = "work" /\ w \in Actors
    BY <1>1 DEF TypeOK, Actors, SessionOK, Sound
  <2>. QED
    BY <2>1 DEF Claim, TypeOK, Session
<1>3. ASSUME NEW x \in Actors PROVE OnItsStatus(x)' /\ CleansUp(x)'
  <2>1. CASE x = w
    BY <1>1, <1>2, <2>1 DEF OnItsStatus, CleansUp, InOrder, LetIn
  <2>2. CASE x # w
    <3>1. session'[x] = session[x] /\ OnItsStatus(x) /\ CleansUp(x) /\ Sound(x, session[x])
      BY <1>2, <2>2 DEF SourceInv, SessionOK
    <3>2. OnItsStatus(x)'
      BY <1>1, <3>1 DEF OnItsStatus, OnADoc, InOrder, LetIn, Sound
    <3>3. CleansUp(x)'
      BY <1>1, <3>1 DEF CleansUp, Over, Sound
    <3>. QED
      BY <3>2, <3>3
  <2>. QED
    BY <2>1, <2>2
<1>4. \A e \in Docs : Over(e) => Over(e)'
  BY <1>1 DEF Over
<1>5. \A e \in Docs : docs[e].status = "absent" => docs'[e].status = "absent"
  BY <1>1
<1>. QED
  BY <1>1, <1>3, <1>4, <1>5, SourceMove

\* Nobody is on the documents of a batch that is being submitted.
LEMMA SourceSubmit ==
    ASSUME TypeOK, SessionOK, SourceInv, InABatch', NEW b \in Batches,
           NEW admin \in BOOLEAN, NEW folder \in BOOLEAN, SubmitBatch(b, admin, folder)
    PROVE  SourceInv'
<1>1. /\ batches[b].status = "absent"
      /\ UNCHANGED <<session, content, overruled>> /\ source' = source \cup DocsOf(b)
      /\ \A d \in Docs : BatchOf[d] # b => docs'[d] = docs[d]
  BY DEF SubmitBatch, Unused
<1>2. \A d \in Docs : BatchOf[d] = b => /\ docs[d].status = "absent"
                                        /\ \A a \in Actors : session[a].doc # d
  BY <1>1 DEF SourceInv, InABatch
<1>3. ASSUME NEW x \in Actors PROVE OnItsStatus(x)' /\ CleansUp(x)'
  <2>1. OnItsStatus(x) /\ CleansUp(x) /\ Sound(x, session[x])
    BY DEF SourceInv, SessionOK
  <2>2. CASE session[x].step = "idle"
    BY <1>1, <2>2 DEF OnItsStatus, OnADoc, CleansUp
  <2>3. CASE session[x].step # "idle"
    <3>1. session[x].doc \in Docs /\ docs'[session[x].doc] = docs[session[x].doc]
      BY <1>1, <1>2, <2>1, <2>3 DEF Sound
    <3>. QED
      BY <1>1, <2>1, <3>1 DEF OnItsStatus, OnADoc, CleansUp, InOrder, LetIn, Over
  <2>. QED
    BY <2>2, <2>3
<1>4. \A d \in Docs : Over(d) => Over(d)'
  <2> TAKE d \in Docs
  <2>1. BatchOf[d] = b => docs[d].status # "rejected"
    BY <1>2
  <2>. QED
    BY <1>1, <2>1 DEF Over
<1>5. \A d \in Docs \ source' : docs[d].status = "absent" => docs'[d].status = "absent"
  BY <1>1 DEF DocsOf
<1>. QED
  BY <1>1, <1>3, <1>4, <1>5, SourceMove

\* How the output's number moves.
LEMMA NumberGrows ==
    ASSUME TypeOK, SessionOK, NEW a \in Actors, Commit(a)
    PROVE  /\ \A e \in Docs : content[e].id > 0 => content'[e].id > 0
           /\ session[a].op = "complete" => content'[session[a].doc].id > 0
<1>. DEFINE s == session[a]
            d == s.doc
<1>1. s \in Session /\ d \in Docs /\ s.op \in AllOps \ {"work"}
  BY CommitPre DEF Commit
<1>2. content[d] \in ContentRow /\ content[d].id \in Nat
  BY <1>1 DEF TypeOK, ContentRow
<1>3. /\ content'[d] = Produced(s.op, content[d], s.content_id)
      /\ \A e \in Docs \ {d} : content'[e] = content[e]
  BY <1>1 DEF Commit, TypeOK
<1>4. CASE s.op \in {"complete", "fail_in_pr"}
  <2>1. content'[d] = [id |-> content[d].id + 1, live |-> TRUE, approved |-> FALSE,
                       in_kb |-> FALSE]
    BY <1>3, <1>4 DEF Produced
  <2>2. content'[d].id = content[d].id + 1
    BY <2>1
  <2>. QED
    BY <1>2, <1>3, <2>2
<1>5. CASE s.op \notin {"complete", "fail_in_pr"}
  <2>1. content'[d].id = content[d].id
    BY <1>2, <1>3, <1>5 DEF Produced, ContentRow
  <2>. QED
    BY <1>3, <1>5, <2>1
<1>. QED
  BY <1>4, <1>5

\* A rejection ends its document for good, and a document in the queue stays
\* let in, unless the decision that is committed overrules another.
LEMMA SourceCommit ==
    ASSUME TypeOK, SessionOK, SourceInv, InABatch', NEW a \in Actors, Commit(a)
    PROVE  SourceInv'
<1>. DEFINE op == session[a].op
<1>0. PICK d \in Docs : d = session[a].doc
  BY CommitPre DEF Commit
<1>1. /\ op \in AllOps \ {"work"} /\ OnADoc(a)
      /\ op \notin DecideOps => InOrder(d)
  BY <1>0, CommitPre DEF Commit, AtCommit, SourceInv, OnItsStatus, OnADoc
<1>2. /\ \A e \in Docs \ {d} : docs'[e] = docs[e]
      /\ \/ docs'[d].status = docs[d].status /\ op \notin DecideOps
         \/ docs'[d].status \in {"completed", "failed", "queued"} /\ op # "reject"
         \/ docs'[d].status = "rejected" /\ op = "reject"
  BY <1>0, CommitStatus DEF DecideOps
<1>3. /\ \A x \in Actors \ {a} : session'[x] = session[x]
      /\ session'[a].step \in {"idle", "cleanup"}
      /\ session'[a].step = "cleanup" => op \in {"complete", "reject"} /\ session'[a].doc = d
      /\ UNCHANGED source
  BY <1>0 DEF Commit, TypeOK, Idle
<1>4. /\ \A e \in Docs : content[e].id > 0 => content'[e].id > 0
      /\ op = "complete" => content'[d].id > 0
  BY <1>0, NumberGrows
<1>5. /\ overruled \subseteq overruled'
      /\ op \in DecideOps /\ docs[d].status # "pending_approval" => d \in overruled'
  BY <1>0 DEF Commit
<1>. HIDE DEF op
<1>6. ASSUME NEW e \in Docs, Over(e) PROVE Over(e)'
  <2>1. CASE content[e].id > 0 \/ e \in overruled
    BY <1>4, <1>5, <2>1 DEF Over
  <2>2. CASE docs[e].status = "rejected" /\ e = d
    BY <1>1, <1>5, <2>2 DEF Over, InOrder, LetIn
  <2>3. CASE docs[e].status = "rejected" /\ e # d
    BY <1>2, <2>3 DEF Over
  <2>. QED
    BY <1>6, <2>1, <2>2, <2>3 DEF Over
<1>7. ASSUME NEW e \in Docs, InOrder(e) PROVE InOrder(e)'
  <2>1. CASE e \in overruled
    BY <1>5, <2>1 DEF InOrder
  <2>2. CASE LetIn(e) /\ e = d
    BY <1>2, <1>5, <2>2 DEF InOrder, LetIn, DecideOps
  <2>3. CASE LetIn(e) /\ e # d
    BY <1>2, <2>3 DEF InOrder, LetIn
  <2>. QED
    BY <1>7, <2>1, <2>2, <2>3 DEF InOrder
<1>8. ASSUME NEW x \in Actors PROVE OnItsStatus(x)' /\ CleansUp(x)'
  <2>1. CASE x = a
    <3>1. op \in {"complete", "reject"} => Over(d)'
      BY <1>2, <1>4 DEF Over, DecideOps
    <3>2. CleansUp(a)'
      BY <1>3, <3>1 DEF CleansUp, Over
    <3>3. OnItsStatus(a)'
      BY <1>3 DEF OnItsStatus, OnADoc
    <3>. QED
      BY <2>1, <3>2, <3>3
  <2>2. CASE x # a
    <3>1. session'[x] = session[x] /\ OnItsStatus(x) /\ CleansUp(x)
      BY <1>3, <2>2 DEF SourceInv
    <3>2. session[x].step # "idle" => session[x].doc \in Docs
      BY DEF SessionOK, Sound
    <3>3. OnItsStatus(x)'
      <4> SUFFICES ASSUME OnADoc(x), session[x].op \notin DecideOps
                   PROVE  InOrder(session[x].doc)'
        BY <3>1 DEF OnItsStatus, OnADoc, InOrder, LetIn
      <4>. QED
        BY <1>7, <3>1, <3>2 DEF OnItsStatus, OnADoc, InOrder, LetIn
    <3>4. CleansUp(x)'
      BY <1>6, <3>1, <3>2 DEF CleansUp, Over
    <3>. QED
      BY <3>3, <3>4
  <2>. QED
    BY <2>1, <2>2
<1>9. ASSUME NEW e \in Docs, docs[e].status = "absent"
      PROVE  docs'[e].status = "absent" \/ Over(e)'
  BY <1>1, <1>2, <1>5, <1>9 DEF InOrder, LetIn, Over
<1>. QED
  BY <1>3, <1>6, <1>8, <1>9, SourceMove

LEMMA SourceFault ==
    ASSUME TypeOK, SessionOK, SourceInv, InABatch',
           (\E d \in Docs : Watchdog(d)) \/ (\E p \in Pods : Start(p))
    PROVE  SourceInv'
<1>1. /\ UNCHANGED <<session, content, source, overruled>>
      /\ \A e \in Docs : docs'[e].status = docs[e].status \/ (LetIn(e) /\ LetIn(e)')
  <2>1. ASSUME NEW d \in Docs, Watchdog(d), NEW e \in Docs
        PROVE  docs'[e].status = docs[e].status \/ (LetIn(e) /\ LetIn(e)')
    <3>1. /\ docs[d].status = "processing" /\ docs'[d].status = "failed"
          /\ \A c \in Docs \ {d} : docs'[c] = docs[c]
      BY <2>1 DEF Watchdog, Watched, TypeOK, DocRow
    <3>. QED
      BY <3>1 DEF LetIn
  <2>2. ASSUME NEW p \in Pods, Start(p), NEW e \in Docs
        PROVE  docs'[e].status = docs[e].status \/ (LetIn(e) /\ LetIn(e)')
    <3>1. CASE docs[e].status = "processing"
      <4>1. docs'[e] = [docs[e] EXCEPT !.status = "queued", !.started = FALSE]
        BY <2>2, <3>1 DEF Start
      <4>2. docs'[e].status = "queued"
        BY <4>1 DEF TypeOK, DocRow
      <4>. QED
        BY <3>1, <4>2 DEF LetIn
    <3>2. CASE docs[e].status # "processing"
      BY <2>2, <3>2 DEF Start
    <3>. QED
      BY <3>1, <3>2
  <2>. QED
    BY <2>1, <2>2 DEF Watchdog, Start
<1>2. ASSUME NEW x \in Actors PROVE OnItsStatus(x)' /\ CleansUp(x)'
  <2>1. OnItsStatus(x) /\ CleansUp(x) /\ Sound(x, session[x])
    BY DEF SourceInv, SessionOK
  <2>2. session[x].step # "idle" => session[x].doc \in Docs
    BY <2>1 DEF Sound
  <2>3. OnItsStatus(x)'
    BY <1>1, <2>1, <2>2 DEF OnItsStatus, OnADoc, InOrder, LetIn
  <2>4. CleansUp(x)'
    BY <1>1, <2>1, <2>2 DEF CleansUp, Over, LetIn
  <2>. QED
    BY <2>3, <2>4
<1>3. \A e \in Docs : Over(e) => Over(e)'
  BY <1>1 DEF Over, LetIn
<1>4. \A e \in Docs : docs[e].status = "absent" => docs'[e].status = "absent"
  BY <1>1 DEF LetIn
<1>. QED
  BY <1>1, <1>2, <1>3, <1>4, SourceMove

LEMMA SourceStep ==
    TypeOK /\ SessionOK /\ SourceInv /\ InABatch' /\ [Next]_vars => SourceInv'
<1>. SUFFICES ASSUME TypeOK, SessionOK, SourceInv, InABatch', [Next]_vars PROVE SourceInv'
  OBVIOUS
<1>1. CASE UNCHANGED <<docs, content, overruled, session>> /\ source \subseteq source'
  BY <1>1, SourceSession
<1>2. ASSUME NEW b \in Batches, SubmitFails(b) PROVE SourceInv'
  BY <1>1, <1>2 DEF SubmitFails, history
<1>3. CASE UNCHANGED vars
  BY <1>1, <1>3 DEF vars, history
<1>. QED
  BY <1>2, <1>3, SourceSubmit, SourceClaim, SourceLoad, SourceOpen, SourceCommit, SourceEnd,
     SourceDelete, SourceFault
  DEF Next, WorkerStep, CloseSession, Actors

\* The file an editor uploaded is deleted only after the commit that makes
\* it superfluous, and is not needed again, whatever crashes, overruns or
\* fails to commit and however many requests race: only a document that was
\* decided about once more after its decision may lose a file it needs.
THEOREM SourceIsKept == Spec => []SourceOutlivesItsUse
<1>1. Init => SourceInv
  <2> SUFFICES ASSUME Init PROVE SourceInv
    OBVIOUS
  <2>1. InABatch
    BY EntryInit DEF EntryInv
  <2>2. \A a \in Actors : session[a].step = "idle"
    BY DEF Init, Idle
  <2>3. \A d \in Docs : docs[d].status = "absent"
    BY DEF Init, NoDocRow
  <2>. QED
    BY <2>1, <2>2, <2>3 DEF SourceInv, OnItsStatus, OnADoc, CleansUp
<1>2. TypeOK /\ SessionOK /\ EntryInv /\ SourceInv /\ [Next]_vars => EntryInv' /\ SourceInv'
  BY EntryStep, SourceStep DEF EntryInv
<1>3. SourceInv => SourceOutlivesItsUse
  BY DEF SourceInv, SourceOutlivesItsUse, Over
<1>. QED
  BY <1>1, <1>2, <1>3, EntryInit, TypeCorrect, SessionsSound, PTL DEF Spec

(***************************************************************************)
(* The documented lifecycle.  No invariant is needed beyond the soundness  *)
(* of the sessions: a worker's outcomes are what the document may become   *)
(* from processing, and a request still holds the status it demanded.      *)
(***************************************************************************)
SameStatus == \A d \in Docs : docs'[d].status = docs[d].status

SameView(a) == OnADoc(a)' = OnADoc(a)
               /\ (OnADoc(a) => /\ session'[a].doc = session[a].doc
                                /\ session'[a].row.status = session[a].row.status
                                   \/ a \in Workers)

LEMMA StatusStays == ASSUME SameStatus PROVE UNCHANGED status
BY DEF status, SameStatus

LEMMA StatusMoves ==
    ASSUME NEW S \in SUBSET Docs, NEW from, NEW to,
           \A d \in S : docs[d].status = from /\ docs'[d].status = to,
           \A d \in Docs \ S : docs'[d].status = docs[d].status
    PROVE  Lifecycle!Moves(S, from, to)
BY DEF Lifecycle!Moves, status

\* Everybody sees what he saw.
LEMMA ViewStays == ASSUME \A a \in Actors : SameView(a) PROVE UNCHANGED view
<1>1. \A a \in Actors : view'[a] = view[a]
  BY DEF view, SameView, OnADoc
<1>. QED
  BY <1>1 DEF view

\* Everybody but the actors A does, and these are on no document any more.
LEMMA ViewLeaves ==
    ASSUME NEW A \in SUBSET Actors,
           \A a \in A : ~OnADoc(a)',
           \A a \in Actors \ A : session'[a] = session[a]
    PROVE  view' = [a \in Actors |-> IF a \in A THEN NoDoc ELSE view[a]]
<1>1. \A a \in Actors : view'[a] = IF a \in A THEN NoDoc ELSE view[a]
  BY DEF view, OnADoc
<1>. QED
  BY <1>1 DEF view

\* Everybody but a does.
LEMMA ViewMoves ==
    ASSUME NEW a \in Actors, NEW v, view'[a] = v,
           \A x \in Actors \ {a} : session'[x] = session[x]
    PROVE  view' = [view EXCEPT ![a] = v]
<1>1. \A x \in Actors \ {a} : view'[x] = view[x]
  BY DEF view, OnADoc
<1>. QED
  BY <1>1 DEF view

\* Who is on no document has no view, who is has this one.
LEMMA ViewIs ==
    ASSUME NEW a \in Actors
    PROVE  /\ ~OnADoc(a) => view[a] = NoDoc
           /\ OnADoc(a) /\ a \in Workers => view[a] = <<session[a].doc, "processing">>
           /\ OnADoc(a) /\ a \notin Workers =>
                 view[a] = <<session[a].doc, session[a].row.status>>
BY DEF view

\* A documented transition is a step of the lifecycle.
LEMMA ActIsNext ==
    ASSUME NEW a \in Actors, NEW d \in Docs, NEW from, NEW to,
           <<from, to>> \in Lifecycle!Documented, Lifecycle!Act(a, d, from, to)
    PROVE  Lifecycle!Next
<1>1. \E t \in Lifecycle!Documented : Lifecycle!Act(a, d, t[1], t[2])
  <2>. WITNESS <<from, to>> \in Lifecycle!Documented
  <2>. QED
    OBVIOUS
<1>. QED
  BY <1>1 DEF Lifecycle!Next

\* Leaving is one, too.
LEMMA LeaveIsNext ==
    ASSUME NEW A \in SUBSET Actors, SameStatus,
           \A a \in A : ~OnADoc(a)',
           \A a \in Actors \ A : session'[a] = session[a]
    PROVE  Lifecycle!Next
<1>1. Lifecycle!Leave(A)
  BY ViewLeaves, StatusStays DEF Lifecycle!Leave
<1>. QED
  BY <1>1 DEF Lifecycle!Next

\* A session that goes on without looking again changes nothing.
LEMMA LifecycleLoad ==
    ASSUME TypeOK, SessionOK,
           \/ \E w \in Workers : LoadDocument(w)
                                 \/ \E outcome \in WorkOps : FinishPipeline(w, outcome)
           \/ \E r \in Requests : LoadBatch(r)
    PROVE  UNCHANGED <<status, view>>
<1>1. PICK a \in Actors :
         \/ a \in Workers /\ LoadDocument(a)
         \/ a \in Workers /\ \E outcome \in WorkOps : FinishPipeline(a, outcome)
         \/ a \in Requests /\ LoadBatch(a)
  BY DEF Actors
<1>2. /\ UNCHANGED docs
      /\ \A x \in Actors \ {a} : session'[x] = session[x]
      /\ session[a].step \in {"claimed", "loaded"}
  BY <1>1 DEF LoadDocument, FinishPipeline, LoadBatch, history, TypeOK
<1>3. /\ session'[a].step \in {"loaded", "ready"} /\ session'[a].doc = session[a].doc
      /\ a \in Workers \/ session'[a].row = session[a].row
  <2>1. session[a] \in Session
    BY DEF TypeOK
  <2>2. CASE a \in Workers /\ LoadDocument(a)
    BY <2>1, <2>2 DEF LoadDocument, TypeOK, Session
  <2>3. ASSUME a \in Workers, NEW outcome \in WorkOps, FinishPipeline(a, outcome)
        PROVE  session'[a].step \in {"loaded", "ready"} /\ session'[a].doc = session[a].doc
    BY <2>1, <2>3 DEF FinishPipeline, TypeOK, Session
  <2>4. CASE a \in Requests /\ LoadBatch(a)
    BY <2>1, <2>4 DEF LoadBatch, TypeOK, Session
  <2>. QED
    BY <1>1, <2>2, <2>3, <2>4
<1>4. \A x \in Actors : SameView(x)
  BY <1>2, <1>3 DEF SameView, OnADoc
<1>5. SameStatus
  BY <1>2 DEF SameStatus
<1>. QED
  BY <1>4, <1>5, ViewStays, StatusStays

\* A request looks at its document when it loads it.
LEMMA LifecycleOpen ==
    ASSUME TypeOK, SessionOK, NEW r \in Requests, NEW op \in RequestOps, NEW d \in Docs,
           OpenRequest(r, op, d)
    PROVE  Lifecycle!Next
<1>1. /\ r \in Actors /\ r \notin Workers /\ UNCHANGED docs /\ ~OnADoc(r)
      /\ \A x \in Actors \ {r} : session'[x] = session[x]
  BY ConstAssumption DEF OpenRequest, MayOpen, OnADoc, TypeOK, Actors
<1>2. OnADoc(r)' /\ session'[r].doc = d /\ session'[r].row = docs[d]
  BY <1>1 DEF OpenRequest, TypeOK, Idle, OnADoc
<1>3. view[r] = NoDoc /\ view'[r] = <<d, status[d]>>
  BY <1>1, <1>2 DEF view, status
<1>4. Lifecycle!Look(r, d)
  BY <1>1, <1>3, ViewMoves DEF Lifecycle!Look, status
<1>. QED
  BY <1>1, <1>4 DEF Lifecycle!Next

\* A failed commit and a pod's death leave the document as it is; the
\* deletion of the staged file comes after the commit.
LEMMA LifecycleEnd ==
    ASSUME TypeOK, SessionOK,
           \/ \E a \in Actors : CommitFails(a) \/ DeleteSource(a)
           \/ \E p \in Pods : Crash(p)
    PROVE  Lifecycle!Next
<1>1. PICK A \in SUBSET Actors :
         /\ \A a \in A : session'[a] = Idle
         /\ \A a \in Actors \ A : session'[a] = session[a]
  <2>1. ASSUME NEW a \in Actors, CommitFails(a) \/ DeleteSource(a)
        PROVE  /\ session'[a] = Idle
               /\ \A x \in Actors \ {a} : session'[x] = session[x]
    BY <2>1 DEF CommitFails, DeleteSource, AfterFailedCommit, TypeOK
  <2>2. ASSUME NEW p \in Pods, Crash(p)
        PROVE  \A x \in Actors : session'[x] = IF PodOf[x] = p THEN Idle ELSE session[x]
    BY <2>2 DEF Crash
  <2>3. CASE \E a \in Actors : CommitFails(a) \/ DeleteSource(a)
    <3>1. PICK a \in Actors : CommitFails(a) \/ DeleteSource(a)
      BY <2>3
    <3>2. {a} \in SUBSET Actors
      OBVIOUS
    <3>. QED
      BY <2>1, <3>1, <3>2
  <2>4. CASE \E p \in Pods : Crash(p)
    <3>1. PICK p \in Pods : Crash(p)
      BY <2>4
    <3>2. {x \in Actors : PodOf[x] = p} \in SUBSET Actors
      OBVIOUS
    <3>. QED
      BY <2>2, <3>1, <3>2
  <2>. QED
    BY <2>3, <2>4
<1>2. Idle.step = "idle"
  BY DEF Idle
<1>3. \A a \in A : ~OnADoc(a)'
  BY <1>1, <1>2 DEF OnADoc
<1>4. SameStatus
  BY DEF SameStatus, CommitFails, DeleteSource, Crash
<1>. QED
  BY <1>1, <1>3, <1>4, LeaveIsNext

\* A submission finds no document of its batch.
LEMMA LifecycleSubmit ==
    ASSUME TypeOK, InABatch, NEW b \in Batches, NEW admin \in BOOLEAN,
           NEW folder \in BOOLEAN, SubmitBatch(b, admin, folder)
    PROVE  Lifecycle!Next
<1>1. /\ batches[b].status = "absent" /\ UNCHANGED session
      /\ DocsOf(b) \in SUBSET Docs
      /\ \A d \in DocsOf(b) : docs'[d].status = InitialStatus(admin)
      /\ \A d \in Docs \ DocsOf(b) : docs'[d].status = docs[d].status
  BY DEF SubmitBatch, Unused, DocsOf, NoDocRow
<1>2. \A d \in DocsOf(b) : docs[d].status = "absent"
  BY <1>1 DEF InABatch, DocsOf
<1>3. Lifecycle!Moves(DocsOf(b), "absent", InitialStatus(admin))
  BY <1>1, <1>2, StatusMoves
<1>4. UNCHANGED view
  BY <1>1 DEF view, OnADoc
<1>5. InitialStatus(admin) \in {"queued", "pending_approval"}
  BY DEF InitialStatus
<1>6. Lifecycle!Submit(DocsOf(b), InitialStatus(admin))
  BY <1>3, <1>4, <1>5 DEF Lifecycle!Submit
<1>. QED
  BY <1>1, <1>5, <1>6 DEF Lifecycle!Next

\* A worker claims a document that is queued.
LEMMA LifecycleClaim ==
    ASSUME TypeOK, NEW w \in Workers, NEW d \in Docs, Claim(w, d)
    PROVE  Lifecycle!Next
<1>1. /\ docs[d].status = "queued" /\ docs'[d].status = "processing"
      /\ \A e \in Docs \ {d} : docs'[e] = docs[e]
      /\ w \in Actors /\ ~OnADoc(w)
  BY DEF Claim, MayOpen, Claimable, Claimed, TypeOK, DocRow, OnADoc, Actors
<1>2. /\ OnADoc(w)' /\ session'[w].doc = d
      /\ \A x \in Actors \ {w} : session'[x] = session[x]
  BY <1>1 DEF Claim, TypeOK, Session, OnADoc
<1>3. view[w] = NoDoc /\ view'[w] = <<d, "processing">>
  BY <1>1, <1>2 DEF view
<1>4. Lifecycle!Moves({d}, "queued", "processing")
  BY <1>1, StatusMoves
<1>5. Lifecycle!Claim(w, d)
  BY <1>1, <1>2, <1>3, <1>4, ViewMoves DEF Lifecycle!Claim
<1>. QED
  BY <1>1, <1>5 DEF Lifecycle!Next

\* A commit writes a documented transition of the status its session saw.
LEMMA LifecycleCommit ==
    ASSUME TypeOK, SessionOK, NEW a \in Actors, Commit(a)
    PROVE  Lifecycle!Next
<1>. DEFINE op == session[a].op
<1>0. PICK d \in Docs : d = session[a].doc
  BY CommitPre DEF Commit
<1>1. /\ op \in AllOps \ {"work"} /\ OnADoc(a)
      /\ a \in Workers => op \in WorkOps
      /\ a \notin Workers => op \in RequestOps
      /\ op \in RequestOps => session[a].row.status = Demands(op)
  BY CommitPre DEF Commit, AtCommit, OnADoc
<1>2. /\ \A e \in Docs \ {d} : docs'[e] = docs[e]
      /\ \/ docs'[d].status = docs[d].status
            /\ op \notin {"retry", "flag", "approve", "reject"}
         \/ docs'[d].status = "completed" /\ op = "complete"
         \/ docs'[d].status = "failed" /\ op \in {"fail", "fail_in_pr"}
         \/ docs'[d].status = "queued" /\ op \in {"retry", "flag", "approve"}
         \/ docs'[d].status = "rejected" /\ op = "reject"
  BY <1>0, CommitStatus
<1>3. /\ \A x \in Actors \ {a} : session'[x] = session[x]
      /\ ~OnADoc(a)'
  BY DEF Commit, TypeOK, Idle, OnADoc
<1>4. view' = [view EXCEPT ![a] = NoDoc]
  BY <1>3, ViewIs, ViewMoves DEF view
<1>5. ASSUME NEW to, docs'[d].status = to PROVE status' = [status EXCEPT ![d] = to]
  BY <1>2, <1>5 DEF status
<1>6. docs'[d].status = docs[d].status => UNCHANGED status
  BY <1>2, StatusStays DEF SameStatus
<1>. HIDE DEF op
<1>7. CASE a \in Workers
  <2>. DEFINE to == IF op = "complete" THEN "completed" ELSE "failed"
  <2>1. view[a] = <<d, "processing">>
    BY <1>0, <1>1, <1>7 DEF view
  <2>2. status' = [status EXCEPT ![d] = to] \/ UNCHANGED status
    BY <1>1, <1>2, <1>5, <1>6, <1>7 DEF AllOps, WorkOps, RequestOps
  <2>3. <<"processing", to>> \in Lifecycle!Documented
    BY DEF Lifecycle!Documented
  <2>. HIDE DEF to
  <2>4. Lifecycle!Act(a, d, "processing", to)
    BY <1>4, <2>1, <2>2, <2>3 DEF Lifecycle!Act
  <2>. QED
    BY <2>3, <2>4, ActIsNext
<1>8. CASE a \notin Workers /\ op = "approve_output"
  <2>1. SameStatus
    BY <1>2, <1>8 DEF SameStatus
  <2>2. {a} \in SUBSET Actors
    OBVIOUS
  <2>. QED
    BY <1>3, <2>1, <2>2, LeaveIsNext
<1>9. CASE a \notin Workers /\ op # "approve_output"
  <2>. DEFINE to == IF op = "reject" THEN "rejected" ELSE "queued"
  <2>1. view[a] = <<d, Demands(op)>>
    BY <1>0, <1>1, <1>9 DEF view
  <2>2. status' = [status EXCEPT ![d] = to]
    BY <1>1, <1>2, <1>5, <1>9 DEF RequestOps
  <2>3. <<Demands(op), to>> \in Lifecycle!Documented
    BY <1>1, <1>9 DEF Lifecycle!Documented, Demands, RequestOps
  <2>. HIDE DEF to
  <2>4. Lifecycle!Act(a, d, Demands(op), to)
    BY <1>4, <2>1, <2>2, <2>3 DEF Lifecycle!Act
  <2>. QED
    BY <2>3, <2>4, ActIsNext
<1>. QED
  BY <1>7, <1>8, <1>9

\* The watchdog and the recovery look at the status they change.
LEMMA LifecycleFault ==
    ASSUME TypeOK, (\E d \in Docs : Watchdog(d)) \/ (\E p \in Pods : Start(p))
    PROVE  Lifecycle!Next
<1>1. UNCHANGED view
  BY DEF Watchdog, Start, view, OnADoc
<1>2. ASSUME NEW d \in Docs, Watchdog(d) PROVE Lifecycle!Next
  <2>1. /\ docs[d].status = "processing" /\ docs'[d].status = "failed"
        /\ \A e \in Docs \ {d} : docs'[e] = docs[e]
    BY <1>2 DEF Watchdog, Watched, TypeOK, DocRow
  <2>2. Lifecycle!TimeOut(d)
    BY <1>1, <2>1, StatusMoves DEF Lifecycle!TimeOut
  <2>. QED
    BY <2>2 DEF Lifecycle!Next
<1>3. ASSUME NEW p \in Pods, Start(p) PROVE Lifecycle!Next
  <2>. DEFINE S == {d \in Docs : docs[d].status = "processing"}
  <2>1. \A d \in S : docs[d].status = "processing" /\ docs'[d].status = "queued"
    <3> SUFFICES ASSUME NEW d \in S PROVE docs'[d].status = "queued"
      OBVIOUS
    <3>1. docs'[d] = [docs[d] EXCEPT !.status = "queued", !.started = FALSE]
      BY <1>3 DEF Start
    <3>. QED
      BY <3>1 DEF TypeOK, DocRow
  <2>2. \A d \in Docs \ S : docs'[d].status = docs[d].status
    BY <1>3 DEF Start
  <2>3. S \in SUBSET Docs
    OBVIOUS
  <2>. HIDE DEF S
  <2>4. Lifecycle!Recover(S)
    BY <1>1, <2>1, <2>2, <2>3, StatusMoves DEF Lifecycle!Recover
  <2>. QED
    BY <2>3, <2>4 DEF Lifecycle!Next
<1>. QED
  BY <1>2, <1>3

LEMMA LifecycleStep ==
    TypeOK /\ SessionOK /\ InABatch /\ [Next]_vars => [Lifecycle!Next]_<<status, view>>
<1>. SUFFICES ASSUME TypeOK, SessionOK, InABatch, [Next]_vars
              PROVE  Lifecycle!Next \/ UNCHANGED <<status, view>>
  OBVIOUS
<1>1. CASE UNCHANGED <<docs, session>>
  BY <1>1 DEF status, view, OnADoc
<1>2. ASSUME NEW b \in Batches, SubmitFails(b)
      PROVE  Lifecycle!Next \/ UNCHANGED <<status, view>>
  BY <1>1, <1>2 DEF SubmitFails
<1>3. CASE UNCHANGED vars
  BY <1>1, <1>3 DEF vars
<1>. QED
  BY <1>2, <1>3, LifecycleSubmit, LifecycleClaim, LifecycleLoad, LifecycleOpen, LifecycleEnd,
     LifecycleCommit, LifecycleFault
  DEF Next, WorkerStep, CloseSession, Actors

\* Every write of the pipeline is a transition its data model documents, of
\* the status its writer saw, for any number of pods, workers, requests and
\* documents, through crashes, overruns and failed commits; nothing holds
\* the writer to the status the document has by then
\* (specs/3-ingestion-pipeline/data-model.md).
THEOREM IngestionFollowsLifecycle == Spec => FollowsLifecycle
<1>1. Init => Lifecycle!Init
  <2> SUFFICES ASSUME Init PROVE Lifecycle!Init
    OBVIOUS
  <2>1. \A a \in Actors : ~OnADoc(a)
    BY DEF Init, Idle, OnADoc
  <2>. QED
    BY <2>1 DEF Init, NoDocRow, status, view, Lifecycle!Init
<1>2. TypeOK /\ SessionOK /\ EntryInv /\ [Next]_vars
         => EntryInv' /\ [Lifecycle!Next]_<<status, view>>
  BY EntryStep, LifecycleStep DEF EntryInv
<1>. QED
  BY <1>1, <1>2, EntryInit, TypeCorrect, SessionsSound, PTL
  DEF Spec, FollowsLifecycle, Lifecycle!Spec

(***************************************************************************)
(* The counters on calm paths.  While no two sessions overlap and nothing  *)
(* times out, the batch row a session has loaded is the batch row, the     *)
(* document it loaded has not ended meanwhile, and each commit moves one   *)
(* document and one counter together.                                      *)
(***************************************************************************)
In(b, st) == InStatus(b, {st})

Tally(b) ==
    /\ IsFiniteSet(In(b, "completed")) /\ IsFiniteSet(In(b, "failed"))
    /\ batches[b].completed = Cardinality(In(b, "completed"))
    /\ batches[b].failed = Cardinality(In(b, "failed"))

\* What a session that is alone knows.
Attends(a) ==
    /\ OnADoc(a) =>
          /\ a \in Workers => docs[session[a].doc].status \in {"queued", "processing"}
          /\ a \in Requests => /\ session[a].op \in RequestOps
                               /\ docs[session[a].doc].status = Demands(session[a].op)
    /\ a \in Workers /\ session[a].step \in {"loaded", "ready"} =>
          session[a].row.status \in {"queued", "processing"}
    /\ session[a].step = "ready" => session[a].batch = batches[BatchOf[session[a].doc]]

Alone == \A a, c \in Actors : session[a].step # "idle" /\ session[c].step # "idle" => a = c

CalmInv ==
    /\ InABatch
    /\ calm => Alone /\ (\A a \in Actors : Attends(a)) /\ (\A b \in Batches : Tally(b))

\* The documents of a batch in a status, after one document moved.
LEMMA InSame ==
    ASSUME NEW b \in Batches, NEW st,
           \A d \in DocsOf(b) : docs'[d].status = st <=> docs[d].status = st
    PROVE  In(b, st)' = In(b, st)
BY DEF In, InStatus

LEMMA InGrows ==
    ASSUME NEW b \in Batches, NEW st, NEW d \in DocsOf(b), IsFiniteSet(In(b, st)),
           docs[d].status # st, docs'[d].status = st,
           \A e \in Docs \ {d} : docs'[e] = docs[e]
    PROVE  IsFiniteSet(In(b, st)') /\ Cardinality(In(b, st)') = Cardinality(In(b, st)) + 1
<1>1. In(b, st)' = In(b, st) \cup {d} /\ d \notin In(b, st)
  BY DEF In, InStatus, DocsOf
<1>2. /\ IsFiniteSet(In(b, st) \cup {d})
      /\ Cardinality(In(b, st) \cup {d}) = Cardinality(In(b, st)) + 1
  BY <1>1, FS_AddElement
<1>. QED
  BY <1>1, <1>2

LEMMA InShrinks ==
    ASSUME NEW b \in Batches, NEW st, NEW d \in DocsOf(b), IsFiniteSet(In(b, st)),
           docs[d].status = st, docs'[d].status # st,
           \A e \in Docs \ {d} : docs'[e] = docs[e]
    PROVE  /\ IsFiniteSet(In(b, st)')
           /\ Cardinality(In(b, st)') = Decrement(Cardinality(In(b, st)))
<1>1. In(b, st)' = In(b, st) \ {d} /\ d \in In(b, st)
  BY DEF In, InStatus, DocsOf
<1>2. /\ IsFiniteSet(In(b, st) \ {d})
      /\ Cardinality(In(b, st) \ {d}) = Cardinality(In(b, st)) - 1
  BY <1>1, FS_RemoveElement
<1>3. Cardinality(In(b, st)) \in Nat /\ Cardinality(In(b, st)) # 0
  BY <1>1, FS_CardinalityType, FS_EmptySet
<1>. QED
  BY <1>1, <1>2, <1>3 DEF Decrement

LEMMA TallyKept ==
    ASSUME NEW b \in Batches, Tally(b),
           batches'[b].completed = batches[b].completed, batches'[b].failed = batches[b].failed,
           \A d \in DocsOf(b), st \in {"completed", "failed"} :
              docs'[d].status = st <=> docs[d].status = st
    PROVE  Tally(b)'
<1>1. In(b, "completed")' = In(b, "completed") /\ In(b, "failed")' = In(b, "failed")
  BY InSame
<1>. QED
  BY <1>1 DEF Tally

\* Documents and batches as they were: only the session moves.
LEMMA CalmSession ==
    ASSUME CalmInv, InABatch', UNCHANGED <<docs, batches>>, calm' => calm /\ Alone' /\
           (\A a \in Actors : session'[a] = session[a] \/ Attends(a)')
    PROVE  CalmInv'
<1>. SUFFICES ASSUME calm' PROVE (\A a \in Actors : Attends(a)') /\ \A b \in Batches : Tally(b)'
  BY DEF CalmInv
<1>1. ASSUME NEW a \in Actors PROVE Attends(a)'
  <2>1. CASE session'[a] = session[a]
    BY <2>1 DEF CalmInv, Attends, OnADoc
  <2>. QED
    BY <2>1
<1>2. \A b \in Batches : Tally(b)'
  BY TallyKept DEF CalmInv
<1>. QED
  BY <1>1, <1>2

\* A session that moves on was the one in flight, or is the first.
LEMMA AloneAfter ==
    ASSUME Alone, NEW a \in Actors,
           session[a].step # "idle" \/ InFlight = {},
           \A x \in Actors \ {a} : session'[x] = session[x]
    PROVE  Alone'
BY DEF Alone, InFlight

LEMMA CalmClaim ==
    ASSUME TypeOK, SessionOK, CalmInv, InABatch', NEW w \in Workers, NEW d \in Docs, Claim(w, d)
    PROVE  CalmInv'
<1>. SUFFICES ASSUME calm' PROVE Alone' /\ (\A a \in Actors : Attends(a)')
                                        /\ (\A b \in Batches : Tally(b)')
  BY DEF CalmInv
<1>1. /\ docs[d].status = "queued" /\ docs'[d].status = "processing"
      /\ \A e \in Docs \ {d} : docs'[e] = docs[e]
      /\ batches' = batches /\ calm /\ InFlight = {}
  BY DEF Claim, Claimable, Claimed, TypeOK, DocRow
<1>2. /\ w \in Actors /\ w \notin Requests
      /\ session'[w].doc = d /\ session'[w].step = "claimed"
      /\ \A x \in Actors \ {w} : session'[x] = session[x] /\ session[x].step = "idle"
  BY <1>1, ConstAssumption DEF Claim, TypeOK, Actors, Session, InFlight
<1>3. Alone'
  BY <1>1, <1>2, AloneAfter DEF CalmInv
<1>4. ASSUME NEW x \in Actors PROVE Attends(x)'
  <2>1. CASE x = w
    BY <1>1, <1>2, <2>1 DEF Attends
  <2>2. CASE x # w
    BY <1>2, <2>2 DEF Attends, OnADoc
  <2>. QED
    BY <2>1, <2>2
<1>5. ASSUME NEW b \in Batches PROVE Tally(b)'
  <2>1. \A e \in DocsOf(b), st \in {"completed", "failed"} :
           docs'[e].status = st <=> docs[e].status = st
    BY <1>1 DEF DocsOf
  <2>. QED
    BY <1>1, <2>1, TallyKept DEF CalmInv
<1>. QED
  BY <1>3, <1>4, <1>5

LEMMA CalmLoad ==
    ASSUME TypeOK, SessionOK, CalmInv, InABatch', NEW a \in Actors,
           \/ a \in Workers /\ LoadDocument(a)
           \/ a \in Workers /\ \E outcome \in WorkOps : FinishPipeline(a, outcome)
           \/ a \in Requests /\ LoadBatch(a)
    PROVE  CalmInv'
<1>. SUFFICES ASSUME calm' PROVE CalmInv'
  BY DEF CalmInv
<1>1. /\ UNCHANGED <<docs, batches, calm>> /\ session[a].step \in {"claimed", "loaded"}
      /\ \A x \in Actors \ {a} : session'[x] = session[x]
  BY DEF LoadDocument, FinishPipeline, LoadBatch, history, TypeOK
<1>2. Attends(a) /\ OnADoc(a) /\ session[a] \in Session /\ calm
      /\ ~(a \in Workers /\ a \in Requests)
  BY <1>1, ConstAssumption DEF CalmInv, OnADoc, TypeOK
<1>3. Attends(a)'
  <2>1. CASE a \in Workers /\ LoadDocument(a)
    <3>1. /\ session'[a].step = "loaded" /\ session'[a].doc = session[a].doc
          /\ session'[a].row = docs[session[a].doc]
      BY <1>2, <2>1 DEF LoadDocument, TypeOK, Session
    <3>. QED
      BY <1>1, <1>2, <2>1, <3>1 DEF Attends
  <2>2. ASSUME a \in Workers, NEW outcome \in WorkOps, FinishPipeline(a, outcome)
        PROVE  Attends(a)'
    <3>1. /\ session[a].step = "loaded"
          /\ session'[a].step = "ready" /\ session'[a].doc = session[a].doc
          /\ session'[a].row = session[a].row
          /\ session'[a].batch = batches[BatchOf[session[a].doc]]
      BY <1>2, <2>2 DEF FinishPipeline, TypeOK, Session
    <3>. QED
      BY <1>1, <1>2, <2>2, <3>1 DEF Attends
  <2>3. CASE a \in Requests /\ LoadBatch(a)
    <3>1. /\ session'[a].step = "ready" /\ session'[a].doc = session[a].doc
          /\ session'[a].op = session[a].op
          /\ session'[a].batch = batches[BatchOf[session[a].doc]]
      BY <1>2, <2>3 DEF LoadBatch, TypeOK, Session
    <3>. QED
      BY <1>1, <1>2, <2>3, <3>1 DEF Attends
  <2>. QED
    BY <2>1, <2>2, <2>3
<1>4. Alone'
  BY <1>1, <1>2, AloneAfter DEF CalmInv
<1>. QED
  BY <1>1, <1>2, <1>3, <1>4, CalmSession

LEMMA CalmOpen ==
    ASSUME TypeOK, SessionOK, CalmInv, InABatch', NEW r \in Requests,
           NEW op \in RequestOps, NEW d \in Docs, OpenRequest(r, op, d)
    PROVE  CalmInv'
<1>. SUFFICES ASSUME calm' PROVE CalmInv'
  BY DEF CalmInv
<1>1. /\ r \in Actors /\ r \notin Workers /\ UNCHANGED <<docs, batches>> /\ calm
      /\ InFlight = {}
      /\ \A x \in Actors \ {r} : session'[x] = session[x]
  BY ConstAssumption DEF OpenRequest, TypeOK, Actors
<1>2. /\ session'[r].op = op /\ session'[r].doc = d /\ session'[r].step = "loaded"
      /\ docs[d].status = Demands(op)
  BY <1>1 DEF OpenRequest, TypeOK, Idle
<1>3. Attends(r)'
  BY <1>1, <1>2 DEF Attends
<1>4. Alone'
  BY <1>1, AloneAfter DEF CalmInv
<1>. QED
  BY <1>1, <1>3, <1>4, CalmSession

LEMMA CalmEnd ==
    ASSUME TypeOK, SessionOK, CalmInv, InABatch',
           \/ \E a \in Actors : CommitFails(a) \/ DeleteSource(a)
           \/ \E p \in Pods : Crash(p)
    PROVE  CalmInv'
<1>1. /\ UNCHANGED <<docs, batches, calm>>
      /\ \A x \in Actors : session'[x] = session[x] \/ session'[x] = Idle
  BY DEF CommitFails, DeleteSource, AfterFailedCommit, Crash, history, TypeOK
<1>2. Idle.step = "idle"
  BY DEF Idle
<1>3. ASSUME NEW x \in Actors, session'[x] # session[x] PROVE Attends(x)'
  <2>1. session'[x].step = "idle"
    BY <1>1, <1>2, <1>3
  <2>. QED
    BY <2>1 DEF Attends, OnADoc
<1>4. calm => Alone'
  BY <1>1, <1>2 DEF CalmInv, Alone
<1>. QED
  BY <1>1, <1>3, <1>4, CalmSession
LEMMA CalmSubmit ==
    ASSUME TypeOK, SessionOK, CalmInv, InABatch', NEW b \in Batches,
           NEW admin \in BOOLEAN, NEW folder \in BOOLEAN, SubmitBatch(b, admin, folder)
    PROVE  CalmInv'
<1>. SUFFICES ASSUME calm PROVE Alone' /\ (\A a \in Actors : Attends(a)')
                                       /\ (\A c \in Batches : Tally(c)')
  BY DEF CalmInv, SubmitBatch
<1>1. /\ batches[b].status = "absent" /\ UNCHANGED session
      /\ \A d \in DocsOf(b) : docs'[d].status = InitialStatus(admin)
      /\ \A d \in Docs \ DocsOf(b) : docs'[d] = docs[d]
      /\ \A c \in Batches \ {b} : batches'[c] = batches[c]
      /\ batches'[b].completed = 0 /\ batches'[b].failed = 0
  BY DEF SubmitBatch, Unused, DocsOf, NoDocRow, NoBatchRow, TypeOK
<1>2. \A d \in DocsOf(b) : docs[d].status = "absent" /\ \A a \in Actors : session[a].doc # d
  BY <1>1 DEF CalmInv, InABatch, DocsOf
<1>3. ASSUME NEW a \in Actors PROVE Attends(a)'
  <2>1. Attends(a)
    BY DEF CalmInv
  <2>2. session[a].step # "idle" => session[a].doc \in Docs \ DocsOf(b)
    BY <1>2 DEF SessionOK, Sound
  <2>3. session[a].step # "idle" => /\ docs'[session[a].doc] = docs[session[a].doc]
                                    /\ batches'[BatchOf[session[a].doc]]
                                          = batches[BatchOf[session[a].doc]]
    BY <1>1, <2>2, ConstAssumption DEF DocsOf
  <2>. QED
    BY <1>1, <2>1, <2>3 DEF Attends, OnADoc
<1>4. ASSUME NEW c \in Batches PROVE Tally(c)'
  <2>1. CASE c # b
    <3>1. \A d \in DocsOf(c), st \in {"completed", "failed"} :
             docs'[d].status = st <=> docs[d].status = st
      BY <1>1, <2>1 DEF DocsOf
    <3>. QED
      BY <1>1, <2>1, <3>1, TallyKept DEF CalmInv
  <2>2. CASE c = b
    <3>1. \A st \in {"completed", "failed"} : In(b, st)' = {}
      BY <1>1, InitialNotProcessing DEF In, InStatus
    <3>2. IsFiniteSet({}) /\ Cardinality({}) = 0
      BY FS_EmptySet
    <3>3. /\ IsFiniteSet(In(b, "completed")') /\ IsFiniteSet(In(b, "failed")')
          /\ Cardinality(In(b, "completed")') = 0 /\ Cardinality(In(b, "failed")') = 0
      BY <3>1, <3>2
    <3>. QED
      BY <1>1, <2>2, <3>3 DEF Tally
  <2>. QED
    BY <2>1, <2>2
<1>5. Alone'
  BY <1>1 DEF CalmInv, Alone
<1>. QED
  BY <1>3, <1>4, <1>5

\* What the assignments of an operation leave in the counters.
LEMMA CountedIs ==
    ASSUME NEW op \in CountingOps, NEW row \in BatchRow, NEW total
    PROVE  /\ Counted(op, row, total).completed =
                IF op = "complete" THEN row.completed + 1
                ELSE IF op = "flag" THEN Decrement(row.completed) ELSE row.completed
           /\ Counted(op, row, total).failed =
                IF op \in {"fail", "fail_in_pr"} THEN row.failed + 1
                ELSE IF op = "retry" THEN Decrement(row.failed) ELSE row.failed
<1>1. \A r \in BatchRow : /\ Recompute(r, total).completed = r.completed
                          /\ Recompute(r, total).failed = r.failed
  BY DEF Recompute, BatchRow
<1>2. CASE op = "complete"
  <2>1. PICK r : r = [row EXCEPT !.completed = @ + 1]
    OBVIOUS
  <2>2. r \in BatchRow /\ r.completed = row.completed + 1 /\ r.failed = row.failed
    BY <2>1 DEF BatchRow
  <2>3. Counted(op, row, total) = Recompute(r, total)
    BY <1>2, <2>1 DEF Counted
  <2>. QED
    BY <1>1, <1>2, <2>2, <2>3
<1>3. CASE op \in {"fail", "fail_in_pr"}
  <2>1. PICK r : r = [row EXCEPT !.failed = @ + 1]
    OBVIOUS
  <2>2. r \in BatchRow /\ r.completed = row.completed /\ r.failed = row.failed + 1
    BY <2>1 DEF BatchRow
  <2>3. Counted(op, row, total) = Recompute(r, total)
    BY <1>3, <2>1 DEF Counted
  <2>. QED
    BY <1>1, <1>3, <2>2, <2>3
<1>4. CASE op = "retry"
  BY <1>4 DEF Counted, Retried, BatchRow
<1>5. CASE op = "flag"
  BY <1>5 DEF Counted, BatchRow
<1>. QED
  BY <1>2, <1>3, <1>4, <1>5 DEF CountingOps

\* On a calm path the commit moves its document and its batch as assigned.
LEMMA CalmCommitDoes ==
    ASSUME TypeOK, SessionOK, CalmInv, calm, NEW a \in Actors, Commit(a),
           NEW d \in Docs, d = session[a].doc, NEW b \in Batches, b = BatchOf[d]
    PROVE  /\ \A e \in Docs \ {d} : docs'[e] = docs[e]
           /\ \A c \in Batches \ {b} : batches'[c] = batches[c]
           /\ IF session[a].op \in CountingOps
              THEN /\ session[a].step = "ready"
                   /\ batches'[b] = Counted(session[a].op, batches[b], Total(b))
              ELSE batches' = batches
           /\ session[a].op = "complete" =>
                 /\ docs[d].status \in {"queued", "processing"}
                 /\ docs'[d].status = "completed"
           /\ session[a].op \in {"fail", "fail_in_pr"} =>
                 /\ docs[d].status \in {"queued", "processing"}
                 /\ docs'[d].status = "failed"
           /\ session[a].op = "retry" =>
                 docs[d].status = "failed" /\ docs'[d].status = "queued"
           /\ session[a].op = "flag" =>
                 docs[d].status = "completed" /\ docs'[d].status = "queued"
           /\ session[a].op \notin CountingOps =>
                 \/ docs'[d].status = docs[d].status
                 \/ /\ docs[d].status = "pending_approval"
                    /\ docs'[d].status \in {"queued", "rejected"}
<1>. DEFINE op == session[a].op
<1>1. /\ op \in AllOps \ {"work"} /\ Attends(a) /\ OnADoc(a) /\ session[a] \in Session
      /\ session[a].step = "ready" => op \in CountingOps
      /\ a \in Workers => op \in WorkOps
      /\ session[a].step = "ready" \/ op \in RequestOps \ BatchOps
  BY CommitPre DEF Commit, AtCommit, CalmInv, OnADoc
<1>2. /\ session[a].row \in DocRow /\ session[a].batch \in BatchRow
      /\ batches[b] \in BatchRow /\ docs[d] \in DocRow
  BY <1>1 DEF Session, TypeOK
<1>3. /\ op \in WorkOps => /\ docs[d].status \in {"queued", "processing"}
                           /\ session[a].row.status \in {"queued", "processing"}
      /\ op \in RequestOps => docs[d].status = Demands(op)
  <2>1. op \in WorkOps => a \in Workers
    BY <1>1 DEF Attends, Actors, WorkOps, RequestOps
  <2>2. op \in RequestOps => a \in Requests
    BY <1>1 DEF Actors, WorkOps, RequestOps
  <2>3. op \in WorkOps => session[a].step = "ready"
    BY <1>1 DEF WorkOps, RequestOps
  <2>. QED
    BY <1>1, <2>1, <2>2, <2>3 DEF Attends
<1>4. /\ \A e \in Docs \ {d} : docs'[e] = docs[e]
      /\ \/ docs'[d].status = docs[d].status
            /\ op \notin {"retry", "flag", "approve", "reject"}
         \/ docs'[d].status = "completed" /\ op = "complete"
         \/ docs'[d].status = "failed" /\ op \in {"fail", "fail_in_pr"}
         \/ docs'[d].status = "queued" /\ op \in {"retry", "flag", "approve"}
         \/ docs'[d].status = "rejected" /\ op = "reject"
  BY CommitStatus
<1>5. op \in WorkOps => docs'[d].status # docs[d].status
  <2>1. PICK new : new = Assigned(op, session[a].row)
    OBVIOUS
  <2>2. new \in DocRow
    BY <1>1, <1>2, <2>1, AssignedType
  <2>3. docs'[d] = Flush(docs[d], session[a].row, new)
    BY <2>1 DEF Commit, TypeOK
  <2>4. docs'[d].status = IF new.status # session[a].row.status THEN new.status
                                                                ELSE docs[d].status
    BY <1>2, <2>2, <2>3, DocFlush
  <2>5. op \in WorkOps => new.status \in {"completed", "failed"}
    BY <1>1, <1>2, <2>1, AssignedIs DEF WorkOps
  <2>. QED
    BY <1>3, <2>4, <2>5
<1>6. op \in CountingOps <=> session[a].step = "ready"
  BY <1>1 DEF CountingOps, RequestOps, BatchOps
<1>7. CASE op \in CountingOps
  <2>1. session[a].step = "ready" /\ session[a].batch = batches[b]
    BY <1>1, <1>6, <1>7 DEF Attends
  <2>2. PICK new : new = Counted(op, batches[b], Total(b))
    OBVIOUS
  <2>3. new \in BatchRow
    BY <1>2, <1>7, <2>2, CountedType
  <2>4. batches' = [batches EXCEPT ![b] = Flush(@, session[a].batch, new)]
    BY <2>1, <2>2 DEF Commit
  <2>5. batches'[b] = Flush(batches[b], batches[b], new)
        /\ \A c \in Batches \ {b} : batches'[c] = batches[c]
    BY <2>1, <2>4 DEF TypeOK
  <2>6. Flush(batches[b], batches[b], new) = new
    BY <1>2, <2>3 DEF Flush, BatchRow
  <2>7. /\ op = "complete" => docs[d].status \in {"queued", "processing"}
                              /\ docs'[d].status = "completed"
        /\ op \in {"fail", "fail_in_pr"} => docs[d].status \in {"queued", "processing"}
                                            /\ docs'[d].status = "failed"
    BY <1>3, <1>4, <1>5 DEF WorkOps
  <2>8. /\ op = "retry" => docs[d].status = "failed" /\ docs'[d].status = "queued"
        /\ op = "flag" => docs[d].status = "completed" /\ docs'[d].status = "queued"
    BY <1>3, <1>4 DEF RequestOps, Demands
  <2>. QED
    BY <1>4, <1>7, <2>1, <2>2, <2>5, <2>6, <2>7, <2>8
<1>8. CASE op \notin CountingOps
  <2>1. batches' = batches
    BY <1>6, <1>8 DEF Commit
  <2>2. op \in {"approve", "reject", "approve_output"}
    BY <1>1, <1>8 DEF AllOps, WorkOps, RequestOps, CountingOps
  <2>3. \/ docs'[d].status = docs[d].status
        \/ docs[d].status = "pending_approval" /\ docs'[d].status \in {"queued", "rejected"}
    BY <1>3, <1>4, <2>2 DEF RequestOps, Demands
  <2>. QED
    BY <1>4, <1>8, <2>1, <2>2, <2>3
<1>. QED
  BY <1>7, <1>8
LEMMA TallyCommit ==
    ASSUME TypeOK, SessionOK, CalmInv, calm, NEW a \in Actors, Commit(a),
           NEW d \in Docs, d = session[a].doc, NEW b \in Batches, b = BatchOf[d]
    PROVE  Tally(b)'
<1>. DEFINE op == session[a].op
<1>1. /\ Tally(b) /\ d \in DocsOf(b) /\ batches[b] \in BatchRow
      /\ IsFiniteSet(In(b, "completed")) /\ IsFiniteSet(In(b, "failed"))
  BY DEF CalmInv, Tally, DocsOf, TypeOK
<1>2. \A e \in Docs \ {d} : docs'[e] = docs[e]
  BY CalmCommitDoes
<1>3. op \in CountingOps =>
         /\ batches'[b].completed =
               IF op = "complete" THEN batches[b].completed + 1
               ELSE IF op = "flag" THEN Decrement(batches[b].completed)
               ELSE batches[b].completed
         /\ batches'[b].failed =
               IF op \in {"fail", "fail_in_pr"} THEN batches[b].failed + 1
               ELSE IF op = "retry" THEN Decrement(batches[b].failed) ELSE batches[b].failed
  BY <1>1, CalmCommitDoes, CountedIs
<1>4. CASE op = "complete"
  <2>1. docs[d].status \in {"queued", "processing"} /\ docs'[d].status = "completed"
    BY <1>4, CalmCommitDoes
  <2>2. /\ IsFiniteSet(In(b, "completed")')
        /\ Cardinality(In(b, "completed")') = Cardinality(In(b, "completed")) + 1
    BY <1>1, <1>2, <2>1, InGrows
  <2>3. In(b, "failed")' = In(b, "failed")
    BY <1>2, <2>1, InSame DEF DocsOf
  <2>. QED
    BY <1>1, <1>3, <1>4, <2>2, <2>3 DEF Tally, CountingOps
<1>5. CASE op \in {"fail", "fail_in_pr"}
  <2>1. docs[d].status \in {"queued", "processing"} /\ docs'[d].status = "failed"
    BY <1>5, CalmCommitDoes
  <2>2. /\ IsFiniteSet(In(b, "failed")')
        /\ Cardinality(In(b, "failed")') = Cardinality(In(b, "failed")) + 1
    BY <1>1, <1>2, <2>1, InGrows
  <2>3. In(b, "completed")' = In(b, "completed")
    BY <1>2, <2>1, InSame DEF DocsOf
  <2>. QED
    BY <1>1, <1>3, <1>5, <2>2, <2>3 DEF Tally, CountingOps
<1>6. CASE op = "retry"
  <2>1. docs[d].status = "failed" /\ docs'[d].status = "queued"
    BY <1>6, CalmCommitDoes
  <2>2. /\ IsFiniteSet(In(b, "failed")')
        /\ Cardinality(In(b, "failed")') = Decrement(Cardinality(In(b, "failed")))
    BY <1>1, <1>2, <2>1, InShrinks
  <2>3. In(b, "completed")' = In(b, "completed")
    BY <1>2, <2>1, InSame DEF DocsOf
  <2>. QED
    BY <1>1, <1>3, <1>6, <2>2, <2>3 DEF Tally, CountingOps
<1>7. CASE op = "flag"
  <2>1. docs[d].status = "completed" /\ docs'[d].status = "queued"
    BY <1>7, CalmCommitDoes
  <2>2. /\ IsFiniteSet(In(b, "completed")')
        /\ Cardinality(In(b, "completed")') = Decrement(Cardinality(In(b, "completed")))
    BY <1>1, <1>2, <2>1, InShrinks
  <2>3. In(b, "failed")' = In(b, "failed")
    BY <1>2, <2>1, InSame DEF DocsOf
  <2>. QED
    BY <1>1, <1>3, <1>7, <2>2, <2>3 DEF Tally, CountingOps
<1>8. CASE op \notin CountingOps
  <2>1. /\ batches' = batches
        /\ \/ docs'[d].status = docs[d].status
           \/ docs[d].status = "pending_approval" /\ docs'[d].status \in {"queued", "rejected"}
    BY <1>8, CalmCommitDoes
  <2>2. \A e \in DocsOf(b), st \in {"completed", "failed"} :
           docs'[e].status = st <=> docs[e].status = st
    BY <1>2, <2>1 DEF DocsOf
  <2>. QED
    BY <1>1, <2>1, <2>2, TallyKept
<1>. QED
  BY <1>4, <1>5, <1>6, <1>7, <1>8 DEF CountingOps

\* The tallies of the other batches, and the session.
LEMMA CalmCommit ==
    ASSUME TypeOK, SessionOK, CalmInv, InABatch', NEW a \in Actors, Commit(a)
    PROVE  CalmInv'
<1>. SUFFICES ASSUME calm PROVE Alone' /\ (\A x \in Actors : Attends(x)')
                                       /\ (\A c \in Batches : Tally(c)')
  BY DEF CalmInv, Commit
<1>1. PICK d \in Docs, b \in Batches : d = session[a].doc /\ b = BatchOf[d]
  BY CommitPre, ConstAssumption DEF Commit
<1>2. /\ \A e \in Docs \ {d} : docs'[e] = docs[e]
      /\ \A c \in Batches \ {b} : batches'[c] = batches[c]
  BY <1>1, CalmCommitDoes
<1>3. /\ session[a].step # "idle"
      /\ \A x \in Actors \ {a} : session'[x] = session[x] /\ session[x].step = "idle"
      /\ session'[a].step \in {"idle", "cleanup"}
  BY DEF Commit, TypeOK, Idle, AtCommit, CalmInv, Alone
<1>4. ASSUME NEW c \in Batches, c # b PROVE Tally(c)'
  <2>1. \A e \in DocsOf(c) : docs'[e] = docs[e]
    BY <1>1, <1>2, <1>4 DEF DocsOf
  <2>. QED
    BY <1>2, <1>4, <2>1, TallyKept DEF CalmInv
<1>5. Tally(b)'
  BY <1>1, TallyCommit
<1>6. ASSUME NEW x \in Actors PROVE Attends(x)'
  <2>1. session'[x].step \in {"idle", "cleanup"}
    BY <1>3
  <2>. QED
    BY <2>1 DEF Attends, OnADoc
<1>7. Alone'
  BY <1>3 DEF Alone
<1>. QED
  BY <1>4, <1>5, <1>6, <1>7

\* The recovery queues documents again, which ended in no way.
LEMMA CalmFault ==
    ASSUME TypeOK, SessionOK, CalmInv, InABatch',
           (\E d \in Docs : Watchdog(d)) \/ (\E p \in Pods : Start(p))
    PROVE  CalmInv'
<1>1. ASSUME NEW d \in Docs, Watchdog(d) PROVE CalmInv'
  BY <1>1 DEF Watchdog, CalmInv
<1>2. ASSUME NEW p \in Pods, Start(p) PROVE CalmInv'
  <2>. SUFFICES ASSUME calm PROVE Alone' /\ (\A a \in Actors : Attends(a)')
                                         /\ (\A b \in Batches : Tally(b)')
    BY <1>2 DEF CalmInv, Start
  <2>1. UNCHANGED <<batches, session>>
    BY <1>2 DEF Start
  <2>2. ASSUME NEW e \in Docs
        PROVE  \/ docs'[e].status = docs[e].status
               \/ docs[e].status = "processing" /\ docs'[e].status = "queued"
    <3>1. CASE docs[e].status = "processing"
      <4>1. docs'[e] = [docs[e] EXCEPT !.status = "queued", !.started = FALSE]
        BY <1>2, <3>1 DEF Start
      <4>2. docs'[e].status = "queued"
        BY <4>1 DEF TypeOK, DocRow
      <4>. QED
        BY <3>1, <4>2
    <3>2. CASE docs[e].status # "processing"
      BY <1>2, <3>2 DEF Start
    <3>. QED
      BY <3>1, <3>2
  <2>3. ASSUME NEW a \in Actors PROVE Attends(a)'
    <3>1. Attends(a) /\ (OnADoc(a) => session[a].doc \in Docs)
      BY DEF CalmInv, SessionOK, Sound, OnADoc
    <3>2. OnADoc(a) => \/ docs'[session[a].doc].status = docs[session[a].doc].status
                       \/ /\ docs[session[a].doc].status = "processing"
                          /\ docs'[session[a].doc].status = "queued"
      BY <2>2, <3>1
    <3>3. \A op \in RequestOps : Demands(op) # "processing"
      BY DEF Demands, RequestOps
    <3>. QED
      BY <2>1, <3>1, <3>2, <3>3 DEF Attends, OnADoc
  <2>4. ASSUME NEW b \in Batches PROVE Tally(b)'
    <3>1. \A e \in DocsOf(b), st \in {"completed", "failed"} :
             docs'[e].status = st <=> docs[e].status = st
      BY <2>2 DEF DocsOf
    <3>. QED
      BY <2>1, <3>1, TallyKept DEF CalmInv
  <2>5. Alone'
    BY <2>1 DEF CalmInv, Alone
  <2>. QED
    BY <2>3, <2>4, <2>5
<1>. QED
  BY <1>1, <1>2

LEMMA CalmInit == Init => CalmInv
<1>. SUFFICES ASSUME Init PROVE CalmInv
  OBVIOUS
<1>1. InABatch
  BY EntryInit DEF EntryInv
<1>2. \A a \in Actors : session[a].step = "idle"
  BY DEF Init, Idle
<1>3. Alone /\ \A a \in Actors : Attends(a)
  BY <1>2 DEF Alone, Attends, OnADoc
<1>4. ASSUME NEW b \in Batches PROVE Tally(b)
  <2>1. In(b, "completed") = {} /\ In(b, "failed") = {}
    BY DEF Init, NoDocRow, In, InStatus, DocsOf
  <2>2. IsFiniteSet({}) /\ Cardinality({}) = 0
    BY FS_EmptySet
  <2>3. batches[b].completed = 0 /\ batches[b].failed = 0
    BY DEF Init, NoBatchRow
  <2>. QED
    BY <2>1, <2>2, <2>3 DEF Tally
<1>. QED
  BY <1>1, <1>3, <1>4 DEF CalmInv

LEMMA CalmStep ==
    TypeOK /\ SessionOK /\ CalmInv /\ InABatch' /\ [Next]_vars => CalmInv'
<1>. SUFFICES ASSUME TypeOK, SessionOK, CalmInv, InABatch', [Next]_vars PROVE CalmInv'
  OBVIOUS
<1>1. CASE UNCHANGED <<docs, batches, session, calm>>
  <2>1. calm => Alone'
    BY <1>1 DEF CalmInv, Alone
  <2>. QED
    BY <1>1, <2>1, CalmSession
<1>2. ASSUME NEW b \in Batches, SubmitFails(b) PROVE CalmInv'
  BY <1>1, <1>2 DEF SubmitFails, history
<1>3. CASE UNCHANGED vars
  BY <1>1, <1>3 DEF vars, history
<1>. QED
  BY <1>2, <1>3, CalmSubmit, CalmClaim, CalmLoad, CalmOpen, CalmCommit, CalmEnd, CalmFault
  DEF Next, WorkerStep, CloseSession, Actors

\* The running counters of a batch count its documents exactly, for batches
\* of any size and through crashes, failed commits and recoveries, as long as
\* no two sessions overlapped and nothing timed out (src/utils/queue.py,
\* src/src/api/ingestion.py).
THEOREM CountersStayExact == Spec => []CountersExact
<1>1. TypeOK /\ SessionOK /\ EntryInv /\ CalmInv /\ [Next]_vars => EntryInv' /\ CalmInv'
  BY EntryStep, CalmStep DEF EntryInv
<1>2. CalmInv => CountersExact
  BY DEF CalmInv, CountersExact, Tally, In
<1>. QED
  BY <1>1, <1>2, EntryInit, CalmInit, TypeCorrect, SessionsSound, PTL DEF Spec

(***************************************************************************)
(* The status of a batch on calm paths: the counters decide it, and they   *)
(* are the sizes of two parts of the batch.                                *)
(***************************************************************************)
LEMMA TwoParts ==
    ASSUME NEW D, IsFiniteSet(D), NEW A \in SUBSET D, NEW B \in SUBSET D, A \cap B = {}
    PROVE  /\ Cardinality(A) \in Nat /\ Cardinality(B) \in Nat /\ Cardinality(D) \in Nat
           /\ Cardinality(A) <= Cardinality(D)
           /\ Cardinality(A) = Cardinality(D) => A = D
           /\ Cardinality(A) + Cardinality(B) <= Cardinality(D)
           /\ Cardinality(A) + Cardinality(B) = Cardinality(D) <=> A \cup B = D
<1>1. IsFiniteSet(A) /\ IsFiniteSet(B) /\ IsFiniteSet(A \cup B)
  BY FS_Subset
<1>2. /\ Cardinality(A) \in Nat /\ Cardinality(B) \in Nat /\ Cardinality(D) \in Nat
      /\ Cardinality(A \cup B) \in Nat
  BY <1>1, FS_CardinalityType
<1>3. Cardinality(A \cap B) = 0
  BY FS_EmptySet
<1>4. Cardinality(A \cup B) = Cardinality(A) + Cardinality(B) - Cardinality(A \cap B)
  BY <1>1, FS_Union
<1>5. Cardinality(A \cup B) = Cardinality(A) + Cardinality(B)
  BY <1>2, <1>3, <1>4
<1>6. /\ Cardinality(A \cup B) <= Cardinality(D)
      /\ Cardinality(A \cup B) = Cardinality(D) <=> A \cup B = D
  BY FS_Subset
<1>7. Cardinality(A) <= Cardinality(D) /\ (Cardinality(A) = Cardinality(D) => A = D)
  BY FS_Subset
<1>. QED
  BY <1>2, <1>5, <1>6, <1>7

Closed(b) ==
    batches[b].status # "absent" =>
       /\ batches[b].completed + batches[b].failed = Total(b)
             => batches[b].status # "in_progress"
       /\ batches[b].status = "completed" => batches[b].completed = Total(b)

ClosedInv == calm => \A b \in Batches : Closed(b)

LEMMA PartsOfBatch ==
    ASSUME IsFiniteSet(Docs), NEW b \in Batches, Tally(b)
    PROVE  /\ Total(b) \in Nat
           /\ batches[b].completed <= Total(b)
           /\ batches[b].completed + batches[b].failed = Total(b)
                 <=> InStatus(b, {"completed", "failed"}) = DocsOf(b)
           /\ batches[b].completed = Total(b) => InStatus(b, {"completed"}) = DocsOf(b)
<1>1. IsFiniteSet(DocsOf(b))
  BY FS_Subset DEF DocsOf
<1>2. /\ In(b, "completed") \in SUBSET DocsOf(b) /\ In(b, "failed") \in SUBSET DocsOf(b)
      /\ In(b, "completed") \cap In(b, "failed") = {}
      /\ In(b, "completed") \cup In(b, "failed") = InStatus(b, {"completed", "failed"})
  BY DEF In, InStatus
<1>3. /\ Cardinality(In(b, "completed")) \in Nat /\ Cardinality(In(b, "failed")) \in Nat
      /\ Cardinality(DocsOf(b)) \in Nat
      /\ Cardinality(In(b, "completed")) <= Cardinality(DocsOf(b))
      /\ Cardinality(In(b, "completed")) + Cardinality(In(b, "failed")) = Cardinality(DocsOf(b))
            <=> In(b, "completed") \cup In(b, "failed") = DocsOf(b)
      /\ Cardinality(In(b, "completed")) = Cardinality(DocsOf(b))
            => In(b, "completed") = DocsOf(b)
  BY <1>1, <1>2, TwoParts
<1>4. /\ batches[b].completed = Cardinality(In(b, "completed"))
      /\ batches[b].failed = Cardinality(In(b, "failed"))
  BY DEF Tally
<1>5. In(b, "completed") = InStatus(b, {"completed"})
  BY DEF In, InStatus
<1>. QED
  BY <1>2, <1>3, <1>4, <1>5 DEF Total

\* The same of the state after a step.
LEMMA PartsAfter ==
    ASSUME IsFiniteSet(Docs), NEW b \in Batches, Tally(b)'
    PROVE  /\ Total(b) \in Nat
           /\ batches'[b].completed <= Total(b)
           /\ batches'[b].completed + batches'[b].failed = Total(b)
                 => \A d \in DocsOf(b) : docs'[d].status \in {"completed", "failed"}
<1>1. IsFiniteSet(DocsOf(b))
  BY FS_Subset DEF DocsOf
<1>2. /\ In(b, "completed")' \in SUBSET DocsOf(b) /\ In(b, "failed")' \in SUBSET DocsOf(b)
      /\ In(b, "completed")' \cap In(b, "failed")' = {}
      /\ \A d \in In(b, "completed")' \cup In(b, "failed")' :
            docs'[d].status \in {"completed", "failed"}
  BY DEF In, InStatus
<1>. QED
  BY <1>1, <1>2, TwoParts DEF Tally, Total

LEMMA ClosedSubmit ==
    ASSUME IsFiniteSet(Docs), TypeOK, ClosedInv, NEW b \in Batches, NEW admin \in BOOLEAN,
           NEW folder \in BOOLEAN, SubmitBatch(b, admin, folder)
    PROVE  ClosedInv'
<1>1. /\ \A c \in Batches \ {b} : batches'[c] = batches[c]
      /\ batches'[b].completed = 0 /\ batches'[b].failed = 0
      /\ batches'[b].status = "in_progress" /\ DocsOf(b) # {} /\ calm' = calm
  BY DEF SubmitBatch, NoBatchRow, TypeOK
<1>2. Total(b) \in Nat /\ Total(b) # 0
  <2>1. IsFiniteSet(DocsOf(b))
    BY FS_Subset DEF DocsOf
  <2>. QED
    BY <1>1, <2>1, FS_CardinalityType, FS_EmptySet DEF Total
<1>3. ASSUME calm', NEW c \in Batches PROVE Closed(c)'
  <2>1. CASE c = b
    BY <1>1, <1>2, <2>1 DEF Closed, Total, DocsOf
  <2>2. CASE c # b
    BY <1>1, <1>3, <2>2 DEF ClosedInv, Closed, Total, DocsOf
  <2>. QED
    BY <2>1, <2>2
<1>. QED
  BY <1>3 DEF ClosedInv

LEMMA ClosedCommit ==
    ASSUME IsFiniteSet(Docs), TypeOK, SessionOK, CalmInv, CalmInv', ClosedInv,
           NEW a \in Actors, Commit(a)
    PROVE  ClosedInv'
<1>. SUFFICES ASSUME calm, calm' = calm, NEW c \in Batches PROVE Closed(c)'
  BY DEF ClosedInv, Commit
<1>1. PICK d \in Docs, b \in Batches : d = session[a].doc /\ b = BatchOf[d]
  BY CommitPre, ConstAssumption DEF Commit
<1>2. /\ \A e \in Batches \ {b} : batches'[e] = batches[e]
      /\ session[a].op \in CountingOps =>
            batches'[b] = Counted(session[a].op, batches[b], Total(b))
      /\ session[a].op \notin CountingOps => batches' = batches
      /\ session[a].op \in {"retry", "flag"} => docs'[d].status = "queued"
  BY <1>1, CalmCommitDoes
<1>3. CASE batches'[c] = batches[c]
  BY <1>3 DEF ClosedInv, Closed, Total, DocsOf
<1>4. CASE batches'[c] # batches[c]
  <2>1. c = b /\ session[a].op \in CountingOps /\ batches[b] \in BatchRow
    BY <1>2, <1>4 DEF TypeOK
  <2>2. /\ Total(b) \in Nat
        /\ batches'[b].completed <= Total(b)
        /\ batches'[b].completed + batches'[b].failed = Total(b)
              => \A e \in DocsOf(b) : docs'[e].status \in {"completed", "failed"}
    BY PartsAfter DEF CalmInv
  <2>3. d \in DocsOf(b) /\ batches'[b] \in BatchRow
    BY <1>1, <1>2, <2>1, <2>2, CountedType DEF DocsOf
  <2>4. CASE session[a].op \in {"complete", "fail", "fail_in_pr"}
    <3>1. PICK r \in BatchRow : batches'[b] = Recompute(r, Total(b))
      <4>1. CASE session[a].op = "complete"
        <5>1. [batches[b] EXCEPT !.completed = @ + 1] \in BatchRow
          BY <2>1 DEF BatchRow
        <5>. QED
          BY <1>2, <2>1, <4>1, <5>1 DEF Counted
      <4>2. CASE session[a].op \in {"fail", "fail_in_pr"}
        <5>1. [batches[b] EXCEPT !.failed = @ + 1] \in BatchRow
          BY <2>1 DEF BatchRow
        <5>. QED
          BY <1>2, <2>1, <4>2, <5>1 DEF Counted
      <4>. QED
        BY <2>4, <4>1, <4>2
    <3>2. /\ batches'[b].completed = r.completed /\ batches'[b].failed = r.failed
          /\ batches'[b].status = IF r.completed + r.failed < Total(b) THEN "in_progress"
                                  ELSE IF r.failed = 0 THEN "completed"
                                  ELSE "completed_with_failures"
          /\ r.completed \in Nat /\ r.failed \in Nat
      BY <3>1 DEF Recompute, BatchRow
    <3>3. batches'[b].completed + batches'[b].failed = Total(b)
             => batches'[b].status # "in_progress"
      BY <2>2, <3>2
    <3>4. batches'[b].status = "completed" => batches'[b].completed = Total(b)
      BY <2>2, <3>2
    <3>. QED
      BY <2>1, <3>3, <3>4 DEF Closed, Total, DocsOf
  <2>5. CASE session[a].op \in {"retry", "flag"}
    <3>1. batches'[b].status = "in_progress"
      BY <1>2, <2>1, <2>5 DEF Counted, Retried, BatchRow
    <3>2. batches'[b].completed + batches'[b].failed # Total(b)
      BY <1>2, <2>2, <2>3, <2>5
    <3>. QED
      BY <2>1, <3>1, <3>2 DEF Closed, Total, DocsOf
  <2>. QED
    BY <2>1, <2>4, <2>5 DEF CountingOps
<1>. QED
  BY <1>3, <1>4

LEMMA ClosedStep ==
    ASSUME IsFiniteSet(Docs)
    PROVE  TypeOK /\ SessionOK /\ CalmInv /\ CalmInv' /\ ClosedInv /\ [Next]_vars => ClosedInv'
<1>. SUFFICES ASSUME TypeOK, SessionOK, CalmInv, CalmInv', ClosedInv, [Next]_vars
              PROVE  ClosedInv'
  OBVIOUS
<1>1. ASSUME batches' = batches, calm' => calm PROVE ClosedInv'
  BY <1>1 DEF ClosedInv, Closed, Total, DocsOf
<1>2. ASSUME NEW b \in Batches, SubmitFails(b) PROVE batches' = batches /\ (calm' => calm)
  BY <1>2 DEF SubmitFails, history
<1>3. ASSUME NEW a \in Actors, CommitFails(a) PROVE batches' = batches /\ (calm' => calm)
  BY <1>3 DEF CommitFails, history
<1>4. ASSUME NEW a \in Actors, DeleteSource(a) PROVE batches' = batches /\ (calm' => calm)
  BY <1>4 DEF DeleteSource, history
<1>5. ASSUME NEW w \in Workers, NEW d \in Docs, Claim(w, d)
      PROVE  batches' = batches /\ (calm' => calm)
  BY <1>5 DEF Claim
<1>6. ASSUME NEW w \in Workers, LoadDocument(w) PROVE batches' = batches /\ (calm' => calm)
  BY <1>6 DEF LoadDocument, history
<1>7. ASSUME NEW w \in Workers, NEW outcome \in WorkOps, FinishPipeline(w, outcome)
      PROVE  batches' = batches /\ (calm' => calm)
  BY <1>7 DEF FinishPipeline, history
<1>8. ASSUME NEW r \in Requests, NEW op \in RequestOps, NEW d \in Docs, OpenRequest(r, op, d)
      PROVE  batches' = batches /\ (calm' => calm)
  BY <1>8 DEF OpenRequest, history
<1>9. ASSUME NEW r \in Requests, LoadBatch(r) PROVE batches' = batches /\ (calm' => calm)
  BY <1>9 DEF LoadBatch, history
<1>10. ASSUME NEW d \in Docs, Watchdog(d) PROVE batches' = batches /\ (calm' => calm)
  BY <1>10 DEF Watchdog
<1>11. ASSUME NEW p \in Pods, Crash(p) PROVE batches' = batches /\ (calm' => calm)
  BY <1>11 DEF Crash, history
<1>12. ASSUME NEW p \in Pods, Start(p) PROVE batches' = batches /\ (calm' => calm)
  BY <1>12 DEF Start
<1>13. ASSUME UNCHANGED vars PROVE batches' = batches /\ (calm' => calm)
  BY <1>13 DEF vars, history
<1>. QED
  BY <1>1, <1>2, <1>3, <1>4, <1>5, <1>6, <1>7, <1>8, <1>9, <1>10, <1>11, <1>12, <1>13,
     ClosedSubmit, ClosedCommit DEF Next, WorkerStep, CloseSession

\* Once all documents of a batch have ended the batch is closed, and it is
\* completed without failures only if all of them are completed, for batches
\* of any size on calm paths (FR-2.5; _recompute_batch_status).
THEOREM BatchStatusFollows ==
    ASSUME IsFiniteSet(Docs)
    PROVE  Spec => []BatchStatusIsRight
<1>1. Init => ClosedInv
  BY DEF Init, ClosedInv, Closed, NoBatchRow
<1>2. TypeOK /\ SessionOK /\ EntryInv /\ CalmInv /\ ClosedInv /\ [Next]_vars
         => EntryInv' /\ CalmInv' /\ ClosedInv'
  BY EntryStep, CalmStep, ClosedStep DEF EntryInv
<1>3. TypeOK /\ CalmInv /\ ClosedInv => BatchStatusIsRight
  <2> SUFFICES ASSUME TypeOK, CalmInv, ClosedInv, calm PROVE BatchStatusIsRight
    BY DEF BatchStatusIsRight
  <2>1. ASSUME NEW b \in Batches, batches[b].status # "absent",
               InStatus(b, {"completed", "failed"}) = DocsOf(b)
        PROVE  batches[b].status # "in_progress"
    BY <2>1, PartsOfBatch DEF CalmInv, ClosedInv, Closed
  <2>2. ASSUME NEW b \in Batches, batches[b].status = "completed"
        PROVE  InStatus(b, {"completed"}) = DocsOf(b)
    BY <2>2, PartsOfBatch DEF CalmInv, ClosedInv, Closed
  <2>. QED
    BY <2>1, <2>2 DEF BatchStatusIsRight, TerminalBatchIsClosed
<1>. QED
  BY <1>1, <1>2, <1>3, EntryInit, CalmInit, TypeCorrect, SessionsSound, PTL DEF Spec
=============================================================================
