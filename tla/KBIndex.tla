------------------------------- MODULE KBIndex -------------------------------
(***************************************************************************)
(* The knowledge base index: the knowledge_base_documents table as a work  *)
(* queue, the content_chunks that retrieval searches, the indexing workers *)
(* of every pod, the administrator's re-index, and what the owners of the  *)
(* sources (the GitHub sync, the review of uploads) do to the index.       *)
(* (utils/queue.py, utils/indexer.py, src/api/knowledge_base.py)           *)
(*                                                                         *)
(* A worker's transaction spans the deletion of the old chunks, the calls  *)
(* to the embedding service and the insertion of the new ones.  DELETE     *)
(* takes its snapshot when the statement starts, then waits for the row    *)
(* locks, and afterwards skips the rows that are gone: it never sees rows  *)
(* inserted while it waited.                                               *)
(***************************************************************************)
EXTENDS Naturals, FiniteSets

CONSTANTS
    Docs,        \* knowledge base documents
    Uploads,     \* those whose source is a processed upload, not a synced file
    Indexers,    \* indexing workers, over all pods
    NoDoc,       \* the document of an idle worker
    Events,      \* what this environment does besides indexing
    MaxVersion,  \* bound: writes of the content of each source
    MaxReindex   \* bound: re-index requests

EventKinds == {"crash",        \* a worker is cancelled or its pod dies
               "embed_error",  \* the embedding service gives up
               "overlap",      \* sources change while they are being indexed,
                               \* or in two syncs at once
               "reindex"}      \* an administrator calls POST /reindex

ASSUME KBAssumption ==
    /\ Uploads \subseteq Docs
    /\ NoDoc \notin Docs
    /\ Events \subseteq EventKinds
    /\ MaxVersion \in [Docs -> Nat]
    /\ MaxReindex \in Nat

VARIABLES
    kb,        \* index_status of each row, "absent" without a row
    source,    \* the row the document is indexed from
    chunks,    \* the chunk sets stored for each document
    written,   \* chunk sets stored so far, which numbers them
    indexer,   \* what each worker has in flight
    removal,   \* removals whose transaction is open
    selected,  \* rows a re-index request selected and has not committed
    reindexed, \* history: re-index requests so far
    stirred,   \* history: documents touched while a worker was on them, or
               \* by two syncs at once
    forced,    \* history: documents a re-index queued although they were
               \* removed or being indexed
    orphaned   \* history: documents whose worker died

kbvars == <<kb, source, chunks, written, indexer, removal, selected, reindexed,
            stirred, forced, orphaned>>
kbhistory == <<reindexed, stirred, forced, orphaned>>

IndexStatus == {"absent", "queued", "indexing", "indexed", "failed", "removed"}

\* All the chunks one run of index_document inserts, made from `version`.
ChunkSet == [id : Nat, version : Nat]

\* `version` numbers the writes of a source's content, 0 before the first;
\* `active` is false once its file is gone from the repository.
Source == [version : Nat, active : BOOLEAN]

\* claimed  the claim is committed        loaded    the content is read
\* marked   index_document set indexing   deleting  DELETE waits for locks
\*                                        deleted   locks held; embedding
Steps == {"idle", "claimed", "marked", "loaded", "deleting", "deleted"}
Indexer == [step : Steps, doc : Docs \cup {NoDoc}, version : Nat,
            doomed : SUBSET ChunkSet]
IdleIndexer == [step |-> "idle", doc |-> NoDoc, version |-> 0, doomed |-> {}]

Removal == [open : BOOLEAN, doomed : SUBSET ChunkSet]
NoRemoval == [open |-> FALSE, doomed |-> {}]

Busy(d) == {w \in Indexers : indexer[w].doc = d}

\* An owner touches d: no worker is on it and no other sync interferes,
\* unless the environment has such overlaps.
Touch(d, regular) ==
    IF Busy(d) = {} /\ regular THEN stirred' = stirred
    ELSE "overlap" \in Events /\ stirred' = stirred \cup {d}

\* The chunk sets of d that an open transaction other than w's has deleted.
Locked(d, w) == UNION {indexer[x].doomed : x \in {x \in Busy(d) \ {w} :
                                                    indexer[x].step = "deleted"}}

\* UPDATE ... WHERE id = d: without a row nothing happens.
SetStatus(d, status) == [kb EXCEPT ![d] = IF @ = "absent" THEN @ ELSE status]

(***************************************************************************)
(* Indexing                                                                *)
(***************************************************************************)
ClaimKb(w, d) ==
    /\ indexer[w].step = "idle"
    /\ kb[d] = "queued"
    /\ kb' = [kb EXCEPT ![d] = "indexing"]
    /\ indexer' = [indexer EXCEPT ![w] = [IdleIndexer EXCEPT !.step = "claimed", !.doc = d]]
    /\ UNCHANGED <<source, chunks, written, removal, selected, kbhistory>>

\* index_document sets the status again, without looking at it.
MarkIndexing(w) ==
    /\ indexer[w].step = "claimed"
    /\ kb' = SetStatus(indexer[w].doc, "indexing")
    /\ indexer' = [indexer EXCEPT ![w].step = "marked"]
    /\ UNCHANGED <<source, chunks, written, removal, selected, kbhistory>>

\* ProcessedDocument has no attribute structured_content: the branch for
\* uploads raises as soon as it has found its row.
Loadable(d) == kb[d] # "absent" /\ d \notin Uploads

LoadContent(w) ==
    LET d == indexer[w].doc
    IN /\ indexer[w].step = "marked"
       /\ Loadable(d)
       /\ indexer' = [indexer EXCEPT ![w].step = "loaded",
                                     ![w].version = source[d].version]
       /\ UNCHANGED <<kb, source, chunks, written, removal, selected, kbhistory>>

\* Mutant: the old chunks are not deleted first.
Doomed_Nothing(d) == {}

Doomed(d) == chunks[d]

StartDelete(w) ==
    /\ indexer[w].step = "loaded"
    /\ indexer' = [indexer EXCEPT ![w].step = "deleting",
                                  ![w].doomed = Doomed(indexer[w].doc)]
    /\ UNCHANGED <<kb, source, chunks, written, removal, selected, kbhistory>>

TakeLocks(w) ==
    LET d == indexer[w].doc
    IN /\ indexer[w].step = "deleting"
       /\ indexer[w].doomed \cap Locked(d, w) = {}
       /\ indexer' = [indexer EXCEPT ![w].step = "deleted",
                                     ![w].doomed = @ \cap chunks[d]]
       /\ UNCHANGED <<kb, source, chunks, written, removal, selected, kbhistory>>

\* The embeddings are there: insert the chunks, set indexed, commit.  The
\* chunker returns at least one chunk, so its caller's branch for none is
\* never taken.
StoreChunks(w) ==
    LET s == indexer[w]
        d == s.doc
        new == [id |-> written[d] + 1, version |-> s.version]
    IN /\ s.step = "deleted"
       /\ kb[d] # "absent"
       /\ chunks' = [chunks EXCEPT ![d] = (@ \ s.doomed) \cup {new}]
       /\ written' = [written EXCEPT ![d] = @ + 1]
       /\ kb' = SetStatus(d, "indexed")
       /\ indexer' = [indexer EXCEPT ![w] = IdleIndexer]
       /\ UNCHANGED <<source, removal, selected, kbhistory>>

\* Mutant: the exception is only logged.
Failed_Unmarked(d) == kb

Failed(d) == SetStatus(d, "failed")

\* Any exception rolls back, then sets failed, again without looking.
IndexFails(w) ==
    LET s == indexer[w]
    IN /\ \/ s.step = "marked" /\ ~Loadable(s.doc)
          \/ s.step = "deleted" /\ "embed_error" \in Events
       /\ kb' = Failed(s.doc)
       /\ indexer' = [indexer EXCEPT ![w] = IdleIndexer]
       /\ UNCHANGED <<source, chunks, written, removal, selected, kbhistory>>

\* A pod dies or shuts down, and with it the workers S, the removals R and
\* the re-index of the rows T that were open in it.  A cancellation is no
\* Exception: transactions are rolled back and nobody sets a status.
Abort(S, R, T) ==
    /\ "crash" \in Events
    /\ indexer' = [w \in Indexers |-> IF w \in S THEN IdleIndexer ELSE indexer[w]]
    /\ removal' = [d \in Docs |-> IF d \in R THEN NoRemoval ELSE removal[d]]
    /\ selected' = selected \ T
    /\ orphaned' = orphaned \cup ({indexer[w].doc : w \in S} \ {NoDoc})
    /\ UNCHANGED <<kb, source, chunks, written, reindexed, stirred, forced>>

(***************************************************************************)
(* The owners of the sources                                               *)
(***************************************************************************)

\* Mutant: an existing row keeps its status.
Requeued_KeepsStatus(loaded, now) == IF now = "absent" THEN "queued" ELSE now

\* The status after a session that loaded it as `loaded` set it to queued:
\* no UPDATE when it was queued, an INSERT when there was no row.
Requeued(loaded, now) == IF loaded = "queued" THEN now ELSE "queued"

\* A synced file is new or changed: write its content and queue its row in
\* one transaction.  One that saw the row still queued writes no status,
\* even if a worker has claimed it since.  Only a sync that overlaps with
\* another still updates a file the other has removed.
SourceChanges(d, loaded) ==
    /\ d \notin Uploads
    /\ Touch(d, /\ source[d].version = 0 \/ source[d].active
                /\ loaded = "queued" => kb[d] = "queued")
    /\ ~removal[d].open
    /\ loaded = "queued" => kb[d] # "absent"
    /\ source[d].version < MaxVersion[d]
    /\ source' = [source EXCEPT ![d] =
                     [version |-> @.version + 1, active |-> @.version = 0 \/ @.active]]
    /\ kb' = [kb EXCEPT ![d] = Requeued(loaded, @)]
    /\ UNCHANGED <<chunks, written, indexer, removal, selected, reindexed, forced, orphaned>>

\* A synced file is gone: DELETE its chunks ...
BeginRemoval(d) ==
    /\ d \notin Uploads
    /\ kb[d] # "absent"
    /\ Touch(d, source[d].active)
    /\ ~removal[d].open
    /\ removal' = [removal EXCEPT ![d] = [open |-> TRUE, doomed |-> chunks[d]]]
    /\ UNCHANGED <<kb, source, chunks, written, indexer, selected, reindexed, forced, orphaned>>

\* Mutant: remove_document deletes the chunks and forgets the status.
Removed_StatusKept(d) == kb

Removed(d) == SetStatus(d, "removed")

\* Mutant: the row of the file stays active.
Deactivated_Forgotten(d) == source

Deactivated(d) == [source EXCEPT ![d].active = FALSE]

\* ... and, once the locks are granted, set removed and commit.
EndRemoval(d) ==
    /\ removal[d].open
    /\ Touch(d, TRUE)
    /\ removal[d].doomed \cap Locked(d, NoDoc) = {}
    /\ chunks' = [chunks EXCEPT ![d] = @ \ removal[d].doomed]
    /\ kb' = Removed(d)
    /\ source' = Deactivated(d)
    /\ removal' = [removal EXCEPT ![d] = NoRemoval]
    /\ UNCHANGED <<written, indexer, selected, reindexed, forced, orphaned>>

\* A review approves the output of an upload.
ApproveUpload(d) ==
    /\ d \in Uploads
    /\ Touch(d, TRUE)
    /\ source[d].version < MaxVersion[d]
    /\ source' = [source EXCEPT ![d] = [version |-> @.version + 1, active |-> TRUE]]
    /\ kb' = [kb EXCEPT ![d] = Requeued(@, @)]
    /\ UNCHANGED <<chunks, written, indexer, removal, selected, reindexed, forced, orphaned>>

\* A review flags it, or a worker replaces it: the row and its chunks go.
DropUpload(d) ==
    /\ d \in Uploads /\ kb[d] # "absent"
    /\ Touch(d, TRUE)
    /\ kb' = [kb EXCEPT ![d] = "absent"]
    /\ chunks' = [chunks EXCEPT ![d] = {}]
    /\ source' = [source EXCEPT ![d].active = FALSE]
    /\ UNCHANGED <<written, indexer, removal, selected, reindexed, forced, orphaned>>

\* POST /reindex loads the rows to requeue, then updates them by key.
ReindexSelect ==
    LET S == {d \in Docs : kb[d] \in {"failed", "removed"}}
    IN /\ "reindex" \in Events
       /\ selected = {} /\ S # {}
       /\ reindexed < MaxReindex
       /\ selected' = S
       /\ reindexed' = reindexed + 1
       /\ UNCHANGED <<kb, source, chunks, written, indexer, removal, stirred, forced,
                      orphaned>>

ReindexCommit ==
    /\ selected # {}
    /\ kb' = [d \in Docs |-> IF d \in selected /\ kb[d] # "absent" THEN "queued"
                             ELSE kb[d]]
    /\ selected' = {}
    /\ forced' = forced \cup {d \in selected : ~source[d].active \/ Busy(d) # {}}
    /\ UNCHANGED <<source, chunks, written, indexer, removal, reindexed, stirred, orphaned>>

(***************************************************************************)
(* Specification                                                           *)
(***************************************************************************)
KBInit ==
    /\ kb = [d \in Docs |-> "absent"]
    /\ source = [d \in Docs |-> [version |-> 0, active |-> FALSE]]
    /\ chunks = [d \in Docs |-> {}]
    /\ written = [d \in Docs |-> 0]
    /\ indexer = [w \in Indexers |-> IdleIndexer]
    /\ removal = [d \in Docs |-> NoRemoval]
    /\ selected = {}
    /\ reindexed = 0
    /\ stirred = {} /\ forced = {} /\ orphaned = {}

IndexerStep(w) ==
    \/ \E d \in Docs : ClaimKb(w, d)
    \/ MarkIndexing(w) \/ LoadContent(w) \/ StartDelete(w) \/ TakeLocks(w)
    \/ StoreChunks(w) \/ IndexFails(w)

SourceStep(d) ==
    \/ \E loaded \in {kb[d], "queued"} : SourceChanges(d, loaded)
    \/ BeginRemoval(d) \/ EndRemoval(d)
    \/ ApproveUpload(d) \/ DropUpload(d)

Reindex == ReindexSelect \/ ReindexCommit

KBNext ==
    \/ \E w \in Indexers : IndexerStep(w)
    \/ \E S \in SUBSET {w \in Indexers : indexer[w].step # "idle"},
          R \in SUBSET {d \in Docs : removal[d].open}, T \in SUBSET selected :
          Abort(S, R, T)
    \/ \E d \in Docs : SourceStep(d)
    \/ Reindex

KBSpec == KBInit /\ [][KBNext]_kbvars

\* The event loop runs every worker; a transaction that began ends.
KBFairness ==
    /\ \A w \in Indexers : WF_kbvars(IndexerStep(w))
    /\ \A d \in Docs : WF_kbvars(EndRemoval(d))
    /\ WF_kbvars(ReindexCommit)

FairKBSpec == KBSpec /\ KBFairness

(***************************************************************************)
(* Properties                                                              *)
(***************************************************************************)

\* Rows, chunk sets and workers keep their shape.
KBTypeOK ==
    /\ kb \in [Docs -> IndexStatus]
    /\ source \in [Docs -> Source]
    /\ \A d \in Docs : chunks[d] \subseteq ChunkSet
    /\ DOMAIN chunks = Docs
    /\ written \in [Docs -> Nat]
    /\ indexer \in [Indexers -> Indexer]
    /\ removal \in [Docs -> Removal]
    /\ selected \subseteq Docs
    /\ reindexed \in Nat
    /\ stirred \subseteq Docs /\ forced \subseteq Docs /\ orphaned \subseteq Docs

\* Retrieval joins the chunks of rows in status indexed (utils/rag.py).
Served(d) == IF kb[d] = "indexed" THEN chunks[d] ELSE {}

\* What is reported as indexed can be found: neither a removal, a failed
\* run nor a second worker leaves the status indexed and the chunks gone.
IndexedIsSearchable == \A d \in Docs : kb[d] = "indexed" => chunks[d] # {}

\* Re-indexing replaces: a document has two sets of chunks only if it was
\* queued again while a worker was on it.
OneChunkSet ==
    \A d \in Docs \ (stirred \cup forced) : Cardinality(chunks[d]) <= 1

\* Search answers from the current content of a document, never from an
\* earlier one, unless the source changed while it was being indexed.
ServedIsCurrent ==
    \A d \in Docs \ stirred : \A c \in Served(d) : c.version = source[d].version

\* Search answers from a file that is gone only if the file was removed
\* while it was being indexed or re-indexed after its removal.
ServedIsActive ==
    \A d \in Docs \ (stirred \cup forced) : Served(d) # {} => source[d].active

\* Whatever is queued is indexed, removed or reported as failed, unless a
\* worker died over it.
EveryQueuedSettles ==
    \A d \in Docs : kb[d] = "queued" ~>
                     kb[d] \notin {"queued", "indexing"} \/ d \in orphaned
=============================================================================
