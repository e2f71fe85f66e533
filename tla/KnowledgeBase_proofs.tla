------------------------ MODULE KnowledgeBase_proofs ------------------------
(***************************************************************************)
(* Proofs about KBIndex and GitHubSync, for every number of documents,     *)
(* workers, runs and pods, every environment and every bound.              *)
(*                                                                         *)
(* The index: whatever is reported as indexed can be found, and what       *)
(* nobody disturbed is stored once, in its current content, and only as    *)
(* long as its file is there.                                              *)
(*                                                                         *)
(* The sync: what it does to the index is what module KBIndex allows the   *)
(* owners of its documents to do; and unless two runs overlap, one is at   *)
(* work at a time, its outcome stays, and its success means that the       *)
(* index has what the repository had.                                      *)
(***************************************************************************)
EXTENDS GitHubSync, FiniteSetTheorems, TLAPS

(***************************************************************************)
(* The index: its inductive invariant, document by document                *)
(***************************************************************************)

\* A worker has a document exactly while it is not idle.
OnADocument == \A w \in Indexers : indexer[w].step = "idle" <=> indexer[w].doc = NoDoc

Works(w, d, S) == indexer[w].doc = d /\ indexer[w].step \in S

\* Nobody queued d again while a worker was on it, so one worker at most is
\* on it, and the status says so.
OneWorker(d) ==
    \A w \in Indexers : indexer[w].doc = d =>
       /\ kb[d] = "indexing"
       /\ \A v \in Indexers : indexer[v].doc = d => v = w

\* ... the DELETE of that worker finds every chunk there is ...
DeletesAll(d) ==
    \A w \in Indexers : Works(w, d, {"deleting", "deleted"}) =>
       indexer[w].doomed = chunks[d]

\* ... so that one set of chunks is stored at most ...
OneSet(d) == \A c, e \in chunks[d] : c = e

\* ... and what is queued, indexed or on its way there has its file.
HasFile(d) == kb[d] \in {"absent", "removed"} \/ source[d].active

Undisturbed(d) == OneWorker(d) /\ DeletesAll(d) /\ OneSet(d) /\ HasFile(d)

Current(c, d) == c.version = source[d].version

\* The content of d did not change under a worker: every worker that has
\* loaded it has the current one, and what was stored behind the back of its
\* DELETE is current too.
Fresh(d) ==
    /\ kb[d] = "indexed" => \A c \in chunks[d] : Current(c, d)
    /\ \A w \in Indexers :
          /\ Works(w, d, {"loaded", "deleting", "deleted"}) => Current(indexer[w], d)
          /\ Works(w, d, {"deleting", "deleted"}) =>
                \A c \in chunks[d] \ indexer[w].doomed : Current(c, d)

KBInv ==
    /\ KBTypeOK
    /\ IndexedIsSearchable
    /\ OnADocument
    /\ \A d \in Docs \ (stirred \cup forced) : Undisturbed(d)
    /\ \A d \in Docs \ stirred : Fresh(d)

(***************************************************************************)
(* The index: the shape of the tables                                      *)
(***************************************************************************)

\* SetStatus writes a status the enumeration has, and only into a row that
\* exists.
LEMMA SetStatusType ==
    ASSUME KBTypeOK, NEW d \in Docs, NEW st \in IndexStatus
    PROVE  SetStatus(d, st) \in [Docs -> IndexStatus]
BY DEF KBTypeOK, SetStatus

\* A worker that is past its claim is on a document.
LEMMA DocOfWorker ==
    ASSUME KBTypeOK, OnADocument, NEW w \in Indexers, indexer[w].step # "idle"
    PROVE  indexer[w].doc \in Docs
BY DEF KBTypeOK, OnADocument, Indexer

\* ... and the record keeps its shape.
LEMMA RecordOfWorker ==
    ASSUME NEW r \in Indexer, NEW step \in Steps, NEW version \in Nat,
           NEW doomed \in SUBSET ChunkSet
    PROVE  /\ [r EXCEPT !.step = step, !.version = version] \in Indexer
           /\ [r EXCEPT !.step = step, !.doomed = doomed] \in Indexer
BY DEF Indexer

\* A step of a worker changes one record.
LEMMA OneIndexer ==
    ASSUME KBTypeOK, OnADocument, NEW w \in Indexers, NEW now \in Indexer,
           now.step = "idle" <=> now.doc = NoDoc,
           indexer' = [indexer EXCEPT ![w] = now]
    PROVE  indexer' \in [Indexers -> Indexer] /\ OnADocument'
BY DEF KBTypeOK, OnADocument

\* Every step keeps the shape of the tables and the sense of a worker's
\* document.
LEMMA KBTypeStep ==
    ASSUME KBAssumption, KBTypeOK, OnADocument, [KBNext]_kbvars
    PROVE  KBTypeOK' /\ OnADocument'
<1>. USE DEF KBTypeOK, OnADocument
<1>1. ASSUME NEW w \in Indexers, NEW d \in Docs, ClaimKb(w, d)
      PROVE  KBTypeOK' /\ OnADocument'
  BY <1>1 DEF ClaimKb, KBAssumption, IndexStatus, Indexer, IdleIndexer, Steps, kbhistory
<1>2. ASSUME NEW w \in Indexers, MarkIndexing(w)
      PROVE  KBTypeOK' /\ OnADocument'
  BY <1>2 DEF MarkIndexing, SetStatus, IndexStatus, Indexer, Steps, kbhistory
<1>3. ASSUME NEW w \in Indexers, LoadContent(w)
      PROVE  KBTypeOK' /\ OnADocument'
  <2>1. indexer[w].doc \in Docs
    BY <1>3, DocOfWorker DEF LoadContent
  <2>2. source[indexer[w].doc].version \in Nat
    BY <2>1 DEF Source
  <2> DEFINE now == [indexer[w] EXCEPT !.step = "loaded",
                                   !.version = source[indexer[w].doc].version]
  <2>3. indexer[w] \in Indexer /\ "loaded" \in Steps \ {"idle"}
    BY DEF Steps
  <2>4. now \in Indexer
    BY <2>2, <2>3, RecordOfWorker
  <2>5. now.step = "loaded" /\ now.doc = indexer[w].doc
    BY <2>3 DEF Indexer
  <2>6. indexer' = [indexer EXCEPT ![w] = now]
    BY <1>3 DEF LoadContent
  <2>7. indexer' \in [Indexers -> Indexer] /\ OnADocument'
    BY <2>1, <2>3, <2>4, <2>5, <2>6, OneIndexer, KBAssumption DEF KBAssumption
  <2>. QED
    BY <1>3, <2>7 DEF LoadContent, kbhistory
<1>4. ASSUME NEW w \in Indexers, StartDelete(w)
      PROVE  KBTypeOK' /\ OnADocument'
  <2>1. indexer[w].doc \in Docs
    BY <1>4, DocOfWorker DEF StartDelete
  <2>2. chunks[indexer[w].doc] \in SUBSET ChunkSet
    BY <2>1
  <2> DEFINE now == [indexer[w] EXCEPT !.step = "deleting", !.doomed = chunks[indexer[w].doc]]
  <2>3. indexer[w] \in Indexer /\ "deleting" \in Steps \ {"idle"}
    BY DEF Steps
  <2>4. now \in Indexer
    BY <2>2, <2>3, RecordOfWorker
  <2>5. now.step = "deleting" /\ now.doc = indexer[w].doc
    BY <2>3 DEF Indexer
  <2>6. indexer' = [indexer EXCEPT ![w] = now]
    BY <1>4 DEF StartDelete, Doomed
  <2>7. indexer' \in [Indexers -> Indexer] /\ OnADocument'
    BY <2>1, <2>3, <2>4, <2>5, <2>6, OneIndexer, KBAssumption DEF KBAssumption
  <2>. QED
    BY <1>4, <2>7 DEF StartDelete, Doomed, kbhistory
<1>5. ASSUME NEW w \in Indexers, TakeLocks(w)
      PROVE  KBTypeOK' /\ OnADocument'
  <2>1. indexer[w].doc \in Docs
    BY <1>5, DocOfWorker DEF TakeLocks
  <2>2. indexer[w].doomed \cap chunks[indexer[w].doc] \in SUBSET ChunkSet
    BY <2>1
  <2> DEFINE now == [indexer[w] EXCEPT !.step = "deleted",
                                   !.doomed = @ \cap chunks[indexer[w].doc]]
  <2>3. indexer[w] \in Indexer /\ "deleted" \in Steps \ {"idle"}
    BY DEF Steps
  <2>4. now \in Indexer
    BY <2>2, <2>3, RecordOfWorker
  <2>5. now.step = "deleted" /\ now.doc = indexer[w].doc
    BY <2>3 DEF Indexer
  <2>6. indexer' = [indexer EXCEPT ![w] = now]
    BY <1>5 DEF TakeLocks
  <2>7. indexer' \in [Indexers -> Indexer] /\ OnADocument'
    BY <2>1, <2>3, <2>4, <2>5, <2>6, OneIndexer, KBAssumption DEF KBAssumption
  <2>. QED
    BY <1>5, <2>7 DEF TakeLocks, kbhistory
<1>6. ASSUME NEW w \in Indexers, StoreChunks(w)
      PROVE  KBTypeOK' /\ OnADocument'
  BY <1>6 DEF StoreChunks, SetStatus, IndexStatus, Indexer, IdleIndexer, Steps, ChunkSet,
              kbhistory
<1>7. ASSUME NEW w \in Indexers, IndexFails(w)
      PROVE  KBTypeOK' /\ OnADocument'
  BY <1>7 DEF IndexFails, Failed, SetStatus, IndexStatus, Indexer, IdleIndexer, Steps,
              kbhistory
<1>8. ASSUME NEW S \in SUBSET Indexers, NEW R, NEW T, Abort(S, R, T)
      PROVE  KBTypeOK' /\ OnADocument'
  BY <1>8 DEF Abort, Indexer, IdleIndexer, Steps, Removal, NoRemoval
<1>9. ASSUME NEW d \in Docs, NEW loaded, SourceChanges(d, loaded)
      PROVE  KBTypeOK' /\ OnADocument'
  BY <1>9 DEF SourceChanges, Touch, Requeued, Source, IndexStatus
<1>10. ASSUME NEW d \in Docs, BeginRemoval(d)
       PROVE  KBTypeOK' /\ OnADocument'
  BY <1>10 DEF BeginRemoval, Touch, Removal
<1>11. ASSUME NEW d \in Docs, EndRemoval(d)
       PROVE  KBTypeOK' /\ OnADocument'
  BY <1>11 DEF EndRemoval, Touch, Removed, Deactivated, SetStatus, Source, IndexStatus,
               Removal, NoRemoval
<1>12. ASSUME NEW d \in Docs, ApproveUpload(d)
       PROVE  KBTypeOK' /\ OnADocument'
  BY <1>12 DEF ApproveUpload, Touch, Requeued, Source, IndexStatus
<1>13. ASSUME NEW d \in Docs, DropUpload(d)
       PROVE  KBTypeOK' /\ OnADocument'
  BY <1>13 DEF DropUpload, Touch, Source, IndexStatus
<1>14. ASSUME Reindex
       PROVE  KBTypeOK' /\ OnADocument'
  BY <1>14 DEF Reindex, ReindexSelect, ReindexCommit, IndexStatus
<1>15. CASE UNCHANGED kbvars
  BY <1>15 DEF kbvars
<1>. QED
  BY <1>1, <1>2, <1>3, <1>4, <1>5, <1>6, <1>7, <1>8, <1>9, <1>10, <1>11, <1>12, <1>13,
     <1>14, <1>15 DEF KBNext, IndexerStep, SourceStep

\* No step leaves a document indexed without chunks.
LEMMA SearchableStep ==
    ASSUME KBAssumption, KBTypeOK, OnADocument, IndexedIsSearchable, [KBNext]_kbvars
    PROVE  IndexedIsSearchable'
<1>. USE DEF KBTypeOK, OnADocument, IndexedIsSearchable
<1>1. ASSUME NEW w \in Indexers, NEW d \in Docs, ClaimKb(w, d)
      PROVE  IndexedIsSearchable'
  BY <1>1 DEF ClaimKb, IdleIndexer, kbhistory
<1>2. ASSUME NEW w \in Indexers, MarkIndexing(w)
      PROVE  IndexedIsSearchable'
  BY <1>2 DEF MarkIndexing, SetStatus, kbhistory
<1>3. ASSUME NEW w \in Indexers, LoadContent(w)
      PROVE  IndexedIsSearchable'
  BY <1>3 DEF LoadContent, kbhistory
<1>4. ASSUME NEW w \in Indexers, StartDelete(w)
      PROVE  IndexedIsSearchable'
  BY <1>4 DEF StartDelete, Doomed, kbhistory
<1>5. ASSUME NEW w \in Indexers, TakeLocks(w)
      PROVE  IndexedIsSearchable'
  BY <1>5 DEF TakeLocks, kbhistory
<1>6. ASSUME NEW w \in Indexers, StoreChunks(w)
      PROVE  IndexedIsSearchable'
  BY <1>6 DEF StoreChunks, SetStatus, IdleIndexer, kbhistory
<1>7. ASSUME NEW w \in Indexers, IndexFails(w)
      PROVE  IndexedIsSearchable'
  BY <1>7 DEF IndexFails, Failed, SetStatus, IdleIndexer, kbhistory
<1>8. ASSUME NEW S \in SUBSET Indexers, NEW R, NEW T, Abort(S, R, T)
      PROVE  IndexedIsSearchable'
  BY <1>8 DEF Abort, IdleIndexer, kbhistory
<1>9. ASSUME NEW d \in Docs, NEW loaded, SourceChanges(d, loaded)
      PROVE  IndexedIsSearchable'
  BY <1>9 DEF SourceChanges, Touch, Requeued, kbhistory
<1>10. ASSUME NEW d \in Docs, BeginRemoval(d)
      PROVE  IndexedIsSearchable'
  BY <1>10 DEF BeginRemoval, Touch, kbhistory
<1>11. ASSUME NEW d \in Docs, EndRemoval(d)
      PROVE  IndexedIsSearchable'
  BY <1>11 DEF EndRemoval, Touch, Removed, Deactivated, SetStatus, kbhistory
<1>12. ASSUME NEW d \in Docs, ApproveUpload(d)
      PROVE  IndexedIsSearchable'
  BY <1>12 DEF ApproveUpload, Touch, Requeued, kbhistory
<1>13. ASSUME NEW d \in Docs, DropUpload(d)
      PROVE  IndexedIsSearchable'
  BY <1>13 DEF DropUpload, Touch, kbhistory
<1>14. ASSUME Reindex
      PROVE  IndexedIsSearchable'
  BY <1>14 DEF Reindex, ReindexSelect, ReindexCommit, kbhistory
<1>15. CASE UNCHANGED kbvars
  BY <1>15 DEF kbvars
<1>. QED
  BY <1>1, <1>2, <1>3, <1>4, <1>5, <1>6, <1>7, <1>8, <1>9, <1>10, <1>11, <1>12, <1>13, <1>14, <1>15 DEF KBNext, IndexerStep, SourceStep

\* A document nobody disturbs keeps its one worker, its one set and its file.
LEMMA UndisturbedStep ==
    ASSUME KBAssumption, KBTypeOK, OnADocument, [KBNext]_kbvars,
           NEW e \in Docs \ (stirred' \cup forced'), e \notin stirred \cup forced => Undisturbed(e)
    PROVE  Undisturbed(e)'
<1>. USE DEF KBTypeOK, OnADocument, Undisturbed, OneWorker, DeletesAll, OneSet, HasFile, Works
<1>1. ASSUME NEW w \in Indexers, NEW d \in Docs, ClaimKb(w, d)
      PROVE  Undisturbed(e)'
  BY <1>1 DEF ClaimKb, IdleIndexer, kbhistory
<1>2. ASSUME NEW w \in Indexers, MarkIndexing(w)
      PROVE  Undisturbed(e)'
  BY <1>2 DEF MarkIndexing, SetStatus, kbhistory
<1>3. ASSUME NEW w \in Indexers, LoadContent(w)
      PROVE  Undisturbed(e)'
  BY <1>3 DEF LoadContent, kbhistory
<1>4. ASSUME NEW w \in Indexers, StartDelete(w)
      PROVE  Undisturbed(e)'
  BY <1>4 DEF StartDelete, Doomed, kbhistory
<1>5. ASSUME NEW w \in Indexers, TakeLocks(w)
      PROVE  Undisturbed(e)'
  BY <1>5 DEF TakeLocks, kbhistory
<1>6. ASSUME NEW w \in Indexers, StoreChunks(w)
      PROVE  Undisturbed(e)'
  BY <1>6 DEF StoreChunks, SetStatus, IdleIndexer, kbhistory
<1>7. ASSUME NEW w \in Indexers, IndexFails(w)
      PROVE  Undisturbed(e)'
  BY <1>7 DEF IndexFails, Failed, SetStatus, IdleIndexer, kbhistory
<1>8. ASSUME NEW S \in SUBSET Indexers, NEW R, NEW T, Abort(S, R, T)
      PROVE  Undisturbed(e)'
  BY <1>8 DEF Abort, IdleIndexer, kbhistory
<1>9. ASSUME NEW d \in Docs, NEW loaded, SourceChanges(d, loaded)
      PROVE  Undisturbed(e)'
  BY <1>9 DEF SourceChanges, Touch, Busy, Requeued, kbhistory
<1>10. ASSUME NEW d \in Docs, BeginRemoval(d)
      PROVE  Undisturbed(e)'
  BY <1>10 DEF BeginRemoval, Touch, Busy, kbhistory
<1>11. ASSUME NEW d \in Docs, EndRemoval(d)
      PROVE  Undisturbed(e)'
  BY <1>11 DEF EndRemoval, Touch, Busy, Removed, Deactivated, SetStatus, kbhistory
<1>12. ASSUME NEW d \in Docs, ApproveUpload(d)
      PROVE  Undisturbed(e)'
  BY <1>12 DEF ApproveUpload, Touch, Busy, Requeued, kbhistory
<1>13. ASSUME NEW d \in Docs, DropUpload(d)
      PROVE  Undisturbed(e)'
  BY <1>13 DEF DropUpload, Touch, Busy, kbhistory
<1>14. ASSUME Reindex
      PROVE  Undisturbed(e)'
  BY <1>14 DEF Reindex, ReindexSelect, ReindexCommit, Busy, kbhistory
<1>15. CASE UNCHANGED kbvars
  BY <1>15 DEF kbvars
<1>. QED
  BY <1>1, <1>2, <1>3, <1>4, <1>5, <1>6, <1>7, <1>8, <1>9, <1>10, <1>11, <1>12, <1>13, <1>14, <1>15 DEF KBNext, IndexerStep, SourceStep

\* A document whose content does not change under a worker stays fresh.
LEMMA FreshStep ==
    ASSUME KBAssumption, KBTypeOK, OnADocument, [KBNext]_kbvars,
           NEW e \in Docs \ stirred', e \notin stirred => Fresh(e)
    PROVE  Fresh(e)'
<1>. USE DEF KBTypeOK, OnADocument, Fresh, Current, Works
<1>1. ASSUME NEW w \in Indexers, NEW d \in Docs, ClaimKb(w, d)
      PROVE  Fresh(e)'
  BY <1>1 DEF ClaimKb, IdleIndexer, kbhistory
<1>2. ASSUME NEW w \in Indexers, MarkIndexing(w)
      PROVE  Fresh(e)'
  BY <1>2 DEF MarkIndexing, SetStatus, kbhistory
<1>3. ASSUME NEW w \in Indexers, LoadContent(w)
      PROVE  Fresh(e)'
  BY <1>3 DEF LoadContent, kbhistory
<1>4. ASSUME NEW w \in Indexers, StartDelete(w)
      PROVE  Fresh(e)'
  BY <1>4 DEF StartDelete, Doomed, kbhistory
<1>5. ASSUME NEW w \in Indexers, TakeLocks(w)
      PROVE  Fresh(e)'
  BY <1>5 DEF TakeLocks, kbhistory
<1>6. ASSUME NEW w \in Indexers, StoreChunks(w)
      PROVE  Fresh(e)'
  BY <1>6 DEF StoreChunks, SetStatus, IdleIndexer, kbhistory
<1>7. ASSUME NEW w \in Indexers, IndexFails(w)
      PROVE  Fresh(e)'
  BY <1>7 DEF IndexFails, Failed, SetStatus, IdleIndexer, kbhistory
<1>8. ASSUME NEW S \in SUBSET Indexers, NEW R, NEW T, Abort(S, R, T)
      PROVE  Fresh(e)'
  BY <1>8 DEF Abort, IdleIndexer, kbhistory
<1>9. ASSUME NEW d \in Docs, NEW loaded, SourceChanges(d, loaded)
      PROVE  Fresh(e)'
  BY <1>9 DEF SourceChanges, Touch, Busy, Requeued, kbhistory
<1>10. ASSUME NEW d \in Docs, BeginRemoval(d)
      PROVE  Fresh(e)'
  BY <1>10 DEF BeginRemoval, Touch, Busy, kbhistory
<1>11. ASSUME NEW d \in Docs, EndRemoval(d)
      PROVE  Fresh(e)'
  BY <1>11 DEF EndRemoval, Touch, Busy, Removed, Deactivated, SetStatus, kbhistory
<1>12. ASSUME NEW d \in Docs, ApproveUpload(d)
      PROVE  Fresh(e)'
  BY <1>12 DEF ApproveUpload, Touch, Busy, Requeued, kbhistory
<1>13. ASSUME NEW d \in Docs, DropUpload(d)
      PROVE  Fresh(e)'
  BY <1>13 DEF DropUpload, Touch, Busy, kbhistory
<1>14. ASSUME Reindex
      PROVE  Fresh(e)'
  BY <1>14 DEF Reindex, ReindexSelect, ReindexCommit, Busy, kbhistory
<1>15. CASE UNCHANGED kbvars
  BY <1>15 DEF kbvars
<1>. QED
  BY <1>1, <1>2, <1>3, <1>4, <1>5, <1>6, <1>7, <1>8, <1>9, <1>10, <1>11, <1>12, <1>13, <1>14, <1>15 DEF KBNext, IndexerStep, SourceStep

(***************************************************************************)
(* The theorems about the index                                            *)
(***************************************************************************)

\* Nothing is indexed at first.
LEMMA KBInitOK == KBInit => KBInv
<1> SUFFICES ASSUME KBInit PROVE KBInv
  OBVIOUS
<1>1. \A w \in Indexers : indexer[w] = IdleIndexer
  BY DEF KBInit
<1>2. IdleIndexer \in Indexer /\ IdleIndexer.step = "idle" /\ IdleIndexer.doc = NoDoc
  BY DEF IdleIndexer, Indexer, Steps
<1>3. KBTypeOK
  BY <1>2 DEF KBInit, KBTypeOK, IndexStatus, Source, Removal, NoRemoval
<1>4. OnADocument
  BY <1>1, <1>2 DEF OnADocument
<1>5. IndexedIsSearchable
  BY DEF KBInit, IndexedIsSearchable
<1>6. \A d \in Docs : Undisturbed(d) /\ Fresh(d)
  BY <1>1, <1>2, KBAssumption DEF KBInit, KBAssumption, Undisturbed, OneWorker, DeletesAll,
     OneSet, HasFile, Fresh, Works
<1>. QED
  BY <1>3, <1>4, <1>5, <1>6 DEF KBInv

\* What KBIndex keeps true whatever interleaves.
THEOREM IndexSound == KBSpec => []KBInv
<1>1. KBInv /\ [KBNext]_kbvars => KBInv'
  <2> SUFFICES ASSUME KBInv, [KBNext]_kbvars
               PROVE  KBInv'
    OBVIOUS
  <2>1. KBTypeOK' /\ OnADocument' /\ IndexedIsSearchable'
    BY KBAssumption, KBTypeStep, SearchableStep DEF KBInv
  <2>2. \A e \in Docs \ (stirred' \cup forced') : Undisturbed(e)'
    BY KBAssumption, UndisturbedStep DEF KBInv
  <2>3. \A e \in Docs \ stirred' : Fresh(e)'
    BY KBAssumption, FreshStep DEF KBInv
  <2>. QED
    BY <2>1, <2>2, <2>3 DEF KBInv
<1>. QED
  BY KBInitOK, <1>1, PTL DEF KBSpec

\* Rows, chunk sets and workers keep their shape.
THEOREM KBTypeCorrect == KBSpec => []KBTypeOK
<1>1. KBInv => KBTypeOK
  BY DEF KBInv
<1>. QED
  BY <1>1, IndexSound, PTL

\* What is reported as indexed can be found.
THEOREM IndexedCanBeFound == KBSpec => []IndexedIsSearchable
<1>1. KBInv => IndexedIsSearchable
  BY DEF KBInv
<1>. QED
  BY <1>1, IndexSound, PTL

\* What nobody disturbed is stored once: index_document may run again and
\* again.
THEOREM StoredOnce == KBSpec => []OneChunkSet
<1>1. KBInv => OneChunkSet
  <2> SUFFICES ASSUME KBInv, NEW d \in Docs \ (stirred \cup forced)
               PROVE  Cardinality(chunks[d]) <= 1
    BY DEF OneChunkSet
  <2>1. \A c, e \in chunks[d] : c = e
    BY DEF KBInv, Undisturbed, OneSet
  <2>2. CASE chunks[d] = {}
    <3>1. Cardinality({}) = 0
      BY FS_EmptySet
    <3>. QED
      BY <2>2, <3>1
  <2>3. CASE chunks[d] # {}
    <3>1. PICK c : c \in chunks[d]
      BY <2>3
    <3>2. chunks[d] = {c}
      BY <2>1, <3>1
    <3>3. Cardinality({c}) = 1
      BY FS_Singleton
    <3>. QED
      BY <3>2, <3>3
  <2>. QED
    BY <2>2, <2>3
<1>. QED
  BY <1>1, IndexSound, PTL

\* Search answers from the current content of what did not change while it
\* was being indexed, even if it was re-indexed or indexed twice.
THEOREM AnswersAreCurrent == KBSpec => []ServedIsCurrent
<1>1. KBInv => ServedIsCurrent
  BY DEF KBInv, Fresh, Current, ServedIsCurrent, Served
<1>. QED
  BY <1>1, IndexSound, PTL

\* Search answers from files that are there.
THEOREM AnswersHaveFiles == KBSpec => []ServedIsActive
<1>1. KBInv => ServedIsActive
  BY DEF KBInv, Undisturbed, HasFile, ServedIsActive, Served
<1>. QED
  BY <1>1, IndexSound, PTL

(***************************************************************************)
(* The sync: its invariant, run by run and file by file                    *)
(***************************************************************************)
AtFile(r) == sync[r].step \in {"fetched", "staged", "removing"}
WithRows(r) == sync[r].step \in {"files", "fetched", "staged", "removing"}

\* A run that waits for chunk locks has a removal open, its own.
RemovalHeld(r) ==
    AtStep(r, "removing") =>
       /\ removal[sync[r].file].open
       /\ \A s \in Runs : AtStep(s, "removing") /\ sync[s].file = sync[r].file => s = r

OnAFile(r) == AtFile(r) => sync[r].file \in Docs

\* Whoever is at work is alone, and its row says in progress.
OneAlive ==
    ~raced =>
       /\ \A r, s \in Runs : Alive(r) /\ Alive(s) => r = s
       /\ \A r \in Runs : sync[r].step \in Working => outcome[r] = "in_progress"

Unreported == \A r \in Runs : sync[r].step \in {"idle", "checked"} => outcome[r] = "none"

\* A file has content; an active row has been written.
RowsSound ==
    \A d \in Docs : /\ head[d].present => head[d].content # 0
                    /\ source[d].active => source[d].version # 0 /\ sha[d] # 0

\* What a run has read was there, and the branch has moved on at most.
RunReads(r) ==
    /\ sync[r].step \in {"checked", "begun"} => sync[r].paths = {}
    /\ \A d \in Docs : /\ sync[r].tree[d] <= head[d].content
                       /\ sync[r].known[d] # 0 => source[d].version # 0
    /\ WithRows(r) => \A d \in sync[r].todo : sync[r].tree[d] # 0
    /\ sync[r].step \in {"fetched", "staged"} =>
          /\ sync[r].file \in sync[r].todo
          /\ sync[r].content # 0 /\ sync[r].content >= sync[r].tree[sync[r].file]

\* What a run that is alone knows of the rows is what they are, and the
\* items it is done with are there in the content of its tree or a newer one.
Mirrors(r) ==
    /\ WithRows(r) =>
          \A d \in Docs : /\ sync[r].known[d] # 0 <=> source[d].active
                          /\ source[d].active => sha[d] = sync[r].known[d]
                          /\ d \notin sync[r].todo /\ sync[r].tree[d] # 0 =>
                                sync[r].known[d] >= sync[r].tree[d]
    /\ AtStep(r, "staged") => ~Conflicts(r)
    /\ AtStep(r, "removing") => sync[r].tree[sync[r].file] = 0

SyncShape ==
    /\ SyncTypeOK /\ KBTypeOK /\ OnADocument
    /\ \A r \in Runs : OnAFile(r) /\ RemovalHeld(r)

SyncReads == RowsSound /\ \A r \in Runs : RunReads(r)

SyncInv ==
    /\ SyncShape /\ OneAlive /\ Unreported /\ SyncReads
    /\ ~raced => \A r \in Runs : Mirrors(r)

(***************************************************************************)
(* What the steps of a run do to its record                                *)
(***************************************************************************)
Others(r) == \A s \in Runs \ {r} : sync'[s] = sync[s]

\* The fields of r's record but for its step.
Keeps(r) ==
    /\ sync'[r].paths = sync[r].paths /\ sync'[r].tree = sync[r].tree
    /\ sync'[r].known = sync[r].known /\ sync'[r].todo = sync[r].todo
    /\ sync'[r].file = sync[r].file /\ sync'[r].content = sync[r].content
    /\ sync'[r].loaded = sync[r].loaded

LEMMA NewRuns ==
    /\ NewRun \in SyncRec /\ NewRun.step = "idle" /\ NewRun.paths = {}
    /\ NewRun.tree = Nothing /\ NewRun.known = Nothing
    /\ Nothing \in [Docs -> Nat] /\ \A d \in Docs : Nothing[d] = 0
BY DEF NewRun, SyncRec, SyncSteps, Nothing, Content, IndexStatus

LEMMA CheckRunsDoes ==
    ASSUME SyncTypeOK, NEW r \in Runs, NEW p \in Pods, CheckRuns(r, p)
    PROVE  /\ Others(r) /\ sync' \in [Runs -> SyncRec]
           /\ sync'[r].step = "checked" /\ sync'[r].paths = {}
           /\ sync'[r].tree = Nothing /\ sync'[r].known = Nothing
<1>1. PICK t : t = [NewRun EXCEPT !.step = "checked", !.pod = p]
  OBVIOUS
<1>2. /\ t \in SyncRec /\ t.step = "checked" /\ t.paths = {}
      /\ t.tree = Nothing /\ t.known = Nothing
  BY <1>1, NewRuns DEF NewRun, SyncRec, SyncSteps
<1>3. sync' = [sync EXCEPT ![r] = t]
  BY <1>1 DEF CheckRuns
<1>. QED
  BY <1>2, <1>3 DEF SyncTypeOK, Others

\* The record of a run after a change of its step, its file or its reading.
LEMMA Steppings ==
    ASSUME SyncTypeOK, NEW r \in Runs, NEW step \in SyncSteps,
           sync' = [sync EXCEPT ![r].step = step]
    PROVE  Others(r) /\ sync' \in [Runs -> SyncRec] /\ sync'[r].step = step /\ Keeps(r)
<1>1. sync[r] \in SyncRec /\ sync \in [Runs -> SyncRec]
  BY DEF SyncTypeOK
<1>2. PICK t : t = [sync[r] EXCEPT !.step = step]
  OBVIOUS
<1>3. sync' = [sync EXCEPT ![r] = t]
  BY <1>2
<1>4. t \in SyncRec /\ t.step = step
  BY <1>1, <1>2 DEF SyncRec
<1>5. sync'[r] = t /\ Others(r) /\ sync' \in [Runs -> SyncRec]
  BY <1>1, <1>3, <1>4 DEF Others
<1>. QED
  BY <1>1, <1>2, <1>4, <1>5 DEF Keeps, SyncRec

LEMMA ReadFoldersDoes ==
    ASSUME SyncTypeOK, NEW r \in Runs, ReadFolders(r)
    PROVE  /\ Others(r) /\ sync' \in [Runs -> SyncRec]
           /\ sync'[r].step = "listing" /\ sync'[r].tree = sync[r].tree
           /\ sync'[r].known = sync[r].known
<1>1. sync[r] \in SyncRec /\ sync \in [Runs -> SyncRec] /\ folders \subseteq Docs
  BY DEF SyncTypeOK
<1>. QED
  BY <1>1 DEF ReadFolders, SyncRec, SyncSteps, Others

LEMMA FetchTreeDoes ==
    ASSUME SyncTypeOK, NEW r \in Runs, FetchTree(r)
    PROVE  /\ Others(r) /\ sync' \in [Runs -> SyncRec]
           /\ sync'[r].step = "listed" /\ sync'[r].known = sync[r].known
           /\ \A d \in Docs : sync'[r].tree[d] = 0 \/ sync'[r].tree[d] = head[d].content
<1>1. PICK tree \in {TreeOf(r), Nothing} :
         sync' = [sync EXCEPT ![r].step = "listed", ![r].tree = tree]
  BY DEF FetchTree
<1>2. /\ tree \in [Docs -> Content]
      /\ \A d \in Docs : tree[d] = 0 \/ tree[d] = head[d].content
  BY <1>1, NewRuns DEF TreeOf, SyncTypeOK, Content
<1>3. sync[r] \in SyncRec /\ sync \in [Runs -> SyncRec]
  BY DEF SyncTypeOK
<1>. QED
  BY <1>1, <1>2, <1>3 DEF SyncRec, SyncSteps, Others

LEMMA LoadExistingDoes ==
    ASSUME SyncTypeOK, NEW r \in Runs, LoadExisting(r)
    PROVE  /\ Others(r) /\ sync' \in [Runs -> SyncRec]
           /\ sync'[r].step = "files" /\ sync'[r].tree = sync[r].tree
           /\ \A d \in Docs : sync'[r].known[d] = IF source[d].active THEN sha[d] ELSE 0
           /\ sync'[r].todo = {d \in Docs : sync[r].tree[d] # 0}
<1>1. PICK known : known = [d \in Docs |-> IF source[d].active THEN sha[d] ELSE 0]
  OBVIOUS
<1>2. PICK todo : todo = {d \in Docs : sync[r].tree[d] # 0}
  OBVIOUS
<1>3. known \in [Docs -> Content] /\ todo \subseteq Docs
  BY <1>1, <1>2 DEF SyncTypeOK, Content
<1>4. sync' = [sync EXCEPT ![r].step = "files", ![r].known = known, ![r].todo = todo]
  BY <1>1, <1>2 DEF LoadExisting
<1>5. sync[r] \in SyncRec /\ sync \in [Runs -> SyncRec]
  BY DEF SyncTypeOK
<1>6. /\ Others(r) /\ sync' \in [Runs -> SyncRec]
      /\ sync'[r].step = "files" /\ sync'[r].tree = sync[r].tree
      /\ sync'[r].known = known /\ sync'[r].todo = todo
  BY <1>3, <1>4, <1>5 DEF SyncRec, SyncSteps, Others
<1>. QED
  BY <1>1, <1>2, <1>6

LEMMA SkipFileDoes ==
    ASSUME SyncTypeOK, NEW r \in Runs, NEW d \in Docs, SkipFile(r, d)
    PROVE  /\ Others(r) /\ sync' \in [Runs -> SyncRec]
           /\ sync'[r].step = "files" /\ sync'[r].tree = sync[r].tree
           /\ sync'[r].known = sync[r].known /\ sync'[r].todo = sync[r].todo \ {d}
<1>1. sync[r] \in SyncRec /\ sync \in [Runs -> SyncRec]
  BY DEF SyncTypeOK
<1>. QED
  BY <1>1 DEF SkipFile, AtStep, SyncRec, Others

LEMMA FetchFileDoes ==
    ASSUME SyncTypeOK, NEW r \in Runs, NEW d \in Docs, FetchFile(r, d)
    PROVE  /\ Others(r) /\ sync' \in [Runs -> SyncRec]
           /\ sync'[r].step = "fetched" /\ sync'[r].tree = sync[r].tree
           /\ sync'[r].known = sync[r].known /\ sync'[r].todo = sync[r].todo
           /\ sync'[r].file = d /\ sync'[r].content = head[d].content
<1>1. sync[r] \in SyncRec /\ sync \in [Runs -> SyncRec] /\ head[d].content \in Content
  BY DEF SyncTypeOK
<1>. QED
  BY <1>1 DEF FetchFile, SyncRec, SyncSteps, Others

LEMMA StageFileDoes ==
    ASSUME SyncTypeOK, KBTypeOK, NEW r \in Runs, OnAFile(r), StageFile(r)
    PROVE  /\ Others(r) /\ sync' \in [Runs -> SyncRec]
           /\ sync'[r].step = "staged" /\ sync'[r].tree = sync[r].tree
           /\ sync'[r].known = sync[r].known /\ sync'[r].todo = sync[r].todo
           /\ sync'[r].file = sync[r].file /\ sync'[r].content = sync[r].content
<1>1. sync[r] \in SyncRec /\ sync \in [Runs -> SyncRec]
  BY DEF SyncTypeOK
<1>2. kb[sync[r].file] \in IndexStatus
  BY DEF KBTypeOK, StageFile, OnAFile, AtFile, AtStep
<1>. QED
  BY <1>1, <1>2 DEF StageFile, SyncRec, SyncSteps, Others

LEMMA CommitFileDoes ==
    ASSUME SyncTypeOK, NEW r \in Runs, OnAFile(r), CommitFile(r)
    PROVE  LET d == sync[r].file
           IN /\ Others(r) /\ sync' \in [Runs -> SyncRec] /\ d \in Docs
              /\ sync'[r].step = "files" /\ sync'[r].tree = sync[r].tree
              /\ sync'[r].known = [sync[r].known EXCEPT ![d] = sync[r].content]
              /\ sync'[r].todo = sync[r].todo \ {d}
              /\ sha' = [sha EXCEPT ![d] = Synced(r)] /\ sha' \in [Docs -> Content]
              /\ source' = [source EXCEPT ![d] =
                     [version |-> @.version + 1, active |-> @.version = 0 \/ @.active]]
<1>1. sync[r] \in SyncRec /\ sync \in [Runs -> SyncRec] /\ sha \in [Docs -> Content]
  BY DEF SyncTypeOK
<1>2. PICK d \in Docs : d = sync[r].file
  BY DEF CommitFile, OnAFile, AtFile, AtStep
<1>3. PICK known : known = [sync[r].known EXCEPT ![d] = sync[r].content]
  OBVIOUS
<1>4. known \in [Docs -> Content]
  BY <1>1, <1>2, <1>3 DEF SyncRec
<1>5. sync' = [sync EXCEPT ![r].step = "files", ![r].todo = @ \ {d}, ![r].known = known]
  BY <1>2, <1>3 DEF CommitFile
<1>6. /\ Others(r) /\ sync' \in [Runs -> SyncRec]
      /\ sync'[r].step = "files" /\ sync'[r].tree = sync[r].tree
      /\ sync'[r].known = known /\ sync'[r].todo = sync[r].todo \ {d}
  BY <1>1, <1>4, <1>5 DEF SyncRec, SyncSteps, Others
<1>7. Synced(r) \in Content
  BY <1>1, <1>2 DEF Synced, SyncRec
<1>. QED
  BY <1>1, <1>2, <1>3, <1>6, <1>7 DEF CommitFile, SourceChanges

LEMMA StartRemovalDoes ==
    ASSUME SyncTypeOK, NEW r \in Runs, NEW d \in Docs, StartRemoval(r, d)
    PROVE  /\ Others(r) /\ sync' \in [Runs -> SyncRec]
           /\ sync'[r].step = "removing" /\ sync'[r].tree = sync[r].tree
           /\ sync'[r].known = sync[r].known /\ sync'[r].todo = sync[r].todo
           /\ sync'[r].file = d
<1>1. sync[r] \in SyncRec /\ sync \in [Runs -> SyncRec]
  BY DEF SyncTypeOK
<1>. QED
  BY <1>1 DEF StartRemoval, SyncRec, SyncSteps, Others

LEMMA FinishRemovalDoes ==
    ASSUME SyncTypeOK, KBTypeOK, NEW r \in Runs, OnAFile(r), FinishRemoval(r)
    PROVE  LET d == sync[r].file
           IN /\ Others(r) /\ sync' \in [Runs -> SyncRec] /\ d \in Docs
              /\ sync'[r].step = "files" /\ sync'[r].tree = sync[r].tree
              /\ sync'[r].known = [sync[r].known EXCEPT ![d] = 0]
              /\ sync'[r].todo = sync[r].todo
              /\ source' = [source EXCEPT ![d].active = FALSE]
              /\ removal' = [removal EXCEPT ![d] = NoRemoval]
<1>1. sync[r] \in SyncRec /\ sync \in [Runs -> SyncRec]
  BY DEF SyncTypeOK
<1>2. PICK d \in Docs : d = sync[r].file
  BY DEF FinishRemoval, OnAFile, AtFile, AtStep
<1>3. PICK known : known = [sync[r].known EXCEPT ![d] = 0]
  OBVIOUS
<1>4. known \in [Docs -> Content]
  BY <1>1, <1>2, <1>3 DEF SyncRec, Content
<1>5. sync' = [sync EXCEPT ![r].step = "files", ![r].known = known]
  BY <1>2, <1>3 DEF FinishRemoval
<1>6. /\ Others(r) /\ sync' \in [Runs -> SyncRec]
      /\ sync'[r].step = "files" /\ sync'[r].tree = sync[r].tree
      /\ sync'[r].known = known /\ sync'[r].todo = sync[r].todo
  BY <1>1, <1>4, <1>5 DEF SyncRec, SyncSteps, Others
<1>. QED
  BY <1>2, <1>3, <1>6 DEF FinishRemoval, EndRemoval, Deactivated

\* A pod's death leaves of each run its record, or that it is dead.
LEMMA CrashDoes ==
    ASSUME SyncTypeOK, NEW p \in Pods, Crash(p)
    PROVE  /\ sync' \in [Runs -> SyncRec]
           /\ \A r \in Runs :
                 \/ sync'[r] = sync[r]
                 \/ /\ sync'[r].step = "dead" /\ Keeps(r)
                    /\ Alive(r) /\ sync[r].pod = p
           /\ UNCHANGED <<head, folders, sha, outcome, raced, kb, source>>
<1>1. sync \in [Runs -> SyncRec] /\ \A r \in Runs : sync[r] \in SyncRec
  BY DEF SyncTypeOK
<1>2. PICK D : D = {r \in Runs : sync[r].pod = p /\ Alive(r)}
  OBVIOUS
<1>3. sync' = [r \in Runs |-> IF r \in D THEN [sync[r] EXCEPT !.step = "dead"]
                              ELSE sync[r]]
  BY <1>2 DEF Crash
<1>4. ASSUME NEW r \in D
      PROVE  sync'[r] \in SyncRec /\ sync'[r].step = "dead" /\ Keeps(r)
  <2>1. sync'[r] = [sync[r] EXCEPT !.step = "dead"] /\ r \in Runs
    BY <1>2, <1>3
  <2>. QED
    BY <1>1, <2>1 DEF SyncRec, SyncSteps, Keeps
<1>5. \A r \in Runs \ D : sync'[r] = sync[r]
  BY <1>3
<1>6. sync' \in [Runs -> SyncRec]
  BY <1>1, <1>3, <1>4, <1>5
<1>. QED
  BY <1>2, <1>4, <1>5, <1>6 DEF Crash, Abort

(***************************************************************************)
(* The index under the sync                                                *)
(***************************************************************************)
allvars == <<kbvars, syncvars>>

\* A session that loaded another status than queued writes queued, whatever
\* the status is by now: as if it had loaded it now.
LEMMA AnyLoadedStatus ==
    ASSUME KBTypeOK, NEW d \in Docs, NEW loaded, SourceChanges(d, loaded)
    PROVE  SourceStep(d)
<1>1. CASE loaded = "queued"
  BY <1>1 DEF SourceStep
<1>2. CASE loaded # "queued"
  <2>1. SourceChanges(d, kb[d])
    BY <1>2 DEF SourceChanges, Touch, Requeued, KBTypeOK
  <2>. QED
    BY <2>1 DEF SourceStep
<1>. QED
  BY <1>1, <1>2

LEMMA IndexSteps == SyncShape /\ [SyncNext]_allvars => [KBNext]_kbvars
<1> SUFFICES ASSUME SyncShape, [SyncNext]_allvars PROVE [KBNext]_kbvars
  OBVIOUS
<1>t. KBTypeOK /\ \A r \in Runs : OnAFile(r) /\ RemovalHeld(r)
  BY DEF SyncShape
<1>1. ASSUME NEW r \in Runs, CommitFile(r)
      PROVE  KBNext
  <2>1. PICK d \in Docs : d = sync[r].file
    BY <1>1, <1>t DEF CommitFile, OnAFile, AtFile, AtStep
  <2>2. SourceStep(d)
    BY <1>1, <1>t, <2>1, AnyLoadedStatus DEF CommitFile
  <2>. QED
    BY <2>2 DEF KBNext
<1>2. ASSUME NEW r \in Runs, NEW d \in Docs, StartRemoval(r, d)
      PROVE  KBNext
  BY <1>2 DEF StartRemoval, KBNext, SourceStep
<1>3. ASSUME NEW r \in Runs, FinishRemoval(r)
      PROVE  KBNext
  <2>1. PICK d \in Docs : d = sync[r].file
    BY <1>3, <1>t DEF FinishRemoval, OnAFile, AtFile, AtStep
  <2>2. SourceStep(d)
    BY <1>3, <2>1 DEF FinishRemoval, SourceStep
  <2>. QED
    BY <2>2 DEF KBNext
<1>4. ASSUME NEW p \in Pods, Crash(p)
      PROVE  KBNext
  <2>1. PICK R : R = {sync[r].file : r \in {r \in Runs : /\ sync[r].pod = p /\ Alive(r)
                                                         /\ AtStep(r, "removing")}}
    OBVIOUS
  <2>2. PICK S \in SUBSET {w \in Indexers : indexer[w].step # "idle"} : Abort(S, R, {})
    <3>1. R = {sync[r].file : r \in {r \in {r \in Runs : sync[r].pod = p /\ Alive(r)} :
                                        AtStep(r, "removing")}}
      BY <2>1
    <3>. QED
      BY <1>4, <3>1 DEF Crash
  <2>3. R \in SUBSET {d \in Docs : removal[d].open}
    BY <1>t, <2>1 DEF OnAFile, RemovalHeld, AtFile, AtStep
  <2>. QED
    BY <2>2, <2>3 DEF KBNext
<1>5. ASSUME NEW w \in Indexers, IndexerStep(w)
      PROVE  KBNext
  BY <1>5 DEF KBNext
<1>6. ASSUME NEW r \in Runs, NEW p \in Pods, CheckRuns(r, p) \/ Start(p)
      PROVE  UNCHANGED kbvars
  BY <1>6 DEF CheckRuns, Start
<1>7. ASSUME NEW r \in Runs,
             \/ InsertRun(r) \/ ReadFolders(r) \/ NoFolders(r) \/ FetchTree(r)
             \/ LoadExisting(r) \/ StageFile(r) \/ FinishRun(r) \/ FailRun(r)
      PROVE  UNCHANGED kbvars
  BY <1>7 DEF InsertRun, ReadFolders, NoFolders, FetchTree, LoadExisting, StageFile,
              FinishRun, FailRun
<1>8. ASSUME NEW r \in Runs, NEW d \in Docs, SkipFile(r, d) \/ FetchFile(r, d)
      PROVE  UNCHANGED kbvars
  BY <1>8 DEF SkipFile, FetchFile
<1>9. ASSUME NEW d \in Docs, Push(d) \/ DeleteFile(d)
      PROVE  UNCHANGED kbvars
  BY <1>9 DEF Push, DeleteFile
<1>10. ASSUME NEW paths \in SUBSET Docs, Configure(paths)
       PROVE  UNCHANGED kbvars
  BY <1>10 DEF Configure
<1>11. ASSUME NEW p \in Pods, Start(p)
       PROVE  UNCHANGED kbvars
  BY <1>11 DEF Start
<1>12. CASE UNCHANGED allvars
  BY <1>12 DEF allvars
<1>. QED
  BY <1>1, <1>2, <1>3, <1>4, <1>5, <1>6, <1>7, <1>8, <1>9, <1>10, <1>11, <1>12
  DEF SyncNext, RunStep

(***************************************************************************)
(* Types                                                                   *)
(***************************************************************************)
LEMMA SyncShapeInit == SyncInit => SyncShape
<1> SUFFICES ASSUME SyncInit PROVE SyncShape
  OBVIOUS
<1>1. KBTypeOK /\ OnADocument
  BY KBInitOK DEF SyncInit, KBInv
<1>2. SyncTypeOK
  BY NewRuns DEF SyncInit, SyncTypeOK, Content, Outcome
<1>3. \A r \in Runs : sync[r].step = "idle"
  BY NewRuns DEF SyncInit
<1>. QED
  BY <1>1, <1>2, <1>3 DEF SyncShape, OnAFile, RemovalHeld, AtFile, AtStep

\* The removals stay where they are, and so do those who hold them.
LEMMA RemovalsUntouched ==
    ASSUME \A s \in Runs : RemovalHeld(s), removal' = removal,
           \A s \in Runs : sync'[s].step = "removing" =>
              sync[s].step = "removing" /\ sync'[s].file = sync[s].file
    PROVE  \A s \in Runs : RemovalHeld(s)'
BY DEF RemovalHeld, AtStep

LEMMA EndRunDoes ==
    ASSUME SyncTypeOK, NEW r \in Runs, NEW result \in Outcome \ {"none"}, EndRun(r, result)
    PROVE  /\ Others(r) /\ sync' \in [Runs -> SyncRec] /\ sync'[r].step = "ended"
           /\ Keeps(r) /\ outcome' = [outcome EXCEPT ![r] = result]
           /\ outcome' \in [Runs -> Outcome]
<1>1. "ended" \in SyncSteps
  BY DEF SyncSteps
<1>. QED
  BY <1>1, Steppings DEF EndRun, SyncTypeOK

\* A run ends as the code says: its record is kept, but for the step.
LEMMA EndsDo ==
    ASSUME SyncTypeOK, NEW r \in Runs, NoFolders(r) \/ FinishRun(r) \/ FailRun(r)
    PROVE  /\ Others(r) /\ sync' \in [Runs -> SyncRec] /\ sync'[r].step = "ended"
           /\ Keeps(r)
           /\ outcome' \in [Runs -> Outcome]
           /\ \A s \in Runs \ {r} : outcome'[s] = outcome[s]
           /\ sync[r].step \in Working
           /\ UNCHANGED <<head, folders, sha, up, raced, kbvars>>
<1>1. "success" \in Outcome \ {"none"} /\ "failed" \in Outcome \ {"none"}
  BY DEF Outcome
<1>2. EndRun(r, "success") \/ EndRun(r, "failed")
  BY DEF NoFolders, FinishRun, FailRun
<1>3. /\ Others(r) /\ sync' \in [Runs -> SyncRec] /\ sync'[r].step = "ended"
      /\ Keeps(r) /\ outcome' \in [Runs -> Outcome]
      /\ \A s \in Runs \ {r} : outcome'[s] = outcome[s]
  <2>1. CASE EndRun(r, "success")
    BY <1>1, <2>1, EndRunDoes DEF SyncTypeOK
  <2>2. CASE EndRun(r, "failed")
    BY <1>1, <2>2, EndRunDoes DEF SyncTypeOK
  <2>. QED
    BY <1>2, <2>1, <2>2
<1>4. sync[r].step \in Working /\ UNCHANGED <<head, folders, sha, up, raced, kbvars>>
  BY DEF NoFolders, FinishRun, FailRun, AtStep, Working
<1>. QED
  BY <1>3, <1>4

LEMMA InsertRunDoes ==
    ASSUME SyncTypeOK, NEW r \in Runs, InsertRun(r)
    PROVE  /\ Others(r) /\ sync' \in [Runs -> SyncRec] /\ sync'[r].step = "begun"
           /\ Keeps(r) /\ outcome' \in [Runs -> Outcome]
           /\ outcome' = [outcome EXCEPT ![r] = "in_progress"]
<1>1. "begun" \in SyncSteps /\ "in_progress" \in Outcome
  BY DEF SyncSteps, Outcome
<1>. QED
  BY <1>1, Steppings DEF InsertRun, SyncTypeOK

\* The repository gets newer contents, and never an old one.
LEMMA HeadMoves ==
    ASSUME SyncTypeOK, NEW d \in Docs, Push(d) \/ DeleteFile(d)
    PROVE  /\ head' \in [Docs -> [content : Content, present : BOOLEAN]]
           /\ \A e \in Docs : /\ head'[e].content >= head[e].content
                              /\ head'[e].present =>
                                    head[e].present \/ head'[e].content # 0
           /\ UNCHANGED <<folders, sha, outcome, sync, up, raced, kbvars>>
<1>t. /\ head \in [Docs -> [content : Content, present : BOOLEAN]]
      /\ \A e \in Docs : head[e].content \in Nat
  BY DEF SyncTypeOK, Content
<1>1. CASE Push(d)
  <2>1. PICK h : h = [content |-> head[d].content + 1, present |-> TRUE]
    OBVIOUS
  <2>2. h \in [content : Content, present : BOOLEAN] /\ h.content = head[d].content + 1
    BY <1>t, <2>1 DEF Content
  <2>3. head' = [head EXCEPT ![d] = h]
    BY <1>1, <2>1 DEF Push
  <2>4. head'[d] = h /\ \A e \in Docs \ {d} : head'[e] = head[e]
    BY <1>t, <2>3
  <2>5. head' \in [Docs -> [content : Content, present : BOOLEAN]]
    BY <1>t, <2>2, <2>3
  <2>6. \A e \in Docs : head'[e].content >= head[e].content
                        /\ (head'[e].present => head[e].present \/ head'[e].content # 0)
    BY <1>t, <2>2, <2>4
  <2>. QED
    BY <1>1, <2>5, <2>6 DEF Push
<1>2. CASE DeleteFile(d)
  <2>1. PICK h : h = [head[d] EXCEPT !.present = FALSE]
    OBVIOUS
  <2>2. /\ h \in [content : Content, present : BOOLEAN]
        /\ h.content = head[d].content /\ ~h.present
    BY <1>t, <2>1
  <2>3. head' = [head EXCEPT ![d] = h]
    BY <1>2, <2>1 DEF DeleteFile
  <2>4. head'[d] = h /\ \A e \in Docs \ {d} : head'[e] = head[e]
    BY <1>t, <2>3
  <2>5. head' \in [Docs -> [content : Content, present : BOOLEAN]]
    BY <1>t, <2>2, <2>3
  <2>6. \A e \in Docs : head'[e].content >= head[e].content
                        /\ (head'[e].present => head[e].present \/ head'[e].content # 0)
    BY <1>t, <2>2, <2>4
  <2>. QED
    BY <1>2, <2>5, <2>6 DEF DeleteFile
<1>. QED
  BY <1>1, <1>2

LEMMA SyncShapeStep == SyncShape /\ [SyncNext]_allvars => SyncShape'
<1> SUFFICES ASSUME SyncShape, [SyncNext]_allvars PROVE SyncShape'
  OBVIOUS
<1>t. /\ SyncTypeOK /\ KBTypeOK /\ OnADocument
      /\ \A r \in Runs : OnAFile(r)
      /\ \A r \in Runs : RemovalHeld(r)
      /\ sync \in [Runs -> SyncRec]
  BY DEF SyncShape, SyncTypeOK
<1>k. KBTypeOK' /\ OnADocument'
  BY <1>t, IndexSteps, KBTypeStep, KBAssumption
<1> DEFINE Held == \A s \in Runs : OnAFile(s) /\ RemovalHeld(s)
<1>q. ASSUME SyncTypeOK', Held' PROVE SyncShape'
  BY <1>k, <1>q DEF SyncShape
<1>r. ASSUME NEW r \in Runs, Others(r), sync'[r].step # "removing",
             sync'[r].step \in {"fetched", "staged"} => sync'[r].file \in Docs,
             removal' = removal
      PROVE  Held'
  BY <1>t, <1>r, RemovalsUntouched DEF Others, OnAFile, AtFile
<1>s. ASSUME sync' = sync, removal' = removal
      PROVE  Held'
  BY <1>t, <1>s, RemovalsUntouched DEF OnAFile, AtFile
<1>1. ASSUME NEW r \in Runs, NEW p \in Pods, CheckRuns(r, p)
      PROVE  SyncShape'
  <2>1. SyncTypeOK'
    BY <1>1, <1>t, CheckRunsDoes DEF CheckRuns, SyncTypeOK
  <2>2. removal' = removal
    BY <1>1 DEF CheckRuns, kbvars
  <2>3. Held'
    BY <1>1, <1>t, <1>r, <2>2, CheckRunsDoes
  <2>. QED
    BY <1>q, <2>1, <2>3
<1>2. ASSUME NEW r \in Runs, InsertRun(r)
      PROVE  SyncShape'
  <2>1. SyncTypeOK'
    BY <1>2, <1>t, InsertRunDoes DEF InsertRun, SyncTypeOK
  <2>2. removal' = removal
    BY <1>2 DEF InsertRun, kbvars
  <2>3. Held'
    BY <1>2, <1>t, <1>r, <2>2, InsertRunDoes
  <2>. QED
    BY <1>q, <2>1, <2>3
<1>3. ASSUME NEW r \in Runs, ReadFolders(r)
      PROVE  SyncShape'
  <2>1. SyncTypeOK'
    BY <1>3, <1>t, ReadFoldersDoes DEF ReadFolders, SyncTypeOK
  <2>2. removal' = removal
    BY <1>3 DEF ReadFolders, kbvars
  <2>3. Held'
    BY <1>3, <1>t, <1>r, <2>2, ReadFoldersDoes
  <2>. QED
    BY <1>q, <2>1, <2>3
<1>4. ASSUME NEW r \in Runs, NoFolders(r) \/ FinishRun(r) \/ FailRun(r)
      PROVE  SyncShape'
  <2>1. /\ SyncTypeOK'
        /\ Others(r) /\ sync'[r].step = "ended" /\ removal' = removal
    BY <1>4, <1>t, EndsDo DEF SyncTypeOK, kbvars
  <2>2. Held'
    BY <1>r, <2>1
  <2>. QED
    BY <1>q, <2>1, <2>2
<1>5. ASSUME NEW r \in Runs, FetchTree(r)
      PROVE  SyncShape'
  <2>1. SyncTypeOK'
    BY <1>5, <1>t, FetchTreeDoes DEF FetchTree, SyncTypeOK
  <2>2. removal' = removal
    BY <1>5 DEF FetchTree, kbvars
  <2>3. Held'
    BY <1>5, <1>t, <1>r, <2>2, FetchTreeDoes
  <2>. QED
    BY <1>q, <2>1, <2>3
<1>6. ASSUME NEW r \in Runs, LoadExisting(r)
      PROVE  SyncShape'
  <2>1. SyncTypeOK'
    BY <1>6, <1>t, LoadExistingDoes DEF LoadExisting, SyncTypeOK
  <2>2. removal' = removal
    BY <1>6 DEF LoadExisting, kbvars
  <2>3. Held'
    BY <1>6, <1>t, <1>r, <2>2, LoadExistingDoes
  <2>. QED
    BY <1>q, <2>1, <2>3
<1>7. ASSUME NEW r \in Runs, NEW d \in Docs, SkipFile(r, d)
      PROVE  SyncShape'
  <2>1. SyncTypeOK'
    BY <1>7, <1>t, SkipFileDoes DEF SkipFile, SyncTypeOK
  <2>2. removal' = removal
    BY <1>7 DEF SkipFile, kbvars
  <2>3. Held'
    BY <1>7, <1>t, <1>r, <2>2, SkipFileDoes
  <2>. QED
    BY <1>q, <2>1, <2>3
<1>8. ASSUME NEW r \in Runs, NEW d \in Docs, FetchFile(r, d)
      PROVE  SyncShape'
  <2>1. SyncTypeOK'
    BY <1>8, <1>t, FetchFileDoes DEF FetchFile, SyncTypeOK
  <2>2. removal' = removal
    BY <1>8 DEF FetchFile, kbvars
  <2>3. Held'
    BY <1>8, <1>t, <1>r, <2>2, FetchFileDoes
  <2>. QED
    BY <1>q, <2>1, <2>3
<1>9. ASSUME NEW r \in Runs, StageFile(r)
      PROVE  SyncShape'
  <2>1. SyncTypeOK'
    BY <1>9, <1>t, StageFileDoes DEF StageFile, SyncTypeOK
  <2>2. removal' = removal /\ sync[r].file \in Docs
    BY <1>9, <1>t DEF StageFile, kbvars, OnAFile, AtFile, AtStep
  <2>3. Held'
    BY <1>9, <1>t, <1>r, <2>2, StageFileDoes
  <2>. QED
    BY <1>q, <2>1, <2>3
<1>10. ASSUME NEW r \in Runs, CommitFile(r)
       PROVE  SyncShape'
  <2>1. SyncTypeOK'
    BY <1>10, <1>t, CommitFileDoes DEF CommitFile, SyncTypeOK
  <2>2. removal' = removal
    BY <1>10 DEF CommitFile, SourceChanges
  <2>3. Others(r) /\ sync'[r].step = "files"
    BY <1>10, <1>t, CommitFileDoes
  <2>4. Held'
    BY <1>r, <2>2, <2>3
  <2>. QED
    BY <1>q, <2>1, <2>4
<1>11. ASSUME NEW r \in Runs, NEW d \in Docs, StartRemoval(r, d)
       PROVE  SyncShape'
  <2>1. SyncTypeOK'
    BY <1>11, <1>t, StartRemovalDoes DEF StartRemoval, SyncTypeOK
  <2>2. /\ Others(r) /\ sync'[r].step = "removing" /\ sync'[r].file = d
        /\ ~removal[d].open /\ removal'[d].open
        /\ \A e \in Docs \ {d} : removal'[e] = removal[e]
    BY <1>11, <1>t, StartRemovalDoes DEF StartRemoval, BeginRemoval, KBTypeOK
  <2>3. \A s \in Runs : OnAFile(s)'
    BY <1>t, <2>2 DEF Others, OnAFile, AtFile
  <2>4. \A s \in Runs : AtStep(s, "removing") => sync[s].file \in Docs \ {d}
    BY <1>t, <2>2 DEF RemovalHeld, OnAFile, AtFile, AtStep
  <2>5. \A s \in Runs : RemovalHeld(s)'
    BY <1>t, <2>2, <2>4 DEF Others, RemovalHeld, AtStep
  <2>. QED
    BY <1>q, <2>1, <2>3, <2>5
<1>12. ASSUME NEW r \in Runs, FinishRemoval(r)
       PROVE  SyncShape'
  <2>1. SyncTypeOK'
    BY <1>12, <1>t, FinishRemovalDoes DEF FinishRemoval, SyncTypeOK
  <2>2. PICK d \in Docs :
           /\ d = sync[r].file /\ Others(r) /\ sync'[r].step = "files"
           /\ removal' = [removal EXCEPT ![d] = NoRemoval]
    BY <1>12, <1>t, FinishRemovalDoes
  <2>3. \A e \in Docs \ {d} : removal'[e] = removal[e]
    BY <1>t, <2>2 DEF KBTypeOK
  <2>4. \A s \in Runs \ {r} : AtStep(s, "removing") => sync[s].file \in Docs \ {d}
    BY <1>12, <1>t, <2>2 DEF FinishRemoval, RemovalHeld, OnAFile, AtFile, AtStep
  <2>5. \A s \in Runs : RemovalHeld(s)'
    BY <1>t, <2>2, <2>3, <2>4 DEF Others, RemovalHeld, AtStep
  <2>6. \A s \in Runs : OnAFile(s)'
    BY <1>t, <2>2 DEF Others, OnAFile, AtFile
  <2>. QED
    BY <1>q, <2>1, <2>5, <2>6
<1>13. ASSUME NEW p \in Pods, Crash(p)
       PROVE  SyncShape'
  <2>1. SyncTypeOK'
    BY <1>13, <1>t, CrashDoes DEF Crash, SyncTypeOK
  <2>2. \A s \in Runs : \/ sync'[s] = sync[s]
                        \/ sync'[s].step = "dead"
    BY <1>13, <1>t, CrashDoes
  <2>3. \A s \in Runs : OnAFile(s)'
    BY <1>t, <2>2 DEF OnAFile, AtFile
  <2>4. PICK D : D = {r \in Runs : sync[r].pod = p /\ Alive(r)}
    OBVIOUS
  <2>5. /\ removal' = [d \in Docs |-> IF d \in {sync[r].file : r \in {r \in D : AtStep(r, "removing")}}
                                      THEN NoRemoval ELSE removal[d]]
        /\ sync' = [r \in Runs |-> IF r \in D THEN [sync[r] EXCEPT !.step = "dead"]
                                   ELSE sync[r]]
    BY <1>13, <2>4 DEF Crash, Abort
  <2>6. ASSUME NEW s \in Runs, sync'[s].step = "removing"
        PROVE  sync'[s] = sync[s] /\ removal'[sync[s].file] = removal[sync[s].file]
    <3>1. s \notin D
      BY <1>t, <2>4, <2>5, <2>6 DEF SyncRec
    <3>2. sync'[s] = sync[s] /\ AtStep(s, "removing") /\ sync[s].file \in Docs
      BY <1>t, <2>5, <2>6, <3>1 DEF OnAFile, AtFile, AtStep
    <3>3. \A r \in D : AtStep(r, "removing") => sync[r].file # sync[s].file
      BY <1>t, <2>4, <3>1, <3>2 DEF RemovalHeld
    <3>. QED
      BY <2>5, <3>2, <3>3
  <2>7. \A s \in Runs : RemovalHeld(s)'
    BY <1>t, <2>6 DEF RemovalHeld, AtStep
  <2>. QED
    BY <1>q, <2>1, <2>3, <2>7
<1>14. ASSUME NEW p \in Pods, Start(p)
       PROVE  SyncShape'
  <2>1. Recovered \in [Runs -> Outcome]
    BY <1>t DEF Recovered, SyncTypeOK, Outcome
  <2>2. SyncTypeOK'
    BY <1>14, <1>t, <2>1 DEF Start, SyncTypeOK
  <2>3. sync' = sync /\ removal' = removal
    BY <1>14 DEF Start, kbvars
  <2>. QED
    BY <1>q, <1>s, <2>2, <2>3
<1>15. ASSUME NEW d \in Docs, Push(d) \/ DeleteFile(d)
       PROVE  SyncShape'
  <2>1. SyncTypeOK'
    BY <1>15, <1>t, HeadMoves DEF SyncTypeOK
  <2>2. sync' = sync /\ removal' = removal
    BY <1>15 DEF Push, DeleteFile, kbvars
  <2>. QED
    BY <1>q, <1>s, <2>1, <2>2
<1>16. ASSUME NEW paths \in SUBSET Docs, Configure(paths)
       PROVE  SyncShape'
  <2>1. SyncTypeOK'
    BY <1>16, <1>t DEF Configure, SyncTypeOK
  <2>2. sync' = sync /\ removal' = removal
    BY <1>16 DEF Configure, kbvars
  <2>. QED
    BY <1>q, <1>s, <2>1, <2>2
<1>17. ASSUME NEW w \in Indexers, IndexerStep(w), UNCHANGED syncvars
       PROVE  SyncShape'
  <2>1. SyncTypeOK' /\ sync' = sync
    BY <1>17, <1>t DEF syncvars, SyncTypeOK
  <2>2. removal' = removal
    BY <1>17 DEF IndexerStep, ClaimKb, MarkIndexing, LoadContent, StartDelete, TakeLocks,
                 StoreChunks, IndexFails
  <2>. QED
    BY <1>q, <1>s, <2>1, <2>2
<1>18. CASE UNCHANGED allvars
  <2>1. SyncTypeOK' /\ sync' = sync /\ removal' = removal
    BY <1>18, <1>t DEF allvars, syncvars, kbvars, SyncTypeOK
  <2>. QED
    BY <1>q, <1>s, <2>1
<1>. QED
  BY <1>1, <1>2, <1>3, <1>4, <1>5, <1>6, <1>7, <1>8, <1>9, <1>10, <1>11, <1>12, <1>13,
     <1>14, <1>15, <1>16, <1>17, <1>18
  DEF SyncNext, RunStep

(***************************************************************************)
(* One run at a time                                                       *)
(***************************************************************************)

\* What every step of a run does to its outcome.
LEMMA RunStepDoes ==
    ASSUME SyncShape, NEW r \in Runs, RunStep(r)
    PROVE  /\ Others(r) /\ raced' = raced /\ Alive(r)
           /\ sync'[r].step \in Working \cup {"ended"}
           /\ \A s \in Runs \ {r} : outcome'[s] = outcome[s]
           /\ \/ AtStep(r, "checked") /\ outcome'[r] = "in_progress"
              \/ /\ sync[r].step \in Working
                 /\ sync'[r].step = "ended" \/ outcome'[r] = outcome[r]
<1>t. SyncTypeOK /\ KBTypeOK /\ OnAFile(r) /\ outcome \in [Runs -> Outcome]
  BY DEF SyncShape, SyncTypeOK
<1>1. CASE InsertRun(r)
  BY <1>1, <1>t, InsertRunDoes DEF InsertRun, AtStep, Alive, Working
<1>2. CASE NoFolders(r) \/ FinishRun(r) \/ FailRun(r)
  BY <1>2, <1>t, EndsDo DEF Alive
<1>3. CASE ReadFolders(r)
  BY <1>3, <1>t, ReadFoldersDoes DEF ReadFolders, AtStep, Alive, Working
<1>4. CASE FetchTree(r)
  BY <1>4, <1>t, FetchTreeDoes DEF FetchTree, AtStep, Alive, Working
<1>5. CASE LoadExisting(r)
  BY <1>5, <1>t, LoadExistingDoes DEF LoadExisting, AtStep, Alive, Working
<1>6. ASSUME NEW d \in Docs, SkipFile(r, d) \/ FetchFile(r, d) \/ StartRemoval(r, d)
      PROVE  /\ Others(r) /\ UNCHANGED <<raced, outcome>>
             /\ sync[r].step \in Working /\ sync'[r].step \in Working
  <2>1. CASE SkipFile(r, d)
    BY <1>t, <2>1, SkipFileDoes DEF SkipFile, AtStep, Working
  <2>2. CASE FetchFile(r, d)
    BY <1>t, <2>2, FetchFileDoes DEF FetchFile, AtStep, Working
  <2>3. CASE StartRemoval(r, d)
    BY <1>t, <2>3, StartRemovalDoes DEF StartRemoval, AtStep, Working
  <2>. QED
    BY <1>6, <2>1, <2>2, <2>3
<1>7. CASE StageFile(r)
  BY <1>7, <1>t, StageFileDoes DEF StageFile, AtStep, Alive, Working
<1>8. CASE CommitFile(r)
  <2>1. Others(r) /\ sync'[r].step = "files"
    BY <1>8, <1>t, CommitFileDoes
  <2>. QED
    BY <1>8, <2>1 DEF CommitFile, AtStep, Alive, Working
<1>9. CASE FinishRemoval(r)
  <2>1. Others(r) /\ sync'[r].step = "files"
    BY <1>9, <1>t, FinishRemovalDoes
  <2>. QED
    BY <1>9, <2>1 DEF FinishRemoval, AtStep, Alive, Working
<1>10. CASE \E d \in Docs : SkipFile(r, d) \/ FetchFile(r, d) \/ StartRemoval(r, d)
  BY <1>6, <1>10 DEF Alive
<1>. QED
  BY <1>1, <1>2, <1>3, <1>4, <1>5, <1>7, <1>8, <1>9, <1>10 DEF RunStep

\* Steps that touch neither the runs nor their outcomes.
Elsewhere ==
    \/ \E d \in Docs : Push(d) \/ DeleteFile(d)
    \/ \E paths \in SUBSET Docs : Configure(paths)
    \/ \E w \in Indexers : IndexerStep(w) /\ UNCHANGED syncvars
    \/ UNCHANGED allvars

LEMMA ElsewhereDoes ==
    ASSUME Elsewhere
    PROVE  UNCHANGED <<sync, outcome, raced, sha, source>>
<1>1. ASSUME NEW w \in Indexers, IndexerStep(w)
      PROVE  source' = source
  BY <1>1 DEF IndexerStep, ClaimKb, MarkIndexing, LoadContent, StartDelete, TakeLocks,
              StoreChunks, IndexFails
<1>. QED
  BY <1>1 DEF Elsewhere, Push, DeleteFile, Configure, syncvars, allvars, kbvars

LEMMA SyncCases ==
    ASSUME [SyncNext]_allvars
    PROVE  \/ \E r \in Runs : RunStep(r) \/ \E p \in Pods : CheckRuns(r, p)
           \/ \E p \in Pods : Start(p) \/ Crash(p)
           \/ Elsewhere
BY DEF SyncNext, Elsewhere

LEMMA OneAliveStep ==
    ASSUME SyncShape, OneAlive, Unreported, [SyncNext]_allvars
    PROVE  OneAlive' /\ Unreported'
<1>t. /\ SyncTypeOK /\ raced \in BOOLEAN /\ outcome \in [Runs -> Outcome]
      /\ sync \in [Runs -> SyncRec]
  BY DEF SyncShape, SyncTypeOK
<1>1. ASSUME NEW r \in Runs, RunStep(r)
      PROVE  OneAlive' /\ Unreported'
  <2>1. /\ Others(r) /\ raced' = raced /\ Alive(r)
        /\ sync'[r].step \in Working \cup {"ended"}
        /\ \A s \in Runs \ {r} : outcome'[s] = outcome[s]
        /\ \/ AtStep(r, "checked") /\ outcome'[r] = "in_progress"
           \/ /\ sync[r].step \in Working
              /\ sync'[r].step = "ended" \/ outcome'[r] = outcome[r]
    BY <1>1, RunStepDoes
  <2>2. Unreported'
    BY <2>1 DEF Unreported, Others, Working
  <2>3. ASSUME ~raced, NEW s \in Runs, s # r
        PROVE  ~Alive(s) /\ ~Alive(s)' /\ sync'[s].step \notin Working
    BY <2>1, <2>3 DEF OneAlive, Others, Alive
  <2>4. ASSUME ~raced, sync'[r].step \in Working
        PROVE  outcome'[r] = "in_progress"
    BY <2>1, <2>4 DEF OneAlive, Working
  <2>. QED
    BY <2>1, <2>2, <2>3, <2>4 DEF OneAlive
<1>2. ASSUME NEW r \in Runs, NEW p \in Pods, CheckRuns(r, p)
      PROVE  OneAlive' /\ Unreported'
  <2>1. /\ Others(r) /\ sync'[r].step = "checked" /\ outcome' = outcome
        /\ AtStep(r, "idle") /\ Free
        /\ \/ raced' = raced /\ \A x \in Runs : ~AtStep(x, "checked")
           \/ raced'
    BY <1>2, <1>t, CheckRunsDoes DEF CheckRuns
  <2>2. Unreported'
    BY <2>1 DEF Unreported, Others, AtStep
  <2>3. ASSUME ~raced', NEW s \in Runs
        PROVE  ~Alive(s) /\ (s # r => ~Alive(s)') /\ sync'[s].step \notin Working
    <3>1. ~raced /\ \A x \in Runs : ~AtStep(x, "checked")
      BY <2>1, <2>3
    <3>2. ~Alive(s)
      BY <2>1, <3>1 DEF OneAlive, Free, Alive, AtStep
    <3>. QED
      BY <2>1, <3>2 DEF Others, Alive, Working
  <2>. QED
    BY <2>2, <2>3 DEF OneAlive
<1>3. ASSUME NEW p \in Pods, Start(p)
      PROVE  OneAlive' /\ Unreported'
  <2>1. sync' = sync /\ raced' = (raced \/ \E r \in Runs : Alive(r))
    BY <1>3 DEF Start
  <2>2. \A r \in Runs : outcome[r] = "none" => outcome'[r] = "none"
    BY <1>3, <1>t DEF Start, Recovered
  <2>3. Unreported'
    BY <2>1, <2>2 DEF Unreported
  <2>4. ASSUME ~raced', NEW s \in Runs
        PROVE  ~Alive(s)' /\ sync'[s].step \notin Working
    BY <2>1, <2>4 DEF Alive
  <2>. QED
    BY <2>3, <2>4 DEF OneAlive
<1>4. ASSUME NEW p \in Pods, Crash(p)
      PROVE  OneAlive' /\ Unreported'
  <2>1. /\ \A r \in Runs : sync'[r] = sync[r] \/ sync'[r].step = "dead"
        /\ UNCHANGED <<outcome, raced>>
    BY <1>4, <1>t, CrashDoes
  <2>2. Unreported'
    BY <2>1 DEF Unreported
  <2>3. \A r \in Runs : sync'[r].step = "dead" => ~Alive(r)' /\ sync'[r].step \notin Working
    BY DEF Alive, Working
  <2>4. \A r \in Runs : sync'[r] = sync[r] => Alive(r)' = Alive(r)
    BY DEF Alive
  <2>. QED
    BY <2>1, <2>2, <2>3, <2>4 DEF OneAlive
<1>5. CASE Elsewhere
  BY <1>5, ElsewhereDoes DEF OneAlive, Unreported, Alive
<1>. QED
  BY <1>1, <1>2, <1>3, <1>4, <1>5, SyncCases

(***************************************************************************)
(* What the runs have read                                                 *)
(***************************************************************************)

\* Rows and repository only move on, so what was read stays sound.
LEMMA ReadsKept ==
    ASSUME SyncTypeOK, NEW s \in Runs, RunReads(s),
           \A d \in Docs : head'[d].content >= head[d].content,
           head' \in [Docs -> [content : Content, present : BOOLEAN]],
           \A d \in Docs : source[d].version # 0 => source'[d].version # 0,
           \/ sync'[s] = sync[s]
           \/ Keeps(s) /\ sync'[s].step \in {"begun", "ended", "dead"}
                       /\ (sync'[s].step = "begun" => sync[s].step = "checked")
    PROVE  RunReads(s)'
<1>1. /\ sync'[s].paths = sync[s].paths /\ sync'[s].tree = sync[s].tree
      /\ sync'[s].known = sync[s].known /\ sync'[s].todo = sync[s].todo
      /\ sync'[s].file = sync[s].file /\ sync'[s].content = sync[s].content
  BY DEF Keeps
<1>2. \A d \in Docs : sync[s].tree[d] \in Nat /\ head[d].content \in Nat
                      /\ head'[d].content \in Nat
  BY DEF SyncTypeOK, SyncRec, Content
<1>3. \A d \in Docs : sync'[s].tree[d] <= head'[d].content
                      /\ (sync'[s].known[d] # 0 => source'[d].version # 0)
  BY <1>1, <1>2 DEF RunReads
<1>4. WithRows(s)' => WithRows(s)
  BY DEF WithRows
<1>5. sync'[s].step \in {"fetched", "staged"} => sync[s].step \in {"fetched", "staged"}
  OBVIOUS
<1>6. sync'[s].step \in {"checked", "begun"} => sync[s].step \in {"checked", "begun"}
  OBVIOUS
<1>. QED
  BY <1>1, <1>3, <1>4, <1>5, <1>6 DEF RunReads

LEMMA SyncReadsStep ==
    ASSUME SyncShape, SyncReads, [SyncNext]_allvars
    PROVE  SyncReads'
<1>t. /\ SyncTypeOK /\ KBTypeOK /\ sync \in [Runs -> SyncRec]
      /\ \A r \in Runs : OnAFile(r)
      /\ head \in [Docs -> [content : Content, present : BOOLEAN]]
      /\ source \in [Docs -> Source] /\ sha \in [Docs -> Nat]
      /\ \A r \in Runs : sync[r].tree \in [Docs -> Nat] /\ sync[r].known \in [Docs -> Nat]
                         /\ sync[r].content \in Nat
      /\ \A d \in Docs : head[d].content \in Nat /\ source[d].version \in Nat
  BY DEF SyncShape, SyncTypeOK, KBTypeOK, SyncRec, Content, Source
<1>i. RowsSound /\ \A r \in Runs : RunReads(r)
  BY DEF SyncReads
\* Rows and repository stay; only r moves.
<1>r. ASSUME NEW r \in Runs, Others(r), UNCHANGED <<head, source, sha>>, RunReads(r)'
      PROVE  SyncReads'
  <2>1. \A d \in Docs : head'[d].content >= head[d].content
    BY <1>r, <1>t
  <2>2. \A s \in Runs : RunReads(s)'
    BY <1>r, <1>t, <1>i, <2>1, ReadsKept DEF Others
  <2>3. RowsSound'
    BY <1>r, <1>i DEF RowsSound
  <2>. QED
    BY <2>2, <2>3 DEF SyncReads
<1>1. ASSUME NEW r \in Runs, InsertRun(r) \/ NoFolders(r) \/ FinishRun(r) \/ FailRun(r)
      PROVE  SyncReads'
  <2>1. /\ Others(r) /\ Keeps(r) /\ UNCHANGED <<head, source, sha>>
        /\ sync'[r].step \in {"begun", "ended"}
        /\ sync'[r].step = "begun" => sync[r].step = "checked"
    <3>1. CASE InsertRun(r)
      BY <1>t, <3>1, InsertRunDoes DEF InsertRun, AtStep, kbvars
    <3>2. CASE NoFolders(r) \/ FinishRun(r) \/ FailRun(r)
      BY <1>t, <3>2, EndsDo DEF kbvars
    <3>. QED
      BY <1>1, <3>1, <3>2
  <2>2. RunReads(r)'
    <3>1. \A d \in Docs : head'[d].content >= head[d].content
      BY <1>t, <2>1
    <3>. QED
      BY <1>t, <1>i, <2>1, <3>1, ReadsKept
  <2>. QED
    BY <1>r, <2>1, <2>2
<1>2. ASSUME NEW r \in Runs, NEW p \in Pods, CheckRuns(r, p)
      PROVE  SyncReads'
  <2>1. /\ Others(r) /\ sync'[r].step = "checked" /\ sync'[r].paths = {}
        /\ sync'[r].tree = Nothing /\ sync'[r].known = Nothing
    BY <1>2, <1>t, CheckRunsDoes
  <2>2. UNCHANGED <<head, source, sha>>
    BY <1>2 DEF CheckRuns, kbvars
  <2>3. RunReads(r)'
    BY <1>t, <2>1, <2>2, NewRuns DEF RunReads, WithRows
  <2>. QED
    BY <1>r, <2>1, <2>2, <2>3
<1>3. ASSUME NEW r \in Runs, ReadFolders(r)
      PROVE  SyncReads'
  <2>1. UNCHANGED <<head, source, sha>>
    BY <1>3 DEF ReadFolders, kbvars
  <2>2. Others(r) /\ RunReads(r)'
    BY <1>3, <1>t, <1>i, <2>1, ReadFoldersDoes DEF RunReads, WithRows
  <2>. QED
    BY <1>r, <2>1, <2>2
<1>4. ASSUME NEW r \in Runs, FetchTree(r)
      PROVE  SyncReads'
  <2>1. UNCHANGED <<head, source, sha>>
    BY <1>4 DEF FetchTree, kbvars
  <2>2. Others(r) /\ RunReads(r)'
    BY <1>4, <1>t, <1>i, <2>1, FetchTreeDoes DEF RunReads, WithRows
  <2>. QED
    BY <1>r, <2>1, <2>2
<1>5. ASSUME NEW r \in Runs, LoadExisting(r)
      PROVE  SyncReads'
  <2>1. UNCHANGED <<head, source, sha>>
    BY <1>5 DEF LoadExisting, kbvars
  <2>2. Others(r) /\ RunReads(r)'
    BY <1>5, <1>t, <1>i, <2>1, LoadExistingDoes DEF RunReads, RowsSound
  <2>. QED
    BY <1>r, <2>1, <2>2
<1>6. ASSUME NEW r \in Runs, NEW d \in Docs, SkipFile(r, d)
      PROVE  SyncReads'
  <2>1. UNCHANGED <<head, source, sha>> /\ WithRows(r)
    BY <1>6 DEF SkipFile, kbvars, WithRows, AtStep
  <2>2. Others(r) /\ RunReads(r)'
    BY <1>6, <1>t, <1>i, <2>1, SkipFileDoes DEF RunReads
  <2>. QED
    BY <1>r, <2>1, <2>2
<1>7. ASSUME NEW r \in Runs, NEW d \in Docs, FetchFile(r, d)
      PROVE  SyncReads'
  <2>1. /\ UNCHANGED <<head, source, sha>> /\ WithRows(r)
        /\ d \in sync[r].todo /\ head[d].present
    BY <1>7 DEF FetchFile, kbvars, WithRows, AtStep
  <2>2. head[d].content # 0 /\ head[d].content >= sync[r].tree[d]
    BY <1>t, <1>i, <2>1 DEF RowsSound, RunReads
  <2>3. Others(r) /\ RunReads(r)'
    BY <1>7, <1>t, <1>i, <2>1, <2>2, FetchFileDoes DEF RunReads
  <2>. QED
    BY <1>r, <2>1, <2>3
<1>8. ASSUME NEW r \in Runs, StageFile(r)
      PROVE  SyncReads'
  <2>1. UNCHANGED <<head, source, sha>> /\ AtStep(r, "fetched")
    BY <1>8 DEF StageFile, kbvars
  <2>2. Others(r) /\ RunReads(r)'
    BY <1>8, <1>t, <1>i, <2>1, StageFileDoes DEF RunReads, WithRows, AtStep
  <2>. QED
    BY <1>r, <2>1, <2>2
<1>9. ASSUME NEW r \in Runs, CommitFile(r)
      PROVE  SyncReads'
  <2>1. PICK d \in Docs : d = sync[r].file
    BY <1>9, <1>t, CommitFileDoes
  <2>2. /\ Others(r) /\ sync'[r].step = "files" /\ sync'[r].tree = sync[r].tree
        /\ sync'[r].known = [sync[r].known EXCEPT ![d] = sync[r].content]
        /\ sync'[r].todo = sync[r].todo \ {d}
        /\ sha' = [sha EXCEPT ![d] = Synced(r)]
        /\ source' = [source EXCEPT ![d] =
               [version |-> @.version + 1, active |-> @.version = 0 \/ @.active]]
    BY <1>9, <1>t, <2>1, CommitFileDoes
  <2>3. head' = head /\ AtStep(r, "staged") /\ sync[r].content # 0
    BY <1>9, <1>i DEF CommitFile, RunReads, AtStep
  <2>4. /\ source'[d].version # 0
        /\ source'[d].active <=> source[d].version = 0 \/ source[d].active
        /\ \A e \in Docs \ {d} : source'[e] = source[e] /\ sha'[e] = sha[e]
    <3>1. PICK row : row = [version |-> source[d].version + 1,
                            active |-> source[d].version = 0 \/ source[d].active]
      OBVIOUS
    <3>2. source' = [source EXCEPT ![d] = row]
      BY <2>2, <3>1
    <3>3. source'[d] = row /\ \A e \in Docs \ {d} : source'[e] = source[e]
      BY <1>t, <3>2
    <3>4. row.version # 0
      BY <1>t, <3>1
    <3>5. row.active <=> source[d].version = 0 \/ source[d].active
      BY <3>1
    <3>6. \A e \in Docs \ {d} : sha'[e] = sha[e]
      BY <1>t, <2>2
    <3>. QED
      BY <3>3, <3>4, <3>5, <3>6
  <2>5. \A e \in Docs : source[e].version # 0 => source'[e].version # 0
    BY <2>4
  <2>6. source'[d].active => sha'[d] # 0
    <3>1. sha'[d] = IF sync[r].content # sync[r].known[d] THEN sync[r].content ELSE sha[d]
      BY <1>t, <2>1, <2>2 DEF Synced
    <3>2. sync[r].content = sync[r].known[d] => source[d].version # 0
      BY <1>i, <2>3 DEF RunReads
    <3>. QED
      BY <1>i, <2>3, <2>4, <3>1, <3>2 DEF RowsSound
  <2>7. RowsSound'
    BY <1>i, <2>3, <2>4, <2>6 DEF RowsSound
  <2>8. RunReads(r)'
    <3>1. \A e \in Docs : sync'[r].known[e] # 0 => source'[e].version # 0
      BY <1>t, <1>i, <2>2, <2>4, <2>5 DEF RunReads
    <3>2. \A e \in sync'[r].todo : sync'[r].tree[e] # 0
      BY <1>i, <2>2, <2>3 DEF RunReads, WithRows, AtStep
    <3>. QED
      BY <1>i, <2>2, <2>3, <3>1, <3>2 DEF RunReads
  <2>9. \A s \in Runs \ {r} : RunReads(s)'
    <3>1. \A e \in Docs : head'[e].content >= head[e].content
      BY <1>t, <2>3
    <3>. QED
      BY <1>t, <1>i, <2>2, <2>3, <2>5, <3>1, ReadsKept DEF Others
  <2>. QED
    BY <2>7, <2>8, <2>9 DEF SyncReads
<1>10. ASSUME NEW r \in Runs, NEW d \in Docs, StartRemoval(r, d)
       PROVE  SyncReads'
  <2>1. UNCHANGED <<head, source, sha>> /\ WithRows(r)
    BY <1>10 DEF StartRemoval, BeginRemoval, WithRows, AtStep
  <2>2. Others(r) /\ RunReads(r)'
    BY <1>10, <1>t, <1>i, <2>1, StartRemovalDoes DEF RunReads
  <2>. QED
    BY <1>r, <2>1, <2>2
<1>11. ASSUME NEW r \in Runs, FinishRemoval(r)
       PROVE  SyncReads'
  <2>1. PICK d \in Docs : d = sync[r].file
    BY <1>11, <1>t, FinishRemovalDoes
  <2>2. /\ Others(r) /\ sync'[r].step = "files" /\ sync'[r].tree = sync[r].tree
        /\ sync'[r].known = [sync[r].known EXCEPT ![d] = 0]
        /\ sync'[r].todo = sync[r].todo
        /\ source' = [source EXCEPT ![d].active = FALSE]
    BY <1>11, <1>t, <2>1, FinishRemovalDoes
  <2>3. head' = head /\ sha' = sha /\ AtStep(r, "removing")
    BY <1>11 DEF FinishRemoval
  <2>4. \A e \in Docs : /\ source'[e].version = source[e].version
                        /\ source'[e].active => source[e].active
    BY <1>t, <2>2 DEF Source
  <2>5. RowsSound'
    BY <1>i, <2>3, <2>4 DEF RowsSound
  <2>6. RunReads(r)'
    <3>1. \A e \in Docs : sync'[r].known[e] # 0 => source'[e].version # 0
      BY <1>t, <1>i, <2>2, <2>4 DEF RunReads
    <3>. QED
      BY <1>i, <2>2, <2>3, <3>1 DEF RunReads, WithRows, AtStep
  <2>7. \A s \in Runs \ {r} : RunReads(s)'
    <3>1. \A e \in Docs : head'[e].content >= head[e].content
      BY <1>t, <2>3
    <3>. QED
      BY <1>t, <1>i, <2>2, <2>3, <2>4, <3>1, ReadsKept DEF Others
  <2>. QED
    BY <2>5, <2>6, <2>7 DEF SyncReads
<1>12. ASSUME NEW p \in Pods, Crash(p)
       PROVE  SyncReads'
  <2>1. /\ \A r \in Runs : sync'[r] = sync[r] \/ (sync'[r].step = "dead" /\ Keeps(r))
        /\ UNCHANGED <<head, sha, source>>
    BY <1>12, <1>t, CrashDoes
  <2>2. \A d \in Docs : head'[d].content >= head[d].content
    BY <1>t, <2>1
  <2>3. \A s \in Runs : RunReads(s)'
    BY <1>t, <1>i, <2>1, <2>2, ReadsKept
  <2>. QED
    BY <1>i, <2>1, <2>3 DEF SyncReads, RowsSound
<1>13. ASSUME NEW p \in Pods, Start(p)
       PROVE  SyncReads'
  BY <1>13, <1>i DEF Start, kbvars, SyncReads, RowsSound, RunReads, WithRows
<1>14. CASE Elsewhere
  <2>1. UNCHANGED <<sync, sha, source>>
    BY <1>14, ElsewhereDoes
  <2>2. /\ head' \in [Docs -> [content : Content, present : BOOLEAN]]
        /\ \A e \in Docs : /\ head'[e].content >= head[e].content
                           /\ head'[e].present =>
                                 head[e].present \/ head'[e].content # 0
    <3>1. CASE \E d \in Docs : Push(d) \/ DeleteFile(d)
      BY <1>t, <3>1, HeadMoves
    <3>2. CASE head' = head
      BY <1>t, <3>2
    <3>. QED
      BY <1>14, <3>1, <3>2 DEF Elsewhere, Configure, syncvars, allvars
  <2>3. \A s \in Runs : RunReads(s)'
    BY <1>t, <1>i, <2>1, <2>2, ReadsKept
  <2>4. RowsSound'
    <3>1. \A e \in Docs : head'[e].content \in Nat
      BY <2>2 DEF Content
    <3>. QED
      BY <1>t, <1>i, <2>1, <2>2, <3>1 DEF RowsSound
  <2>. QED
    BY <2>3, <2>4 DEF SyncReads
<1>. QED
  BY <1>1, <1>2, <1>3, <1>4, <1>5, <1>6, <1>7, <1>8, <1>9, <1>10, <1>11, <1>12, <1>13,
     <1>14, SyncCases
  DEF RunStep

(***************************************************************************)
(* What a run that is alone knows                                          *)
(***************************************************************************)
LEMMA MirrorsKept ==
    ASSUME NEW s \in Runs, Mirrors(s), sync'[s] = sync[s], UNCHANGED <<source, sha>>
    PROVE  Mirrors(s)'
BY DEF Mirrors, WithRows, AtStep, Conflicts, RowExists

LEMMA MirrorsNothing ==
    ASSUME NEW s \in Runs, sync'[s].step \notin {"files", "fetched", "staged", "removing"}
    PROVE  Mirrors(s)'
BY DEF Mirrors, WithRows, AtStep

LEMMA MirrorsStep ==
    ASSUME SyncInv, [SyncNext]_allvars, ~raced'
    PROVE  \A s \in Runs : Mirrors(s)'
<1>t. /\ SyncShape /\ SyncTypeOK /\ KBTypeOK /\ sync \in [Runs -> SyncRec]
      /\ \A r \in Runs : OnAFile(r)
      /\ source \in [Docs -> Source] /\ sha \in [Docs -> Nat]
      /\ \A r \in Runs : sync[r].tree \in [Docs -> Nat] /\ sync[r].known \in [Docs -> Nat]
                         /\ sync[r].content \in Nat
      /\ \A d \in Docs : source[d].version \in Nat /\ source[d].active \in BOOLEAN
  BY DEF SyncInv, SyncShape, SyncTypeOK, KBTypeOK, SyncRec, Content, Source
<1>0. ~raced
  <2>1. \A r \in Runs : RunStep(r) => raced' = raced
    BY <1>t, RunStepDoes
  <2>. QED
    BY <1>t, <2>1, ElsewhereDoes, SyncCases DEF CheckRuns, Start, Crash
<1>i. /\ \A r \in Runs : RunReads(r) /\ Mirrors(r)
      /\ RowsSound
      /\ \A r, s \in Runs : Alive(r) /\ Alive(s) => r = s
  BY <1>0 DEF SyncInv, SyncReads, OneAlive
\* Only r moves, and nobody else has rows.
<1>r. ASSUME NEW r \in Runs, Others(r), Alive(r), Mirrors(r)'
      PROVE  \A s \in Runs : Mirrors(s)'
  <2>1. ASSUME NEW s \in Runs, s # r PROVE Mirrors(s)'
    <3>1. sync'[s] = sync[s] /\ ~Alive(s)
      BY <1>r, <1>i, <2>1 DEF Others
    <3>. QED
      BY <3>1, MirrorsNothing DEF Alive, Working
  <2>. QED
    BY <1>r, <2>1
<1>1. ASSUME NEW r \in Runs, RunStep(r),
             sync'[r].step \notin {"files", "fetched", "staged", "removing"}
      PROVE  \A s \in Runs : Mirrors(s)'
  BY <1>1, <1>t, <1>r, RunStepDoes, MirrorsNothing
<1>2. ASSUME NEW r \in Runs, LoadExisting(r)
      PROVE  \A s \in Runs : Mirrors(s)'
  <2>1. UNCHANGED <<source, sha>>
    BY <1>2 DEF LoadExisting, kbvars
  <2>2. Alive(r)
    BY <1>2 DEF LoadExisting, AtStep, Alive, Working
  <2>3. /\ Others(r) /\ sync'[r].step = "files" /\ sync'[r].tree = sync[r].tree
        /\ \A d \in Docs : sync'[r].known[d] = IF source[d].active THEN sha[d] ELSE 0
        /\ sync'[r].todo = {d \in Docs : sync[r].tree[d] # 0}
    BY <1>2, <1>t, LoadExistingDoes
  <2>4. ASSUME NEW d \in Docs
        PROVE  /\ sync'[r].known[d] # 0 <=> source'[d].active
               /\ source'[d].active => sha'[d] = sync'[r].known[d]
               /\ d \notin sync'[r].todo /\ sync'[r].tree[d] # 0 =>
                     sync'[r].known[d] >= sync'[r].tree[d]
    <3>1. source'[d].active => sha[d] # 0
      BY <1>i, <2>1 DEF RowsSound
    <3>. QED
      BY <1>t, <2>1, <2>3, <3>1
  <2>5. Mirrors(r)'
    BY <2>3, <2>4 DEF Mirrors, AtStep
  <2>. QED
    BY <1>r, <2>2, <2>3, <2>5
<1>3. ASSUME NEW r \in Runs, NEW d \in Docs, SkipFile(r, d)
      PROVE  \A s \in Runs : Mirrors(s)'
  <2>1. /\ UNCHANGED <<source, sha>> /\ AtStep(r, "files")
        /\ sync[r].known[d] = sync[r].tree[d]
    BY <1>3 DEF SkipFile, kbvars
  <2>2. Alive(r) /\ Others(r) /\ Mirrors(r)'
    BY <1>3, <1>t, <1>i, <2>1, SkipFileDoes DEF AtStep, Alive, Working, Mirrors, WithRows
  <2>. QED
    BY <1>r, <2>2
<1>4. ASSUME NEW r \in Runs, NEW d \in Docs, FetchFile(r, d)
      PROVE  \A s \in Runs : Mirrors(s)'
  <2>1. UNCHANGED <<source, sha>> /\ AtStep(r, "files")
    BY <1>4 DEF FetchFile, kbvars
  <2>2. Alive(r) /\ Others(r) /\ Mirrors(r)'
    BY <1>4, <1>t, <1>i, <2>1, FetchFileDoes DEF AtStep, Alive, Working, Mirrors, WithRows
  <2>. QED
    BY <1>r, <2>2
<1>5. ASSUME NEW r \in Runs, StageFile(r)
      PROVE  \A s \in Runs : Mirrors(s)'
  <2>1. UNCHANGED <<source, sha>> /\ AtStep(r, "fetched") /\ ~Conflicts(r)
    BY <1>5 DEF StageFile, kbvars
  <2>2. Alive(r) /\ Others(r) /\ Mirrors(r)'
    BY <1>5, <1>t, <1>i, <2>1, StageFileDoes
    DEF AtStep, Alive, Working, Mirrors, WithRows, Conflicts, RowExists
  <2>. QED
    BY <1>r, <2>2
<1>6. ASSUME NEW r \in Runs, CommitFile(r)
      PROVE  \A s \in Runs : Mirrors(s)'
  <2>1. PICK d \in Docs : d = sync[r].file
    BY <1>6, <1>t, CommitFileDoes
  <2>2. /\ Others(r) /\ sync'[r].step = "files" /\ sync'[r].tree = sync[r].tree
        /\ sync'[r].known = [sync[r].known EXCEPT ![d] = sync[r].content]
        /\ sync'[r].todo = sync[r].todo \ {d}
        /\ sha' = [sha EXCEPT ![d] = Synced(r)]
        /\ source' = [source EXCEPT ![d] =
               [version |-> @.version + 1, active |-> @.version = 0 \/ @.active]]
    BY <1>6, <1>t, <2>1, CommitFileDoes
  <2>3. AtStep(r, "staged") /\ Alive(r)
    BY <1>6 DEF CommitFile, AtStep, Alive, Working
  <2>4. /\ sync[r].content # 0 /\ sync[r].content >= sync[r].tree[d]
        /\ sync[r].known[d] = 0 => source[d].version = 0
        /\ \A e \in Docs : /\ sync[r].known[e] # 0 <=> source[e].active
                           /\ source[e].active => sha[e] = sync[r].known[e]
                           /\ e \notin sync[r].todo /\ sync[r].tree[e] # 0 =>
                                 sync[r].known[e] >= sync[r].tree[e]
    BY <1>i, <2>1, <2>3 DEF RunReads, Mirrors, WithRows, AtStep, Conflicts, RowExists
  <2>5. /\ sync'[r].known[d] = sync[r].content
        /\ \A e \in Docs \ {d} : sync'[r].known[e] = sync[r].known[e]
    BY <1>t, <2>2
  <2>6. source'[d].active /\ \A e \in Docs \ {d} : source'[e] = source[e]
    <3>1. PICK row : row = [version |-> source[d].version + 1,
                            active |-> source[d].version = 0 \/ source[d].active]
      OBVIOUS
    <3>2. source' = [source EXCEPT ![d] = row]
      BY <2>2, <3>1
    <3>3. row.active
      BY <2>4, <3>1
    <3>. QED
      BY <1>t, <3>2, <3>3
  <2>7. sha'[d] = sync[r].content /\ \A e \in Docs \ {d} : sha'[e] = sha[e]
    <3>1. sha'[d] = IF sync[r].content # sync[r].known[d] THEN sync[r].content ELSE sha[d]
      BY <1>t, <2>1, <2>2 DEF Synced
    <3>. QED
      BY <1>t, <2>2, <2>4, <3>1
  <2>8. ASSUME NEW e \in Docs
        PROVE  /\ sync'[r].known[e] # 0 <=> source'[e].active
               /\ source'[e].active => sha'[e] = sync'[r].known[e]
               /\ e \notin sync'[r].todo /\ sync'[r].tree[e] # 0 =>
                     sync'[r].known[e] >= sync'[r].tree[e]
    <3>1. CASE e = d
      BY <2>2, <2>4, <2>5, <2>6, <2>7, <3>1
    <3>2. CASE e # d
      BY <2>2, <2>4, <2>5, <2>6, <2>7, <3>2
    <3>. QED
      BY <3>1, <3>2
  <2>9. Mirrors(r)'
    BY <2>2, <2>8 DEF Mirrors, AtStep
  <2>. QED
    BY <1>r, <2>2, <2>3, <2>9
<1>7. ASSUME NEW r \in Runs, NEW d \in Docs, StartRemoval(r, d)
      PROVE  \A s \in Runs : Mirrors(s)'
  <2>1. /\ UNCHANGED <<source, sha>> /\ AtStep(r, "files")
        /\ sync[r].tree[d] = 0
    BY <1>7 DEF StartRemoval, BeginRemoval, Gone
  <2>2. Alive(r) /\ Others(r) /\ Mirrors(r)'
    BY <1>7, <1>t, <1>i, <2>1, StartRemovalDoes DEF AtStep, Alive, Working, Mirrors, WithRows
  <2>. QED
    BY <1>r, <2>2
<1>8. ASSUME NEW r \in Runs, FinishRemoval(r)
      PROVE  \A s \in Runs : Mirrors(s)'
  <2>1. PICK d \in Docs : d = sync[r].file
    BY <1>8, <1>t, FinishRemovalDoes
  <2>2. /\ Others(r) /\ sync'[r].step = "files" /\ sync'[r].tree = sync[r].tree
        /\ sync'[r].known = [sync[r].known EXCEPT ![d] = 0]
        /\ sync'[r].todo = sync[r].todo
        /\ source' = [source EXCEPT ![d].active = FALSE]
    BY <1>8, <1>t, <2>1, FinishRemovalDoes
  <2>3. AtStep(r, "removing") /\ Alive(r) /\ sha' = sha
    BY <1>8 DEF FinishRemoval, AtStep, Alive, Working
  <2>4. /\ sync[r].tree[d] = 0
        /\ \A e \in Docs : /\ sync[r].known[e] # 0 <=> source[e].active
                           /\ source[e].active => sha[e] = sync[r].known[e]
                           /\ e \notin sync[r].todo /\ sync[r].tree[e] # 0 =>
                                 sync[r].known[e] >= sync[r].tree[e]
    BY <1>i, <2>1, <2>3 DEF Mirrors, WithRows, AtStep
  <2>5. /\ sync'[r].known[d] = 0
        /\ \A e \in Docs \ {d} : sync'[r].known[e] = sync[r].known[e]
    BY <1>t, <2>2
  <2>6. ~source'[d].active /\ \A e \in Docs \ {d} : source'[e] = source[e]
    BY <1>t, <2>2 DEF Source
  <2>7. Mirrors(r)'
    BY <2>2, <2>3, <2>4, <2>5, <2>6 DEF Mirrors, AtStep
  <2>. QED
    BY <1>r, <2>2, <2>3, <2>7
<1>9. ASSUME NEW r \in Runs, NEW p \in Pods, CheckRuns(r, p)
      PROVE  \A s \in Runs : Mirrors(s)'
  <2>1. Others(r) /\ sync'[r].step = "checked" /\ UNCHANGED <<source, sha>>
    BY <1>9, <1>t, CheckRunsDoes DEF CheckRuns, kbvars
  <2>. QED
    BY <1>i, <2>1, MirrorsKept, MirrorsNothing DEF Others
<1>10. ASSUME NEW p \in Pods, Crash(p)
       PROVE  \A s \in Runs : Mirrors(s)'
  <2>1. /\ \A r \in Runs : sync'[r] = sync[r] \/ sync'[r].step = "dead"
        /\ UNCHANGED <<sha, source>>
    BY <1>10, <1>t, CrashDoes
  <2>. QED
    BY <1>i, <2>1, MirrorsKept, MirrorsNothing
<1>11. CASE Elsewhere \/ \E p \in Pods : Start(p)
  <2>1. UNCHANGED <<sync, source, sha>>
    BY <1>11, ElsewhereDoes DEF Start, kbvars
  <2>. QED
    BY <1>i, <2>1, MirrorsKept
<1>12. ASSUME NEW r \in Runs,
              \/ InsertRun(r) \/ ReadFolders(r) \/ NoFolders(r) \/ FetchTree(r)
              \/ FinishRun(r) \/ FailRun(r)
       PROVE  \A s \in Runs : Mirrors(s)'
  <2>1. sync'[r].step \in {"begun", "listing", "listed", "ended"}
    BY <1>12, <1>t, InsertRunDoes, ReadFoldersDoes, FetchTreeDoes, EndsDo
  <2>2. RunStep(r)
    BY <1>12 DEF RunStep
  <2>. QED
    BY <1>1, <2>1, <2>2
<1>. QED
  BY <1>2, <1>3, <1>4, <1>5, <1>6, <1>7, <1>8, <1>9, <1>10, <1>11, <1>12, SyncCases
  DEF RunStep

(***************************************************************************)
(* The theorems about the sync                                             *)
(***************************************************************************)
LEMMA SyncInvInit == SyncInit => SyncInv
<1> SUFFICES ASSUME SyncInit PROVE SyncInv
  OBVIOUS
<1>1. SyncShape
  BY SyncShapeInit
<1>2. /\ \A r \in Runs : sync[r] = NewRun /\ outcome[r] = "none"
      /\ \A d \in Docs : ~head[d].present /\ head[d].content = 0
      /\ \A d \in Docs : ~source[d].active
  BY DEF SyncInit, KBInit
<1>3. OneAlive /\ Unreported
  BY <1>2, NewRuns DEF OneAlive, Unreported, Alive, Working
<1>4. SyncReads
  BY <1>2, NewRuns DEF SyncReads, RowsSound, RunReads, WithRows
<1>5. \A r \in Runs : Mirrors(r)
  BY <1>2, NewRuns DEF Mirrors, WithRows, AtStep
<1>. QED
  BY <1>1, <1>3, <1>4, <1>5 DEF SyncInv

LEMMA SyncInvStep == SyncInv /\ [SyncNext]_allvars => SyncInv'
<1> SUFFICES ASSUME SyncInv, [SyncNext]_allvars PROVE SyncInv'
  OBVIOUS
<1>1. SyncShape' /\ OneAlive' /\ Unreported' /\ SyncReads'
  BY SyncShapeStep, OneAliveStep, SyncReadsStep DEF SyncInv
<1>2. ~raced' => \A s \in Runs : Mirrors(s)'
  BY MirrorsStep
<1>. QED
  BY <1>1, <1>2 DEF SyncInv

\* The inductive invariant of the sync: what a run has read, what it knows
\* of the rows, and who is at work (src/utils/sync.py).
THEOREM SyncSound == SyncSpec => []SyncInv
<1>. QED
  BY SyncInvInit, SyncInvStep, PTL DEF SyncSpec, allvars

\* Rows, repository and runs keep their shape.
THEOREM SyncTypeCorrect == SyncSpec => []SyncTypeOK
<1>1. SyncInv => SyncTypeOK
  BY DEF SyncInv, SyncShape
<1>. QED
  BY <1>1, SyncSound, PTL

\* Whatever runs, pods and workers do together, the index sees steps that
\* module KBIndex allows: the sync is one of the owners it speaks of.
THEOREM SyncUsesIndex == SyncSpec => KBSpec
<1>1. SyncInit => KBInit
  BY DEF SyncInit
<1>2. SyncInv /\ [SyncNext]_allvars => [KBNext]_kbvars
  BY IndexSteps DEF SyncInv
<1>. QED
  BY <1>1, <1>2, SyncSound, PTL DEF SyncSpec, KBSpec, allvars

\* So under the sync search serves each file once, in its current content
\* and only while it is there, but for what a worker was disturbed on.
THEOREM SyncedIsServed == SyncSpec => [](OneChunkSet /\ ServedIsCurrent /\ ServedIsActive)
<1>. QED
  BY SyncUsesIndex, StoredOnce, AnswersAreCurrent, AnswersHaveFiles, PTL

\* Two runs are at work together only after one of the two named races.
THEOREM OneRunAtWork == SyncSpec => []OneSyncAtATime
<1>1. SyncInv => OneSyncAtATime
  <2> SUFFICES ASSUME SyncInv, ~raced
               PROVE  Cardinality({r \in Runs : sync[r].step \in Working}) <= 1
    BY DEF OneSyncAtATime
  <2> DEFINE W == {r \in Runs : sync[r].step \in Working}
  <2>1. \A r, s \in W : r = s
    BY DEF SyncInv, OneAlive, Alive
  <2>2. Cardinality(W) <= 1
    <3> HIDE DEF W
    <3>1. CASE W = {}
      <4>1. Cardinality(W) = 0
        BY <3>1, FS_EmptySet
      <4>. QED
        BY <4>1
    <3>2. CASE W # {}
      <4>1. PICK r : r \in W
        BY <3>2
      <4>2. W = {r}
        BY <2>1, <4>1
      <4>3. Cardinality({r}) = 1
        BY FS_Singleton
      <4>4. Cardinality(W) = 1
        BY <4>2, <4>3
      <4>. QED
        BY <4>4
    <3>. QED
      BY <3>1, <3>2
  <2>. QED
    BY <2>2
<1>. QED
  BY <1>1, SyncSound, PTL

\* Which steps report a success, and of whom.
LEMMA SuccessSteps ==
    ASSUME SyncShape, [SyncNext]_allvars, NEW r \in Runs,
           outcome[r] = "in_progress", outcome'[r] = "success"
    PROVE  NoFolders(r) \/ FinishRun(r)
<1>t. SyncTypeOK /\ outcome \in [Runs -> Outcome]
  BY DEF SyncShape, SyncTypeOK
<1>1. ASSUME NEW s \in Runs, RunStep(s)
      PROVE  s = r
  BY <1>1, RunStepDoes
<1>2. ASSUME RunStep(r) PROVE NoFolders(r) \/ FinishRun(r)
  <2>1. ~InsertRun(r)
    BY <1>t DEF InsertRun
  <2>2. ~FailRun(r)
    BY <1>t DEF FailRun, EndRun
  <2>3. ~(ReadFolders(r) \/ FetchTree(r) \/ LoadExisting(r) \/ StageFile(r))
    BY DEF ReadFolders, FetchTree, LoadExisting, StageFile
  <2>4. ~(CommitFile(r) \/ FinishRemoval(r))
    BY DEF CommitFile, FinishRemoval
  <2>5. \A d \in Docs : ~(SkipFile(r, d) \/ FetchFile(r, d) \/ StartRemoval(r, d))
    BY DEF SkipFile, FetchFile, StartRemoval
  <2>. QED
    BY <1>2, <2>1, <2>2, <2>3, <2>4, <2>5 DEF RunStep
<1>3. \A s \in Runs, p \in Pods : ~CheckRuns(s, p)
  BY DEF CheckRuns
<1>4. \A p \in Pods : ~Start(p) /\ ~Crash(p)
  BY <1>t DEF Start, Crash, Recovered
<1>5. ~Elsewhere
  BY ElsewhereDoes
<1>. QED
  BY <1>1, <1>2, <1>3, <1>4, <1>5, SyncCases

\* A success is a success: the index has the tree that was read, file by
\* file, and nothing else.
THEOREM SuccessIsMirror == SyncSpec => SuccessMirrorsRepo
<1>1. SyncInv /\ [SyncNext]_allvars =>
         (~raced => \A r \in Runs :
            /\ sync[r].paths # {}
            /\ outcome[r] = "in_progress" /\ outcome'[r] = "success"
            => \A d \in Docs :
                  /\ source'[d].active <=> sync[r].tree[d] # 0
                  /\ source'[d].active => sha'[d] >= sync[r].tree[d])
  <2> SUFFICES ASSUME SyncInv, [SyncNext]_allvars, ~raced, NEW r \in Runs,
                      sync[r].paths # {}, outcome[r] = "in_progress",
                      outcome'[r] = "success", NEW d \in Docs
               PROVE  /\ source'[d].active <=> sync[r].tree[d] # 0
                      /\ source'[d].active => sha'[d] >= sync[r].tree[d]
    OBVIOUS
  <2>1. RunReads(r) /\ Mirrors(r) /\ SyncShape
    BY DEF SyncInv, SyncReads
  <2>2. ~NoFolders(r)
    BY <2>1 DEF NoFolders, RunReads, AtStep
  <2>3. FinishRun(r)
    BY <2>1, <2>2, SuccessSteps
  <2>4. /\ WithRows(r) /\ sync[r].todo = {} /\ Gone(r) = {}
        /\ UNCHANGED <<source, sha>>
    BY <2>3 DEF FinishRun, WithRows, AtStep, kbvars
  <2>5. sync[r].tree[d] \in Nat /\ sync[r].known[d] \in Nat /\ sha[d] \in Nat
    BY <2>1 DEF SyncShape, SyncTypeOK, SyncRec, Content
  <2>6. sync[r].known[d] # 0 => sync[r].tree[d] # 0
    BY <2>4 DEF Gone
  <2>. QED
    BY <2>1, <2>4, <2>5, <2>6 DEF Mirrors
<1>. QED
  BY <1>1, SyncSound, PTL DEF SyncSpec, SuccessMirrorsRepo, allvars

\* What has been said of a run stays true.
THEOREM OutcomesStay == SyncSpec => OutcomeIsFinal
<1>1. SyncInv /\ [SyncNext]_allvars =>
         (~raced => \A r \in Runs : outcome[r] \in {"success", "failed", "interrupted"} =>
             outcome'[r] = outcome[r])
  <2> SUFFICES ASSUME SyncInv, [SyncNext]_allvars, ~raced, NEW r \in Runs,
                      outcome[r] \in {"success", "failed", "interrupted"}
               PROVE  outcome'[r] = outcome[r]
    OBVIOUS
  <2>1. /\ SyncShape /\ OneAlive /\ Unreported /\ SyncTypeOK
    BY DEF SyncInv, SyncShape
  <2>2. ASSUME NEW s \in Runs, RunStep(s)
        PROVE  outcome'[r] = outcome[r]
    <3>1. s # r
      BY <2>1, <2>2, RunStepDoes DEF OneAlive, Unreported, AtStep
    <3>. QED
      BY <2>1, <2>2, <3>1, RunStepDoes
  <2>3. ASSUME NEW s \in Runs, NEW p \in Pods, CheckRuns(s, p)
        PROVE  outcome'[r] = outcome[r]
    BY <2>3 DEF CheckRuns
  <2>4. ASSUME NEW p \in Pods, Start(p) \/ Crash(p)
        PROVE  outcome'[r] = outcome[r]
    BY <2>4 DEF Start, Crash, Recovered
  <2>5. CASE Elsewhere
    BY <2>5, ElsewhereDoes
  <2>. QED
    BY <2>2, <2>3, <2>4, <2>5, SyncCases
<1>. QED
  BY <1>1, SyncSound, PTL DEF SyncSpec, OutcomeIsFinal, allvars

\* A row without content was never queued, and what is active is in the
\* index or on its way there.
RowsIndexed ==
    /\ ActiveIsInIndex
    /\ \A d \in Docs : source[d].version = 0 => kb[d] = "absent" /\ ~source[d].active

LEMMA RowsIndexedStep ==
    ASSUME KBInv, RowsIndexed, [KBNext]_kbvars
    PROVE  RowsIndexed'
<1>t. /\ kb \in [Docs -> IndexStatus] /\ source \in [Docs -> Source]
      /\ \A d \in Docs : source[d].version \in Nat /\ source[d].active \in BOOLEAN
      /\ KBTypeOK /\ OnADocument
  BY DEF KBInv, KBTypeOK, Source
<1>1. ASSUME NEW w \in Indexers, IndexerStep(w)
      PROVE  RowsIndexed'
  <2>1. /\ source' = source
        /\ \A d \in Docs : \/ kb'[d] = kb[d]
                           \/ /\ kb[d] # "absent"
                              /\ kb'[d] \in {"indexing", "indexed", "failed"}
    <3>1. ASSUME NEW d \in Docs, ClaimKb(w, d)
          PROVE  source' = source /\ kb[d] = "queued" /\ kb' = [kb EXCEPT ![d] = "indexing"]
      BY <3>1 DEF ClaimKb
    <3>2. ASSUME MarkIndexing(w) \/ LoadContent(w) \/ StartDelete(w) \/ TakeLocks(w)
                 \/ StoreChunks(w) \/ IndexFails(w)
          PROVE  /\ source' = source
                 /\ \/ kb' = kb
                    \/ \E st \in {"indexing", "indexed", "failed"} :
                          kb' = SetStatus(indexer[w].doc, st)
      BY <3>2 DEF MarkIndexing, LoadContent, StartDelete, TakeLocks, StoreChunks, IndexFails,
                  Failed
    <3>. QED
      BY <1>1, <1>t, <3>1, <3>2 DEF IndexerStep, SetStatus
  <2>. QED
    BY <2>1 DEF RowsIndexed, ActiveIsInIndex
<1>2. ASSUME NEW d \in Docs, NEW loaded, SourceChanges(d, loaded)
      PROVE  RowsIndexed'
  <2>1. PICK row : row = [version |-> source[d].version + 1,
                          active |-> source[d].version = 0 \/ source[d].active]
    OBVIOUS
  <2>2. source' = [source EXCEPT ![d] = row] /\ kb' = [kb EXCEPT ![d] = Requeued(loaded, @)]
        /\ (loaded = "queued" => kb[d] # "absent")
    BY <1>2, <2>1 DEF SourceChanges
  <2>3. row.version # 0 /\ (row.active <=> source[d].version = 0 \/ source[d].active)
    <3>1. row.version = source[d].version + 1 /\ source[d].version \in Nat
      BY <1>t, <2>1
    <3>2. row.active <=> source[d].version = 0 \/ source[d].active
      BY <2>1
    <3>. QED
      BY <3>1, <3>2
  <2>4. /\ source'[d] = row /\ kb'[d] = Requeued(loaded, kb[d])
        /\ \A e \in Docs \ {d} : source'[e] = source[e] /\ kb'[e] = kb[e]
    BY <1>t, <2>2
  <2>. QED
    BY <2>2, <2>3, <2>4 DEF RowsIndexed, ActiveIsInIndex, Requeued
<1>3. ASSUME NEW d \in Docs, EndRemoval(d)
      PROVE  RowsIndexed'
  <2>1. /\ ~source'[d].active /\ source'[d].version = source[d].version
        /\ kb'[d] = IF kb[d] = "absent" THEN "absent" ELSE "removed"
        /\ \A e \in Docs \ {d} : source'[e] = source[e] /\ kb'[e] = kb[e]
    BY <1>3, <1>t DEF EndRemoval, Removed, Deactivated, SetStatus, Source
  <2>. QED
    BY <2>1 DEF RowsIndexed, ActiveIsInIndex
<1>4. ASSUME NEW d \in Docs, ApproveUpload(d) \/ DropUpload(d)
      PROVE  RowsIndexed'
  BY <1>4, SyncAssumption DEF ApproveUpload, DropUpload
<1>5. ASSUME NEW d \in Docs, BeginRemoval(d)
      PROVE  RowsIndexed'
  BY <1>5 DEF BeginRemoval, RowsIndexed, ActiveIsInIndex
<1>6. CASE Reindex
  BY <1>6 DEF Reindex, ReindexSelect, ReindexCommit, RowsIndexed, ActiveIsInIndex
<1>7. ASSUME NEW S, NEW R, NEW T, Abort(S, R, T)
      PROVE  RowsIndexed'
  BY <1>7 DEF Abort, RowsIndexed, ActiveIsInIndex
<1>8. CASE UNCHANGED kbvars
  BY <1>8 DEF kbvars, RowsIndexed, ActiveIsInIndex
<1>. QED
  BY <1>1, <1>2, <1>3, <1>4, <1>5, <1>6, <1>7, <1>8 DEF KBNext, SourceStep

\* An active row keeps its entry in the index, under every race and every
\* failure: neither a claim, a removal nor a late commit of another run
\* leaves the row active and the entry gone (src/utils/sync.py, indexer.py).
\* Files of the repository without an active row are not spoken of.
THEOREM ActiveStaysInIndex == SyncSpec => []ActiveIsInIndex
<1>1. KBInit => RowsIndexed
  BY DEF KBInit, RowsIndexed, ActiveIsInIndex
<1>2. RowsIndexed => ActiveIsInIndex
  BY DEF RowsIndexed
<1>. QED
  BY <1>1, <1>2, RowsIndexedStep, SyncUsesIndex, IndexSound, PTL DEF KBSpec
=============================================================================
