----------------------------- MODULE GitHubSync -----------------------------
(***************************************************************************)
(* Synchronising the configured folders of the connected repository into   *)
(* synced_documents and the knowledge base index: the guard against two    *)
(* runs, the run with its one commit per file, the recovery of interrupted *)
(* runs at start-up, and the repository and folder configuration changing  *)
(* meanwhile.  (utils/sync.py, src/api/sync.py)                            *)
(*                                                                         *)
(* The index is module KBIndex, whose documents are here the paths of the  *)
(* repository: UNIQUE (connection_id, repo_path) allows one row for each,  *)
(* so source[d] is the synced_documents row of d.  Each step of a run that *)
(* touches the index is the KBIndex action of the function it calls.       *)
(***************************************************************************)
EXTENDS KBIndex

CONSTANTS
    Runs,        \* sync runs, over all pods
    Pods,
    NoPod,       \* the pod of a run nobody has triggered
    SyncEvents,  \* what this environment does besides pushing
    MaxPush      \* bound: contents each file of the repository has over time

SyncEventKinds == {"delete",       \* files are deleted
                   "restore",      \* deleted files come back
                   "configure",    \* an administrator changes the folders
                   "unconfigure",  \* ... and removes the last one
                   "double",       \* two triggers at the same time
                   "unreachable",  \* GitHub or the image bucket is down
                   "refused"}      \* GitHub answers 401 or 403

ASSUME SyncAssumption ==
    /\ Uploads = {}
    /\ NoPod \notin Pods
    /\ SyncEvents \subseteq SyncEventKinds
    /\ MaxPush \in [Docs -> Nat]

VARIABLES
    head,     \* the repository: the content of each path, present or not
    folders,  \* the paths inside the configured folders
    sha,      \* content_sha of each synced_documents row
    outcome,  \* sync_runs.outcome, "none" before the row exists
    sync,     \* what each run has read and where it is
    up,       \* the pods that are running
    raced     \* history: two triggers passed the guard together, or a pod
              \* started while a run of another was in progress

syncvars == <<head, folders, sha, outcome, sync, up, raced>>

\* Contents are numbered in the order they are pushed, 0 for no content.
Content == Nat

Outcome == {"none", "in_progress", "success", "failed", "interrupted"}

\* begun    sync_runs row committed       removing  waits for chunk locks
\* listing  folders read                  ended     outcome written
\* listed   tree read                     dead      its pod died
\* files    synced_documents loaded
\* fetched  a file downloaded
\* staged   its row flushed, not committed
SyncSteps == {"idle", "checked", "begun", "listing", "listed", "files", "fetched",
              "staged", "removing", "ended", "dead"}
SyncRec == [step : SyncSteps, pod : Pods \cup {NoPod},
            paths : SUBSET Docs,          \* the folders it reads
            tree : [Docs -> Content],     \* the relevant items of the tree
            known : [Docs -> Content],    \* content_sha of the active rows it loaded
            todo : SUBSET Docs,           \* items of the tree not handled yet
            file : Docs \cup {NoDoc}, content : Content,
            loaded : IndexStatus]         \* the index status it saw of `file`

Nothing == [d \in Docs |-> 0]
NewRun == [step |-> "idle", pod |-> NoPod, paths |-> {}, tree |-> Nothing,
           known |-> Nothing, todo |-> {}, file |-> NoDoc, content |-> 0,
           loaded |-> "absent"]

Working == {"begun", "listing", "listed", "files", "fetched", "staged", "removing"}
AtStep(r, step) == sync[r].step = step
Alive(r) == sync[r].step \in Working \cup {"checked"}

\* A row of synced_documents that another run has flushed is locked.
Staged(d) == \E r \in Runs : AtStep(r, "staged") /\ sync[r].file = d
RowExists(d) == source[d].version # 0

(***************************************************************************)
(* Starting and ending a run                                               *)
(***************************************************************************)

\* Mutant: the guard is forgotten.
Free_Always == TRUE

\* No run of the connection is in progress.
Free == \A r \in Runs : outcome[r] # "in_progress"

\* The guard of run_sync.  Trigger and scheduler check the same earlier.
CheckRuns(r, p) ==
    /\ p \in up
    /\ AtStep(r, "idle")
    /\ Free
    /\ IF \A x \in Runs : ~AtStep(x, "checked") THEN raced' = raced
       ELSE "double" \in SyncEvents /\ raced' = TRUE
    /\ sync' = [sync EXCEPT ![r] = [NewRun EXCEPT !.step = "checked", !.pod = p]]
    /\ UNCHANGED <<head, folders, sha, outcome, up, kbvars>>

\* No unique index stands behind the guard.
InsertRun(r) ==
    /\ AtStep(r, "checked")
    /\ outcome' = [outcome EXCEPT ![r] = "in_progress"]
    /\ sync' = [sync EXCEPT ![r].step = "begun"]
    /\ UNCHANGED <<head, folders, sha, up, raced, kbvars>>

\* _finish_run does not look at the outcome it overwrites.
EndRun(r, result) ==
    /\ outcome' = [outcome EXCEPT ![r] = result]
    /\ sync' = [sync EXCEPT ![r].step = "ended"]

\* Mutant: an outcome the enumeration does not have.
Recovered_Unlisted ==
    [r \in Runs |-> IF outcome[r] = "in_progress" THEN "aborted" ELSE outcome[r]]

\* Mutant: whatever the outcome was.
Recovered_All == [r \in Runs |-> IF outcome[r] = "none" THEN "none" ELSE "interrupted"]

\* Mutant: interrupted runs are left alone.
Recovered_None == outcome

Recovered ==
    [r \in Runs |-> IF outcome[r] = "in_progress" THEN "interrupted" ELSE outcome[r]]

\* A pod starts: recover_interrupted_syncs does not ask whose the runs are.
Start(p) ==
    /\ p \notin up
    /\ up' = up \cup {p}
    /\ outcome' = Recovered
    /\ raced' = (raced \/ \E r \in Runs : Alive(r))
    /\ UNCHANGED <<head, folders, sha, sync, kbvars>>

\* A pod dies, and with it its runs, their open transactions and its
\* indexing workers.
Crash(p) ==
    LET dying == {r \in Runs : sync[r].pod = p /\ Alive(r)}
    IN /\ p \in up
       /\ \E S \in SUBSET {w \in Indexers : indexer[w].step # "idle"} :
             Abort(S, {sync[r].file : r \in {r \in dying : AtStep(r, "removing")}}, {})
       /\ up' = up \ {p}
       /\ sync' = [r \in Runs |-> IF r \in dying THEN [sync[r] EXCEPT !.step = "dead"]
                                  ELSE sync[r]]
       /\ UNCHANGED <<head, folders, sha, outcome, raced>>

(***************************************************************************)
(* Reading the folders, the tree and the rows                              *)
(***************************************************************************)
ReadFolders(r) ==
    /\ AtStep(r, "begun")
    /\ folders # {}
    /\ sync' = [sync EXCEPT ![r].step = "listing", ![r].paths = folders]
    /\ UNCHANGED <<head, folders, sha, outcome, up, raced, kbvars>>

\* Without folders the run succeeds at once.
NoFolders(r) ==
    /\ AtStep(r, "begun")
    /\ folders = {}
    /\ EndRun(r, "success")
    /\ UNCHANGED <<head, folders, sha, up, raced, kbvars>>

TreeOf(r) == [d \in Docs |-> IF d \in sync[r].paths /\ head[d].present
                             THEN head[d].content ELSE 0]

\* get_repo_tree knows 404 and 5xx; any other error response has no "tree"
\* and reads as a repository without files.
FetchTree(r) ==
    /\ AtStep(r, "listing")
    /\ \E tree \in {TreeOf(r)} \cup (IF "refused" \in SyncEvents THEN {Nothing} ELSE {}) :
          sync' = [sync EXCEPT ![r].step = "listed", ![r].tree = tree]
    /\ UNCHANGED <<head, folders, sha, outcome, up, raced, kbvars>>

LoadExisting(r) ==
    /\ AtStep(r, "listed")
    /\ sync' = [sync EXCEPT
          ![r].step = "files",
          ![r].known = [d \in Docs |-> IF source[d].active THEN sha[d] ELSE 0],
          ![r].todo = {d \in Docs : sync[r].tree[d] # 0}]
    /\ UNCHANGED <<head, folders, sha, outcome, up, raced, kbvars>>

(***************************************************************************)
(* New and changed files                                                   *)
(***************************************************************************)
SkipFile(r, d) ==
    /\ AtStep(r, "files")
    /\ d \in sync[r].todo
    /\ sync[r].known[d] = sync[r].tree[d]
    /\ sync' = [sync EXCEPT ![r].todo = @ \ {d}]
    /\ UNCHANGED <<head, folders, sha, outcome, up, raced, kbvars>>

\* The branch may have moved since its tree was read.
FetchFile(r, d) ==
    /\ AtStep(r, "files")
    /\ d \in sync[r].todo
    /\ sync[r].known[d] # sync[r].tree[d]
    /\ head[d].present
    /\ sync' = [sync EXCEPT ![r].step = "fetched", ![r].file = d,
                            ![r].content = head[d].content]
    /\ UNCHANGED <<head, folders, sha, outcome, up, raced, kbvars>>

\* Only rows that are still active were loaded.
Conflicts(r) == sync[r].known[sync[r].file] = 0 /\ RowExists(sync[r].file)

StageFile(r) ==
    LET d == sync[r].file
    IN /\ AtStep(r, "fetched")
       /\ ~Conflicts(r)
       /\ ~Staged(d) /\ ~removal[d].open
       /\ sync' = [sync EXCEPT ![r].step = "staged", ![r].loaded = kb[d]]
       /\ UNCHANGED <<head, folders, sha, outcome, up, raced, kbvars>>

\* content_sha is the downloaded blob's, written if it differs from the one
\* loaded.
Synced(r) ==
    LET d == sync[r].file
    IN IF sync[r].content # sync[r].known[d] THEN sync[r].content ELSE sha[d]

CommitFile(r) ==
    LET d == sync[r].file
    IN /\ AtStep(r, "staged")
       /\ SourceChanges(d, sync[r].loaded)
       /\ sha' = [sha EXCEPT ![d] = Synced(r)]
       /\ sync' = [sync EXCEPT ![r].step = "files", ![r].todo = @ \ {d},
                               ![r].known[d] = sync[r].content]
       /\ UNCHANGED <<head, folders, outcome, up, raced>>

(***************************************************************************)
(* Removed files, and the end                                              *)
(***************************************************************************)

\* Mutant: no file is ever gone.
Gone_None(r) == {}

Gone(r) == {d \in Docs : sync[r].known[d] # 0 /\ sync[r].tree[d] = 0}

StartRemoval(r, d) ==
    /\ AtStep(r, "files")
    /\ sync[r].todo = {}
    /\ d \in Gone(r)
    /\ ~Staged(d)
    /\ BeginRemoval(d)
    /\ sync' = [sync EXCEPT ![r].step = "removing", ![r].file = d]
    /\ UNCHANGED <<head, folders, sha, outcome, up, raced>>

\* remove_document commits, is_active with it.
FinishRemoval(r) ==
    LET d == sync[r].file
    IN /\ AtStep(r, "removing")
       /\ EndRemoval(d)
       /\ sync' = [sync EXCEPT ![r].step = "files", ![r].known[d] = 0]
       /\ UNCHANGED <<head, folders, sha, outcome, up, raced>>

FinishRun(r) ==
    /\ AtStep(r, "files")
    /\ sync[r].todo = {} /\ Gone(r) = {}
    /\ EndRun(r, "success")
    /\ UNCHANGED <<head, folders, sha, up, raced, kbvars>>

\* GitHub fails, a file is gone since the tree was read, the bucket of the
\* images fails, or the INSERT meets the row of a file removed earlier.
FailRun(r) ==
    /\ \/ AtStep(r, "fetched") /\ Conflicts(r)
             /\ ~Staged(sync[r].file) /\ ~removal[sync[r].file].open
       \/ AtStep(r, "files") /\ \E d \in sync[r].todo :
             sync[r].known[d] # sync[r].tree[d] /\ ~head[d].present
       \/ sync[r].step \in {"begun", "listing", "files"} /\ "unreachable" \in SyncEvents
    /\ EndRun(r, "failed")
    /\ UNCHANGED <<head, folders, sha, up, raced, kbvars>>

(***************************************************************************)
(* The repository and the configuration                                    *)
(***************************************************************************)
Push(d) ==
    /\ head[d].content < MaxPush[d]
    /\ head[d].present \/ head[d].content = 0 \/ "restore" \in SyncEvents
    /\ head' = [head EXCEPT ![d] = [content |-> @.content + 1, present |-> TRUE]]
    /\ UNCHANGED <<folders, sha, outcome, sync, up, raced, kbvars>>

DeleteFile(d) ==
    /\ "delete" \in SyncEvents
    /\ head[d].present
    /\ head' = [head EXCEPT ![d].present = FALSE]
    /\ UNCHANGED <<folders, sha, outcome, sync, up, raced, kbvars>>

Configure(paths) ==
    /\ "configure" \in SyncEvents
    /\ paths # {} \/ "unconfigure" \in SyncEvents
    /\ folders' = paths
    /\ UNCHANGED <<head, sha, outcome, sync, up, raced, kbvars>>

(***************************************************************************)
(* Specification                                                           *)
(***************************************************************************)
SyncInit ==
    /\ KBInit
    /\ head = [d \in Docs |-> [content |-> 0, present |-> FALSE]]
    /\ folders = Docs
    /\ sha = Nothing
    /\ outcome = [r \in Runs |-> "none"]
    /\ sync = [r \in Runs |-> NewRun]
    /\ up = Pods
    /\ raced = FALSE

RunStep(r) ==
    \/ InsertRun(r) \/ ReadFolders(r) \/ NoFolders(r) \/ FetchTree(r) \/ LoadExisting(r)
    \/ \E d \in Docs : SkipFile(r, d) \/ FetchFile(r, d) \/ StartRemoval(r, d)
    \/ StageFile(r) \/ CommitFile(r) \/ FinishRemoval(r) \/ FinishRun(r) \/ FailRun(r)

SyncNext ==
    \/ \E r \in Runs : RunStep(r) \/ \E p \in Pods : CheckRuns(r, p)
    \/ \E p \in Pods : Start(p) \/ Crash(p)
    \/ \E d \in Docs : Push(d) \/ DeleteFile(d)
    \/ \E paths \in SUBSET Docs : Configure(paths)
    \/ \E w \in Indexers : IndexerStep(w) /\ UNCHANGED syncvars

SyncSpec == SyncInit /\ [][SyncNext]_<<kbvars, syncvars>>

\* Every coroutine runs on, and a pod that died is restarted.
SyncFairness ==
    /\ \A r \in Runs : WF_<<kbvars, syncvars>>(RunStep(r))
    /\ \A p \in Pods : WF_<<kbvars, syncvars>>(Start(p))
    /\ \A w \in Indexers : WF_<<kbvars, syncvars>>(IndexerStep(w) /\ UNCHANGED syncvars)

FairSyncSpec == SyncSpec /\ SyncFairness

(***************************************************************************)
(* Properties                                                              *)
(***************************************************************************)

\* Rows, repository and runs keep their shape.
SyncTypeOK ==
    /\ head \in [Docs -> [content : Content, present : BOOLEAN]]
    /\ folders \subseteq Docs
    /\ sha \in [Docs -> Content]
    /\ outcome \in [Runs -> Outcome]
    /\ sync \in [Runs -> SyncRec]
    /\ up \subseteq Pods
    /\ raced \in BOOLEAN

\* Syncs overlap only if two triggers pass the guard together or a pod
\* starts while a run of another is in progress.
OneSyncAtATime ==
    ~raced => Cardinality({r \in Runs : sync[r].step \in Working}) <= 1

\* A run of some folders reports success only when the rows are the tree it
\* was answered, whatever earlier runs left half done: every file of it in
\* that content or a newer one, and no other file. (What GitHub refuses to
\* answer reads as a tree without files, and is mirrored like any other.)
SuccessMirrorsRepo ==
    [][~raced => \A r \in Runs :
          /\ sync[r].paths # {}
          /\ outcome[r] = "in_progress" /\ outcome'[r] = "success"
          => \A d \in Docs :
                /\ source'[d].active <=> sync[r].tree[d] # 0
                /\ source'[d].active => sha'[d] >= sync[r].tree[d]]_<<kbvars, syncvars>>

\* What has been said of a run stays true: neither the recovery nor a run
\* that outlives it overwrites an outcome.
OutcomeIsFinal ==
    [][~raced => \A r \in Runs : outcome[r] \in {"success", "failed", "interrupted"} =>
          outcome'[r] = outcome[r]]_<<kbvars, syncvars>>

\* A row that the sync holds active has its entry in the index (queued,
\* indexing, indexed or failed), whatever run, removal, worker or crash
\* touched either of the two last. It says nothing of a file without an
\* active row: one that was deleted and restored, which conflicts with its
\* old row, or any file after GitHub refused to list the tree.
ActiveIsInIndex ==
    \A d \in Docs : source[d].active => kb[d] \notin {"absent", "removed"}

\* No run is in progress for ever, so the guard opens again.
EveryRunEnds ==
    \A r \in Runs : outcome[r] = "in_progress" ~> outcome[r] # "in_progress"
=============================================================================
