# A TLA+ model of the marketing platform's back end

The repository is a content platform: marketers upload documents, administrators
approve them, workers turn them into Markdown with a language model, approved
output and the files of a connected GitHub repository are indexed for retrieval,
and a chat and a generator answer from that index. Its back end is FastAPI over
PostgreSQL. It has no broker and no scheduler: tables are the queues, asyncio
tasks in every pod are the workers, and the deployment runs two pods
(`infra/k8s/base/backend-deployment.yaml:9`). What can go wrong lies between
database transactions, and that is what these modules model.

All paths below are relative to `src/`; `src/src/...` is the Python package.

## 1. The system

### Components, their state and operations

| Component | State | Operations |
|---|---|---|
| Ingestion queue and review (`utils/queue.py`, `src/api/ingestion.py`) | `ingestion_batches` (counters, status), `ingestion_documents` (status, start time, failure reason, destination folder), `processed_documents`, uploaded files in object storage | submit a batch, claim, process, commit or fail, watchdog, startup recovery, retry, approve, reject, review, flag; merge and close pull requests |
| Knowledge base indexing (`utils/indexer.py`, `utils/queue.py`, `src/api/knowledge_base.py`) | `knowledge_base_documents.index_status`, `content_chunks` | claim, index (delete, embed, insert), fail, remove, re-index |
| GitHub content sync (`utils/sync.py`, `src/api/sync.py`) | `sync_runs`, `synced_documents`, the brand images | trigger or schedule, run, one commit per file, remove, finish, recover |
| Accounts, invitations, login (`src/api/auth.py`, `src/api/users.py`, `utils/auth.py`) | `users` (role, status, failed logins, lock), `invitations`, `sessions` | register, invite, resend, accept, change role, revoke, reactivate, login, refresh, logout |
| GitHub bridge (`src/api/github.py`, `utils/github_api.py`) | `github_connections`, `repo_structure_configs`, `scaffolding_runs`, the folders of the repository | connect, rotate the token, disconnect, scaffold, replace, add and remove folders |
| Content generation (`src/api/generate.py`, `utils/generator.py`) | `generation_requests`, their PDFs in object storage | create, retrieve, call the model, render and upload a PDF, save, delete |
| Chat (`src/api/chat.py`, `utils/rag.py`) | `chat_sessions`, `chat_messages` | open, ask, stream, delete |
| Brand images (`src/api/images.py`, `_sync_images`) | `brand_images` and their objects | upload, delete, mirror |
| Text functions (`utils/chunker.py`, `utils/ingestion_pipeline.py`, `utils/extractors.py`) | none | split, structure with retries |
| External services (`utils/gcs.py`, `utils/embeddings.py`, `utils/email.py`, `utils/github_api.py`) | none of their own | upload, embed, mail, read and write a repository |
| Front end (`frontend/`) | an access token in a cookie | a client of the API |

### How they interact

* **Through tables.** A handler leaves a row in `queued`; a worker of any pod
  takes it with `SELECT ... FOR UPDATE SKIP LOCKED` and commits the claim before
  it works. A review that approves output inserts a `queued` row of the knowledge
  base; the sync queues one for each file it writes. A folder added in the GitHub
  bridge is read by the next sync run.
* **Through object graphs.** A handler loads rows, assigns attributes and commits.
  SQLAlchemy writes the attributes whose value differs from the one it *loaded*,
  by primary key. PostgreSQL runs at READ COMMITTED. There is no version column
  and, except in the claims, no `FOR UPDATE`: the last writer of an attribute wins.
* **Through time.** Every pod has a watchdog (once a minute), a scheduled sync and,
  at its start, recoveries that look at the whole table and not at the rows of the
  pod that died.
* **Through object storage.** Uploads, brand images and PDFs are objects beside their
  rows, written in a step of their own. A generated PDF shows brand images that
  administrators and the sync's mirror change meanwhile.
* **By a cascade.** Deleting a `processed_documents` row deletes its knowledge base
  row and its chunks.

### What is hard

Two workers, or a worker and a request, between load and commit; a recovery or the
watchdog judging work that is still going on; a transaction committed before the
deletion of a file; a process that dies between two commits; a late answer to a
question that was settled; the sequence delete, sync, restore, sync; a request that
validates a token against GitHub for seconds and commits against another state of the
table; a stream whose client leaves. `PROJECT.json`
lists them, each at the line where it bites, with the properties that watch it.

### What makes each component correct

* Ingestion: nothing a marketer uploads is processed unapproved; nobody processes
  an entry twice; a completed document has output; an approval publishes the output it
  loaded and no other; a file is kept as long as it is needed; every write is a documented
  transition; counters and batch status tell the truth; what is queued ends.
* Indexing: what is reported as indexed can be found, once, in its current content;
  removed files are not served; what is queued settles.
* Sync: one run at a time; success means that the rows are the tree GitHub answered; an
  outcome once reported stays; an active row keeps its entry in the index; no run blocks the
  guard for ever.
* Accounts: there is always an administrator; a deactivated account has no session;
  an invitation makes one account.
* Login: exactly the fifth wrong password in a row locks, a lock passes, an ended session
  stays ended.
* GitHub bridge: at most one repository is connected, its token may push to it, and the way
  to another repository leads through a disconnect; the folders are what was asked for.
* Generation and brand images: rows and objects correspond; a PDF shows what was selected
  and could be downloaded; whatever is pending is being worked on; the mirror shows what its
  run read.
* Chat: answers follow their questions; the model is shown the conversation; the client is
  told the truth, and is told it at all unless the database fails; a deleted session takes no
  new questions.
* Text functions: no paragraph is lost, the budget holds as far as it is meant to.

## 2. The modules

| Module | Models | Lines of code it stands for |
|---|---|---|
| `OrmFlush` | what a commit of an SQLAlchemy session writes (external, one operator) | used wherever a loaded row is written back |
| `Ingestion` | the ingestion queue, its workers, watchdog, recovery and handlers | `queue.py` 38-361, `ingestion.py` 167-544, 674-708, 1005-1031 |
| `DocumentLifecycle` | the abstract specification: the document statuses and transitions of the data model, taken from the status that the writer saw | `specs/3-.../data-model.md`, `specs/006-.../data-model.md` |
| `KBIndex` | the indexing workers and the owners of what they index | `indexer.py` 18-178, `queue.py` 368-432, `knowledge_base.py` 49-81 |
| `GitHubSync` | sync runs, composed with `KBIndex` (EXTENDS: each step of a run that touches the index is the `KBIndex` action of the function it calls) | `sync.py` 73-247, 353-469, `github_api.py` 261-326 |
| `UserAdmin` | accounts, invitations and login sessions | `auth.py` 94-402, `users.py` 46-434 |
| `LoginSessions` | one account's failed logins, lock and sessions while time passes | `auth.py` 160-402, `users.py` 340-440, `utils/auth.py` |
| `RepositoryLink` | the abstract specification of the repository connection | `specs/2-github-bridge/spec.md` FR-1.2, Scenario 5 |
| `GitHubBridge` | connecting, rotating, disconnecting, scaffolding, folders | `github.py` 60-600, `github_api.py` 30-250 |
| `BrandImages` | uploads and deletions of images, and the sync's mirror of the repository's images | `images.py` 60-184, `sync.py` 250-350, `gcs.py` |
| `Generation` | generation requests and their PDFs, composed with `BrandImages` (EXTENDS: its actions interleave) | `generate.py` 100-358, `generator.py`, `pdf_renderer.py` |
| `Chat` | chat sessions, messages and the event stream | `chat.py` 38-304, `rag.py` |
| `TextPipeline` | the chunker, the splitting of long texts and the retry loop, as pure functions | `chunker.py`, `ingestion_pipeline.py` 74-97, 191-241 |
| `..._proofs` | theorems about the module they are named after, checked by TLAPS (`Generation_proofs`: about `BrandImages` too; `KnowledgeBase_proofs`: about `KBIndex` and `GitHubSync`) | |
| `MC...` | constants for TLC (`LoginSessions` needs none) | |


### Ingestion

`docs`, `batches` and `content` are the three tables, reduced to the columns that
control something; `source` is the set of documents whose uploaded file exists.
`content[d].id` tells successive `processed_documents` rows of one document apart,
because the PATCH of a review must not publish a row that was inserted after the one it
loaded, and `in_kb` is the knowledge base row that cascades from it. What the client was
shown by an earlier GET is in no request, and so in no state.

`session[a]` is what a worker or a request holds between its reads and its commit:
the *loaded* document row, the id of the output it saw, the loaded batch row. The
steps are the points where another session may interleave:

```
worker:   Claim -> LoadDocument -> FinishPipeline(outcome) -> Commit -> DeleteSource
request:  OpenRequest -> (LoadBatch) -> Commit -> (DeleteSource)
          either may end in CommitFails instead of Commit
```

`Commit` writes `Flush(row, loaded, assigned)` for the document and the batch, so a
lost update happens in the model exactly where it does in the program. `CommitFails`
is the flush the database refuses (`UNIQUE(ingestion_document_id)`, an UPDATE of a
row that is gone) or, with the fault `"commit_error"`, any other; the handler's
second attempt to mark the document failed raises on the same session, so the
document stays in `processing` for the watchdog.

`Watchdog`, `Crash` and `Start` are the watchdog's bulk UPDATE, the end of a pod,
and `startup_recovery`. With the fault `"overrun"` a worker may still be busy when
the watchdog strikes. `FinishPipeline` offers the outcomes the code has: without a
file only failure; with a destination folder the pull request branch, which always
raises (section 5).

`entries`, `cleared`, `overruled`, `crashes` and `calm` are history: queue entries,
documents an administrator let in, documents that an approval or a rejection decided about
when they were no longer pending, terminations, and whether sessions ever overlapped or a
timeout struck. `calm` states exactly what the program needs for its counters to be
right: they are exact on every calm path, and the run `ingestion_lost_update` shows
that they are not otherwise.

`DocumentLifecycle` keeps, beside the status of each document, the `view` of each actor: the
document it is on and the status it saw. An actor makes a documented transition of *its view*,
because nothing in the database holds it to the status that is there by then; claims, the
watchdog and recoveries are statements that look at the table, and make theirs of the table.
So the refinement holds for two pods, any number of requests and overruns, and says that no
step of the pipeline writes a status its reader could not derive from the data model.

### KBIndex

`kb` is the status, `source` the row a document is indexed from, `chunks` the chunk
sets stored, each one numbered and labelled with the version of the content it was
made from. `indexer` follows `index_document` statement by statement:

```
ClaimKb -> MarkIndexing -> LoadContent -> StartDelete -> TakeLocks -> StoreChunks
                    IndexFails: from LoadContent (uploads) or from the embedding call
```

The DELETE is two actions because it waits for row locks and then skips rows that
are gone: `StartDelete` fixes the rows of its snapshot, `TakeLocks` waits for those
another transaction has deleted. `BeginRemoval`/`EndRemoval` do the same for
`remove_document`. `SourceChanges` is a sync that writes a file and queues its row in
one commit; if it had loaded `queued` it writes no status, whatever the status is by
now. `ReindexSelect`/`ReindexCommit` are the endpoint's SELECT and its updates by key.

History variables name the disturbances under which the code gives no guarantee:
`stirred` (the owner touched the document while a worker was on it), `forced` (a
re-index queued a removed or busy document), `orphaned` (its worker died). Properties
hold for every document outside these sets, in the same run in which they happen to
others: an undisturbed document is not harmed by a disturbed one.

### GitHubSync

`head` is the repository, `folders` the configured paths, `sha` the `content_sha`
column, `outcome` the run rows and `sync` what each run has read. A run is

```
CheckRuns -> InsertRun -> ReadFolders -> FetchTree -> LoadExisting
   -> { SkipFile | FetchFile -> StageFile -> CommitFile }*
   -> { StartRemoval -> FinishRemoval }* -> FinishRun
```

with `NoFolders` and `FailRun` as the other ends. The branch may move between tree
and download; a file that was removed and comes back meets its inactive row; an
error answer other than 404 and 5xx has no `tree` key and reads as an empty
repository (`"refused"`, enabled in `sync_files`). `Start` is `recover_interrupted_syncs`, which asks no row
whose it is. `raced` records that two triggers passed the guard together or a pod
started under a live run.

### UserAdmin

`users`, `invites` and `open` (the users with a session) are the tables; `req` is
what a request has read and decided. A request reads and checks in one action and
commits in another; an invitation has its rows flushed, and so locked, while the mail
goes out. Roles below administrator behave alike here and are one value. `crossed`
records the two races the code loses.

### LoginSessions

`UserAdmin` has many accounts and no time; this module has one account and time. A time
stamp is the number of ticks until it passes, so `Tick` is the only action that moves time
and states stay finite. `account` is the row of `users`, `sessions` the rows of its sessions,
`req` what each request has read. A request reads and checks in one action (`StartLogin`,
`StartRefresh`, `StartLogout`, `StartRevoke`, `StartReactivate`), then hashes a password or
writes the audit log, and commits in another, `MaxAge` ticks later at most. `Dies` ends the
transaction with its pod. What a commit writes is computed from what was read: the counter,
and whether counter and lock had to be reset.

`streak` is the run of wrong passwords answered, `survivors` the sessions that were open when
the account was last reactivated, `crossed` the two races the code loses: two logins of one
account in flight at once (guesses count once), and a login in flight with a revocation.

### GitHubBridge

`conns`, `custom` and `runs` are the three tables, `remote` is what GitHub has. A request is

```
connect:    StartConnect -> Validate -> Insert -> {CheckFolder -> PutFolder}* -> ScaffoldEnds -> CommitConnect
rotate:     StartRotate -> Validate -> CommitRotate
scaffold:   StartScaffold -> {CheckFolder -> PutFolder}* -> ScaffoldEnds -> CommitScaffold
add:        AddFolder -> [CheckFolder -> PutFolder -> ScaffoldEnds] -> CommitConfig
others:     StartDisconnect -> CommitDisconnect;  Replace, RemoveFolder -> CommitConfig
```

with `ValidationFails`, `PutRefused`, `GitHubUnavailable` (with the folder made or not) and
`Dies` in between. `Insert` is the flush before the scaffolding: it holds the entry of the
partial unique index `ix_github_connections_one_active` until the commit, so a second insert
waits (`Inserting = {}`) and then fails if the first one committed. `Conflicts` is the index.
A rotation writes the row it read, by key, whatever has become of it; `CommitConfig` writes
`Flush(row, read, write)`, or inserts another custom row if it had read none, and
`ActiveFolders` is the query that takes the latest of them.

`RepositoryLink` is what the specification says of the connection; the refinement mapping is
`linked`, the repository and token of the active row. That a rotation of a row disconnected
meanwhile leaves the link alone, and that a connect which validated its token earlier finds
no other link, is what `LinkIsKept` shows.

`asked` is what the answered requests add up to; `overlap` records that two changes of the
configuration were in flight together, of which the code loses one.

### BrandImages and Generation

A row and its object are two steps, in the order of the code: upload, then insert; delete the
object, then the row. A mirror, one for each sync run, is `MirrorReads -> MirrorBegins ->
{MirrorSkips | MirrorUploads -> MirrorInserts}* -> MirrorRetires`, one commit per file; any
number of them may be at work at once, because sync runs may. The dictionary of a mirror is
keyed by the last part of the object's name and looked up by the path in the repository, so it
never finds a row: every run inserts each file anew and retires all it had found at the
beginning. `Dictionaries` is that: of rows whose files have one name only one is in it.

`Textual` are the files whose bytes survive being decoded as UTF-8 with replacement and encoded
as Latin-1 (`github_api.py:321`, `sync.py:308`). Only these can be mirrored: a stub such as a
Git LFS pointer or an empty file, but no PNG, JPEG, WEBP or GIF. `MirrorSkips` is what happens
to all others, and to a file that cannot be fetched. `mirrored` is what the last successful
mirror was to show: the tree it read without what it skipped.

What weakens the properties is named. `orphaned` and `hollowed` are the images whose object may
be left without its row (an upload that died, a deletion whose error the store's client
swallowed, a mirror that failed) and whose row without its object (a deletion that died).
`mishaps` are a mirrored image that somebody deleted, a mirror that failed after it had begun,
two files of one name, and two mirrors at once.

A generation is `CreateGeneration` (committed as pending) `-> ModelAnswers -> RenderPdf ->
UploadPdf -> FinishGeneration`, with `GenerationFails` from each and `UploadUnanswered` for a
store that took the PDF and did not say so. The images are looked up a second time after the
model answered; the session still holds the one it checked last and returns that object without
asking (`StillActive`). `RenderPdf` leaves out every image that cannot be downloaded, because
its object is gone or because the store fails; the latter are `lost`. `DeletePdf` and
`DeleteGeneration` are the endpoint's two steps, and may come while the handler is at work; the
handler's UPDATE then meets no row. `PdfNotDeleted` is the store's error that `delete_from_gcs`
swallows: the PDF stays and the row goes.

### Chat

`log` keeps the messages of a session in the order of their commits, and each message its
`created_at`, which its pod's clock sets at the flush. What is read is ordered by `created_at`
and cut to the window (`Recent`): a message may appear in front of one that was there before,
because clocks of pods differ or because one transaction commits later than it flushed. `Clocks`
says how far ahead the clock of each request's pod may be. `last_active_at` and the title only
serve the list of sessions and are left out.

A question is `SendMessage -> ReadHistory -> CommitQuestion -> StoreAnswer -> SendDone`: the
question is committed before the response begins, the answer when the model's stream is at its
end. `QuestionFails` answers 500. `StreamErrs` is the generator's `except` after the embedding,
the search or the model raised. `FlushFails` is an answer the database refuses: the rollback
expires the session row, whose id the `except` block reads before it yields the event, so the
stream breaks off without one. `CommitFails` is a COMMIT that raises, the answer stored or not.
`Abandon` is a client that leaves or a pod that terminates: the generator ends where it stands
and nothing is written. `told` is how the event stream ended for the client, `inTime` which
requests had found the session before it was deleted, `broken` whose answer the database refused.

### TextPipeline

A section is the sequence of its paragraphs' lengths, a chunk the pair of its first and last
paragraph. A loop of the code is a recursive function of the round, whose step is an operator
(`AddParagraph`, `Repeat`, `AddToPass`, `Attempt`). The overlap is found backwards in the code
and compared with the longest tail that fits; the budget is compared with what the joined text
really has, which may be 9/4 of it. The functions have no state, so their properties are not
invariants of a run: TLC evaluates them, as the assumption `TextChecked` of `MCKBIndex`, when
the run `kb` starts, for every section of up to five paragraphs of 1, 4, 7, 11 or 30 characters
(with a budget of 5 tokens and an overlap of 2), lengths below and above a token, at the
overlap, at the budget and beyond it. Section 4 proves them for every length and number.

## 3. The runs

| Run | Instance | Shows |
|---|---|---|
| `ingestion` | 1 document, 2 pods, a worker each, 2 requests, all faults; 917 935 states | approval, claims, output, source and review fit together under every interleaving; refinement of `DocumentLifecycle` |
| `ingestion_one_pod` | 2 documents in one batch, 2 workers, 1 request, crash and commit faults, fair; 186 740 states | every queued document ends; counters and status are exact on calm paths |
| `ingestion_lost_update` | 2 documents, 2 workers, no faults | expects a violation: a documented promise the code does not keep (section 5) |
| `kb` | a synced file written twice and an upload, 2 workers, all events, fair; 121 219 states | the index properties outside the disturbed documents; queued documents settle; the functions of `TextPipeline` |
| `sync_files` | 2 files (one pushed twice), 2 runs, 2 pods, crashes, deletions, GitHub failing or refusing to list the tree; 936 341 states with symmetry | one run at a time, success means the rows are the tree that was answered, outcomes are final, all unless `raced` |
| `sync_index` | 1 file pushed twice, deleted, restored; 2 runs that may race, 1 worker, folders changing, crashes, fair; 122 146 states | an active row keeps its entry in the index; every run ends |
| `user` | 2 addresses, 3 invitations, 2 requests; 253 090 states with symmetry | the administrator guard and the end of sessions fail only in the named races; invitations |
| `login` | 2 sessions, 2 requests, threshold 2, a lock and a session of 2 ticks, requests of up to 1 tick, fair; 589 490 states | the lock follows the wrong passwords and passes; revoked sessions stay revoked, none survives a revocation outside the named race |
| `bridge` | 2 connection rows, 2 repositories, 2 tokens (one may push to both), 2 folders, 2 requests; 990 704 states with symmetry | refinement of `RepositoryLink`; one connection; no folder is reported twice; the folders are what was asked |
| `images` | 3 images, 3 files of which two have one name and one is no text, 2 mirrors that may overlap, 1 administrator; 2 915 612 states with symmetry | rows and objects correspond; a mirror shows what its run read and did not skip, once |
| `generation` | 1 generation, 2 images, 1 file, 1 mirror, 1 administrator, a store that may fail any call; 1 568 307 states with symmetry | the PDF is there when the row says so and shows what was selected, kept and downloaded; a pending request has its handler |
| `chat` | 1 session, 3 questions, one from a pod whose clock is ahead, a window of 2 messages, fair; 209 186 states | what is stored, shown to the model and told to the client fit together; a client that stays is told the end unless the database refused the answer |

**Bounds.** `MaxSessions`, `MaxEntries` and `MaxCrashes` (Ingestion), `MaxVersion` and
`MaxReindex` (KBIndex), `MaxPush` (GitHubSync), `MaxWork` (GitHubBridge: scaffolding runs and
changes of the configuration), `MaxRequests` (Chat), `MaxAge` (LoginSessions), and the finite
sets. Every one is a guard on the environment, on how often a request may be sent or on how
long it takes, none on what the program does with it. Two workers and a request suffice for
each pairwise race, and three sessions for a race with a bystander; two queue entries let a
document be processed, retried or requeued, and processed again while the first worker is still
there; one crash gives every point at which a pod can die, and the recovery that follows it.
Two versions of a file distinguish stale from current. Two files are enough for a run that
stops between them. Two connection rows and two repositories let a request about the first
connection commit after the second was made. A threshold and a lock of two ticks are the
smallest that tell a lock which is renewed from one that passes. Two mirrors overlap, or the
second meets what the first one left; `generation` has one, which retires nothing, and what a
second would change for a PDF is left to the proofs. With three questions and a window of two,
the window moves while answers are outstanding.

**Symmetry** is used in the runs that check no liveness and whose properties treat the
permuted values alike.

**Deadlock** is not checked (`CHECK_DEADLOCK FALSE`): the environments are finite, so
a system whose last document is done and that nobody sends anything really stops.

**Fairness.** Weak fairness of each worker's next step (asyncio keeps scheduling every
task, and no step waits for a lock for ever), of each open session and of each handler of
a question or a login (a handler runs to its answer: every call it makes returns or
raises), of the watchdog (a loop that sleeps a minute), of time, and of `Start` (the
deployment replaces a lost pod). No request, push, failure, departure or crash is fair. Weak is
enough: a step stays enabled until it is taken, except where it waits for a lock that
is released.

Each property comes with a mutant: a change of one definition, such as a dropped guard
or a forgotten reset, under which the run must fail. They stand beside the definition
they change, marked `Mutant:`.

## 4. Proofs

`Ingestion_proofs` proves, for every set of documents, pods, workers and requests, any
bounds and any faults, from `ConstAssumption` and what a row names besides:

| Theorem | States | Rests on |
|---|---|---|
| `TypeCorrect` | `TypeOK` | is inductive; a lemma per table says what the operators on its rows return |
| `SessionsSound` | only requests run request operations, a session past `idle` has a document | with the types, what every later proof uses about a session |
| `WatchdogComplete` | `WatchdogSeesEveryClaim` | a row loaded earlier can put `queued` without a start time over a row in processing, never the other way round |
| `CompletedHasOutput` | `CompletedHasContent` | the only commit that removes output also writes `queued` |
| `ApprovalGatesProcessing` | `OnlyClearedIsProcessed` | the strengthening `ClearanceInv`: it is not inductive on its own, because a session writes the status of the row it *loaded*; the invariant adds that the rows held in sessions past their check, and the sessions' operations, belong to cleared documents |
| `PublishedWasLoaded` | `PublishesWhatItLoaded` | an action property, action by action, from the types |
| `OneWorkerForEachEntry` | `OneWorkerPerEntry` | `EntryInv`: the workers on a document and the entry nobody has taken yet are together no more than its entries. A submission starts that count afresh, so nobody may be on a document of a batch that was not inserted (`InABatch`) |
| `SourceIsKept` | `SourceOutlivesItsUse` | `SourceInv`: whoever deletes a file has committed what makes it superfluous, a request at work still finds the status it demanded, and no later commit takes either back, of a document outside `overruled`. For the others it may: one request rejects and another approves, and the file of a queued document is gone |
| `IngestionFollowsLifecycle` | `FollowsLifecycle`, the refinement of `DocumentLifecycle` | the soundness of sessions: a commit's new status is a documented successor of the status its session holds (`ActIsNext`), and a step that ends a session otherwise leaves the tables (`LeaveIsNext`). No assumption on pods, requests or overruns is left, because nothing has to be known of the table at the commit |
| `CountersStayExact` | `CountersExact` | `CalmInv`: on a calm path one session at most is open, it holds the batch row there is, and each counter is the size of a part of the batch (`Tally`), which every commit changes by the document it moves |
| `BatchStatusFollows`, for finitely many documents | `BatchStatusIsRight` | `ClosedInv` on top of `CalmInv`: a batch is in progress whenever its counters do not add up, and the parts they count are disjoint (`TwoParts`) |

`Flush` is why the strengthenings speak of sessions: what a commit writes depends on
the row at that time *and* on the copy read earlier, so every invariant of a table has
to be stated of the copies as well. Each proof has one step for each disjunct of
`Next`, and below it one for each conjunct the action disturbs.

`KnowledgeBase_proofs` proves of `KBIndex`, from `KBAssumption`, that `KBInv` is inductive (`IndexSound`),
for every set of documents and workers, every environment and every bound:

| Theorem | States | Rests on |
|---|---|---|
| `KBTypeCorrect` | `KBTypeOK` | a lemma for each table |
| `IndexedCanBeFound` | `IndexedIsSearchable` | is inductive with the types: a commit that takes chunks away also sets another status or stores new chunks |
| `StoredOnce` | `OneChunkSet` | `Undisturbed` |
| `AnswersHaveFiles` | `ServedIsActive` | `Undisturbed` |
| `AnswersAreCurrent` | `ServedIsCurrent` | `Fresh` |

`Undisturbed` holds of each document outside `stirred` and `forced`: at most one worker is
on it and the status says so (`OneWorker`), the rows its DELETE chose are all there are
(`DeletesAll`), so that one set is stored at most (`OneSet`), and what is queued or indexed
has its file (`HasFile`). Without `DeletesAll` a second set could appear between the
snapshot of the DELETE and the INSERT. `Fresh` holds outside `stirred` alone: what a worker
has loaded is current, and so is whatever its DELETE will not remove. A forced re-index may
put two workers on one document, and they store it twice; both copies are current, which is
why freshness needs an invariant of its own.

It proves of `GitHubSync`, from `SyncAssumption` and `KBAssumption`, that `SyncInv` is
inductive (`SyncSound`), for every set of files, runs, pods and workers and every environment:

| Theorem | States | Rests on |
|---|---|---|
| `SyncTypeCorrect` | `SyncTypeOK` | a lemma for each step of a run says what it leaves of the run's record |
| `SyncUsesIndex` | `SyncSpec => KBSpec` | `RemovalHeld`: a run that waits for chunk locks has the removal open that it ends, and no other run has the same; the status a commit starts from is the one its run saw, and what `KBIndex` allows for a status loaded earlier covers it |
| `SyncedIsServed` | `OneChunkSet`, `ServedIsCurrent`, `ServedIsActive` | the theorems about the index above, through `SyncUsesIndex` |
| `ActiveStaysInIndex` | `ActiveIsInIndex`, of active rows only | `RowsIndexed`, an invariant of `KBIndex` without uploads: a row without content has no entry and is not active |
| `OneRunAtWork` | `OneSyncAtATime` | `OneAlive`: without a race whoever has passed the guard is alone, and its row says in progress |
| `OutcomesStay` | `OutcomeIsFinal` | `OneAlive`, and `Unreported`: a run that has not inserted its row has no outcome |
| `SuccessIsMirror` | `SuccessMirrorsRepo` | `RunReads` (what a run has read was there, and the branch only moves on) and `Mirrors` (what a run that is alone knows of the rows is what they are, and the items it is done with have the content of its tree or a newer one) |

`Mirrors` is where a race matters: of two overlapping runs neither sees what the other commits,
and each may report success for rows the other has changed since. `SyncUsesIndex` needs no such
condition: what a worker of the index has to expect of a sync is the same with overlapping runs.

`UserAdmin_proofs` proves, from `UserAssumption`, that `UserInv` is inductive
(`AccountsSound`), for every number of addresses, invitations and requests in flight:

| Theorem | States | Rests on |
|---|---|---|
| `UserTypeCorrect` | `UserTypeOK` | `Written`: what an UPDATE leaves of an account |
| `AdministratorRemains` | `GuardKeepsAdmin` | `OtherAdminRemains`: while a demotion is in flight alone there is another administrator, at first its sender; nothing that commits meanwhile takes one away. A first registration makes one; every other request needs an account to exist (`InvitedByAccount`) |
| `RevokedIsLoggedOut` | `DeactivatedHasNoSession` | `LoginStillAllowed`: no revocation of the account is in flight with the login, so the account is still active when its session is written |
| `InvitationUsedOnce`, `AcceptanceMadeAccount` | `AcceptedOnce`, `AcceptedHasAccount` | `RequestSound`: an accepting request keeps the address of its invitation; the address has no account until it commits (`Refused`), and accounts do not vanish |

A request knows at its commit only what it read at its check, so `RequestSound` says for
each kind of request which of it still holds: accounts and invitations never disappear, and
an invitation that was issued keeps its address (`InvitationsSound`: no two requests issue
one number).

`GitHubBridge_proofs` proves, from `BridgeAssumption` and `OperationAssumption` (no request is
called what a request at rest is), that `BridgeInv` is inductive (`BridgeSound`), for every
number of connections, repositories, tokens, folders and requests:

| Theorem | States | Rests on |
|---|---|---|
| `BridgeTypeCorrect` | `BridgeTypeOK` | a lemma for each field of a request and each row; that the latest custom row exists (`Largest`) is an argument by the least element of a set of numbers |
| `OneConnection` | `OneActiveConnection` | `OneInserting`: who is past its INSERT is alone, and no connection is active until it commits. The validation, in another transaction, is not enough |
| `DisconnectedForGood` | `InactiveIsFinal` | rows are addressed by key, and what rotation and scaffolding write leaves the status alone |
| `BridgeImplementsLink` | `LinkIsKept` | `Knows`: a request about a connection knows its repository, which never changes once inserted, and past its validation it holds a token that may push there |
| `FoldersAsAsked` | `ConfigIsWhatWasAsked` | `ConfigInv`: without `overlap` there is at most one custom row, and a change of the folders in flight is alone; so what it has read is still in force when it writes, and what it writes is what was asked |
| `ReportedOnce` | `CreatedOnce` | `CreatedInv`: for each repository there are disjoint sets of its folders, one that the stored runs report and one for each request in flight, as large as their counts say (`Shared`); a folder that GitHub answers with 201 was in none of them, and storing a run moves its set. A run's connection is there, so its repository stays what it is (`RunsKnown`). The reported sum is taken by induction over the list of runs; a repository has finitely many folders at first (`Already`) |

Every action maps to one of `Connect`, `Rotate`, `Disconnect` or a stutter, under the
mapping `linked`: a rotation of a row that was disconnected since is a stutter, and so is a
second disconnect.

`LoginSessions_proofs` proves, from `LoginAssumption`, that `LoginInv` is inductive
(`LoginSound`), for every threshold, every duration, and any number of sessions and requests:

| Theorem | States | Rests on |
|---|---|---|
| `LoginTypeCorrect` | `LoginTypeOK` | the arithmetic of ticks |
| `LockIsExact` | `LockFollowsStreak` | `StreakCounted`: without two logins at once, a login in flight has read the counter and the lock there still are, and the counter is the streak. Time may pass between, and take the lock's time stamp into the past, but not away |
| `RevokedForGood` | `RevokedIsFinal` | an action property, action by action; a refresh names an open session, which may be revoked when it commits |
| `NoSurvivors` | `NoSessionSurvivesRevocation` | `DeactivatedIsOut`: a deactivated account has neither a session nor a login that could open one |

`Chat_proofs` proves, from `ChatAssumption`, that `ChatInv` is inductive (`ChatSound`), for every
number of users, sessions and questions, every window and any clocks:

| Theorem | States | Rests on |
|---|---|---|
| `ChatTypeCorrect` | `ChatTypeOK` | sequences: what appending and the window leave of a log |
| `AnswersInOrder` | `AnswersFollowQuestions` | `Homed` and `Tracked`: each message is of a request that is past the commit of its question, in its session; a request that streams has its question in the log and its answer not before it stores it. A question and its answer are stamped by one clock, which goes forward |
| `PromptIsOneMoment` | `PromptIsConversation` | `Prompted`: a log only grows at its end, whatever the stamps, so what was read at one moment stays what could be read of a prefix |
| `ToldIsStored` | `DoneMeansStored` | `Tracked`: whoever was told is over, and stores nothing more; who was told of an error either stored nothing or is in `broken` |
| `ClosedByDeletion` | `DeletedIsClosed` | `Admitted`: whoever is at work in a deleted session had found it before |

`Generation_proofs` proves of `BrandImages`, from `ImagesAssumption`, for every set of images, files and
administrators and every number of runs:

| Theorem | States | Rests on |
|---|---|---|
| `ImagesTypeCorrect` | `ImagesTypeOK` | |
| `ObjectsFollowRows` | `ObjectsMatchRows` | `ObjectsInv`: an image that is being made is nobody else's (`EditSound`, `MirrorSound`), with any number of mirrors at once; one that is being deleted has a row; only text is mirrored |
| `MirrorShowsTree` | `MirrorIsExact` | `KeepInv`: the mirrored files stay shown, because what a run retires it had found before it began, and all it has done since shows its files. `ExactInv`: while a run is alone, its dictionary holds images of the run before, and all others show exactly the files that are done. `DictionaryIsComplete`: if no two files have one name, the dictionary has an entry for every one |

and of `Generation`, whose steps are steps of the images or leave them alone, for every number
of requests:

| Theorem | States | Rests on |
|---|---|---|
| `GenerationTypeCorrect` | `GenerationTypeOK` | |
| `PdfFollowsRow`, `PendingHasHandler` | `PdfMatchesRow`, `PendingIsWorkedOn` | `PdfSound`: where the row, both handlers and the bucket stand to each other at each step, and which mishap explains what is left over |
| `PdfHasItsImages` | `PdfShowsSelection` | `ShownSound`, with `ActiveWasActive`: an image that is active and unedited was so a step before, unless it was only being made, and those cannot be selected; so an image found missing at the rendering is not active at the end; one whose download failed is in `lost`, one that lost its object in `hollowed` |

`TextPipeline_proofs` proves, from `TextAssumption`, what the loops compute, for any number of
paragraphs and attempts, any lengths, budgets and limits:

| Theorem | States | Rests on |
|---|---|---|
| `NoneLost` | `NoParagraphLost` | `SplitInv`: the chunks that are done and the one that is being filled are what they should be of the paragraphs so far. `CoversIs` says what a last part adds to `Covers` |
| `OverlapLongest` | `OverlapIsLongestTail` | `OverlapInv`: the backward loop stops at the first paragraph that does not fit, and no longer tail fits either, because the count of a tail grows with it (`CountedGrows`) |
| `BudgetSoft` | `BudgetIsSoft` | `SplitInv`, and `JoinedIs`: the difference between nine times the tokens and the characters with their blank lines grows with each paragraph |
| `PassesCut` | `PassesPartition` | `PassInv`, as `SplitInv` |
| `TransientRetried` | `TransientErrorsAreRetried` | `AttemptInv`: what ends the loop is the first answer that can |

The induction over the rounds of a loop is one over a *set* of numbers (`Inductively`): if 0 is in
it and each number brings the next, the least number outside would be a contradiction
(`WFMin`). The library states induction with an operator for a parameter, which no prover here
can instantiate; a set can be. For the same reason the lemma that a loop's recursive function
exists, and so satisfies its equation, is there once for each loop (`SumsLoop` to `AnswerLoop`).

TLC checked `EntryInv`, `SourceInv`, `CalmInv`, `ClosedInv`, `KBInv`, `SyncInv`,
`UserInv`, `BridgeInv`, `ConfigInv`, `CreatedInv`, `LoginInv`, `ChatInv`, `ObjectsInv`,
`KeepInv`, `ExactInv`, `PdfInv` and `ShownInv` as invariants on the instances of section 3 before they were
proved. What is proved for every value of the constants and says little about one instance is
not repeated as a property of a run: the type invariants, `WatchdogSeesEveryClaim`,
`IndexedIsSearchable`, `AcceptedHasAccount` and `InactiveIsFinal`.

Only model-checked: the liveness properties, because there is no prover for `ENABLED` and
fairness here. Every invariant and every safety property of a step that a passing run checks
is also a theorem.

## 5. Where the code departs from its documents

With a run (`PROJECT.json`, `findings`): `ingestion_lost_update`. Counters are read,
incremented in Python and written back; two workers lose an update and the batch stays in
progress for ever (`queue.py:201`).

Met while modelling, reachable in the models unless the last column says otherwise, and excluded
from the passing properties by the history variables or the conditions named:

| Deviation | Where | How the model excludes it |
|---|---|---|
| the watchdog fails documents without counting them | `queue.py:305` | `calm` |
| the recovery of one pod requeues what another is processing; worked on and counted twice | `queue.py:331` | `calm` for the counters; the lifecycle speaks of the status a writer saw |
| a worker that outlives the watchdog leaves the timeout's reason on a completed document | `queue.py:197` | no property demands it |
| a document flagged for re-processing has no source file any more | `queue.py:209` | no property demands it |
| an approval that read the document before a rejection overrides it, and the file of what it queues may be gone | `ingestion.py:1016` | `overruled` |
| the PATCH of a review names no version of the output: what was regenerated after the preview is approved unseen, against the review gate of specs/3 (`spec.md:24`) | `ingestion.py:470`, preview `:398` | the preview is no state; `PublishesWhatItLoaded` begins with the load of the PATCH |
| a dying worker leaves its knowledge base row in `indexing` for ever | `queue.py:392` | `orphaned` |
| two workers on one document store its chunks twice; a removed file indexed again | `indexer.py:88`, `:130` | `stirred` |
| re-indexing queues removed files | `knowledge_base.py:58` | `forced` |
| two triggers pass the guard; a pod's start marks live runs as interrupted, which overwrite that when they end | `sync.py:82`, `:456` | `raced` |
| without folders a run succeeds before the clean-up | `sync.py:137` | `paths # {}` |
| a login that read the account before its revocation opens a session | `auth.py:168` | `crossed` |
| the pull request branch uses `os` without importing it: documents with a destination folder always fail | `queue.py:147` | `FinishPipeline` offers only failure |
| indexing an upload reads an attribute its model does not have, and always fails | `indexer.py:84` | `IndexFails` from `LoadContent` |
| a file that was deleted and comes back meets its inactive row: every later run fails, and the file has no place in the index | `sync.py:158` | `Conflicts`; the mirror property speaks of success, `ActiveIsInIndex` of active rows |
| a 401 or 403 reads as an empty repository, and the run removes every file | `github_api.py:285` | `"refused"`; success means the tree that was *answered*, an empty one |
| two administrators demote each other and none remains | `users.py:315` | `crossed` |
| two logins at once count one failure; the lock is a guess late | `auth.py:186` | `crossed` |
| a session expires 8 hours after its login, not after 8 hours of inactivity (FR-2.3): `last_active_at` is written and never read | `auth.py:333` | no property demands it |
| the counter is not reset when a lock passes: one more wrong password locks again | `auth.py:186` | `streak` counts across locks |
| two changes of the folders overlap and one is lost, or a second custom row appears | `github.py:508` | `overlap` |
| the last folder can be removed; scaffolding then refuses, and a connect rolls back | `github.py:560` | guards of `StartScaffold`, `Insert` |
| the mirror stores every image again in each run and retires the old row, whose object stays; if a run fails or two overlap, an image is shown twice | `sync.py:287` | only what is shown is checked; `"mirror_failed"`, `"overlapped"` |
| of images with one file name only one row is retired | `sync.py:287` | `"same_name"` |
| no PNG, JPEG, WEBP or GIF of the repository is ever mirrored: its bytes are decoded as UTF-8 with replacement and cannot be encoded as Latin-1 (FR-009 and SC-006 of specs/007, `spec.md:101`, `:128`) | `github_api.py:321`, `sync.py:308` | `Textual`; `MirrorSkips` leaves it out of `files`, and `MirrorIsExact` says so |
| an upload, a deletion or a mirror that dies or that the store refuses half way leaves a row without an object or an object without a row | `images.py:179` | `hollowed`, `orphaned` |
| an error of the store is swallowed when a PDF is deleted, and its row goes all the same; a PDF whose upload was not acknowledged belongs to a failed request | `gcs.py:97`, `generate.py:354` | `"pdf_kept"`, `"delete_died"` |
| a selected image whose download fails is left out of a PDF that is reported as completed (User Story 3, scenario 3 of specs/007, `spec.md:56`) | `pdf_renderer.py:66` | `lost` |
| a request deleted while it is worked on leaves its PDF | `generate.py:354` | `"deleted_while_working"` |
| a request whose handler dies stays pending: nothing looks for it | `generate.py:183` | `"died"` |
| a deleted chat session keeps its messages (FR-008 of specs/005 says "permanently removing"), and a stream that runs adds its answer | `chat.py:150` | `inTime` |
| a failed flush of the answer expires the session row, whose id the error handler reads: it raises, and the client gets no `error` event, which plan.md:37 of specs/005 promises | `chat.py:283` | `broken` |
| a client is told of an error although its answer was stored, when the acknowledgement of the commit is lost | `chat.py:275` | `broken` |
| a heading before a long paragraph becomes a chunk, and the next chunk begins with it again; chunks exceed 512 tokens | `chunker.py:58` | `Covers` allows the one, `BudgetIsSoft` bounds the other |
| a resent invitation leaves another valid, or goes to a member | `users.py:241`, `:234` | only what the links may do is checked |

## 6. Abstractions, and what is not modelled

Documents, files and addresses are model values; content is a version number. What
extraction, the language model and the embedding service compute is left out, that they
may fail is not. The order in which a claim picks queued rows is left open. The wait
for the connection pool is not modelled. Elsewhere than in `LoginSessions` time is left out: a timeout
may strike whenever the guard of its query allows.

Not modelled: merging and closing pull requests (no document reaches the statuses they
demand while the pull request branch fails); extraction from PDF, Word and CSV files and the
parsing of the model's answers (formats); the wait for the connection pool; tenant registration
(one INSERT behind a unique key); `utils/github_client.py`, which nothing imports; the front end,
a client of the API whose only state is a cookie; configuration, health and the read-only
endpoints. `PROJECT.json` gives the reason for each component.

## 7. Plan

Written, in this order: `Ingestion` with its abstract lifecycle and proofs, because
everything else feeds on its output; `KBIndex`; `GitHubSync` composed with it; `UserAdmin`;
`GitHubBridge` with `RepositoryLink`; `LoginSessions`; `BrandImages` and `Generation`; `Chat`;
`TextPipeline`.

Next modules: the merging of pull requests, once the branch that creates them works; the
connection pool as a resource that workers and requests share.

Next theorems: `BridgeImplementsLink` says that the connection rows behave as one link, and
`ReportedOnce` that folders are reported once; that a scaffolding run reports every folder it
was asked for, as created or as skipped, would complete them. The safety halves of the liveness
properties (what a waiting document, request or stream waits for is always there) can be stated
as invariants and proved; the steps from there to the outcome stay with TLC.
