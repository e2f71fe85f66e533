---------------------------- MODULE GitHubBridge ----------------------------
(***************************************************************************)
(* The administrators' side of the GitHub bridge: connecting a repository, *)
(* rotating its token, disconnecting, scaffolding the configured folders   *)
(* and changing which folders are configured, over requests that           *)
(* interleave, with GitHub answering, refusing or failing at every call.   *)
(* (src/api/github.py, utils/github_api.py)                                *)
(*                                                                         *)
(* A request reads in its first step, talks to GitHub in steps of their    *)
(* own, and commits in its last.  A connection that is being made is       *)
(* inserted before its folders are scaffolded, and keeps the entry of the  *)
(* unique index on active connections until it commits or rolls back.      *)
(***************************************************************************)
EXTENDS Integers, FiniteSets, Sequences, OrmFlush

CONSTANTS
    Conns,           \* connection rows that can be inserted
    Repos, Tokens,
    MayPush,         \* the pairs of a repository and a token with push access
    Folders,         \* folder paths that pass validation
    DefaultFolders,  \* the seeded configuration
    Already,         \* folders the repositories have to begin with
    Requests,        \* administrators' requests that can be in flight at once
    Nothing,         \* the value of a field that does not apply
    MaxWork          \* bound: scaffolding runs and changes of the configuration

ASSUME BridgeAssumption ==
    /\ MayPush \subseteq Repos \X Tokens
    /\ DefaultFolders \subseteq Folders /\ DefaultFolders # {}
    /\ Already \subseteq Folders /\ IsFiniteSet(Already)
    /\ Nothing \notin Conns \cup Repos \cup Tokens \cup Folders
    /\ MaxWork \in Nat

VARIABLES
    conns,    \* github_connections
    custom,   \* the repo_structure_configs rows with is_default = false
    runs,     \* scaffolding_runs
    remote,   \* GitHub: the folders each repository has
    req,      \* what each request has read and done
    clock,    \* a time stamp for each change of the configuration
    asked,    \* history: the folders the answered requests add up to
    overlap   \* history: two changes of the configuration were in flight at once

bridgevars == <<conns, custom, runs, remote, req, clock, asked, overlap>>
config == <<custom, clock, asked, overlap>>

ConnRow == [status : {"absent", "active", "inactive"}, repo : Repos \cup {Nothing},
            token : Tokens \cup {Nothing}, scaffolded : BOOLEAN]
NoConn == [status |-> "absent", repo |-> Nothing, token |-> Nothing, scaffolded |-> FALSE]
ConfigRow == [folders : SUBSET Folders, updated : Nat]
Run == [conn : Conns, outcome : {"success", "failed"}, created : Nat]

(***************************************************************************)
(* Requests.  `step` is where a request stands:                            *)
(*   validate  GitHub is being asked about the token                       *)
(*   insert    the token is good; the new connection is about to be        *)
(*             inserted                                                    *)
(*   check     a folder of `todo` is about to be looked up                 *)
(*   put       `folder` was not there; it is about to be created           *)
(*   save      everything is known; what remains is the commit             *)
(***************************************************************************)
ConnOps == {"connect", "rotate", "disconnect", "scaffold"}
ConfigOps == {"add", "remove", "replace"}
ASSUME OperationAssumption == Nothing \notin ConnOps \cup ConfigOps

Steps == {"idle", "validate", "insert", "check", "put", "save"}

Request == [step : Steps, op : ConnOps \cup ConfigOps \cup {Nothing},
            conn : Conns \cup {Nothing}, repo : Repos \cup {Nothing},
            token : Tokens \cup {Nothing}, todo : SUBSET Folders,
            folder : Folders \cup {Nothing}, created : Nat,
            failed : BOOLEAN,
            subject : Folders \cup {Nothing},   \* the folder to add or to remove
            row : Nat,              \* the custom row to update, 0 to insert one
            read : ConfigRow,       \* ... as it was read
            write : ConfigRow]      \* ... as it will be

NoConfig == [folders |-> {}, updated |-> 0]
IdleRequest == [step |-> "idle", op |-> Nothing, conn |-> Nothing, repo |-> Nothing,
                token |-> Nothing, todo |-> {}, folder |-> Nothing, created |-> 0,
                failed |-> FALSE, subject |-> Nothing, row |-> 0, read |-> NoConfig,
                write |-> NoConfig]

Active == {c \in Conns : conns[c].status = "active"}
Fresh == {c \in Conns : conns[c].status = "absent"}

\* The requests whose new connection is inserted and not committed.
Inserting == {r \in Requests : /\ req[r].op = "connect"
                               /\ req[r].step \in {"check", "put", "save"}}

Connecting == {r \in Requests : req[r].op = "connect"}
Running == {r \in Requests : req[r].op \in {"connect", "scaffold"}}
MayWork == Len(runs) + Cardinality(Running) + clock < MaxWork

\* Custom rows come before the default one, the latest first.
ActiveFolders ==
    IF custom = <<>> THEN DefaultFolders
    ELSE (CHOOSE row \in {custom[i] : i \in DOMAIN custom} :
             \A i \in DOMAIN custom : custom[i].updated <= row.updated).folders

Goto(r, step) == req' = [req EXCEPT ![r].step = step]
Answer(r) == req' = [req EXCEPT ![r] = IdleRequest]

Begin(r, fields) ==
    /\ req[r].step = "idle"
    /\ req' = [req EXCEPT ![r] = fields]

(***************************************************************************)
(* POST /connect, PATCH and DELETE /connection, POST /scaffold: reading    *)
(***************************************************************************)
StartConnect(r, repo, token) ==
    /\ Active = {}
    /\ Cardinality(Fresh) > Cardinality(Connecting)
    /\ MayWork
    /\ Begin(r, [IdleRequest EXCEPT !.step = "validate", !.op = "connect",
                                    !.repo = repo, !.token = token])
    /\ UNCHANGED <<conns, runs, remote, config>>

\* What a request about connection c works with.
About(c, op) == [IdleRequest EXCEPT !.op = op, !.conn = c, !.repo = conns[c].repo,
                                    !.token = conns[c].token]

StartRotate(r, c, token) ==
    /\ c \in Active
    /\ Begin(r, [About(c, "rotate") EXCEPT !.step = "validate", !.token = token])
    /\ UNCHANGED <<conns, runs, remote, config>>

StartDisconnect(r, c) ==
    /\ c \in Active
    /\ Begin(r, [About(c, "disconnect") EXCEPT !.step = "save"])
    /\ UNCHANGED <<conns, runs, remote, config>>

\* An empty folder list is refused.
StartScaffold(r, c) ==
    /\ c \in Active
    /\ ActiveFolders # {}
    /\ MayWork
    /\ Begin(r, [About(c, "scaffold") EXCEPT !.step = "check", !.todo = ActiveFolders])
    /\ UNCHANGED <<conns, runs, remote, config>>

(***************************************************************************)
(* Validation of a token, and the INSERT of the connection                 *)
(***************************************************************************)

\* Mutant: the permissions are not looked at.
Grants_Any(repo, token) == TRUE

\* GET /user and GET /repos/{owner}/{repo}: permissions.push.
Grants(repo, token) == <<repo, token>> \in MayPush

Validate(r) ==
    /\ req[r].step = "validate"
    /\ Grants(req[r].repo, req[r].token)
    /\ Goto(r, IF req[r].op = "connect" THEN "insert" ELSE "save")
    /\ UNCHANGED <<conns, runs, remote, config>>

\* GitHub refuses the token, or cannot be reached: nothing is stored.
ValidationFails(r) ==
    /\ req[r].step = "validate"
    /\ Answer(r)
    /\ UNCHANGED <<conns, runs, remote, config>>

\* Mutant: the index covers the columns repository_url and status.
Conflicts_SameRepo(r) == \E c \in Active : conns[c].repo = req[r].repo

\* ix_github_connections_one_active.
Conflicts(r) == Active # {}

\* The INSERT waits for the transaction that holds the index entry; then it
\* fails, or the folders to scaffold are read, and an empty list rolls it
\* back.
Insert(r) ==
    /\ req[r].step = "insert"
    /\ Inserting = {}
    /\ IF Conflicts(r) \/ ActiveFolders = {}
       THEN Answer(r)
       ELSE req' = [req EXCEPT ![r].step = "check", ![r].todo = ActiveFolders]
    /\ UNCHANGED <<conns, runs, remote, config>>

(***************************************************************************)
(* scaffold_repository: one folder after the other, GET and then PUT       *)
(***************************************************************************)
Done(s, f) == [s EXCEPT !.step = "check", !.todo = @ \ {f}, !.folder = Nothing]

CheckFolder(r, f) ==
    LET s == req[r]
    IN /\ s.step = "check" /\ f \in s.todo
       /\ req' = [req EXCEPT ![r] =
                    IF f \in remote[s.repo] THEN Done(s, f)
                    ELSE [s EXCEPT !.step = "put", !.folder = f]]
       /\ UNCHANGED <<conns, runs, remote, config>>

\* Mutant: 422 counts like 201.
PutAnswer_Counts(s) == [Done(s, s.folder) EXCEPT !.created = @ + 1]

\* 201, or 422 when somebody else made the folder since the GET.
PutAnswer(s) == IF s.folder \in remote[s.repo] THEN Done(s, s.folder)
                ELSE [Done(s, s.folder) EXCEPT !.created = @ + 1]

PutFolder(r) ==
    LET s == req[r]
    IN /\ s.step = "put"
       /\ req' = [req EXCEPT ![r] = PutAnswer(s)]
       /\ remote' = [remote EXCEPT ![s.repo] = @ \cup {s.folder}]
       /\ UNCHANGED <<conns, runs, config>>

\* Any other status below 500 is logged and the loop goes on.
PutRefused(r) ==
    /\ req[r].step = "put"
    /\ req' = [req EXCEPT ![r] = Done(req[r], req[r].folder)]
    /\ UNCHANGED <<conns, runs, remote, config>>

\* The count is lost with the exception.
CutShort(s) == [s EXCEPT !.step = "save", !.todo = {}, !.folder = Nothing,
                         !.failed = TRUE, !.created = 0]

\* 5xx, a time out or a connection error, with the PUT applied or not.
GitHubUnavailable(r) ==
    LET s == req[r]
    IN /\ s.step = "put" \/ (s.step = "check" /\ s.todo # {})
       /\ req' = [req EXCEPT ![r] = CutShort(s)]
       /\ \/ remote' = remote
          \/ /\ s.step = "put"
             /\ remote' = [remote EXCEPT ![s.repo] = @ \cup {s.folder}]
       /\ UNCHANGED <<conns, runs, config>>

ScaffoldEnds(r) ==
    /\ req[r].step = "check" /\ req[r].todo = {}
    /\ Goto(r, "save")
    /\ UNCHANGED <<conns, runs, remote, config>>

(***************************************************************************)
(* Committing                                                              *)
(***************************************************************************)
RunOf(s, c) == [conn |-> c, outcome |-> IF s.failed THEN "failed" ELSE "success",
                created |-> s.created]

\* The connection is kept when scaffolding failed.
CommitConnect(r, c) ==
    LET s == req[r]
    IN /\ s.step = "save" /\ s.op = "connect"
       /\ c \in Fresh
       /\ conns' = [conns EXCEPT ![c] = [status |-> "active", repo |-> s.repo,
                                         token |-> s.token, scaffolded |-> ~s.failed]]
       /\ runs' = Append(runs, RunOf(s, c))
       /\ Answer(r)
       /\ UNCHANGED <<remote, config>>

CommitScaffold(r) ==
    LET s == req[r]
    IN /\ s.step = "save" /\ s.op = "scaffold"
       /\ runs' = Append(runs, RunOf(s, s.conn))
       /\ conns' = IF s.failed THEN conns
                   ELSE [conns EXCEPT ![s.conn].scaffolded = TRUE]
       /\ Answer(r)
       /\ UNCHANGED <<remote, config>>

\* Mutant: the UPDATE addresses whatever connection is active by then.
RotatedRows_Active(s) == Active

\* The rows the UPDATE addresses: the one that was read, by its key.
RotatedRows(s) == {s.conn}

Rotated(row, s) == [row EXCEPT !.token = s.token]

\* The token is stored even if the connection is inactive by now.
CommitRotate(r) ==
    LET s == req[r]
    IN /\ s.step = "save" /\ s.op = "rotate"
       /\ conns' = [c \in Conns |-> IF c \in RotatedRows(s) THEN Rotated(conns[c], s)
                                    ELSE conns[c]]
       /\ Answer(r)
       /\ UNCHANGED <<runs, remote, config>>

Disconnected(row) == [row EXCEPT !.status = "inactive"]

CommitDisconnect(r) ==
    /\ req[r].step = "save" /\ req[r].op = "disconnect"
    /\ conns' = [conns EXCEPT ![req[r].conn] = Disconnected(@)]
    /\ Answer(r)
    /\ UNCHANGED <<runs, remote, config>>

(***************************************************************************)
(* The folder configuration.  All three endpoints read a custom row (some  *)
(* custom row, if there are several) and write a whole list.               *)
(***************************************************************************)
Changing == {r \in Requests : req[r].op \in ConfigOps}

\* The fields of a request that is about to write `list`.
Writing(op, list, i) ==
    [IdleRequest EXCEPT !.step = "save", !.op = op, !.row = i,
                        !.read = IF i = 0 THEN NoConfig ELSE custom[i],
                        !.write = [folders |-> list, updated |-> clock + 1]]

\* The rows `WHERE is_default = false` may return first; 0 if there are none.
CustomRow == IF custom = <<>> THEN {0} ELSE DOMAIN custom

StartChange(r, fields) ==
    /\ MayWork
    /\ Begin(r, fields)
    /\ clock' = clock + 1
    /\ overlap' = (overlap \/ Changing # {})
    /\ UNCHANGED <<conns, runs, remote, custom, asked>>

Replace(r, list) ==
    /\ list # {}
    /\ \E i \in CustomRow : StartChange(r, Writing("replace", list, i))

\* Mutant: the list starts over from the default one.
Extended_Default(f) == DefaultFolders \cup {f}

Extended(f) == ActiveFolders \cup {f}

\* The new folder is scaffolded, when there is a connection, between the
\* reads and the commit.
AddFolder(r, f) ==
    /\ f \notin ActiveFolders
    /\ \E i \in CustomRow :
          LET plan == [Writing("add", Extended(f), i) EXCEPT !.subject = f]
          IN \/ /\ Active = {}
                /\ StartChange(r, plan)
             \/ \E c \in Active :
                   StartChange(r, [plan EXCEPT
                       !.step = "check", !.conn = c, !.repo = conns[c].repo,
                       !.token = conns[c].token, !.todo = {f}])

\* Nothing keeps the last folder from being removed.
RemoveFolder(r, f) ==
    /\ f \in ActiveFolders
    /\ \E i \in CustomRow :
          StartChange(r, [Writing("remove", ActiveFolders \ {f}, i) EXCEPT !.subject = f])

\* What the configuration is to be once this request is answered too.
Asked(s) ==
    CASE s.op = "add" -> asked \cup {s.subject}
      [] s.op = "remove" -> asked \ {s.subject}
      [] s.op = "replace" -> s.write.folders

\* Best effort: the folder is configured whether or not it was scaffolded.
CommitConfig(r) ==
    LET s == req[r]
    IN /\ s.step = "save" /\ s.op \in ConfigOps
       /\ custom' = IF s.row = 0 THEN Append(custom, s.write)
                    ELSE [custom EXCEPT ![s.row] = Flush(@, s.read, s.write)]
       /\ asked' = Asked(s)
       /\ Answer(r)
       /\ UNCHANGED <<conns, runs, remote, clock, overlap>>

(***************************************************************************)
(* Specification                                                           *)
(***************************************************************************)

\* The pod terminates: the transaction is gone, what GitHub did stays.
Dies(r) ==
    /\ req[r].step # "idle"
    /\ Answer(r)
    /\ UNCHANGED <<conns, runs, remote, config>>

BridgeInit ==
    /\ conns = [c \in Conns |-> NoConn]
    /\ custom = <<>>
    /\ runs = <<>>
    /\ remote = [repo \in Repos |-> Already]
    /\ req = [r \in Requests |-> IdleRequest]
    /\ clock = 0
    /\ asked = DefaultFolders
    /\ overlap = FALSE

Starts(r) ==
    \/ \E repo \in Repos, token \in Tokens : StartConnect(r, repo, token)
    \/ \E c \in Conns : \/ \E token \in Tokens : StartRotate(r, c, token)
                        \/ StartDisconnect(r, c) \/ StartScaffold(r, c)
    \/ \E list \in SUBSET Folders : Replace(r, list)
    \/ \E f \in Folders : AddFolder(r, f) \/ RemoveFolder(r, f)

Proceeds(r) ==
    \/ Validate(r) \/ ValidationFails(r) \/ Insert(r)
    \/ \E f \in Folders : CheckFolder(r, f)
    \/ PutFolder(r) \/ PutRefused(r) \/ GitHubUnavailable(r) \/ ScaffoldEnds(r)
    \/ \E c \in Conns : CommitConnect(r, c)
    \/ CommitScaffold(r) \/ CommitRotate(r) \/ CommitDisconnect(r) \/ CommitConfig(r)

BridgeNext == \E r \in Requests : Starts(r) \/ Proceeds(r) \/ Dies(r)

BridgeSpec == BridgeInit /\ [][BridgeNext]_bridgevars

(***************************************************************************)
(* Properties                                                              *)
(***************************************************************************)

\* Rows and requests keep their shape.
BridgeTypeOK ==
    /\ conns \in [Conns -> ConnRow]
    /\ custom \in Seq(ConfigRow)
    /\ runs \in Seq(Run)
    /\ remote \in [Repos -> SUBSET Folders]
    /\ req \in [Requests -> Request]
    /\ clock \in Nat
    /\ asked \subseteq Folders
    /\ overlap \in BOOLEAN

\* FR-1.2 and Scenario 5: the connections are at any time what the abstract
\* link is, although requests validate a token against one state of the
\* table and commit it in another.
linked == {<<conns[c].repo, conns[c].token>> : c \in Active}
Link == INSTANCE RepositoryLink WITH MayPush <- MayPush, linked <- linked
LinkIsKept == Link!Spec

\* At most one connection is active; a request that saw none and is slow
\* does not add a second.
OneActiveConnection == \A c, d \in Active : c = d

\* What was disconnected stays so, whatever was in flight about it.
InactiveIsFinal ==
    [][\A c \in Conns : conns[c].status = "inactive" => conns'[c].status = "inactive"]_bridgevars

\* The folders the runs report to have created in a repository.
CreatedIn(repo) ==
    LET upto[n \in 0..Len(runs)] ==
            IF n = 0 THEN 0
            ELSE upto[n - 1] + (IF conns[runs[n].conn].repo = repo THEN runs[n].created
                                ELSE 0)
    IN upto[Len(runs)]

\* FR-4.7: two runs at once do not both report the folder that one of them
\* created.
CreatedOnce ==
    \A repo \in Repos : CreatedIn(repo) <= Cardinality(remote[repo])

\* The folders are those the answered requests add up to, as long as no two
\* changes of the configuration were in flight together.
ConfigIsWhatWasAsked == ~overlap => ActiveFolders = asked
=============================================================================
