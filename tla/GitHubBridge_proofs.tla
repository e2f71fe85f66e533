------------------------- MODULE GitHubBridge_proofs -------------------------
(***************************************************************************)
(* Proofs about GitHubBridge, for every set of connections, repositories,  *)
(* tokens, folders and requests: the connections implement RepositoryLink, *)
(* the folders configured are those that were asked for, and the runs do   *)
(* not report a folder twice.                                              *)
(***************************************************************************)
EXTENDS GitHubBridge, WellFoundedInduction, FiniteSetTheorems, TLAPS

(***************************************************************************)
(* The inductive invariant                                                 *)
(***************************************************************************)

\* What request s, read earlier, still knows of the connections: the row it
\* read is there and names the same repository, and the token it is about to
\* store was found good for that repository.
Knows(s) ==
    /\ s.step = "insert" => s.op = "connect"
    /\ s.step = "validate" => s.op \in {"connect", "rotate"}
    /\ s.step \in {"check", "put"} => s.op # "rotate"
    /\ s.step = "put" => s.folder \in Folders
    /\ s.step # "idle" /\ s.op \in {"rotate", "disconnect", "scaffold"} =>
          /\ s.conn \in Conns /\ conns[s.conn].status # "absent"
          /\ s.repo = conns[s.conn].repo
    /\ s.step # "idle" /\ s.op = "add" => s.subject \in Folders
    /\ \/ s.op = "connect" /\ s.step \in {"insert", "check", "put", "save"}
       \/ s.op = "rotate" /\ s.step = "save"
       => <<s.repo, s.token>> \in MayPush

RequestsKnow == \A r \in Requests : Knows(req[r])

IsInserting(s) == s.op = "connect" /\ s.step \in {"check", "put", "save"}

\* Whoever holds the entry of the unique index holds it alone.
OneInserting ==
    /\ \A q, r \in Requests : IsInserting(req[q]) /\ IsInserting(req[r]) => q = r
    /\ (\E r \in Requests : IsInserting(req[r])) => Active = {}

\* Time stamps are not in the future, so that the latest row exists.
Stamped ==
    /\ \A i \in DOMAIN custom : custom[i].updated <= clock
    /\ \A r \in Requests : req[r].write.updated <= clock

LinkInv == RequestsKnow /\ OneInserting /\ OneActiveConnection
BridgeInv == BridgeTypeOK /\ LinkInv /\ Stamped

(***************************************************************************)
(* The active folders                                                      *)
(***************************************************************************)

\* A bounded set of numbers has a largest one.
LEMMA Largest ==
    ASSUME NEW S \in SUBSET Nat, S # {}, NEW bound \in Nat, \A n \in S : n <= bound
    PROVE  \E m \in S : \A n \in S : n <= m
<1>. DEFINE T == {t \in Nat : bound - t \in S}
<1>1. T \subseteq Nat /\ T # {}
  <2>1. PICK n \in S : TRUE
    OBVIOUS
  <2>2. bound - n \in Nat /\ bound - (bound - n) = n
    BY <2>1
  <2>3. bound - n \in T
    BY <2>1, <2>2
  <2>. QED
    BY <2>3
<1>2. PICK t \in T : \A u \in T : ~(<<u, t>> \in OpToRel(<, Nat))
  BY <1>1, NatLessThanWellFounded, WFMin
<1>3. \A u \in T : ~(u < t)
  BY <1>1, <1>2 DEF OpToRel
<1>4. t \in Nat /\ bound - t \in S
  OBVIOUS
<1>5. ASSUME NEW n \in S PROVE n <= bound - t
  <2>1. bound - n \in Nat /\ bound - (bound - n) = n /\ n \in Nat
    OBVIOUS
  <2>2. bound - n \in T
    BY <2>1
  <2>3. ~(bound - n < t)
    BY <1>3, <2>2
  <2>. QED
    BY <1>4, <2>1, <2>3
<1>. QED
  BY <1>4, <1>5

\* The configuration in force is a set of folders.
LEMMA ActiveFoldersType ==
    ASSUME BridgeTypeOK, Stamped
    PROVE  ActiveFolders \in SUBSET Folders
<1>1. CASE custom = <<>>
  BY <1>1, BridgeAssumption DEF ActiveFolders
<1>2. CASE custom # <<>>
  <2>. DEFINE rows == {custom[i] : i \in DOMAIN custom}
              times == {row.updated : row \in rows}
  <2>1. rows \subseteq ConfigRow /\ rows # {}
    <3>1. 1 \in DOMAIN custom
      BY <1>2 DEF BridgeTypeOK
    <3>2. custom[1] \in rows
      BY <3>1
    <3>. QED
      BY <3>2 DEF BridgeTypeOK
  <2>2. times \in SUBSET Nat /\ times # {} /\ \A n \in times : n <= clock
    <3>1. \A row \in rows : row.updated \in Nat /\ row.updated <= clock
      BY <2>1 DEF ConfigRow, Stamped
    <3>2. PICK row \in rows : TRUE
      BY <2>1
    <3>3. row.updated \in times
      BY <3>2
    <3>4. times # {}
      BY <3>3
    <3>5. \A n \in times : n \in Nat /\ n <= clock
      BY <3>1
    <3>. QED
      BY <3>4, <3>5
  <2>3. clock \in Nat
    BY DEF BridgeTypeOK
  <2>4. PICK m \in times : \A n \in times : n <= m
    BY <2>2, <2>3, Largest
  <2>5. PICK latest \in rows : latest.updated = m
    BY <2>4
  <2>6. \A row \in rows : row.updated <= latest.updated
    BY <2>4, <2>5
  <2>7. \E row \in rows : \A i \in DOMAIN custom : custom[i].updated <= row.updated
    BY <2>5, <2>6
  <2>8. (CHOOSE row \in rows : \A i \in DOMAIN custom : custom[i].updated <= row.updated)
           \in rows
    BY <2>7
  <2>. QED
    BY <1>2, <2>1, <2>8 DEF ActiveFolders, ConfigRow
<1>. QED
  BY <1>1, <1>2

(***************************************************************************)
(* What a step of a request does to the invariant.  Type and time stamps   *)
(* are left to the actions.                                                *)
(***************************************************************************)

\* A request that leaves the connections alone.
LEMMA RequestMoves ==
    ASSUME BridgeTypeOK, LinkInv, NEW r \in Requests, NEW s,
           req' = [req EXCEPT ![r] = s], conns' = conns, Knows(s),
           IsInserting(s) => \/ IsInserting(req[r])
                             \/ Active = {} /\ \A q \in Requests : ~IsInserting(req[q])
    PROVE  LinkInv' /\ linked' = linked
<1>1. req'[r] = s /\ \A q \in Requests : q # r => req'[q] = req[q]
  BY DEF BridgeTypeOK
<1>2. Active' = Active /\ linked' = linked
  BY DEF Active, linked
<1>3. RequestsKnow'
  BY <1>1 DEF LinkInv, RequestsKnow, Knows
<1>4. OneInserting'
  BY <1>1, <1>2 DEF LinkInv, OneInserting, IsInserting
<1>5. OneActiveConnection'
  BY <1>2 DEF LinkInv, OneActiveConnection
<1>. QED
  BY <1>2, <1>3, <1>4, <1>5 DEF LinkInv

\* A request that has been answered knows nothing and holds nothing.
LEMMA AnsweredKnows == Knows(IdleRequest) /\ ~IsInserting(IdleRequest)
BY DEF Knows, IsInserting, IdleRequest

\* The answer of a request that writes a row which is there: it may change
\* the token and end the connection.
LEMMA RowMoves ==
    ASSUME BridgeTypeOK, LinkInv, NEW r \in Requests, Answer(r),
           NEW c \in Conns, conns[c].status # "absent",
           NEW row \in ConnRow, conns' = [conns EXCEPT ![c] = row],
           row.repo = conns[c].repo, row.status \in {conns[c].status, "inactive"}
    PROVE  LinkInv' /\ Active' \subseteq Active
<1>1. req'[r] = IdleRequest /\ \A q \in Requests : q # r => req'[q] = req[q]
  BY DEF BridgeTypeOK, Answer
<1>2. conns'[c] = row /\ \A d \in Conns : d # c => conns'[d] = conns[d]
  BY DEF BridgeTypeOK
<1>3. Active' \subseteq Active
  BY <1>2 DEF Active
<1>4. row.status # "absent"
  OBVIOUS
<1>5. ASSUME NEW q \in Requests PROVE Knows(req[q])'
  <2>1. CASE q = r
    BY <1>1, <2>1 DEF Knows, IdleRequest
  <2>2. CASE q # r
    <3>1. req'[q] = req[q] /\ Knows(req[q])
      BY <1>1, <2>2 DEF LinkInv, RequestsKnow
    <3>2. \A d \in Conns : /\ conns[d].status # "absent" => conns'[d].status # "absent"
                          /\ conns'[d].repo = conns[d].repo
      BY <1>2, <1>4
    <3>. QED
      BY <3>1, <3>2 DEF Knows
  <2>. QED
    BY <2>1, <2>2
<1>6. OneInserting'
  BY <1>1, <1>3 DEF LinkInv, OneInserting, IsInserting, IdleRequest
<1>7. OneActiveConnection'
  BY <1>3 DEF LinkInv, OneActiveConnection
<1>. QED
  BY <1>3, <1>5, <1>6, <1>7 DEF LinkInv, RequestsKnow

(***************************************************************************)
(* The steps of a request that begin it                                    *)
(***************************************************************************)

LEMMA IdleRequestType == IdleRequest \in Request /\ IdleRequest.write.updated = 0
BY BridgeAssumption DEF IdleRequest, Request, NoConfig, ConfigRow, Steps

\* Beginning a request that is not about the configuration.
LEMMA BeginConnOp ==
    ASSUME BridgeTypeOK, Stamped, NEW r \in Requests, NEW s \in Request, Begin(r, s),
           s.write.updated = 0, UNCHANGED <<conns, runs, remote, config>>
    PROVE  BridgeTypeOK' /\ Stamped'
<1>1. req' \in [Requests -> Request]
  BY DEF BridgeTypeOK, Begin
<1>2. Stamped'
  BY DEF Stamped, BridgeTypeOK, Begin, config
<1>. QED
  BY <1>1, <1>2 DEF BridgeTypeOK, config

LEMMA StartConnectStep ==
    ASSUME BridgeInv, NEW r \in Requests, NEW repo \in Repos, NEW token \in Tokens,
           StartConnect(r, repo, token)
    PROVE  BridgeInv' /\ linked' = linked
<1>. DEFINE s == [IdleRequest EXCEPT !.step = "validate", !.op = "connect",
                                     !.repo = repo, !.token = token]
<1>1. s \in Request /\ s.write.updated = 0
  BY IdleRequestType DEF Request, Steps, ConnOps
<1>2. Knows(s) /\ ~IsInserting(s)
  BY DEF Knows, IsInserting, IdleRequest
<1>3. Begin(r, s)
  BY DEF StartConnect
<1>4. BridgeTypeOK' /\ Stamped'
  BY <1>1, <1>3, BeginConnOp DEF StartConnect, BridgeInv
<1>5. LinkInv' /\ linked' = linked
  BY <1>2, <1>3, RequestMoves DEF StartConnect, Begin, BridgeInv
<1>. QED
  BY <1>4, <1>5 DEF BridgeInv

\* A connection that is read is there, with its repository and its token.
LEMMA AboutType ==
    ASSUME BridgeTypeOK, NEW c \in Active, NEW op \in ConnOps
    PROVE  LET s == About(c, op)
           IN /\ s \in Request /\ s.op = op /\ s.conn = c /\ s.repo = conns[c].repo
              /\ s.step = "idle" /\ s.write.updated = 0
              /\ c \in Conns /\ conns[c].status # "absent"
<1>1. conns[c] \in ConnRow /\ c \in Conns
  BY DEF BridgeTypeOK, Active
<1>. QED
  BY <1>1, IdleRequestType DEF About, Request, ConnRow, ConnOps, Active, IdleRequest

LEMMA StartRotateStep ==
    ASSUME BridgeInv, NEW r \in Requests, NEW c \in Conns, NEW token \in Tokens,
           StartRotate(r, c, token)
    PROVE  BridgeInv' /\ linked' = linked
<1>. DEFINE s == [About(c, "rotate") EXCEPT !.step = "validate", !.token = token]
<1>1. c \in Active /\ Begin(r, s)
  BY DEF StartRotate
<1>2. /\ s \in Request /\ s.step = "validate" /\ s.op = "rotate" /\ s.conn = c
      /\ s.repo = conns[c].repo /\ s.write.updated = 0
  <2>1. LET b == About(c, "rotate")
        IN /\ b \in Request /\ b.op = "rotate" /\ b.conn = c
           /\ b.repo = conns[c].repo /\ b.write.updated = 0
    BY <1>1, AboutType DEF BridgeInv, ConnOps
  <2>2. ASSUME NEW b \in Request
        PROVE  LET t == [b EXCEPT !.step = "validate", !.token = token]
               IN /\ t \in Request /\ t.step = "validate" /\ t.op = b.op
                  /\ t.conn = b.conn /\ t.repo = b.repo /\ t.write = b.write
    <3>. DEFINE t == [b EXCEPT !.step = "validate", !.token = token]
    <3>1. t \in Request
      BY DEF Request, Steps
    <3>2. t.step = "validate" /\ t.op = b.op /\ t.conn = b.conn
      BY DEF Request
    <3>3. t.repo = b.repo /\ t.write = b.write
      BY DEF Request
    <3>. QED
      BY <3>1, <3>2, <3>3
  <2>. QED
    BY <2>1, <2>2
<1>3. Knows(s) /\ ~IsInserting(s)
  BY <1>1, <1>2 DEF Knows, IsInserting, Active
<1>4. BridgeTypeOK' /\ Stamped'
  BY <1>1, <1>2, BeginConnOp DEF StartRotate, BridgeInv
<1>5. LinkInv' /\ linked' = linked
  BY <1>1, <1>3, RequestMoves DEF StartRotate, Begin, BridgeInv
<1>. QED
  BY <1>4, <1>5 DEF BridgeInv

LEMMA StartDisconnectStep ==
    ASSUME BridgeInv, NEW r \in Requests, NEW c \in Conns, StartDisconnect(r, c)
    PROVE  BridgeInv' /\ linked' = linked
<1>. DEFINE s == [About(c, "disconnect") EXCEPT !.step = "save"]
<1>1. c \in Active /\ Begin(r, s)
  BY DEF StartDisconnect
<1>2. /\ s \in Request /\ s.step = "save" /\ s.op = "disconnect" /\ s.conn = c
      /\ s.repo = conns[c].repo /\ s.write.updated = 0
  BY <1>1, AboutType DEF BridgeInv, Request, ConnOps, Steps
<1>3. Knows(s) /\ ~IsInserting(s)
  BY <1>1, <1>2 DEF Knows, IsInserting, Active
<1>4. BridgeTypeOK' /\ Stamped'
  BY <1>1, <1>2, BeginConnOp DEF StartDisconnect, BridgeInv
<1>5. LinkInv' /\ linked' = linked
  BY <1>1, <1>3, RequestMoves DEF StartDisconnect, Begin, BridgeInv
<1>. QED
  BY <1>4, <1>5 DEF BridgeInv

LEMMA StartScaffoldStep ==
    ASSUME BridgeInv, NEW r \in Requests, NEW c \in Conns, StartScaffold(r, c)
    PROVE  BridgeInv' /\ linked' = linked
<1>. DEFINE s == [About(c, "scaffold") EXCEPT !.step = "check", !.todo = ActiveFolders]
<1>1. c \in Active /\ Begin(r, s)
  BY DEF StartScaffold
<1>2. ActiveFolders \in SUBSET Folders
  BY ActiveFoldersType DEF BridgeInv
<1>3. /\ s \in Request /\ s.step = "check" /\ s.op = "scaffold" /\ s.conn = c
      /\ s.repo = conns[c].repo /\ s.write.updated = 0
  <2>1. LET b == About(c, "scaffold")
        IN /\ b \in Request /\ b.op = "scaffold" /\ b.conn = c
           /\ b.repo = conns[c].repo /\ b.write.updated = 0
    BY <1>1, AboutType DEF BridgeInv, ConnOps
  <2>2. ASSUME NEW b \in Request
        PROVE  LET t == [b EXCEPT !.step = "check", !.todo = ActiveFolders]
               IN /\ t \in Request /\ t.step = "check" /\ t.op = b.op
                  /\ t.conn = b.conn /\ t.repo = b.repo /\ t.write = b.write
    <3>. DEFINE t == [b EXCEPT !.step = "check", !.todo = ActiveFolders]
    <3>1. t \in Request
      BY <1>2 DEF Request, Steps
    <3>2. t.step = "check" /\ t.op = b.op /\ t.conn = b.conn
      BY DEF Request
    <3>3. t.repo = b.repo /\ t.write = b.write
      BY DEF Request
    <3>. QED
      BY <3>1, <3>2, <3>3
  <2>. QED
    BY <2>1, <2>2
<1>4. Knows(s) /\ ~IsInserting(s)
  BY <1>1, <1>3 DEF Knows, IsInserting, Active
<1>5. BridgeTypeOK' /\ Stamped'
  BY <1>1, <1>3, BeginConnOp DEF StartScaffold, BridgeInv
<1>6. LinkInv' /\ linked' = linked
  BY <1>1, <1>4, RequestMoves DEF StartScaffold, Begin, BridgeInv
<1>. QED
  BY <1>5, <1>6 DEF BridgeInv

\* What the three changes of the configuration are about to write.
LEMMA WritingType ==
    ASSUME BridgeTypeOK, NEW op \in ConfigOps, NEW list \in SUBSET Folders,
           NEW i \in CustomRow
    PROVE  LET s == Writing(op, list, i)
           IN /\ s \in Request /\ s.step = "save" /\ s.op = op
              /\ s.write.updated = clock + 1
<1>1. i \in Nat /\ (i # 0 => custom[i] \in ConfigRow)
  BY DEF BridgeTypeOK, CustomRow
<1>2. clock + 1 \in Nat
  BY DEF BridgeTypeOK
<1>3. [folders |-> list, updated |-> clock + 1] \in ConfigRow
  BY <1>2 DEF ConfigRow
<1>4. (IF i = 0 THEN NoConfig ELSE custom[i]) \in ConfigRow
  BY <1>1 DEF ConfigRow, NoConfig
<1>5. PICK read \in ConfigRow : read = IF i = 0 THEN NoConfig ELSE custom[i]
  BY <1>4
<1>6. PICK write \in ConfigRow : write = [folders |-> list, updated |-> clock + 1]
  BY <1>3
<1>7. Writing(op, list, i) = [IdleRequest EXCEPT !.step = "save", !.op = op, !.row = i,
                                                !.read = read, !.write = write]
  BY <1>5, <1>6 DEF Writing
<1>8. [IdleRequest EXCEPT !.step = "save", !.op = op, !.row = i, !.read = read,
                          !.write = write] \in Request
  BY <1>1, IdleRequestType DEF Request, Steps
<1>9. Writing(op, list, i).step = "save" /\ Writing(op, list, i).op = op
  BY <1>7, IdleRequestType DEF Request
<1>10. Writing(op, list, i).write = write
  BY <1>7, IdleRequestType DEF Request
<1>11. write.updated = clock + 1
  BY <1>6
<1>. QED
  BY <1>7, <1>8, <1>9, <1>10, <1>11

\* A change of the configuration leaves the connections alone.
LEMMA StartChangeStep ==
    ASSUME BridgeInv, NEW r \in Requests, NEW s \in Request, StartChange(r, s),
           s.op \in ConfigOps, s.step \in {"save", "check"}, s.write.updated = clock + 1,
           s.op = "add" => s.subject \in Folders
    PROVE  BridgeInv' /\ linked' = linked
<1>1. Knows(s) /\ ~IsInserting(s)
  BY DEF Knows, IsInserting, ConfigOps
<1>2. LinkInv' /\ linked' = linked
  BY <1>1, RequestMoves DEF StartChange, Begin, BridgeInv
<1>3. req' \in [Requests -> Request] /\ clock' \in Nat /\ overlap' \in BOOLEAN
  BY DEF StartChange, Begin, BridgeInv, BridgeTypeOK
<1>4. BridgeTypeOK'
  BY <1>3 DEF StartChange, BridgeInv, BridgeTypeOK
<1>5. Stamped'
  <2>1. \A i \in DOMAIN custom : custom[i].updated \in Nat
    <3>1. \A i \in DOMAIN custom : custom[i] \in ConfigRow
      BY DEF BridgeInv, BridgeTypeOK
    <3>. QED
      BY <3>1 DEF ConfigRow
  <2>2. \A q \in Requests : req[q].write.updated \in Nat
    BY DEF BridgeInv, BridgeTypeOK, Request, ConfigRow
  <2>3. clock' = clock + 1 /\ clock \in Nat /\ custom' = custom
    BY DEF StartChange, BridgeInv, BridgeTypeOK
  <2>4. req' = [req EXCEPT ![r] = s] /\ req \in [Requests -> Request]
    BY DEF StartChange, Begin, BridgeInv, BridgeTypeOK
  <2>5. \A i \in DOMAIN custom' : custom'[i].updated <= clock'
    BY <2>1, <2>3 DEF BridgeInv, Stamped
  <2>6. ASSUME NEW q \in Requests PROVE req'[q].write.updated <= clock'
    <3>1. CASE q = r
      BY <2>3, <2>4, <3>1
    <3>2. CASE q # r
      BY <2>2, <2>3, <2>4, <3>2 DEF BridgeInv, Stamped
    <3>. QED
      BY <3>1, <3>2
  <2>. QED
    BY <2>5, <2>6 DEF Stamped
<1>. QED
  BY <1>2, <1>4, <1>5 DEF BridgeInv

LEMMA ReplaceStep ==
    ASSUME BridgeInv, NEW r \in Requests, NEW list \in SUBSET Folders, Replace(r, list)
    PROVE  BridgeInv' /\ linked' = linked
<1>1. PICK i \in CustomRow : StartChange(r, Writing("replace", list, i))
  BY DEF Replace
<1>2. PICK s \in Request : /\ s = Writing("replace", list, i)
                          /\ s.step = "save" /\ s.op = "replace"
                          /\ s.write.updated = clock + 1
  BY WritingType DEF ConfigOps, BridgeInv
<1>. QED
  BY <1>1, <1>2, StartChangeStep DEF ConfigOps

LEMMA RemoveFolderStep ==
    ASSUME BridgeInv, NEW r \in Requests, NEW f \in Folders, RemoveFolder(r, f)
    PROVE  BridgeInv' /\ linked' = linked
<1>. DEFINE plan(i) == Writing("remove", ActiveFolders \ {f}, i)
            s(i) == [plan(i) EXCEPT !.subject = f]
<1>1. PICK i \in CustomRow : StartChange(r, s(i))
  BY DEF RemoveFolder
<1>2. ActiveFolders \ {f} \in SUBSET Folders
  BY ActiveFoldersType DEF BridgeInv
<1>3. /\ plan(i) \in Request /\ plan(i).step = "save" /\ plan(i).op = "remove"
      /\ plan(i).write.updated = clock + 1
  BY <1>2, WritingType DEF ConfigOps, BridgeInv
<1>4. \A b \in Request : LET t == [b EXCEPT !.subject = f]
                        IN /\ t \in Request /\ t.step = b.step /\ t.op = b.op
                           /\ t.write = b.write
  BY DEF Request
<1>5. s(i) \in Request /\ s(i).step = "save" /\ s(i).op = "remove"
      /\ s(i).write.updated = clock + 1
  BY <1>3, <1>4
<1>. QED
  BY <1>1, <1>5, StartChangeStep DEF ConfigOps

LEMMA AddFolderStep ==
    ASSUME BridgeInv, NEW r \in Requests, NEW f \in Folders, AddFolder(r, f)
    PROVE  BridgeInv' /\ linked' = linked
<1>. DEFINE base(i) == Writing("add", Extended(f), i)
            plan(i) == [base(i) EXCEPT !.subject = f]
            full(i, c) == [plan(i) EXCEPT !.step = "check", !.conn = c,
                              !.repo = conns[c].repo, !.token = conns[c].token,
                              !.todo = {f}]
<1>1. PICK i \in CustomRow : \/ StartChange(r, plan(i))
                             \/ \E c \in Active : StartChange(r, full(i, c))
  BY DEF AddFolder
<1>2. Extended(f) \in SUBSET Folders
  BY ActiveFoldersType DEF BridgeInv, Extended
<1>3. /\ base(i) \in Request /\ base(i).step = "save" /\ base(i).op = "add"
      /\ base(i).write.updated = clock + 1
  BY <1>2, WritingType DEF ConfigOps, BridgeInv
<1>4. \A b \in Request : LET t == [b EXCEPT !.subject = f]
                        IN /\ t \in Request /\ t.step = b.step /\ t.op = b.op
                           /\ t.write = b.write /\ t.subject = f
  BY DEF Request
<1>5. /\ plan(i) \in Request /\ plan(i).step = "save" /\ plan(i).op = "add"
      /\ plan(i).write.updated = clock + 1 /\ plan(i).subject = f
  BY <1>3, <1>4
<1>6. CASE StartChange(r, plan(i))
  BY <1>5, <1>6, StartChangeStep DEF ConfigOps
<1>7. ASSUME NEW c \in Active, StartChange(r, full(i, c))
      PROVE  BridgeInv' /\ linked' = linked
  <2>1. c \in Conns /\ conns[c] \in ConnRow
    BY DEF Active, BridgeInv, BridgeTypeOK
  <2>2. conns[c].repo \in Repos \cup {Nothing} /\ conns[c].token \in Tokens \cup {Nothing}
    BY <2>1 DEF ConnRow
  <2>3. PICK b \in Request : b = plan(i)
    BY <1>5
  <2>4. PICK repo \in Repos \cup {Nothing}, token \in Tokens \cup {Nothing} :
           repo = conns[c].repo /\ token = conns[c].token
    BY <2>2
  <2>5. PICK t : t = [b EXCEPT !.step = "check", !.conn = c, !.repo = repo,
                               !.token = token, !.todo = {f}]
    OBVIOUS
  <2>6. t \in Request
    BY <2>1, <2>5 DEF Request, Steps
  <2>7. t.step = "check" /\ t.op = b.op
    BY <2>5 DEF Request
  <2>8. t.write = b.write /\ t.subject = b.subject
    BY <2>5 DEF Request
  <2>9. b.op = "add" /\ b.write.updated = clock + 1 /\ b.subject = f
    BY <1>5, <2>3
  <2>10. StartChange(r, t)
    BY <1>7, <2>3, <2>4, <2>5
  <2>11. /\ t.op \in ConfigOps /\ t.step \in {"save", "check"}
         /\ t.write.updated = clock + 1 /\ t.subject \in Folders
    BY <2>7, <2>8, <2>9 DEF ConfigOps
  <2>. QED
    BY <2>6, <2>10, <2>11, StartChangeStep
<1>. QED
  BY <1>1, <1>6, <1>7

(***************************************************************************)
(* The steps between a request's first and its commit                      *)
(***************************************************************************)

\* A step that changes the request and at most the repository.
LEMMA QuietStep ==
    ASSUME BridgeInv, NEW r \in Requests, NEW s \in Request,
           req' = [req EXCEPT ![r] = s], UNCHANGED <<conns, runs, config>>,
           remote' \in [Repos -> SUBSET Folders], s.write.updated <= clock, Knows(s),
           IsInserting(s) => \/ IsInserting(req[r])
                             \/ Active = {} /\ \A q \in Requests : ~IsInserting(req[q])
    PROVE  BridgeInv' /\ linked' = linked
<1>1. LinkInv' /\ linked' = linked
  BY RequestMoves DEF BridgeInv
<1>2. BridgeTypeOK'
  BY DEF BridgeInv, BridgeTypeOK, config
<1>3. Stamped'
  BY DEF BridgeInv, BridgeTypeOK, Stamped, config
<1>. QED
  BY <1>1, <1>2, <1>3 DEF BridgeInv

\* A request that is answered without a commit, or dies.
LEMMA AnswerStep ==
    ASSUME BridgeInv, NEW r \in Requests, Answer(r), UNCHANGED <<conns, runs, remote, config>>
    PROVE  BridgeInv' /\ linked' = linked
<1>1. IdleRequest \in Request /\ IdleRequest.write.updated <= clock
  BY IdleRequestType DEF BridgeInv, BridgeTypeOK
<1>2. remote' \in [Repos -> SUBSET Folders]
  BY DEF BridgeInv, BridgeTypeOK
<1>. QED
  BY <1>1, <1>2, AnsweredKnows, QuietStep DEF Answer

\* Scaffolding changes nothing a request knows of its connection.
LEMMA ScaffoldingStep ==
    ASSUME BridgeInv, NEW r \in Requests, NEW s \in Request,
           req' = [req EXCEPT ![r] = s], UNCHANGED <<conns, runs, config>>,
           remote' \in [Repos -> SUBSET Folders],
           req[r].step \in {"check", "put"}, s.step \in {"check", "put", "save"},
           s.step = "put" => s.folder \in Folders,
           s.op = req[r].op, s.conn = req[r].conn, s.repo = req[r].repo,
           s.token = req[r].token, s.write = req[r].write, s.subject = req[r].subject
    PROVE  BridgeInv' /\ linked' = linked
<1>1. Knows(req[r]) /\ req[r].write.updated <= clock
  BY DEF BridgeInv, LinkInv, RequestsKnow, Stamped
<1>2. Knows(s) /\ (IsInserting(s) => IsInserting(req[r]))
  BY <1>1 DEF Knows, IsInserting
<1>. QED
  BY <1>1, <1>2, QuietStep

LEMMA ValidateStep ==
    ASSUME BridgeInv, NEW r \in Requests, Validate(r)
    PROVE  BridgeInv' /\ linked' = linked
<1>1. PICK q \in Request : q = req[r]
  BY DEF BridgeInv, BridgeTypeOK
<1>2. q.step = "validate" /\ Grants(q.repo, q.token) /\ Knows(q) /\ q.write.updated <= clock
  BY <1>1 DEF Validate, BridgeInv, LinkInv, RequestsKnow, Stamped
<1>3. PICK s : s = [q EXCEPT !.step = IF q.op = "connect" THEN "insert" ELSE "save"]
  OBVIOUS
<1>4. s \in Request /\ s.step = IF q.op = "connect" THEN "insert" ELSE "save"
  BY <1>3 DEF Request, Steps
<1>5. s.op = q.op /\ s.conn = q.conn /\ s.repo = q.repo /\ s.token = q.token
  BY <1>3 DEF Request
<1>6. s.write = q.write
  BY <1>3 DEF Request
<1>7. req' = [req EXCEPT ![r] = s]
  BY <1>1, <1>3 DEF Validate, Goto, BridgeInv, BridgeTypeOK
<1>8. Knows(s) /\ ~IsInserting(s)
  BY <1>2, <1>4, <1>5 DEF Knows, IsInserting, Grants
<1>9. remote' \in [Repos -> SUBSET Folders]
  BY DEF Validate, BridgeInv, BridgeTypeOK
<1>. QED
  BY <1>2, <1>4, <1>6, <1>7, <1>8, <1>9, QuietStep DEF Validate

LEMMA InsertStep ==
    ASSUME BridgeInv, NEW r \in Requests, Insert(r)
    PROVE  BridgeInv' /\ linked' = linked
<1>1. CASE Conflicts(r) \/ ActiveFolders = {}
  BY <1>1, AnswerStep DEF Insert
<1>2. CASE ~(Conflicts(r) \/ ActiveFolders = {})
  <2>1. PICK q \in Request : q = req[r]
    BY DEF BridgeInv, BridgeTypeOK
  <2>2. q.step = "insert" /\ Knows(q) /\ q.write.updated <= clock
    BY <2>1 DEF Insert, BridgeInv, LinkInv, RequestsKnow, Stamped
  <2>3. PICK todo \in SUBSET Folders : todo = ActiveFolders
    BY ActiveFoldersType DEF BridgeInv
  <2>4. PICK s : s = [q EXCEPT !.step = "check", !.todo = todo]
    OBVIOUS
  <2>5. s \in Request /\ s.step = "check" /\ s.op = q.op
    BY <2>4 DEF Request, Steps
  <2>6. s.conn = q.conn /\ s.repo = q.repo /\ s.token = q.token
    BY <2>4 DEF Request
  <2>7. s.write = q.write
    BY <2>4 DEF Request
  <2>8. req' = [req EXCEPT ![r] = s]
    BY <1>2, <2>1, <2>3, <2>4 DEF Insert, BridgeInv, BridgeTypeOK
  <2>9. Knows(s)
    BY <2>2, <2>5, <2>6 DEF Knows
  <2>10. Active = {} /\ \A p \in Requests : ~IsInserting(req[p])
    BY <1>2 DEF Insert, Conflicts, Inserting, IsInserting
  <2>11. remote' \in [Repos -> SUBSET Folders]
    BY DEF Insert, BridgeInv, BridgeTypeOK
  <2>. QED
    BY <2>2, <2>5, <2>7, <2>8, <2>9, <2>10, <2>11, QuietStep DEF Insert
<1>. QED
  BY <1>1, <1>2

\* Requests s and q are about the same things.
SameSubject(s, q) ==
    /\ s.op = q.op /\ s.conn = q.conn /\ s.repo = q.repo /\ s.token = q.token
    /\ s.write = q.write /\ s.subject = q.subject

LEMMA DoneType ==
    ASSUME NEW q \in Request, NEW f
    PROVE  Done(q, f) \in Request /\ Done(q, f).step = "check" /\ SameSubject(Done(q, f), q)
<1>1. PICK s : s = Done(q, f)
  OBVIOUS
<1>2. s \in Request /\ s.step = "check"
  BY <1>1, BridgeAssumption DEF Done, Request, Steps
<1>3. s.op = q.op /\ s.conn = q.conn /\ s.repo = q.repo
  BY <1>1 DEF Done, Request
<1>4. s.token = q.token /\ s.write = q.write /\ s.subject = q.subject
  BY <1>1 DEF Done, Request
<1>. QED
  BY <1>1, <1>2, <1>3, <1>4 DEF SameSubject

\* What GitHub's answer to a PUT makes of a request.
LEMMA PutAnswerType ==
    ASSUME NEW q \in Request
    PROVE  /\ PutAnswer(q) \in Request /\ PutAnswer(q).step = "check"
           /\ SameSubject(PutAnswer(q), q)
<1>1. PICK d \in Request : d = Done(q, q.folder) /\ d.step = "check" /\ SameSubject(d, q)
  BY DoneType
<1>2. CASE q.folder \in remote[q.repo]
  BY <1>1, <1>2 DEF PutAnswer
<1>3. CASE q.folder \notin remote[q.repo]
  <2>1. PICK s : s = [d EXCEPT !.created = @ + 1]
    OBVIOUS
  <2>2. s \in Request /\ s.step = "check"
    BY <1>1, <2>1 DEF Request
  <2>3. s.op = d.op /\ s.conn = d.conn /\ s.repo = d.repo
    BY <2>1 DEF Request
  <2>4. s.token = d.token /\ s.write = d.write /\ s.subject = d.subject
    BY <2>1 DEF Request
  <2>5. s = PutAnswer(q)
    BY <1>1, <1>3, <2>1 DEF PutAnswer
  <2>. QED
    BY <1>1, <2>2, <2>3, <2>4, <2>5 DEF SameSubject
<1>. QED
  BY <1>2, <1>3

LEMMA CutShortType ==
    ASSUME NEW q \in Request
    PROVE  CutShort(q) \in Request /\ CutShort(q).step = "save" /\ SameSubject(CutShort(q), q)
<1>1. PICK s : s = CutShort(q)
  OBVIOUS
<1>2. s \in Request /\ s.step = "save"
  BY <1>1, BridgeAssumption DEF CutShort, Request, Steps
<1>3. s.op = q.op /\ s.conn = q.conn /\ s.repo = q.repo
  BY <1>1 DEF CutShort, Request
<1>4. s.token = q.token /\ s.write = q.write /\ s.subject = q.subject
  BY <1>1 DEF CutShort, Request
<1>. QED
  BY <1>1, <1>2, <1>3, <1>4 DEF SameSubject

LEMMA CheckFolderStep ==
    ASSUME BridgeInv, NEW r \in Requests, NEW f \in Folders, CheckFolder(r, f)
    PROVE  BridgeInv' /\ linked' = linked
<1>1. PICK q \in Request : q = req[r]
  BY DEF BridgeInv, BridgeTypeOK
<1>2. q.step = "check" /\ remote' \in [Repos -> SUBSET Folders]
  BY <1>1 DEF CheckFolder, BridgeInv, BridgeTypeOK
<1>3. CASE f \in remote[q.repo]
  <2>1. PICK s \in Request : s = Done(q, f) /\ s.step = "check" /\ SameSubject(s, q)
    BY DoneType
  <2>2. req' = [req EXCEPT ![r] = s]
    BY <1>1, <1>3, <2>1 DEF CheckFolder
  <2>. QED
    BY <1>1, <1>2, <2>1, <2>2, ScaffoldingStep DEF SameSubject, CheckFolder
<1>4. CASE f \notin remote[q.repo]
  <2>1. PICK s : s = [q EXCEPT !.step = "put", !.folder = f]
    OBVIOUS
  <2>2. s \in Request /\ s.step = "put" /\ s.folder = f
    BY <2>1 DEF Request, Steps
  <2>3. s.op = q.op /\ s.conn = q.conn /\ s.repo = q.repo
    BY <2>1 DEF Request
  <2>4. s.token = q.token /\ s.write = q.write /\ s.subject = q.subject
    BY <2>1 DEF Request
  <2>5. req' = [req EXCEPT ![r] = s]
    BY <1>1, <1>4, <2>1 DEF CheckFolder
  <2>. QED
    BY <1>1, <1>2, <2>2, <2>3, <2>4, <2>5, ScaffoldingStep DEF CheckFolder
<1>. QED
  BY <1>3, <1>4

\* A created folder is a folder.
LEMMA CreatedType ==
    ASSUME BridgeInv, NEW r \in Requests, req[r].step = "put"
    PROVE  [remote EXCEPT ![req[r].repo] = @ \cup {req[r].folder}]
              \in [Repos -> SUBSET Folders]
<1>1. req[r].folder \in Folders
  BY DEF BridgeInv, LinkInv, RequestsKnow, Knows
<1>2. remote \in [Repos -> SUBSET Folders]
  BY DEF BridgeInv, BridgeTypeOK
<1>. QED
  BY <1>1, <1>2

LEMMA PutSteps ==
    ASSUME BridgeInv, NEW r \in Requests, PutFolder(r) \/ PutRefused(r)
    PROVE  BridgeInv' /\ linked' = linked
<1>1. PICK q \in Request : q = req[r]
  BY DEF BridgeInv, BridgeTypeOK
<1>2. CASE PutFolder(r)
  <2>1. PICK s \in Request : s = PutAnswer(q) /\ s.step = "check" /\ SameSubject(s, q)
    BY PutAnswerType
  <2>2. q.step = "put" /\ req' = [req EXCEPT ![r] = s]
    BY <1>1, <1>2, <2>1 DEF PutFolder
  <2>3. remote' \in [Repos -> SUBSET Folders]
    BY <1>1, <1>2, <2>2, CreatedType DEF PutFolder
  <2>. QED
    BY <1>1, <1>2, <2>1, <2>2, <2>3, ScaffoldingStep DEF SameSubject, PutFolder
<1>3. CASE PutRefused(r)
  <2>1. PICK s \in Request : s = Done(q, q.folder) /\ s.step = "check" /\ SameSubject(s, q)
    BY DoneType
  <2>2. q.step = "put" /\ req' = [req EXCEPT ![r] = s]
    BY <1>1, <1>3, <2>1 DEF PutRefused
  <2>3. remote' \in [Repos -> SUBSET Folders]
    BY <1>3 DEF PutRefused, BridgeInv, BridgeTypeOK
  <2>. QED
    BY <1>1, <1>3, <2>1, <2>2, <2>3, ScaffoldingStep DEF SameSubject, PutRefused
<1>. QED
  BY <1>2, <1>3

LEMMA ScaffoldingStops ==
    ASSUME BridgeInv, NEW r \in Requests, GitHubUnavailable(r) \/ ScaffoldEnds(r)
    PROVE  BridgeInv' /\ linked' = linked
<1>1. PICK q \in Request : q = req[r]
  BY DEF BridgeInv, BridgeTypeOK
<1>2. CASE GitHubUnavailable(r)
  <2>1. PICK s \in Request : s = CutShort(q) /\ s.step = "save" /\ SameSubject(s, q)
    BY CutShortType
  <2>2. q.step \in {"check", "put"} /\ req' = [req EXCEPT ![r] = s]
    BY <1>1, <1>2, <2>1 DEF GitHubUnavailable
  <2>3. remote \in [Repos -> SUBSET Folders]
    BY DEF BridgeInv, BridgeTypeOK
  <2>4. remote' \in [Repos -> SUBSET Folders]
    BY <1>2, <2>3, CreatedType DEF GitHubUnavailable
  <2>. QED
    BY <1>1, <1>2, <2>1, <2>2, <2>4, ScaffoldingStep DEF SameSubject, GitHubUnavailable
<1>3. CASE ScaffoldEnds(r)
  <2>1. PICK s : s = [q EXCEPT !.step = "save"]
    OBVIOUS
  <2>2. s \in Request /\ s.step = "save"
    BY <2>1 DEF Request, Steps
  <2>3. s.op = q.op /\ s.conn = q.conn /\ s.repo = q.repo
    BY <2>1 DEF Request
  <2>4. s.token = q.token /\ s.write = q.write /\ s.subject = q.subject
    BY <2>1 DEF Request
  <2>5. q.step = "check" /\ req' = [req EXCEPT ![r] = s]
    BY <1>1, <1>3, <2>1 DEF ScaffoldEnds, Goto, BridgeInv, BridgeTypeOK
  <2>6. remote' \in [Repos -> SUBSET Folders]
    BY <1>3 DEF ScaffoldEnds, BridgeInv, BridgeTypeOK
  <2>. QED
    BY <1>1, <1>3, <2>2, <2>3, <2>4, <2>5, <2>6, ScaffoldingStep DEF ScaffoldEnds
<1>. QED
  BY <1>2, <1>3

(***************************************************************************)
(* Commits                                                                 *)
(***************************************************************************)

\* What a commit leaves behind, apart from the connections.
LEMMA CommitTypes ==
    ASSUME BridgeTypeOK, Stamped, NEW r \in Requests, Answer(r),
           conns' \in [Conns -> ConnRow], runs' \in Seq(Run), UNCHANGED <<remote, config>>
    PROVE  BridgeTypeOK' /\ Stamped'
<1>1. req' \in [Requests -> Request]
  BY IdleRequestType DEF BridgeTypeOK, Answer
<1>2. BridgeTypeOK'
  BY <1>1 DEF BridgeTypeOK, config
<1>3. Stamped'
  <2>1. req' = [req EXCEPT ![r] = IdleRequest] /\ IdleRequest.write.updated <= clock
    BY IdleRequestType DEF Answer, BridgeTypeOK
  <2>. QED
    BY <2>1 DEF Stamped, BridgeTypeOK, config
<1>. QED
  BY <1>2, <1>3

LEMMA RunType ==
    ASSUME BridgeTypeOK, NEW r \in Requests, NEW c \in Conns
    PROVE  Append(runs, RunOf(req[r], c)) \in Seq(Run)
<1>1. req[r].created \in Nat
  BY DEF BridgeTypeOK, Request
<1>2. RunOf(req[r], c) \in Run
  BY <1>1 DEF RunOf, Run
<1>. QED
  BY <1>2 DEF BridgeTypeOK

\* The one connection there is then is the one that was made.
LEMMA CommitConnectStep ==
    ASSUME BridgeInv, NEW r \in Requests, NEW c \in Conns, CommitConnect(r, c)
    PROVE  BridgeInv' /\ Link!Connect
<1>. DEFINE row == [status |-> "active", repo |-> req[r].repo, token |-> req[r].token,
                    scaffolded |-> ~req[r].failed]
<1>1. /\ req[r].step = "save" /\ req[r].op = "connect" /\ conns[c].status = "absent"
      /\ conns' = [conns EXCEPT ![c] = row] /\ Answer(r)
      /\ UNCHANGED <<remote, config>>
  BY DEF CommitConnect, Fresh
<1>2. IsInserting(req[r]) /\ Active = {}
  BY <1>1 DEF IsInserting, BridgeInv, LinkInv, OneInserting
<1>3. <<req[r].repo, req[r].token>> \in MayPush
  BY <1>1 DEF BridgeInv, LinkInv, RequestsKnow, Knows
<1>4. req[r].repo \in Repos /\ req[r].token \in Tokens /\ req[r].failed \in BOOLEAN
  BY <1>3, BridgeAssumption DEF BridgeInv, BridgeTypeOK, Request
<1>5. row \in ConnRow
  BY <1>4 DEF ConnRow
<1>6. conns' \in [Conns -> ConnRow] /\ conns'[c] = row
      /\ \A d \in Conns : d # c => conns'[d] = conns[d]
  BY <1>1, <1>5 DEF BridgeInv, BridgeTypeOK
<1>7. runs' \in Seq(Run)
  BY RunType DEF CommitConnect, BridgeInv
<1>8. BridgeTypeOK' /\ Stamped'
  BY <1>1, <1>6, <1>7, CommitTypes DEF BridgeInv
<1>9. Active' = {c}
  BY <1>2, <1>6 DEF Active
<1>10. req'[r] = IdleRequest /\ \A q \in Requests : q # r => req'[q] = req[q]
  BY <1>1 DEF Answer, BridgeInv, BridgeTypeOK
<1>11. ASSUME NEW q \in Requests PROVE Knows(req[q])'
  <2>1. CASE q = r
    BY <1>10, <2>1 DEF Knows, IdleRequest
  <2>2. CASE q # r
    <3>1. req'[q] = req[q] /\ Knows(req[q])
      BY <1>10, <2>2 DEF BridgeInv, LinkInv, RequestsKnow
    <3>2. \A d \in Conns : conns[d].status # "absent" => conns'[d] = conns[d]
      BY <1>1, <1>6
    <3>. QED
      BY <3>1, <3>2 DEF Knows
  <2>. QED
    BY <2>1, <2>2
<1>12. \A q \in Requests : ~IsInserting(req'[q])
  BY <1>2, <1>10, AnsweredKnows DEF BridgeInv, LinkInv, OneInserting
<1>13. LinkInv'
  BY <1>9, <1>11, <1>12 DEF LinkInv, RequestsKnow, OneInserting, OneActiveConnection,
                            IsInserting
<1>14. linked = {} /\ linked' = {<<req[r].repo, req[r].token>>}
  BY <1>2, <1>6, <1>9 DEF linked
<1>. QED
  BY <1>3, <1>8, <1>13, <1>14 DEF BridgeInv, Link!Connect

\* The commits that update the row the request read.
LEMMA CommitRow ==
    ASSUME BridgeInv, NEW r \in Requests, Answer(r), UNCHANGED <<remote, config>>,
           NEW c \in Conns, conns[c].status # "absent", NEW row \in ConnRow,
           conns' = [conns EXCEPT ![c] = row], row.repo = conns[c].repo,
           row.status \in {conns[c].status, "inactive"}, runs' \in Seq(Run)
    PROVE  /\ BridgeInv'
           /\ conns'[c] = row /\ \A d \in Conns : d # c => conns'[d] = conns[d]
           /\ Active' \subseteq Active
<1>1. LinkInv' /\ Active' \subseteq Active
  BY RowMoves DEF BridgeInv
<1>2. /\ conns' \in [Conns -> ConnRow] /\ conns'[c] = row
      /\ \A d \in Conns : d # c => conns'[d] = conns[d]
  BY DEF BridgeInv, BridgeTypeOK
<1>3. BridgeTypeOK' /\ Stamped'
  BY <1>2, CommitTypes DEF BridgeInv
<1>. QED
  BY <1>1, <1>2, <1>3 DEF BridgeInv

\* What a request about a connection knows of it when it commits.
LEMMA Commits ==
    ASSUME BridgeInv, NEW r \in Requests, req[r].step = "save",
           req[r].op \in {"rotate", "disconnect", "scaffold"}
    PROVE  LET c == req[r].conn
           IN /\ c \in Conns /\ conns[c] \in ConnRow /\ conns[c].status # "absent"
              /\ req[r].repo = conns[c].repo
              /\ req[r].op = "rotate" => <<req[r].repo, req[r].token>> \in MayPush
<1>1. Knows(req[r])
  BY DEF BridgeInv, LinkInv, RequestsKnow
<1>. QED
  BY <1>1 DEF Knows, BridgeInv, BridgeTypeOK

\* What InactiveIsFinal says of one step.
InactiveStays ==
    \A c \in Conns : conns[c].status = "inactive" => conns'[c].status = "inactive"

LEMMA CommitScaffoldStep ==
    ASSUME BridgeInv, NEW r \in Requests, CommitScaffold(r)
    PROVE  BridgeInv' /\ linked' = linked /\ InactiveStays
<1>. DEFINE c == req[r].conn
<1>1. c \in Conns /\ conns[c] \in ConnRow /\ conns[c].status # "absent"
  BY Commits DEF CommitScaffold
<1>2. PICK row \in ConnRow :
         /\ row.status = conns[c].status /\ row.repo = conns[c].repo
         /\ row.token = conns[c].token /\ conns' = [conns EXCEPT ![c] = row]
  <2>1. CASE req[r].failed
    BY <1>1, <2>1 DEF CommitScaffold, BridgeInv, BridgeTypeOK
  <2>2. CASE ~req[r].failed
    <3>1. PICK row : row = [conns[c] EXCEPT !.scaffolded = TRUE]
      OBVIOUS
    <3>2. row \in ConnRow /\ row.status = conns[c].status
      BY <1>1, <3>1 DEF ConnRow
    <3>3. row.repo = conns[c].repo /\ row.token = conns[c].token
      BY <1>1, <3>1 DEF ConnRow
    <3>4. conns' = [conns EXCEPT ![c] = row]
      BY <2>2, <3>1 DEF CommitScaffold
    <3>. QED
      BY <3>2, <3>3, <3>4
  <2>. QED
    BY <2>1, <2>2
<1>3. runs' \in Seq(Run)
  BY <1>1, RunType DEF CommitScaffold, BridgeInv
<1>4. /\ BridgeInv'
      /\ conns'[c] = row /\ \A d \in Conns : d # c => conns'[d] = conns[d]
  BY <1>1, <1>2, <1>3, CommitRow DEF CommitScaffold
<1>5. \A d \in Conns : /\ conns'[d].status = conns[d].status
                      /\ conns'[d].repo = conns[d].repo
                      /\ conns'[d].token = conns[d].token
  BY <1>2, <1>4
<1>6. linked' = linked
  BY <1>5 DEF linked, Active
<1>. QED
  BY <1>4, <1>5, <1>6 DEF InactiveStays

\* Only the token of an active connection counts; that of an inactive one
\* changes nothing of the link.
LEMMA CommitRotateStep ==
    ASSUME BridgeInv, NEW r \in Requests, CommitRotate(r)
    PROVE  BridgeInv' /\ (Link!Rotate \/ linked' = linked) /\ InactiveStays
<1>. DEFINE c == req[r].conn
<1>1. /\ c \in Conns /\ conns[c] \in ConnRow /\ conns[c].status # "absent"
      /\ req[r].repo = conns[c].repo /\ <<req[r].repo, req[r].token>> \in MayPush
  BY Commits DEF CommitRotate
<1>2. req[r].token \in Tokens
  BY <1>1, BridgeAssumption
<1>3. PICK row : row = [conns[c] EXCEPT !.token = req[r].token]
  OBVIOUS
<1>4. row \in ConnRow /\ row.token = req[r].token
  BY <1>1, <1>2, <1>3 DEF ConnRow
<1>5. row.status = conns[c].status /\ row.repo = conns[c].repo
  BY <1>1, <1>3 DEF ConnRow
<1>6. conns' = [conns EXCEPT ![c] = row]
  BY <1>1, <1>3 DEF CommitRotate, RotatedRows, Rotated, BridgeInv, BridgeTypeOK
<1>7. runs' \in Seq(Run)
  BY DEF CommitRotate, BridgeInv, BridgeTypeOK
<1>8. /\ BridgeInv'
      /\ conns'[c] = row /\ \A d \in Conns : d # c => conns'[d] = conns[d]
  BY <1>1, <1>4, <1>5, <1>6, <1>7, CommitRow DEF CommitRotate
<1>9. \A d \in Conns : conns'[d].status = conns[d].status
  BY <1>5, <1>8
<1>10. Active' = Active
  BY <1>9 DEF Active
<1>11. CASE c \in Active
  <2>1. Active = {c}
    BY <1>11 DEF BridgeInv, LinkInv, OneActiveConnection, Active
  <2>2. /\ linked = {<<conns[c].repo, conns[c].token>>}
        /\ linked' = {<<row.repo, row.token>>}
    BY <1>8, <1>10, <2>1 DEF linked
  <2>3. <<row.repo, row.token>> \in MayPush /\ row.repo = conns[c].repo
    BY <1>1, <1>4, <1>5
  <2>. QED
    BY <1>8, <1>9, <2>2, <2>3 DEF Link!Rotate, InactiveStays
<1>12. CASE c \notin Active
  <2>1. linked' = linked
    BY <1>8, <1>10, <1>12 DEF linked, Active
  <2>. QED
    BY <1>8, <1>9, <2>1 DEF InactiveStays
<1>. QED
  BY <1>11, <1>12

LEMMA CommitDisconnectStep ==
    ASSUME BridgeInv, NEW r \in Requests, CommitDisconnect(r)
    PROVE  BridgeInv' /\ (Link!Disconnect \/ linked' = linked) /\ InactiveStays
<1>. DEFINE c == req[r].conn
<1>1. c \in Conns /\ conns[c] \in ConnRow /\ conns[c].status # "absent"
  BY Commits DEF CommitDisconnect
<1>2. PICK row : row = [conns[c] EXCEPT !.status = "inactive"]
  OBVIOUS
<1>3. row \in ConnRow /\ row.status = "inactive" /\ row.repo = conns[c].repo
  BY <1>1, <1>2 DEF ConnRow
<1>4. conns' = [conns EXCEPT ![c] = row]
  BY <1>1, <1>2 DEF CommitDisconnect, Disconnected, BridgeInv, BridgeTypeOK
<1>5. runs' \in Seq(Run)
  BY DEF CommitDisconnect, BridgeInv, BridgeTypeOK
<1>6. /\ BridgeInv' /\ Active' \subseteq Active
      /\ conns'[c] = row /\ \A d \in Conns : d # c => conns'[d] = conns[d]
  BY <1>1, <1>3, <1>4, <1>5, CommitRow DEF CommitDisconnect
<1>7. InactiveStays
  BY <1>3, <1>6 DEF InactiveStays
<1>8. CASE c \in Active
  <2>1. Active = {c} /\ Active' = {}
    BY <1>3, <1>6, <1>8 DEF BridgeInv, LinkInv, OneActiveConnection, Active
  <2>2. linked # {} /\ linked' = {}
    BY <2>1 DEF linked
  <2>. QED
    BY <1>6, <1>7, <2>2 DEF Link!Disconnect
<1>9. CASE c \notin Active
  <2>1. Active' = Active /\ \A d \in Active : conns'[d] = conns[d]
    BY <1>3, <1>6, <1>9 DEF Active
  <2>2. linked' = linked
    BY <2>1 DEF linked
  <2>. QED
    BY <1>6, <1>7, <2>2
<1>. QED
  BY <1>8, <1>9

LEMMA CommitConfigStep ==
    ASSUME BridgeInv, NEW r \in Requests, CommitConfig(r)
    PROVE  BridgeInv' /\ linked' = linked
<1>. DEFINE s == req[r]
<1>1. s \in Request /\ s.write \in ConfigRow /\ s.read \in ConfigRow /\ s.row \in Nat
  BY DEF BridgeInv, BridgeTypeOK, Request
<1>2. custom \in Seq(ConfigRow) /\ clock \in Nat
  BY DEF BridgeInv, BridgeTypeOK
<1>3. \A row \in ConfigRow : LET f == Flush(row, s.read, s.write)
                             IN /\ f \in ConfigRow
                                /\ f.updated \in {row.updated, s.write.updated}
  BY <1>1 DEF Flush, ConfigRow
<1>4. s.write.updated <= clock
  BY DEF BridgeInv, Stamped
<1>5. custom' \in Seq(ConfigRow) /\ \A i \in DOMAIN custom' : custom'[i].updated <= clock
  <2>1. CASE s.row = 0
    <3>1. PICK new \in ConfigRow : new = s.write /\ new.updated <= clock
      BY <1>1, <1>4
    <3>2. custom' = Append(custom, new)
      BY <2>1, <3>1 DEF CommitConfig
    <3>3. custom' \in Seq(ConfigRow) /\ DOMAIN custom' = 1 .. Len(custom) + 1
      BY <1>2, <3>2
    <3>4. ASSUME NEW i \in DOMAIN custom' PROVE custom'[i].updated <= clock
      <4>1. CASE i = Len(custom) + 1
        BY <1>2, <3>1, <3>2, <4>1
      <4>2. CASE i # Len(custom) + 1
        <5>1. i \in DOMAIN custom /\ custom'[i] = custom[i]
          BY <1>2, <3>2, <3>3, <4>2
        <5>. QED
          BY <5>1 DEF BridgeInv, Stamped
      <4>. QED
        BY <4>1, <4>2
    <3>. QED
      BY <3>3, <3>4
  <2>2. CASE s.row # 0
    <3>1. custom' = [custom EXCEPT ![s.row] = Flush(custom[s.row], s.read, s.write)]
      BY <2>2 DEF CommitConfig
    <3>2. custom' \in Seq(ConfigRow) /\ DOMAIN custom' = DOMAIN custom
      <4>1. \A i \in DOMAIN custom : custom[i] \in ConfigRow
        BY <1>2
      <4>2. ASSUME NEW i \in DOMAIN custom PROVE custom'[i] \in ConfigRow
        <5>1. Flush(custom[i], s.read, s.write) \in ConfigRow
          BY <1>3, <4>1
        <5>. QED
          BY <3>1, <4>1, <5>1
      <4>3. DOMAIN custom = 1 .. Len(custom) /\ Len(custom) \in Nat
        BY <1>2
      <4>4. custom' = [i \in DOMAIN custom |-> custom'[i]]
        BY <3>1
      <4>5. custom' \in [1 .. Len(custom) -> ConfigRow]
        BY <4>2, <4>3, <4>4
      <4>. QED
        BY <4>3, <4>5
    <3>3. ASSUME NEW i \in DOMAIN custom PROVE custom'[i].updated <= clock
      <4>1. custom[i] \in ConfigRow /\ custom[i].updated <= clock
        BY <1>2 DEF BridgeInv, Stamped
      <4>. QED
        BY <1>3, <1>4, <3>1, <4>1
    <3>. QED
      BY <3>2, <3>3
  <2>. QED
    BY <2>1, <2>2
<1>6. asked' \subseteq Folders
  <2>1. asked \subseteq Folders
    BY DEF BridgeInv, BridgeTypeOK
  <2>2. s.op = "add" => s.subject \in Folders
    BY DEF CommitConfig, BridgeInv, LinkInv, RequestsKnow, Knows
  <2>. QED
    BY <1>1, <2>1, <2>2 DEF CommitConfig, Asked, ConfigOps, ConfigRow
<1>7. LinkInv' /\ linked' = linked
  BY AnsweredKnows, RequestMoves DEF CommitConfig, Answer, BridgeInv
<1>8. req' = [req EXCEPT ![r] = IdleRequest] /\ req \in [Requests -> Request]
  BY DEF CommitConfig, Answer, BridgeInv, BridgeTypeOK
<1>9. BridgeTypeOK'
  BY <1>5, <1>6, <1>8, IdleRequestType DEF CommitConfig, BridgeInv, BridgeTypeOK
<1>10. Stamped'
  <2>1. \A q \in Requests : req'[q].write.updated <= clock
    BY <1>2, <1>8, IdleRequestType DEF BridgeInv, Stamped
  <2>2. clock' = clock
    BY DEF CommitConfig
  <2>. QED
    BY <1>5, <2>1, <2>2 DEF Stamped
<1>. QED
  BY <1>7, <1>9, <1>10 DEF BridgeInv

(***************************************************************************)
(* The theorems                                                            *)
(***************************************************************************)

LEMMA InitInv == BridgeInit => BridgeInv /\ Link!Init
<1>. SUFFICES ASSUME BridgeInit PROVE BridgeInv /\ Link!Init
  OBVIOUS
<1>1. conns \in [Conns -> ConnRow] /\ Active = {}
  BY DEF BridgeInit, NoConn, ConnRow, Active
<1>2. \A r \in Requests : req[r] = IdleRequest
  BY DEF BridgeInit
<1>3. BridgeTypeOK
  <2>1. custom \in Seq(ConfigRow) /\ runs \in Seq(Run) /\ clock \in Nat
    BY DEF BridgeInit
  <2>2. remote \in [Repos -> SUBSET Folders] /\ asked \subseteq Folders
    BY BridgeAssumption DEF BridgeInit
  <2>3. req \in [Requests -> Request] /\ overlap \in BOOLEAN
    BY IdleRequestType DEF BridgeInit
  <2>. QED
    BY <1>1, <2>1, <2>2, <2>3 DEF BridgeTypeOK
<1>4. LinkInv
  BY <1>1, <1>2, AnsweredKnows
     DEF LinkInv, RequestsKnow, OneInserting, OneActiveConnection
<1>5. Stamped
  BY <1>2, IdleRequestType DEF BridgeInit, Stamped
<1>6. linked = {}
  BY <1>1 DEF linked
<1>. QED
  BY <1>3, <1>4, <1>5, <1>6 DEF BridgeInv, Link!Init

\* The steps that do not write a connection.
LEMMA OtherSteps ==
    ASSUME BridgeInv, NEW r \in Requests,
           Starts(r) \/ Proceeds(r) \/ Dies(r),
           ~(\E c \in Conns : CommitConnect(r, c)),
           ~(CommitScaffold(r) \/ CommitRotate(r) \/ CommitDisconnect(r))
    PROVE  BridgeInv' /\ linked' = linked /\ conns' = conns
<1>1. CASE Starts(r)
  <2>1. conns' = conns
    BY <1>1 DEF Starts, StartConnect, StartRotate, StartDisconnect, StartScaffold,
                Replace, AddFolder, RemoveFolder, StartChange
  <2>. QED
    BY <1>1, <2>1, StartConnectStep, StartRotateStep, StartDisconnectStep,
       StartScaffoldStep, ReplaceStep, AddFolderStep, RemoveFolderStep DEF Starts
<1>2. CASE Proceeds(r)
  <2>1. \/ Validate(r) \/ ValidationFails(r) \/ Insert(r)
        \/ \E f \in Folders : CheckFolder(r, f)
        \/ PutFolder(r) \/ PutRefused(r) \/ GitHubUnavailable(r) \/ ScaffoldEnds(r)
        \/ CommitConfig(r)
    BY <1>2 DEF Proceeds
  <2>2. conns' = conns
    BY <2>1 DEF Validate, ValidationFails, Insert, CheckFolder, PutFolder, PutRefused,
                GitHubUnavailable, ScaffoldEnds, CommitConfig
  <2>3. ValidationFails(r) => BridgeInv' /\ linked' = linked
    BY AnswerStep DEF ValidationFails
  <2>. QED
    BY <2>1, <2>2, <2>3, ValidateStep, InsertStep, CheckFolderStep, PutSteps,
       ScaffoldingStops, CommitConfigStep
<1>3. CASE Dies(r)
  BY <1>3, AnswerStep DEF Dies
<1>. QED
  BY <1>1, <1>2, <1>3

LEMMA StepInv ==
    ASSUME BridgeInv, [BridgeNext]_bridgevars
    PROVE  BridgeInv' /\ (Link!Next \/ linked' = linked) /\ InactiveStays
<1>1. CASE UNCHANGED bridgevars
  <2>1. BridgeInv'
    BY <1>1 DEF BridgeInv, BridgeTypeOK, LinkInv, RequestsKnow, Knows, OneInserting,
                IsInserting, OneActiveConnection, Active, Stamped, bridgevars
  <2>. QED
    BY <1>1, <2>1 DEF linked, Active, InactiveStays, bridgevars
<1>2. ASSUME NEW r \in Requests, Starts(r) \/ Proceeds(r) \/ Dies(r)
      PROVE  BridgeInv' /\ (Link!Next \/ linked' = linked) /\ InactiveStays
  <2>1. ASSUME NEW c \in Conns, CommitConnect(r, c)
        PROVE  BridgeInv' /\ Link!Connect /\ InactiveStays
    <3>1. InactiveStays
      BY <2>1 DEF CommitConnect, Fresh, InactiveStays, BridgeInv, BridgeTypeOK
    <3>. QED
      BY <2>1, <3>1, CommitConnectStep
  <2>2. CASE CommitScaffold(r) \/ CommitRotate(r) \/ CommitDisconnect(r)
    BY <2>2, CommitScaffoldStep, CommitRotateStep, CommitDisconnectStep DEF Link!Next
  <2>3. CASE /\ ~(\E c \in Conns : CommitConnect(r, c))
             /\ ~(CommitScaffold(r) \/ CommitRotate(r) \/ CommitDisconnect(r))
    BY <1>2, <2>3, OtherSteps DEF InactiveStays
  <2>. QED
    BY <2>1, <2>2, <2>3 DEF Link!Next
<1>. QED
  BY <1>1, <1>2 DEF BridgeNext

\* Rows, requests and the configuration keep their shape, at most one
\* connection is active, and every request in flight knows enough to commit:
\* the strengthening the other theorems rest on.
THEOREM BridgeSound == BridgeSpec => []BridgeInv
<1>1. BridgeInit => BridgeInv
  BY InitInv
<1>2. BridgeInv /\ [BridgeNext]_bridgevars => BridgeInv'
  BY StepInv
<1>. QED
  BY <1>1, <1>2, PTL DEF BridgeSpec

\* The rows of github.py and the requests about them keep their shape.
THEOREM BridgeTypeCorrect == BridgeSpec => []BridgeTypeOK
<1>1. BridgeInv => BridgeTypeOK
  BY DEF BridgeInv
<1>. QED
  BY <1>1, BridgeSound, PTL

\* POST /connect: however many requests saw no active connection, the unique
\* index leaves one.
THEOREM OneConnection == BridgeSpec => []OneActiveConnection
<1>1. BridgeInv => OneActiveConnection
  BY DEF BridgeInv, LinkInv
<1>. QED
  BY <1>1, BridgeSound, PTL

\* DELETE /connection: a rotation or a scaffolding that read the connection
\* earlier does not bring it back.
THEOREM DisconnectedForGood == BridgeSpec => InactiveIsFinal
<1>1. BridgeInv /\ [BridgeNext]_bridgevars => [InactiveStays]_bridgevars
  BY StepInv
<1>. QED
  BY <1>1, BridgeSound, PTL DEF BridgeSpec, InactiveIsFinal, InactiveStays

\* The bridge implements the abstract link: every commit connects, rotates or
\* disconnects it, or leaves it alone.
THEOREM BridgeImplementsLink == BridgeSpec => LinkIsKept
<1>1. BridgeInit => Link!Init
  BY InitInv
<1>2. BridgeInv /\ [BridgeNext]_bridgevars => [Link!Next]_linked
  BY StepInv
<1>. QED
  BY <1>1, <1>2, BridgeSound, PTL DEF BridgeSpec, LinkIsKept, Link!Spec

(***************************************************************************)
(* The configured folders.  Without an overlap one change is in flight at  *)
(* most, and what it is about to write is what it was asked for on top of  *)
(* the folders there are.                                                  *)
(***************************************************************************)

\* Request s is to write the one custom row there is, as it read it.
Current(s) ==
    /\ s.row = 0 => custom = <<>>
    /\ s.row # 0 => s.row = 1 /\ Len(custom) = 1 /\ s.read = custom[1]
    /\ s.write.folders = Asked(s)

ConfigInv ==
    ~overlap =>
       /\ Len(custom) <= 1
       /\ ActiveFolders = asked
       /\ \A q, r \in Changing : q = r
       /\ \A r \in Changing : Current(req[r])

\* Requests s and q make the same change.
SameChange(s, q) ==
    /\ s.op = q.op /\ s.row = q.row /\ s.read = q.read /\ s.write = q.write
    /\ s.subject = q.subject

\* The steps that leave the configuration and the changes of it alone.
LEMMA ConfigKept ==
    ASSUME BridgeTypeOK, ConfigInv, UNCHANGED config, NEW r \in Requests, NEW s,
           req' = [req EXCEPT ![r] = s],
           s.op \in ConfigOps => SameChange(s, req[r])
    PROVE  ConfigInv'
<1>. SUFFICES ASSUME ~overlap PROVE ConfigInv'
  BY DEF ConfigInv, config
<1>1. req'[r] = s /\ \A q \in Requests : q # r => req'[q] = req[q]
  BY DEF BridgeTypeOK
<1>2. Changing' \subseteq Changing
  BY <1>1 DEF Changing, SameChange
<1>3. ActiveFolders' = ActiveFolders /\ asked' = asked /\ custom' = custom
  BY DEF ActiveFolders, config
<1>4. ASSUME NEW q \in Changing' PROVE Current(req[q])'
  <2>1. q \in Changing /\ Current(req[q])
    BY <1>2 DEF ConfigInv
  <2>2. /\ req'[q].op = req[q].op /\ req'[q].row = req[q].row /\ req'[q].read = req[q].read
        /\ req'[q].write = req[q].write /\ req'[q].subject = req[q].subject
    BY <1>1 DEF Changing, SameChange
  <2>. QED
    BY <1>3, <2>1, <2>2 DEF Current, Asked
<1>. QED
  BY <1>2, <1>3, <1>4 DEF ConfigInv

\* An idle request changes nothing.
LEMMA IdleChanges == IdleRequest.op \notin ConfigOps
BY OperationAssumption DEF IdleRequest

\* A change that begins without an overlap is alone, and what it read is
\* what there is.
LEMMA StartChangeConfig ==
    ASSUME BridgeTypeOK, ConfigInv, NEW r \in Requests, NEW s, StartChange(r, s),
           s.op \in ConfigOps, s.row \in CustomRow, s.row # 0 => s.read = custom[s.row],
           s.write.folders = Asked(s) \/ ActiveFolders # asked
    PROVE  ConfigInv'
<1>. SUFFICES ASSUME ~overlap' PROVE ConfigInv'
  BY DEF ConfigInv
<1>1. ~overlap /\ Changing = {} /\ custom' = custom /\ asked' = asked
  BY DEF StartChange, BridgeTypeOK
<1>2. req'[r] = s /\ \A q \in Requests : q # r => req'[q] = req[q]
  BY DEF StartChange, Begin, BridgeTypeOK
<1>3. Changing' = {r}
  BY <1>1, <1>2 DEF Changing
<1>4. Len(custom) <= 1 /\ ActiveFolders = asked
  BY <1>1 DEF ConfigInv
<1>5. ActiveFolders' = ActiveFolders
  BY <1>1 DEF ActiveFolders
<1>6. Current(s)
  <2>1. custom \in Seq(ConfigRow)
    BY DEF BridgeTypeOK
  <2>2. s.row = 0 => custom = <<>>
    BY <2>1 DEF CustomRow
  <2>3. s.row # 0 => s.row = 1 /\ Len(custom) = 1
    <3>1. DOMAIN custom = 1 .. Len(custom) /\ Len(custom) \in Nat
      BY <2>1
    <3>2. s.row # 0 => s.row \in DOMAIN custom
      BY DEF CustomRow
    <3>. QED
      BY <1>4, <3>1, <3>2
  <2>. QED
    BY <1>4, <2>2, <2>3 DEF Current
<1>7. Current(req[r])'
  BY <1>1, <1>2, <1>6 DEF Current, Asked
<1>. QED
  BY <1>1, <1>3, <1>4, <1>5, <1>7 DEF ConfigInv

\* A commit without an overlap leaves one row, the one that was asked for.
LEMMA CommitConfigConfig ==
    ASSUME BridgeInv, BridgeTypeOK', ConfigInv, NEW r \in Requests, CommitConfig(r)
    PROVE  ConfigInv'
<1>. SUFFICES ASSUME ~overlap PROVE ConfigInv'
  BY DEF ConfigInv, CommitConfig
<1>. DEFINE s == req[r]
<1>1. /\ s.write \in ConfigRow /\ s.read \in ConfigRow /\ s.row \in Nat
      /\ custom \in Seq(ConfigRow)
  BY DEF BridgeInv, BridgeTypeOK, Request
<1>2. r \in Changing /\ Current(s) /\ Len(custom) <= 1
  BY DEF CommitConfig, Changing, ConfigInv
<1>3. custom' = <<s.write>>
  <2>1. CASE s.row = 0
    BY <1>1, <1>2, <2>1 DEF Current, CommitConfig
  <2>2. CASE s.row # 0
    <3>1. s.row = 1 /\ Len(custom) = 1 /\ s.read = custom[1]
      BY <1>2, <2>2 DEF Current
    <3>2. Flush(s.read, s.read, s.write) = s.write
      <4>1. PICK a \in ConfigRow, b \in ConfigRow : a = s.read /\ b = s.write
        BY <1>1
      <4>2. Flush(a, a, b) = b
        BY DEF Flush, ConfigRow
      <4>. QED
        BY <4>1, <4>2
    <3>3. custom' = [custom EXCEPT ![1] = s.write]
      BY <2>2, <3>1, <3>2 DEF CommitConfig
    <3>. QED
      BY <1>1, <3>1, <3>3
  <2>. QED
    BY <2>1, <2>2
<1>4. ActiveFolders' = s.write.folders
  <2>1. PICK w \in ConfigRow : w = s.write
    BY <1>1
  <2>2. {custom'[i] : i \in DOMAIN custom'} = {w} /\ custom' # <<>>
    BY <1>3, <2>1
  <2>3. \A i \in DOMAIN custom' : custom'[i].updated <= w.updated
    BY <1>3, <2>1 DEF ConfigRow
  <2>4. (CHOOSE latest \in {w} : \A i \in DOMAIN custom' :
                                    custom'[i].updated <= latest.updated) = w
    BY <2>3
  <2>. QED
    BY <2>1, <2>2, <2>4 DEF ActiveFolders
<1>5. asked' = s.write.folders
  BY <1>2 DEF CommitConfig, Current
<1>6. req'[r] = IdleRequest /\ \A q \in Requests : q # r => req'[q] = req[q]
  BY DEF CommitConfig, Answer, BridgeInv, BridgeTypeOK
<1>7. Changing' = {}
  BY <1>2, <1>6, IdleChanges DEF Changing, ConfigInv
<1>8. Len(custom') = 1
  BY <1>3
<1>. QED
  BY <1>4, <1>5, <1>7, <1>8 DEF ConfigInv

\* The three changes, as they begin.
LEMMA WritingConfig ==
    ASSUME BridgeTypeOK, NEW op \in ConfigOps, NEW list \in SUBSET Folders,
           NEW i \in CustomRow
    PROVE  LET s == Writing(op, list, i)
           IN /\ s \in Request /\ s.op = op /\ s.row = i /\ s.write.folders = list
              /\ i # 0 => s.read = custom[i]
<1>1. Writing(op, list, i) \in Request
  BY WritingType
<1>2. PICK read : read = IF i = 0 THEN NoConfig ELSE custom[i]
  OBVIOUS
<1>3. PICK write : write = [folders |-> list, updated |-> clock + 1]
  OBVIOUS
<1>4. Writing(op, list, i) = [IdleRequest EXCEPT !.step = "save", !.op = op, !.row = i,
                                                !.read = read, !.write = write]
  BY <1>2, <1>3 DEF Writing
<1>5. Writing(op, list, i).op = op /\ Writing(op, list, i).row = i
  BY <1>4, IdleRequestType DEF Request
<1>6. Writing(op, list, i).read = read /\ Writing(op, list, i).write = write
  BY <1>4, IdleRequestType DEF Request
<1>. QED
  BY <1>1, <1>2, <1>3, <1>5, <1>6

LEMMA ReplaceConfig ==
    ASSUME BridgeInv, ConfigInv, NEW r \in Requests, NEW list \in SUBSET Folders,
           Replace(r, list)
    PROVE  ConfigInv'
<1>1. BridgeTypeOK
  BY DEF BridgeInv
<1>2. PICK i \in CustomRow : StartChange(r, Writing("replace", list, i))
  BY DEF Replace
<1>3. PICK s \in Request : /\ s = Writing("replace", list, i) /\ s.op = "replace"
                           /\ s.row = i /\ s.write.folders = list
                           /\ i # 0 => s.read = custom[i]
  BY <1>1, WritingConfig DEF ConfigOps
<1>4. s.write.folders = Asked(s)
  BY <1>3 DEF Asked
<1>. QED
  BY <1>1, <1>2, <1>3, <1>4, StartChangeConfig DEF ConfigOps

LEMMA RemoveConfig ==
    ASSUME BridgeInv, ConfigInv, NEW r \in Requests, NEW f \in Folders, RemoveFolder(r, f)
    PROVE  ConfigInv'
<1>. DEFINE plan(i) == Writing("remove", ActiveFolders \ {f}, i)
<1>1. PICK i \in CustomRow : StartChange(r, [plan(i) EXCEPT !.subject = f])
  BY DEF RemoveFolder
<1>2. BridgeTypeOK /\ ActiveFolders \ {f} \in SUBSET Folders
  BY ActiveFoldersType DEF BridgeInv
<1>3. PICK b \in Request : /\ b = plan(i) /\ b.op = "remove" /\ b.row = i
                           /\ b.write.folders = ActiveFolders \ {f}
                           /\ i # 0 => b.read = custom[i]
  BY <1>2, WritingConfig DEF ConfigOps
<1>4. PICK s : s = [b EXCEPT !.subject = f]
  OBVIOUS
<1>5. s.op = "remove" /\ s.subject = f /\ s.row = i
  BY <1>3, <1>4 DEF Request
<1>6. s.write = b.write /\ s.read = b.read
  BY <1>3, <1>4 DEF Request
<1>7. s.write.folders = Asked(s) \/ ActiveFolders # asked
  BY <1>3, <1>5, <1>6 DEF Asked
<1>. QED
  BY <1>1, <1>2, <1>3, <1>4, <1>5, <1>6, <1>7, StartChangeConfig DEF ConfigOps

LEMMA AddConfig ==
    ASSUME BridgeInv, ConfigInv, NEW r \in Requests, NEW f \in Folders, AddFolder(r, f)
    PROVE  ConfigInv'
<1>. DEFINE base(i) == Writing("add", Extended(f), i)
            plan(i) == [base(i) EXCEPT !.subject = f]
            full(i, c) == [plan(i) EXCEPT !.step = "check", !.conn = c,
                              !.repo = conns[c].repo, !.token = conns[c].token,
                              !.todo = {f}]
<1>1. PICK i \in CustomRow : \/ StartChange(r, plan(i))
                             \/ \E c \in Active : StartChange(r, full(i, c))
  BY ZenonT(30) DEF AddFolder
<1>2. BridgeTypeOK /\ Extended(f) \in SUBSET Folders
  BY ActiveFoldersType DEF BridgeInv, Extended
<1>3. PICK b \in Request : /\ b = base(i) /\ b.op = "add" /\ b.row = i
                           /\ b.write.folders = Extended(f)
                           /\ i # 0 => b.read = custom[i]
  BY <1>2, WritingConfig DEF ConfigOps
<1>4. PICK p : p = [b EXCEPT !.subject = f]
  OBVIOUS
<1>5. p \in Request /\ p.op = "add" /\ p.subject = f /\ p.row = i
  BY <1>3, <1>4 DEF Request
<1>6. p.write = b.write /\ p.read = b.read
  BY <1>3, <1>4 DEF Request
<1>7. ASSUME NEW s, s.op = p.op, s.subject = p.subject, s.row = p.row, s.write = p.write,
             s.read = p.read, StartChange(r, s)
      PROVE  ConfigInv'
  <2>1. s.write.folders = Asked(s) \/ ActiveFolders # asked
    BY <1>3, <1>5, <1>6, <1>7 DEF Asked, Extended
  <2>. QED
    BY <1>2, <1>3, <1>5, <1>6, <1>7, <2>1, StartChangeConfig DEF ConfigOps
<1>8. CASE StartChange(r, plan(i))
  BY <1>3, <1>4, <1>7, <1>8
<1>9. ASSUME NEW c \in Active, StartChange(r, full(i, c)) PROVE ConfigInv'
  <2>1. PICK repo, token : repo = conns[c].repo /\ token = conns[c].token
    OBVIOUS
  <2>2. PICK t : t = [p EXCEPT !.step = "check", !.conn = c, !.repo = repo,
                               !.token = token, !.todo = {f}]
    OBVIOUS
  <2>3. t.op = p.op /\ t.subject = p.subject /\ t.row = p.row
    BY <1>5, <2>2 DEF Request
  <2>4. t.write = p.write /\ t.read = p.read
    BY <1>5, <2>2 DEF Request
  <2>5. StartChange(r, t)
    BY <1>3, <1>4, <1>9, <2>1, <2>2
  <2>. QED
    BY <1>7, <2>3, <2>4, <2>5
<1>. QED
  BY <1>1, <1>8, <1>9, ZenonT(30)

\* The steps of a request that is not about the configuration, and what a
\* request that adds a folder does before it commits.
LEMMA DoneChange == ASSUME NEW q \in Request, NEW f PROVE SameChange(Done(q, f), q)
<1>1. PICK s : s = Done(q, f)
  OBVIOUS
<1>2. s.op = q.op /\ s.row = q.row /\ s.read = q.read
  BY <1>1 DEF Done, Request
<1>3. s.write = q.write /\ s.subject = q.subject
  BY <1>1 DEF Done, Request
<1>. QED
  BY <1>1, <1>2, <1>3 DEF SameChange

LEMMA PutAnswerChange == ASSUME NEW q \in Request PROVE SameChange(PutAnswer(q), q)
<1>1. PICK d \in Request : d = Done(q, q.folder) /\ SameChange(d, q)
  BY DoneType, DoneChange
<1>2. CASE q.folder \in remote[q.repo]
  BY <1>1, <1>2 DEF PutAnswer
<1>3. CASE q.folder \notin remote[q.repo]
  <2>1. PICK s : s = [d EXCEPT !.created = @ + 1]
    OBVIOUS
  <2>2. s.op = d.op /\ s.row = d.row /\ s.read = d.read
    BY <2>1 DEF Request
  <2>3. s.write = d.write /\ s.subject = d.subject
    BY <2>1 DEF Request
  <2>4. s = PutAnswer(q)
    BY <1>1, <1>3, <2>1 DEF PutAnswer
  <2>. QED
    BY <1>1, <2>2, <2>3, <2>4 DEF SameChange
<1>. QED
  BY <1>2, <1>3

LEMMA CutShortChange == ASSUME NEW q \in Request PROVE SameChange(CutShort(q), q)
<1>1. PICK s : s = CutShort(q)
  OBVIOUS
<1>2. s.op = q.op /\ s.row = q.row /\ s.read = q.read
  BY <1>1 DEF CutShort, Request
<1>3. s.write = q.write /\ s.subject = q.subject
  BY <1>1 DEF CutShort, Request
<1>. QED
  BY <1>1, <1>2, <1>3 DEF SameChange

\* A step to another point of a request, nothing else.
LEMMA StepChange ==
    ASSUME NEW q \in Request, NEW step
    PROVE  SameChange([q EXCEPT !.step = step], q)
<1>1. PICK s : s = [q EXCEPT !.step = step]
  OBVIOUS
<1>2. s.op = q.op /\ s.row = q.row /\ s.read = q.read
  BY <1>1 DEF Request
<1>3. s.write = q.write /\ s.subject = q.subject
  BY <1>1 DEF Request
<1>. QED
  BY <1>1, <1>2, <1>3 DEF SameChange

LEMMA ScaffoldingChange ==
    ASSUME BridgeTypeOK, ConfigInv, NEW r \in Requests, NEW f \in Folders,
           \/ CheckFolder(r, f) \/ PutFolder(r) \/ PutRefused(r) \/ GitHubUnavailable(r)
           \/ ScaffoldEnds(r) \/ Validate(r)
    PROVE  ConfigInv'
<1>1. PICK q \in Request : q = req[r]
  BY DEF BridgeTypeOK
<1>2. UNCHANGED config
  BY DEF CheckFolder, PutFolder, PutRefused, GitHubUnavailable, ScaffoldEnds, Validate
<1>3. ASSUME NEW s, req' = [req EXCEPT ![r] = s], SameChange(s, q) PROVE ConfigInv'
  BY <1>1, <1>2, <1>3, ConfigKept
<1>4. CASE CheckFolder(r, f)
  <2>1. PICK s : s = [q EXCEPT !.step = "put", !.folder = f]
    OBVIOUS
  <2>2. s.op = q.op /\ s.row = q.row /\ s.read = q.read
    BY <2>1 DEF Request
  <2>3. s.write = q.write /\ s.subject = q.subject
    BY <2>1 DEF Request
  <2>4. req' = [req EXCEPT ![r] = Done(q, f)] \/ req' = [req EXCEPT ![r] = s]
    BY <1>1, <1>4, <2>1 DEF CheckFolder
  <2>. QED
    BY <1>3, <2>2, <2>3, <2>4, DoneChange DEF SameChange
<1>5. CASE PutFolder(r)
  BY <1>1, <1>3, <1>5, PutAnswerChange DEF PutFolder
<1>6. CASE PutRefused(r)
  BY <1>1, <1>3, <1>6, DoneChange DEF PutRefused
<1>7. CASE GitHubUnavailable(r)
  BY <1>1, <1>3, <1>7, CutShortChange DEF GitHubUnavailable
<1>8. CASE ScaffoldEnds(r) \/ Validate(r)
  <2>1. PICK step : req' = [req EXCEPT ![r].step = step]
    BY <1>8 DEF ScaffoldEnds, Validate, Goto
  <2>2. req' = [req EXCEPT ![r] = [q EXCEPT !.step = step]]
    BY <1>1, <2>1 DEF BridgeTypeOK
  <2>. QED
    BY <1>3, <2>2, StepChange
<1>. QED
  BY <1>4, <1>5, <1>6, <1>7, <1>8

\* What the requests about connections do, and every answer.
LEMMA OtherChange ==
    ASSUME BridgeTypeOK, ConfigInv, UNCHANGED config, NEW r \in Requests, NEW s,
           req' = [req EXCEPT ![r] = s], s.op \notin ConfigOps
    PROVE  ConfigInv'
BY ConfigKept

LEMMA AnswerConfig ==
    ASSUME BridgeTypeOK, ConfigInv, UNCHANGED config, NEW r \in Requests, Answer(r)
    PROVE  ConfigInv'
BY IdleChanges, OtherChange DEF Answer

LEMMA StartConnectConfig ==
    ASSUME BridgeTypeOK, ConfigInv, NEW r \in Requests, NEW repo, NEW token,
           StartConnect(r, repo, token)
    PROVE  ConfigInv'
<1>. DEFINE s == [IdleRequest EXCEPT !.step = "validate", !.op = "connect",
                                     !.repo = repo, !.token = token]
<1>1. Begin(r, s) /\ UNCHANGED config
  BY DEF StartConnect
<1>2. s.op = "connect"
  BY IdleRequestType DEF Request
<1>3. req' = [req EXCEPT ![r] = s]
  BY <1>1 DEF Begin
<1>4. s.op \notin ConfigOps
  BY <1>2 DEF ConfigOps
<1>. QED
  BY <1>1, <1>3, <1>4, OtherChange

LEMMA AboutConfig ==
    ASSUME BridgeTypeOK, ConfigInv, NEW r \in Requests, NEW c \in Conns, NEW token,
           StartRotate(r, c, token) \/ StartDisconnect(r, c) \/ StartScaffold(r, c)
    PROVE  ConfigInv'
<1>1. ASSUME NEW op \in ConnOps, c \in Active
      PROVE  About(c, op) \in Request /\ About(c, op).op \notin ConfigOps
  BY <1>1, AboutType DEF ConnOps, ConfigOps
<1>2. ASSUME NEW b \in Request
      PROVE  /\ [b EXCEPT !.step = "validate", !.token = token].op = b.op
             /\ [b EXCEPT !.step = "save"].op = b.op
             /\ [b EXCEPT !.step = "check", !.todo = ActiveFolders].op = b.op
  BY DEF Request
<1>3. CASE StartRotate(r, c, token)
  <2>. DEFINE s == [About(c, "rotate") EXCEPT !.step = "validate", !.token = token]
  <2>1. c \in Active /\ Begin(r, s) /\ UNCHANGED config
    BY <1>3 DEF StartRotate
  <2>2. s.op \notin ConfigOps
    <3>1. PICK b \in Request : b = About(c, "rotate") /\ b.op \notin ConfigOps
      BY <1>1, <2>1 DEF ConnOps
    <3>2. [b EXCEPT !.step = "validate", !.token = token].op \notin ConfigOps
      BY <1>2, <3>1
    <3>. QED
      BY <3>1, <3>2
  <2>. QED
    BY <2>1, <2>2, OtherChange DEF Begin
<1>4. CASE StartDisconnect(r, c)
  <2>. DEFINE s == [About(c, "disconnect") EXCEPT !.step = "save"]
  <2>1. c \in Active /\ Begin(r, s) /\ UNCHANGED config
    BY <1>4 DEF StartDisconnect
  <2>2. s.op \notin ConfigOps
    <3>1. PICK b \in Request : b = About(c, "disconnect") /\ b.op \notin ConfigOps
      BY <1>1, <2>1 DEF ConnOps
    <3>2. [b EXCEPT !.step = "save"].op \notin ConfigOps
      BY <1>2, <3>1
    <3>. QED
      BY <3>1, <3>2
  <2>. QED
    BY <2>1, <2>2, OtherChange DEF Begin
<1>5. CASE StartScaffold(r, c)
  <2>. DEFINE s == [About(c, "scaffold") EXCEPT !.step = "check", !.todo = ActiveFolders]
  <2>1. c \in Active /\ Begin(r, s) /\ UNCHANGED config
    BY <1>5 DEF StartScaffold
  <2>2. s.op \notin ConfigOps
    <3>1. PICK b \in Request : b = About(c, "scaffold") /\ b.op \notin ConfigOps
      BY <1>1, <2>1 DEF ConnOps
    <3>2. [b EXCEPT !.step = "check", !.todo = ActiveFolders].op \notin ConfigOps
      BY <1>2, <3>1
    <3>. QED
      BY <3>1, <3>2
  <2>. QED
    BY <2>1, <2>2, OtherChange DEF Begin
<1>. QED
  BY <1>3, <1>4, <1>5

LEMMA InsertConfig ==
    ASSUME BridgeInv, ConfigInv, NEW r \in Requests, Insert(r)
    PROVE  ConfigInv'
<1>1. BridgeTypeOK /\ UNCHANGED config
  BY DEF Insert, BridgeInv
<1>2. PICK q \in Request : q = req[r] /\ q.op = "connect"
  BY DEF Insert, BridgeInv, BridgeTypeOK, LinkInv, RequestsKnow, Knows
<1>3. PICK s : s = [q EXCEPT !.step = "check", !.todo = ActiveFolders]
  OBVIOUS
<1>4. s.op = "connect"
  BY <1>2, <1>3 DEF Request
<1>5. Answer(r) \/ req' = [req EXCEPT ![r] = s]
  BY <1>1, <1>2, <1>3 DEF Insert, BridgeTypeOK
<1>. QED
  BY <1>1, <1>4, <1>5, OtherChange, AnswerConfig DEF ConfigOps

LEMMA AnsweredConfig ==
    ASSUME BridgeTypeOK, ConfigInv, NEW r \in Requests, NEW c \in Conns,
           \/ ValidationFails(r) \/ Dies(r) \/ CommitConnect(r, c)
           \/ CommitScaffold(r) \/ CommitRotate(r) \/ CommitDisconnect(r)
    PROVE  ConfigInv'
<1>1. CASE ValidationFails(r)
  BY <1>1, AnswerConfig DEF ValidationFails
<1>2. CASE Dies(r)
  BY <1>2, AnswerConfig DEF Dies
<1>3. CASE CommitConnect(r, c)
  BY <1>3, AnswerConfig DEF CommitConnect
<1>4. CASE CommitScaffold(r)
  BY <1>4, AnswerConfig DEF CommitScaffold
<1>5. CASE CommitRotate(r)
  BY <1>5, AnswerConfig DEF CommitRotate
<1>6. CASE CommitDisconnect(r)
  BY <1>6, AnswerConfig DEF CommitDisconnect
<1>. QED
  BY <1>1, <1>2, <1>3, <1>4, <1>5, <1>6

LEMMA ConfigStep ==
    ASSUME BridgeInv, BridgeInv', ConfigInv, [BridgeNext]_bridgevars
    PROVE  ConfigInv'
<1>0. BridgeTypeOK /\ BridgeTypeOK'
  BY DEF BridgeInv
<1>1. CASE UNCHANGED bridgevars
  BY <1>1 DEF bridgevars, ConfigInv, Current, Asked, Changing, ActiveFolders
<1>2. ASSUME NEW r \in Requests, Starts(r) PROVE ConfigInv'
  BY <1>0, <1>2, StartConnectConfig, AboutConfig, ReplaceConfig, RemoveConfig, AddConfig
  DEF Starts
<1>3. ASSUME NEW r \in Requests, Proceeds(r) PROVE ConfigInv'
  <2>1. PICK f : f \in Folders
    BY BridgeAssumption
  <2>2. CASE \E c \in Conns : CommitConnect(r, c)
    BY <1>0, <2>2, AnsweredConfig
  <2>3. CASE ValidationFails(r)
    BY <1>0, <2>3, AnswerConfig DEF ValidationFails
  <2>4. CASE CommitScaffold(r) \/ CommitRotate(r) \/ CommitDisconnect(r)
    <3>1. req[r].conn \in Conns
      BY <2>4, Commits DEF CommitScaffold, CommitRotate, CommitDisconnect
    <3>. QED
      BY <1>0, <2>4, <3>1, AnsweredConfig
  <2>. QED
    BY <1>0, <1>3, <2>1, <2>2, <2>3, <2>4, ScaffoldingChange, InsertConfig,
       CommitConfigConfig DEF Proceeds
<1>4. ASSUME NEW r \in Requests, Dies(r) PROVE ConfigInv'
  BY <1>0, <1>4, AnswerConfig DEF Dies
<1>. QED
  BY <1>1, <1>2, <1>3, <1>4 DEF BridgeNext

\* GET, PUT, POST and DELETE of the folder configuration: the folders in force
\* are those the answered requests add up to, for any number of requests and
\* folders, as long as no two changes of them overlap.
THEOREM FoldersAsAsked == BridgeSpec => []ConfigIsWhatWasAsked
<1>1. BridgeInit => ConfigInv
  BY IdleChanges DEF BridgeInit, ConfigInv, ActiveFolders, Changing
<1>2. ConfigInv => ConfigIsWhatWasAsked
  BY DEF ConfigInv, ConfigIsWhatWasAsked
<1>. QED
  BY <1>1, <1>2, ConfigStep, BridgeSound, PTL DEF BridgeSpec

(***************************************************************************)
(* Sums.  CreatedIn is a recursive function: what it is at the end of a    *)
(* longer list of runs follows by induction over the list, which is stated *)
(* of sets of numbers, and proved from their least element.                *)
(***************************************************************************)
LEMMA Inductively ==
    ASSUME NEW n \in Nat, NEW T, 0 \in T, \A i \in 1 .. n : i - 1 \in T => i \in T
    PROVE  \A i \in 0 .. n : i \in T
<1>. DEFINE B == {i \in 0 .. n : i \notin T}
<1>. SUFFICES ASSUME B # {} PROVE FALSE
  OBVIOUS
<1>1. B \subseteq Nat /\ B # {}
  OBVIOUS
<1>2. PICK b \in B : \A c \in B : ~(<<c, b>> \in OpToRel(<, Nat))
  <2>. HIDE DEF B
  <2>. QED
    BY <1>1, NatLessThanWellFounded, WFMin
<1>3. \A c \in B : ~(c < b)
  BY <1>1, <1>2 DEF OpToRel
<1>4. b \in 1 .. n /\ b - 1 \in 0 .. n /\ b - 1 < b
  OBVIOUS
<1>5. b - 1 \in T
  BY <1>3, <1>4
<1>. QED
  BY <1>4, <1>5

\* f has the sums of the first values of v.
Adds(f, n, v) ==
    /\ f \in [0 .. n -> Nat] /\ f[0] = 0
    /\ \A i \in 1 .. n : f[i] = f[i - 1] + v[i]

LEMMA SumExists ==
    ASSUME NEW n \in Nat, NEW v \in [1 .. n -> Nat]
    PROVE  \E f : Adds(f, n, v)
<1>. DEFINE T == {m \in 0 .. n : \E f : Adds(f, m, v)}
<1>1. 0 \in T
  <2>. DEFINE f == [i \in 0 .. 0 |-> 0]
  <2>1. Adds(f, 0, v)
    BY DEF Adds
  <2>. QED
    BY <2>1
<1>2. ASSUME NEW m \in 1 .. n, m - 1 \in T PROVE m \in T
  <2>1. PICK f : Adds(f, m - 1, v)
    BY <1>2
  <2>. DEFINE g == [i \in 0 .. m |-> IF i = m THEN f[m - 1] + v[m] ELSE f[i]]
  <2>2. /\ f \in [0 .. m - 1 -> Nat] /\ f[0] = 0
        /\ \A i \in 1 .. m - 1 : f[i] = f[i - 1] + v[i]
    BY <2>1 DEF Adds
  <2>3. g \in [0 .. m -> Nat] /\ g[0] = 0
    BY <2>2
  <2>4. ASSUME NEW i \in 1 .. m PROVE g[i] = g[i - 1] + v[i]
    BY <2>2
  <2>5. Adds(g, m, v)
    BY <2>3, <2>4 DEF Adds
  <2>. QED
    BY <2>5
<1>3. \A i \in 0 .. n : i \in T
  <2>. HIDE DEF T
  <2>. QED
    BY <1>1, <1>2, Inductively
<1>. QED
  BY <1>3

\* Sums of the same values are the same.
LEMMA SumsAgree ==
    ASSUME NEW n \in Nat, NEW m \in Nat, NEW k \in Nat, NEW v, NEW w, NEW f, NEW g,
           k <= n, k <= m, \A i \in 1 .. k : v[i] = w[i], Adds(f, n, v), Adds(g, m, w)
    PROVE  f[k] = g[k]
<1>. DEFINE T == {i \in 0 .. k : f[i] = g[i]}
<1>1. 0 \in T
  BY DEF Adds
<1>2. ASSUME NEW i \in 1 .. k, i - 1 \in T PROVE i \in T
  <2>1. i \in 1 .. n /\ i \in 1 .. m
    OBVIOUS
  <2>2. f[i] = f[i - 1] + v[i] /\ g[i] = g[i - 1] + w[i]
    BY <2>1 DEF Adds
  <2>. QED
    BY <1>2, <2>2
<1>3. \A i \in 0 .. k : i \in T
  <2>. HIDE DEF T
  <2>. QED
    BY <1>1, <1>2, Inductively
<1>. QED
  BY <1>3

\* What run n of rs counts for, and the sum of that over rs: CreatedIn, of
\* any list of runs and table of connections.
ShareOf(rs, cs, repo, n) == IF cs[rs[n].conn].repo = repo THEN rs[n].created ELSE 0

ReportedIn(rs, cs, repo) ==
    LET upto[n \in 0 .. Len(rs)] ==
            IF n = 0 THEN 0
            ELSE upto[n - 1] + (IF cs[rs[n].conn].repo = repo THEN rs[n].created
                                ELSE 0)
    IN upto[Len(rs)]

LEMMA ReportedSum ==
    ASSUME NEW rs \in Seq(Run), NEW cs, NEW repo
    PROVE  \E f : /\ Adds(f, Len(rs), [n \in 1 .. Len(rs) |-> ShareOf(rs, cs, repo, n)])
                  /\ ReportedIn(rs, cs, repo) = f[Len(rs)]
<1>. DEFINE N == Len(rs)
            v == [n \in 1 .. N |-> ShareOf(rs, cs, repo, n)]
            F(f) == [n \in 0 .. N |->
                        IF n = 0 THEN 0
                        ELSE f[n - 1] + (IF cs[rs[n].conn].repo = repo THEN rs[n].created
                                         ELSE 0)]
            up == CHOOSE f : f = F(f)
<1>1. N \in Nat /\ v \in [1 .. N -> Nat]
  <2>1. \A n \in 1 .. N : rs[n] \in Run
    OBVIOUS
  <2>2. \A n \in 1 .. N : ShareOf(rs, cs, repo, n) \in Nat
    BY <2>1 DEF ShareOf, Run
  <2>. QED
    BY <2>2
<1>2. PICK f : Adds(f, N, v)
  BY <1>1, SumExists
<1>3. f = F(f)
  <2>1. \A n \in 1 .. N : v[n] = IF cs[rs[n].conn].repo = repo THEN rs[n].created ELSE 0
    BY DEF ShareOf
  <2>2. \A n \in 0 .. N : f[n] = F(f)[n]
    BY <1>1, <1>2, <2>1 DEF Adds
  <2>3. f = [n \in 0 .. N |-> f[n]]
    BY <1>2 DEF Adds
  <2>4. F(f) = [n \in 0 .. N |-> F(f)[n]]
    OBVIOUS
  <2>. HIDE DEF F
  <2>. QED
    BY <2>2, <2>3, <2>4
<1>4. up = F(up)
  <2>. HIDE DEF F
  <2>. QED
    BY <1>3
<1>5. Adds(up, N, v)
  <2>1. /\ DOMAIN up = 0 .. N /\ up[0] = 0
        /\ up = [n \in 0 .. N |-> up[n]]
    <3>. HIDE DEF up
    <3>. QED
      BY <1>1, <1>4
  <2>2. \A n \in 1 .. N : up[n] = up[n - 1] + v[n]
    <3>. HIDE DEF up
    <3>. QED
      BY <1>1, <1>4 DEF ShareOf
  <2>. DEFINE T == {n \in 0 .. N : up[n] \in Nat}
  <2>3. 0 \in T /\ \A n \in 1 .. N : n - 1 \in T => n \in T
    <3>. HIDE DEF up, v
    <3>. QED
      BY <1>1, <2>1, <2>2
  <2>4. \A n \in 0 .. N : n \in T
    <3>. HIDE DEF T
    <3>. QED
      BY <1>1, <2>3, Inductively
  <2>. HIDE DEF up, v
  <2>. QED
    BY <2>1, <2>2, <2>4 DEF Adds
<1>6. ReportedIn(rs, cs, repo) = up[N]
  BY DEF ReportedIn
<1>. QED
  BY <1>5, <1>6

\* The sum depends on the runs and the repositories of their connections.
LEMMA ReportedKept ==
    ASSUME NEW rs \in Seq(Run), NEW cs, NEW ds, NEW repo,
           \A n \in 1 .. Len(rs) : ds[rs[n].conn].repo = cs[rs[n].conn].repo
    PROVE  /\ ReportedIn(rs, ds, repo) = ReportedIn(rs, cs, repo)
           /\ ReportedIn(rs, cs, repo) \in Nat
<1>. DEFINE N == Len(rs)
            v == [n \in 1 .. N |-> ShareOf(rs, cs, repo, n)]
            w == [n \in 1 .. N |-> ShareOf(rs, ds, repo, n)]
<1>1. PICK f : Adds(f, N, v) /\ ReportedIn(rs, cs, repo) = f[N]
  BY ReportedSum
<1>2. PICK g : Adds(g, N, w) /\ ReportedIn(rs, ds, repo) = g[N]
  BY ReportedSum
<1>3. N \in Nat /\ N <= N /\ \A i \in 1 .. N : v[i] = w[i]
  BY DEF ShareOf
<1>4. f[N] = g[N]
  <2>. HIDE DEF v, w, N
  <2>. QED
    BY <1>1, <1>2, <1>3, SumsAgree
<1>5. f[N] \in Nat
  BY <1>1, <1>3 DEF Adds
<1>. QED
  BY <1>1, <1>2, <1>4, <1>5

\* One more run adds what it created, in the repository of its connection.
LEMMA ReportedGrows ==
    ASSUME NEW rs \in Seq(Run), NEW cs, NEW repo, NEW run \in Run
    PROVE  ReportedIn(Append(rs, run), cs, repo)
              = ReportedIn(rs, cs, repo)
                + (IF cs[run.conn].repo = repo THEN run.created ELSE 0)
<1>. DEFINE N == Len(rs)
            more == Append(rs, run)
            M == Len(more)
            v == [n \in 1 .. N |-> ShareOf(rs, cs, repo, n)]
            w == [n \in 1 .. M |-> ShareOf(more, cs, repo, n)]
<1>1. /\ more \in Seq(Run) /\ N \in Nat /\ M = N + 1 /\ more[M] = run
      /\ \A n \in 1 .. N : more[n] = rs[n]
  OBVIOUS
<1>2. PICK f : Adds(f, N, v) /\ ReportedIn(rs, cs, repo) = f[N]
  BY ReportedSum
<1>3. PICK g : Adds(g, M, w) /\ ReportedIn(more, cs, repo) = g[M]
  <2>. HIDE DEF more
  <2>. QED
    BY <1>1, ReportedSum
<1>4. \A i \in 1 .. N : v[i] = w[i]
  BY <1>1 DEF ShareOf
<1>5. w[M] = IF cs[run.conn].repo = repo THEN run.created ELSE 0
  BY <1>1 DEF ShareOf
<1>6. M \in Nat /\ N <= N /\ N <= M /\ M \in 1 .. M /\ M - 1 = N
  <2>. HIDE DEF more, M, N
  <2>. QED
    BY <1>1
<1>. HIDE DEF v, w, N, M, more
<1>7. g[M] = g[M - 1] + w[M]
  BY <1>3, <1>6 DEF Adds
<1>8. f[N] = g[N]
  BY <1>1, <1>2, <1>3, <1>4, <1>6, SumsAgree
<1>. QED
  BY <1>2, <1>3, <1>5, <1>6, <1>7, <1>8 DEF more

(***************************************************************************)
(* What the runs report                                                    *)
(***************************************************************************)

\* H are the folders of repo that the stored runs report, G[r] those that
\* request r made there and has not reported yet: nobody shares a folder.
Shares(repo, H, G) ==
    /\ \A r \in Requests : G[r] \cap H = {}
    /\ \A q, r \in Requests : q # r => G[q] \cap G[r] = {}
    /\ CreatedIn(repo) = Cardinality(H)
    /\ \A r \in Requests : req[r].repo = repo => req[r].created = Cardinality(G[r])

Shared(repo) ==
    /\ IsFiniteSet(remote[repo])
    /\ \E H \in SUBSET remote[repo], G \in [Requests -> SUBSET remote[repo]] :
          Shares(repo, H, G)

\* A run is about a connection that is there, so that its repository stays
\* what it is.
RunsKnown == \A n \in 1 .. Len(runs) : conns[runs[n].conn].status # "absent"

CreatedInv == RunsKnown /\ \A repo \in Repos : Shared(repo)

LEMMA CreatedInIs == \A repo : CreatedIn(repo) = ReportedIn(runs, conns, repo)
BY DEF CreatedIn, ReportedIn

LEMMA CreatedInIsThen == \A repo : CreatedIn(repo)' = ReportedIn(runs', conns', repo)
BY DEF CreatedIn, ReportedIn

\* A request goes on with the folders it has, with none, or with one more that
\* was not there before.
GoesOn(s, q) ==
    \/ s.created = 0
    \/ s.repo = q.repo /\ s.created = q.created
    \/ /\ s.repo = q.repo /\ s.created = q.created + 1
       /\ s.repo \in Repos => remote'[s.repo] \ remote[s.repo] # {}

\* Folders that a request can have after such a step.
CanHave(mine, s, r, repo, H, G) ==
    /\ mine \cap H = {}
    /\ \A q \in Requests : q # r => mine \cap G[q] = {}
    /\ s.repo = repo => s.created = Cardinality(mine)

LEMMA MineNext ==
    ASSUME NEW r \in Requests, NEW s, NEW repo \in Repos,
           NEW H \in SUBSET remote[repo], NEW G \in [Requests -> SUBSET remote[repo]],
           GoesOn(s, req[r]), Shares(repo, H, G),
           remote[repo] \subseteq remote'[repo], IsFiniteSet(remote'[repo])
    PROVE  \E mine \in SUBSET remote'[repo] : CanHave(mine, s, r, repo, H, G)
<1>1. CASE s.created = 0
  <2>1. Cardinality({}) = 0
    BY FS_EmptySet
  <2>. QED
    BY <1>1, <2>1 DEF CanHave
<1>2. CASE s.repo = repo /\ s.repo = req[r].repo /\ s.created = req[r].created
  <2>1. G[r] \in SUBSET remote'[repo] /\ s.created = Cardinality(G[r])
    BY <1>2 DEF Shares
  <2>2. G[r] \cap H = {} /\ \A q \in Requests : q # r => G[r] \cap G[q] = {}
    BY DEF Shares
  <2>. QED
    BY <2>1, <2>2 DEF CanHave
<1>3. CASE s.repo # repo
  <2>1. {} \in SUBSET remote'[repo]
    OBVIOUS
  <2>. QED
    BY <1>3, <2>1 DEF CanHave
<1>4. CASE s.repo = repo /\ s.repo = req[r].repo /\ s.created = req[r].created + 1
           /\ remote'[repo] \ remote[repo] # {}
  <2>1. PICK f : f \in remote'[repo] /\ f \notin remote[repo]
    BY <1>4
  <2>2. G[r] \in SUBSET remote'[repo] /\ f \notin G[r] /\ f \notin H
        /\ \A q \in Requests : f \notin G[q]
    BY <2>1
  <2>3. IsFiniteSet(G[r])
    BY <2>2, FS_Subset
  <2>4. Cardinality(G[r] \cup {f}) = Cardinality(G[r]) + 1
    BY <2>2, <2>3, FS_AddElement
  <2>5. s.created = Cardinality(G[r] \cup {f})
    BY <1>4, <2>4 DEF Shares
  <2>6. (G[r] \cup {f}) \cap H = {}
        /\ \A q \in Requests : q # r => (G[r] \cup {f}) \cap G[q] = {}
    BY <2>2 DEF Shares
  <2>. QED
    BY <2>1, <2>2, <2>5, <2>6 DEF CanHave
<1>. QED
  BY <1>1, <1>2, <1>3, <1>4 DEF GoesOn

\* The rows of connections keep their repositories.
ConnsKept ==
    \A c \in Conns : conns[c].status # "absent" =>
        conns'[c].status # "absent" /\ conns'[c].repo = conns[c].repo

LEMMA RunsKept ==
    ASSUME BridgeTypeOK, CreatedInv, ConnsKept
    PROVE  \A n \in 1 .. Len(runs) : /\ runs[n].conn \in Conns
                                     /\ conns'[runs[n].conn].status # "absent"
                                     /\ conns'[runs[n].conn].repo = conns[runs[n].conn].repo
<1>1. \A n \in 1 .. Len(runs) : runs[n] \in Run
  BY DEF BridgeTypeOK
<1>. QED
  BY <1>1 DEF CreatedInv, RunsKnown, ConnsKept, Run

\* A step that stores no run.
LEMMA CreatedMoves ==
    ASSUME BridgeTypeOK, CreatedInv, ConnsKept, runs' = runs, NEW r \in Requests, NEW s,
           req' = [req EXCEPT ![r] = s], GoesOn(s, req[r]),
           \A repo \in Repos : /\ remote[repo] \subseteq remote'[repo]
                               /\ IsFiniteSet(remote[repo]) => IsFiniteSet(remote'[repo])
    PROVE  CreatedInv'
<1>1. RunsKnown'
  BY RunsKept DEF RunsKnown
<1>2. ASSUME NEW repo \in Repos PROVE Shared(repo)'
  <2>1. CreatedIn(repo)' = CreatedIn(repo)
    <3>1. runs \in Seq(Run)
      BY DEF BridgeTypeOK
    <3>2. ReportedIn(runs, conns', repo) = ReportedIn(runs, conns, repo)
      BY <3>1, RunsKept, ReportedKept
    <3>. QED
      BY <3>2, CreatedInIs, CreatedInIsThen
  <2>2. PICK H \in SUBSET remote[repo], G \in [Requests -> SUBSET remote[repo]] :
           Shares(repo, H, G)
    BY DEF CreatedInv, Shared
  <2>3. IsFiniteSet(remote'[repo]) /\ remote[repo] \subseteq remote'[repo]
    BY DEF CreatedInv, Shared
  <2>4. PICK mine \in SUBSET remote'[repo] : CanHave(mine, s, r, repo, H, G)
    BY <2>2, <2>3, MineNext
  <2>. DEFINE K == [q \in Requests |-> IF q = r THEN mine ELSE G[q]]
  <2>5. K \in [Requests -> SUBSET remote'[repo]] /\ H \in SUBSET remote'[repo]
    BY <2>3
  <2>6. \A q \in Requests : K[q] \cap H = {}
    BY <2>2, <2>4 DEF Shares, CanHave
  <2>7. \A p, q \in Requests : p # q => K[p] \cap K[q] = {}
    BY <2>2, <2>4 DEF Shares, CanHave
  <2>8. CreatedIn(repo)' = Cardinality(H)
    BY <2>1, <2>2 DEF Shares
  <2>9. ASSUME NEW q \in Requests, req'[q].repo = repo
        PROVE  req'[q].created = Cardinality(K[q])
    <3>1. CASE q = r
      BY <2>4, <2>9, <3>1 DEF BridgeTypeOK, CanHave
    <3>2. CASE q # r
      BY <2>2, <2>9, <3>2 DEF BridgeTypeOK, Shares
    <3>. QED
      BY <3>1, <3>2
  <2>10. Shares(repo, H, K)'
    <3>. HIDE DEF K
    <3>. QED
      BY <2>6, <2>7, <2>8, <2>9 DEF Shares
  <2>. QED
    BY <2>3, <2>5, <2>10 DEF Shared
<1>. QED
  BY <1>1, <1>2 DEF CreatedInv

\* A request that stores its run: its folders are now among those reported.
LEMMA CreatedStored ==
    ASSUME BridgeTypeOK, CreatedInv, ConnsKept, remote' = remote, NEW r \in Requests,
           Answer(r), NEW run \in Run, runs' = Append(runs, run),
           run.created = req[r].created, conns'[run.conn].repo = req[r].repo,
           conns'[run.conn].status # "absent"
    PROVE  CreatedInv'
<1>0. runs \in Seq(Run)
  BY DEF BridgeTypeOK
<1>1. RunsKnown'
  <2>1. Len(runs') = Len(runs) + 1 /\ runs'[Len(runs) + 1] = run
        /\ \A n \in 1 .. Len(runs) : runs'[n] = runs[n]
    BY <1>0
  <2>2. Len(runs) \in Nat
    BY <1>0
  <2>. QED
    BY <2>1, <2>2, RunsKept DEF RunsKnown
<1>2. ASSUME NEW repo \in Repos PROVE Shared(repo)'
  <2>1. CreatedIn(repo)' = CreatedIn(repo)
                           + (IF req[r].repo = repo THEN req[r].created ELSE 0)
    <3>1. ReportedIn(runs, conns', repo) = ReportedIn(runs, conns, repo)
      BY <1>0, RunsKept, ReportedKept
    <3>2. ReportedIn(Append(runs, run), conns', repo)
             = ReportedIn(runs, conns', repo)
               + (IF conns'[run.conn].repo = repo THEN run.created ELSE 0)
      BY <1>0, ReportedGrows
    <3>. QED
      BY <3>1, <3>2, CreatedInIs, CreatedInIsThen
  <2>2. PICK H \in SUBSET remote[repo], G \in [Requests -> SUBSET remote[repo]] :
           Shares(repo, H, G)
    BY DEF CreatedInv, Shared
  <2>3. IsFiniteSet(remote[repo]) /\ IsFiniteSet(H) /\ IsFiniteSet(G[r])
    BY <2>2, FS_Subset DEF CreatedInv, Shared
  <2>0. PICK I : I = IF req[r].repo = repo THEN H \cup G[r] ELSE H
    OBVIOUS
  <2>. DEFINE K == [q \in Requests |-> IF q = r THEN {} ELSE G[q]]
  <2>4. I \in SUBSET remote[repo] /\ K \in [Requests -> SUBSET remote[repo]]
    BY <2>0, <2>2
  <2>5. \A q \in Requests : K[q] \cap I = {}
    BY <2>0, <2>2 DEF Shares
  <2>6. \A p, q \in Requests : p # q => K[p] \cap K[q] = {}
    BY <2>2 DEF Shares
  <2>7. CreatedIn(repo)' = Cardinality(I)
    <3>1. CASE req[r].repo = repo
      <4>1. Cardinality(H \cup G[r]) = Cardinality(H) + Cardinality(G[r])
        <5>1. H \cap G[r] = {} /\ Cardinality({}) = 0
          BY <2>2, FS_EmptySet DEF Shares
        <5>2. Cardinality(H \cup G[r])
                 = Cardinality(H) + Cardinality(G[r]) - Cardinality(H \cap G[r])
          BY <2>3, FS_Union
        <5>3. Cardinality(H) \in Nat /\ Cardinality(G[r]) \in Nat
          BY <2>3, FS_CardinalityType
        <5>4. Cardinality(H \cap G[r]) = 0
          BY <5>1
        <5>. QED
          BY <5>2, <5>3, <5>4
      <4>. QED
        BY <2>0, <2>1, <2>2, <3>1, <4>1 DEF Shares
    <3>2. CASE req[r].repo # repo
      <4>1. Cardinality(H) \in Nat
        BY <2>3, FS_CardinalityType
      <4>. QED
        BY <2>0, <2>1, <2>2, <3>2, <4>1 DEF Shares
    <3>. QED
      BY <3>1, <3>2
  <2>8. ASSUME NEW q \in Requests, req'[q].repo = repo
        PROVE  req'[q].created = Cardinality(K[q])
    <3>1. CASE q = r
      BY <2>8, <3>1, BridgeAssumption DEF BridgeTypeOK, Answer, IdleRequest
    <3>2. CASE q # r
      BY <2>2, <2>8, <3>2 DEF BridgeTypeOK, Shares, Answer
    <3>. QED
      BY <3>1, <3>2
  <2>9. Shares(repo, I, K)'
    <3>. HIDE DEF K
    <3>. QED
      BY <2>5, <2>6, <2>7, <2>8 DEF Shares
  <2>. QED
    BY <2>3, <2>4, <2>9 DEF Shared
<1>. QED
  BY <1>1, <1>2 DEF CreatedInv

\* A request begins with nothing created.
Begun(r) ==
    /\ UNCHANGED <<conns, runs, remote>>
    /\ \E s : req' = [req EXCEPT ![r] = s] /\ s.created = 0

LEMMA AboutBegun ==
    ASSUME BridgeTypeOK, NEW r \in Requests, NEW c \in Conns, NEW token,
           StartRotate(r, c, token) \/ StartDisconnect(r, c) \/ StartScaffold(r, c)
    PROVE  Begun(r)
<1>1. ASSUME NEW op \in ConnOps, c \in Active
      PROVE  \E b \in Request : b = About(c, op) /\ b.created = 0
  <2>1. About(c, op) \in Request
    BY <1>1, AboutType
  <2>2. About(c, op).created = 0
    BY DEF About, IdleRequest
  <2>. QED
    BY <2>1, <2>2
<1>2. ASSUME NEW b \in Request
      PROVE  /\ [b EXCEPT !.step = "validate", !.token = token].created = b.created
             /\ [b EXCEPT !.step = "save"].created = b.created
             /\ [b EXCEPT !.step = "check", !.todo = ActiveFolders].created = b.created
  BY DEF Request
<1>3. CASE StartRotate(r, c, token)
  <2>1. PICK b \in Request : b = About(c, "rotate") /\ b.created = 0
    BY <1>1, <1>3 DEF StartRotate, ConnOps
  <2>2. PICK s : s = [b EXCEPT !.step = "validate", !.token = token]
    OBVIOUS
  <2>3. req' = [req EXCEPT ![r] = s] /\ UNCHANGED <<conns, runs, remote>>
    BY <1>3, <2>1, <2>2 DEF StartRotate, Begin
  <2>. QED
    BY <1>2, <2>1, <2>2, <2>3 DEF Begun
<1>4. CASE StartDisconnect(r, c)
  <2>1. PICK b \in Request : b = About(c, "disconnect") /\ b.created = 0
    BY <1>1, <1>4 DEF StartDisconnect, ConnOps
  <2>2. PICK s : s = [b EXCEPT !.step = "save"]
    OBVIOUS
  <2>3. req' = [req EXCEPT ![r] = s] /\ UNCHANGED <<conns, runs, remote>>
    BY <1>4, <2>1, <2>2 DEF StartDisconnect, Begin
  <2>. QED
    BY <1>2, <2>1, <2>2, <2>3 DEF Begun
<1>5. CASE StartScaffold(r, c)
  <2>1. PICK b \in Request : b = About(c, "scaffold") /\ b.created = 0
    BY <1>1, <1>5 DEF StartScaffold, ConnOps
  <2>2. PICK s : s = [b EXCEPT !.step = "check", !.todo = ActiveFolders]
    OBVIOUS
  <2>3. req' = [req EXCEPT ![r] = s] /\ UNCHANGED <<conns, runs, remote>>
    BY <1>5, <2>1, <2>2 DEF StartScaffold, Begin
  <2>. QED
    BY <1>2, <2>1, <2>2, <2>3 DEF Begun
<1>. QED
  BY <1>3, <1>4, <1>5

LEMMA StartConnectBegun ==
    ASSUME NEW r \in Requests, NEW repo, NEW token, StartConnect(r, repo, token)
    PROVE  Begun(r)
<1>. DEFINE s == [IdleRequest EXCEPT !.step = "validate", !.op = "connect",
                                     !.repo = repo, !.token = token]
<1>1. req' = [req EXCEPT ![r] = s] /\ UNCHANGED <<conns, runs, remote>>
  BY DEF StartConnect, Begin
<1>2. s.created = 0
  BY DEF IdleRequest
<1>. HIDE DEF s
<1>. QED
  BY <1>1, <1>2 DEF Begun

\* A change of the configuration is not a run of its own.
LEMMA ChangeBegun ==
    ASSUME NEW r \in Requests, NEW s, StartChange(r, s), s.created = 0
    PROVE  Begun(r)
BY DEF StartChange, Begin, Begun

LEMMA WritingCreates ==
    ASSUME BridgeTypeOK, NEW op \in ConfigOps, NEW list \in SUBSET Folders,
           NEW i \in CustomRow
    PROVE  \E b \in Request : b = Writing(op, list, i) /\ b.created = 0
<1>1. Writing(op, list, i) \in Request
  BY WritingType
<1>2. PICK read : read = IF i = 0 THEN NoConfig ELSE custom[i]
  OBVIOUS
<1>3. Writing(op, list, i) = [IdleRequest EXCEPT !.step = "save", !.op = op, !.row = i,
            !.read = read, !.write = [folders |-> list, updated |-> clock + 1]]
  BY <1>2 DEF Writing
<1>4. Writing(op, list, i).created = 0
  BY <1>3 DEF IdleRequest
<1>. QED
  BY <1>1, <1>4

LEMMA ConfigBegun ==
    ASSUME BridgeTypeOK, Stamped, NEW r \in Requests,
           \/ \E list \in SUBSET Folders : Replace(r, list)
           \/ \E f \in Folders : AddFolder(r, f) \/ RemoveFolder(r, f)
    PROVE  Begun(r)
<1>0. ActiveFolders \in SUBSET Folders
  BY ActiveFoldersType
<1>2. ASSUME NEW list \in SUBSET Folders, Replace(r, list) PROVE Begun(r)
  <2>1. PICK i \in CustomRow : StartChange(r, Writing("replace", list, i))
    BY <1>2 DEF Replace
  <2>. QED
    BY <2>1, WritingCreates, ChangeBegun DEF ConfigOps
<1>3. ASSUME NEW f \in Folders, RemoveFolder(r, f) PROVE Begun(r)
  <2>. DEFINE plan(i) == Writing("remove", ActiveFolders \ {f}, i)
  <2>1. PICK i \in CustomRow : StartChange(r, [plan(i) EXCEPT !.subject = f])
    BY <1>3 DEF RemoveFolder
  <2>2. PICK b \in Request : b = plan(i) /\ b.created = 0
    BY <1>0, WritingCreates DEF ConfigOps
  <2>3. PICK s : s = [b EXCEPT !.subject = f]
    OBVIOUS
  <2>4. s.created = 0
    BY <2>2, <2>3 DEF Request
  <2>. QED
    BY <2>1, <2>2, <2>3, <2>4, ChangeBegun
<1>4. ASSUME NEW f \in Folders, AddFolder(r, f) PROVE Begun(r)
  <2>. DEFINE base(i) == Writing("add", Extended(f), i)
              plan(i) == [base(i) EXCEPT !.subject = f]
              full(i, c) == [plan(i) EXCEPT !.step = "check", !.conn = c,
                                !.repo = conns[c].repo, !.token = conns[c].token,
                                !.todo = {f}]
  <2>1. PICK i \in CustomRow : \/ StartChange(r, plan(i))
                               \/ \E c \in Active : StartChange(r, full(i, c))
    BY <1>4, ZenonT(30) DEF AddFolder
  <2>2. PICK b \in Request : b = base(i) /\ b.created = 0
    BY <1>0, WritingCreates DEF ConfigOps, Extended
  <2>3. PICK p : p = [b EXCEPT !.subject = f]
    OBVIOUS
  <2>4. p \in Request /\ p.created = 0
    BY <2>2, <2>3 DEF Request
  <2>5. CASE StartChange(r, plan(i))
    BY <2>2, <2>3, <2>4, <2>5, ChangeBegun
  <2>6. ASSUME NEW c \in Active, StartChange(r, full(i, c)) PROVE Begun(r)
    <3>1. PICK repo, token : repo = conns[c].repo /\ token = conns[c].token
      OBVIOUS
    <3>2. PICK t : t = [p EXCEPT !.step = "check", !.conn = c, !.repo = repo,
                                 !.token = token, !.todo = {f}]
      OBVIOUS
    <3>3. t.created = 0
      BY <2>4, <3>2 DEF Request
    <3>4. StartChange(r, t)
      BY <2>2, <2>3, <2>6, <3>1, <3>2
    <3>. QED
      BY <3>3, <3>4, ChangeBegun
  <2>. QED
    BY <2>1, <2>5, <2>6, ZenonT(30)
<1>. QED
  BY <1>2, <1>3, <1>4

\* A request that goes on.
LEMMA DoneGoesOn ==
    ASSUME NEW q \in Request, NEW f
    PROVE  Done(q, f).repo = q.repo /\ Done(q, f).created = q.created
BY DEF Done, Request

LEMMA PutAnswerGoesOn ==
    ASSUME BridgeTypeOK, NEW q \in Request, q.folder \in Folders,
           remote' = [remote EXCEPT ![q.repo] = @ \cup {q.folder}]
    PROVE  GoesOn(PutAnswer(q), q)
<1>1. PICK d \in Request : d = Done(q, q.folder) /\ d.repo = q.repo /\ d.created = q.created
  BY DoneType, DoneGoesOn
<1>2. CASE q.folder \in remote[q.repo]
  BY <1>1, <1>2 DEF PutAnswer, GoesOn
<1>3. CASE q.folder \notin remote[q.repo]
  <2>1. PICK s : s = [d EXCEPT !.created = @ + 1]
    OBVIOUS
  <2>2. s.repo = q.repo /\ s.created = q.created + 1
    BY <1>1, <2>1 DEF Request
  <2>3. s = PutAnswer(q)
    BY <1>1, <1>3, <2>1 DEF PutAnswer
  <2>4. s.repo \in Repos => q.folder \in remote'[s.repo] \ remote[s.repo]
    BY <1>3, <2>2 DEF BridgeTypeOK
  <2>. QED
    BY <2>2, <2>3, <2>4 DEF GoesOn
<1>. QED
  BY <1>2, <1>3

LEMMA StepGoesOn ==
    ASSUME NEW q \in Request, NEW step
    PROVE  GoesOn([q EXCEPT !.step = step], q)
<1>1. PICK s : s = [q EXCEPT !.step = step]
  OBVIOUS
<1>2. s.repo = q.repo /\ s.created = q.created
  BY <1>1 DEF Request
<1>. QED
  BY <1>1, <1>2 DEF GoesOn

\* What GitHub gets from a request: one folder more, at most.
LEMMA RemoteGrows ==
    ASSUME BridgeTypeOK, NEW p, NEW f,
           remote' = remote \/ remote' = [remote EXCEPT ![p] = @ \cup {f}]
    PROVE  \A repo \in Repos : /\ remote[repo] \subseteq remote'[repo]
                               /\ IsFiniteSet(remote[repo]) => IsFiniteSet(remote'[repo])
<1>. SUFFICES ASSUME NEW repo \in Repos
              PROVE  /\ remote[repo] \subseteq remote'[repo]
                     /\ IsFiniteSet(remote[repo]) => IsFiniteSet(remote'[repo])
  OBVIOUS
<1>1. remote'[repo] = remote[repo] \/ remote'[repo] = remote[repo] \cup {f}
  BY DEF BridgeTypeOK
<1>. QED
  BY <1>1, FS_AddElement

LEMMA ScaffoldingCreates ==
    ASSUME BridgeInv, CreatedInv, NEW r \in Requests, NEW f \in Folders,
           \/ CheckFolder(r, f) \/ PutFolder(r) \/ PutRefused(r) \/ GitHubUnavailable(r)
           \/ ScaffoldEnds(r) \/ Validate(r)
    PROVE  CreatedInv'
<1>0. BridgeTypeOK
  BY DEF BridgeInv
<1>1. PICK q \in Request : q = req[r]
  BY <1>0 DEF BridgeTypeOK
<1>2. UNCHANGED <<conns, runs>>
  BY DEF CheckFolder, PutFolder, PutRefused, GitHubUnavailable, ScaffoldEnds, Validate
<1>3. remote' = remote \/ remote' = [remote EXCEPT ![q.repo] = @ \cup {q.folder}]
  BY <1>1 DEF CheckFolder, PutFolder, PutRefused, GitHubUnavailable, ScaffoldEnds, Validate
<1>4. ASSUME NEW s, req' = [req EXCEPT ![r] = s], GoesOn(s, q) PROVE CreatedInv'
  <2>1. ConnsKept
    BY <1>2 DEF ConnsKept
  <2>2. \A repo \in Repos : /\ remote[repo] \subseteq remote'[repo]
                            /\ IsFiniteSet(remote[repo]) => IsFiniteSet(remote'[repo])
    BY <1>0, <1>3, RemoteGrows
  <2>. QED
    BY <1>0, <1>1, <1>2, <1>4, <2>1, <2>2, CreatedMoves
<1>5. CASE CheckFolder(r, f)
  <2>1. PICK s : s = [q EXCEPT !.step = "put", !.folder = f]
    OBVIOUS
  <2>2. s.repo = q.repo /\ s.created = q.created
    BY <2>1 DEF Request
  <2>3. GoesOn(s, q) /\ GoesOn(Done(q, f), q)
    BY <2>2, DoneGoesOn DEF GoesOn
  <2>4. req' = [req EXCEPT ![r] = Done(q, f)] \/ req' = [req EXCEPT ![r] = s]
    BY <1>1, <1>5, <2>1 DEF CheckFolder
  <2>. QED
    BY <1>4, <2>3, <2>4
<1>6. CASE PutFolder(r)
  <2>1. q.folder \in Folders
    BY <1>1, <1>6 DEF PutFolder, BridgeInv, LinkInv, RequestsKnow, Knows
  <2>2. GoesOn(PutAnswer(q), q)
    BY <1>0, <1>1, <1>6, <2>1, PutAnswerGoesOn DEF PutFolder
  <2>. QED
    BY <1>1, <1>4, <1>6, <2>2 DEF PutFolder
<1>7. CASE PutRefused(r)
  <2>1. GoesOn(Done(q, q.folder), q)
    BY DoneGoesOn DEF GoesOn
  <2>. QED
    BY <1>1, <1>4, <1>7, <2>1 DEF PutRefused
<1>8. CASE GitHubUnavailable(r)
  <2>1. CutShort(q).created = 0
    BY DEF CutShort, Request
  <2>. QED
    BY <1>1, <1>4, <1>8, <2>1 DEF GitHubUnavailable, GoesOn
<1>9. CASE ScaffoldEnds(r) \/ Validate(r)
  <2>1. PICK step : req' = [req EXCEPT ![r].step = step]
    BY <1>9 DEF ScaffoldEnds, Validate, Goto
  <2>2. req' = [req EXCEPT ![r] = [q EXCEPT !.step = step]]
    BY <1>0, <1>1, <2>1 DEF BridgeTypeOK
  <2>. QED
    BY <1>4, <2>2, StepGoesOn
<1>. QED
  BY <1>5, <1>6, <1>7, <1>8, <1>9

\* A request that stores no run, and leaves GitHub and the repositories of
\* the connections alone.
LEMMA QuietCreates ==
    ASSUME BridgeTypeOK, CreatedInv, ConnsKept, UNCHANGED <<runs, remote>>,
           NEW r \in Requests, NEW s, req' = [req EXCEPT ![r] = s], GoesOn(s, req[r])
    PROVE  CreatedInv'
BY CreatedMoves

LEMMA AnswerCreates ==
    ASSUME BridgeTypeOK, CreatedInv, ConnsKept, UNCHANGED <<runs, remote>>,
           NEW r \in Requests, Answer(r)
    PROVE  CreatedInv'
<1>1. IdleRequest.created = 0
  BY DEF IdleRequest
<1>. QED
  BY <1>1, QuietCreates DEF Answer, GoesOn

LEMMA BegunCreates ==
    ASSUME BridgeTypeOK, CreatedInv, NEW r \in Requests, Begun(r)
    PROVE  CreatedInv'
<1>1. PICK s : req' = [req EXCEPT ![r] = s] /\ s.created = 0
  BY DEF Begun
<1>2. ConnsKept
  BY DEF Begun, ConnsKept
<1>. QED
  BY <1>1, <1>2, QuietCreates DEF Begun, GoesOn

LEMMA InsertCreates ==
    ASSUME BridgeTypeOK, CreatedInv, NEW r \in Requests, Insert(r)
    PROVE  CreatedInv'
<1>0. ConnsKept /\ UNCHANGED <<runs, remote>>
  BY DEF ConnsKept, Insert
<1>1. PICK q \in Request : q = req[r]
  BY DEF BridgeTypeOK
<1>2. PICK s : s = [q EXCEPT !.step = "check", !.todo = ActiveFolders]
  OBVIOUS
<1>3. s.repo = q.repo /\ s.created = q.created
  BY <1>1, <1>2 DEF Request
<1>4. Answer(r) \/ req' = [req EXCEPT ![r] = s]
  BY <1>1, <1>2 DEF Insert, BridgeTypeOK
<1>. QED
  BY <1>0, <1>1, <1>3, <1>4, QuietCreates, AnswerCreates DEF GoesOn

\* A row that is written keeps its repository.
LEMMA RowKept ==
    ASSUME BridgeTypeOK, NEW c \in Conns, NEW row, conns' = [conns EXCEPT ![c] = row],
           row.repo = conns[c].repo, row.status \in {conns[c].status, "inactive"}
    PROVE  ConnsKept
BY DEF BridgeTypeOK, ConnsKept

LEMMA CommitsCreate ==
    ASSUME BridgeInv, CreatedInv, NEW r \in Requests, CommitRotate(r) \/ CommitDisconnect(r)
    PROVE  CreatedInv'
<1>. DEFINE c == req[r].conn
<1>1. c \in Conns /\ conns[c] \in ConnRow
  BY Commits DEF CommitRotate, CommitDisconnect
<1>2. BridgeTypeOK /\ Answer(r) /\ UNCHANGED <<runs, remote>>
  BY DEF CommitRotate, CommitDisconnect, BridgeInv
<1>3. CASE CommitRotate(r)
  <2>. DEFINE row == Rotated(conns[c], req[r])
  <2>1. conns' = [conns EXCEPT ![c] = row]
    BY <1>1, <1>2, <1>3 DEF CommitRotate, RotatedRows, BridgeTypeOK
  <2>2. row.repo = conns[c].repo /\ row.status = conns[c].status
    BY <1>1 DEF Rotated, ConnRow
  <2>. HIDE DEF row, c
  <2>3. ConnsKept
    BY <1>1, <1>2, <2>1, <2>2, RowKept
  <2>. QED
    BY <1>2, <2>3, AnswerCreates
<1>4. CASE CommitDisconnect(r)
  <2>. DEFINE row == Disconnected(conns[c])
  <2>1. conns' = [conns EXCEPT ![c] = row]
    BY <1>4 DEF CommitDisconnect
  <2>2. row.repo = conns[c].repo /\ row.status = "inactive"
    BY <1>1 DEF Disconnected, ConnRow
  <2>. HIDE DEF row, c
  <2>3. ConnsKept
    BY <1>1, <1>2, <2>1, <2>2, RowKept
  <2>. QED
    BY <1>2, <2>3, AnswerCreates
<1>. QED
  BY <1>3, <1>4

LEMMA RunOfIs ==
    ASSUME BridgeTypeOK, NEW r \in Requests, NEW c \in Conns
    PROVE  /\ RunOf(req[r], c) \in Run /\ RunOf(req[r], c).conn = c
           /\ RunOf(req[r], c).created = req[r].created
<1>1. req[r].created \in Nat
  BY DEF BridgeTypeOK, Request
<1>. QED
  BY <1>1 DEF RunOf, Run

LEMMA ConnectCreates ==
    ASSUME BridgeTypeOK, CreatedInv, NEW r \in Requests, NEW c \in Conns, CommitConnect(r, c)
    PROVE  CreatedInv'
<1>1. conns[c].status = "absent"
  BY DEF CommitConnect, Fresh
<1>2. conns'[c].repo = req[r].repo /\ conns'[c].status # "absent" /\ ConnsKept
  BY <1>1 DEF CommitConnect, BridgeTypeOK, ConnsKept
<1>3. Answer(r) /\ remote' = remote
  BY DEF CommitConnect
<1>4. PICK run \in Run : /\ run = RunOf(req[r], c) /\ run.conn = c
                         /\ run.created = req[r].created
  BY RunOfIs
<1>5. runs' = Append(runs, run)
  BY <1>4 DEF CommitConnect
<1>. QED
  BY <1>2, <1>3, <1>4, <1>5, CreatedStored

LEMMA ScaffoldCreates ==
    ASSUME BridgeInv, CreatedInv, NEW r \in Requests, CommitScaffold(r)
    PROVE  CreatedInv'
<1>0. BridgeTypeOK
  BY DEF BridgeInv
<1>1. PICK c \in Conns : /\ c = req[r].conn /\ conns[c] \in ConnRow
                         /\ conns[c].status # "absent" /\ req[r].repo = conns[c].repo
  BY Commits DEF CommitScaffold
<1>2. \/ conns' = conns
      \/ conns' = [conns EXCEPT ![c] = [conns[c] EXCEPT !.scaffolded = TRUE]]
  BY <1>1 DEF CommitScaffold
<1>3. PICK row : row = [conns[c] EXCEPT !.scaffolded = TRUE]
  OBVIOUS
<1>4. row.repo = conns[c].repo /\ row.status = conns[c].status
  BY <1>1, <1>3 DEF ConnRow
<1>5. ConnsKept
  <2>1. CASE conns' = conns
    BY <2>1 DEF ConnsKept
  <2>2. CASE conns' = [conns EXCEPT ![c] = row]
    BY <1>0, <1>4, <2>2, RowKept
  <2>. QED
    BY <1>2, <1>3, <2>1, <2>2
<1>6. conns'[c].repo = req[r].repo /\ conns'[c].status # "absent"
  BY <1>1, <1>5 DEF ConnsKept
<1>7. Answer(r) /\ remote' = remote
  BY DEF CommitScaffold
<1>8. PICK run \in Run : /\ run = RunOf(req[r], c) /\ run.conn = c
                         /\ run.created = req[r].created
  BY <1>0, RunOfIs
<1>9. runs' = Append(runs, run)
  BY <1>1, <1>8 DEF CommitScaffold
<1>. QED
  BY <1>0, <1>5, <1>6, <1>7, <1>8, <1>9, CreatedStored

LEMMA CreatedStep ==
    ASSUME BridgeInv, CreatedInv, [BridgeNext]_bridgevars
    PROVE  CreatedInv'
<1>0. BridgeTypeOK /\ Stamped
  BY DEF BridgeInv
<1>1. CASE UNCHANGED bridgevars
  <2>1. \A repo : CreatedIn(repo)' = CreatedIn(repo)
    BY <1>1, CreatedInIs, CreatedInIsThen DEF bridgevars
  <2>2. UNCHANGED <<conns, runs, remote, req>>
    BY <1>1 DEF bridgevars
  <2>3. ASSUME NEW repo \in Repos PROVE Shared(repo)'
    <3>1. PICK H \in SUBSET remote[repo], G \in [Requests -> SUBSET remote[repo]] :
             Shares(repo, H, G)
      BY DEF CreatedInv, Shared
    <3>2. Shares(repo, H, G)'
      BY <2>1, <2>2, <3>1 DEF Shares
    <3>. QED
      BY <2>2, <3>1, <3>2 DEF CreatedInv, Shared
  <2>. QED
    BY <2>2, <2>3 DEF CreatedInv, RunsKnown
<1>2. ASSUME NEW r \in Requests, Starts(r) PROVE CreatedInv'
  BY <1>0, <1>2, StartConnectBegun, AboutBegun, ConfigBegun, BegunCreates DEF Starts
<1>3. ASSUME NEW r \in Requests, Proceeds(r) PROVE CreatedInv'
  <2>1. PICK f : f \in Folders
    BY BridgeAssumption
  <2>2. CASE \E c \in Conns : CommitConnect(r, c)
    BY <1>0, <2>2, ConnectCreates
  <2>3. CASE ValidationFails(r)
    BY <1>0, <2>3, AnswerCreates DEF ValidationFails, ConnsKept
  <2>4. CASE CommitConfig(r)
    BY <1>0, <2>4, AnswerCreates DEF CommitConfig, ConnsKept
  <2>. QED
    BY <1>0, <1>3, <2>1, <2>2, <2>3, <2>4, ScaffoldingCreates, InsertCreates,
       CommitsCreate, ScaffoldCreates DEF Proceeds
<1>4. ASSUME NEW r \in Requests, Dies(r) PROVE CreatedInv'
  BY <1>0, <1>4, AnswerCreates DEF Dies, ConnsKept
<1>. QED
  BY <1>1, <1>2, <1>3, <1>4 DEF BridgeNext

LEMMA CreatedInit ==
    ASSUME BridgeInit
    PROVE  CreatedInv
<1>1. runs = <<>> /\ RunsKnown
  BY DEF BridgeInit, RunsKnown
<1>2. ASSUME NEW repo \in Repos PROVE Shared(repo)
  <2>1. CreatedIn(repo) = 0
    <3>1. PICK f : /\ Adds(f, Len(runs), [n \in 1 .. Len(runs) |-> ShareOf(runs, conns, repo, n)])
                   /\ ReportedIn(runs, conns, repo) = f[Len(runs)]
      <4>1. runs \in Seq(Run)
        BY <1>1
      <4>. QED
        BY <4>1, ReportedSum
    <3>2. Len(runs) = 0
      BY <1>1
    <3>3. ReportedIn(runs, conns, repo) = 0
      BY <3>1, <3>2 DEF Adds
    <3>. QED
      BY <3>3, CreatedInIs
  <2>2. IsFiniteSet(remote[repo])
    BY BridgeAssumption DEF BridgeInit
  <2>. DEFINE G == [r \in Requests |-> {}]
  <2>3. Shares(repo, {}, G)
    BY <2>1, FS_EmptySet DEF Shares, BridgeInit, IdleRequest
  <2>4. {} \in SUBSET remote[repo] /\ G \in [Requests -> SUBSET remote[repo]]
    OBVIOUS
  <2>. HIDE DEF G
  <2>. QED
    BY <2>2, <2>3, <2>4 DEF Shared
<1>. QED
  BY <1>1, <1>2 DEF CreatedInv

\* FR-4.7, scaffold_repository counting only 201: the runs of a repository do
\* not report more folders than it has, for any number of requests that
\* scaffold at once, fail or die.
THEOREM ReportedOnce == BridgeSpec => []CreatedOnce
<1>1. BridgeInit => CreatedInv
  BY CreatedInit
<1>2. CreatedInv => CreatedOnce
  <2>. SUFFICES ASSUME CreatedInv, NEW repo \in Repos
                PROVE  CreatedIn(repo) <= Cardinality(remote[repo])
    BY DEF CreatedOnce
  <2>1. PICK H \in SUBSET remote[repo], G \in [Requests -> SUBSET remote[repo]] :
           Shares(repo, H, G)
    BY DEF CreatedInv, Shared
  <2>. QED
    BY <2>1, FS_Subset DEF CreatedInv, Shared, Shares
<1>. QED
  BY <1>1, <1>2, CreatedStep, BridgeSound, PTL DEF BridgeSpec
=============================================================================
