-------------------------- MODULE UserAdmin_proofs --------------------------
(***************************************************************************)
(* Proofs about UserAdmin, for every number of accounts, invitations and   *)
(* requests in flight.                                                     *)
(***************************************************************************)
EXTENDS UserAdmin, TLAPS

(***************************************************************************)
(* The inductive invariant.                                                *)
(***************************************************************************)
Inserting == {"register", "accept"}
Updating == {"change_role", "revoke", "reactivate", "login"}
Demoting == {"change_role", "revoke"}

InFlight(r, ops) == req[r].step = "checked" /\ req[r].op \in ops

\* What a request that was checked still knows when it commits: accounts
\* and invitations never vanish, and an invitation keeps its address.
RequestSound(s) ==
    /\ s.step = "idle" => s.op = "none" /\ s.inv = NoInv
    /\ s.step = "checked" => s.op \in Inserting \cup Updating \cup {"resend"}
    /\ s.step # "idle" => s.user \in Users
    /\ s.step = "flushed" =>
          s.op \in {"invite", "resend"} /\ s.inv \in Invs /\ invites[s.inv].status = "absent"
    /\ \A i \in s.expiring : invites[i].status # "absent"
    /\ s.step = "checked" /\ s.op \in Updating =>
          s.row.role # "none" /\ Exists(s.user)
    /\ s.step = "checked" /\ s.op \in Inserting \cup {"change_role"} => s.role \in Roles
    /\ s.step = "checked" /\ s.op = "register" => s.role = "admin"
    /\ s.step = "checked" /\ s.op = "accept" =>
          /\ s.inv \in Invs
          /\ invites[s.inv].status # "absent"
          /\ invites[s.inv].email = s.user

RequestsSound == \A r \in Requests : RequestSound(req[r])

\* An invitation belongs to its address, and a number to the one request
\* that is issuing it.
InvitationsSound ==
    /\ \A i \in Invs : invites[i].status # "absent" => invites[i].email \in Users
    /\ \A q, r \in Requests :
          req[r].step = "flushed" /\ req[q].inv = req[r].inv => q = r

SomeAccount == \E u \in Users : Exists(u)

\* Only an administrator invites.
InvitedByAccount ==
    /\ \A i \in Invs : invites[i].status # "absent" => SomeAccount
    /\ \A r \in Requests : req[r].step # "idle" => req[r].op = "register" \/ SomeAccount

\* A request that may take an administrator away is the only one, and was
\* sent by another administrator.
OtherAdminRemains ==
    "demotions" \notin crossed =>
       \A r \in Requests : InFlight(r, Demoting) =>
          /\ \E a \in Admins : a # req[r].user
          /\ \A q \in Requests : InFlight(q, Demoting) => q = r

\* A login and a revocation of the account are not in flight together, so
\* the account is as active as the login read it.
LoginStillAllowed ==
    "login" \notin crossed =>
       \A r \in Requests : InFlight(r, {"login"}) =>
          /\ users[req[r].user].active
          /\ \A q \in Requests : ~(InFlight(q, {"revoke"}) /\ req[q].user = req[r].user)

UserInv ==
    /\ UserTypeOK
    /\ RequestsSound /\ InvitationsSound /\ InvitedByAccount
    /\ AcceptedHasAccount /\ AcceptedOnce
    /\ OtherAdminRemains /\ GuardKeepsAdmin
    /\ LoginStillAllowed /\ DeactivatedHasNoSession

(***************************************************************************)
(* What a commit writes to an account.                                     *)
(***************************************************************************)

\* An UPDATE writes the attribute its operation changes, if the row that was
\* loaded had another value, and leaves the other one alone.
LEMMA Written ==
    ASSUME NEW s \in Request, s.op \in Updating, NEW row \in Account, row.role # "none",
           s.row.role # "none", s.op = "change_role" => s.role \in Roles
    PROVE  LET f == Flush(row, s.row, Assigned(s))
           IN /\ f \in Account
              /\ f.role # "none"
              /\ s.op # "change_role" => f.role = row.role
              /\ s.op = "change_role" => f.role \in {row.role, s.role}
              /\ s.op # "revoke" /\ row.active => f.active
              /\ s.op \in {"change_role", "login"} => f.active = row.active
<1>1. DOMAIN row = {"role", "active"} /\ s.row \in Account
  BY DEF Account, Request
<1>2. CASE s.op = "change_role"
  <2>1. Assigned(s) = [s.row EXCEPT !.role = s.role]
    BY <1>2 DEF Assigned, Inserts
  <2>. QED
    BY <1>1, <1>2, <2>1 DEF Flush, Account, Roles
<1>3. CASE s.op = "revoke"
  <2>1. Assigned(s) = [s.row EXCEPT !.active = FALSE]
    BY <1>3 DEF Assigned, Inserts
  <2>. QED
    BY <1>1, <1>3, <2>1 DEF Flush, Account, Roles
<1>4. CASE s.op = "reactivate"
  <2>1. Assigned(s) = [s.row EXCEPT !.active = TRUE]
    BY <1>4 DEF Assigned, Inserts
  <2>. QED
    BY <1>1, <1>4, <2>1 DEF Flush, Account, Roles
<1>5. CASE s.op = "login"
  <2>1. Assigned(s) = s.row
    BY <1>5 DEF Assigned, Inserts
  <2>. QED
    BY <1>1, <1>5, <2>1 DEF Flush, Account, Roles
<1>. QED
  BY <1>2, <1>3, <1>4, <1>5 DEF Updating

(***************************************************************************)
(* Reading and checking: a request that is opened soundly.                 *)
(***************************************************************************)

\* What a decision has to bring along.
Sound(decision) ==
    /\ decision \in Request /\ decision.step # "idle"
    /\ RequestSound(decision)
    /\ decision.op = "register" \/ SomeAccount
    /\ decision.step = "flushed" => Issuable(decision.inv)
    /\ decision.step = "checked" /\ decision.inv \in Invs =>
          invites[decision.inv].status # "absent"
    /\ decision.op \in Demoting => \E a \in Admins : a # decision.user
    /\ decision.op = "login" => users[decision.user].active

\* A race that is possible now is recorded now.
LEMMA CrossingRecorded ==
    ASSUME NEW r \in Requests, NEW decision, Decide(r, decision), NEW q \in Requests
    PROVE  crossed \subseteq crossed' /\ Crossing(decision, req[q]) \subseteq crossed'
BY DEF Decide

\* Opening a request soundly breaks nothing.
LEMMA DecideStep ==
    ASSUME UserInv, NEW r \in Requests, NEW decision, Sound(decision),
           Decide(r, decision)
    PROVE  UserInv'
<1>. USE DEF UserInv
<1>1. /\ req' = [req EXCEPT ![r] = decision]
      /\ UNCHANGED <<users, invites, open>>
      /\ req[r].step = "idle"
  BY DEF Decide
<1>2. req'[r] = decision /\ \A q \in Requests : q # r => req'[q] = req[q]
  BY <1>1 DEF UserTypeOK
<1>3. UserTypeOK'
  <2>1. \A x \in Requests : Crossing(decision, req[x]) \subseteq {"demotions", "login"}
    BY DEF Crossing
  <2>2. crossed' \subseteq {"demotions", "login"}
    BY <2>1 DEF Decide, UserTypeOK
  <2>. QED
    BY <1>1, <2>2 DEF UserTypeOK, Sound
<1>4. RequestsSound'
  BY <1>1, <1>2 DEF RequestsSound, RequestSound, Sound, Exists
<1>5. InvitationsSound'
  <2>1. \A q \in Requests : req[q].step = "flushed" =>
           /\ req[q].inv \in Invs /\ invites[req[q].inv].status = "absent"
    BY DEF RequestsSound, RequestSound
  <2>2. decision.step \in {"checked", "flushed"}
    BY DEF Sound, Request
  <2>3. ASSUME NEW q \in Requests, NEW p \in Requests, req'[q].step = "flushed",
               req'[p].inv = req'[q].inv
        PROVE  p = q
    <3>1. CASE q # r /\ p # r
      BY <1>2, <2>3, <3>1 DEF InvitationsSound
    <3>2. CASE q # r /\ p = r
      BY <1>2, <2>1, <2>2, <2>3, <3>2 DEF Sound, Issuable
    <3>3. CASE q = r /\ p # r
      BY <1>2, <2>3, <3>3 DEF Sound, Issuable
    <3>. QED
      BY <3>1, <3>2, <3>3
  <2>. QED
    BY <1>1, <2>3 DEF InvitationsSound
<1>6. InvitedByAccount'
  BY <1>1, <1>2 DEF InvitedByAccount, SomeAccount, Sound, Exists
<1>7. (AcceptedHasAccount /\ AcceptedOnce /\ GuardKeepsAdmin /\ DeactivatedHasNoSession)'
  BY <1>1, CrossingRecorded DEF AcceptedHasAccount, AcceptedOnce, GuardKeepsAdmin, AdminRemains,
     Admins, Exists, DeactivatedHasNoSession
<1>8. OtherAdminRemains'
  <2> SUFFICES ASSUME "demotions" \notin crossed', NEW p \in Requests, InFlight(p, Demoting)'
               PROVE  /\ \E a \in Admins : a # req'[p].user
                      /\ \A q \in Requests : InFlight(q, Demoting)' => q = p
    BY <1>1 DEF OtherAdminRemains, Admins
  <2>1. "demotions" \notin crossed
    BY CrossingRecorded
  <2>2. decision.op \in Demoting => \A q \in Requests : req[q].op \notin Demoting
    BY CrossingRecorded DEF Crossing, Demoting
  <2>. QED
    BY <1>2, <2>1, <2>2 DEF OtherAdminRemains, InFlight, Sound
<1>9. LoginStillAllowed'
  <2> SUFFICES ASSUME "login" \notin crossed', NEW p \in Requests, InFlight(p, {"login"})'
               PROVE  /\ users[req'[p].user].active
                      /\ \A q \in Requests :
                            ~(InFlight(q, {"revoke"})' /\ req'[q].user = req'[p].user)
    BY <1>1 DEF LoginStillAllowed
  <2>1. "login" \notin crossed
    BY CrossingRecorded
  <2>2. \A q \in Requests : {decision.op, req[q].op} = {"login", "revoke"} =>
                               decision.user # req[q].user
    BY CrossingRecorded DEF Crossing
  <2>. QED
    BY <1>2, <2>1, <2>2 DEF LoginStillAllowed, InFlight, Sound
<1>. QED
  BY <1>3, <1>4, <1>5, <1>6, <1>7, <1>8, <1>9

\* Every check decides soundly.
LEMMA Decisions ==
    ASSUME UserAssumption, UserInv, NEW r \in Requests
    PROVE
    /\ \A u \in Users : CheckRegister(r, u) => UserInv'
    /\ \A a \in Users, u \in Users, i \in Invs : Invite(r, a, u, i) => UserInv'
    /\ \A a \in Users, i \in Invs : CheckResend(r, a, i) => UserInv'
    /\ \A i \in Invs : CheckAccept(r, i) => UserInv'
    /\ \A a \in Users, u \in Users, role \in Roles : CheckChangeRole(r, a, u, role) => UserInv'
    /\ \A a \in Users, u \in Users : CheckRevoke(r, a, u) => UserInv'
    /\ \A a \in Users, u \in Users : CheckReactivate(r, a, u) => UserInv'
    /\ \A u \in Users : CheckLogin(r, u) => UserInv'
<1>. USE DEF UserInv, UserTypeOK
<1>1. ASSUME NEW u \in Users, CheckRegister(r, u)
      PROVE  UserInv'
  <2> DEFINE decision == [Checked("register", u) EXCEPT !.role = "admin"]
  <2>1. Decide(r, decision)
    BY <1>1 DEF CheckRegister
  <2>2. /\ decision.step = "checked" /\ decision.op = "register"
        /\ decision.user = u /\ decision.row = users[u]
        /\ decision.role = "admin" /\ decision.inv = NoInv
        /\ decision.expiring = {}
    BY DEF Checked
  <2>3. decision \in Request
    BY <1>1 DEF CheckRegister, Checked, Request, Ops, Roles
  <2> HIDE DEF decision
  <2>4. Sound(decision)
    BY <1>1, <2>2, <2>3, UserAssumption DEF CheckRegister, Sound, RequestSound, Exists, SomeAccount,
       Inserting, Updating, Demoting, Admins, Roles, InvitedByAccount, UserAssumption
  <2>. QED
    BY <2>1, <2>4, DecideStep
<1>2. ASSUME NEW a \in Users, NEW u \in Users, NEW i \in Invs, Invite(r, a, u, i)
      PROVE  UserInv'
  <2> DEFINE decision == [Checked("invite", u) EXCEPT !.step = "flushed", !.inv = i,
                                              !.expiring = PendingFor(u)]
  <2>1. Decide(r, decision)
    BY <1>2 DEF Invite
  <2>2. /\ decision.step = "flushed" /\ decision.op = "invite"
        /\ decision.user = u /\ decision.row = users[u]
        /\ decision.role = "none" /\ decision.inv = i
        /\ decision.expiring = PendingFor(u)
    BY DEF Checked
  <2>3. decision \in Request
    BY <1>2 DEF Invite, Checked, Request, Ops, Roles, PendingFor
  <2> HIDE DEF decision
  <2>4. Sound(decision)
    BY <1>2, <2>2, <2>3, UserAssumption DEF Invite, Sound, RequestSound, Exists, SomeAccount,
       Inserting, Updating, Demoting, Admins, Roles, InvitedByAccount, UserAssumption, PendingFor, Issuable, Authorized, Admins
  <2>. QED
    BY <2>1, <2>4, DecideStep
<1>3. ASSUME NEW a \in Users, NEW i \in Invs, CheckResend(r, a, i)
      PROVE  UserInv'
  <2> DEFINE decision == [Checked("resend", invites[i].email) EXCEPT
              !.expiring = IF invites[i].status = "pending" THEN {i} ELSE {}]
  <2>1. Decide(r, decision)
    BY <1>3 DEF CheckResend
  <2>2. /\ decision.step = "checked" /\ decision.op = "resend"
        /\ decision.user = invites[i].email /\ decision.row = users[invites[i].email]
        /\ decision.role = "none" /\ decision.inv = NoInv
        /\ decision.expiring = (IF invites[i].status = "pending" THEN {i} ELSE {})
    BY DEF Checked
  <2>3. decision \in Request
    BY <1>3 DEF CheckResend, Checked, Request, Ops, Roles, InvitationsSound
  <2> HIDE DEF decision
  <2>4. Sound(decision)
    BY <1>3, <2>2, <2>3, UserAssumption DEF CheckResend, Sound, RequestSound, Exists, SomeAccount,
       Inserting, Updating, Demoting, Admins, Roles, InvitedByAccount, UserAssumption, InvitationsSound
  <2>. QED
    BY <2>1, <2>4, DecideStep
<1>4. ASSUME NEW i \in Invs, CheckAccept(r, i)
      PROVE  UserInv'
  <2> DEFINE decision == [Checked("accept", invites[i].email) EXCEPT !.role = "marketer", !.inv = i]
  <2>1. Decide(r, decision)
    BY <1>4 DEF CheckAccept
  <2>2. /\ decision.step = "checked" /\ decision.op = "accept"
        /\ decision.user = invites[i].email /\ decision.row = users[invites[i].email]
        /\ decision.role = "marketer" /\ decision.inv = i
        /\ decision.expiring = {}
    BY DEF Checked
  <2>3. decision \in Request
    BY <1>4 DEF CheckAccept, Checked, Request, Ops, Roles, InvitationsSound
  <2> HIDE DEF decision
  <2>4. Sound(decision)
    BY <1>4, <2>2, <2>3, UserAssumption DEF CheckAccept, Sound, RequestSound, Exists, SomeAccount,
       Inserting, Updating, Demoting, Admins, Roles, InvitedByAccount, UserAssumption, InvitationsSound, Issuable
  <2>. QED
    BY <2>1, <2>4, DecideStep
<1>5. ASSUME NEW a \in Users, NEW u \in Users, NEW role \in Roles, CheckChangeRole(r, a, u, role)
      PROVE  UserInv'
  <2> DEFINE decision == [Checked("change_role", u) EXCEPT !.role = role]
  <2>1. Decide(r, decision)
    BY <1>5 DEF CheckChangeRole
  <2>2. /\ decision.step = "checked" /\ decision.op = "change_role"
        /\ decision.user = u /\ decision.row = users[u]
        /\ decision.role = role /\ decision.inv = NoInv
        /\ decision.expiring = {}
    BY DEF Checked
  <2>3. decision \in Request
    BY <1>5 DEF CheckChangeRole, Checked, Request, Ops, Roles
  <2> HIDE DEF decision
  <2>4. Sound(decision)
    BY <1>5, <2>2, <2>3, UserAssumption DEF CheckChangeRole, Sound, RequestSound, Exists, SomeAccount,
       Inserting, Updating, Demoting, Admins, Roles, InvitedByAccount, UserAssumption, Authorized
  <2>. QED
    BY <2>1, <2>4, DecideStep
<1>6. ASSUME NEW a \in Users, NEW u \in Users, CheckRevoke(r, a, u)
      PROVE  UserInv'
  <2> DEFINE decision == Checked("revoke", u)
  <2>1. Decide(r, decision)
    BY <1>6 DEF CheckRevoke
  <2>2. /\ decision.step = "checked" /\ decision.op = "revoke"
        /\ decision.user = u /\ decision.row = users[u]
        /\ decision.role = "none" /\ decision.inv = NoInv
        /\ decision.expiring = {}
    BY DEF Checked
  <2>3. decision \in Request
    BY <1>6 DEF CheckRevoke, Checked, Request, Ops, Roles
  <2> HIDE DEF decision
  <2>4. Sound(decision)
    BY <1>6, <2>2, <2>3, UserAssumption DEF CheckRevoke, Sound, RequestSound, Exists, SomeAccount,
       Inserting, Updating, Demoting, Admins, Roles, InvitedByAccount, UserAssumption, Authorized, MayLoseAdmin
  <2>. QED
    BY <2>1, <2>4, DecideStep
<1>7. ASSUME NEW a \in Users, NEW u \in Users, CheckReactivate(r, a, u)
      PROVE  UserInv'
  <2> DEFINE decision == Checked("reactivate", u)
  <2>1. Decide(r, decision)
    BY <1>7 DEF CheckReactivate
  <2>2. /\ decision.step = "checked" /\ decision.op = "reactivate"
        /\ decision.user = u /\ decision.row = users[u]
        /\ decision.role = "none" /\ decision.inv = NoInv
        /\ decision.expiring = {}
    BY DEF Checked
  <2>3. decision \in Request
    BY <1>7 DEF CheckReactivate, Checked, Request, Ops, Roles
  <2> HIDE DEF decision
  <2>4. Sound(decision)
    BY <1>7, <2>2, <2>3, UserAssumption DEF CheckReactivate, Sound, RequestSound, Exists, SomeAccount,
       Inserting, Updating, Demoting, Admins, Roles, InvitedByAccount, UserAssumption, Authorized
  <2>. QED
    BY <2>1, <2>4, DecideStep
<1>8. ASSUME NEW u \in Users, CheckLogin(r, u)
      PROVE  UserInv'
  <2> DEFINE decision == Checked("login", u)
  <2>1. Decide(r, decision)
    BY <1>8 DEF CheckLogin
  <2>2. /\ decision.step = "checked" /\ decision.op = "login"
        /\ decision.user = u /\ decision.row = users[u]
        /\ decision.role = "none" /\ decision.inv = NoInv
        /\ decision.expiring = {}
    BY DEF Checked
  <2>3. decision \in Request
    BY <1>8 DEF CheckLogin, Checked, Request, Ops, Roles
  <2> HIDE DEF decision
  <2>4. Sound(decision)
    BY <1>8, <2>2, <2>3, UserAssumption DEF CheckLogin, Sound, RequestSound, Exists, SomeAccount,
       Inserting, Updating, Demoting, Admins, Roles, InvitedByAccount, UserAssumption
  <2>. QED
    BY <2>1, <2>4, DecideStep
<1>. QED
  BY <1>1, <1>2, <1>3, <1>4, <1>5, <1>6, <1>7, <1>8

(***************************************************************************)
(* Writing.                                                                *)
(***************************************************************************)

\* A request that ends leaves the others as they are.
LEMMA Closed ==
    ASSUME UserInv, NEW r \in Requests, Close(r)
    PROVE  /\ req' \in [Requests -> Request]
           /\ req'[r] = IdleRequest
           /\ \A q \in Requests : q # r => req'[q] = req[q]
           /\ crossed' = crossed
BY DEF UserInv, UserTypeOK, Close, IdleRequest, Request, Ops, NoAccount, Account, Roles

\* Nothing is known, or needed, of a request that is over.
LEMMA IdleSound == RequestSound(IdleRequest) /\ RequestSound(IdleRequest)'
BY DEF RequestSound, IdleRequest

\* A request on an account writes that account, and an acceptance its
\* invitation.
LEMMA CommitWrites ==
    ASSUME UserInv, NEW r \in Requests, CommitAccount(r)
    PROVE  LET s == req[r]
           IN /\ s.step = "checked" /\ s.op \in Inserting \cup Updating /\ s.user \in Users
              /\ users' \in [Users -> Account]
              /\ \A u \in Users : u # s.user => users'[u] = users[u]
              /\ users'[s.user].role # "none"
              /\ s.op \in Inserting => ~Exists(s.user) /\ users'[s.user].active
              /\ s.op = "register" => users'[s.user].role = "admin"
              /\ s.op \in Updating \ {"change_role"} =>
                    users'[s.user].role = users[s.user].role
              /\ s.op # "revoke" /\ users[s.user].active => users'[s.user].active
<1> DEFINE s == req[r]
<1>1. /\ s \in Request /\ RequestSound(s)
      /\ s.step = "checked" /\ s.op # "resend"
      /\ users \in [Users -> Account]
  BY DEF CommitAccount, UserInv, UserTypeOK, RequestsSound
<1>2. s.op \in Inserting \cup Updating /\ s.user \in Users
  BY <1>1 DEF RequestSound
<1>3. CASE s.op \in Inserting
  <2>1. Inserts(s) /\ ~Exists(s.user)
    BY <1>3 DEF CommitAccount, Refused, Inserts, Inserting
  <2>2. Assigned(s) = [role |-> s.role, active |-> TRUE]
    BY <2>1 DEF Assigned, Inserts
  <2>3. users' = [users EXCEPT ![s.user] = [role |-> s.role, active |-> TRUE]]
    BY <2>1, <2>2 DEF CommitAccount
  <2>4. s.role \in Roles /\ (s.op = "register" => s.role = "admin")
    BY <1>1, <1>3 DEF RequestSound
  <2>. QED
    BY <1>1, <1>2, <1>3, <2>1, <2>3, <2>4 DEF Account, Roles, Inserting, Updating
<1>4. CASE s.op \in Updating
  <2> DEFINE now == Flush(users[s.user], s.row, Assigned(s))
  <2>1. ~Inserts(s)
    BY <1>4 DEF Inserts, Updating
  <2>2. users' = [users EXCEPT ![s.user] = now]
    BY <2>1 DEF CommitAccount
  <2>3. /\ users[s.user].role # "none" /\ s.row.role # "none"
        /\ s.op = "change_role" => s.role \in Roles
    BY <1>1, <1>4 DEF RequestSound, Exists
  <2>4. users[s.user] \in Account
    BY <1>1, <1>2
  <2>5. /\ now \in Account /\ now.role # "none"
        /\ s.op # "change_role" => now.role = users[s.user].role
        /\ s.op # "revoke" /\ users[s.user].active => now.active
    BY <1>1, <1>4, <2>3, <2>4, Written
  <2> HIDE DEF now
  <2>. QED
    BY <1>1, <1>2, <1>4, <2>2, <2>5 DEF Inserting, Updating
<1>. QED
  BY <1>1, <1>2, <1>3, <1>4

\* An invitation is accepted by a request that read it; no other changes.
LEMMA CommitAccepts ==
    ASSUME UserInv, NEW r \in Requests, CommitAccount(r)
    PROVE  /\ invites' \in [Invs -> Invitation]
           /\ \A i \in Invs :
                 /\ invites'[i].email = invites[i].email
                 /\ invites'[i].status = "absent" <=> invites[i].status = "absent"
                 /\ invites'[i].status = "accepted" =>
                       \/ invites[i].status = "accepted"
                       \/ req[r].op = "accept" /\ i = req[r].inv
<1>1. RequestSound(req[r]) /\ req[r].step = "checked" /\ invites \in [Invs -> Invitation]
  BY DEF CommitAccount, UserInv, UserTypeOK, RequestsSound
<1>2. CASE req[r].op # "accept"
  BY <1>1, <1>2 DEF CommitAccount
<1>3. CASE req[r].op = "accept"
  <2>1. req[r].inv \in Invs /\ invites[req[r].inv].status # "absent"
    BY <1>1, <1>3 DEF RequestSound
  <2>2. invites' = [invites EXCEPT ![req[r].inv].status = "accepted"]
    BY <1>3 DEF CommitAccount
  <2>. QED
    BY <1>1, <1>3, <2>1, <2>2 DEF Invitation, InvStatus
<1>. QED
  BY <1>2, <1>3

\* Committing a change to an account preserves the invariant.
LEMMA CommitStep ==
    ASSUME UserInv, NEW r \in Requests, CommitAccount(r)
    PROVE  UserInv'
<1> DEFINE s == req[r]
<1>. USE DEF UserInv
<1>1. Close(r)
  BY DEF CommitAccount
<1>2. /\ s.step = "checked" /\ s.op \in Inserting \cup Updating /\ s.user \in Users
      /\ users' \in [Users -> Account]
      /\ \A u \in Users : u # s.user => users'[u] = users[u]
      /\ users'[s.user].role # "none"
      /\ s.op \in Inserting => ~Exists(s.user) /\ users'[s.user].active
      /\ s.op = "register" => users'[s.user].role = "admin"
      /\ s.op \in Updating \ {"change_role"} =>
            users'[s.user].role = users[s.user].role
      /\ s.op # "revoke" /\ users[s.user].active => users'[s.user].active
  BY CommitWrites
<1>3. /\ req' \in [Requests -> Request] /\ req'[r] = IdleRequest
      /\ \A q \in Requests : q # r => req'[q] = req[q]
      /\ crossed' = crossed
  BY <1>1, Closed
<1>4. /\ open' \subseteq open \cup {s.user}
      /\ s.op # "login" => open' \subseteq open
      /\ s.op = "revoke" => s.user \notin open'
  BY DEF CommitAccount, Sessions
<1>5. /\ invites' \in [Invs -> Invitation]
      /\ \A i \in Invs :
            /\ invites'[i].email = invites[i].email
            /\ invites'[i].status = "absent" <=> invites[i].status = "absent"
            /\ invites'[i].status = "accepted" =>
                  \/ invites[i].status = "accepted"
                  \/ s.op = "accept" /\ i = s.inv
  BY CommitAccepts
<1>6. \A u \in Users : Exists(u) => Exists(u)'
  BY <1>2 DEF Exists
<1>7. s.op \notin Demoting => Admins \subseteq Admins'
  BY <1>2 DEF Admins, Demoting, Inserting, Updating, Exists
<1>8. UserTypeOK'
  BY <1>2, <1>3, <1>4, <1>5 DEF UserTypeOK
<1>9. RequestsSound'
  <2> SUFFICES ASSUME NEW q \in Requests
               PROVE  RequestSound(req[q])'
    BY DEF RequestsSound
  <2>1. CASE q = r
    BY <1>3, <2>1 DEF RequestSound, IdleRequest
  <2>2. CASE q # r
    <3>1. RequestSound(req[q]) /\ req'[q] = req[q] /\ req[q].expiring \subseteq Invs
      BY <1>3, <2>2 DEF RequestsSound, UserTypeOK, Request
    <3>. QED
      BY <1>5, <1>6, <3>1 DEF RequestSound
  <2>. QED
    BY <2>1, <2>2
<1>10. InvitationsSound'
  <2>1. \A i \in Invs : invites'[i].status # "absent" => invites'[i].email \in Users
    BY <1>5 DEF InvitationsSound
  <2>2. ASSUME NEW p \in Requests, NEW q \in Requests,
               req'[p].step = "flushed", req'[q].inv = req'[p].inv
        PROVE  q = p
    <3>1. p # r /\ req'[p] = req[p] /\ req[p].inv \in Invs
      BY <1>3, <2>2 DEF IdleRequest, RequestsSound, RequestSound
    <3>2. q # r
      BY <1>3, <2>2, <3>1, UserAssumption DEF IdleRequest
    <3>. QED
      BY <1>3, <2>2, <3>1, <3>2 DEF InvitationsSound
  <2>. QED
    BY <2>1, <2>2 DEF InvitationsSound
<1>11. InvitedByAccount'
  BY <1>3, <1>5, <1>6 DEF InvitedByAccount, SomeAccount, IdleRequest
<1>12. AcceptedHasAccount' /\ AcceptedOnce'
  <2>1. s.op = "accept" => s.inv \in Invs /\ invites[s.inv].email = s.user
    BY <1>2 DEF RequestsSound, RequestSound
  <2>2. s.op = "accept" => users[s.user].role = "none" /\ users'[s.user].role # "none"
    BY <1>2 DEF Inserting, Exists
  <2>3. AcceptedHasAccount'
    <3> SUFFICES ASSUME NEW i \in Invs, invites'[i].status = "accepted"
                 PROVE  users'[invites[i].email].role # "none"
      BY <1>5 DEF AcceptedHasAccount, Exists
    <3>1. CASE invites[i].status = "accepted"
      <4>1. invites[i].email \in Users /\ users[invites[i].email].role # "none"
        BY <3>1 DEF InvitationsSound, AcceptedHasAccount, Exists
      <4>. QED
        BY <1>6, <4>1 DEF Exists
    <3>2. CASE s.op = "accept" /\ i = s.inv
      BY <2>1, <2>2, <3>2
    <3>. QED
      BY <1>5, <3>1, <3>2
  <2>4. AcceptedOnce'
    <3> SUFFICES ASSUME NEW i \in Invs, NEW j \in Invs,
                        invites'[i].status = "accepted", invites'[j].status = "accepted",
                        invites[i].email = invites[j].email
                 PROVE  i = j
      BY <1>5 DEF AcceptedOnce
    <3>1. \A k \in Invs : invites[k].status = "accepted" =>
                             users[invites[k].email].role # "none"
      BY DEF AcceptedHasAccount, Exists
    <3>. QED
      BY <1>5, <2>1, <2>2, <3>1 DEF AcceptedOnce
  <2>. QED
    BY <2>3, <2>4
<1>13. GuardKeepsAdmin'
  <2> SUFFICES ASSUME "demotions" \notin crossed
               PROVE  Admins' # {}
    BY <1>3 DEF GuardKeepsAdmin, AdminRemains
  <2>1. CASE s.op \in Demoting
    <3>1. PICK a \in Admins : a # s.user
      BY <1>2, <2>1 DEF OtherAdminRemains, InFlight
    <3>. QED
      BY <1>2, <3>1 DEF Admins
  <2>2. CASE s.op = "register"
    BY <1>2, <2>2 DEF Admins, Inserting
  <2>3. CASE s.op \notin Demoting \cup {"register"}
    <3>1. SomeAccount
      BY <1>2, <2>3 DEF InvitedByAccount
    <3>2. Admins # {}
      BY <3>1 DEF GuardKeepsAdmin, AdminRemains, SomeAccount
    <3>. QED
      BY <1>7, <2>3, <3>2
  <2>. QED
    BY <2>1, <2>2, <2>3
<1>14. OtherAdminRemains'
  <2> SUFFICES ASSUME "demotions" \notin crossed, NEW p \in Requests, InFlight(p, Demoting)'
               PROVE  /\ \E a \in Admins' : a # req'[p].user
                      /\ \A q \in Requests : InFlight(q, Demoting)' => q = p
    BY <1>3 DEF OtherAdminRemains
  <2>1. p # r /\ req'[p] = req[p] /\ InFlight(p, Demoting)
    BY <1>3 DEF InFlight, IdleRequest
  <2>2. s.op \notin Demoting
    BY <1>2, <2>1 DEF OtherAdminRemains, InFlight
  <2>3. \A q \in Requests : InFlight(q, Demoting)' => InFlight(q, Demoting)
    BY <1>3 DEF InFlight, IdleRequest
  <2>. QED
    BY <1>7, <2>1, <2>2, <2>3 DEF OtherAdminRemains
<1>15. LoginStillAllowed'
  <2> SUFFICES ASSUME "login" \notin crossed, NEW p \in Requests, InFlight(p, {"login"})'
               PROVE  /\ users'[req'[p].user].active
                      /\ \A q \in Requests :
                            ~(InFlight(q, {"revoke"})' /\ req'[q].user = req'[p].user)
    BY <1>3 DEF LoginStillAllowed
  <2>1. p # r /\ req'[p] = req[p] /\ InFlight(p, {"login"})
    BY <1>3 DEF InFlight, IdleRequest
  <2>2. users[req[p].user].active /\ req[p].user \in Users /\ Exists(req[p].user)
    BY <2>1 DEF LoginStillAllowed, InFlight, RequestsSound, RequestSound, Updating
  <2>3. ~(s.op = "revoke" /\ s.user = req[p].user)
    BY <1>2, <2>1 DEF LoginStillAllowed, InFlight
  <2>4. users'[req[p].user].active
    BY <1>2, <2>2, <2>3
  <2>5. \A q \in Requests : InFlight(q, {"revoke"})' =>
                               InFlight(q, {"revoke"}) /\ req'[q] = req[q]
    BY <1>3 DEF InFlight, IdleRequest
  <2>. QED
    BY <2>1, <2>4, <2>5 DEF LoginStillAllowed
<1>16. DeactivatedHasNoSession'
  <2> SUFFICES ASSUME "login" \notin crossed, NEW u \in open'
               PROVE  users'[u].active
    BY <1>3 DEF DeactivatedHasNoSession
  <2>1. u \in Users
    BY <1>8 DEF UserTypeOK
  <2>2. users[u].active
    <3>1. CASE u \in open
      BY <3>1 DEF DeactivatedHasNoSession
    <3>2. CASE u \notin open
      <4>1. s.op = "login" /\ u = s.user
        BY <1>4, <3>2
      <4>. QED
        BY <1>2, <4>1 DEF LoginStillAllowed, InFlight
    <3>. QED
      BY <3>1, <3>2
  <2>3. ~(s.op = "revoke" /\ u = s.user)
    BY <1>4
  <2>. QED
    BY <1>2, <2>1, <2>2, <2>3
<1>. QED
  BY <1>8, <1>9, <1>10, <1>11, <1>12, <1>13, <1>14, <1>15, <1>16

\* A request that is refused on its commit preserves the invariant, and so
\* does any that ends without writing.
LEMMA CloseStep ==
    ASSUME UserInv, NEW r \in Requests, Close(r), UNCHANGED <<users, invites, open>>
    PROVE  UserInv'
<1>. USE DEF UserInv
<1>1. /\ req' \in [Requests -> Request] /\ req'[r] = IdleRequest
      /\ \A q \in Requests : q # r => req'[q] = req[q]
      /\ crossed' = crossed
  BY Closed
<1>2. UserTypeOK'
  BY <1>1 DEF UserTypeOK
<1>3. RequestsSound'
  <2> SUFFICES ASSUME NEW q \in Requests
               PROVE  RequestSound(req[q])'
    BY DEF RequestsSound
  <2>1. CASE q = r
    BY <1>1, <2>1 DEF RequestSound, IdleRequest
  <2>2. CASE q # r
    BY <1>1, <2>2 DEF RequestsSound, RequestSound, Exists
  <2>. QED
    BY <2>1, <2>2
<1>4. InvitationsSound'
  <2>1. ASSUME NEW p \in Requests, NEW q \in Requests,
               req'[p].step = "flushed", req'[q].inv = req'[p].inv
        PROVE  q = p
    <3>1. p # r /\ req'[p] = req[p] /\ req[p].inv \in Invs
      BY <1>1, <2>1 DEF IdleRequest, RequestsSound, RequestSound
    <3>2. q # r
      BY <1>1, <2>1, <3>1, UserAssumption DEF IdleRequest
    <3>. QED
      BY <1>1, <2>1, <3>1, <3>2 DEF InvitationsSound
  <2>. QED
    BY <2>1 DEF InvitationsSound
<1>5. InvitedByAccount' /\ AcceptedHasAccount' /\ AcceptedOnce' /\ GuardKeepsAdmin'
  BY <1>1 DEF InvitedByAccount, SomeAccount, Exists, AcceptedHasAccount, AcceptedOnce,
     GuardKeepsAdmin, AdminRemains, Admins, IdleRequest
<1>6. \A q \in Requests : req'[q].step # "idle" => q # r /\ req'[q] = req[q]
  BY <1>1 DEF IdleRequest
<1>7. OtherAdminRemains'
  BY <1>1, <1>6 DEF OtherAdminRemains, InFlight, Admins
<1>8. LoginStillAllowed' /\ DeactivatedHasNoSession'
  BY <1>1, <1>6 DEF LoginStillAllowed, InFlight, DeactivatedHasNoSession
<1>. QED
  BY <1>2, <1>3, <1>4, <1>5, <1>7, <1>8

\* Inserting the invitation that replaces another preserves the invariant:
\* its number is free.
LEMMA FlushStep ==
    ASSUME UserInv, NEW r \in Requests, NEW i \in Invs, FlushResend(r, i)
    PROVE  UserInv'
<1>. USE DEF UserInv
<1>1. /\ req[r].step = "checked" /\ req[r].op = "resend" /\ req[r].user \in Users
      /\ Issuable(i)
      /\ UNCHANGED <<users, invites, open, crossed>>
  BY DEF FlushResend, RequestsSound, RequestSound
<1>2. /\ req'[r] = [req[r] EXCEPT !.step = "flushed", !.inv = i]
      /\ \A q \in Requests : q # r => req'[q] = req[q]
      /\ req' \in [Requests -> Request]
  <2>1. req' = [req EXCEPT ![r] = [req[r] EXCEPT !.step = "flushed", !.inv = i]]
    BY DEF FlushResend
  <2>2. req \in [Requests -> Request]
    BY DEF UserTypeOK
  <2>3. [req[r] EXCEPT !.step = "flushed", !.inv = i] \in Request
    BY <2>2 DEF Request
  <2>. QED
    BY <2>1, <2>2, <2>3
<1>3. /\ req'[r].step = "flushed" /\ req'[r].inv = i
      /\ req'[r].op = "resend" /\ req'[r].user = req[r].user
      /\ req'[r].expiring = req[r].expiring
  BY <1>1, <1>2 DEF UserTypeOK, Request
<1>4. UserTypeOK'
  BY <1>1, <1>2 DEF UserTypeOK
<1>5. RequestsSound'
  <2> SUFFICES ASSUME NEW q \in Requests
               PROVE  RequestSound(req[q])'
    BY DEF RequestsSound
  <2>1. CASE q = r
    BY <1>1, <1>3, <2>1 DEF RequestsSound, RequestSound, Issuable
  <2>2. CASE q # r
    BY <1>1, <1>2, <2>2 DEF RequestsSound, RequestSound, Exists
  <2>. QED
    BY <2>1, <2>2
<1>6. InvitationsSound'
  <2>1. \A q \in Requests : req[q].inv # i
    BY <1>1 DEF Issuable
  <2>2. ASSUME NEW p \in Requests, NEW q \in Requests,
               req'[p].step = "flushed", req'[q].inv = req'[p].inv
        PROVE  q = p
    <3>1. CASE p = r
      <4>1. req'[q].inv = i
        BY <1>3, <2>2, <3>1
      <4>. QED
        BY <1>2, <2>1, <3>1, <4>1
    <3>2. CASE p # r /\ q = r
      BY <1>2, <1>3, <2>1, <2>2, <3>2
    <3>3. CASE p # r /\ q # r
      BY <1>2, <2>2, <3>3 DEF InvitationsSound
    <3>. QED
      BY <3>1, <3>2, <3>3
  <2>. QED
    BY <1>1, <2>2 DEF InvitationsSound
<1>7. InvitedByAccount'
  BY <1>1, <1>2, <1>3 DEF InvitedByAccount, SomeAccount, Exists
<1>8. AcceptedHasAccount' /\ AcceptedOnce' /\ GuardKeepsAdmin' /\ DeactivatedHasNoSession'
  BY <1>1 DEF Exists, AcceptedHasAccount, AcceptedOnce, GuardKeepsAdmin, AdminRemains, Admins,
     DeactivatedHasNoSession
<1>9. \A q \in Requests : req'[q].step = "checked" => q # r /\ req'[q] = req[q]
  BY <1>2, <1>3
<1>10. OtherAdminRemains'
  BY <1>1, <1>9 DEF OtherAdminRemains, InFlight, Admins
<1>11. LoginStillAllowed'
  BY <1>1, <1>9 DEF LoginStillAllowed, InFlight
<1>. QED
  BY <1>4, <1>5, <1>6, <1>7, <1>8, <1>10, <1>11

\* Committing an invitation preserves the invariant: it was not issued
\* before, so no invitation that was accepted, or that a request is about to
\* accept, changes its address.
LEMMA InvitationStep ==
    ASSUME UserInv, NEW r \in Requests, CommitInvitation(r)
    PROVE  UserInv'
<1> DEFINE s == req[r]
<1>. USE DEF UserInv
<1>1. Close(r) /\ UNCHANGED <<users, open>>
  BY DEF CommitInvitation
<1>2. /\ req' \in [Requests -> Request] /\ req'[r] = IdleRequest
      /\ \A q \in Requests : q # r => req'[q] = req[q]
      /\ crossed' = crossed
  BY <1>1, Closed
<1>3. /\ s.step = "flushed" /\ s.user \in Users /\ s.inv \in Invs
      /\ invites[s.inv].status = "absent"
      /\ \A i \in s.expiring : invites[i].status # "absent"
      /\ s.op # "register" => SomeAccount
  BY DEF CommitInvitation, RequestsSound, RequestSound, InvitedByAccount
<1>4. \A i \in Invs :
         invites'[i] = IF i = s.inv THEN [email |-> s.user, status |-> "pending"]
                       ELSE IF i \in s.expiring THEN Superseded(invites[i]) ELSE invites[i]
  BY DEF CommitInvitation
<1>5. /\ invites'[s.inv].email = s.user /\ invites'[s.inv].status = "pending"
      /\ \A i \in Invs : i # s.inv =>
            /\ invites'[i].email = invites[i].email
            /\ invites'[i].status = "absent" <=> invites[i].status = "absent"
            /\ invites'[i].status = "accepted" => invites[i].status = "accepted"
  <2>1. invites'[s.inv] = [email |-> s.user, status |-> "pending"]
    BY <1>3, <1>4
  <2>2. ASSUME NEW i \in Invs, i # s.inv, i \in s.expiring
        PROVE  invites'[i] = [email |-> invites[i].email, status |-> "expired"]
    BY <1>4, <2>2 DEF Superseded, UserTypeOK, Invitation
  <2>3. \A i \in Invs : i # s.inv /\ i \notin s.expiring => invites'[i] = invites[i]
    BY <1>4
  <2>4. /\ invites'[s.inv].email = s.user
        /\ invites'[s.inv].status = "pending"
    BY <2>1
  <2>5. ASSUME NEW i \in Invs, i # s.inv
        PROVE  /\ invites'[i].email = invites[i].email
               /\ invites'[i].status = "absent" <=> invites[i].status = "absent"
               /\ invites'[i].status = "accepted" => invites[i].status = "accepted"
    <3>1. CASE i \in s.expiring
      <4>1. invites'[i] = [email |-> invites[i].email, status |-> "expired"]
        BY <2>2, <2>5, <3>1
      <4>2. invites'[i].email = invites[i].email
        BY <4>1
      <4>3. invites'[i].status = "expired"
        BY <4>1
      <4>. QED
        BY <1>3, <3>1, <4>2, <4>3
    <3>2. CASE i \notin s.expiring
      BY <2>3, <2>5, <3>2
    <3>. QED
      BY <3>1, <3>2
  <2>. QED
    BY <2>4, <2>5
<1>6. invites' \in [Invs -> Invitation]
  BY <1>3 DEF CommitInvitation, Superseded, UserTypeOK, Invitation, InvStatus
<1>7. UserTypeOK'
  BY <1>1, <1>2, <1>6 DEF UserTypeOK
<1>8. RequestsSound'
  <2> SUFFICES ASSUME NEW q \in Requests
               PROVE  RequestSound(req[q])'
    BY DEF RequestsSound
  <2>1. CASE q = r
    BY <1>2, <2>1 DEF RequestSound, IdleRequest
  <2>2. CASE q # r
    <3>1. RequestSound(req[q]) /\ req'[q] = req[q] /\ req[q].expiring \subseteq Invs
      BY <1>2, <2>2 DEF RequestsSound, UserTypeOK, Request
    <3>2. req[q].inv # s.inv
      BY <1>3, <2>2 DEF InvitationsSound
    <3>. QED
      BY <1>1, <1>3, <1>5, <3>1, <3>2 DEF RequestSound, Exists
  <2>. QED
    BY <2>1, <2>2
<1>9. InvitationsSound'
  <2>1. \A i \in Invs : invites'[i].status # "absent" => invites'[i].email \in Users
    BY <1>3, <1>5 DEF InvitationsSound
  <2>2. ASSUME NEW p \in Requests, NEW q \in Requests,
               req'[p].step = "flushed", req'[q].inv = req'[p].inv
        PROVE  q = p
    <3>1. p # r /\ req'[p] = req[p] /\ req[p].inv \in Invs
      BY <1>2, <2>2 DEF IdleRequest, RequestsSound, RequestSound
    <3>2. q # r
      BY <1>2, <2>2, <3>1, UserAssumption DEF IdleRequest
    <3>. QED
      BY <1>2, <2>2, <3>1, <3>2 DEF InvitationsSound
  <2>. QED
    BY <2>1, <2>2 DEF InvitationsSound
<1>10. InvitedByAccount'
  <2>1. SomeAccount' <=> SomeAccount
    BY <1>1 DEF SomeAccount, Exists
  <2>2. SomeAccount
    BY <1>3 DEF InvitedByAccount, RequestsSound, RequestSound
  <2>. QED
    BY <2>1, <2>2 DEF InvitedByAccount
<1>11. AcceptedHasAccount' /\ AcceptedOnce'
  BY <1>1, <1>5 DEF AcceptedHasAccount, AcceptedOnce, Exists
<1>12. GuardKeepsAdmin' /\ DeactivatedHasNoSession'
  BY <1>1, <1>2 DEF GuardKeepsAdmin, AdminRemains, Admins, Exists, DeactivatedHasNoSession
<1>13. \A q \in Requests : req'[q].step # "idle" => q # r /\ req'[q] = req[q]
  BY <1>2 DEF IdleRequest
<1>14. OtherAdminRemains' /\ LoginStillAllowed'
  BY <1>1, <1>2, <1>13 DEF OtherAdminRemains, LoginStillAllowed, InFlight, Admins
<1>. QED
  BY <1>7, <1>8, <1>9, <1>10, <1>11, <1>12, <1>14

\* Logging out, and doing nothing, preserve the invariant.
LEMMA IdleStep ==
    ASSUME UserInv, UNCHANGED <<users, invites, req, crossed>>, open' \subseteq open
    PROVE  UserInv'
<1>. USE DEF UserInv
<1>1. UserTypeOK' /\ DeactivatedHasNoSession'
  BY DEF UserTypeOK, DeactivatedHasNoSession
<1>2. RequestsSound' /\ InvitationsSound' /\ InvitedByAccount'
  BY DEF RequestsSound, RequestSound, Exists, InvitationsSound, InvitedByAccount, SomeAccount
<1>3. AcceptedHasAccount' /\ AcceptedOnce' /\ GuardKeepsAdmin'
  BY DEF AcceptedHasAccount, AcceptedOnce, GuardKeepsAdmin, AdminRemains, Admins, Exists
<1>4. OtherAdminRemains' /\ LoginStillAllowed'
  BY DEF OtherAdminRemains, LoginStillAllowed, InFlight, Admins
<1>. QED
  BY <1>1, <1>2, <1>3, <1>4

(***************************************************************************)
(* The specification.                                                      *)
(***************************************************************************)

\* Nobody has an account at first.
LEMMA UserInitOK == UserInit => UserInv
<1> SUFFICES ASSUME UserInit
             PROVE  UserInv
  OBVIOUS
<1>1. /\ \A u \in Users : users[u] = NoAccount
      /\ \A i \in Invs : invites[i] = NoInvitation
      /\ \A r \in Requests : req[r] = IdleRequest
      /\ open = {} /\ crossed = {}
  BY DEF UserInit
<1>2. UserTypeOK
  BY DEF UserInit, UserTypeOK, NoAccount, Account, Roles, NoInvitation, Invitation, InvStatus,
     IdleRequest, Request, Ops
<1>3. RequestsSound /\ InvitationsSound /\ InvitedByAccount
  BY <1>1 DEF RequestsSound, RequestSound, IdleRequest, InvitationsSound, InvitedByAccount,
     NoInvitation
<1>4. AcceptedHasAccount /\ AcceptedOnce /\ GuardKeepsAdmin /\ DeactivatedHasNoSession
  BY <1>1 DEF AcceptedHasAccount, AcceptedOnce, GuardKeepsAdmin, AdminRemains, Exists,
     DeactivatedHasNoSession, NoInvitation, NoAccount
<1>5. OtherAdminRemains /\ LoginStillAllowed
  BY <1>1 DEF OtherAdminRemains, LoginStillAllowed, InFlight, IdleRequest
<1>. QED
  BY <1>2, <1>3, <1>4, <1>5 DEF UserInv

\* What accounts, invitations and sessions keep true whatever interleaves.
THEOREM AccountsSound == UserSpec => []UserInv
<1>1. UserInv /\ [UserNext]_uservars => UserInv'
  <2> SUFFICES ASSUME UserInv, [UserNext]_uservars
               PROVE  UserInv'
    OBVIOUS
  <2>1. ASSUME NEW r \in Requests, NEW u \in Users, OnAccount(r, u)
        PROVE  UserInv'
    <3>1. /\ CheckRegister(r, u) => UserInv'
          /\ CheckLogin(r, u) => UserInv'
          /\ \A a \in Users, role \in Roles : CheckChangeRole(r, a, u, role) => UserInv'
          /\ \A a \in Users : CheckRevoke(r, a, u) => UserInv'
          /\ \A a \in Users : CheckReactivate(r, a, u) => UserInv'
      BY UserAssumption, Decisions
    <3>. QED
      BY <2>1, <3>1 DEF OnAccount
  <2>2. ASSUME NEW r \in Requests, NEW i \in Invs, OnInvitation(r, i)
        PROVE  UserInv'
    <3>1. /\ \A a \in Users, u \in Users : Invite(r, a, u, i) => UserInv'
          /\ \A a \in Users : CheckResend(r, a, i) => UserInv'
          /\ CheckAccept(r, i) => UserInv'
      BY UserAssumption, Decisions
    <3>2. FlushResend(r, i) => UserInv'
      BY FlushStep
    <3>. QED
      BY <2>2, <3>1, <3>2 DEF OnInvitation
  <2>3. ASSUME NEW r \in Requests, CommitAccount(r)
        PROVE  UserInv'
    BY <2>3, CommitStep
  <2>4. ASSUME NEW r \in Requests, CommitFails(r)
        PROVE  UserInv'
    BY <2>4, CloseStep DEF CommitFails
  <2>5. ASSUME NEW r \in Requests, CommitInvitation(r)
        PROVE  UserInv'
    BY <2>5, InvitationStep
  <2>6. ASSUME NEW u \in Users, Logout(u)
        PROVE  UserInv'
    BY <2>6, IdleStep DEF Logout
  <2>7. CASE UNCHANGED uservars
    BY <2>7, IdleStep DEF uservars
  <2>. QED
    BY <2>1, <2>2, <2>3, <2>4, <2>5, <2>6, <2>7 DEF UserNext
<1>. QED
  BY UserInitOK, <1>1, PTL DEF UserSpec

\* Accounts, invitations and requests keep their shape.
THEOREM UserTypeCorrect == UserSpec => []UserTypeOK
<1>1. UserInv => UserTypeOK
  BY DEF UserInv
<1>. QED
  BY <1>1, AccountsSound, PTL

\* The check of a role change or a revocation keeps an administrator, for
\* any number of requests, unless two of them are in flight at once.
THEOREM AdministratorRemains == UserSpec => []GuardKeepsAdmin
<1>1. UserInv => GuardKeepsAdmin
  BY DEF UserInv
<1>. QED
  BY <1>1, AccountsSound, PTL

\* A revocation ends every session, unless a login was in flight.
THEOREM RevokedIsLoggedOut == UserSpec => []DeactivatedHasNoSession
<1>1. UserInv => DeactivatedHasNoSession
  BY DEF UserInv
<1>. QED
  BY <1>1, AccountsSound, PTL

\* Two links for one address make one account.
THEOREM InvitationUsedOnce == UserSpec => []AcceptedOnce
<1>1. UserInv => AcceptedOnce
  BY DEF UserInv
<1>. QED
  BY <1>1, AccountsSound, PTL

\* Who accepted an invitation has an account.
THEOREM AcceptanceMadeAccount == UserSpec => []AcceptedHasAccount
<1>1. UserInv => AcceptedHasAccount
  BY DEF UserInv
<1>. QED
  BY <1>1, AccountsSound, PTL
=============================================================================
