----------------------------- MODULE UserAdmin -----------------------------
(***************************************************************************)
(* Accounts, invitations and login sessions: bootstrap registration, the   *)
(* administrators' invitations, role changes, revocations and              *)
(* reactivations, and logins, over requests that interleave.               *)
(* (src/api/auth.py, src/api/users.py, utils/auth.py)                      *)
(*                                                                         *)
(* A request reads and checks in one step here and commits in another; an  *)
(* invitation mails its link between its writes and its commit, so that    *)
(* its row locks last.  E-mail addresses identify accounts.                *)
(***************************************************************************)
EXTENDS Naturals, FiniteSets, OrmFlush

CONSTANTS
    Users,      \* e-mail addresses
    Invs,       \* invitations that can be issued
    Requests,   \* HTTP requests that can be in flight at once
    NoUser, NoInv

ASSUME UserAssumption == NoUser \notin Users /\ NoInv \notin Invs

VARIABLES
    users,      \* the accounts, role "none" without one
    invites,    \* the invitations, status "absent" before they are issued
    open,       \* the users with a session that is not revoked
    req,        \* what each request has read and decided
    crossed     \* history: the races that were possible so far

uservars == <<users, invites, open, req, crossed>>

\* No step here tells the two roles below admin apart: one stands for both.
Roles == {"admin", "marketer"}
Account == [role : Roles \cup {"none"}, active : BOOLEAN]
NoAccount == [role |-> "none", active |-> FALSE]

InvStatus == {"absent", "pending", "accepted", "expired"}
Invitation == [email : Users \cup {NoUser}, status : InvStatus]
NoInvitation == [email |-> NoUser, status |-> "absent"]

\* checked  everything is read and checked
\* flushed  the new invitation is inserted and the replaced ones updated;
\*          the mail goes out
Ops == {"none", "register", "invite", "resend", "accept", "change_role", "revoke",
        "reactivate", "login"}
Request == [step : {"idle", "checked", "flushed"}, op : Ops,
            user : Users \cup {NoUser},       \* the account it is about
            row : Account,                    \* ... as it was read
            role : Roles \cup {"none"},       \* the role to give
            inv : Invs \cup {NoInv},          \* the invitation it is about
            expiring : SUBSET Invs]           \* those a new one replaces
IdleRequest == [step |-> "idle", op |-> "none", user |-> NoUser, row |-> NoAccount,
                role |-> "none", inv |-> NoInv, expiring |-> {}]

Exists(u) == users[u].role # "none"
Admins == {u \in Users : users[u].role = "admin" /\ users[u].active}
PendingFor(u) == {i \in Invs : invites[i].email = u /\ invites[i].status = "pending"}
Locked(i) == \E r \in Requests : req[r].step = "flushed" /\ i \in req[r].expiring
Issuable(i) == invites[i].status = "absent" /\ \A r \in Requests : req[r].inv # i

\* require_role(ADMIN): the session is valid and the account active, with
\* the role it has in the database.
Authorized(a) == a \in open /\ a \in Admins

(***************************************************************************)
(* Reading and checking                                                    *)
(***************************************************************************)

\* Two requests in flight that each may take an administrator away, and a
\* login together with the revocation of its account.
Crossing(s, t) ==
    (IF {s.op, t.op} \subseteq {"change_role", "revoke"} THEN {"demotions"} ELSE {})
    \cup (IF {s.op, t.op} = {"login", "revoke"} /\ s.user = t.user THEN {"login"} ELSE {})

Decide(r, decision) ==
    /\ req[r].step = "idle"
    /\ req' = [req EXCEPT ![r] = decision]
    /\ crossed' = crossed \cup UNION {Crossing(decision, req[x]) : x \in Requests}
    /\ UNCHANGED <<users, invites, open>>

Checked(op, u) == [step |-> "checked", op |-> op, user |-> u, row |-> users[u],
                   role |-> "none", inv |-> NoInv, expiring |-> {}]

CheckRegister(r, u) ==
    /\ \A x \in Users : users[x].role # "admin"
    /\ Decide(r, [Checked("register", u) EXCEPT !.role = "admin"])

\* The UPDATE that expires the pending invitations of the address waits for
\* those another request is changing.
Invite(r, a, u, i) ==
    /\ Authorized(a)
    /\ ~Exists(u)
    /\ Issuable(i)
    /\ \A x \in PendingFor(u) : ~Locked(x)
    /\ Decide(r, [Checked("invite", u) EXCEPT !.step = "flushed", !.inv = i,
                                              !.expiring = PendingFor(u)])

\* The session writes `expired` only if it did not read it.
CheckResend(r, a, i) ==
    /\ Authorized(a)
    /\ invites[i].status \in {"pending", "expired"}
    /\ Decide(r, [Checked("resend", invites[i].email) EXCEPT
                     !.expiring = IF invites[i].status = "pending" THEN {i} ELSE {}])

\* A pending invitation may also have run out of time and is refused then.
CheckAccept(r, i) ==
    /\ invites[i].status = "pending"
    /\ Decide(r, [Checked("accept", invites[i].email) EXCEPT
                     !.role = "marketer", !.inv = i])

\* Mutant: nobody compares the target with the caller, or counts.
MayLoseAdmin_Unguarded(a, u) == TRUE

\* Not oneself, and not the last one.
MayLoseAdmin(a, u) == a # u /\ (users[u].role = "admin" => Cardinality(Admins) > 1)

CheckChangeRole(r, a, u, role) ==
    /\ Authorized(a) /\ Exists(u) /\ a # u
    /\ role # "admin" => MayLoseAdmin(a, u)
    /\ Decide(r, [Checked("change_role", u) EXCEPT !.role = role])

CheckRevoke(r, a, u) ==
    /\ Authorized(a) /\ Exists(u)
    /\ users[u].active
    /\ MayLoseAdmin(a, u)
    /\ Decide(r, Checked("revoke", u))

CheckReactivate(r, a, u) ==
    /\ Authorized(a) /\ Exists(u)
    /\ ~users[u].active
    /\ Decide(r, Checked("reactivate", u))

\* With the right password; a wrong one changes only the failure counter.
CheckLogin(r, u) ==
    /\ Exists(u) /\ users[u].active
    /\ Decide(r, Checked("login", u))

(***************************************************************************)
(* Writing                                                                 *)
(***************************************************************************)
Close(r) ==
    /\ req' = [req EXCEPT ![r] = IdleRequest]
    /\ UNCHANGED crossed

Inserts(s) == s.op \in {"register", "accept"}

\* The account after the request's assignments.
Assigned(s) ==
    CASE Inserts(s) -> [role |-> s.role, active |-> TRUE]
      [] s.op = "change_role" -> [s.row EXCEPT !.role = s.role]
      [] s.op = "revoke" -> [s.row EXCEPT !.active = FALSE]
      [] s.op = "reactivate" -> [s.row EXCEPT !.active = TRUE]
      [] OTHER -> s.row

\* Mutant: a revocation forgets the sessions.
Sessions_Kept(s) == IF s.op = "login" THEN open \cup {s.user} ELSE open

Sessions(s) ==
    CASE s.op = "login" -> open \cup {s.user}
      [] s.op = "revoke" -> open \ {s.user}
      [] OTHER -> open

\* Mutant: UNIQUE (email) is missing, and the account is overwritten.
Refused_Never(s) == FALSE

\* The address has an account by now: UNIQUE (email).
Refused(s) == Inserts(s) /\ Exists(s.user)

\* The requests on accounts: INSERT, or UPDATE of what they changed.
CommitAccount(r) ==
    LET s == req[r]
    IN /\ s.step = "checked" /\ s.op # "resend"
       /\ ~Refused(s)
       /\ s.op = "accept" => ~Locked(s.inv)
       /\ users' = [users EXCEPT ![s.user] =
                       IF Inserts(s) THEN Assigned(s) ELSE Flush(@, s.row, Assigned(s))]
       /\ open' = Sessions(s)
       /\ invites' = IF s.op = "accept"
                     THEN [invites EXCEPT ![s.inv].status = "accepted"] ELSE invites
       /\ Close(r)

CommitFails(r) ==
    /\ req[r].step = "checked"
    /\ Refused(req[r])
    /\ Close(r)
    /\ UNCHANGED <<users, invites, open>>

FlushResend(r, i) ==
    /\ req[r].step = "checked" /\ req[r].op = "resend"
    /\ \A x \in req[r].expiring : ~Locked(x)
    /\ Issuable(i)
    /\ req' = [req EXCEPT ![r].step = "flushed", ![r].inv = i]
    /\ UNCHANGED <<users, invites, open, crossed>>

Superseded(row) == [row EXCEPT !.status = "expired"]

CommitInvitation(r) ==
    LET s == req[r]
    IN /\ s.step = "flushed"
       /\ invites' = [i \in Invs |->
             IF i = s.inv THEN [email |-> s.user, status |-> "pending"]
             ELSE IF i \in s.expiring THEN Superseded(invites[i]) ELSE invites[i]]
       /\ Close(r)
       /\ UNCHANGED <<users, open>>

\* Logging out, with the last session of the user.
Logout(u) ==
    /\ u \in open /\ users[u].active
    /\ open' = open \ {u}
    /\ UNCHANGED <<users, invites, req, crossed>>

(***************************************************************************)
(* Specification                                                           *)
(***************************************************************************)
UserInit ==
    /\ users = [u \in Users |-> NoAccount]
    /\ invites = [i \in Invs |-> NoInvitation]
    /\ open = {}
    /\ req = [r \in Requests |-> IdleRequest]
    /\ crossed = {}

OnAccount(r, u) ==
    \/ CheckRegister(r, u) \/ CheckLogin(r, u)
    \/ \E a \in Users : \/ \E role \in Roles : CheckChangeRole(r, a, u, role)
                        \/ CheckRevoke(r, a, u) \/ CheckReactivate(r, a, u)

OnInvitation(r, i) ==
    \/ \E a, u \in Users : Invite(r, a, u, i)
    \/ \E a \in Users : CheckResend(r, a, i)
    \/ CheckAccept(r, i) \/ FlushResend(r, i)

UserNext ==
    \/ \E r \in Requests : \/ \E u \in Users : OnAccount(r, u)
                           \/ \E i \in Invs : OnInvitation(r, i)
                           \/ CommitAccount(r) \/ CommitFails(r) \/ CommitInvitation(r)
    \/ \E u \in Users : Logout(u)

UserSpec == UserInit /\ [][UserNext]_uservars

(***************************************************************************)
(* Properties                                                              *)
(***************************************************************************)

\* Accounts, invitations and requests keep their shape.
UserTypeOK ==
    /\ users \in [Users -> Account]
    /\ invites \in [Invs -> Invitation]
    /\ open \subseteq Users
    /\ req \in [Requests -> Request]
    /\ crossed \subseteq {"demotions", "login"}

\* A-5: once there is an account there is an active administrator; nobody
\* else could ever make one again.
AdminRemains == (\E u \in Users : Exists(u)) => Admins # {}

\* Counting the administrators before a change is enough as long as no two
\* such changes are in flight together, whatever else interleaves.
GuardKeepsAdmin == "demotions" \notin crossed => AdminRemains

\* FR-6.3: an account that is deactivated has no session, unless a login had
\* read the account before.
DeactivatedHasNoSession == "login" \notin crossed => \A u \in open : users[u].active

\* An invitation makes one account, and an account comes from one
\* invitation: two links that were both pending cannot both be used.
AcceptedOnce ==
    \A i, j \in Invs :
        /\ invites[i].status = "accepted"
        /\ invites[j].status = "accepted"
        /\ invites[i].email = invites[j].email
        => i = j

\* An invitation counts as accepted only if its account exists.
AcceptedHasAccount ==
    \A i \in Invs : invites[i].status = "accepted" => Exists(invites[i].email)
=============================================================================
