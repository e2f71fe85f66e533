---------------------------- MODULE LoginSessions ----------------------------
(***************************************************************************)
(* One account's failed-login counter, its lock and its sessions: logging  *)
(* in with a right or a wrong password, refreshing, logging out, and an    *)
(* administrator's revocation and reactivation, over requests that         *)
(* interleave while time passes.  (src/api/auth.py, src/api/users.py,      *)
(* utils/auth.py)                                                          *)
(*                                                                         *)
(* A time stamp in the future is the number of ticks until it has passed,  *)
(* and 0 from then on.  A request reads in one step and commits in         *)
(* another; hashing the password and writing the audit log lie between.    *)
(***************************************************************************)
EXTENDS Integers, FiniteSets

CONSTANTS
    Sessions,      \* sessions that can be opened
    Requests,      \* requests that can be in flight at once
    NoSession,
    Threshold,     \* wrong passwords in a row that lock the account
    LockTicks,     \* how long a lock lasts
    SessionTicks,  \* how long a refresh token is good for
    MaxAge         \* bound: ticks a request may take

ASSUME LoginAssumption ==
    /\ NoSession \notin Sessions
    /\ Threshold \in Nat \ {0} /\ LockTicks \in Nat \ {0} /\ SessionTicks \in Nat \ {0}
    /\ MaxAge \in Nat

VARIABLES
    account,    \* the row in `users`
    sessions,   \* the rows in `sessions`
    req,        \* what each request has read and decided
    streak,     \* history: wrong passwords answered since the last login
    survivors,  \* history: the sessions that were open at the last reactivation
    crossed     \* history: the races that were possible so far

loginvars == <<account, sessions, req, streak, survivors, crossed>>

\* locked_until IS NULL.
NoLock == -1

\* The counter and the streak stop at Threshold: nothing distinguishes more.
Account == [active : BOOLEAN, failed : 0..Threshold, lock : NoLock..LockTicks]
SessionRow == [state : {"absent", "open", "revoked"}, left : 0..SessionTicks]
NoRow == [state |-> "absent", left |-> 0]

Ops == {"none", "success", "failure", "refresh", "logout", "revoke", "reactivate"}

\* `failed` and `locked` are the counter and whether there was a time stamp
\* in locked_until when the request read the account; `age` is how long ago
\* it took the time.
Request == [op : Ops, session : Sessions \cup {NoSession}, failed : 0..Threshold,
            locked : BOOLEAN, age : 0..MaxAge]
IdleRequest == [op |-> "none", session |-> NoSession, failed |-> 0, locked |-> FALSE,
                age |-> 0]

Logins == {"success", "failure"}
Idle(r) == req[r].op = "none"
Saturated(n) == IF n < Threshold THEN n ELSE Threshold
Before(n, ticks) == IF n > ticks THEN n - ticks ELSE 0
Unused == {s \in Sessions : sessions[s].state = "absent"}

\* get_current_user and refresh_token: the session is in the database, not
\* revoked and not expired, and the account is active.
Accepted(s) == sessions[s].state = "open" /\ sessions[s].left > 0 /\ account.active

(***************************************************************************)
(* Reading and checking                                                    *)
(***************************************************************************)

\* Two logins in flight together, and a login together with a revocation.
Crossing(op, other) ==
    (IF {op, other} \subseteq Logins THEN {"logins"} ELSE {})
    \cup (IF {op, other} = {"success", "revoke"} THEN {"revocation"} ELSE {})

Begin(r, op, s) ==
    /\ Idle(r)
    /\ req' = [req EXCEPT ![r] = [op |-> op, session |-> s,
                                  failed |-> account.failed,
                                  locked |-> account.lock # NoLock, age |-> 0]]
    /\ crossed' = crossed \cup UNION {Crossing(op, req[x].op) : x \in Requests}
    /\ UNCHANGED <<account, sessions, streak, survivors>>

\* Mutant: locked_until is written and never looked at.
Locked_Never == FALSE

Locked == account.lock > 0

\* The lock is looked at before the password is.
StartLogin(r, op) ==
    /\ op = "success" =>
          Cardinality(Unused) > Cardinality({x \in Requests : req[x].op = "success"})
    /\ account.active
    /\ ~Locked
    /\ Begin(r, op, NoSession)

StartRefresh(r, s) == Accepted(s) /\ Begin(r, "refresh", s)
StartLogout(r, s) == Accepted(s) /\ Begin(r, "logout", s)

\* Another administrator sends these.
StartRevoke(r) == account.active /\ Begin(r, "revoke", NoSession)
StartReactivate(r) == ~account.active /\ Begin(r, "reactivate", NoSession)

(***************************************************************************)
(* Writing.  The UPDATE of the account carries what the request changed,   *)
(* computed from what it read.                                             *)
(***************************************************************************)
Answer(r) == req' = [req EXCEPT ![r] = IdleRequest]

\* Mutant: the account is locked one wrong password late.
Locking_Late(failed) == failed > Threshold

Locking(failed) == failed >= Threshold

\* The counter goes on from a lock that has passed: one more wrong password
\* locks the account again.
CommitFailure(r) ==
    LET failed == req[r].failed + 1
    IN /\ req[r].op = "failure"
       /\ account' = [account EXCEPT
                         !.failed = Saturated(failed),
                         !.lock = IF Locking(failed) THEN Before(LockTicks, req[r].age)
                                  ELSE @]
       /\ streak' = Saturated(streak + 1)
       /\ Answer(r)
       /\ UNCHANGED <<sessions, survivors, crossed>>

\* Only a column that was not at its reset value when it was read is reset.
Cleared(row, s) ==
    [row EXCEPT !.failed = IF s.failed # 0 THEN 0 ELSE @,
                !.lock = IF s.locked THEN NoLock ELSE @]

CommitSuccess(r, s) ==
    /\ req[r].op = "success"
    /\ s \in Unused
    /\ account' = Cleared(account, req[r])
    /\ sessions' = [sessions EXCEPT ![s] =
                       [state |-> "open", left |-> Before(SessionTicks, req[r].age)]]
    /\ streak' = 0
    /\ Answer(r)
    /\ UNCHANGED <<survivors, crossed>>

\* Mutant: the row is written back as it was when it was read.
Refreshed_Whole(row) == [row EXCEPT !.state = "open"]

\* last_active_at alone is written; nobody reads it.
Refreshed(row) == row

CommitRefresh(r) ==
    /\ req[r].op = "refresh"
    /\ sessions' = [sessions EXCEPT ![req[r].session] = Refreshed(@)]
    /\ Answer(r)
    /\ UNCHANGED <<account, streak, survivors, crossed>>

CommitLogout(r) ==
    /\ req[r].op = "logout"
    /\ sessions' = [sessions EXCEPT ![req[r].session].state = "revoked"]
    /\ Answer(r)
    /\ UNCHANGED <<account, streak, survivors, crossed>>

Open == {s \in Sessions : sessions[s].state = "open"}

\* Mutant: expired sessions, and those only, are revoked.
Ended_Expired == {s \in Open : sessions[s].left = 0}

\* UPDATE sessions ... WHERE user_id = .. AND revoked = false.
Ended == Open

CommitRevoke(r) ==
    /\ req[r].op = "revoke"
    /\ account' = [account EXCEPT !.active = FALSE]
    /\ sessions' = [s \in Sessions |-> IF s \in Ended
                                       THEN [sessions[s] EXCEPT !.state = "revoked"]
                                       ELSE sessions[s]]
    /\ Answer(r)
    /\ UNCHANGED <<streak, survivors, crossed>>

CommitReactivate(r) ==
    /\ req[r].op = "reactivate"
    /\ account' = [account EXCEPT !.active = TRUE]
    /\ survivors' = IF account.active THEN survivors ELSE Open
    /\ Answer(r)
    /\ UNCHANGED <<sessions, streak, crossed>>

(***************************************************************************)
(* Specification                                                           *)
(***************************************************************************)

\* Time passes: for the lock, for the sessions and for what is in flight.
Tick ==
    /\ \A r \in Requests : Idle(r) \/ req[r].age < MaxAge
    /\ account' = [account EXCEPT !.lock = IF @ = NoLock THEN @ ELSE Before(@, 1)]
    /\ sessions' = [s \in Sessions |-> [sessions[s] EXCEPT !.left = Before(@, 1)]]
    /\ req' = [r \in Requests |-> IF Idle(r) THEN req[r]
                                  ELSE [req[r] EXCEPT !.age = @ + 1]]
    /\ UNCHANGED <<streak, survivors, crossed>>

\* The pod terminates, and the transaction with it.
Dies(r) ==
    /\ ~Idle(r)
    /\ Answer(r)
    /\ UNCHANGED <<account, sessions, streak, survivors, crossed>>

LoginInit ==
    /\ account = [active |-> TRUE, failed |-> 0, lock |-> NoLock]
    /\ sessions = [s \in Sessions |-> NoRow]
    /\ req = [r \in Requests |-> IdleRequest]
    /\ streak = 0
    /\ survivors = {}
    /\ crossed = {}

Reads(r) ==
    \/ \E op \in Logins : StartLogin(r, op)
    \/ \E s \in Sessions : StartRefresh(r, s) \/ StartLogout(r, s)
    \/ StartRevoke(r) \/ StartReactivate(r)

Commits(r) ==
    \/ CommitFailure(r)
    \/ \E s \in Sessions : CommitSuccess(r, s)
    \/ CommitRefresh(r) \/ CommitLogout(r) \/ CommitRevoke(r) \/ CommitReactivate(r)

LoginNext == Tick \/ \E r \in Requests : Reads(r) \/ Commits(r) \/ Dies(r)

LoginSpec == LoginInit /\ [][LoginNext]_loginvars

\* Time does not stop, and a handler runs to its answer.
FairLoginSpec ==
    LoginSpec /\ WF_loginvars(Tick) /\ \A r \in Requests : WF_loginvars(Commits(r))

(***************************************************************************)
(* Properties                                                              *)
(***************************************************************************)

\* Rows and requests keep their shape; the counter never goes below zero.
LoginTypeOK ==
    /\ account \in Account
    /\ sessions \in [Sessions -> SessionRow]
    /\ req \in [Requests -> Request]
    /\ streak \in 0..Threshold
    /\ survivors \subseteq Sessions
    /\ crossed \subseteq {"logins", "revocation"}

\* FR-2.5, SC-6: the account carries a lock from the very answer to the
\* Threshold-th wrong password in a row until the next login, whether or not
\* earlier locks have passed since, unless two logins were in flight at once.
LockFollowsStreak ==
    "logins" \notin crossed => (account.lock # NoLock <=> streak = Threshold)

\* FR-6.2: a session that was ended is never open again, whatever was in
\* flight about it.
RevokedIsFinal ==
    [][\A s \in Sessions : sessions[s].state = "revoked"
                              => sessions'[s].state = "revoked"]_loginvars

\* FR-6.3: an account that is reactivated has no session from before, unless
\* a login was in flight together with a revocation.
NoSessionSurvivesRevocation ==
    "revocation" \notin crossed => survivors = {}

\* A lock passes, however often somebody tries while it lasts.
LockEnds == account.lock > 0 ~> account.lock <= 0
=============================================================================
