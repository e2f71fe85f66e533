------------------------- MODULE LoginSessions_proofs -------------------------
(***************************************************************************)
(* Proofs about LoginSessions, for every threshold, duration and number of *)
(* requests: the lock follows the wrong passwords, and revoked sessions    *)
(* stay revoked.                                                           *)
(***************************************************************************)
EXTENDS LoginSessions, TLAPS

(***************************************************************************)
(* The inductive invariant                                                 *)
(***************************************************************************)

InFlight(ops) == {r \in Requests : req[r].op \in ops}

\* A session that a request is about was opened.
SessionsNamed ==
    \A r \in Requests : req[r].op \in {"refresh", "logout"} => req[r].session \in Sessions

\* Without two logins at once, a login in flight has read the counter and
\* the lock that there still are, and the counter counts the streak.
StreakCounted ==
    "logins" \notin crossed =>
       /\ account.failed = streak
       /\ account.lock # NoLock <=> streak = Threshold
       /\ \A q, r \in InFlight(Logins) : q = r
       /\ \A r \in InFlight(Logins) : /\ req[r].failed = account.failed
                                      /\ req[r].locked = (account.lock # NoLock)

\* Without a login and a revocation at once, a deactivated account has no
\* session and no login that could open one.
DeactivatedIsOut ==
    "revocation" \notin crossed =>
       /\ ~account.active => Open = {} /\ InFlight({"success"}) = {}
       /\ InFlight({"success"}) = {} \/ InFlight({"revoke"}) = {}

LoginInv ==
    /\ LoginTypeOK /\ SessionsNamed /\ StreakCounted /\ DeactivatedIsOut
    /\ NoSessionSurvivesRevocation

(***************************************************************************)
(* Helpers                                                                 *)
(***************************************************************************)

LEMMA BeforeType ==
    ASSUME NEW bound \in Nat, NEW n \in 0 .. bound, NEW ticks \in Nat
    PROVE  Before(n, ticks) \in 0 .. bound
BY DEF Before

LEMMA SaturatedType ==
    ASSUME NEW n \in Nat
    PROVE  /\ Saturated(n) \in 0 .. Threshold
           /\ Saturated(n) = Threshold <=> n >= Threshold
BY LoginAssumption DEF Saturated

LEMMA IdleType == IdleRequest \in Request
BY LoginAssumption DEF IdleRequest, Request, Ops

\* A request that begins while another is in flight leaves a trace of it.
LEMMA CrossingRecorded ==
    ASSUME NEW r \in Requests, NEW op, NEW s, Begin(r, op, s), NEW x \in Requests,
           crossed \subseteq {"logins", "revocation"}
    PROVE  /\ crossed \subseteq crossed' /\ crossed' \subseteq {"logins", "revocation"}
           /\ op \in Logins /\ req[x].op \in Logins => "logins" \in crossed'
           /\ op = "success" /\ req[x].op = "revoke" => "revocation" \in crossed'
           /\ op = "revoke" /\ req[x].op = "success" => "revocation" \in crossed'
<1>1. crossed' = crossed \cup UNION {Crossing(op, req[y].op) : y \in Requests}
  BY DEF Begin
<1>2. Crossing(op, req[x].op) \subseteq crossed'
  BY <1>1
<1>3. \A y \in Requests : Crossing(op, req[y].op) \subseteq {"logins", "revocation"}
  BY DEF Crossing
<1>4. crossed' \subseteq {"logins", "revocation"}
  BY <1>1, <1>3
<1>5. op \in Logins /\ req[x].op \in Logins => "logins" \in Crossing(op, req[x].op)
  BY DEF Crossing
<1>6. op = "success" /\ req[x].op = "revoke" => "revocation" \in Crossing(op, req[x].op)
  BY DEF Crossing
<1>7. op = "revoke" /\ req[x].op = "success" => "revocation" \in Crossing(op, req[x].op)
  BY DEF Crossing
<1>. QED
  BY <1>1, <1>2, <1>4, <1>5, <1>6, <1>7

(***************************************************************************)
(* Steps                                                                   *)
(***************************************************************************)

\* What RevokedIsFinal says of one step.
RevokedStays ==
    \A s \in Sessions : sessions[s].state = "revoked" => sessions'[s].state = "revoked"

LEMMA BeginStep ==
    ASSUME LoginInv, NEW r \in Requests, NEW op \in Ops \ {"none"},
           NEW s \in Sessions \cup {NoSession}, Begin(r, op, s),
           op \in {"refresh", "logout"} => s \in Sessions,
           op = "success" => account.active
    PROVE  LoginInv' /\ RevokedStays
<1>. DEFINE new == [op |-> op, session |-> s, failed |-> account.failed,
                    locked |-> account.lock # NoLock, age |-> 0]
<1>1. /\ req[r].op = "none" /\ req' = [req EXCEPT ![r] = new]
      /\ UNCHANGED <<account, sessions, streak, survivors>>
  BY DEF Begin, Idle
<1>2. account.failed \in 0 .. Threshold /\ req \in [Requests -> Request]
  BY DEF LoginInv, LoginTypeOK, Account
<1>3. new \in Request
  BY <1>2, LoginAssumption DEF Request, Ops
<1>4. req'[r] = new /\ \A q \in Requests : q # r => req'[q] = req[q]
  BY <1>1, <1>2
<1>5. /\ new.op = op /\ new.session = s /\ new.failed = account.failed
      /\ new.locked = (account.lock # NoLock)
  OBVIOUS
<1>. HIDE DEF new
<1>6. \A x \in Requests :
         /\ crossed \subseteq crossed' /\ crossed' \subseteq {"logins", "revocation"}
         /\ op \in Logins /\ req[x].op \in Logins => "logins" \in crossed'
         /\ op = "success" /\ req[x].op = "revoke" => "revocation" \in crossed'
         /\ op = "revoke" /\ req[x].op = "success" => "revocation" \in crossed'
  BY CrossingRecorded DEF LoginInv, LoginTypeOK
<1>7. LoginTypeOK'
  BY <1>1, <1>2, <1>3, <1>6 DEF LoginInv, LoginTypeOK
<1>8. SessionsNamed'
  BY <1>4, <1>5 DEF LoginInv, SessionsNamed
<1>9. StreakCounted'
  <2>1. SUFFICES ASSUME "logins" \notin crossed'
                 PROVE  /\ \A q, p \in InFlight(Logins)' : q = p
                        /\ \A q \in InFlight(Logins)' :
                              /\ req'[q].failed = account.failed
                              /\ req'[q].locked = (account.lock # NoLock)
    BY <1>1, <1>6 DEF LoginInv, StreakCounted
  <2>2. /\ \A q, p \in InFlight(Logins) : q = p
        /\ \A q \in InFlight(Logins) : /\ req[q].failed = account.failed
                                        /\ req[q].locked = (account.lock # NoLock)
    BY <1>6, <2>1 DEF LoginInv, StreakCounted
  <2>3. CASE op \in Logins
    <3>1. \A q \in Requests : req[q].op \notin Logins
      BY <1>6, <2>1, <2>3
    <3>2. InFlight(Logins)' \subseteq {r}
      BY <1>4, <3>1 DEF InFlight
    <3>. QED
      BY <1>4, <1>5, <3>2
  <2>4. CASE op \notin Logins
    <3>1. \A q \in InFlight(Logins)' : q \in InFlight(Logins) /\ req'[q] = req[q]
      BY <1>4, <1>5, <2>4 DEF InFlight
    <3>. QED
      BY <2>2, <3>1
  <2>. QED
    BY <2>3, <2>4
<1>10. DeactivatedIsOut'
  <2>1. SUFFICES ASSUME "revocation" \notin crossed'
                 PROVE  /\ ~account.active => Open' = {} /\ InFlight({"success"})' = {}
                        /\ InFlight({"success"})' = {} \/ InFlight({"revoke"})' = {}
    BY <1>1 DEF DeactivatedIsOut
  <2>2. /\ ~account.active => Open = {} /\ InFlight({"success"}) = {}
        /\ InFlight({"success"}) = {} \/ InFlight({"revoke"}) = {}
    BY <1>6, <2>1 DEF LoginInv, DeactivatedIsOut
  <2>3. Open' = Open
    BY <1>1 DEF Open
  <2>4. op # "success" => InFlight({"success"})' \subseteq InFlight({"success"})
    BY <1>4, <1>5 DEF InFlight
  <2>5. op # "revoke" => InFlight({"revoke"})' \subseteq InFlight({"revoke"})
    BY <1>4, <1>5 DEF InFlight
  <2>6. op = "success" => InFlight({"revoke"}) = {}
    BY <1>6, <2>1 DEF InFlight
  <2>7. op = "revoke" => InFlight({"success"}) = {}
    BY <1>6, <2>1 DEF InFlight
  <2>. QED
    BY <2>2, <2>3, <2>4, <2>5, <2>6, <2>7
<1>11. NoSessionSurvivesRevocation'
  BY <1>1, <1>6 DEF LoginInv, NoSessionSurvivesRevocation
<1>12. RevokedStays
  BY <1>1 DEF RevokedStays
<1>. QED
  BY <1>7, <1>8, <1>9, <1>10, <1>11, <1>12 DEF LoginInv

\* Answering takes one request out of flight and leaves the others.
LEMMA AnswerStep ==
    ASSUME LoginInv, NEW r \in Requests, Answer(r)
    PROVE  /\ req' \in [Requests -> Request]
           /\ req'[r] = IdleRequest /\ \A q \in Requests : q # r => req'[q] = req[q]
           /\ SessionsNamed'
           /\ \A ops : "none" \notin ops => InFlight(ops)' = InFlight(ops) \ {r}
<1>1. req \in [Requests -> Request] /\ req' = [req EXCEPT ![r] = IdleRequest]
  BY DEF LoginInv, LoginTypeOK, Answer
<1>2. req' \in [Requests -> Request]
  BY <1>1, IdleType
<1>3. req'[r] = IdleRequest /\ \A q \in Requests : q # r => req'[q] = req[q]
  BY <1>1
<1>4. IdleRequest.op = "none"
  BY DEF IdleRequest
<1>5. SessionsNamed'
  BY <1>3, <1>4 DEF LoginInv, SessionsNamed
<1>6. \A ops : "none" \notin ops => InFlight(ops)' = InFlight(ops) \ {r}
  BY <1>3, <1>4 DEF InFlight
<1>. QED
  BY <1>2, <1>3, <1>5, <1>6

\* An answer that changes neither counter nor lock nor streak keeps the count.
LEMMA CountKept ==
    ASSUME LoginInv, NEW r \in Requests, Answer(r), UNCHANGED <<streak, crossed>>,
           account'.failed = account.failed, account'.lock = account.lock
    PROVE  StreakCounted'
<1>1. InFlight(Logins)' = InFlight(Logins) \ {r}
  BY AnswerStep DEF Logins
<1>2. \A q \in Requests : q # r => req'[q] = req[q]
  BY AnswerStep
<1>3. InFlight(Logins) \subseteq Requests
  BY DEF InFlight
<1>. QED
  BY <1>1, <1>2, <1>3 DEF LoginInv, StreakCounted

LEMMA CommitFailureStep ==
    ASSUME LoginInv, NEW r \in Requests, CommitFailure(r)
    PROVE  LoginInv' /\ RevokedStays
<1>. DEFINE failed == req[r].failed + 1
            lock == IF Locking(failed) THEN Before(LockTicks, req[r].age)
                    ELSE account.lock
<1>1. /\ req[r].op = "failure"
      /\ account' = [account EXCEPT !.failed = Saturated(failed), !.lock = lock]
      /\ streak' = Saturated(streak + 1)
      /\ Answer(r) /\ UNCHANGED <<sessions, survivors, crossed>>
  BY DEF CommitFailure
<1>2. account \in Account /\ streak \in 0 .. Threshold /\ req[r] \in Request
  BY DEF LoginInv, LoginTypeOK
<1>3. failed \in Nat \ {0} /\ req[r].age \in Nat /\ streak + 1 \in Nat
  BY <1>2, LoginAssumption DEF Request
<1>4. lock \in NoLock .. LockTicks /\ (Locking(failed) => lock \in 0 .. LockTicks)
  <2>1. Before(LockTicks, req[r].age) \in 0 .. LockTicks
    BY <1>3, LoginAssumption DEF Before
  <2>. QED
    BY <1>2, <2>1, LoginAssumption DEF NoLock, Account
<1>5. Saturated(failed) \in 0 .. Threshold /\ Saturated(streak + 1) \in 0 .. Threshold
  BY <1>3, SaturatedType
<1>. HIDE DEF failed, lock
<1>6. /\ account' \in Account /\ account'.active = account.active
      /\ account'.failed = Saturated(failed) /\ account'.lock = lock
  BY <1>1, <1>2, <1>4, <1>5 DEF Account
<1>7. LoginTypeOK'
  BY <1>1, <1>5, <1>6, AnswerStep DEF LoginInv, LoginTypeOK
<1>8. StreakCounted'
  <2>1. SUFFICES ASSUME "logins" \notin crossed'
                 PROVE  /\ account'.failed = streak'
                        /\ account'.lock # NoLock <=> streak' = Threshold
                        /\ InFlight(Logins)' = {}
    BY DEF StreakCounted
  <2>2. /\ account.failed = streak
        /\ account.lock # NoLock <=> streak = Threshold
        /\ \A q, p \in InFlight(Logins) : q = p
        /\ r \in InFlight(Logins) /\ req[r].failed = account.failed
    <3>1. r \in InFlight(Logins)
      BY <1>1 DEF InFlight, Logins
    <3>. QED
      BY <1>1, <2>1, <3>1 DEF LoginInv, StreakCounted
  <2>3. failed = streak + 1
    BY <2>2 DEF failed
  <2>4. InFlight(Logins)' = {}
    <3>1. InFlight(Logins)' = InFlight(Logins) \ {r}
      BY <1>1, AnswerStep DEF Logins
    <3>. QED
      BY <2>2, <3>1
  <2>5. streak' = Threshold <=> Locking(failed)
    <3>1. Saturated(failed) = Threshold <=> failed >= Threshold
      BY <1>3, <2>3, SaturatedType
    <3>. QED
      BY <1>1, <2>3, <3>1 DEF Locking
  <2>6. CASE Locking(failed)
    BY <1>1, <1>4, <1>6, <2>3, <2>4, <2>5, <2>6 DEF NoLock
  <2>7. CASE ~Locking(failed)
    <3>1. streak # Threshold /\ lock = account.lock
      BY <1>2, <2>3, <2>7, LoginAssumption DEF Locking, lock
    <3>. QED
      BY <1>1, <1>6, <2>2, <2>3, <2>4, <2>5, <2>7, <3>1
  <2>. QED
    BY <2>6, <2>7
<1>9. DeactivatedIsOut'
  <2>1. /\ InFlight({"success"})' = InFlight({"success"}) \ {r}
        /\ InFlight({"revoke"})' = InFlight({"revoke"}) \ {r}
    BY <1>1, AnswerStep
  <2>2. Open' = Open
    BY <1>1 DEF Open
  <2>. QED
    BY <1>1, <1>6, <2>1, <2>2 DEF LoginInv, DeactivatedIsOut
<1>10. NoSessionSurvivesRevocation' /\ RevokedStays
  BY <1>1 DEF LoginInv, NoSessionSurvivesRevocation, RevokedStays
<1>. QED
  BY <1>1, <1>7, <1>8, <1>9, <1>10, AnswerStep DEF LoginInv

LEMMA CommitSuccessStep ==
    ASSUME LoginInv, NEW r \in Requests, NEW s \in Sessions, CommitSuccess(r, s)
    PROVE  LoginInv' /\ RevokedStays
<1>. DEFINE row == [state |-> "open", left |-> Before(SessionTicks, req[r].age)]
<1>1. /\ req[r].op = "success" /\ sessions[s].state = "absent"
      /\ account' = Cleared(account, req[r])
      /\ sessions' = [sessions EXCEPT ![s] = row]
      /\ streak' = 0
      /\ Answer(r) /\ UNCHANGED <<survivors, crossed>>
  BY DEF CommitSuccess, Unused
<1>2. /\ account \in Account /\ req[r] \in Request
      /\ sessions \in [Sessions -> SessionRow]
  BY DEF LoginInv, LoginTypeOK
<1>3. row \in SessionRow
  <2>1. Before(SessionTicks, req[r].age) \in 0 .. SessionTicks
    BY <1>2, LoginAssumption DEF Request, Before
  <2>. QED
    BY <2>1 DEF SessionRow
<1>. HIDE DEF row
<1>4. sessions' \in [Sessions -> SessionRow]
      /\ sessions'[s] = row /\ \A x \in Sessions : x # s => sessions'[x] = sessions[x]
  BY <1>1, <1>2, <1>3
<1>5. /\ account' \in Account /\ account'.active = account.active
      /\ account'.failed = IF req[r].failed # 0 THEN 0 ELSE account.failed
      /\ account'.lock = IF req[r].locked THEN NoLock ELSE account.lock
  <2>1. PICK row1 \in Account : row1 = account
    BY <1>2
  <2>2. PICK f \in 0 .. Threshold : f = IF req[r].failed # 0 THEN 0 ELSE row1.failed
    BY <2>1, LoginAssumption DEF Account
  <2>3. PICK l \in NoLock .. LockTicks : l = IF req[r].locked THEN NoLock ELSE row1.lock
    BY <2>1, LoginAssumption DEF Account, NoLock
  <2>4. account' = [row1 EXCEPT !.failed = f, !.lock = l]
    BY <1>1, <2>1, <2>2, <2>3 DEF Cleared
  <2>5. account' \in Account /\ account'.active = row1.active
    BY <2>1, <2>2, <2>3, <2>4 DEF Account
  <2>6. account'.failed = f /\ account'.lock = l
    BY <2>1, <2>4 DEF Account
  <2>. QED
    BY <2>1, <2>2, <2>3, <2>5, <2>6
<1>6. LoginTypeOK'
  BY <1>1, <1>4, <1>5, LoginAssumption, AnswerStep DEF LoginInv, LoginTypeOK
<1>7. StreakCounted'
  <2>1. SUFFICES ASSUME "logins" \notin crossed'
                 PROVE  /\ account'.failed = 0 /\ account'.lock = NoLock
                        /\ InFlight(Logins)' = {}
    BY <1>1, LoginAssumption DEF StreakCounted
  <2>2. r \in InFlight(Logins)
    BY <1>1 DEF InFlight, Logins
  <2>3. /\ \A q, p \in InFlight(Logins) : q = p
        /\ req[r].failed = account.failed /\ req[r].locked = (account.lock # NoLock)
    BY <1>1, <2>1, <2>2 DEF LoginInv, StreakCounted
  <2>4. InFlight(Logins)' = InFlight(Logins) \ {r}
    BY <1>1, AnswerStep DEF Logins
  <2>. QED
    BY <1>5, <2>2, <2>3, <2>4
<1>8. DeactivatedIsOut'
  <2>1. /\ InFlight({"success"})' = InFlight({"success"}) \ {r}
        /\ InFlight({"revoke"})' = InFlight({"revoke"}) \ {r}
    BY <1>1, AnswerStep
  <2>2. r \in InFlight({"success"})
    BY <1>1 DEF InFlight
  <2>. QED
    BY <1>1, <1>5, <2>1, <2>2 DEF LoginInv, DeactivatedIsOut
<1>9. NoSessionSurvivesRevocation'
  BY <1>1 DEF LoginInv, NoSessionSurvivesRevocation
<1>10. RevokedStays
  BY <1>1, <1>4 DEF RevokedStays
<1>. QED
  BY <1>1, <1>6, <1>7, <1>8, <1>9, <1>10, AnswerStep DEF LoginInv

LEMMA CommitRefreshStep ==
    ASSUME LoginInv, NEW r \in Requests, CommitRefresh(r)
    PROVE  LoginInv' /\ RevokedStays
<1>1. /\ Answer(r) /\ UNCHANGED <<account, streak, survivors, crossed>>
      /\ req[r].op = "refresh"
      /\ sessions' = [sessions EXCEPT ![req[r].session] = sessions[req[r].session]]
  BY DEF CommitRefresh, Refreshed
<1>2. sessions' = sessions
  BY <1>1 DEF LoginInv, LoginTypeOK
<1>3. LoginTypeOK'
  BY <1>1, <1>2, AnswerStep DEF LoginInv, LoginTypeOK
<1>4. StreakCounted'
  BY <1>1, CountKept
<1>5. DeactivatedIsOut'
  <2>1. /\ InFlight({"success"})' = InFlight({"success"}) \ {r}
        /\ InFlight({"revoke"})' = InFlight({"revoke"}) \ {r}
    BY <1>1, AnswerStep
  <2>2. Open' = Open
    BY <1>2 DEF Open
  <2>. QED
    BY <1>1, <2>1, <2>2 DEF LoginInv, DeactivatedIsOut
<1>6. NoSessionSurvivesRevocation' /\ RevokedStays
  BY <1>1, <1>2 DEF LoginInv, NoSessionSurvivesRevocation, RevokedStays
<1>. QED
  BY <1>1, <1>3, <1>4, <1>5, <1>6, AnswerStep DEF LoginInv

LEMMA CommitLogoutStep ==
    ASSUME LoginInv, NEW r \in Requests, CommitLogout(r)
    PROVE  LoginInv' /\ RevokedStays
<1>. DEFINE s == req[r].session
<1>1. /\ Answer(r) /\ UNCHANGED <<account, streak, survivors, crossed>>
      /\ req[r].op = "logout"
      /\ sessions' = [sessions EXCEPT ![s].state = "revoked"]
  BY DEF CommitLogout
<1>2. s \in Sessions /\ sessions \in [Sessions -> SessionRow]
  BY <1>1 DEF LoginInv, LoginTypeOK, SessionsNamed
<1>. HIDE DEF s
<1>3. /\ sessions' \in [Sessions -> SessionRow] /\ sessions'[s].state = "revoked"
      /\ \A x \in Sessions : x # s => sessions'[x] = sessions[x]
  BY <1>1, <1>2 DEF SessionRow
<1>4. LoginTypeOK'
  BY <1>1, <1>3, AnswerStep DEF LoginInv, LoginTypeOK
<1>5. StreakCounted'
  BY <1>1, CountKept
<1>6. DeactivatedIsOut'
  <2>1. /\ InFlight({"success"})' = InFlight({"success"}) \ {r}
        /\ InFlight({"revoke"})' = InFlight({"revoke"}) \ {r}
    BY <1>1, AnswerStep
  <2>2. Open' \subseteq Open
    BY <1>3 DEF Open
  <2>. QED
    BY <1>1, <2>1, <2>2 DEF LoginInv, DeactivatedIsOut
<1>7. NoSessionSurvivesRevocation'
  BY <1>1 DEF LoginInv, NoSessionSurvivesRevocation
<1>8. RevokedStays
  BY <1>3 DEF RevokedStays
<1>. QED
  BY <1>1, <1>4, <1>5, <1>6, <1>7, <1>8, AnswerStep DEF LoginInv

LEMMA CommitRevokeStep ==
    ASSUME LoginInv, NEW r \in Requests, CommitRevoke(r)
    PROVE  LoginInv' /\ RevokedStays
<1>1. /\ Answer(r) /\ UNCHANGED <<streak, survivors, crossed>>
      /\ req[r].op = "revoke"
      /\ account' = [account EXCEPT !.active = FALSE]
      /\ sessions' = [s \in Sessions |-> IF s \in Open
                                         THEN [sessions[s] EXCEPT !.state = "revoked"]
                                         ELSE sessions[s]]
  BY DEF CommitRevoke, Ended
<1>2. account \in Account /\ sessions \in [Sessions -> SessionRow]
  BY DEF LoginInv, LoginTypeOK
<1>3. /\ account' \in Account /\ ~account'.active
      /\ account'.failed = account.failed /\ account'.lock = account.lock
  BY <1>1, <1>2 DEF Account
<1>4. \A s \in Sessions : /\ sessions'[s] \in SessionRow /\ sessions'[s].state # "open"
                          /\ sessions[s].state = "revoked" => sessions'[s].state = "revoked"
  <2>. SUFFICES ASSUME NEW s \in Sessions
                PROVE  /\ sessions'[s] \in SessionRow /\ sessions'[s].state # "open"
                       /\ sessions[s].state = "revoked" => sessions'[s].state = "revoked"
    OBVIOUS
  <2>1. CASE s \in Open
    <3>1. sessions'[s] = [sessions[s] EXCEPT !.state = "revoked"]
      BY <1>1, <2>1
    <3>. QED
      BY <1>2, <3>1 DEF SessionRow
  <2>2. CASE s \notin Open
    BY <1>1, <1>2, <2>2 DEF Open
  <2>. QED
    BY <2>1, <2>2
<1>5. sessions' \in [Sessions -> SessionRow]
  BY <1>1, <1>4
<1>6. LoginTypeOK'
  BY <1>1, <1>3, <1>5, AnswerStep DEF LoginInv, LoginTypeOK
<1>7. StreakCounted'
  BY <1>1, <1>3, CountKept
<1>8. DeactivatedIsOut'
  <2>1. /\ InFlight({"success"})' = InFlight({"success"}) \ {r}
        /\ InFlight({"revoke"})' = InFlight({"revoke"}) \ {r}
    BY <1>1, AnswerStep
  <2>2. r \in InFlight({"revoke"})
    BY <1>1 DEF InFlight
  <2>3. Open' = {}
    BY <1>4 DEF Open
  <2>. QED
    BY <1>1, <2>1, <2>2, <2>3 DEF LoginInv, DeactivatedIsOut
<1>9. NoSessionSurvivesRevocation' /\ RevokedStays
  BY <1>1, <1>4 DEF LoginInv, NoSessionSurvivesRevocation, RevokedStays
<1>. QED
  BY <1>1, <1>6, <1>7, <1>8, <1>9, AnswerStep DEF LoginInv

LEMMA CommitReactivateStep ==
    ASSUME LoginInv, NEW r \in Requests, CommitReactivate(r)
    PROVE  LoginInv' /\ RevokedStays
<1>1. /\ Answer(r) /\ UNCHANGED <<sessions, streak, crossed>>
      /\ account' = [account EXCEPT !.active = TRUE]
      /\ survivors' = IF account.active THEN survivors ELSE Open
  BY DEF CommitReactivate
<1>2. account \in Account
  BY DEF LoginInv, LoginTypeOK
<1>3. /\ account' \in Account /\ account'.active
      /\ account'.failed = account.failed /\ account'.lock = account.lock
  BY <1>1, <1>2 DEF Account
<1>4. Open \subseteq Sessions
  BY DEF Open
<1>5. LoginTypeOK'
  BY <1>1, <1>3, <1>4, AnswerStep DEF LoginInv, LoginTypeOK
<1>6. StreakCounted'
  BY <1>1, <1>3, CountKept
<1>7. DeactivatedIsOut'
  <2>1. /\ InFlight({"success"})' = InFlight({"success"}) \ {r}
        /\ InFlight({"revoke"})' = InFlight({"revoke"}) \ {r}
    BY <1>1, AnswerStep
  <2>. QED
    BY <1>1, <1>3, <2>1 DEF LoginInv, DeactivatedIsOut
<1>8. NoSessionSurvivesRevocation'
  BY <1>1 DEF LoginInv, NoSessionSurvivesRevocation, DeactivatedIsOut
<1>9. RevokedStays
  BY <1>1 DEF RevokedStays
<1>. QED
  BY <1>1, <1>5, <1>6, <1>7, <1>8, <1>9, AnswerStep DEF LoginInv

LEMMA TickStep ==
    ASSUME LoginInv, Tick
    PROVE  LoginInv' /\ RevokedStays
<1>1. /\ \A r \in Requests : Idle(r) \/ req[r].age < MaxAge
      /\ account' = [account EXCEPT !.lock = IF @ = NoLock THEN @ ELSE Before(@, 1)]
      /\ sessions' = [s \in Sessions |-> [sessions[s] EXCEPT !.left = Before(@, 1)]]
      /\ req' = [r \in Requests |-> IF Idle(r) THEN req[r]
                                    ELSE [req[r] EXCEPT !.age = @ + 1]]
      /\ UNCHANGED <<streak, survivors, crossed>>
  BY DEF Tick
<1>2. /\ account \in Account /\ sessions \in [Sessions -> SessionRow]
      /\ req \in [Requests -> Request]
  BY DEF LoginInv, LoginTypeOK
<1>3. /\ account' \in Account /\ account'.active = account.active
      /\ account'.failed = account.failed
      /\ account'.lock # NoLock <=> account.lock # NoLock
  <2>. DEFINE lock == IF account.lock = NoLock THEN account.lock ELSE Before(account.lock, 1)
  <2>1. account' = [account EXCEPT !.lock = lock]
    BY <1>1
  <2>2. account.lock \in NoLock .. LockTicks
    BY <1>2 DEF Account
  <2>3. lock \in NoLock .. LockTicks /\ (lock # NoLock <=> account.lock # NoLock)
    BY <2>2, LoginAssumption DEF NoLock, Before
  <2>. HIDE DEF lock
  <2>. QED
    BY <1>2, <2>1, <2>3 DEF Account
<1>4. \A s \in Sessions : sessions'[s] \in SessionRow /\ sessions'[s].state = sessions[s].state
  <2>. SUFFICES ASSUME NEW s \in Sessions
                PROVE  /\ sessions'[s] \in SessionRow
                       /\ sessions'[s].state = sessions[s].state
    OBVIOUS
  <2>1. Before(sessions[s].left, 1) \in 0 .. SessionTicks
    BY <1>2, LoginAssumption, BeforeType DEF SessionRow
  <2>2. sessions'[s] = [sessions[s] EXCEPT !.left = Before(sessions[s].left, 1)]
    BY <1>1
  <2>. QED
    BY <1>2, <2>1, <2>2 DEF SessionRow
<1>5. sessions' \in [Sessions -> SessionRow]
  BY <1>1, <1>4
<1>6. \A r \in Requests : /\ req'[r] \in Request
                          /\ req'[r].op = req[r].op /\ req'[r].session = req[r].session
                          /\ req'[r].failed = req[r].failed
                          /\ req'[r].locked = req[r].locked
  <2>. SUFFICES ASSUME NEW r \in Requests
                PROVE  /\ req'[r] \in Request
                       /\ req'[r].op = req[r].op /\ req'[r].session = req[r].session
                       /\ req'[r].failed = req[r].failed
                       /\ req'[r].locked = req[r].locked
    OBVIOUS
  <2>1. CASE Idle(r)
    BY <1>1, <1>2, <2>1
  <2>2. CASE ~Idle(r)
    <3>1. PICK q \in Request : q = req[r]
      BY <1>2
    <3>2. PICK n \in 0 .. MaxAge : n = q.age + 1
      BY <1>1, <2>2, <3>1, LoginAssumption DEF Request
    <3>3. req'[r] = [q EXCEPT !.age = n]
      BY <1>1, <2>2, <3>1, <3>2
    <3>4. PICK s : s = [q EXCEPT !.age = n]
      OBVIOUS
    <3>5. s \in Request
      BY <3>1, <3>2, <3>4 DEF Request
    <3>6. s.op = q.op /\ s.session = q.session
      BY <3>1, <3>4 DEF Request
    <3>7. s.failed = q.failed /\ s.locked = q.locked
      BY <3>1, <3>4 DEF Request
    <3>. QED
      BY <3>1, <3>3, <3>4, <3>5, <3>6, <3>7
  <2>. QED
    BY <2>1, <2>2
<1>7. req' \in [Requests -> Request]
  BY <1>1, <1>6
<1>8. LoginTypeOK'
  BY <1>1, <1>3, <1>5, <1>7 DEF LoginInv, LoginTypeOK
<1>9. SessionsNamed'
  BY <1>6 DEF LoginInv, SessionsNamed
<1>10. \A ops : InFlight(ops)' = InFlight(ops)
  BY <1>6 DEF InFlight
<1>11. InFlight(Logins)' = InFlight(Logins) /\ InFlight(Logins) \subseteq Requests
  BY <1>10 DEF InFlight
<1>12. StreakCounted'
  <2>1. SUFFICES ASSUME "logins" \notin crossed
                 PROVE  /\ account'.failed = streak
                        /\ account'.lock # NoLock <=> streak = Threshold
                        /\ \A q, r \in InFlight(Logins)' : q = r
                        /\ \A r \in InFlight(Logins)' :
                              /\ req'[r].failed = account'.failed
                              /\ req'[r].locked = (account'.lock # NoLock)
    BY <1>1 DEF StreakCounted
  <2>2. /\ account.failed = streak
        /\ account.lock # NoLock <=> streak = Threshold
        /\ \A q, r \in InFlight(Logins) : q = r
        /\ \A r \in InFlight(Logins) : /\ req[r].failed = account.failed
                                       /\ req[r].locked = (account.lock # NoLock)
    BY <2>1 DEF LoginInv, StreakCounted
  <2>3. \A r \in InFlight(Logins) : req'[r].failed = account'.failed
    BY <1>3, <1>6, <1>11, <2>2
  <2>4. \A r \in InFlight(Logins) : req'[r].locked = (account'.lock # NoLock)
    BY <1>3, <1>6, <1>11, <2>2
  <2>. QED
    BY <1>3, <1>11, <2>2, <2>3, <2>4
<1>13. DeactivatedIsOut'
  <2>1. Open' = Open
    BY <1>4 DEF Open
  <2>2. /\ InFlight({"success"})' = InFlight({"success"})
        /\ InFlight({"revoke"})' = InFlight({"revoke"})
    BY <1>10
  <2>. QED
    BY <1>1, <1>3, <2>1, <2>2 DEF LoginInv, DeactivatedIsOut
<1>14. NoSessionSurvivesRevocation' /\ RevokedStays
  BY <1>1, <1>4 DEF LoginInv, NoSessionSurvivesRevocation, RevokedStays
<1>. QED
  BY <1>8, <1>9, <1>12, <1>13, <1>14 DEF LoginInv

LEMMA DiesStep ==
    ASSUME LoginInv, NEW r \in Requests, Dies(r)
    PROVE  LoginInv' /\ RevokedStays
<1>1. Answer(r) /\ UNCHANGED <<account, sessions, streak, survivors, crossed>>
  BY DEF Dies
<1>2. LoginTypeOK'
  BY <1>1, AnswerStep DEF LoginInv, LoginTypeOK
<1>3. StreakCounted'
  BY <1>1, CountKept
<1>4. DeactivatedIsOut'
  <2>1. /\ InFlight({"success"})' = InFlight({"success"}) \ {r}
        /\ InFlight({"revoke"})' = InFlight({"revoke"}) \ {r}
    BY <1>1, AnswerStep
  <2>2. Open' = Open
    BY <1>1 DEF Open
  <2>. QED
    BY <1>1, <2>1, <2>2 DEF LoginInv, DeactivatedIsOut
<1>5. NoSessionSurvivesRevocation' /\ RevokedStays
  BY <1>1 DEF LoginInv, NoSessionSurvivesRevocation, RevokedStays
<1>. QED
  BY <1>1, <1>2, <1>3, <1>4, <1>5, AnswerStep DEF LoginInv

(***************************************************************************)
(* Theorems                                                                *)
(***************************************************************************)

LEMMA InitInv == LoginInit => LoginInv
<1>. SUFFICES ASSUME LoginInit PROVE LoginInv
  OBVIOUS
<1>1. /\ account = [active |-> TRUE, failed |-> 0, lock |-> NoLock]
      /\ sessions = [s \in Sessions |-> NoRow]
      /\ req = [r \in Requests |-> IdleRequest]
      /\ streak = 0 /\ survivors = {} /\ crossed = {}
  BY DEF LoginInit
<1>2. NoRow \in SessionRow
  BY LoginAssumption DEF NoRow, SessionRow
<1>3. account \in Account
  BY <1>1, LoginAssumption DEF Account, NoLock
<1>4. LoginTypeOK
  BY <1>1, <1>2, <1>3, IdleType, LoginAssumption DEF LoginTypeOK
<1>5. \A ops : "none" \notin ops => InFlight(ops) = {}
  BY <1>1 DEF InFlight, IdleRequest
<1>6. InFlight(Logins) = {} /\ InFlight({"success"}) = {} /\ InFlight({"revoke"}) = {}
  BY <1>5 DEF Logins
<1>7. StreakCounted
  BY <1>1, <1>6, LoginAssumption DEF StreakCounted
<1>8. SessionsNamed /\ DeactivatedIsOut /\ NoSessionSurvivesRevocation
  BY <1>1, <1>6 DEF SessionsNamed, DeactivatedIsOut, NoSessionSurvivesRevocation, IdleRequest
<1>. QED
  BY <1>4, <1>7, <1>8 DEF LoginInv

LEMMA StepInv == LoginInv /\ [LoginNext]_loginvars => LoginInv' /\ (RevokedStays \/ UNCHANGED loginvars)
<1>. SUFFICES ASSUME LoginInv, [LoginNext]_loginvars
              PROVE  LoginInv' /\ (RevokedStays \/ UNCHANGED loginvars)
  OBVIOUS
<1>1. CASE Tick
  BY <1>1, TickStep
<1>2. ASSUME NEW r \in Requests, Reads(r) PROVE LoginInv' /\ RevokedStays
  <2>1. ASSUME NEW op \in Logins, StartLogin(r, op) PROVE LoginInv' /\ RevokedStays
    <3>1. /\ Begin(r, op, NoSession) /\ account.active
          /\ op \in Ops \ {"none"} /\ op \notin {"refresh", "logout"}
      BY <2>1 DEF StartLogin, Logins, Ops
    <3>. QED
      BY <3>1, BeginStep
  <2>2. ASSUME NEW s \in Sessions, StartRefresh(r, s) PROVE LoginInv' /\ RevokedStays
    <3>1. Begin(r, "refresh", s) /\ "refresh" \in Ops \ {"none"}
      BY <2>2 DEF StartRefresh, Ops
    <3>. QED
      BY <3>1, BeginStep
  <2>3. ASSUME NEW s \in Sessions, StartLogout(r, s) PROVE LoginInv' /\ RevokedStays
    <3>1. Begin(r, "logout", s) /\ "logout" \in Ops \ {"none"}
      BY <2>3 DEF StartLogout, Ops
    <3>. QED
      BY <3>1, BeginStep
  <2>4. CASE StartRevoke(r)
    <3>1. Begin(r, "revoke", NoSession) /\ "revoke" \in Ops \ {"none"}
      BY <2>4 DEF StartRevoke, Ops
    <3>. QED
      BY <3>1, BeginStep
  <2>5. CASE StartReactivate(r)
    <3>1. Begin(r, "reactivate", NoSession) /\ "reactivate" \in Ops \ {"none"}
      BY <2>5 DEF StartReactivate, Ops
    <3>. QED
      BY <3>1, BeginStep
  <2>. QED
    BY <1>2, <2>1, <2>2, <2>3, <2>4, <2>5 DEF Reads
<1>3. ASSUME NEW r \in Requests, Commits(r) PROVE LoginInv' /\ RevokedStays
  BY <1>3, CommitFailureStep, CommitSuccessStep, CommitRefreshStep, CommitLogoutStep,
     CommitRevokeStep, CommitReactivateStep DEF Commits
<1>4. ASSUME NEW r \in Requests, Dies(r) PROVE LoginInv' /\ RevokedStays
  BY <1>4, DiesStep
<1>5. CASE UNCHANGED loginvars
  BY <1>5 DEF LoginInv, loginvars, LoginTypeOK, SessionsNamed, StreakCounted,
     DeactivatedIsOut, NoSessionSurvivesRevocation, InFlight, Open
<1>. QED
  BY <1>1, <1>2, <1>3, <1>4, <1>5 DEF LoginNext

\* The invariant holds of every behaviour.
THEOREM LoginSound == LoginSpec => []LoginInv
<1>. QED
  BY InitInv, StepInv, PTL DEF LoginSpec

\* Rows and requests keep their shape.
THEOREM LoginTypeCorrect == LoginSpec => []LoginTypeOK
<1>1. LoginInv => LoginTypeOK
  BY DEF LoginInv
<1>. QED
  BY <1>1, LoginSound, PTL

\* Of wrong passwords that are tried one after another, exactly the
\* Threshold-th locks the account, however often earlier locks have passed.
THEOREM LockIsExact == LoginSpec => []LockFollowsStreak
<1>1. LoginInv => LockFollowsStreak
  BY DEF LoginInv, StreakCounted, LockFollowsStreak
<1>. QED
  BY <1>1, LoginSound, PTL

\* No refresh, logout or login that was in flight reopens a revoked session.
THEOREM RevokedForGood == LoginSpec => RevokedIsFinal
<1>1. LoginInv /\ [LoginNext]_loginvars => [RevokedStays]_loginvars
  BY StepInv
<1>. QED
  BY <1>1, LoginSound, PTL DEF LoginSpec, RevokedIsFinal, RevokedStays

\* A reactivated account has no session from before its revocation, unless a
\* login was in flight together with it.
THEOREM NoSurvivors == LoginSpec => []NoSessionSurvivesRevocation
<1>1. LoginInv => NoSessionSurvivesRevocation
  BY DEF LoginInv
<1>. QED
  BY <1>1, LoginSound, PTL
=============================================================================
