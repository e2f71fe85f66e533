-------------------------------- MODULE Chat --------------------------------
(***************************************************************************)
(* Chat sessions and their messages.  A question is committed before the   *)
(* answer is streamed, and the answer when the stream is at its end; in    *)
(* between the client may leave, the language model may fail, the session  *)
(* may be deleted and other questions may be asked in it.                  *)
(* (src/api/chat.py, utils/rag.py)                                         *)
(*                                                                         *)
(* A message can be seen from its commit on, but it is read in the order   *)
(* of created_at, which the clock of its pod sets when it is flushed: it   *)
(* may appear in front of messages that were seen before it.               *)
(* last_active_at and the title of a session are left out: the list of     *)
(* sessions shows them, and nothing else reads them.                       *)
(***************************************************************************)
EXTENDS Naturals, Sequences, FiniteSets

CONSTANTS
    Users, Sessions,
    MaxRequests,    \* bound: questions that are sent
    Window,         \* the messages of a session the model is shown (20 in the code)
    Clocks          \* how far ahead the clock of each request's pod can be (see Stamps)

ASSUME ChatAssumption ==
    /\ Users # {} /\ Sessions # {}
    /\ MaxRequests \in Nat /\ Window \in Nat \ {0}
    /\ Clocks \in [1 .. MaxRequests -> SUBSET Nat]

Requests == 1 .. MaxRequests    \* in the order they arrive

VARIABLES
    sessions,   \* chat_sessions
    log,        \* chat_messages of each session, in the order they were committed
    req,        \* the request that sends each question
    told,       \* how its event stream ended for the client
    inTime,     \* history: the requests accepted before each session was deleted
    broken      \* history: the requests whose answer the database refused

chatvars == <<sessions, log, req, told, inTime, broken>>
chathistory == <<inTime, broken>>

SessionRow == [state : {"absent", "open", "deleted"}, user : Users]
NoSession == [state |-> "absent", user |-> CHOOSE u \in Users : TRUE]

\* A message is the question of a request or the answer to it; `at` is its
\* created_at.
Message == [role : {"user", "assistant"}, of : Requests, at : Nat]
Question(r, at) == [role |-> "user", of |-> r, at |-> at]
Answer(r, at) == [role |-> "assistant", of |-> r, at |-> at]

Asks(m, r) == m.role = "user" /\ m.of = r
Answers(m, r) == m.role = "assistant" /\ m.of = r

\* found   the session is loaded; the history is read next
\* read    the question is to be committed
\* stream  the response has begun: the question is embedded, chunks are sought,
\*         the language model streams
\* stored  the answer is committed; the last event is to be sent
\* over    the handler has ended
Steps == {"new", "found", "read", "stream", "stored", "over"}

\* `since` is history: the messages there were at "found".
Request == [step : Steps, session : Sessions, history : SUBSET Message, since : Nat]
At(step, s, n) == [step |-> step, session |-> s, history |-> {}, since |-> n]
NewRequest(s) == At("new", s, 0)
\* What is left of it when the handler has ended.
Ended(q) == At("over", q.session, 0)

Log(r) == log[req[r].session]

\* The n-th message of a session is flushed about the time 2 * n; a clock
\* that is ahead stamps it as later than those that are committed next.  No
\* two messages have the same stamp.
Stamps(r, l) ==
    {at \in {2 * (Len(l) + 1) + c : c \in Clocks[r]} : \A i \in DOMAIN l : l[i].at # at}

(***************************************************************************)
(* POST and DELETE /chat/sessions                                          *)
(***************************************************************************)
CreateSession(s, u) ==
    /\ sessions[s].state = "absent"
    /\ sessions' = [sessions EXCEPT ![s] = [state |-> "open", user |-> u]]
    /\ UNCHANGED <<log, req, told, chathistory>>

\* Mutant: the owner finds deleted sessions too.
Owned_Deleted(s, u) == sessions[s].state # "absent" /\ sessions[s].user = u

\* _get_owned_session.
Owned(s, u) == sessions[s].state = "open" /\ sessions[s].user = u

\* The row is marked; its messages stay, and streams go on.
DeleteSession(s, u) ==
    /\ sessions[s].state # "absent" /\ Owned(s, u)
    /\ sessions' = [sessions EXCEPT ![s].state = "deleted"]
    /\ inTime' = [inTime EXCEPT ![s] = {r \in Requests : /\ req[r].session = s
                                                         /\ req[r].step # "new"}]
    /\ UNCHANGED <<log, req, told, broken>>

(***************************************************************************)
(* POST /chat/sessions/{id}/messages                                       *)
(***************************************************************************)
SendMessage(r, s, u) ==
    /\ req[r].step = "new" /\ \A q \in Requests : q < r => req[q].step # "new"
    /\ sessions[s].state # "absent"
    /\ req' = [req EXCEPT ![r] =
                 IF Owned(s, u)
                 THEN At("found", s, Len(log[s]))
                 ELSE Ended(NewRequest(s))]
    /\ told' = [told EXCEPT ![r] = IF Owned(s, u) THEN "nothing" ELSE "not_found"]
    /\ UNCHANGED <<sessions, log, chathistory>>

Rows(l) == {l[i] : i \in DOMAIN l}

\* ORDER BY created_at DESC LIMIT Window.
Recent(rows) == {m \in rows : Cardinality({n \in rows : n.at > m.at}) < Window}

\* Mutant: ORDER BY created_at, the beginning of the conversation.
ReadHistory_Oldest(r) ==
    LET oldest == {m \in Rows(Log(r)) :
                      Cardinality({n \in Rows(Log(r)) : n.at < m.at}) < Window}
    IN /\ req[r].step = "found"
       /\ req' = [req EXCEPT ![r].step = "read", ![r].history = oldest]
       /\ UNCHANGED <<sessions, log, told, chathistory>>

ReadHistory(r) ==
    /\ req[r].step = "found"
    /\ req' = [req EXCEPT ![r].step = "read", ![r].history = Recent(Rows(Log(r)))]
    /\ UNCHANGED <<sessions, log, told, chathistory>>

\* Mutant: the question is added and committed only with the answer.
WithQuestion_Uncommitted(l, r, at) == l

WithQuestion(l, r, at) == Append(l, Question(r, at))

QuestionStored(r) ==
    \E at \in Stamps(r, Log(r)) :
       log' = [log EXCEPT ![req[r].session] = WithQuestion(@, r, at)]

CommitQuestion(r) ==
    /\ req[r].step = "read"
    /\ QuestionStored(r)
    /\ req' = [req EXCEPT ![r].step = "stream"]
    /\ UNCHANGED <<sessions, told, chathistory>>

\* A query or the commit raises before the response has begun, and the
\* answer is 500.  A commit whose acknowledgement is lost was one all the
\* same.
QuestionFails(r) ==
    /\ req[r].step \in {"found", "read"}
    /\ UNCHANGED log \/ (req[r].step = "read" /\ QuestionStored(r))
    /\ req' = [req EXCEPT ![r] = Ended(@)]
    /\ told' = [told EXCEPT ![r] = "refused"]
    /\ UNCHANGED <<sessions, chathistory>>

(***************************************************************************)
(* The event stream: _sse_stream and rag_stream_generator                  *)
(***************************************************************************)
\* Mutant: the answer is flushed and never committed.
WithAnswer_Flushed(l, r, at) == l

WithAnswer(l, r, at) == Append(l, Answer(r, at))

\* One pod stamps the answer and its question, and its clock goes forward.
AnswerStored(r) ==
    \E at \in Stamps(r, Log(r)) :
       /\ \A m \in Rows(Log(r)) : Asks(m, r) => m.at < at
       /\ log' = [log EXCEPT ![req[r].session] = WithAnswer(@, r, at)]

\* The model's answer is complete, or no chunk was near enough and the
\* answer says so.
StoreAnswer(r) ==
    /\ req[r].step = "stream"
    /\ AnswerStored(r)
    /\ req' = [req EXCEPT ![r].step = "stored"]
    /\ UNCHANGED <<sessions, told, chathistory>>

SendDone(r) ==
    /\ req[r].step = "stored"
    /\ req' = [req EXCEPT ![r] = Ended(@)]
    /\ told' = [told EXCEPT ![r] = "done"]
    /\ UNCHANGED <<sessions, log, chathistory>>

\* Mutant: an error of the stream is logged and not sent.
OnError_Silent == "nothing"

OnError == "error"

\* The embedding, the search or the model raises.
StreamErrs(r) ==
    /\ req[r].step = "stream"
    /\ req' = [req EXCEPT ![r] = Ended(@)]
    /\ told' = [told EXCEPT ![r] = OnError]
    /\ UNCHANGED <<sessions, log, chathistory>>

AnswerRefused(r, end) ==
    /\ req[r].step = "stream"
    /\ req' = [req EXCEPT ![r] = Ended(@)]
    /\ told' = [told EXCEPT ![r] = end]
    /\ broken' = broken \cup {r}
    /\ UNCHANGED <<sessions, inTime>>

\* A flush that fails rolls back and expires the session row, whose id the
\* except block logs before it sends the event: that raises again, and the
\* stream breaks off.
FlushFails(r) == AnswerRefused(r, "cut") /\ UNCHANGED log

\* COMMIT itself raises: the answer may be stored or not.  Whether the
\* session row can still be read then is left open.
CommitFails(r) ==
    /\ \E end \in {OnError, "cut"} : AnswerRefused(r, end)
    /\ UNCHANGED log \/ AnswerStored(r)

\* The client leaves, which ends the generator where it stands, or the pod
\* terminates.
Abandon(r) ==
    /\ req[r].step \notin {"new", "over"}
    /\ req' = [req EXCEPT ![r] = Ended(@)]
    /\ told' = [told EXCEPT ![r] = "left"]
    /\ UNCHANGED <<sessions, log, chathistory>>

(***************************************************************************)
(* Specification                                                           *)
(***************************************************************************)
ChatInit ==
    /\ sessions = [s \in Sessions |-> NoSession]
    /\ log = [s \in Sessions |-> <<>>]
    /\ req = [r \in Requests |-> NewRequest(CHOOSE s \in Sessions : TRUE)]
    /\ told = [r \in Requests |-> "nothing"]
    /\ inTime = [s \in Sessions |-> {}]
    /\ broken = {}

HandlerStep(r) ==
    \/ ReadHistory(r) \/ CommitQuestion(r) \/ QuestionFails(r)
    \/ StoreAnswer(r) \/ SendDone(r)
    \/ StreamErrs(r) \/ FlushFails(r) \/ CommitFails(r)

ChatNext ==
    \/ \E s \in Sessions, u \in Users :
          \/ CreateSession(s, u) \/ DeleteSession(s, u)
          \/ \E r \in Requests : SendMessage(r, s, u)
    \/ \E r \in Requests : HandlerStep(r) \/ Abandon(r)

ChatSpec == ChatInit /\ [][ChatNext]_chatvars

\* A handler goes on: every call it makes returns or raises.
FairChatSpec == ChatSpec /\ \A r \in Requests : WF_chatvars(HandlerStep(r))

(***************************************************************************)
(* Properties                                                              *)
(***************************************************************************)

\* Rows, messages and requests keep their shape.
ChatTypeOK ==
    /\ sessions \in [Sessions -> SessionRow]
    /\ log \in [Sessions -> Seq(Message)]
    /\ req \in [Requests -> Request]
    /\ told \in [Requests -> {"nothing", "not_found", "refused", "done", "error", "cut",
                              "left"}]
    /\ inTime \in [Sessions -> SUBSET Requests]
    /\ broken \subseteq Requests

\* However questions, answers, failures and departures interleave, an answer
\* comes after its question, in the same session, both when it is stored
\* and when the session is read again; and no message is stored twice.
AnswersFollowQuestions ==
    \A s \in Sessions : \A i \in DOMAIN log[s] :
       LET m == log[s][i]
       IN /\ \A j \in DOMAIN log[s] : log[s][j].role = m.role /\ log[s][j].of = m.of => i = j
          /\ m.role = "assistant" =>
                \E j \in 1 .. i - 1 : Asks(log[s][j], m.of) /\ log[s][j].at < m.at

\* What the model is shown before a question is the end, by created_at, of
\* what could be seen of the conversation at some moment between the arrival
\* of the question and its commit: nothing of another session, not the
\* question itself, and everything that was there when it arrived unless
\* the window is full of later messages.
PromptIsConversation ==
    \A r \in Requests :
       req[r].step \in {"stream", "stored"} =>
          \E k \in req[r].since .. Len(Log(r)) :
             /\ req[r].history = Recent({Log(r)[i] : i \in 1 .. k})
             /\ \A j \in DOMAIN Log(r) : Asks(Log(r)[j], r) => k < j

\* A client that was told of the end of the answer finds it in the session
\* when it reloads it, and one that was told of an error does not, unless
\* the error was that of the commit.
DoneMeansStored ==
    \A r \in Requests :
       LET stored == \E m \in Rows(Log(r)) : Answers(m, r)
       IN (told[r] = "done" => stored) /\ (told[r] = "error" => ~stored \/ r \in broken)

\* A deleted session gets messages only from requests that had found it
\* before it was deleted.
DeletedIsClosed ==
    \A s \in Sessions :
       sessions[s].state = "deleted" =>
          \A i \in DOMAIN log[s] : log[s][i].of \in inTime[s]

\* A client that stays is told how its question ended, unless the database
\* refused the answer: then the stream may break off without an event.
ClientIsTold ==
    \A r \in Requests :
       req[r].step = "found"
          ~> told[r] \in {"refused", "done", "error", "left"} \/ r \in broken
=============================================================================
