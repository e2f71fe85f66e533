----------------------------- MODULE Chat_proofs -----------------------------
(***************************************************************************)
(* Proofs about Chat, for any users, sessions, number of questions, window *)
(* and clocks.                                                             *)
(***************************************************************************)
EXTENDS Chat, TLAPS

(***************************************************************************)
(* Types                                                                   *)
(***************************************************************************)
LEMMA Kinds ==
    \A r, at : /\ Question(r, at).of = r /\ Question(r, at).role = "user"
               /\ Question(r, at).at = at
               /\ Answer(r, at).of = r /\ Answer(r, at).role = "assistant"
               /\ Answer(r, at).at = at
               /\ Asks(Question(r, at), r) /\ Answers(Answer(r, at), r)
BY DEF Question, Answer, Asks, Answers

LEMMA MessagesOf ==
    \A r \in Requests, at \in Nat : Question(r, at) \in Message /\ Answer(r, at) \in Message
BY DEF Question, Answer, Message

\* A message is the question or the answer of one request.
LEMMA OneKind ==
    \A m, r, q : /\ Asks(m, r) => ~Answers(m, q)
                 /\ Asks(m, r) /\ Asks(m, q) => r = q
                 /\ Answers(m, r) /\ Answers(m, q) => r = q
BY DEF Asks, Answers

\* The clocks give stamps.
LEMMA StampsType ==
    ASSUME NEW r \in Requests, NEW l \in Seq(Message)
    PROVE  Stamps(r, l) \subseteq Nat
<1>1. Clocks[r] \subseteq Nat /\ Len(l) \in Nat
  BY ChatAssumption DEF Requests
<1>. QED
  BY <1>1 DEF Stamps

LEMMA FoundType ==
    ASSUME NEW s \in Sessions, NEW n \in Nat
    PROVE  LET t == At("found", s, n)
           IN t \in Request /\ t.step = "found" /\ t.session = s /\ t.since = n
BY DEF At, Request, Steps

LEMMA NewRequestType ==
    \A s \in Sessions : /\ NewRequest(s) \in Request
                        /\ NewRequest(s).step = "new" /\ NewRequest(s).session = s
BY DEF NewRequest, At, Request, Steps

\* What the handler leaves behind when it ends.
LEMMA EndedType ==
    ASSUME NEW q \in Request
    PROVE  /\ Ended(q) \in Request
           /\ Ended(q).step = "over" /\ Ended(q).session = q.session
<1>1. q.session \in Sessions /\ q.since \in Nat
  BY DEF Request
<1>. QED
  BY <1>1 DEF Ended, At, Request, Steps

\* A request that only goes on to its next step.
LEMMA SteppedType ==
    ASSUME NEW q \in Request, NEW step \in Steps
    PROVE  LET t == [q EXCEPT !.step = step]
           IN /\ t \in Request /\ t.step = step /\ t.session = q.session
              /\ t.history = q.history /\ t.since = q.since
BY DEF Request, Steps

\* The history is a part of the conversation.
LEMMA RecentType ==
    ASSUME NEW l \in Seq(Message)
    PROVE  Recent(Rows(l)) \in SUBSET Message
BY DEF Recent, Rows

LEMMA ReadType ==
    ASSUME NEW q \in Request, NEW h \in SUBSET Message,
           NEW t, t = [q EXCEPT !.step = "read", !.history = h]
    PROVE  /\ t \in Request /\ t.step = "read" /\ t.session = q.session
           /\ t.history = h /\ t.since = q.since
BY DEF Request, Steps

LEMMA AppendType ==
    ASSUME NEW l \in Seq(Message), NEW m \in Message
    PROVE  /\ Append(l, m) \in Seq(Message)
           /\ Len(Append(l, m)) = Len(l) + 1 /\ Len(l) \in Nat
           /\ DOMAIN l = 1 .. Len(l) /\ DOMAIN Append(l, m) = 1 .. Len(l) + 1
           /\ \A i \in 1 .. Len(l) : Append(l, m)[i] = l[i]
           /\ Append(l, m)[Len(l) + 1] = m
OBVIOUS

(***************************************************************************)
(* What a step does to the messages                                        *)
(***************************************************************************)

\* The messages of a session, as one step leaves them.
Same == log' = log
Appended(r, m) ==
    LET s == req[r].session
    IN /\ s \in Sessions /\ m \in Message
       /\ log' = [log EXCEPT ![s] = Append(@, m)]

\* An answer is stamped after its question.
Later(r, at) == \A m \in Rows(Log(r)) : Asks(m, r) => m.at < at

LEMMA QuestionIsAppended ==
    ASSUME ChatTypeOK, NEW r \in Requests, QuestionStored(r)
    PROVE  \E at \in Nat : Appended(r, Question(r, at))
<1>1. req[r].session \in Sessions /\ Log(r) \in Seq(Message)
  BY DEF ChatTypeOK, Request, Log
<1>2. PICK at \in Stamps(r, Log(r)) :
         log' = [log EXCEPT ![req[r].session] = WithQuestion(@, r, at)]
  BY DEF QuestionStored
<1>3. at \in Nat
  BY <1>1, <1>2, StampsType
<1>. QED
  BY <1>1, <1>2, <1>3, MessagesOf DEF Appended, WithQuestion

LEMMA AnswerIsAppended ==
    ASSUME ChatTypeOK, NEW r \in Requests, AnswerStored(r)
    PROVE  \E at \in Nat : Later(r, at) /\ Appended(r, Answer(r, at))
<1>1. req[r].session \in Sessions /\ Log(r) \in Seq(Message)
  BY DEF ChatTypeOK, Request, Log
<1>2. PICK at \in Stamps(r, Log(r)) :
         /\ Later(r, at)
         /\ log' = [log EXCEPT ![req[r].session] = WithAnswer(@, r, at)]
  BY DEF AnswerStored, Later
<1>3. at \in Nat
  BY <1>1, <1>2, StampsType
<1>. QED
  BY <1>1, <1>2, <1>3, MessagesOf DEF Appended, WithAnswer

LEMMA AppendedType ==
    ASSUME ChatTypeOK, NEW r \in Requests, NEW m, Appended(r, m)
    PROVE  log' \in [Sessions -> Seq(Message)]
BY AppendType DEF Appended, ChatTypeOK

LEMMA ChatTypeInit == ChatInit => ChatTypeOK
<1> SUFFICES ASSUME ChatInit PROVE ChatTypeOK
  OBVIOUS
<1>1. (CHOOSE s \in Sessions : TRUE) \in Sessions /\ (CHOOSE u \in Users : TRUE) \in Users
  BY ChatAssumption
<1>2. NoSession \in SessionRow
  BY <1>1 DEF NoSession, SessionRow
<1>3. req \in [Requests -> Request]
  BY <1>1, NewRequestType DEF ChatInit
<1>. QED
  BY <1>2, <1>3 DEF ChatInit, ChatTypeOK

LEMMA ChatTypeStep == ChatTypeOK /\ [ChatNext]_chatvars => ChatTypeOK'
<1> SUFFICES ASSUME ChatTypeOK, [ChatNext]_chatvars PROVE ChatTypeOK'
  OBVIOUS
<1> USE DEF ChatTypeOK, chathistory
<1>1. ASSUME NEW s \in Sessions, NEW u \in Users, CreateSession(s, u)
      PROVE  ChatTypeOK'
  BY <1>1 DEF CreateSession, SessionRow
<1>2. ASSUME NEW s \in Sessions, NEW u \in Users, DeleteSession(s, u)
      PROVE  ChatTypeOK'
  BY <1>2 DEF DeleteSession, SessionRow
<1>3. ASSUME NEW s \in Sessions, NEW u \in Users, NEW r \in Requests, SendMessage(r, s, u)
      PROVE  ChatTypeOK'
  <2>1. req'[r] \in Request /\ req' = [req EXCEPT ![r] = req'[r]]
    <3>1. CASE Owned(s, u)
      <4>1. req' = [req EXCEPT ![r] = At("found", s, Len(log[s]))]
        BY <1>3, <3>1 DEF SendMessage
      <4>2. Len(log[s]) \in Nat
        OBVIOUS
      <4>. QED
        BY <4>1, <4>2, FoundType
    <3>2. CASE ~Owned(s, u)
      <4>1. req' = [req EXCEPT ![r] = Ended(NewRequest(s))]
        BY <1>3, <3>2 DEF SendMessage
      <4>. QED
        BY <4>1, NewRequestType, EndedType
    <3>. QED
      BY <3>1, <3>2
  <2>2. told' \in [Requests -> {"nothing", "not_found", "refused", "done", "error", "cut",
                                "left"}]
    BY <1>3 DEF SendMessage
  <2>. QED
    BY <1>3, <2>1, <2>2 DEF SendMessage
<1>4. ASSUME NEW r \in Requests, ReadHistory(r)
      PROVE  ChatTypeOK'
  <2>1. req[r].session \in Sessions
    BY DEF Request
  <2>2. Recent(Rows(Log(r))) \in SUBSET Message
    BY <2>1, RecentType DEF Log
  <2>. QED
    BY <1>4, <2>2, ReadType DEF ReadHistory
<1>5. ASSUME NEW r \in Requests, CommitQuestion(r)
      PROVE  ChatTypeOK'
  <2>1. log' \in [Sessions -> Seq(Message)]
    BY <1>5, QuestionIsAppended, AppendedType DEF CommitQuestion
  <2>2. req' \in [Requests -> Request]
    BY <1>5, SteppedType DEF CommitQuestion, Steps
  <2>. QED
    BY <1>5, <2>1, <2>2 DEF CommitQuestion
<1>6. ASSUME NEW r \in Requests, QuestionFails(r)
      PROVE  ChatTypeOK'
  <2>1. log' \in [Sessions -> Seq(Message)]
    BY <1>6, QuestionIsAppended, AppendedType DEF QuestionFails
  <2>2. req' \in [Requests -> Request]
    BY <1>6, EndedType DEF QuestionFails
  <2>. QED
    BY <1>6, <2>1, <2>2 DEF QuestionFails
<1>7. ASSUME NEW r \in Requests, StoreAnswer(r)
      PROVE  ChatTypeOK'
  <2>1. log' \in [Sessions -> Seq(Message)]
    BY <1>7, AnswerIsAppended, AppendedType DEF StoreAnswer
  <2>2. req' \in [Requests -> Request]
    BY <1>7, SteppedType DEF StoreAnswer, Steps
  <2>. QED
    BY <1>7, <2>1, <2>2 DEF StoreAnswer
<1>8. ASSUME NEW r \in Requests, SendDone(r)
      PROVE  ChatTypeOK'
  BY <1>8, EndedType DEF SendDone
<1>9. ASSUME NEW r \in Requests, StreamErrs(r)
      PROVE  ChatTypeOK'
  BY <1>9, EndedType DEF StreamErrs, OnError
<1>10. ASSUME NEW r \in Requests, Abandon(r)
       PROVE  ChatTypeOK'
  BY <1>10, EndedType DEF Abandon
<1>11. ASSUME NEW r \in Requests, FlushFails(r) \/ CommitFails(r)
       PROVE  ChatTypeOK'
  <2>1. PICK end \in {"error", "cut"} : AnswerRefused(r, end)
    BY <1>11 DEF FlushFails, CommitFails, OnError
  <2>2. log' \in [Sessions -> Seq(Message)]
    BY <1>11, AnswerIsAppended, AppendedType DEF FlushFails, CommitFails
  <2>3. req' \in [Requests -> Request]
    BY <2>1, EndedType DEF AnswerRefused
  <2>. QED
    BY <2>1, <2>2, <2>3 DEF AnswerRefused
<1>12. CASE UNCHANGED chatvars
  BY <1>12 DEF chatvars
<1>. QED
  BY <1>1, <1>2, <1>3, <1>4, <1>5, <1>6, <1>7, <1>8, <1>9, <1>10, <1>11, <1>12
  DEF ChatNext, HandlerStep

\* The rows of sessions, the messages and the requests keep their shape
\* (src/api/chat.py), whoever asks, leaves or deletes meanwhile.
THEOREM ChatTypeCorrect == ChatSpec => []ChatTypeOK
<1>. QED
  BY ChatTypeInit, ChatTypeStep, PTL DEF ChatSpec

(***************************************************************************)
(* The inductive invariant                                                 *)
(***************************************************************************)
Committed == {"stream", "stored", "over"}
Streaming == {"stream", "stored"}
HasQuestion(l, r) == \E i \in DOMAIN l : Asks(l[i], r)
HasAnswer(l, r) == \E i \in DOMAIN l : Answers(l[i], r)

\* A message is in the session of its request, and its request is past the
\* commit of the question.
Homed ==
    \A s \in Sessions : \A i \in DOMAIN log[s] :
       /\ log[s][i] \in Message
       /\ req[log[s][i].of].session = s
       /\ req[log[s][i].of].step \in Committed

\* While it streams the question is there, and the answer not before it is
\* stored; a request whose end was told is over.
Tracked ==
    \A r \in Requests :
       /\ req[r].step \in Streaming => HasQuestion(Log(r), r)
       /\ req[r].step = "stream" => ~HasAnswer(Log(r), r)
       /\ req[r].step = "stored" => HasAnswer(Log(r), r)
       /\ told[r] \in {"done", "error"} => req[r].step = "over"

\* Whoever is at work in a deleted session had found it before.
Admitted ==
    \A s \in Sessions : sessions[s].state = "deleted" =>
       \A r \in Requests :
          req[r].session = s /\ req[r].step \notin {"new", "over"} => r \in inTime[s]

\* The first k messages of a session, and what a request that read at that
\* moment was shown.
First(l, k) == {l[i] : i \in 1 .. k}
Shown(r, k) == req[r].history = Recent(First(Log(r), k))

Prompted ==
    \A r \in Requests :
       /\ req[r].step \in {"found", "read"} => req[r].since <= Len(Log(r))
       /\ req[r].step = "read" => \E k \in req[r].since .. Len(Log(r)) : Shown(r, k)

ChatInv ==
    /\ ChatTypeOK
    /\ Homed /\ AnswersFollowQuestions
    /\ Tracked /\ DoneMeansStored
    /\ Admitted /\ DeletedIsClosed
    /\ Prompted /\ PromptIsConversation

LEMMA ChatInvInit == ChatInit => ChatInv
<1> SUFFICES ASSUME ChatInit PROVE ChatInv
  OBVIOUS
<1>1. ChatTypeOK
  BY ChatTypeInit
<1>2. /\ \A s \in Sessions : DOMAIN log[s] = {} /\ sessions[s].state = "absent"
      /\ \A r \in Requests : req[r].step = "new" /\ told[r] = "nothing"
  <2>1. (CHOOSE s \in Sessions : TRUE) \in Sessions
    BY ChatAssumption
  <2>2. \A s \in Sessions : sessions[s] = NoSession /\ log[s] = <<>>
    BY DEF ChatInit
  <2>3. \A r \in Requests : req[r].step = "new" /\ told[r] = "nothing"
    BY <2>1, NewRequestType DEF ChatInit
  <2>4. NoSession.state = "absent"
    BY DEF NoSession
  <2>5. DOMAIN <<>> = {}
    OBVIOUS
  <2>. QED
    BY <2>2, <2>3, <2>4, <2>5, Zenon
<1>3. Homed /\ AnswersFollowQuestions /\ DeletedIsClosed
  BY <1>2 DEF Homed, AnswersFollowQuestions, DeletedIsClosed
<1>4. Tracked /\ DoneMeansStored /\ Admitted /\ Prompted /\ PromptIsConversation
  BY <1>2 DEF Tracked, Streaming, DoneMeansStored, Admitted, Prompted, PromptIsConversation
<1>. QED
  BY <1>1, <1>3, <1>4 DEF ChatInv

(***************************************************************************)
(* What a step does to the requests                                        *)
(***************************************************************************)

\* The steps that may store a question or an answer, acknowledged or not.
Asking(r) == CommitQuestion(r) \/ QuestionFails(r)
Replying(r) == StoreAnswer(r) \/ CommitFails(r)

LEMMA LogGrows ==
    ASSUME ChatTypeOK, [ChatNext]_chatvars
    PROVE  \/ Same
           \/ \E r \in Requests, at \in Nat : Asking(r) /\ Appended(r, Question(r, at))
           \/ \E r \in Requests, at \in Nat :
                 Replying(r) /\ Later(r, at) /\ Appended(r, Answer(r, at))
<1>1. ASSUME NEW r \in Requests, CommitQuestion(r) \/ (QuestionFails(r) /\ ~Same)
      PROVE  \E at \in Nat : Asking(r) /\ Appended(r, Question(r, at))
  BY <1>1, QuestionIsAppended DEF CommitQuestion, QuestionFails, Asking, Same
<1>2. ASSUME NEW r \in Requests, StoreAnswer(r) \/ (CommitFails(r) /\ ~Same)
      PROVE  \E at \in Nat : Replying(r) /\ Later(r, at) /\ Appended(r, Answer(r, at))
  BY <1>2, AnswerIsAppended DEF StoreAnswer, CommitFails, Replying, Same
<1>3. ASSUME NEW s \in Sessions, NEW u \in Users,
             \/ CreateSession(s, u) \/ DeleteSession(s, u)
             \/ \E r \in Requests : SendMessage(r, s, u)
      PROVE  Same
  BY <1>3 DEF CreateSession, DeleteSession, SendMessage, Same
<1>4. ASSUME NEW r \in Requests,
             ReadHistory(r) \/ SendDone(r) \/ StreamErrs(r) \/ FlushFails(r) \/ Abandon(r)
      PROVE  Same
  BY <1>4 DEF ReadHistory, SendDone, StreamErrs, FlushFails, Abandon, Same
<1>5. CASE UNCHANGED chatvars
  BY <1>5 DEF chatvars, Same
<1>. QED
  BY <1>1, <1>2, <1>3, <1>4, <1>5, Zenon DEF ChatNext, HandlerStep

\* A message stays where it is.
LEMMA MessagesStay ==
    ASSUME ChatTypeOK, ChatTypeOK', [ChatNext]_chatvars, NEW s \in Sessions
    PROVE  /\ Len(log[s]) \in Nat /\ Len(log[s]) <= Len(log'[s]) /\ Len(log'[s]) \in Nat
           /\ DOMAIN log[s] = 1 .. Len(log[s]) /\ DOMAIN log'[s] = 1 .. Len(log'[s])
           /\ \A i \in DOMAIN log[s] : i \in DOMAIN log'[s] /\ log'[s][i] = log[s][i]
<1>1. log[s] \in Seq(Message) /\ log'[s] \in Seq(Message)
  BY DEF ChatTypeOK
<1>2. CASE Same
  BY <1>1, <1>2 DEF Same
<1>3. ASSUME NEW r \in Requests, NEW m, Appended(r, m)
      PROVE  log'[s] = log[s] \/ (m \in Message /\ log'[s] = Append(log[s], m))
  BY <1>3 DEF Appended, ChatTypeOK
<1>4. log'[s] = log[s] \/ \E m \in Message : log'[s] = Append(log[s], m)
  BY <1>2, <1>3, LogGrows DEF Same
<1>. QED
  BY <1>1, <1>4, AppendType

\* A message that is new in a session is its last, and is the question or
\* the answer its request has just committed.
LEMMA NewMessage ==
    ASSUME ChatTypeOK, ChatTypeOK', [ChatNext]_chatvars,
           NEW s \in Sessions, NEW i \in DOMAIN log'[s], i \notin DOMAIN log[s]
    PROVE  /\ i = Len(log[s]) + 1 /\ i = Len(log'[s])
           /\ \E r \in Requests :
                 /\ req[r].session = s /\ log'[s][i] \in Message
                 /\ \/ Asking(r) /\ Asks(log'[s][i], r)
                    \/ Replying(r) /\ Answers(log'[s][i], r) /\ Later(r, log'[s][i].at)
<1>1. log[s] \in Seq(Message) /\ log'[s] \in Seq(Message)
  BY DEF ChatTypeOK
<1>2. ~Same
  BY DEF Same
<1>3. ASSUME NEW r \in Requests, NEW m, Appended(r, m)
      PROVE  /\ req[r].session = s /\ m \in Message
             /\ i = Len(log[s]) + 1 /\ i = Len(log'[s]) /\ log'[s][i] = m
  <2>1. req[r].session = s /\ m \in Message /\ log'[s] = Append(log[s], m)
    BY <1>3 DEF Appended, ChatTypeOK
  <2>. QED
    BY <1>1, <2>1, AppendType
<1>4. ASSUME NEW r \in Requests, NEW at \in Nat, Asking(r), Appended(r, Question(r, at))
      PROVE  /\ i = Len(log[s]) + 1 /\ i = Len(log'[s])
             /\ req[r].session = s /\ log'[s][i] \in Message
             /\ Asking(r) /\ Asks(log'[s][i], r)
  BY <1>3, <1>4, Kinds
<1>5. ASSUME NEW r \in Requests, NEW at \in Nat, Replying(r), Later(r, at),
             Appended(r, Answer(r, at))
      PROVE  /\ i = Len(log[s]) + 1 /\ i = Len(log'[s])
             /\ req[r].session = s /\ log'[s][i] \in Message
             /\ Replying(r) /\ Answers(log'[s][i], r) /\ Later(r, log'[s][i].at)
  BY <1>3, <1>5, Kinds
<1>. QED
  BY <1>2, <1>4, <1>5, LogGrows

\* A request only goes forward.
Forward(q) ==
    /\ req[q].step # "new" => /\ req'[q].step # "new"
                              /\ req'[q].session = req[q].session
    /\ req[q].step \in Committed => req'[q].step \in Committed
    /\ req'[q].step \in Streaming => req[q].step \in Streaming \/ CommitQuestion(q)
    /\ req'[q].step = "stream" => req[q].step = "stream" \/ CommitQuestion(q)
    /\ req'[q].step = "stored" => req[q].step = "stored" \/ StoreAnswer(q)
    /\ req[q].step = "over" => req'[q].step = "over"

\* The steps that end the handler.
Ends(r) == \/ SendDone(r) \/ StreamErrs(r) \/ Abandon(r) \/ QuestionFails(r)
           \/ FlushFails(r) \/ CommitFails(r)

LEMMA EndsIsEnd ==
    ASSUME NEW r \in Requests, Ends(r)
    PROVE  req' = [req EXCEPT ![r] = Ended(@)] /\ req[r].step \notin {"new", "over"}
BY DEF Ends, SendDone, StreamErrs, Abandon, QuestionFails, FlushFails, CommitFails,
       AnswerRefused

LEMMA RequestsGoForward ==
    ASSUME ChatTypeOK, [ChatNext]_chatvars, NEW q \in Requests
    PROVE  Forward(q)
<1>0. req[q] \in Request /\ req \in [Requests -> Request]
  BY DEF ChatTypeOK
<1> USE DEF Committed, Streaming
<1>1. ASSUME NEW s \in Sessions, NEW u \in Users, CreateSession(s, u) \/ DeleteSession(s, u)
      PROVE  Forward(q)
  BY <1>1 DEF CreateSession, DeleteSession, Forward
<1>2. ASSUME NEW s \in Sessions, NEW u \in Users, NEW r \in Requests, SendMessage(r, s, u)
      PROVE  Forward(q)
  <2>1. CASE q = r
    <3>1. req[q].step = "new"
      BY <1>2, <2>1 DEF SendMessage
    <3>2. req'[q].step \in {"found", "over"}
      BY <1>0, <1>2, <2>1 DEF SendMessage, At, Ended
    <3>. QED
      BY <3>1, <3>2 DEF Forward
  <2>2. CASE q # r
    BY <1>0, <1>2, <2>2 DEF SendMessage, Forward
  <2>. QED
    BY <2>1, <2>2
<1>3. ASSUME NEW r \in Requests, ReadHistory(r)
      PROVE  Forward(q)
  <2>1. CASE q = r
    BY <1>0, <1>3, <2>1 DEF ReadHistory, Forward, Request
  <2>2. CASE q # r
    BY <1>0, <1>3, <2>2 DEF ReadHistory, Forward
  <2>. QED
    BY <2>1, <2>2
<1>4. ASSUME NEW r \in Requests, CommitQuestion(r)
      PROVE  Forward(q)
  <2>1. CASE q = r
    <3>1. /\ req[q].step = "read" /\ req'[q].step = "stream"
          /\ req'[q].session = req[q].session
      BY <1>0, <1>4, <2>1, SteppedType DEF CommitQuestion, Steps
    <3>. QED
      BY <1>4, <2>1, <3>1 DEF Forward
  <2>2. CASE q # r
    BY <1>0, <1>4, <2>2 DEF CommitQuestion, Forward
  <2>. QED
    BY <2>1, <2>2
<1>5. ASSUME NEW r \in Requests, StoreAnswer(r)
      PROVE  Forward(q)
  <2>1. CASE q = r
    <3>1. /\ req[q].step = "stream" /\ req'[q].step = "stored"
          /\ req'[q].session = req[q].session
      BY <1>0, <1>5, <2>1, SteppedType DEF StoreAnswer, Steps
    <3>. QED
      BY <1>5, <2>1, <3>1 DEF Forward
  <2>2. CASE q # r
    BY <1>0, <1>5, <2>2 DEF StoreAnswer, Forward
  <2>. QED
    BY <2>1, <2>2
<1>6. ASSUME NEW r \in Requests, Ends(r)
      PROVE  Forward(q)
  BY <1>0, <1>6, EndsIsEnd, EndedType DEF Forward
<1>7. CASE UNCHANGED chatvars
  BY <1>7 DEF chatvars, Forward
<1>. QED
  BY <1>1, <1>2, <1>3, <1>4, <1>5, <1>6, <1>7, Zenon DEF ChatNext, HandlerStep, Ends

\* What a request was told changes with the end of its handler.
Tells(q) ==
    \/ told'[q] = told[q]
    \/ told'[q] \in {"nothing", "not_found", "refused", "cut", "left"}
    \/ SendDone(q) /\ told'[q] = "done"
    \/ StreamErrs(q) /\ told'[q] = "error"
    \/ CommitFails(q) /\ told'[q] = "error" /\ q \in broken'

LEMMA ToldAtTheEnd ==
    ASSUME ChatTypeOK, [ChatNext]_chatvars, NEW q \in Requests
    PROVE  Tells(q) /\ (q \in broken => q \in broken')
<1>. DEFINE Goal == Tells(q) /\ (q \in broken => q \in broken')
<1>. USE DEF Tells, chathistory
<1>1. ASSUME NEW s \in Sessions, NEW u \in Users, CreateSession(s, u) \/ DeleteSession(s, u)
      PROVE  Goal
  BY <1>1 DEF CreateSession, DeleteSession
<1>2. ASSUME NEW s \in Sessions, NEW u \in Users, NEW r \in Requests, SendMessage(r, s, u)
      PROVE  Goal
  BY <1>2 DEF SendMessage, ChatTypeOK
<1>3. ASSUME NEW r \in Requests, ReadHistory(r) \/ CommitQuestion(r) \/ StoreAnswer(r)
      PROVE  Goal
  BY <1>3 DEF ReadHistory, CommitQuestion, StoreAnswer
<1>4. ASSUME NEW r \in Requests, SendDone(r) \/ StreamErrs(r) \/ Abandon(r) \/ QuestionFails(r)
      PROVE  Goal
  BY <1>4 DEF SendDone, StreamErrs, Abandon, QuestionFails, OnError, ChatTypeOK
<1>5. ASSUME NEW r \in Requests, FlushFails(r)
      PROVE  Goal
  BY <1>5 DEF FlushFails, AnswerRefused, ChatTypeOK
<1>6. ASSUME NEW r \in Requests, CommitFails(r)
      PROVE  Goal
  <2>1. PICK end \in {"error", "cut"} : AnswerRefused(r, end)
    BY <1>6 DEF CommitFails, OnError
  <2>2. /\ told' = [told EXCEPT ![r] = end] /\ broken' = broken \cup {r}
        /\ told \in [Requests -> {"nothing", "not_found", "refused", "done", "error", "cut",
                                  "left"}]
    BY <2>1 DEF AnswerRefused, ChatTypeOK
  <2>3. CASE q = r
    BY <1>6, <2>1, <2>2, <2>3
  <2>4. CASE q # r
    BY <2>2, <2>4
  <2>. QED
    BY <2>3, <2>4
<1>7. CASE UNCHANGED chatvars
  BY <1>7 DEF chatvars
<1>. QED
  BY <1>1, <1>2, <1>3, <1>4, <1>5, <1>6, <1>7, Zenon DEF ChatNext, HandlerStep

\* The steps around the two commits.
LEMMA Commits ==
    ASSUME ChatTypeOK, NEW r \in Requests
    PROVE  /\ CommitQuestion(r) => req[r].step = "read" /\ req'[r].step = "stream"
           /\ StoreAnswer(r) => req[r].step = "stream" /\ req'[r].step = "stored"
           /\ SendDone(r) => req[r].step = "stored" /\ req'[r].step = "over" /\ Same
           /\ StreamErrs(r) => req[r].step = "stream" /\ req'[r].step = "over" /\ Same
           /\ CommitFails(r) => req[r].step = "stream" /\ req'[r].step = "over"
           /\ QuestionFails(r) => /\ req[r].step \in {"found", "read"}
                                  /\ req'[r].step = "over"
                                  /\ req[r].step = "found" => Same
<1>1. req[r] \in Request /\ req \in [Requests -> Request]
  BY DEF ChatTypeOK
<1>2. ASSUME CommitQuestion(r) PROVE req[r].step = "read" /\ req'[r].step = "stream"
  BY <1>1, <1>2, SteppedType DEF CommitQuestion, Steps
<1>3. ASSUME StoreAnswer(r)
      PROVE  req[r].step = "stream" /\ req'[r].step = "stored"
  BY <1>1, <1>3, SteppedType DEF StoreAnswer, Steps
<1>4. ASSUME SendDone(r) PROVE req[r].step = "stored" /\ req'[r].step = "over" /\ Same
  BY <1>1, <1>4, EndedType DEF SendDone, Same
<1>5. ASSUME StreamErrs(r)
      PROVE  req[r].step = "stream" /\ req'[r].step = "over" /\ Same
  BY <1>1, <1>5, EndedType DEF StreamErrs, Same
<1>6. ASSUME CommitFails(r)
      PROVE  req[r].step = "stream" /\ req'[r].step = "over"
  BY <1>1, <1>6, EndedType DEF CommitFails, AnswerRefused
<1>7. ASSUME QuestionFails(r)
      PROVE  /\ req[r].step \in {"found", "read"} /\ req'[r].step = "over"
             /\ req[r].step = "found" => Same
  BY <1>1, <1>7, EndedType DEF QuestionFails, Same
<1>. QED
  BY <1>2, <1>3, <1>4, <1>5, <1>6, <1>7

(***************************************************************************)
(* The messages                                                            *)
(***************************************************************************)
LEMMA HomedStep ==
    ASSUME ChatTypeOK, ChatTypeOK', Homed, [ChatNext]_chatvars
    PROVE  Homed'
<1> SUFFICES ASSUME NEW s \in Sessions, NEW i \in DOMAIN log'[s]
             PROVE  /\ log'[s][i] \in Message
                    /\ req'[log'[s][i].of].session = s
                    /\ req'[log'[s][i].of].step \in Committed
  BY DEF Homed
<1>1. CASE i \in DOMAIN log[s]
  <2>1. log'[s][i] = log[s][i] /\ log[s][i] \in Message
    BY <1>1, MessagesStay DEF Homed
  <2>2. PICK r \in Requests : r = log[s][i].of
    BY <2>1 DEF Message
  <2>3. req[r].session = s /\ req[r].step \in Committed
    BY <1>1, <2>2 DEF Homed
  <2>4. req'[r].session = s /\ req'[r].step \in Committed
    BY <2>3, RequestsGoForward DEF Forward, Committed
  <2>. QED
    BY <2>1, <2>2, <2>4
<1>2. CASE i \notin DOMAIN log[s]
  <2>1. PICK r \in Requests :
           /\ req[r].session = s /\ log'[s][i] \in Message
           /\ \/ Asking(r) /\ Asks(log'[s][i], r)
              \/ Replying(r) /\ Answers(log'[s][i], r) /\ Later(r, log'[s][i].at)
    BY <1>2, NewMessage
  <2>2. log'[s][i].of = r
    BY <2>1 DEF Asks, Answers
  <2>3. req[r].step # "new" /\ req'[r].step \in Committed
    BY <2>1, Commits DEF Asking, Replying, Committed
  <2>4. req'[r].session = s
    BY <2>1, <2>3, RequestsGoForward DEF Forward
  <2>. QED
    BY <2>1, <2>2, <2>3, <2>4
<1>. QED
  BY <1>1, <1>2

\* No message of a request is there before it commits its question.
LEMMA NotYetAsked ==
    ASSUME ChatTypeOK, Homed, NEW r \in Requests, req[r].step \notin Committed,
           NEW s \in Sessions, NEW i \in DOMAIN log[s]
    PROVE  log[s][i].of # r
BY DEF Homed

\* Storing an answer finds its question, and no answer yet.
LEMMA OrderStep ==
    ASSUME ChatInv, ChatTypeOK', [ChatNext]_chatvars
    PROVE  AnswersFollowQuestions'
<1>0. ChatTypeOK /\ Homed /\ Tracked /\ AnswersFollowQuestions
  BY DEF ChatInv
<1> SUFFICES ASSUME NEW s \in Sessions, NEW i \in DOMAIN log'[s]
             PROVE  /\ \A j \in DOMAIN log'[s] :
                          log'[s][j].role = log'[s][i].role /\ log'[s][j].of = log'[s][i].of
                             => i = j
                    /\ log'[s][i].role = "assistant" =>
                          \E j \in 1 .. i - 1 : /\ Asks(log'[s][j], log'[s][i].of)
                                                /\ log'[s][j].at < log'[s][i].at
  BY DEF AnswersFollowQuestions
\* A message that is added is not there yet.
<1>1. ASSUME NEW n \in DOMAIN log'[s], n \notin DOMAIN log[s], NEW j \in DOMAIN log[s],
             log'[s][n].role = log[s][j].role, log'[s][n].of = log[s][j].of
      PROVE  FALSE
  <2>1. PICK r \in Requests :
           /\ req[r].session = s /\ log'[s][n] \in Message
           /\ \/ Asking(r) /\ Asks(log'[s][n], r)
              \/ Replying(r) /\ Answers(log'[s][n], r) /\ Later(r, log'[s][n].at)
    BY <1>0, <1>1, NewMessage
  <2>2. CASE Asking(r) /\ Asks(log'[s][n], r)
    <3>1. req[r].step \notin Committed
      BY <1>0, <2>2, Commits DEF Asking, Committed
    <3>2. log[s][j].of # r
      BY <1>0, <3>1, NotYetAsked
    <3>. QED
      BY <1>1, <2>2, <3>2 DEF Asks
  <2>3. CASE Replying(r) /\ Answers(log'[s][n], r)
    <3>1. req[r].step = "stream"
      BY <1>0, <2>3, Commits DEF Replying
    <3>2. ~HasAnswer(log[s], r)
      BY <1>0, <2>1, <3>1 DEF Tracked, Log
    <3>. QED
      BY <1>1, <2>3, <3>2 DEF HasAnswer, Answers
  <2>. QED
    BY <2>1, <2>2, <2>3
<1>2. ASSUME NEW j \in DOMAIN log'[s],
             log'[s][j].role = log'[s][i].role, log'[s][j].of = log'[s][i].of
      PROVE  i = j
  <2>1. CASE i \in DOMAIN log[s] /\ j \in DOMAIN log[s]
    BY <1>0, <1>2, <2>1, MessagesStay DEF AnswersFollowQuestions
  <2>2. CASE i \notin DOMAIN log[s] /\ j \notin DOMAIN log[s]
    BY <1>0, <2>2, NewMessage
  <2>3. CASE i \in DOMAIN log[s] /\ j \notin DOMAIN log[s]
    BY <1>0, <1>1, <1>2, <2>3, MessagesStay
  <2>4. CASE i \notin DOMAIN log[s] /\ j \in DOMAIN log[s]
    BY <1>0, <1>1, <1>2, <2>4, MessagesStay
  <2>. QED
    BY <2>1, <2>2, <2>3, <2>4
<1>3. ASSUME log'[s][i].role = "assistant"
      PROVE  \E j \in 1 .. i - 1 : /\ Asks(log'[s][j], log'[s][i].of)
                                   /\ log'[s][j].at < log'[s][i].at
  <2>1. CASE i \in DOMAIN log[s]
    <3>1. log'[s][i] = log[s][i] /\ i \in 1 .. Len(log[s]) /\ Len(log[s]) \in Nat
      BY <1>0, <2>1, MessagesStay
    <3>2. PICK j \in 1 .. i - 1 : /\ Asks(log[s][j], log[s][i].of)
                                  /\ log[s][j].at < log[s][i].at
      BY <1>0, <1>3, <2>1, <3>1 DEF AnswersFollowQuestions
    <3>3. j \in DOMAIN log[s]
      BY <1>0, <3>1, <3>2, MessagesStay
    <3>4. log'[s][j] = log[s][j]
      BY <1>0, <3>3, MessagesStay
    <3>. QED
      BY <3>1, <3>2, <3>4
  <2>2. CASE i \notin DOMAIN log[s]
    <3>1. PICK r \in Requests :
             /\ req[r].session = s /\ i = Len(log[s]) + 1
             /\ \/ Asking(r) /\ Asks(log'[s][i], r)
                \/ Replying(r) /\ Answers(log'[s][i], r) /\ Later(r, log'[s][i].at)
      BY <1>0, <2>2, NewMessage
    <3>2. Replying(r) /\ log'[s][i].of = r /\ Later(r, log'[s][i].at)
      BY <1>3, <3>1 DEF Asks, Answers
    <3>3. HasQuestion(log[s], r)
      <4>1. req[r].step = "stream"
        BY <1>0, <3>2, Commits DEF Replying
      <4>. QED
        BY <1>0, <3>1, <4>1 DEF Tracked, Streaming, Log
    <3>4. PICK j \in DOMAIN log[s] : Asks(log[s][j], r)
      BY <3>3 DEF HasQuestion
    <3>5. log[s][j].at < log'[s][i].at
      BY <3>1, <3>2, <3>4 DEF Later, Rows, Log
    <3>6. log'[s][j] = log[s][j] /\ j \in 1 .. Len(log[s]) /\ Len(log[s]) \in Nat
      BY <1>0, <3>4, MessagesStay
    <3>. QED
      BY <3>1, <3>2, <3>4, <3>5, <3>6
  <2>. QED
    BY <2>1, <2>2
<1>. QED
  BY <1>2, <1>3

(***************************************************************************)
(* What is stored and what is told                                         *)
(***************************************************************************)

\* What a session has, it keeps, and it gets an answer only from a step that
\* stores one.
LEMMA HasStep ==
    ASSUME ChatTypeOK, ChatTypeOK', [ChatNext]_chatvars,
           NEW s \in Sessions, NEW r \in Requests
    PROVE  /\ HasQuestion(log[s], r) => HasQuestion(log'[s], r)
           /\ HasAnswer(log[s], r) => HasAnswer(log'[s], r)
           /\ HasAnswer(log'[s], r) =>
                 HasAnswer(log[s], r) \/ (Replying(r) /\ req[r].session = s)
<1>1. HasQuestion(log[s], r) => HasQuestion(log'[s], r)
  BY MessagesStay DEF HasQuestion
<1>2. HasAnswer(log[s], r) => HasAnswer(log'[s], r)
  BY MessagesStay DEF HasAnswer
<1>3. ASSUME HasAnswer(log'[s], r), ~HasAnswer(log[s], r)
      PROVE  Replying(r) /\ req[r].session = s
  <2>1. PICK i \in DOMAIN log'[s] : Answers(log'[s][i], r)
    BY <1>3 DEF HasAnswer
  <2>2. i \notin DOMAIN log[s]
    BY <1>3, <2>1, MessagesStay DEF HasAnswer
  <2>3. PICK q \in Requests :
           /\ req[q].session = s /\ log'[s][i] \in Message
           /\ \/ Asking(q) /\ Asks(log'[s][i], q)
              \/ Replying(q) /\ Answers(log'[s][i], q) /\ Later(q, log'[s][i].at)
    BY <2>2, NewMessage
  <2>. QED
    BY <2>1, <2>3, OneKind
<1>. QED
  BY <1>1, <1>2, <1>3

\* What the two commits add is there afterwards.
LEMMA CommitsAdd ==
    ASSUME ChatTypeOK, ChatTypeOK', NEW r \in Requests
    PROVE  /\ CommitQuestion(r) => HasQuestion(log'[req[r].session], r)
           /\ StoreAnswer(r) => HasAnswer(log'[req[r].session], r)
<1>. DEFINE s == req[r].session
<1>1. s \in Sessions /\ log[s] \in Seq(Message)
  BY DEF ChatTypeOK, Request
<1>2. ASSUME NEW m, Appended(r, m)
      PROVE  Len(log[s]) + 1 \in DOMAIN log'[s] /\ log'[s][Len(log[s]) + 1] = m
  <2>1. log'[s] = Append(log[s], m) /\ m \in Message
    BY <1>1, <1>2 DEF ChatTypeOK, Appended
  <2>. QED
    BY <1>1, <2>1, AppendType
<1>3. ASSUME CommitQuestion(r) PROVE HasQuestion(log'[s], r)
  <2>1. PICK at \in Nat : Appended(r, Question(r, at))
    BY <1>3, QuestionIsAppended DEF CommitQuestion
  <2>. QED
    BY <1>2, <2>1, Kinds DEF HasQuestion
<1>4. ASSUME StoreAnswer(r) PROVE HasAnswer(log'[s], r)
  <2>1. PICK at \in Nat : Appended(r, Answer(r, at))
    BY <1>4, AnswerIsAppended DEF StoreAnswer
  <2>. QED
    BY <1>2, <2>1, Kinds DEF HasAnswer
<1>. QED
  BY <1>3, <1>4

LEMMA TrackedStep ==
    ASSUME ChatInv, ChatTypeOK', [ChatNext]_chatvars
    PROVE  Tracked' /\ DoneMeansStored'
<1>0. ChatTypeOK /\ Homed /\ Tracked /\ DoneMeansStored
  BY DEF ChatInv
<1> SUFFICES ASSUME NEW r \in Requests
             PROVE  /\ req'[r].step \in Streaming => HasQuestion(Log(r)', r)
                    /\ req'[r].step = "stream" => ~HasAnswer(Log(r)', r)
                    /\ req'[r].step = "stored" => HasAnswer(Log(r)', r)
                    /\ told'[r] \in {"done", "error"} => req'[r].step = "over"
                    /\ told'[r] = "done" => HasAnswer(Log(r)', r)
                    /\ told'[r] = "error" => ~HasAnswer(Log(r)', r) \/ r \in broken'
  BY DEF Tracked, DoneMeansStored, HasQuestion, HasAnswer, Log, Rows
<1>. DEFINE s == req[r].session
<1>1. /\ req[r] \in Request /\ s \in Sessions /\ Log(r) = log[s]
      /\ req[r].step # "new" => Log(r)' = log'[s]
  BY <1>0, RequestsGoForward DEF ChatTypeOK, Request, Forward, Log
<1>2. Forward(r) /\ Tells(r) /\ (r \in broken => r \in broken')
  BY <1>0, RequestsGoForward, ToldAtTheEnd
<1>3. /\ told[r] = "done" => HasAnswer(log[s], r)
      /\ told[r] = "error" => ~HasAnswer(log[s], r) \/ r \in broken
  BY <1>0, <1>1 DEF DoneMeansStored, HasAnswer, Rows
<1>4. CASE CommitQuestion(r)
  <2>1. req[r].step = "read" /\ req'[r].step = "stream" /\ Log(r)' = log'[s]
    BY <1>0, <1>1, <1>4, Commits
  <2>2. HasQuestion(log'[s], r)
    BY <1>0, <1>4, CommitsAdd
  <2>3. ~HasAnswer(log[s], r)
    BY <1>0, <1>1, <2>1, NotYetAsked DEF HasAnswer, Answers, Committed
  <2>4. ~Replying(r)
    BY <1>0, <2>1, Commits DEF Replying
  <2>5. ~HasAnswer(log'[s], r)
    BY <1>0, <1>1, <2>3, <2>4, HasStep
  <2>6. told'[r] = told[r] /\ told[r] \notin {"done", "error"}
    BY <1>0, <1>4, <2>1 DEF CommitQuestion, Tracked
  <2>. QED
    BY <2>1, <2>2, <2>5, <2>6 DEF Streaming
<1>5. CASE StoreAnswer(r)
  <2>1. req[r].step = "stream" /\ req'[r].step = "stored" /\ Log(r)' = log'[s]
    BY <1>0, <1>1, <1>5, Commits
  <2>2. HasAnswer(log'[s], r)
    BY <1>0, <1>5, CommitsAdd
  <2>3. HasQuestion(log'[s], r)
    BY <1>0, <1>1, <2>1, HasStep DEF Tracked, Streaming
  <2>4. told'[r] = told[r] /\ told[r] \notin {"done", "error"}
    BY <1>0, <1>5, <2>1 DEF StoreAnswer, Tracked
  <2>. QED
    BY <2>1, <2>2, <2>3, <2>4
<1>6. CASE ~CommitQuestion(r) /\ ~StoreAnswer(r)
  <2>1. ASSUME req'[r].step \in Streaming
        PROVE  /\ HasQuestion(Log(r)', r)
               /\ req'[r].step = "stream" => ~HasAnswer(Log(r)', r)
               /\ req'[r].step = "stored" => HasAnswer(Log(r)', r)
    <3>1. /\ req[r].step \in Streaming /\ Log(r)' = log'[s]
          /\ req'[r].step = "stream" => req[r].step = "stream"
          /\ req'[r].step = "stored" => req[r].step = "stored"
      BY <1>1, <1>2, <1>6, <2>1 DEF Forward, Streaming
    <3>2. ~Replying(r)
      BY <1>0, <1>6, <2>1, Commits DEF Replying, Streaming
    <3>. QED
      BY <1>0, <1>1, <3>1, <3>2, HasStep DEF Tracked
  <2>2. ASSUME told'[r] \in {"done", "error"}
        PROVE  /\ req[r].step # "new" /\ req'[r].step = "over"
               /\ told'[r] = "done" => HasAnswer(log'[s], r)
               /\ told'[r] = "error" => ~HasAnswer(log'[s], r) \/ r \in broken'
    <3>1. CASE told'[r] = told[r]
      <4>1. req[r].step = "over"
        BY <1>0, <2>2, <3>1 DEF Tracked
      <4>2. ~Replying(r)
        BY <1>0, <4>1, Commits DEF Replying
      <4>3. HasAnswer(log'[s], r) <=> HasAnswer(log[s], r)
        BY <1>0, <1>1, <4>2, HasStep
      <4>. QED
        BY <1>2, <1>3, <2>2, <3>1, <4>1, <4>3 DEF Forward
    <3>2. CASE SendDone(r) /\ told'[r] = "done"
      <4>1. req[r].step = "stored" /\ req'[r].step = "over" /\ Same
        BY <1>0, <3>2, Commits
      <4>. QED
        BY <1>0, <1>1, <3>2, <4>1 DEF Tracked, Same
    <3>3. CASE StreamErrs(r) /\ told'[r] = "error"
      <4>1. req[r].step = "stream" /\ req'[r].step = "over" /\ Same
        BY <1>0, <3>3, Commits
      <4>. QED
        BY <1>0, <1>1, <3>3, <4>1 DEF Tracked, Same
    <3>4. CASE CommitFails(r) /\ told'[r] = "error" /\ r \in broken'
      BY <1>0, <3>4, Commits
    <3>. QED
      BY <1>2, <2>2, <3>1, <3>2, <3>3, <3>4 DEF Tells
  <2>. QED
    BY <1>1, <2>1, <2>2 DEF Streaming
<1>. QED
  BY <1>4, <1>5, <1>6

(***************************************************************************)
(* Deleted sessions                                                        *)
(***************************************************************************)

\* A session that is deleted was deleted before, or is deleted by this step,
\* which records everyone who had found it.
LEMMA DeletedStep ==
    ASSUME ChatTypeOK, [ChatNext]_chatvars,
           NEW s \in Sessions, sessions'[s].state = "deleted"
    PROVE  \/ sessions[s].state = "deleted" /\ inTime'[s] = inTime[s]
           \/ /\ inTime'[s] = {r \in Requests : req[r].session = s /\ req[r].step # "new"}
              /\ Same /\ req' = req
<1>1. ASSUME NEW t \in Sessions, NEW u \in Users, CreateSession(t, u)
      PROVE  sessions[s].state = "deleted" /\ inTime'[s] = inTime[s]
  BY <1>1 DEF CreateSession, ChatTypeOK, chathistory
<1>2. ASSUME NEW t \in Sessions, NEW u \in Users, DeleteSession(t, u)
      PROVE  \/ sessions[s].state = "deleted" /\ inTime'[s] = inTime[s]
             \/ /\ inTime'[s] = {r \in Requests : req[r].session = s /\ req[r].step # "new"}
                /\ Same /\ req' = req
  BY <1>2 DEF DeleteSession, ChatTypeOK, Same
<1>3. ASSUME UNCHANGED <<sessions, inTime>>
      PROVE  sessions[s].state = "deleted" /\ inTime'[s] = inTime[s]
  BY <1>3
<1>4. ASSUME NEW t \in Sessions, NEW u \in Users, NEW r \in Requests, SendMessage(r, t, u)
      PROVE  UNCHANGED <<sessions, inTime>>
  BY <1>4 DEF SendMessage, chathistory
<1>5. ASSUME NEW r \in Requests, HandlerStep(r) \/ Abandon(r)
      PROVE  UNCHANGED <<sessions, inTime>>
  BY <1>5 DEF HandlerStep, ReadHistory, CommitQuestion, QuestionFails, StoreAnswer, SendDone,
              StreamErrs, FlushFails, CommitFails, AnswerRefused, Abandon, chathistory
<1>6. CASE UNCHANGED chatvars
  BY <1>3, <1>6 DEF chatvars
<1>. QED
  BY <1>1, <1>2, <1>3, <1>4, <1>5, <1>6, Zenon DEF ChatNext

\* Nobody finds a deleted session.
LEMMA DeletedIsNotFound ==
    ASSUME ChatTypeOK, [ChatNext]_chatvars, NEW r \in Requests,
           NEW s \in Sessions, sessions[s].state = "deleted",
           req'[r].session = s, req'[r].step \notin {"new", "over"}
    PROVE  req[r].session = s /\ req[r].step \notin {"new", "over"}
<1>1. req[r] \in Request /\ req \in [Requests -> Request]
  BY DEF ChatTypeOK
<1>2. ASSUME NEW t \in Sessions, NEW u \in Users, NEW q \in Requests, SendMessage(q, t, u),
             q = r
      PROVE  FALSE
  <2>1. CASE Owned(t, u)
    <3>1. req'[r].session = t
      BY <1>1, <1>2, <2>1 DEF SendMessage, At
    <3>. QED
      BY <2>1, <3>1 DEF Owned
  <2>2. CASE ~Owned(t, u)
    BY <1>1, <1>2, <2>2 DEF SendMessage, Ended, At
  <2>. QED
    BY <2>1, <2>2
<1>3. CASE req[r].step # "new"
  BY <1>3, RequestsGoForward DEF Forward
<1>4. CASE req[r].step = "new"
  <2>1. ASSUME req'[r] = req[r] PROVE FALSE
    BY <1>4, <2>1
  <2>2. ASSUME NEW t \in Sessions, NEW u \in Users, CreateSession(t, u) \/ DeleteSession(t, u)
        PROVE  req'[r] = req[r]
    BY <2>2 DEF CreateSession, DeleteSession
  <2>3. ASSUME NEW t \in Sessions, NEW u \in Users, NEW q \in Requests, SendMessage(q, t, u)
        PROVE  req'[r] = req[r] \/ q = r
    BY <1>1, <2>3 DEF SendMessage
  <2>4. ASSUME NEW q \in Requests, ReadHistory(q) \/ CommitQuestion(q) \/ StoreAnswer(q)
        PROVE  req'[r] = req[r]
    <3>1. q # r
      BY <1>4, <2>4 DEF ReadHistory, CommitQuestion, StoreAnswer
    <3>. QED
      BY <1>1, <2>4, <3>1 DEF ReadHistory, CommitQuestion, StoreAnswer
  <2>5. ASSUME NEW q \in Requests, Ends(q)
        PROVE  req'[r] = req[r]
    BY <1>1, <1>4, <2>5, EndsIsEnd
  <2>6. CASE UNCHANGED chatvars
    BY <2>1, <2>6 DEF chatvars
  <2>. QED
    BY <1>2, <2>1, <2>2, <2>3, <2>4, <2>5, <2>6, Zenon DEF ChatNext, HandlerStep, Ends
<1>. QED
  BY <1>3, <1>4

LEMMA AdmittedStep ==
    ASSUME ChatInv, ChatTypeOK', [ChatNext]_chatvars
    PROVE  Admitted' /\ DeletedIsClosed'
<1>0. ChatTypeOK /\ Homed /\ Admitted /\ DeletedIsClosed
  BY DEF ChatInv
<1> SUFFICES ASSUME NEW s \in Sessions, sessions'[s].state = "deleted"
             PROVE  /\ \A r \in Requests :
                          req'[r].session = s /\ req'[r].step \notin {"new", "over"}
                             => r \in inTime'[s]
                    /\ \A i \in DOMAIN log'[s] : log'[s][i].of \in inTime'[s]
  BY DEF Admitted, DeletedIsClosed
<1>1. CASE sessions[s].state = "deleted" /\ inTime'[s] = inTime[s]
  <2>1. ASSUME NEW r \in Requests, req'[r].session = s, req'[r].step \notin {"new", "over"}
        PROVE  r \in inTime'[s]
    BY <1>0, <1>1, <2>1, DeletedIsNotFound DEF Admitted
  <2>2. ASSUME NEW i \in DOMAIN log'[s] PROVE log'[s][i].of \in inTime'[s]
    <3>1. CASE i \in DOMAIN log[s]
      BY <1>0, <1>1, <3>1, MessagesStay DEF DeletedIsClosed
    <3>2. CASE i \notin DOMAIN log[s]
      <4>1. PICK r \in Requests :
               /\ req[r].session = s /\ log'[s][i] \in Message
               /\ \/ Asking(r) /\ Asks(log'[s][i], r)
                  \/ Replying(r) /\ Answers(log'[s][i], r) /\ Later(r, log'[s][i].at)
        BY <1>0, <3>2, NewMessage
      <4>2. req[r].step \notin {"new", "over"}
        BY <1>0, <4>1, Commits DEF Asking, Replying
      <4>3. r \in inTime[s]
        BY <1>0, <1>1, <4>1, <4>2 DEF Admitted
      <4>. QED
        BY <1>1, <4>1, <4>3 DEF Asks, Answers
    <3>. QED
      BY <3>1, <3>2
  <2>. QED
    BY <2>1, <2>2
<1>2. CASE /\ inTime'[s] = {r \in Requests : req[r].session = s /\ req[r].step # "new"}
           /\ Same /\ req' = req
  <2>1. ASSUME NEW i \in DOMAIN log[s] PROVE log[s][i].of \in inTime'[s]
    <3>1. PICK r \in Requests : r = log[s][i].of
      BY <1>0 DEF Homed, Message
    <3>. QED
      BY <1>0, <1>2, <3>1 DEF Homed, Committed
  <2>. QED
    BY <1>2, <2>1 DEF Same
<1>. QED
  BY <1>0, <1>1, <1>2, DeletedStep

(***************************************************************************)
(* The history                                                             *)
(***************************************************************************)
Kept(q) == /\ req'[q].session = req[q].session
           /\ req'[q].history = req[q].history
           /\ req'[q].since = req[q].since

\* Where a request at work comes from, and what it still has from there.
Remembers(q) ==
    /\ req'[q].step = "found" =>
          \/ req[q].step = "found" /\ Kept(q)
          \/ req'[q].since = Len(log[req'[q].session])
    /\ req'[q].step = "read" =>
          \/ req[q].step = "read" /\ Kept(q)
          \/ /\ req[q].step = "found" /\ Same
             /\ req'[q].session = req[q].session /\ req'[q].since = req[q].since
             /\ req'[q].history = Recent(Rows(Log(q)))
    /\ req'[q].step \in Streaming =>
          /\ Kept(q)
          /\ req[q].step \in Streaming \/ CommitQuestion(q)

LEMMA RequestsRemember ==
    ASSUME ChatTypeOK, [ChatNext]_chatvars, NEW q \in Requests
    PROVE  Remembers(q)
<1>0. req[q] \in Request /\ req \in [Requests -> Request]
  BY DEF ChatTypeOK
<1>1. ASSUME req'[q] = req[q] PROVE Remembers(q)
  BY <1>1 DEF Remembers, Kept
<1>2. ASSUME NEW s \in Sessions, NEW u \in Users, CreateSession(s, u) \/ DeleteSession(s, u)
      PROVE  Remembers(q)
  BY <1>1, <1>2 DEF CreateSession, DeleteSession
<1>3. ASSUME NEW s \in Sessions, NEW u \in Users, NEW r \in Requests, SendMessage(r, s, u)
      PROVE  Remembers(q)
  <2>1. CASE q = r /\ Owned(s, u)
    <3>1. /\ req'[q].step = "found" /\ req'[q].session = s
          /\ req'[q].since = Len(log[s])
      BY <1>0, <1>3, <2>1 DEF SendMessage, At
    <3>. QED
      BY <3>1 DEF Remembers, Streaming
  <2>2. CASE q = r /\ ~Owned(s, u)
    <3>1. req'[q].step = "over"
      BY <1>0, <1>3, <2>2 DEF SendMessage, Ended, At
    <3>. QED
      BY <3>1 DEF Remembers, Streaming
  <2>3. CASE q # r
    BY <1>0, <1>1, <1>3, <2>3 DEF SendMessage
  <2>. QED
    BY <2>1, <2>2, <2>3
<1>4. ASSUME NEW r \in Requests, ReadHistory(r)
      PROVE  Remembers(q)
  <2>1. CASE q = r
    <3>1. Recent(Rows(Log(q))) \in SUBSET Message
      BY <1>0, RecentType DEF Log, ChatTypeOK, Request
    <3>2. /\ req[q].step = "found" /\ Same
          /\ req'[q] = [req[q] EXCEPT !.step = "read", !.history = Recent(Rows(Log(q)))]
      BY <1>0, <1>4, <2>1 DEF ReadHistory, Same
    <3>3. PICK h \in SUBSET Message : h = Recent(Rows(Log(q)))
      BY <3>1
    <3>4. PICK t : t = [req[q] EXCEPT !.step = "read", !.history = h]
      OBVIOUS
    <3>5. /\ req'[q].step = "read"
          /\ req'[q].session = req[q].session /\ req'[q].since = req[q].since
          /\ req'[q].history = h
      <4>1. req'[q] = t
        BY <3>2, <3>3, <3>4
      <4>2. PICK p \in Request : p = req[q]
        BY <1>0
      <4>3. t = [p EXCEPT !.step = "read", !.history = h]
        BY <3>4, <4>2
      <4>4. t.step = "read" /\ t.session = p.session /\ t.since = p.since /\ t.history = h
        BY <4>3 DEF Request
      <4>. QED
        BY <4>1, <4>2, <4>4
    <3>6. req'[q].history = Recent(Rows(Log(q)))
      BY <3>3, <3>5
    <3>7. req'[q].step # "found" /\ req'[q].step \notin Streaming
      BY <3>5 DEF Streaming
    <3>8. req[q].step = "found" /\ Same
      BY <3>2
    <3>. QED
      BY <3>5, <3>6, <3>7, <3>8, Zenon DEF Remembers
  <2>2. CASE q # r
    BY <1>0, <1>1, <1>4, <2>2 DEF ReadHistory
  <2>. QED
    BY <2>1, <2>2
<1>5. ASSUME NEW r \in Requests, NEW step \in Streaming,
             req' = [req EXCEPT ![r].step = step],
             req[r].step \in Streaming \/ CommitQuestion(r)
      PROVE  Remembers(q)
  <2>1. CASE q = r
    <3>1. req'[q].step \in Streaming /\ Kept(q)
      BY <1>0, <1>5, <2>1, SteppedType DEF Streaming, Steps, Kept
    <3>. QED
      BY <1>5, <2>1, <3>1 DEF Remembers, Streaming
  <2>2. CASE q # r
    BY <1>0, <1>1, <1>5, <2>2
  <2>. QED
    BY <2>1, <2>2
<1>6. ASSUME NEW r \in Requests, CommitQuestion(r) \/ StoreAnswer(r)
      PROVE  Remembers(q)
  BY <1>5, <1>6 DEF CommitQuestion, StoreAnswer, Streaming
<1>7. ASSUME NEW r \in Requests, Ends(r)
      PROVE  Remembers(q)
  <2>1. CASE q = r
    <3>1. req'[q].step = "over"
      BY <1>0, <1>7, <2>1, EndsIsEnd, EndedType
    <3>. QED
      BY <3>1 DEF Remembers, Streaming
  <2>2. CASE q # r
    BY <1>0, <1>1, <1>7, <2>2, EndsIsEnd
  <2>. QED
    BY <2>1, <2>2
<1>8. CASE UNCHANGED chatvars
  BY <1>1, <1>8 DEF chatvars
<1>. QED
  BY <1>2, <1>3, <1>4, <1>6, <1>7, <1>8, Zenon DEF ChatNext, HandlerStep, Ends

\* What could be seen at one moment does not change later.
LEMMA FirstKept ==
    ASSUME ChatTypeOK, ChatTypeOK', [ChatNext]_chatvars,
           NEW s \in Sessions, NEW k \in 0 .. Len(log[s])
    PROVE  First(log'[s], k) = First(log[s], k)
<1>1. \A i \in 1 .. k : i \in DOMAIN log[s]
  BY MessagesStay
<1>2. \A i \in 1 .. k : log'[s][i] = log[s][i]
  BY <1>1, MessagesStay
<1>. QED
  BY <1>2 DEF First

LEMMA PromptedStep ==
    ASSUME ChatInv, ChatTypeOK', [ChatNext]_chatvars
    PROVE  Prompted' /\ PromptIsConversation'
<1>0. ChatTypeOK /\ Homed /\ Prompted /\ PromptIsConversation
  BY DEF ChatInv
<1> SUFFICES ASSUME NEW r \in Requests
             PROVE  /\ req'[r].step \in {"found", "read"} => req'[r].since <= Len(Log(r)')
                    /\ req'[r].step = "read" =>
                          \E k \in req'[r].since .. Len(Log(r)') :
                             req'[r].history = Recent(First(Log(r)', k))
                    /\ req'[r].step \in Streaming =>
                          \E k \in req'[r].since .. Len(Log(r)') :
                             /\ req'[r].history = Recent(First(Log(r)', k))
                             /\ \A j \in DOMAIN Log(r)' : Asks(Log(r)'[j], r) => k < j
  BY DEF Prompted, PromptIsConversation, Shown, First, Streaming
<1>. DEFINE s == req[r].session
            t == req'[r].session
<1>1. /\ s \in Sessions /\ Log(r) = log[s] /\ t \in Sessions /\ Log(r)' = log'[t]
      /\ req[r].since \in Nat /\ req'[r].since \in Nat
  BY <1>0 DEF ChatTypeOK, Request, Log
<1>2. Remembers(r)
  BY <1>0, RequestsRemember
<1>3. \A z \in Sessions : /\ Len(log[z]) \in Nat /\ Len(log'[z]) \in Nat
                          /\ Len(log[z]) <= Len(log'[z])
  BY <1>0, MessagesStay
<1>. HIDE DEF s, t
<1>4. CASE req'[r].step = "found"
  <2>1. CASE req[r].step = "found" /\ Kept(r)
    <3>1. t = s /\ req'[r].since = req[r].since
      BY <2>1 DEF Kept, s, t
    <3>2. req[r].since <= Len(log[s])
      BY <1>0, <1>1, <2>1 DEF Prompted
    <3>. QED
      BY <1>1, <1>3, <1>4, <3>1, <3>2 DEF Streaming
  <2>2. CASE req'[r].since = Len(log[t])
    BY <1>1, <1>3, <1>4, <2>2 DEF Streaming
  <2>. QED
    BY <1>2, <1>4, <2>1, <2>2 DEF Remembers, t
<1>5. CASE req'[r].step = "read"
  <2>1. CASE req[r].step = "read" /\ Kept(r)
    <3>1. t = s /\ req'[r].since = req[r].since /\ req'[r].history = req[r].history
      BY <2>1 DEF Kept, s, t
    <3>2. req[r].since <= Len(log[s])
      BY <1>0, <1>1, <2>1 DEF Prompted
    <3>3. PICK k \in req[r].since .. Len(log[s]) : req[r].history = Recent(First(log[s], k))
      BY <1>0, <1>1, <2>1 DEF Prompted, Shown
    <3>4. k \in 0 .. Len(log[s]) /\ k \in req[r].since .. Len(log'[s])
      BY <1>1, <1>3
    <3>5. req'[r].history = Recent(First(log'[s], k))
      BY <1>0, <1>1, <3>1, <3>3, <3>4, FirstKept
    <3>6. req[r].since <= Len(log'[s])
      BY <1>1, <1>3, <3>2
    <3>. QED
      BY <1>1, <1>5, <3>1, <3>4, <3>5, <3>6 DEF Streaming
  <2>2. CASE /\ req[r].step = "found" /\ Same
             /\ req'[r].session = req[r].session /\ req'[r].since = req[r].since
             /\ req'[r].history = Recent(Rows(Log(r)))
    <3>1. t = s /\ req'[r].since = req[r].since /\ log'[s] = log[s]
      BY <2>2 DEF s, t, Same
    <3>2. req[r].since <= Len(log[s])
      BY <1>0, <1>1, <2>2 DEF Prompted
    <3>3. req'[r].history = Recent(First(log[s], Len(log[s])))
      <4>1. DOMAIN log[s] = 1 .. Len(log[s])
        BY <1>0, <1>1, MessagesStay
      <4>2. Rows(log[s]) = First(log[s], Len(log[s]))
        BY <4>1 DEF Rows, First
      <4>. QED
        BY <1>1, <2>2, <4>2
    <3>4. Len(log[s]) \in req[r].since .. Len(log[s])
      BY <1>1, <1>3, <3>2
    <3>. QED
      BY <1>1, <1>5, <3>1, <3>2, <3>3, <3>4 DEF Streaming
  <2>. QED
    BY <1>2, <1>5, <2>1, <2>2 DEF Remembers
<1>6. CASE req'[r].step \in Streaming
  <2>1. t = s /\ req'[r].since = req[r].since /\ req'[r].history = req[r].history
    BY <1>2, <1>6 DEF Remembers, Kept, s, t
  <2>2. PICK k \in req[r].since .. Len(log[s]) :
           /\ req[r].history = Recent(First(log[s], k))
           /\ \A j \in DOMAIN log[s] : Asks(log[s][j], r) => k < j
    <3>1. CASE req[r].step \in Streaming
      BY <1>0, <1>1, <3>1 DEF PromptIsConversation, First, Streaming
    <3>2. CASE CommitQuestion(r)
      <4>1. req[r].step = "read"
        BY <1>0, <3>2, Commits
      <4>2. PICK k \in req[r].since .. Len(log[s]) :
               req[r].history = Recent(First(log[s], k))
        BY <1>0, <1>1, <4>1 DEF Prompted, Shown
      <4>3. \A j \in DOMAIN log[s] : ~Asks(log[s][j], r)
        BY <1>0, <1>1, <4>1, NotYetAsked DEF Committed, Asks
      <4>. QED
        BY <4>2, <4>3
    <3>. QED
      BY <1>2, <1>6, <3>1, <3>2 DEF Remembers
  <2>3. k \in 0 .. Len(log[s]) /\ k \in req[r].since .. Len(log'[s])
    BY <1>1, <1>3
  <2>4. req'[r].history = Recent(First(log'[s], k))
    BY <1>0, <1>1, <2>1, <2>2, <2>3, FirstKept
  <2>5. ASSUME NEW j \in DOMAIN log'[s], Asks(log'[s][j], r) PROVE k < j
    <3>1. CASE j \in DOMAIN log[s]
      BY <1>0, <1>1, <2>2, <2>5, <3>1, MessagesStay
    <3>2. CASE j \notin DOMAIN log[s]
      <4>1. j = Len(log[s]) + 1
        BY <1>0, <1>1, <3>2, NewMessage
      <4>. QED
        BY <1>3, <2>3, <4>1, <1>1
    <3>. QED
      BY <3>1, <3>2
  <2>. QED
    BY <1>1, <1>6, <2>1, <2>3, <2>4, <2>5 DEF Streaming
<1>. QED
  BY <1>4, <1>5, <1>6

(***************************************************************************)
(* Theorems                                                                *)
(***************************************************************************)
LEMMA ChatInvStep == ChatInv /\ [ChatNext]_chatvars => ChatInv'
<1> SUFFICES ASSUME ChatInv, [ChatNext]_chatvars PROVE ChatInv'
  OBVIOUS
<1>1. ChatTypeOK'
  BY ChatTypeStep DEF ChatInv
<1>. QED
  BY <1>1, HomedStep, OrderStep, TrackedStep, AdmittedStep, PromptedStep DEF ChatInv

\* The inductive invariant: where the messages of each request are, what it
\* has stored and told, and which conversation it has read (src/api/chat.py).
THEOREM ChatSound == ChatSpec => []ChatInv
<1>. QED
  BY ChatInvInit, ChatInvStep, PTL DEF ChatSpec

\* However many questions, clients and deletions there are, an answer comes
\* after its question in the same session, and nothing is stored twice.
THEOREM AnswersInOrder == ChatSpec => []AnswersFollowQuestions
<1>1. ChatInv => AnswersFollowQuestions
  BY DEF ChatInv
<1>. QED
  BY <1>1, ChatSound, PTL

\* For every window and all clocks, what the model is shown is the end of
\* what could be seen of the conversation at one moment between the arrival
\* and the commit of the question.
THEOREM PromptIsOneMoment == ChatSpec => []PromptIsConversation
<1>1. ChatInv => PromptIsConversation
  BY DEF ChatInv
<1>. QED
  BY <1>1, ChatSound, PTL

\* What a client was told of the end of the stream is what the table says,
\* but for an error of the commit itself.
THEOREM ToldIsStored == ChatSpec => []DoneMeansStored
<1>1. ChatInv => DoneMeansStored
  BY DEF ChatInv
<1>. QED
  BY <1>1, ChatSound, PTL

\* A deleted session gets nothing from a request that came after.
THEOREM ClosedByDeletion == ChatSpec => []DeletedIsClosed
<1>1. ChatInv => DeletedIsClosed
  BY DEF ChatInv
<1>. QED
  BY <1>1, ChatSound, PTL
=============================================================================
