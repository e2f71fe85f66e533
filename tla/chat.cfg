SPECIFICATION FairChatSpec
CONSTANTS
    Users = {u1}
    Sessions = {s1}
    MaxRequests = 3
    Window = 2
    Clocks <- ClockOfSecond
CHECK_DEADLOCK FALSE
INVARIANT AnswersFollowQuestions
INVARIANT PromptIsConversation
INVARIANT DoneMeansStored
INVARIANT DeletedIsClosed
PROPERTY ClientIsTold
