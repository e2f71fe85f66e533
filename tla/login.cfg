SPECIFICATION FairLoginSpec
CONSTANTS
    Sessions = {s1, s2}
    Requests = {r1, r2}
    NoSession = NoSession
    Threshold = 2
    LockTicks = 2
    SessionTicks = 2
    MaxAge = 1
CHECK_DEADLOCK FALSE
INVARIANT LockFollowsStreak
INVARIANT NoSessionSurvivesRevocation
PROPERTY RevokedIsFinal
PROPERTY LockEnds
