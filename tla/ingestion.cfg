SPECIFICATION Spec
CONSTANTS
    d1 = d1  d2 = d2  b1 = b1
    w1 = w1  w2 = w2  r1 = r1  r2 = r2
    p1 = p1  p2 = p2
    NoDoc = NoDoc
    Docs = {d1}
    Batches = {b1}
    BatchOf <- OneBatchOneDoc
    Pods = {p1, p2}
    Workers = {w1, w2}
    Requests = {r1, r2}
    PodOf <- TwoPods
    Faults = {"crash", "overrun", "commit_error"}
    MaxSessions = 3
    MaxEntries = 2
    MaxCrashes = 1
CHECK_DEADLOCK FALSE
INVARIANT CompletedHasContent
INVARIANT OnlyClearedIsProcessed
INVARIANT OneWorkerPerEntry
INVARIANT SourceOutlivesItsUse
PROPERTY PublishesWhatItLoaded
PROPERTY FollowsLifecycle
