SPECIFICATION SyncSpec
CONSTANTS
    f1 = f1  f2 = f2  w1 = w1  r1 = r1  r2 = r2  p1 = p1  p2 = p2
    NoDoc = NoDoc  NoPod = NoPod
    Docs = {f1, f2}
    Uploads = {}
    Indexers = {}
    Events = {"crash"}
    MaxVersion <- Writes
    MaxReindex = 0
    Runs = {r1, r2}
    Pods = {p1, p2}
    SyncEvents = {"delete", "unreachable", "refused"}
    MaxPush <- Pushes
CHECK_DEADLOCK FALSE
SYMMETRY RunsAndPods
INVARIANT SyncTypeOK
INVARIANT OneSyncAtATime
PROPERTY SuccessMirrorsRepo
PROPERTY OutcomeIsFinal
