SPECIFICATION FairSyncSpec
CONSTANTS
    f1 = f1  f2 = f2  w1 = w1  r1 = r1  r2 = r2  p1 = p1  p2 = p2
    NoDoc = NoDoc  NoPod = NoPod
    Docs = {f1}
    Uploads = {}
    Indexers = {w1}
    Events = {"crash", "overlap"}
    MaxVersion <- Writes
    MaxReindex = 0
    Runs = {r1, r2}
    Pods = {p1}
    SyncEvents = {"delete", "double", "restore", "configure", "unconfigure"}
    MaxPush <- PushesOfOne
CHECK_DEADLOCK FALSE
INVARIANT ActiveIsInIndex
PROPERTY EveryRunEnds
