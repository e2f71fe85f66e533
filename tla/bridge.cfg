SPECIFICATION BridgeSpec
CONSTANTS
    ra = ra  rb = rb  t1 = t1  t2 = t2 

    Nothing = Nothing
    Conns = {c1, c2}
    Repos = {ra, rb}
    Tokens = {t1, t2}
    MayPush <- PushAccess
    Folders = {fa, fb}
    DefaultFolders = {fa}
    Already = {}
    Requests = {r1, r2}
    MaxWork = 3
SYMMETRY Interchangeable
CHECK_DEADLOCK FALSE
INVARIANT OneActiveConnection
INVARIANT CreatedOnce
INVARIANT ConfigIsWhatWasAsked
PROPERTY LinkIsKept
