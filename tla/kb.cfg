SPECIFICATION FairKBSpec
CONSTANTS
    f1 = f1  u1 = u1  w1 = w1  w2 = w2
    NoDoc = NoDoc
    Docs = {f1, u1}
    Uploads = {u1}
    Indexers = {w1, w2}
    Events = {"crash", "embed_error", "overlap", "reindex"}
    MaxVersion <- Writes
    MaxReindex = 1
    MaxTokens = 5
    OverlapTokens = 2
    MaxChars = 20
    Lengths = {1, 4, 7, 11, 30}
    MaxParagraphs = 5
    MaxRetries = 3
CHECK_DEADLOCK FALSE
INVARIANT OneChunkSet
INVARIANT ServedIsCurrent
INVARIANT ServedIsActive
PROPERTY EveryQueuedSettles
