SPECIFICATION FairSpec
CONSTANTS
    Nil = nil
    Keys = {k1, k2}
    Receipts = {ra}
    Uploads = {u1, u2}
    Collectors = {c1, c2}
    Readers = {x1}
    MaxReads = 2
    MaxBlobRevision = 2
    MaxStops = 1
CHECK_DEADLOCK FALSE
INVARIANTS BytesAccounted NoBrokenRead
PROPERTIES Reclaimed
