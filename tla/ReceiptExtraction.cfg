SPECIFICATION Spec
CONSTANTS
    None = none
    Digests = {d1, d2}
    Sources = {s1, s2}
    Extractors = {x1, x2}
    Reviewers = {v1}
    Slots = 1
    MaxAttempts = 2
    Timeout = 1
    Lease = 3
    SaveDelay = 1
    MaxClock = 4
    MaxRevision = 4
    MaxCrashes = 1
SYMMETRY Symmetry
CHECK_DEADLOCK FALSE
INVARIANTS ExtractionOfImage OneCallPerImage
PROPERTIES WritesStayCurrent
