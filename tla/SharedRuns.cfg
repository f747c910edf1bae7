SPECIFICATION RunsFairSpec
CONSTANTS
    NoRun = none
    Keys = {ka}
    Streams = {s1, s2}
    Runs = {r1, r2}
    Buffer = 2
    MaxProgress = 3
CHECK_DEADLOCK FALSE
INVARIANTS StreamsFaithful OnlyFullChannelsMiss
PROPERTIES RunsAndStreamsEnd
