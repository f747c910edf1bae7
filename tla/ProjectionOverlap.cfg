SPECIFICATION FairSpec
CONSTANTS
    NoRequest = none
    NoSeed = noseed
    EmptyEval = e0
    Requests = {r1, r2}
    Evals = {e0}
    Kinds = {"det"}
    Seeds = {}
    OwnModels = {FALSE}
    WriteInstants = {0, 5}
    MaxWrites = 1
    MaxCrashes = 1
    Overlap = TRUE
    LoseMarks = TRUE
    Years = 2
 
PROPERTIES EveryRequestEnds
