SPECIFICATION Spec
CONSTANTS
    NoRequest = none
    NoSeed = noseed
    EmptyEval = e0
    Requests = {r1}
    Evals = {e0, e1}
    Kinds = {"det", "stoch"}
    Seeds = {s1, s2}
    OwnModels = {FALSE}
    WriteInstants = {5, 7}
    MaxWrites = 2
    MaxCrashes = 1
    Overlap = FALSE
    LoseMarks = FALSE
    Years = 2
SYMMETRY RequestSymmetry
INVARIANTS
    
    StochFindsManifest
