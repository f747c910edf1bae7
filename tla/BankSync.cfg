SPECIFICATION Spec
CONSTANTS
    Charge <- Charges
    Key <- Keys
    authKey <- AuthKeys
    postKey <- PostKeys
    authAmount <- AuthAmounts
    postAmount <- PostAmounts
    AutoConvert = {1, 2}
    Tolerance = 2
    EnabledInputs = {TRUE}
    MaxAttempts = 2
    Generations = 2
    None = none
INVARIANTS PostedOnce
PROPERTIES SyncKeepsToTheFeed LifecycleSpec SingleFlight
