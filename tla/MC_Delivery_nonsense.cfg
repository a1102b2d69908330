SPECIFICATION Spec
CONSTANTS
    Fingerprint = {f1}
    Uninitialised = {0, 2}
    MaxGames = 1
    GameLength = 3
    Capacity = 2
    Requests = 2
    MaxFaults = 1
INVARIANTS
    EndsOnlyForNonsense
CHECK_DEADLOCK FALSE
