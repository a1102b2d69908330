SPECIFICATION FairSpec
CONSTANTS
    Fingerprint = {f1}
    Uninitialised = {0}
    MaxGames = 2
    GameLength = 3
    Capacity = 2
    Requests = 1
    MaxFaults = 1
INVARIANTS
    TypeOK
    ToldAsPlayed
PROPERTIES
    KeepsBroadcast
    EverybodyIsTold
CHECK_DEADLOCK FALSE
