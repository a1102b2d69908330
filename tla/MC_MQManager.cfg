SPECIFICATION FairSpec
CONSTANTS
    Fingerprint = {f1, f2, f3}
    InitialGameIds = {0, 1}
    MaxGames = 2
    MaxEvents = 2
    MaxCalls = 3
INVARIANTS
    TypeOK
    QueuesConsistent
    GetNextMessageEnds
    ServedWaitBehind
PROPERTIES
    NoOvertaking
    KeepsFeed
    BehindIsServed
CHECK_DEADLOCK FALSE
