SPECIFICATION Spec
CONSTANTS
    Fingerprint = {f1, f2}
    InitialGameIds = {0}
    Name = {1, 2, 3}
    Session = {1, 2}
    NextExpected = {0}
    Width = 2
    Height = 1
    MaxPlayers = 2
    MaxGames = 1
SYMMETRY FingerprintSymmetry
INVARIANTS
    NoOrphanQueues
    WatchersHaveQueues
CHECK_DEADLOCK FALSE
