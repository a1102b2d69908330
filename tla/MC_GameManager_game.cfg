SPECIFICATION Spec
CONSTANTS
    Fingerprint = {f1, f2}
    InitialGameIds = {0}
    Name = {1, 2, 3}
    Session = {1}
    NextExpected = {0}
    Width = 2
    Height = 1
    MaxPlayers = 3
    MaxGames = 1
SYMMETRY FingerprintSymmetry
INVARIANTS
    TypeOK
    AliveCounted
    WormsAreNumbered
    LogIsAGame
    SilentAfterElimination
    NoMissedStart
CHECK_DEADLOCK FALSE
