SPECIFICATION ServerSpec
CONSTANTS
    Fingerprint = {f1, f2}
    InitialGameIds = {0}
    Name = {1, 2}
    Session = {1}
    NextExpected = {0, 1}
    Width = 2
    Height = 1
    MaxPlayers = 2
    MaxGames = 2
SYMMETRY FingerprintSymmetry
VIEW WithoutKind
INVARIANTS
    QueuesAreAddressed
    GamesInOrder
    PixelsTakenOnce
    QueuesConsistent
CHECK_DEADLOCK FALSE
