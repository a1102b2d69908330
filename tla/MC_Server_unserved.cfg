SPECIFICATION ServerSpec
CONSTANTS
    Fingerprint = {f1, f2}
    InitialGameIds = {0}
    Name = {1, 2}
    Session = {1}
    NextExpected = {0, 1}
    Width = 2
    Height = 1
    MaxPlayers = 2
    MaxGames = 2
INVARIANTS
    ConnectedAreServed
CHECK_DEADLOCK FALSE
