SPECIFICATION Spec
CONSTANTS
    Fingerprint = {f1, f2}
    InitialGameIds = {0}
    Name = {1, 2}
    Session = {1, 2}
    NextExpected = {0}
    Width = 2
    Height = 1
    MaxPlayers = 3
    MaxGames = 1
INVARIANTS
    NothingUndefined
CHECK_DEADLOCK FALSE
