SPECIFICATION Spec
CONSTANTS
    CommandLines <- MCCommandLines
    Numbers = {0, 1, 6, 91, 250, 251, 262, 263, 65535, 67557, 2147483647}
    Repeated = {"t", "n"}
    Readings = {0, 970000000, 979999999, 980000000, 980000001, 999999999}
    MaxAddresses = 2
    MaxGames = 3
    DrawsPerGame = {7, 10, 76}
    MaxUint32 = 2147483647
    Modulus = 263
    Multiplier = 4
    WordSize = 300
INVARIANTS
    TypeOK
    RunsAsTold
    NoDescriptorIsLost
    RefusedOnWholeSecond
    GamesAreToldApart
CHECK_DEADLOCK FALSE
