SPECIFICATION Spec
CONSTANTS
    PlayerCounts = {2, 24, 25}
    NameLengths = {1, 20}
    Runs = {1, 24}
    Lengths = {0, 5, 9, 14, 600, 995, 996, 999}
    WordSize = 1000
    MaxDamages = 1
INVARIANTS
    TypeOK
    AsManyAsFit
    DecodedAsSent
    NumbersMeanTheSame
    OnlySoundMessages
CHECK_DEADLOCK FALSE
