SPECIFICATION FairSpec
CONSTANTS
    Game = {1, 2}
    LogLength = 3
    Uninitialised = {0, 2}
    Token = {"LEFT_KEY_DOWN", "newline"}
    MaxTokens = 3
INVARIANTS
    TypeOK
    AsksForFirstMissing
    LinesAreNamed
    OutputIntact
    LinesCounted
PROPERTIES
    KeepsGuiFeed
    ToldIsShown
CHECK_DEADLOCK FALSE
