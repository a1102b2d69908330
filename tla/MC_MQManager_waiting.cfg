SPECIFICATION FairSpec
CONSTANTS
  Fingerprint = {f1, f2}
  InitialGameIds = {0, 1}
  MaxGames = 2
  MaxEvents = 2
  MaxCalls = 2
PROPERTIES
  WaitingGameIsBroadcast
CHECK_DEADLOCK FALSE
