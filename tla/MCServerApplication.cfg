CONSTANTS
  Faults = {"fork", "freopen", "path", "chdir", "initialize", "main"}
  MainCodes = {0, 64, 70, 71, 78}
SPECIFICATION FairSpec
CHECK_DEADLOCK FALSE
INVARIANTS
  ReturnTells
  KilledUnprotected
PROPERTY
  RequestServed
