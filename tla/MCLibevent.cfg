CONSTANTS
  c1 = c1
  c2 = c2
  Clients <- MCClients
  MaxBytes <- MCMaxBytes
  MaxFds = 2
  ReadLen = 2
  ReadMax = 3
  SndBuf = 1
  Faults = {"setup", "nomem", "reset"}
SPECIFICATION FairSpec
CHECK_DEADLOCK FALSE
INVARIANTS
  ServedUntilHangup
  AnswersEarned
PROPERTIES
  InterruptEnds
  Greeted
  HangupSeen
