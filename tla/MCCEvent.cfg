CONSTANTS
  Threads = {t1, t2, t3, t4}
  MaxSets = 3
SPECIFICATION FairSpec
INVARIANTS
  NoLostWakeup
  OneWaitPerSet
PROPERTIES
  TryWaitReturns
  SetReleases
