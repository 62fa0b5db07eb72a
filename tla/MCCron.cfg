SPECIFICATION FairSpec
CONSTANTS
  f1 = f1
  f2 = f2
  t1 = t1
  t2 = t2
  c1 = c1
  c2 = c2
  Firms = {f1, f2}
  Tasks = {t1, t2}
  Clients = {c1}
  FirmOf <- MCFirmOf
  CreatedAt <- MCCreatedAt
  DueAt <- MCDueAt
  FiresAt <- MCFiresAt
  Cooldown = 0
  ChaseCap = 1
  Horizon = 2
  MaxFaults = 1
  None = None
INVARIANTS
  TypeOK
  CooldownUnlessUnsaved
  SilenceIsEarned
  FirmsAreIsolated
PROPERTIES
  RunsEnd
CHECK_DEADLOCK FALSE
