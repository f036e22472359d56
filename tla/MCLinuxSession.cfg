SPECIFICATION FairSpec
CONSTANTS
  s1 = s1
  nemo = nemo
  l1 = l1
  l2 = l2
  NoOwner = NoOwner
  Screens <- MCScreens
  Logins <- MCLogins
  Genuine <- MCGenuine
  Contracted <- MCContracted
  Budgets <- MCBudgets
  SerialSpace = 24
  FirstSerial = 20
INVARIANTS
  ContextSound
  EventsSeal
  LockEvidence
PROPERTIES
  MonitoringReturns
CHECK_DEADLOCK FALSE
