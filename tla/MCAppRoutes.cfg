SPECIFICATION FairSpec
CONSTANT Budgets <- MCBudgets
INVARIANTS
  RoutesSound
PROPERTIES
  OldStaysQuiet
  SealEnds
CHECK_DEADLOCK FALSE
