SPECIFICATION MigrationFairSpec
CONSTANTS
    Temps = {1, 2, 3, 4, 5, 6, 7}
    Budgets <- MCBudgets
INVARIANTS
  CrashSafe
PROPERTIES
  MigrationEnds
CHECK_DEADLOCK FALSE
