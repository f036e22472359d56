SPECIFICATION PinSpec
CONSTANTS
    Limit = 3
    LockSeconds = 3
    Horizon = 8
    Budgets <- MCBudgets
INVARIANTS
  GuessesBounded
  LockExact
CHECK_DEADLOCK FALSE
