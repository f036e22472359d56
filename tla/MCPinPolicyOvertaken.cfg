SPECIFICATION PinSpec
CONSTANTS
    Limit = 3
    LockSeconds = 3
    Horizon = 8
    Budgets <- MCBudgets
INVARIANT LockIsServed
CHECK_DEADLOCK FALSE
