SPECIFICATION Spec
CONSTANT Budgets <- MCBudgets
PROPERTY OldNeverOpens
CHECK_DEADLOCK FALSE
