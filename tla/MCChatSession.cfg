SPECIFICATION Spec
CONSTANTS
    Chats = {a, b, n}
    Stored = {a, b}
    None = None
    Slots <- MCSlots
    Budgets <- MCBudgets
INVARIANTS SessionsApart WorkspaceHonest
CHECK_DEADLOCK FALSE
SYMMETRY MCSymmetry
