SPECIFICATION Spec
CONSTANTS
    Chats = {a, b, n}
    Stored = {a, b}
    None = None
    Slots <- MCSlots
    Budgets <- MCBudgets
INVARIANT DialogAnswers
CHECK_DEADLOCK FALSE
SYMMETRY MCSymmetry
