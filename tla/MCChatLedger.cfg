SPECIFICATION Spec
CONSTANTS
  c1 = c1
  c2 = c2
  t1 = t1
  t2 = t2
  NoChat = NoChat
  Chats <- MCChats
  Turns <- MCTurns
  ReserveTokens = {2}
  ReserveCosts = {1}
  UsageTokens = {3}
  UsageCosts = {1}
  TokenLimits = {3, 5}
  CostLimits = {2}
  OldTurns <- MCOldTurns
  MaxSequence = 2
INVARIANTS
  LedgerInv
  ChargedOnce
  JournalTells
PROPERTIES
  SettledAttemptsKept
  ImplementsEscrow
SYMMETRY Symmetry
