SPECIFICATION SendSpec
CONSTANTS
  c1 = c1
  t1 = t1
  t2 = t2
  s1 = s1
  s2 = s2
  NoChat = NoChat
  NoTurn = NoTurn
  Chats <- MCChats
  Turns <- MCTurns
  Senders <- MCSenders
  Settings <- SavedSettings
  ReserveTokens = {1}
  ReserveCosts = {1}
  UsageTokens = {1}
  UsageCosts = {1}
  TokenLimits = {2}
  CostLimits = {2}
  OldTurns = {}
  MaxSequence = 2
INVARIANTS
  RowsWereSent
SYMMETRY Symmetry
