-------------------------- MODULE ChatLedgerProofs --------------------------
(***************************************************************************)
(* Theorems about ChatLedger and about MessageSending, which extends it,   *)
(* for any senders, chats, turns, amounts and limits.  Three parts.        *)
(*                                                                         *)
(* The ledger: the turns, the requests and the budgets agree.              *)
(*                                                                         *)
(* What the ledger remembers: every final outcome is charged once, the     *)
(* journal follows the turns, and the rows of settled attempts are kept.   *)
(*                                                                         *)
(* The senders: a sender that waits owns the turn it will settle, money    *)
(* that may have been spent stays held, no request leaves after its        *)
(* permission is gone, and no turn or journal row is left unaccounted for. *)
(* Whatever the senders do, the ledger moves by its own transactions only, *)
(* so that the invariants of the first two parts are invariants there too. *)
(* On top of them lies what the code keeps in the tasks: the lock of a     *)
(* chat, the lease of a session, and how far each call has come.           *)
(***************************************************************************)
EXTENDS MessageSending, TLAPS, FiniteSetTheorems, WellFoundedInduction

-----------------------------------------------------------------------------
(* The ledger.                                                             *)

\* _calculate_state ignores the stored state, so writing its result back is
\* idempotent: a recomputed budget is current.
LEMMA WithStateIsCurrent ==
  ASSUME NEW m, NEW b \in Budget, NEW u \in BOOLEAN
  PROVE  /\ WithState(m, b, u) \in Budget
         /\ WithState(m, b, u).state = CalculateState(m, WithState(m, b, u), u)
         /\ WithState(m, b, u).configured = b.configured
         /\ WithState(m, b, u).tokenLimit = b.tokenLimit
         /\ WithState(m, b, u).costLimit = b.costLimit
         /\ WithState(m, b, u).used = b.used
         /\ WithState(m, b, u).spent = b.spent
         /\ WithState(m, b, u).reserved = b.reserved
         /\ WithState(m, b, u).costReserved = b.costReserved
<1> DEFINE s == CalculateState(m, b, u)
           w == [b EXCEPT !.state = s]
<1>1. s \in States
  BY DEF CalculateState, States
<1>2. WithState(m, b, u) = w
  BY DEF WithState
<1>3. /\ w \in Budget
      /\ w.state = s
      /\ w.configured = b.configured
      /\ w.tokenLimit = b.tokenLimit
      /\ w.costLimit = b.costLimit
      /\ w.used = b.used
      /\ w.spent = b.spent
      /\ w.reserved = b.reserved
      /\ w.costReserved = b.costReserved
  <2> HIDE DEF s
  <2> QED
    BY <1>1 DEF Budget
<1>4. CalculateState(m, w, u) = s
  <2> HIDE DEF w
  <2> QED
    BY <1>3 DEF CalculateState
<1> QED
  BY <1>2, <1>3, <1>4

-----------------------------------------------------------------------------
\* What every accounting transaction has in common: it rewrites turn t of chat
\* c and the budget of c, leaves no other turn of c open, and makes the budget
\* match the new row.
LocalOK(m, row, b) ==
  LET open == row.accounting \in {"reserved", "unknown"}
  IN /\ row.accounting # "none"
     /\ open => row.tokens > 0
     /\ row.message = row.status
     /\ row.reply = "sent" <=> row.status = "sent"
     /\ row.status = "pending" <=> row.accounting = "reserved"
     /\ row.status = "sent" => row.accounting = "final"
     /\ b.configured <=> b.tokenLimit # 0
     /\ m = "paid" /\ b.configured => b.costLimit # 0
     /\ b.reserved = IF open THEN row.tokens ELSE 0
     /\ b.costReserved = IF open THEN row.reservedCost ELSE 0
     /\ open => b.used + b.reserved <= b.tokenLimit
     /\ open /\ m = "paid" => b.spent + b.costReserved <= b.costLimit
     /\ b.state = CalculateState(m, b, row.accounting = "unknown")

\* A transaction that writes one turn and the budget of its chat keeps the
\* invariant if the pair it leaves is in order and no other turn of the chat
\* waits.
LEMMA OneTurnStep ==
  ASSUME LedgerInv,
         NEW t \in Turns, NEW c \in Chats, NEW row \in Turn, NEW b \in Budget,
         mode' = mode,
         turns' = [turns EXCEPT ![t] = row],
         budgets' = [budgets EXCEPT ![c] = b],
         mode[c] # "none",
         row.chat = c,
         turns[t].chat \in {NoChat, c},
         \A u \in Turns \ {t} : turns[u].chat = c =>
            turns[u].accounting \notin {"reserved", "unknown"},
         LocalOK(mode[c], row, b)
  PROVE  LedgerInv'
<1>1. /\ mode' \in [Chats -> Modes \cup {"none"}]
      /\ budgets' \in [Chats -> Budget]
      /\ turns' \in [Turns -> Turn]
  BY DEF LedgerInv
<1>2. /\ \A d \in Chats : budgets'[d] = IF d = c THEN b ELSE budgets[d]
      /\ \A u \in Turns : turns'[u] = IF u = t THEN row ELSE turns[u]
  BY DEF LedgerInv
<1>a. c # NoChat
  BY LedgerAssumption
<1>3. RowsOK'
  BY <1>2, <1>a DEF LedgerInv, RowsOK, LocalOK
<1>4. BudgetsOK'
  BY <1>2 DEF LedgerInv, BudgetsOK, LocalOK
<1>5. \A d \in Chats : d # c => Open(d)' = Open(d)
  BY <1>2, <1>a, LedgerAssumption DEF Open, TurnsOf
<1>6. Open(c)' = IF row.accounting \in {"reserved", "unknown"} THEN {t} ELSE {}
  BY <1>2 DEF Open, TurnsOf
<1>7. ReservationBacked'
  <2> SUFFICES ASSUME NEW d \in Chats
               PROVE  /\ \A v, u \in Open(d)' : v = u
                      /\ Open(d)' = {} => budgets'[d].reserved = 0 /\ budgets'[d].costReserved = 0
                      /\ \A v \in Open(d)' : /\ budgets'[d].reserved = turns'[v].tokens
                                             /\ budgets'[d].costReserved = turns'[v].reservedCost
    BY DEF ReservationBacked
  <2>1. CASE d = c
    BY <2>1, <1>2, <1>6 DEF LocalOK
  <2>2. CASE d # c
    <3>1. \A v \in Open(d) : v \in Turns /\ turns'[v] = turns[v]
      BY <2>2, <1>2, <1>a, LedgerAssumption DEF Open, TurnsOf
    <3> QED
      BY <2>2, <3>1, <1>2, <1>5 DEF LedgerInv, ReservationBacked
  <2> QED
    BY <2>1, <2>2
<1>8. StateIsCurrent'
  <2> SUFFICES ASSUME NEW d \in Chats, mode[d] # "none"
               PROVE  budgets'[d].state =
                        CalculateState(mode[d], budgets'[d],
                          \E u \in TurnsOf(d)' : turns'[u].accounting = "unknown")
    BY DEF StateIsCurrent
  <2>1. CASE d = c
    <3>1. (\E u \in TurnsOf(c)' : turns'[u].accounting = "unknown")
            <=> row.accounting = "unknown"
      BY <1>2 DEF TurnsOf
    <3>2. CASE row.accounting = "unknown"
      BY <2>1, <3>1, <3>2, <1>2 DEF LocalOK, CalculateState
    <3>3. CASE row.accounting # "unknown"
      BY <2>1, <3>1, <3>3, <1>2 DEF LocalOK, CalculateState
    <3> QED
      BY <3>2, <3>3
  <2>2. CASE d # c
    <3>1. TurnsOf(d)' = TurnsOf(d) /\ \A u \in TurnsOf(d) : turns'[u] = turns[u]
      BY <2>2, <1>2, <1>a, LedgerAssumption DEF TurnsOf
    <3>2. (\E u \in TurnsOf(d)' : turns'[u].accounting = "unknown")
            <=> \E u \in TurnsOf(d) : turns[u].accounting = "unknown"
      BY <3>1
    <3>3. budgets'[d] = budgets[d]
      BY <2>2, <1>2
    <3>4. budgets[d].state =
            CalculateState(mode[d], budgets[d],
                           \E u \in TurnsOf(d) : turns[u].accounting = "unknown")
      BY DEF LedgerInv, StateIsCurrent
    <3> QED
      BY <3>2, <3>3, <3>4 DEF CalculateState
  <2> QED
    BY <2>1, <2>2
<1>9. HeldWithinLimits'
  <2> SUFFICES ASSUME NEW d \in Chats, Open(d)' # {}
               PROVE  /\ budgets'[d].used + budgets'[d].reserved <= budgets'[d].tokenLimit
                      /\ mode'[d] = "paid" =>
                           budgets'[d].spent + budgets'[d].costReserved <= budgets'[d].costLimit
    BY DEF HeldWithinLimits
  <2>1. CASE d = c
    BY <2>1, <1>2, <1>6 DEF LocalOK
  <2>2. CASE d # c
    BY <2>2, <1>2, <1>5 DEF LedgerInv, HeldWithinLimits
  <2> QED
    BY <2>1, <2>2
<1>10. MessagesMatchTurns'
  BY <1>2 DEF LedgerInv, MessagesMatchTurns, CarriedOver, LocalOK
<1> QED
  BY <1>1, <1>3, <1>4, <1>7, <1>8, <1>9, <1>10 DEF LedgerInv

\* A transaction on the chat row and the budget of c alone.
LEMMA OneBudgetStep ==
  ASSUME LedgerInv,
         NEW c \in Chats, NEW m \in Modes, NEW b \in Budget,
         turns' = turns,
         mode' = [mode EXCEPT ![c] = m],
         budgets' = [budgets EXCEPT ![c] = b],
         b.reserved = budgets[c].reserved,
         b.costReserved = budgets[c].costReserved,
         b.configured <=> b.tokenLimit # 0,
         m = "paid" /\ b.configured => b.costLimit # 0,
         b.used + b.reserved <= b.tokenLimit \/ Open(c) = {},
         m = "paid" => b.spent + b.costReserved <= b.costLimit \/ Open(c) = {},
         b.state = CalculateState(m, b, \E t \in TurnsOf(c) : turns[t].accounting = "unknown")
  PROVE  LedgerInv'
<1>1. /\ mode' \in [Chats -> Modes \cup {"none"}]
      /\ budgets' \in [Chats -> Budget]
      /\ turns' \in [Turns -> Turn]
  BY DEF LedgerInv
<1>2. \A d \in Chats : /\ budgets'[d] = IF d = c THEN b ELSE budgets[d]
                       /\ mode'[d] = IF d = c THEN m ELSE mode[d]
                       /\ Open(d)' = Open(d)
                       /\ TurnsOf(d)' = TurnsOf(d)
  BY DEF LedgerInv, Open, TurnsOf
<1>a. m # "none"
  BY DEF Modes
<1>3. RowsOK'
  BY <1>2, <1>a DEF LedgerInv, RowsOK
<1>4. BudgetsOK'
  BY <1>2, <1>a DEF LedgerInv, BudgetsOK
<1>5. ReservationBacked'
  BY <1>2 DEF LedgerInv, ReservationBacked
<1>6. StateIsCurrent'
  <2> SUFFICES ASSUME NEW d \in Chats, mode'[d] # "none"
               PROVE  budgets'[d].state =
                        CalculateState(mode'[d], budgets'[d],
                          \E u \in TurnsOf(d) : turns[u].accounting = "unknown")
    BY DEF StateIsCurrent, TurnsOf
  <2>1. CASE d = c
    BY <2>1, <1>2
  <2>2. CASE d # c
    BY <2>2, <1>2 DEF LedgerInv, StateIsCurrent
  <2> QED
    BY <2>1, <2>2
<1>7. HeldWithinLimits'
  <2> SUFFICES ASSUME NEW d \in Chats, Open(d) # {}
               PROVE  /\ budgets'[d].used + budgets'[d].reserved <= budgets'[d].tokenLimit
                      /\ mode'[d] = "paid" =>
                           budgets'[d].spent + budgets'[d].costReserved <= budgets'[d].costLimit
    BY <1>2 DEF HeldWithinLimits
  <2>1. CASE d = c
    BY <2>1, <1>2
  <2>2. CASE d # c
    BY <2>2, <1>2 DEF LedgerInv, HeldWithinLimits
  <2> QED
    BY <2>1, <2>2
<1>8. MessagesMatchTurns'
  BY DEF LedgerInv, MessagesMatchTurns, CarriedOver
<1> QED
  BY <1>1, <1>3, <1>4, <1>5, <1>6, <1>7, <1>8 DEF LedgerInv

\* A new budget is blank and well formed.
LEMMA NewBudgetOK ==
  ASSUME NEW l \in Nat, NEW k \in Nat
  PROVE  /\ NewBudget(l, k) \in Budget
         /\ NewBudget(l, k).reserved = 0
         /\ NewBudget(l, k).costReserved = 0
         /\ NewBudget(l, k).configured <=> NewBudget(l, k).tokenLimit # 0
         /\ NewBudget(l, k).tokenLimit = l
         /\ NewBudget(l, k).costLimit = k
  BY DEF NewBudget, Budget, States

\* ... and its state is current.
LEMMA NewBudgetIsCurrent ==
  ASSUME NEW m \in Modes, NEW l \in Nat, NEW k \in Nat,
         m = "paid" /\ l # 0 => k # 0
  PROVE  NewBudget(l, k).state = CalculateState(m, NewBudget(l, k), FALSE)
<1>1. CASE l = 0
  BY <1>1 DEF NewBudget, CalculateState
<1>2. CASE l # 0 /\ m = "free"
  BY <1>2 DEF NewBudget, CalculateState
<1>3. CASE l # 0 /\ m = "paid" /\ k # 0
  BY <1>3 DEF NewBudget, CalculateState
<1> QED
  BY <1>1, <1>2, <1>3 DEF Modes

\* Creating a chat with limits of its mode keeps the invariant.
LEMMA CreateStep ==
  ASSUME LedgerInv, NEW c \in Chats, NEW m \in Modes, NEW l \in Nat, NEW k \in Nat,
         m = "paid" /\ l # 0 => k # 0,
         mode[c] = "none",
         mode' = [mode EXCEPT ![c] = m],
         budgets' = [budgets EXCEPT ![c] = NewBudget(l, k)],
         turns' = turns
  PROVE  LedgerInv'
<1>1. TurnsOf(c) = {} /\ Open(c) = {}
  BY LedgerAssumption DEF LedgerInv, RowsOK, TurnsOf, Open
<1>2. budgets[c].reserved = 0 /\ budgets[c].costReserved = 0
  BY <1>1 DEF LedgerInv, ReservationBacked
<1>3. NewBudget(l, k).state = CalculateState(m, NewBudget(l, k), FALSE)
  BY NewBudgetIsCurrent
<1>4. NewBudget(l, k).state =
        CalculateState(m, NewBudget(l, k),
                       \E t \in TurnsOf(c) : turns[t].accounting = "unknown")
  BY <1>1, <1>3 DEF CalculateState
<1> DEFINE b == NewBudget(l, k)
<1>5. /\ b \in Budget
      /\ b.reserved = budgets[c].reserved
      /\ b.costReserved = budgets[c].costReserved
      /\ b.configured <=> b.tokenLimit # 0
      /\ b.tokenLimit = l
      /\ b.costLimit = k
  BY <1>2, NewBudgetOK
<1>6. m = "paid" /\ b.configured => b.costLimit # 0
  BY <1>5
<1>7. b.state = CalculateState(m, b, \E t \in TurnsOf(c) : turns[t].accounting = "unknown")
  BY <1>4
<1>8. budgets' = [budgets EXCEPT ![c] = b]
  OBVIOUS
<1> HIDE DEF b
<1> QED
  BY <1>1, <1>5, <1>6, <1>7, <1>8, OneBudgetStep

\* Changing the limits of a chat keeps the invariant.
LEMMA SetChatLimitsStep ==
  ASSUME LedgerInv, NEW c \in Chats, NEW l \in TokenLimits,
         NEW k \in CostLimits \cup {0}, NEW confirmed \in BOOLEAN,
         SetChatLimits(c, l, k, confirmed)
  PROVE  LedgerInv'
<1> DEFINE old == budgets[c]
           new == [old EXCEPT !.configured = TRUE, !.tokenLimit = l, !.costLimit = k]
           unknown == old.state = "accounting_unknown"
           b == WithState(mode[c], new, unknown)
<1>1. /\ mode[c] \in Modes
      /\ k \in Nat
      /\ l \in Nat \ {0}
      /\ old \in Budget
      /\ mode[c] = "paid" => k # 0
  BY LedgerAssumption DEF LedgerInv, SetChatLimits, AdmissibleCostLimits, Modes
<1>2. /\ new \in Budget
      /\ new.configured = TRUE /\ new.tokenLimit = l /\ new.costLimit = k
      /\ new.used = old.used /\ new.reserved = old.reserved
      /\ new.spent = old.spent /\ new.costReserved = old.costReserved
  BY <1>1 DEF Budget
<1>3. /\ l >= old.used + old.reserved
      /\ k >= old.spent + old.costReserved
      /\ budgets' = [budgets EXCEPT ![c] = b]
      /\ mode' = mode /\ turns' = turns
  BY DEF SetChatLimits
<1>4. unknown <=> \E t \in TurnsOf(c) : turns[t].accounting = "unknown"
  BY <1>1 DEF LedgerInv, StateIsCurrent, CalculateState, Modes
<1>5. /\ b \in Budget
      /\ b.state = CalculateState(mode[c], b, unknown)
      /\ b.configured = TRUE /\ b.tokenLimit = l /\ b.costLimit = k
      /\ b.used = old.used /\ b.reserved = old.reserved
      /\ b.spent = old.spent /\ b.costReserved = old.costReserved
  <2> HIDE DEF new, unknown
  <2> unknown \in BOOLEAN
    BY DEF unknown
  <2> QED
    BY <1>2, WithStateIsCurrent
<1>6. b.state = CalculateState(mode[c], b,
                  \E t \in TurnsOf(c) : turns[t].accounting = "unknown")
  <2> HIDE DEF b, unknown
  <2> QED
    BY <1>4, <1>5 DEF CalculateState
<1>7. mode' = [mode EXCEPT ![c] = mode[c]]
  BY <1>3 DEF LedgerInv
<1>8. /\ b.used + b.reserved <= b.tokenLimit
      /\ b.spent + b.costReserved <= b.costLimit
      /\ b.configured <=> b.tokenLimit # 0
      /\ mode[c] = "paid" => b.costLimit # 0
  <2> HIDE DEF b
  <2> QED
    BY <1>1, <1>3, <1>5 DEF Budget
<1> HIDE DEF b
<1> QED
  BY <1>1, <1>3, <1>5, <1>6, <1>7, <1>8, OneBudgetStep

-----------------------------------------------------------------------------
\* Reserving: the guards leave no open turn in the chat, so the reservation is
\* the only one its budget holds.
LEMMA ReserveLeavesOneOpen ==
  ASSUME LedgerInv, NEW c \in Chats, NEW n \in ReserveTokens,
         NEW k \in ReserveCosts \cup {0}, CanReserve(c, n, k), NonePending(c)
  PROVE  /\ Open(c) = {}
         /\ budgets[c].reserved = 0 /\ budgets[c].costReserved = 0
<1>1. mode[c] \in Modes
  BY DEF CanReserve, LedgerInv
<1>2. \A t \in TurnsOf(c) : turns[t].accounting # "unknown"
  BY <1>1 DEF CanReserve, LedgerInv, StateIsCurrent, CalculateState, Modes
<1>3. \A t \in TurnsOf(c) : turns[t].accounting # "reserved"
  BY DEF NonePending, LedgerInv, MessagesMatchTurns, TurnsOf
<1>4. Open(c) = {}
  BY <1>2, <1>3 DEF Open
<1> QED
  BY <1>4 DEF LedgerInv, ReservationBacked

\* A reservation that the checks admit leaves a well-formed budget that holds
\* exactly the estimate, within the limits.
LEMMA WithReservationOK ==
  ASSUME LedgerInv, NEW c \in Chats, NEW n \in ReserveTokens,
         NEW k \in ReserveCosts \cup {0}, CanReserve(c, n, k), NonePending(c)
  PROVE  /\ WithReservation(c, n, k) \in Budget
         /\ WithReservation(c, n, k).reserved = n
         /\ WithReservation(c, n, k).costReserved = k
         /\ WithReservation(c, n, k).configured <=> WithReservation(c, n, k).tokenLimit # 0
         /\ mode[c] = "paid" => WithReservation(c, n, k).costLimit # 0
         /\ WithReservation(c, n, k).used + n <= WithReservation(c, n, k).tokenLimit
         /\ mode[c] = "paid" => WithReservation(c, n, k).spent + k
                                  <= WithReservation(c, n, k).costLimit
         /\ WithReservation(c, n, k).state =
              CalculateState(mode[c], WithReservation(c, n, k), FALSE)
<1> DEFINE old == budgets[c]
           new == [old EXCEPT !.reserved = @ + n, !.costReserved = @ + k]
           b == WithState(mode[c], new, FALSE)
<1>1. n \in Nat /\ k \in Nat /\ old \in Budget
  BY LedgerAssumption DEF LedgerInv
<1>2. old.reserved = 0 /\ old.costReserved = 0
  BY ReserveLeavesOneOpen
<1>3. /\ new \in Budget
      /\ new.reserved = n /\ new.costReserved = k
      /\ new.configured = old.configured
      /\ new.tokenLimit = old.tokenLimit /\ new.costLimit = old.costLimit
      /\ new.used = old.used /\ new.spent = old.spent
  <2>1. old.reserved + n = n /\ old.costReserved + k = k
    BY <1>1, <1>2
  <2>2. new = [old EXCEPT !.reserved = n, !.costReserved = k]
    BY <2>1
  <2> HIDE DEF old, new
  <2> QED
    BY <1>1, <2>2 DEF Budget
<1>4. /\ b \in Budget
      /\ b.state = CalculateState(mode[c], b, FALSE)
      /\ b.reserved = n /\ b.costReserved = k
      /\ b.configured = old.configured
      /\ b.tokenLimit = old.tokenLimit /\ b.costLimit = old.costLimit
      /\ b.used = old.used /\ b.spent = old.spent
  <2> HIDE DEF new
  <2> QED
    BY <1>3, WithStateIsCurrent
<1>5. /\ old.used + n <= old.tokenLimit
      /\ mode[c] = "paid" => old.spent + k <= old.costLimit
  BY <1>1, <1>2 DEF CanReserve, Budget
<1>6. /\ old.configured <=> old.tokenLimit # 0
      /\ mode[c] = "paid" => old.costLimit # 0
  BY DEF LedgerInv, BudgetsOK, CanReserve
<1>7. WithReservation(c, n, k) = b
  BY DEF WithReservation
<1> HIDE DEF b
<1> QED
  BY <1>4, <1>5, <1>6, <1>7

\* Reserving for a new turn keeps the invariant.
LEMMA ReserveNewStep ==
  ASSUME LedgerInv, NEW t \in Turns, NEW c \in Chats, NEW n \in ReserveTokens,
         NEW k \in ReserveCosts \cup {0}, ReserveNew(t, c, n, k)
  PROVE  LedgerInv'
<1> DEFINE row == [NoTurnRow EXCEPT !.chat = c, !.status = "pending",
                     !.accounting = "reserved", !.tokens = n,
                     !.reservedCost = k, !.message = "pending"]
<1>0. c \in Chats
  OBVIOUS
<1>1. CanReserve(c, n, k) /\ NonePending(c) /\ turns[t].chat = NoChat
  BY DEF ReserveNew
<1> DEFINE b == WithReservation(c, n, k)
<1>2. /\ b \in Budget
      /\ b.reserved = n /\ b.costReserved = k
      /\ b.configured <=> b.tokenLimit # 0
      /\ mode[c] = "paid" => b.costLimit # 0
      /\ b.used + n <= b.tokenLimit
      /\ mode[c] = "paid" => b.spent + k <= b.costLimit
      /\ b.state = CalculateState(mode[c], b, FALSE)
  BY <1>0, <1>1, WithReservationOK, Zenon
<1>3. n \in Nat \ {0} /\ k \in Nat
  BY LedgerAssumption
<1>4. /\ row \in Turn
      /\ row.chat = c /\ row.status = "pending" /\ row.accounting = "reserved"
      /\ row.tokens = n /\ row.reservedCost = k
      /\ row.message = "pending" /\ row.reply = "none"
  BY <1>3 DEF Turn, NoTurnRow, Statuses, Accountings
<1>5. mode[c] # "none" /\ mode' = mode
  BY DEF ReserveNew, CanReserve
<1>6. turns' = [turns EXCEPT ![t] = row] /\ budgets' = [budgets EXCEPT ![c] = b]
  BY DEF ReserveNew
<1>7. \A u \in Turns \ {t} : turns[u].chat = c =>
         turns[u].accounting \notin {"reserved", "unknown"}
  BY <1>1, ReserveLeavesOneOpen DEF Open, TurnsOf
<1> HIDE DEF row, b
<1>8. LocalOK(mode[c], row, b)
  BY <1>2, <1>3, <1>4 DEF LocalOK, CalculateState
<1> QED
  BY <1>1, <1>2, <1>4, <1>5, <1>6, <1>7, <1>8, OneTurnStep

\* Reserving again for a failed turn keeps the invariant.
LEMMA ReserveRetryStep ==
  ASSUME LedgerInv, NEW t \in Turns, NEW n \in ReserveTokens,
         NEW k \in ReserveCosts \cup {0}, ReserveRetry(t, n, k)
  PROVE  LedgerInv'
<1>0. PICK c \in Chats : turns[t].chat = c
  BY DEF ReserveRetry, LedgerInv, Turn
<1>1. turns[t].status = "failed" /\ CanReserve(c, n, k) /\ NonePending(c)
  BY <1>0 DEF ReserveRetry
<1>10. c \in Chats /\ CanReserve(c, n, k) /\ NonePending(c)
  BY <1>1
<1> DEFINE b == WithReservation(c, n, k)
<1>2. /\ b \in Budget
      /\ b.reserved = n /\ b.costReserved = k
      /\ b.configured <=> b.tokenLimit # 0
      /\ mode[c] = "paid" => b.costLimit # 0
      /\ b.used + n <= b.tokenLimit
      /\ mode[c] = "paid" => b.spent + k <= b.costLimit
      /\ b.state = CalculateState(mode[c], b, FALSE)
  BY <1>10, WithReservationOK, Zenon
<1> DEFINE row == [turns[t] EXCEPT !.status = "pending", !.accounting = "reserved",
                     !.tokens = n, !.reservedCost = k, !.sent = FALSE,
                     !.total = 0, !.cost = 0, !.message = "pending"]
<1>3. n \in Nat \ {0} /\ k \in Nat /\ turns[t] \in Turn
  BY LedgerAssumption DEF LedgerInv
<1>4. /\ row \in Turn
      /\ row.chat = c /\ row.status = "pending" /\ row.accounting = "reserved"
      /\ row.tokens = n /\ row.reservedCost = k
      /\ row.message = "pending" /\ row.reply = turns[t].reply
  BY <1>0, <1>3 DEF Turn, Statuses, Accountings
<1>5. mode[c] # "none" /\ mode' = mode
  BY <1>0 DEF ReserveRetry, CanReserve
<1>6. turns' = [turns EXCEPT ![t] = row] /\ budgets' = [budgets EXCEPT ![c] = b]
  BY <1>0 DEF ReserveRetry
<1>7. \A u \in Turns \ {t} : turns[u].chat = c =>
         turns[u].accounting \notin {"reserved", "unknown"}
  BY <1>0, <1>1, ReserveLeavesOneOpen DEF Open, TurnsOf
<1>8. turns[t].reply # "sent"
  BY <1>1 DEF LedgerInv, MessagesMatchTurns
<1> HIDE DEF row, b
<1>9. LocalOK(mode[c], row, b)
  BY <1>0, <1>2, <1>3, <1>4, <1>8 DEF LocalOK, CalculateState
<1> QED
  BY <1>0, <1>2, <1>4, <1>5, <1>6, <1>7, <1>9, OneTurnStep

-----------------------------------------------------------------------------
\* Settling: an open turn is the only one of its chat, and giving its
\* reservation back leaves nothing held.
LEMMA OpenTurn ==
  ASSUME LedgerInv, NEW t \in Turns, turns[t].accounting \in {"reserved", "unknown"}
  PROVE  \E c \in Chats :
           /\ turns[t].chat = c
           /\ mode[c] \in Modes
           /\ t \in Open(c)
           /\ \A u \in Turns \ {t} : turns[u].chat = c =>
                turns[u].accounting \notin {"reserved", "unknown"}
           /\ budgets[c].reserved = turns[t].tokens
           /\ budgets[c].costReserved = turns[t].reservedCost
<1>1. turns[t].chat \in Chats
  BY DEF LedgerInv, RowsOK, Turn
<1>2. PICK c \in Chats : turns[t].chat = c
  BY <1>1
<1>3. t \in Open(c)
  BY <1>2 DEF Open, TurnsOf
<1>4. mode[c] \in Modes
  BY <1>1, <1>2, LedgerAssumption DEF LedgerInv, RowsOK
<1>5. \A u \in Turns \ {t} : turns[u].chat = c =>
         turns[u].accounting \notin {"reserved", "unknown"}
  <2> SUFFICES ASSUME NEW u \in Turns \ {t}, turns[u].chat = c,
                      turns[u].accounting \in {"reserved", "unknown"}
               PROVE  FALSE
    OBVIOUS
  <2>1. u \in Open(c)
    BY DEF Open, TurnsOf
  <2> QED
    BY <1>3, <2>1 DEF LedgerInv, ReservationBacked
<1>6. /\ budgets[c].reserved = turns[t].tokens
      /\ budgets[c].costReserved = turns[t].reservedCost
  BY <1>3 DEF LedgerInv, ReservationBacked
<1> QED
  BY <1>2, <1>3, <1>4, <1>5, <1>6

\* Taking the reservation of the one waiting turn away leaves nothing held.
LEMMA WithoutReservationOK ==
  ASSUME LedgerInv, NEW t \in Turns, NEW c \in Chats, turns[t].chat = c,
         turns[t].accounting \in {"reserved", "unknown"}
  PROVE  WithoutReservation(t) = [budgets[c] EXCEPT !.reserved = 0, !.costReserved = 0]
<1>1. /\ budgets[c].reserved = turns[t].tokens
      /\ budgets[c].costReserved = turns[t].reservedCost
      /\ turns[t].tokens \in Nat /\ turns[t].reservedCost \in Nat
  BY OpenTurn DEF LedgerInv, Turn
<1>2. /\ budgets[c].reserved - turns[t].tokens = 0
      /\ budgets[c].costReserved - turns[t].reservedCost = 0
  BY <1>1
<1> QED
  BY <1>2 DEF WithoutReservation

\* Charging the usage a provider reported keeps the invariant.
LEMMA FinalizeStep ==
  ASSUME LedgerInv, NEW t \in Turns, NEW successful \in BOOLEAN,
         NEW content \in BOOLEAN, NEW n \in UsageTokens, NEW k \in UsageCosts,
         FinalizeKnownTurn(t, successful, content, n, k)
  PROVE  LedgerInv'
<1>0. turns[t].accounting = "reserved"
  BY DEF FinalizeKnownTurn, Active, LedgerInv, MessagesMatchTurns
<1>1. PICK c \in Chats :
           /\ turns[t].chat = c
           /\ mode[c] \in Modes
           /\ t \in Open(c)
           /\ \A u \in Turns \ {t} : turns[u].chat = c =>
                turns[u].accounting \notin {"reserved", "unknown"}
           /\ budgets[c].reserved = turns[t].tokens
           /\ budgets[c].costReserved = turns[t].reservedCost
  BY <1>0, OpenTurn
<1> DEFINE old == [budgets[c] EXCEPT !.reserved = 0, !.costReserved = 0]
           new == [old EXCEPT !.used = @ + n, !.spent = @ + k]
           b == WithState(mode[c], new, FALSE)
           status == MessageStatus(successful)
           row == [turns[t] EXCEPT !.status = status, !.accounting = "final",
                     !.total = n, !.cost = k, !.message = status,
                     !.reply = Reply(t, content, successful)]
<1>2. WithoutReservation(t) = old
  BY <1>0, <1>1, WithoutReservationOK
<1>3. n \in Nat /\ k \in Nat /\ turns[t] \in Turn /\ budgets[c] \in Budget
  BY LedgerAssumption DEF LedgerInv
<1>4. /\ old \in Budget
      /\ old.reserved = 0 /\ old.costReserved = 0
      /\ old.configured = budgets[c].configured
      /\ old.tokenLimit = budgets[c].tokenLimit
      /\ old.costLimit = budgets[c].costLimit
  BY <1>3 DEF Budget
<1>5. /\ new \in Budget
      /\ new.reserved = 0 /\ new.costReserved = 0
      /\ new.configured = budgets[c].configured
      /\ new.tokenLimit = budgets[c].tokenLimit
      /\ new.costLimit = budgets[c].costLimit
  <2>1. old.used + n \in Nat /\ old.spent + k \in Nat
    BY <1>3, <1>4 DEF Budget
  <2> HIDE DEF old
  <2> QED
    BY <1>4, <2>1 DEF Budget
<1>6. /\ b \in Budget
      /\ b.reserved = 0 /\ b.costReserved = 0
      /\ b.configured = budgets[c].configured
      /\ b.tokenLimit = budgets[c].tokenLimit
      /\ b.costLimit = budgets[c].costLimit
      /\ b.state = CalculateState(mode[c], b, FALSE)
  <2> HIDE DEF new
  <2> QED
    BY <1>5, WithStateIsCurrent
<1>7. /\ status \in {"sent", "failed"}
      /\ Reply(t, content, successful) = "sent" <=> status = "sent"
      /\ Reply(t, content, successful) \in {"none", "sent", "failed", "inherited"}
  <2>1. successful => content
    BY DEF FinalizeKnownTurn
  <2>2. turns[t].reply \in {"none", "failed", "inherited"}
    BY <1>0, <1>3 DEF LedgerInv, MessagesMatchTurns, Turn
  <2> QED
    BY <2>1, <2>2 DEF MessageStatus, Reply
<1>8. /\ row \in Turn
      /\ row.chat = c /\ row.status = status /\ row.accounting = "final"
      /\ row.message = status /\ row.reply = Reply(t, content, successful)
  <2> HIDE DEF status
  <2> QED
    BY <1>1, <1>3, <1>7 DEF Turn, Statuses, Accountings
<1>9. /\ turns' = [turns EXCEPT ![t] = row]
      /\ budgets' = [budgets EXCEPT ![c] = b]
      /\ mode' = mode
  BY <1>1, <1>2 DEF FinalizeKnownTurn
<1>10. /\ b.configured <=> b.tokenLimit # 0
       /\ mode[c] = "paid" /\ b.configured => b.costLimit # 0
  <2> HIDE DEF b
  <2> QED
    BY <1>6 DEF LedgerInv, BudgetsOK
<1> HIDE DEF b, row, status
<1>11. LocalOK(mode[c], row, b)
  BY <1>6, <1>7, <1>8, <1>10 DEF LocalOK, CalculateState
<1> QED
  BY <1>1, <1>6, <1>8, <1>9, <1>11, OneTurnStep DEF Modes

\* The four releases share _release_reservation.
LEMMA ReleaseStep ==
  ASSUME LedgerInv, NEW t \in Turns, NEW sent \in BOOLEAN,
         turns[t].accounting \in {"reserved", "unknown"},
         ReleaseReservation(t, sent)
  PROVE  LedgerInv'
<1>1. PICK c \in Chats :
           /\ turns[t].chat = c
           /\ mode[c] \in Modes
           /\ t \in Open(c)
           /\ \A u \in Turns \ {t} : turns[u].chat = c =>
                turns[u].accounting \notin {"reserved", "unknown"}
           /\ budgets[c].reserved = turns[t].tokens
           /\ budgets[c].costReserved = turns[t].reservedCost
  BY OpenTurn
<1> DEFINE new == [budgets[c] EXCEPT !.reserved = 0, !.costReserved = 0]
           b == WithState(mode[c], new, FALSE)
           row == [turns[t] EXCEPT !.status = "failed", !.accounting = "released",
                     !.sent = sent, !.message = "failed"]
<1>2. WithoutReservation(t) = new
  BY <1>1, WithoutReservationOK
<1>3. turns[t] \in Turn /\ budgets[c] \in Budget
  BY DEF LedgerInv
<1>4. /\ new \in Budget
      /\ new.reserved = 0 /\ new.costReserved = 0
      /\ new.configured = budgets[c].configured
      /\ new.tokenLimit = budgets[c].tokenLimit
      /\ new.costLimit = budgets[c].costLimit
  BY <1>3 DEF Budget
<1>5. /\ b \in Budget
      /\ b.reserved = 0 /\ b.costReserved = 0
      /\ b.configured = budgets[c].configured
      /\ b.tokenLimit = budgets[c].tokenLimit
      /\ b.costLimit = budgets[c].costLimit
      /\ b.state = CalculateState(mode[c], b, FALSE)
  <2> HIDE DEF new
  <2> QED
    BY <1>4, WithStateIsCurrent
<1>6. OtherUnknown(t) <=> FALSE
  BY <1>1 DEF OtherUnknown, TurnsOf
<1>7. /\ turns' = [turns EXCEPT ![t] = row]
      /\ mode' = mode
  BY DEF ReleaseReservation
<1>8. budgets' = [budgets EXCEPT ![c] = b]
  <2>1. budgets' = [budgets EXCEPT ![c] = WithState(mode[c], new, OtherUnknown(t))]
    BY <1>1, <1>2 DEF ReleaseReservation
  <2>2. WithState(mode[c], new, OtherUnknown(t)) = WithState(mode[c], new, FALSE)
    <3> HIDE DEF new
    <3> QED
      BY <1>6 DEF WithState, CalculateState
  <2> QED
    BY <2>1, <2>2
<1>9. turns[t].reply # "sent"
  BY <1>1 DEF LedgerInv, MessagesMatchTurns
<1>10. /\ row \in Turn
       /\ row.chat = c /\ row.status = "failed" /\ row.accounting = "released"
       /\ row.message = "failed" /\ row.reply # "sent"
  BY <1>1, <1>3, <1>9 DEF Turn, Statuses, Accountings
<1>11. /\ b.configured <=> b.tokenLimit # 0
       /\ mode[c] = "paid" /\ b.configured => b.costLimit # 0
  <2> HIDE DEF b
  <2> QED
    BY <1>5 DEF LedgerInv, BudgetsOK
<1> HIDE DEF b, row
<1>12. LocalOK(mode[c], row, b)
  BY <1>5, <1>10, <1>11 DEF LocalOK, CalculateState
<1> QED
  BY <1>1, <1>5, <1>7, <1>8, <1>10, <1>12, OneTurnStep DEF Modes

\* Leaving a turn in doubt keeps the invariant.
LEMMA MarkUnknownStep ==
  ASSUME LedgerInv, NEW t \in Turns, NEW partial \in BOOLEAN,
         MarkUnknownOutcome(t, partial)
  PROVE  LedgerInv'
<1>0. turns[t].accounting = "reserved"
  BY DEF MarkUnknownOutcome, Active, LedgerInv, MessagesMatchTurns
<1>1. PICK c \in Chats :
           /\ turns[t].chat = c
           /\ mode[c] \in Modes
           /\ t \in Open(c)
           /\ \A u \in Turns \ {t} : turns[u].chat = c =>
                turns[u].accounting \notin {"reserved", "unknown"}
           /\ budgets[c].reserved = turns[t].tokens
           /\ budgets[c].costReserved = turns[t].reservedCost
  BY <1>0, OpenTurn
<1> DEFINE b == [budgets[c] EXCEPT !.state = "accounting_unknown"]
           row == [turns[t] EXCEPT !.status = "failed", !.accounting = "unknown",
                     !.message = "failed", !.reply = Reply(t, partial, FALSE)]
<1>2. turns[t] \in Turn /\ budgets[c] \in Budget
  BY DEF LedgerInv
<1>3. Reply(t, partial, FALSE) \in {"none", "failed", "inherited"}
  BY <1>0, <1>2 DEF LedgerInv, MessagesMatchTurns, Turn, Reply, MessageStatus
<1>4. /\ row \in Turn
      /\ row.chat = c /\ row.status = "failed" /\ row.accounting = "unknown"
      /\ row.tokens = turns[t].tokens /\ row.reservedCost = turns[t].reservedCost
      /\ row.message = "failed" /\ row.reply \in {"none", "failed", "inherited"}
  BY <1>1, <1>2, <1>3 DEF Turn, Statuses, Accountings
<1>5. /\ b \in Budget
      /\ b.state = "accounting_unknown"
      /\ b.reserved = budgets[c].reserved /\ b.costReserved = budgets[c].costReserved
      /\ b.used = budgets[c].used /\ b.spent = budgets[c].spent
      /\ b.configured = budgets[c].configured
      /\ b.tokenLimit = budgets[c].tokenLimit
      /\ b.costLimit = budgets[c].costLimit
  BY <1>2 DEF Budget, States
<1>6. /\ turns' = [turns EXCEPT ![t] = row]
      /\ budgets' = [budgets EXCEPT ![c] = b]
      /\ mode' = mode
  BY <1>1 DEF MarkUnknownOutcome
<1>7. /\ turns[t].tokens > 0
      /\ budgets[c].used + budgets[c].reserved <= budgets[c].tokenLimit
      /\ mode[c] = "paid" =>
           budgets[c].spent + budgets[c].costReserved <= budgets[c].costLimit
      /\ budgets[c].configured <=> budgets[c].tokenLimit # 0
      /\ mode[c] = "paid" /\ budgets[c].configured => budgets[c].costLimit # 0
  BY <1>0, <1>1 DEF LedgerInv, RowsOK, HeldWithinLimits, BudgetsOK
<1> HIDE DEF b, row
<1>8. LocalOK(mode[c], row, b)
  BY <1>1, <1>4, <1>5, <1>7 DEF LocalOK, CalculateState
<1> QED
  BY <1>1, <1>4, <1>5, <1>6, <1>8, OneTurnStep DEF Modes

\* Marking a turn as sent keeps the invariant.
LEMMA MarkRequestSentStep ==
  ASSUME LedgerInv, NEW t \in Turns, MarkRequestSent(t)
  PROVE  LedgerInv'
<1> DEFINE row == [turns[t] EXCEPT !.sent = TRUE]
<1>1. /\ turns' = [turns EXCEPT ![t] = row]
      /\ budgets' = budgets
      /\ mode' = mode
      /\ turns[t] \in Turn
  BY DEF MarkRequestSent, LedgerInv
<1>2. \A u \in Turns : /\ turns'[u].chat = turns[u].chat
                       /\ turns'[u].status = turns[u].status
                       /\ turns'[u].accounting = turns[u].accounting
                       /\ turns'[u].tokens = turns[u].tokens
                       /\ turns'[u].reservedCost = turns[u].reservedCost
                       /\ turns'[u].message = turns[u].message
                       /\ turns'[u].reply = turns[u].reply
  BY <1>1 DEF LedgerInv, Turn
<1>3. \A c \in Chats : TurnsOf(c)' = TurnsOf(c) /\ Open(c)' = Open(c)
  BY <1>2 DEF TurnsOf, Open
<1>4. turns' \in [Turns -> Turn]
  BY <1>1 DEF LedgerInv, Turn
<1>a. turns[t].chat # NoChat
  <2>1. turns[t].status = "pending"
    BY DEF MarkRequestSent
  <2>2. turns[t].accounting = "reserved"
    BY <2>1 DEF LedgerInv, MessagesMatchTurns
  <2> QED
    BY <2>2 DEF LedgerInv, RowsOK
<1>b. \A u \in Turns : turns'[u].sent => u = t \/ turns[u].sent
  BY <1>1 DEF LedgerInv
<1>5. RowsOK' /\ BudgetsOK' /\ MessagesMatchTurns'
  <2>1. RowsOK'
    BY <1>1, <1>2, <1>a, <1>b DEF LedgerInv, RowsOK
  <2>2. BudgetsOK'
    BY <1>1 DEF LedgerInv, BudgetsOK
  <2>3. MessagesMatchTurns'
    BY <1>2 DEF LedgerInv, MessagesMatchTurns, CarriedOver
  <2> QED
    BY <2>1, <2>2, <2>3
<1>6. ReservationBacked'
  BY <1>1, <1>2, <1>3 DEF LedgerInv, ReservationBacked, Open, TurnsOf
<1>7. StateIsCurrent'
  <2> SUFFICES ASSUME NEW c \in Chats, mode[c] # "none"
               PROVE  budgets[c].state =
                        CalculateState(mode[c], budgets[c],
                          \E u \in TurnsOf(c)' : turns'[u].accounting = "unknown")
    BY <1>1 DEF StateIsCurrent
  <2>1. (\E u \in TurnsOf(c)' : turns'[u].accounting = "unknown")
          <=> \E u \in TurnsOf(c) : turns[u].accounting = "unknown"
    BY <1>2, <1>3 DEF TurnsOf
  <2>2. budgets[c].state =
          CalculateState(mode[c], budgets[c],
                         \E u \in TurnsOf(c) : turns[u].accounting = "unknown")
    BY DEF LedgerInv, StateIsCurrent
  <2> QED
    BY <2>1, <2>2 DEF CalculateState
<1>8. HeldWithinLimits'
  BY <1>1, <1>3 DEF LedgerInv, HeldWithinLimits
<1> QED
  BY <1>1, <1>4, <1>5, <1>6, <1>7, <1>8 DEF LedgerInv

\* Deleting a chat with its turns keeps the invariant.
LEMMA DeleteChatStep ==
  ASSUME LedgerInv, NEW c \in Chats, DeleteChat(c)
  PROVE  LedgerInv'
<1>1. NoTurnRow \in Turn /\ NewBudget(0, 0) \in Budget
  BY NewBudgetOK DEF NoTurnRow, Turn
<1>2. /\ mode' \in [Chats -> Modes \cup {"none"}]
      /\ budgets' \in [Chats -> Budget]
      /\ turns' \in [Turns -> Turn]
  BY <1>1 DEF DeleteChat, LedgerInv
<1>3. /\ \A d \in Chats : /\ mode'[d] = IF d = c THEN "none" ELSE mode[d]
                          /\ budgets'[d] = IF d = c THEN NewBudget(0, 0) ELSE budgets[d]
      /\ \A t \in Turns :
           turns'[t] = IF turns[t].chat = c THEN NoTurnRow ELSE turns[t]
  BY DEF DeleteChat, LedgerInv
<1>4. c # NoChat
  BY LedgerAssumption
<1>a. /\ NoTurnRow.chat = NoChat /\ NoTurnRow.accounting = "none"
      /\ NoTurnRow.status = "none" /\ NoTurnRow.message = "none"
      /\ NoTurnRow.reply = "none" /\ ~NoTurnRow.sent
  BY DEF NoTurnRow
<1>5. RowsOK'
  <2> SUFFICES ASSUME NEW t \in Turns
               PROVE  /\ turns'[t].chat = NoChat <=> turns'[t].accounting = "none"
                      /\ turns'[t].chat # NoChat => mode'[turns'[t].chat] # "none"
                      /\ turns'[t].accounting \in {"reserved", "unknown"} => turns'[t].tokens > 0
                      /\ turns'[t].sent => turns'[t].chat # NoChat
    BY DEF RowsOK
  <2>1. turns[t].chat \in Chats \cup {NoChat}
    BY DEF LedgerInv, Turn
  <2> QED
    BY <1>3, <1>a, <2>1 DEF LedgerInv, RowsOK
<1>6. BudgetsOK'
  <2>1. NewBudget(0, 0).configured <=> NewBudget(0, 0).tokenLimit # 0
    BY NewBudgetOK
  <2>2. NewBudget(0, 0).configured = FALSE
    BY DEF NewBudget
  <2> QED
    BY <1>3, <2>1, <2>2 DEF LedgerInv, BudgetsOK
<1>7. MessagesMatchTurns'
  BY <1>3, <1>a DEF LedgerInv, MessagesMatchTurns, CarriedOver
<1>8. TurnsOf(c)' = {} /\ Open(c)' = {}
  BY <1>3, <1>4, <1>a DEF TurnsOf, Open
<1>9. \A d \in Chats : d # c =>
        /\ TurnsOf(d)' = TurnsOf(d)
        /\ \A t \in TurnsOf(d) : turns'[t] = turns[t]
  BY <1>3, <1>a, LedgerAssumption DEF TurnsOf
<1>10. \A d \in Chats : d # c => Open(d)' = Open(d)
  BY <1>9 DEF Open
<1>11. ReservationBacked'
  <2> SUFFICES ASSUME NEW d \in Chats
               PROVE  /\ \A v, u \in Open(d)' : v = u
                      /\ Open(d)' = {} => budgets'[d].reserved = 0 /\ budgets'[d].costReserved = 0
                      /\ \A v \in Open(d)' : /\ budgets'[d].reserved = turns'[v].tokens
                                             /\ budgets'[d].costReserved = turns'[v].reservedCost
    BY DEF ReservationBacked
  <2>1. CASE d = c
    BY <2>1, <1>3, <1>8, NewBudgetOK
  <2>2. CASE d # c
    <3>1. \A v \in Open(d) : turns'[v] = turns[v]
      BY <2>2, <1>9 DEF Open
    <3> QED
      BY <2>2, <3>1, <1>3, <1>10 DEF LedgerInv, ReservationBacked
  <2> QED
    BY <2>1, <2>2
<1>12. StateIsCurrent'
  <2> SUFFICES ASSUME NEW d \in Chats, mode'[d] # "none"
               PROVE  budgets'[d].state =
                        CalculateState(mode'[d], budgets'[d],
                          \E u \in TurnsOf(d)' : turns'[u].accounting = "unknown")
    BY DEF StateIsCurrent
  <2>1. d # c /\ mode'[d] = mode[d] /\ budgets'[d] = budgets[d]
    BY <1>3
  <2>2. (\E u \in TurnsOf(d)' : turns'[u].accounting = "unknown")
          <=> \E u \in TurnsOf(d) : turns[u].accounting = "unknown"
    BY <2>1, <1>9
  <2>3. budgets[d].state =
          CalculateState(mode[d], budgets[d],
                         \E u \in TurnsOf(d) : turns[u].accounting = "unknown")
    BY <2>1 DEF LedgerInv, StateIsCurrent
  <2> QED
    BY <2>1, <2>2, <2>3 DEF CalculateState
<1>13. HeldWithinLimits'
  BY <1>3, <1>8, <1>10 DEF LedgerInv, HeldWithinLimits
<1> QED
  BY <1>2, <1>5, <1>6, <1>7, <1>11, <1>12, <1>13 DEF LedgerInv

\* In a reachable ledger the restart recovery changes pending turns only: their
\* message is pending with them, and they hold tokens.
LEMMA RecoveredIs ==
  ASSUME LedgerInv, NEW t \in Turns
  PROVE  Recovered(turns[t]) =
           IF turns[t].status = "pending"
             THEN [turns[t] EXCEPT !.status = "failed", !.message = "failed",
                                   !.accounting = "unknown"]
             ELSE turns[t]
<1>1. turns[t] \in Turn /\ turns[t].reply # "pending"
  BY DEF LedgerInv, Turn
<1>2. turns[t].message = "pending" <=> turns[t].status = "pending"
  BY DEF LedgerInv, MessagesMatchTurns
<1>3. turns[t].status = "pending" => turns[t].tokens > 0
  BY DEF LedgerInv, RowsOK, MessagesMatchTurns
<1> QED
  BY <1>1, <1>2, <1>3 DEF Recovered, Turn

\* After a crash every pending turn becomes unknown and keeps its reservation,
\* so the same turns are open before and after.
LEMMA RecoverStep ==
  ASSUME LedgerInv, RecoverInterruptedTurns
  PROVE  LedgerInv'
<1>1. \A t \in Turns :
        /\ turns'[t] \in Turn
        /\ turns'[t].chat = turns[t].chat
        /\ turns'[t].tokens = turns[t].tokens
        /\ turns'[t].reservedCost = turns[t].reservedCost
        /\ turns'[t].reply = turns[t].reply
        /\ turns'[t].status = (IF turns[t].status = "pending" THEN "failed" ELSE turns[t].status)
        /\ turns'[t].message = (IF turns[t].status = "pending" THEN "failed" ELSE turns[t].message)
        /\ turns'[t].accounting = (IF turns[t].status = "pending" THEN "unknown"
                                                                  ELSE turns[t].accounting)
  <2> SUFFICES ASSUME NEW t \in Turns
               PROVE  /\ turns'[t] \in Turn
                      /\ turns'[t].chat = turns[t].chat
                      /\ turns'[t].tokens = turns[t].tokens
                      /\ turns'[t].reservedCost = turns[t].reservedCost
                      /\ turns'[t].reply = turns[t].reply
                      /\ turns'[t].status = (IF turns[t].status = "pending" THEN "failed" ELSE turns[t].status)
                      /\ turns'[t].message = (IF turns[t].status = "pending" THEN "failed" ELSE turns[t].message)
                      /\ turns'[t].accounting = (IF turns[t].status = "pending" THEN "unknown"
                                                                  ELSE turns[t].accounting)
    OBVIOUS
  <2>1. turns[t] \in Turn
    BY DEF LedgerInv
  <2>2. CASE turns[t].status = "pending"
    <3>2. turns'[t] = [turns[t] EXCEPT !.status = "failed", !.message = "failed",
                                       !.accounting = "unknown"]
      BY <2>2, RecoveredIs DEF RecoverInterruptedTurns
    <3> QED
      BY <2>1, <2>2, <3>2 DEF Turn, Statuses, Accountings
  <2>3. CASE turns[t].status # "pending"
    <3>1. turns'[t] = turns[t]
      BY <2>3, RecoveredIs DEF RecoverInterruptedTurns
    <3> QED
      BY <2>1, <2>3, <3>1
  <2> QED
    BY <2>2, <2>3
<1>2. \A c \in Chats : TurnsOf(c)' = TurnsOf(c) /\ Open(c)' = Open(c)
  BY <1>1 DEF TurnsOf, Open, LedgerInv, MessagesMatchTurns
<1>3. /\ mode' = mode
      /\ \A c \in Chats : budgets'[c] =
           IF \E t \in TurnsOf(c) : turns'[t].accounting = "unknown"
             THEN [budgets[c] EXCEPT !.state = "accounting_unknown"]
             ELSE budgets[c]
  BY DEF RecoverInterruptedTurns
<1>4. \A c \in Chats :
        /\ budgets'[c] \in Budget
        /\ budgets'[c].configured = budgets[c].configured
        /\ budgets'[c].tokenLimit = budgets[c].tokenLimit
        /\ budgets'[c].costLimit = budgets[c].costLimit
        /\ budgets'[c].used = budgets[c].used
        /\ budgets'[c].spent = budgets[c].spent
        /\ budgets'[c].reserved = budgets[c].reserved
        /\ budgets'[c].costReserved = budgets[c].costReserved
  <2> SUFFICES ASSUME NEW c \in Chats
               PROVE  /\ budgets'[c] \in Budget
                      /\ budgets'[c].configured = budgets[c].configured
                      /\ budgets'[c].tokenLimit = budgets[c].tokenLimit
                      /\ budgets'[c].costLimit = budgets[c].costLimit
                      /\ budgets'[c].used = budgets[c].used
                      /\ budgets'[c].spent = budgets[c].spent
                      /\ budgets'[c].reserved = budgets[c].reserved
                      /\ budgets'[c].costReserved = budgets[c].costReserved
    OBVIOUS
  <2>1. budgets[c] \in Budget
    BY DEF LedgerInv
  <2>2. budgets'[c] = budgets[c] \/
        budgets'[c] = [budgets[c] EXCEPT !.state = "accounting_unknown"]
    BY <1>3
  <2> QED
    BY <2>1, <2>2 DEF Budget, States
<1>5. /\ mode' \in [Chats -> Modes \cup {"none"}]
      /\ budgets' \in [Chats -> Budget]
      /\ turns' \in [Turns -> Turn]
  <2>1. /\ DOMAIN budgets' = Chats /\ budgets' = [c \in Chats |-> budgets'[c]]
        /\ DOMAIN turns' = Turns /\ turns' = [t \in Turns |-> turns'[t]]
    BY DEF RecoverInterruptedTurns
  <2> QED
    BY <2>1, <1>1, <1>3, <1>4 DEF LedgerInv
<1>6. RowsOK'
  <2> SUFFICES ASSUME NEW t \in Turns
               PROVE  /\ turns'[t].chat = NoChat <=> turns'[t].accounting = "none"
                      /\ turns'[t].chat # NoChat => mode'[turns'[t].chat] # "none"
                      /\ turns'[t].accounting \in {"reserved", "unknown"} => turns'[t].tokens > 0
                      /\ turns'[t].sent => turns'[t].chat # NoChat
    BY DEF RowsOK
  <2>1. turns'[t].sent => turns[t].sent
    BY RecoveredIs DEF RecoverInterruptedTurns, LedgerInv, Turn
  <2> QED
    BY <1>1, <1>3, <2>1 DEF LedgerInv, RowsOK, MessagesMatchTurns
<1>7. BudgetsOK'
  <2> SUFFICES ASSUME NEW c \in Chats
               PROVE  /\ mode'[c] = "none" => budgets'[c] = NewBudget(0, 0)
                      /\ budgets'[c].configured <=> budgets'[c].tokenLimit # 0
                      /\ mode'[c] = "paid" /\ budgets'[c].configured => budgets'[c].costLimit # 0
    BY DEF BudgetsOK
  <2>1. mode[c] = "none" => budgets'[c] = budgets[c]
    <3>1. mode[c] = "none" => TurnsOf(c) = {}
      BY LedgerAssumption DEF LedgerInv, RowsOK, TurnsOf
    <3> QED
      BY <3>1, <1>3
  <2> QED
    BY <1>3, <1>4, <2>1 DEF LedgerInv, BudgetsOK
<1>8. MessagesMatchTurns'
  BY <1>1 DEF LedgerInv, MessagesMatchTurns, CarriedOver
<1>9. ReservationBacked'
  BY <1>1, <1>2, <1>4 DEF LedgerInv, ReservationBacked, Open, TurnsOf
<1>10. StateIsCurrent'
  <2> SUFFICES ASSUME NEW c \in Chats, mode[c] # "none"
               PROVE  budgets'[c].state =
                        CalculateState(mode[c], budgets'[c],
                          \E u \in TurnsOf(c) : turns'[u].accounting = "unknown")
    BY <1>2, <1>3 DEF StateIsCurrent
  <2>1. CASE \E u \in TurnsOf(c) : turns'[u].accounting = "unknown"
    <3>1. budgets'[c] = [budgets[c] EXCEPT !.state = "accounting_unknown"]
      BY <2>1, <1>3
    <3>2. budgets'[c].state = "accounting_unknown"
      BY <3>1 DEF LedgerInv, Budget
    <3> QED
      BY <2>1, <3>2 DEF CalculateState
  <2>2. CASE ~\E u \in TurnsOf(c) : turns'[u].accounting = "unknown"
    <3>1. budgets'[c] = budgets[c]
      BY <2>2, <1>3
    <3>2. ~\E u \in TurnsOf(c) : turns[u].accounting = "unknown"
      BY <2>2, <1>1 DEF TurnsOf
    <3>3. budgets[c].state =
            CalculateState(mode[c], budgets[c],
                           \E u \in TurnsOf(c) : turns[u].accounting = "unknown")
      BY DEF LedgerInv, StateIsCurrent
    <3> QED
      BY <2>2, <3>1, <3>2, <3>3 DEF CalculateState
  <2> QED
    BY <2>1, <2>2
<1>11. HeldWithinLimits'
  BY <1>2, <1>3, <1>4 DEF LedgerInv, HeldWithinLimits
<1> QED
  BY <1>5, <1>6, <1>7, <1>8, <1>9, <1>10, <1>11 DEF LedgerInv

-----------------------------------------------------------------------------
\* The initial states: an empty database, or one of an older version.
LEMMA FreshDatabaseOK == FreshDatabase => LedgerInv
<1> SUFFICES ASSUME FreshDatabase PROVE LedgerInv
  OBVIOUS
<1>1. NoTurnRow \in Turn /\ NewBudget(0, 0) \in Budget
  BY NewBudgetOK DEF NoTurnRow, Turn
<1>2. /\ NoTurnRow.chat = NoChat /\ NoTurnRow.accounting = "none"
      /\ NoTurnRow.status = "none" /\ NoTurnRow.message = "none"
      /\ NoTurnRow.reply = "none" /\ ~NoTurnRow.sent
      /\ NewBudget(0, 0).configured = FALSE /\ NewBudget(0, 0).tokenLimit = 0
      /\ NewBudget(0, 0).reserved = 0 /\ NewBudget(0, 0).costReserved = 0
  BY DEF NoTurnRow, NewBudget
<1>3. /\ \A t \in Turns : turns[t] = NoTurnRow
      /\ \A c \in Chats : mode[c] = "none" /\ budgets[c] = NewBudget(0, 0)
      /\ mode \in [Chats -> Modes \cup {"none"}]
      /\ budgets \in [Chats -> Budget]
      /\ turns \in [Turns -> Turn]
  BY <1>1 DEF FreshDatabase
<1>4. \A c \in Chats : TurnsOf(c) = {} /\ Open(c) = {}
  BY <1>2, <1>3, LedgerAssumption DEF TurnsOf, Open
<1>5. RowsOK /\ BudgetsOK /\ MessagesMatchTurns
  BY <1>2, <1>3 DEF RowsOK, BudgetsOK, MessagesMatchTurns
<1>6. ReservationBacked /\ StateIsCurrent /\ HeldWithinLimits
  BY <1>2, <1>3, <1>4 DEF ReservationBacked, StateIsCurrent, HeldWithinLimits
<1> QED
  BY <1>3, <1>5, <1>6 DEF LedgerInv

\* What the migration and the recovery make of a turn of version 3: it awaits
\* nothing, holds nothing and was never dispatched.
Carried(row) ==
  /\ row \in Turn
  /\ row.status \in {"sent", "failed"} /\ row.accounting = "released"
  /\ row.tokens = 0 /\ row.reservedCost = 0 /\ ~row.sent
  /\ row.message # row.status => row.status = "failed" /\ row.message = "sent"
  /\ row.reply # "sent"

LEMMA MigratedIs ==
  ASSUME NEW c \in Chats, NEW old \in OldTurns
  PROVE  /\ Carried(Recovered(MigratedTurn(c, old)))
         /\ Recovered(MigratedTurn(c, old)).chat = c
<1> DEFINE status == IF "pending" \in {old.message, old.reply} THEN "pending"
                     ELSE IF "failed" \in {old.message, old.reply} THEN "failed"
                     ELSE "sent"
           row == MigratedTurn(c, old)
           Closed(x) == IF x = "pending" THEN "failed" ELSE x
           new == Recovered(row)
<1>1. /\ old.message \in {"pending", "sent", "failed"} /\ old.total \in Nat
      /\ old.reply \in {"none", "pending", "failed", "inherited"}
  BY LedgerAssumption
<1>2. /\ status \in {"pending", "failed", "sent"}
      /\ Closed(status) \in {"sent", "failed"}
      /\ Closed(old.message) # Closed(status) =>
           Closed(status) = "failed" /\ Closed(old.message) = "sent"
      /\ Closed(old.message) \in {"sent", "failed"}
      /\ Closed(old.reply) \in {"none", "failed", "inherited"}
  BY <1>1
<1>3. row = [NoTurnRow EXCEPT !.chat = c, !.accounting = "released", !.total = old.total,
               !.message = old.message, !.reply = old.reply, !.status = status]
  BY Zenon DEF MigratedTurn
<1> HIDE DEF status
<1>4. row = [chat |-> c, status |-> status, accounting |-> "released", tokens |-> 0,
             reservedCost |-> 0, sent |-> FALSE, total |-> old.total, cost |-> 0,
             message |-> old.message, reply |-> old.reply]
  BY <1>3 DEF NoTurnRow
<1> HIDE DEF row
<1>5. new = [row EXCEPT !.status = Closed(row.status), !.message = Closed(row.message),
                        !.reply = Closed(row.reply),
                        !.accounting = IF row.status # "pending" THEN row.accounting
                                       ELSE IF row.tokens > 0 THEN "unknown" ELSE "released"]
  BY DEF Recovered
<1>6. new = [chat |-> c, status |-> Closed(status), accounting |-> "released", tokens |-> 0,
             reservedCost |-> 0, sent |-> FALSE, total |-> old.total, cost |-> 0,
             message |-> Closed(old.message), reply |-> Closed(old.reply)]
  <2>1. (IF row.status # "pending" THEN row.accounting
         ELSE IF row.tokens > 0 THEN "unknown" ELSE "released") = "released"
    BY <1>4
  <2>2. new = [row EXCEPT !.status = Closed(status), !.message = Closed(old.message),
                          !.reply = Closed(old.reply), !.accounting = "released"]
    BY <1>4, <1>5, <2>1
  <2> HIDE DEF Closed, new
  <2> QED
    BY <1>4, <2>2
<1> HIDE DEF new, Closed
<1>7. Carried(new) /\ new.chat = c
  BY <1>1, <1>2, <1>6 DEF Carried, Turn, Statuses, Accountings
<1> QED
  BY <1>7 DEF new, row

LEMMA NoTurnRowIs ==
  /\ NoTurnRow \in Turn
  /\ NoTurnRow.chat = NoChat /\ NoTurnRow.accounting = "none"
  /\ NoTurnRow.status = "none" /\ NoTurnRow.message = "none"
  /\ NoTurnRow.reply = "none" /\ ~NoTurnRow.sent
  /\ Recovered(NoTurnRow) = NoTurnRow
  BY DEF NoTurnRow, Turn, Recovered

\* A database of version 3 satisfies the invariant: nothing is held in it.
LEMMA VersionThreeRows ==
  ASSUME VersionThreeDatabase
  PROVE  /\ mode \in [Chats -> Modes \cup {"none"}]
         /\ budgets = [c \in Chats |-> NewBudget(0, 0)]
         /\ turns \in [Turns -> Turn]
         /\ \A t \in Turns :
              \/ turns[t] = NoTurnRow
              \/ /\ Carried(turns[t]) /\ turns[t].chat \in Chats
                 /\ mode[turns[t].chat] # "none"
<1>1. PICK rows \in [Turns -> {NoTurnRow} \cup UNION {MigratedTurns(c) : c \in Chats}] :
        /\ mode \in [Chats -> Modes \cup {"none"}]
        /\ \A t \in Turns : rows[t].chat # NoChat => mode[rows[t].chat] # "none"
        /\ budgets = [c \in Chats |-> NewBudget(0, 0)]
        /\ turns = [t \in Turns |-> Recovered(rows[t])]
  BY DEF VersionThreeDatabase
<1>2. ASSUME NEW t \in Turns
      PROVE  /\ turns[t] \in Turn
             /\ \/ turns[t] = NoTurnRow
                \/ /\ Carried(turns[t]) /\ turns[t].chat \in Chats
                   /\ mode[turns[t].chat] # "none"
  <2>1. turns[t] = Recovered(rows[t])
    BY <1>1
  <2>2. CASE rows[t] = NoTurnRow
    BY <2>1, <2>2, NoTurnRowIs
  <2>3. CASE rows[t] \in UNION {MigratedTurns(c) : c \in Chats}
    <3>1. PICK c \in Chats : rows[t] \in MigratedTurns(c)
      BY <2>3
    <3>2. PICK old \in OldTurns : rows[t] = MigratedTurn(c, old)
      BY <3>1 DEF MigratedTurns
    <3>3. Carried(turns[t]) /\ turns[t].chat = c
      BY <2>1, <3>2, MigratedIs
    <3>4. rows[t].chat = c
      BY <3>2 DEF MigratedTurn, NoTurnRow
    <3> QED
      BY <1>1, <3>3, <3>4, LedgerAssumption DEF Carried
  <2> QED
    BY <2>2, <2>3
<1> QED
  BY <1>1, <1>2

LEMMA VersionThreeDatabaseOK == VersionThreeDatabase => LedgerInv
<1> SUFFICES ASSUME VersionThreeDatabase PROVE LedgerInv
  OBVIOUS
<1>1. /\ mode \in [Chats -> Modes \cup {"none"}]
      /\ budgets = [c \in Chats |-> NewBudget(0, 0)]
      /\ turns \in [Turns -> Turn]
      /\ \A t \in Turns :
           \/ turns[t] = NoTurnRow
           \/ /\ Carried(turns[t]) /\ turns[t].chat \in Chats
              /\ mode[turns[t].chat] # "none"
  BY VersionThreeRows
<1>2. /\ NewBudget(0, 0) \in Budget
      /\ NewBudget(0, 0).configured = FALSE /\ NewBudget(0, 0).tokenLimit = 0
      /\ NewBudget(0, 0).reserved = 0 /\ NewBudget(0, 0).costReserved = 0
      /\ NewBudget(0, 0).state = "unconfigured"
  BY NewBudgetOK DEF NewBudget
<1>3. \A t \in Turns : turns[t].accounting \in {"none", "released"}
  BY <1>1, NoTurnRowIs DEF Carried
<1>4. RowsOK
  BY <1>1, NoTurnRowIs, LedgerAssumption DEF RowsOK, Carried
<1>5. BudgetsOK
  BY <1>1, <1>2 DEF BudgetsOK
<1>6. MessagesMatchTurns
  BY <1>1, NoTurnRowIs DEF MessagesMatchTurns, CarriedOver, Carried
<1>7. \A c \in Chats : Open(c) = {}
  BY <1>3 DEF Open, TurnsOf
<1>8. ReservationBacked /\ HeldWithinLimits
  BY <1>1, <1>2, <1>7 DEF ReservationBacked, HeldWithinLimits
<1>9. StateIsCurrent
  <2>1. \A c \in Chats : ~\E t \in TurnsOf(c) : turns[t].accounting = "unknown"
    BY <1>3 DEF TurnsOf
  <2> QED
    BY <1>1, <1>2, <2>1 DEF StateIsCurrent, CalculateState
<1> QED
  BY <1>1, <1>2, <1>4, <1>5, <1>6, <1>8, <1>9 DEF LedgerInv

\* The budget of a chat of versions 4 to 6, and its rows.
OldBudget(m, limit, money, n, k, frozen) ==
  WithState(m, [NewBudget(limit, money) EXCEPT !.reserved = IF frozen THEN n ELSE 0,
                                               !.costReserved = IF frozen THEN k ELSE 0],
            frozen)

OlderWith(c, m, n, k, limit, money, unknown) ==
  /\ \A t, u \in unknown : t = u
  /\ n <= limit /\ k <= money
  /\ mode = [[d \in Chats |-> "none"] EXCEPT ![c] = m]
  /\ budgets = [[d \in Chats |-> NewBudget(0, 0)]
                  EXCEPT ![c] = OldBudget(m, limit, money, n, k, unknown # {})]
  /\ turns = [t \in Turns |-> turns[t]]
  /\ \A t \in Turns :
       \/ t \in unknown /\ turns[t] = LegacyTurn(c, n, k, "unknown")
       \/ t \notin unknown /\ turns[t] = LegacyTurn(c, n, k, "released")
       \/ t \notin unknown /\ turns[t] = NoTurnRow
       \/ t \notin unknown /\ Carried(turns[t]) /\ turns[t].chat = c

LEMMA OlderRows ==
  ASSUME OlderDatabase
  PROVE  \E c \in Chats, m \in Modes, n \in ReserveTokens, k \in ReserveCosts \cup {0},
            limit \in TokenLimits, unknown \in SUBSET Turns :
           \E money \in AdmissibleCostLimits(m) :
             OlderWith(c, m, n, k, limit, money, unknown)
<1>1. PICK c \in Chats, m \in Modes, n \in ReserveTokens, k \in ReserveCosts \cup {0},
           limit \in TokenLimits, released \in SUBSET Turns, unknown \in SUBSET Turns :
       \E money \in AdmissibleCostLimits(m),
          rows \in [Turns -> {NoTurnRow} \cup MigratedTurns(c)] :
         /\ released \cap unknown = {}
         /\ \A t, u \in unknown : t = u
         /\ n <= limit /\ k <= money
         /\ mode = [[d \in Chats |-> "none"] EXCEPT ![c] = m]
         /\ budgets = [[d \in Chats |-> NewBudget(0, 0)]
                         EXCEPT ![c] = OldBudget(m, limit, money, n, k, unknown # {})]
         /\ turns = [t \in Turns |->
              CASE t \in released -> LegacyTurn(c, n, k, "released")
                [] t \in unknown  -> LegacyTurn(c, n, k, "unknown")
                [] OTHER          -> Recovered(rows[t])]
  BY Zenon DEF OlderDatabase, OldBudget
<1>2. PICK money \in AdmissibleCostLimits(m),
           rows \in [Turns -> {NoTurnRow} \cup MigratedTurns(c)] :
         /\ released \cap unknown = {}
         /\ \A t, u \in unknown : t = u
         /\ n <= limit /\ k <= money
         /\ mode = [[d \in Chats |-> "none"] EXCEPT ![c] = m]
         /\ budgets = [[d \in Chats |-> NewBudget(0, 0)]
                         EXCEPT ![c] = OldBudget(m, limit, money, n, k, unknown # {})]
         /\ turns = [t \in Turns |->
              CASE t \in released -> LegacyTurn(c, n, k, "released")
                [] t \in unknown  -> LegacyTurn(c, n, k, "unknown")
                [] OTHER          -> Recovered(rows[t])]
  BY <1>1
<1>3. ASSUME NEW t \in Turns
      PROVE  \/ t \in unknown /\ turns[t] = LegacyTurn(c, n, k, "unknown")
             \/ t \notin unknown /\ turns[t] = LegacyTurn(c, n, k, "released")
             \/ t \notin unknown /\ turns[t] = NoTurnRow
             \/ t \notin unknown /\ Carried(turns[t]) /\ turns[t].chat = c
  <2>1. CASE t \in released \cup unknown
    BY <1>2, <2>1
  <2>2. CASE t \notin released \cup unknown
    <3>1. turns[t] = Recovered(rows[t])
      BY <1>2, <2>2
    <3>2. CASE rows[t] = NoTurnRow
      BY <2>2, <3>1, <3>2, NoTurnRowIs
    <3>3. CASE rows[t] \in MigratedTurns(c)
      <4>1. PICK old \in OldTurns : rows[t] = MigratedTurn(c, old)
        BY <3>3 DEF MigratedTurns
      <4> QED
        BY <2>2, <3>1, <4>1, MigratedIs
    <3> QED
      BY <1>2, <3>2, <3>3
  <2> QED
    BY <2>1, <2>2
<1>4. turns = [t \in Turns |-> turns[t]]
  BY <1>2
<1>5. OlderWith(c, m, n, k, limit, money, unknown)
  BY <1>2, <1>3, <1>4, Zenon DEF OlderWith
<1> QED
  BY <1>5

OldBudgetOK(b, m, limit, money, n, k, frozen) ==
  /\ b \in Budget /\ b.configured = TRUE /\ b.tokenLimit = limit
  /\ b.costLimit = money /\ b.used = 0 /\ b.spent = 0
  /\ b.reserved = IF frozen THEN n ELSE 0
  /\ b.costReserved = IF frozen THEN k ELSE 0
  /\ b.state = CalculateState(m, b, frozen)

LEMMA OldBudgetIs ==
  ASSUME NEW m \in Modes, NEW limit \in TokenLimits, NEW money \in AdmissibleCostLimits(m),
         NEW n \in ReserveTokens, NEW k \in ReserveCosts \cup {0}, NEW frozen \in BOOLEAN
  PROVE  OldBudgetOK(OldBudget(m, limit, money, n, k, frozen), m, limit, money, n, k, frozen)
<1>1. /\ n \in Nat \ {0} /\ k \in Nat /\ limit \in Nat \ {0} /\ money \in Nat
  BY LedgerAssumption DEF AdmissibleCostLimits
<1>2. /\ NewBudget(limit, money) \in Budget
      /\ NewBudget(limit, money).configured = TRUE
      /\ NewBudget(limit, money).tokenLimit = limit
      /\ NewBudget(limit, money).costLimit = money
      /\ NewBudget(limit, money).used = 0
      /\ NewBudget(limit, money).spent = 0
  BY <1>1, NewBudgetOK DEF NewBudget
<1> DEFINE r == IF frozen THEN n ELSE 0
           q == IF frozen THEN k ELSE 0
           new == [NewBudget(limit, money) EXCEPT !.reserved = r, !.costReserved = q]
<1>3. r \in Nat /\ q \in Nat
  BY <1>1
<1>4. /\ new \in Budget /\ new.configured = TRUE /\ new.tokenLimit = limit
      /\ new.costLimit = money /\ new.used = 0 /\ new.spent = 0
      /\ new.reserved = r /\ new.costReserved = q
  <2> HIDE DEF r, q
  <2> QED
    BY <1>2, <1>3 DEF Budget
<1>5. OldBudget(m, limit, money, n, k, frozen) = WithState(m, new, frozen)
  BY DEF OldBudget
<1> DEFINE b == WithState(m, new, frozen)
<1>6. /\ b \in Budget /\ b.configured = TRUE /\ b.tokenLimit = limit
      /\ b.costLimit = money /\ b.used = 0 /\ b.spent = 0
      /\ b.reserved = r /\ b.costReserved = q
      /\ b.state = CalculateState(m, b, frozen)
  <2> HIDE DEF new, r, q
  <2> QED
    BY <1>4, WithStateIsCurrent
<1>7. OldBudgetOK(b, m, limit, money, n, k, frozen)
  <2> HIDE DEF b
  <2> QED
    BY <1>6 DEF OldBudgetOK
<1> HIDE DEF new, b
<1> QED
  BY <1>5, <1>7 DEF b

\* A database of versions 4 to 6 satisfies the invariant.
LEMMA OlderDatabaseOK == OlderDatabase => LedgerInv
<1> SUFFICES ASSUME OlderDatabase PROVE LedgerInv
  OBVIOUS
<1>1. PICK c \in Chats, m \in Modes, n \in ReserveTokens, k \in ReserveCosts \cup {0},
           limit \in TokenLimits, unknown \in SUBSET Turns :
        \E money \in AdmissibleCostLimits(m) : OlderWith(c, m, n, k, limit, money, unknown)
  BY OlderRows
<1>1b. PICK money \in AdmissibleCostLimits(m) : OlderWith(c, m, n, k, limit, money, unknown)
  BY <1>1
<1>1a. /\ \A t, u \in unknown : t = u
       /\ n <= limit /\ k <= money
       /\ mode = [[d \in Chats |-> "none"] EXCEPT ![c] = m]
       /\ budgets = [[d \in Chats |-> NewBudget(0, 0)]
                       EXCEPT ![c] = OldBudget(m, limit, money, n, k, unknown # {})]
       /\ turns = [t \in Turns |-> turns[t]]
       /\ \A t \in Turns :
            \/ t \in unknown /\ turns[t] = LegacyTurn(c, n, k, "unknown")
            \/ t \notin unknown /\ turns[t] = LegacyTurn(c, n, k, "released")
            \/ t \notin unknown /\ turns[t] = NoTurnRow
            \/ t \notin unknown /\ Carried(turns[t]) /\ turns[t].chat = c
  BY <1>1b DEF OlderWith
<1> DEFINE frozen == unknown # {}
           b == OldBudget(m, limit, money, n, k, frozen)
<1>2. /\ n \in Nat \ {0} /\ k \in Nat /\ limit \in Nat \ {0} /\ money \in Nat /\ c # NoChat
      /\ frozen \in BOOLEAN
  BY LedgerAssumption DEF AdmissibleCostLimits
<1>3. m = "paid" => money # 0
  BY LedgerAssumption DEF AdmissibleCostLimits
<1>4a. OldBudgetOK(b, m, limit, money, n, k, frozen)
  <2> HIDE DEF frozen
  <2> QED
    BY <1>2, OldBudgetIs
<1>4. /\ b \in Budget /\ b.configured = TRUE /\ b.tokenLimit = limit /\ b.costLimit = money
      /\ b.used = 0 /\ b.spent = 0
      /\ b.reserved = IF frozen THEN n ELSE 0
      /\ b.costReserved = IF frozen THEN k ELSE 0
      /\ b.state = CalculateState(m, b, frozen)
  <2> HIDE DEF frozen, b
  <2> QED
    BY <1>4a DEF OldBudgetOK
<1>5. budgets = [[d \in Chats |-> NewBudget(0, 0)] EXCEPT ![c] = b]
  BY <1>1a
<1> HIDE DEF b
<1>7. \A a \in {"released", "unknown"} :
        /\ LegacyTurn(c, n, k, a) \in Turn
        /\ LegacyTurn(c, n, k, a).chat = c
        /\ LegacyTurn(c, n, k, a).status = "failed"
        /\ LegacyTurn(c, n, k, a).accounting = a
        /\ LegacyTurn(c, n, k, a).tokens = n
        /\ LegacyTurn(c, n, k, a).reservedCost = k
        /\ LegacyTurn(c, n, k, a).message = "failed"
        /\ LegacyTurn(c, n, k, a).reply = "none"
  BY <1>2 DEF LegacyTurn, NoTurnRow, Turn, Statuses, Accountings
<1>8. /\ NewBudget(0, 0) \in Budget
      /\ NewBudget(0, 0).configured = FALSE /\ NewBudget(0, 0).tokenLimit = 0
      /\ NewBudget(0, 0).reserved = 0 /\ NewBudget(0, 0).costReserved = 0
  BY NewBudgetOK DEF NewBudget
<1>9. /\ mode \in [Chats -> Modes \cup {"none"}]
      /\ budgets \in [Chats -> Budget]
      /\ \A d \in Chats : /\ mode[d] = IF d = c THEN m ELSE "none"
                          /\ budgets[d] = IF d = c THEN b ELSE NewBudget(0, 0)
  BY <1>1a, <1>4, <1>5, <1>8
<1>a. \A t \in Turns :
        /\ turns[t] \in Turn
        /\ t \in unknown => turns[t] = LegacyTurn(c, n, k, "unknown")
        /\ t \notin unknown => /\ turns[t].accounting \in {"none", "released"}
                               /\ turns[t].chat = NoChat <=> turns[t].accounting = "none"
                               /\ turns[t].chat \in {c, NoChat}
                               /\ turns[t].sent => turns[t].chat # NoChat
        /\ turns[t].chat \in {c, NoChat}
  BY <1>1a, <1>2, <1>7, NoTurnRowIs DEF Carried
<1>b. turns \in [Turns -> Turn]
  BY <1>1a, <1>a
<1>10. \A d \in Chats : d # c => TurnsOf(d) = {} /\ Open(d) = {}
  BY <1>a, LedgerAssumption DEF TurnsOf, Open
<1>11. Open(c) = unknown
  <2>1. \A t \in Turns : t \in Open(c) <=> t \in unknown
    BY <1>2, <1>7, <1>a DEF TurnsOf, Open
  <2> QED
    BY <2>1 DEF Open, TurnsOf
<1>12. RowsOK
  BY <1>2, <1>7, <1>9, <1>a DEF RowsOK, Modes
<1>13. BudgetsOK
  BY <1>2, <1>3, <1>4, <1>8, <1>9 DEF BudgetsOK, Modes
<1>14. MessagesMatchTurns
  <2> SUFFICES ASSUME NEW t \in Turns
               PROVE  /\ turns[t].status = "pending" <=> turns[t].accounting = "reserved"
                      /\ turns[t].message # turns[t].status =>
                           CarriedOver(t) /\ turns[t].status = "failed" /\ turns[t].message = "sent"
                      /\ turns[t].reply = "sent" <=>
                           turns[t].status = "sent" /\ turns[t].accounting = "final"
                      /\ turns[t].status = "sent" => turns[t].accounting = "final" \/ CarriedOver(t)
    BY DEF MessagesMatchTurns
  <2>1. CASE Carried(turns[t])
    BY <2>1 DEF Carried, CarriedOver
  <2>2. CASE ~Carried(turns[t])
    BY <2>2, <1>1a, <1>7, NoTurnRowIs
  <2> QED
    BY <2>1, <2>2
<1>15. ReservationBacked
  <2> SUFFICES ASSUME NEW d \in Chats
               PROVE  /\ \A v, u \in Open(d) : v = u
                      /\ Open(d) = {} => budgets[d].reserved = 0 /\ budgets[d].costReserved = 0
                      /\ \A v \in Open(d) : /\ budgets[d].reserved = turns[v].tokens
                                            /\ budgets[d].costReserved = turns[v].reservedCost
    BY DEF ReservationBacked
  <2>1. CASE d = c
    BY <2>1, <1>1a, <1>4, <1>7, <1>9, <1>11
  <2>2. CASE d # c
    BY <2>2, <1>8, <1>9, <1>10
  <2> QED
    BY <2>1, <2>2
<1>16. StateIsCurrent
  <2> SUFFICES ASSUME NEW d \in Chats, d = c
               PROVE  budgets[d].state =
                        CalculateState(m, budgets[d],
                          \E u \in TurnsOf(d) : turns[u].accounting = "unknown")
    BY <1>9 DEF StateIsCurrent
  <2>1. (\E u \in TurnsOf(c) : turns[u].accounting = "unknown") <=> frozen
    BY <1>11, <1>7, <1>a DEF Open, TurnsOf
  <2> HIDE DEF frozen
  <2> QED
    BY <1>4, <1>9, <2>1 DEF CalculateState
<1>17. HeldWithinLimits
  BY <1>1a, <1>2, <1>4, <1>9, <1>10, <1>11 DEF HeldWithinLimits
<1> QED
  BY <1>9, <1>b, <1>12, <1>13, <1>14, <1>15, <1>16, <1>17 DEF LedgerInv

\* Whatever the version of the database, no chat has been charged and no turn
\* waits when the program starts.
LEMMA InitIsQuiet ==
  ASSUME Init
  PROVE  /\ \A t \in Turns : turns[t].status # "pending" /\ turns[t].accounting # "final"
         /\ \A c \in Chats : budgets[c].used = 0 /\ budgets[c].spent = 0
<1>1. NewBudget(0, 0).used = 0 /\ NewBudget(0, 0).spent = 0
  BY DEF NewBudget
<1>2. CASE FreshDatabase
  BY <1>1, <1>2, NoTurnRowIs DEF FreshDatabase
<1>3. CASE VersionThreeDatabase
  BY <1>1, <1>3, VersionThreeRows, NoTurnRowIs DEF Carried
<1>4. CASE OlderDatabase
  <2>1. PICK c \in Chats, m \in Modes, n \in ReserveTokens, k \in ReserveCosts \cup {0},
             limit \in TokenLimits, unknown \in SUBSET Turns :
          \E money \in AdmissibleCostLimits(m) : OlderWith(c, m, n, k, limit, money, unknown)
    BY <1>4, OlderRows
  <2>b. PICK money \in AdmissibleCostLimits(m) : OlderWith(c, m, n, k, limit, money, unknown)
    BY <2>1
  <2>a. /\ budgets = [[d \in Chats |-> NewBudget(0, 0)]
                        EXCEPT ![c] = OldBudget(m, limit, money, n, k, unknown # {})]
        /\ \A t \in Turns :
             \/ turns[t] = LegacyTurn(c, n, k, "unknown")
             \/ turns[t] = LegacyTurn(c, n, k, "released")
             \/ turns[t] = NoTurnRow
             \/ Carried(turns[t])
    BY <2>b DEF OlderWith
  <2>2. \A a \in {"released", "unknown"} :
          /\ LegacyTurn(c, n, k, a).status = "failed"
          /\ LegacyTurn(c, n, k, a).accounting = a
    BY DEF LegacyTurn, NoTurnRow
  <2> DEFINE frozen == unknown # {}
             b == OldBudget(m, limit, money, n, k, frozen)
  <2>3. b.used = 0 /\ b.spent = 0
    <3>1. frozen \in BOOLEAN
      OBVIOUS
    <3>2. OldBudgetOK(b, m, limit, money, n, k, frozen)
      <4> HIDE DEF frozen
      <4> QED
        BY <3>1, OldBudgetIs
    <3> HIDE DEF frozen, b
    <3> QED
      BY <3>2 DEF OldBudgetOK
  <2>4. budgets = [[d \in Chats |-> NewBudget(0, 0)] EXCEPT ![c] = b]
    BY <2>a
  <2> HIDE DEF b
  <2>5. \A d \in Chats : budgets[d].used = 0 /\ budgets[d].spent = 0
    BY <1>1, <2>3, <2>4
  <2> QED
    BY <2>a, <2>2, <2>5, NoTurnRowIs DEF Carried
<1> QED
  BY <1>2, <1>3, <1>4 DEF Init

-----------------------------------------------------------------------------
\* So does every database the program starts with.
LEMMA LedgerInvInit == Init => LedgerInv
  BY FreshDatabaseOK, VersionThreeDatabaseOK, OlderDatabaseOK DEF Init

\* Every transaction keeps it.
LEMMA LedgerInvNext ==
  ASSUME LedgerInv, [Next]_ledger
  PROVE  LedgerInv'
<1>1. ASSUME NEW c \in Chats, NEW m \in Modes, CreateChat(c, m)
      PROVE  LedgerInv'
  BY <1>1, CreateStep DEF CreateChat
<1>2. ASSUME NEW c \in Chats, NEW m \in Modes, NEW l \in TokenLimits,
             NEW k \in CostLimits \cup {0}, CreateChatWithLimits(c, m, l, k)
      PROVE  LedgerInv'
  <2>1. l \in Nat /\ k \in Nat /\ (m = "paid" => k # 0)
    BY <1>2, LedgerAssumption DEF CreateChatWithLimits, AdmissibleCostLimits
  <2> QED
    BY <1>2, <2>1, CreateStep DEF CreateChatWithLimits
<1>3. ASSUME NEW c \in Chats, NEW l \in TokenLimits, NEW k \in CostLimits \cup {0},
             NEW confirmed \in BOOLEAN, SetChatLimits(c, l, k, confirmed)
      PROVE  LedgerInv'
  BY <1>3, SetChatLimitsStep
<1>4. ASSUME NEW c \in Chats, DeleteChat(c) PROVE LedgerInv'
  BY <1>4, DeleteChatStep
<1>5. ASSUME NEW t \in Turns, NEW c \in Chats, NEW n \in ReserveTokens,
             NEW k \in ReserveCosts \cup {0}, ReserveNew(t, c, n, k)
      PROVE  LedgerInv'
  BY <1>5, ReserveNewStep
<1>6. ASSUME NEW t \in Turns, NEW n \in ReserveTokens,
             NEW k \in ReserveCosts \cup {0}, ReserveRetry(t, n, k)
      PROVE  LedgerInv'
  BY <1>6, ReserveRetryStep
<1>7. ASSUME NEW t \in Turns, MarkRequestSent(t) PROVE LedgerInv'
  BY <1>7, MarkRequestSentStep
<1>8. ASSUME NEW t \in Turns, NEW successful \in BOOLEAN, NEW content \in BOOLEAN,
             NEW n \in UsageTokens, NEW k \in UsageCosts,
             FinalizeKnownTurn(t, successful, content, n, k)
      PROVE  LedgerInv'
  BY <1>8, FinalizeStep
<1>9. ASSUME NEW t \in Turns,
             \/ ReleaseLocalFailure(t)
             \/ ReleaseKnownFailure(t)
             \/ ReleaseUnsentDispatch(t)
             \/ ReleaseUnknownReservation(t)
      PROVE  LedgerInv'
  <2>1. turns[t].accounting \in {"reserved", "unknown"}
    BY <1>9 DEF ReleaseLocalFailure, ReleaseKnownFailure, ReleaseUnsentDispatch,
                ReleaseUnknownReservation, Active, LedgerInv, MessagesMatchTurns
  <2>2. ReleaseReservation(t, FALSE) \/ ReleaseReservation(t, turns[t].sent)
    BY <1>9 DEF ReleaseLocalFailure, ReleaseKnownFailure, ReleaseUnsentDispatch,
                ReleaseUnknownReservation
  <2>3. turns[t].sent \in BOOLEAN
    BY DEF LedgerInv, Turn
  <2> QED
    BY <2>1, <2>2, <2>3, ReleaseStep
<1>10. ASSUME NEW t \in Turns, NEW partial \in BOOLEAN, MarkUnknownOutcome(t, partial)
       PROVE  LedgerInv'
  BY <1>10, MarkUnknownStep
<1>11. CASE RecoverInterruptedTurns
  BY <1>11, RecoverStep
<1>12. CASE UNCHANGED ledger
  <2>1. mode' = mode /\ budgets' = budgets /\ turns' = turns
    BY <1>12 DEF ledger
  <2>2. \A c \in Chats : TurnsOf(c)' = TurnsOf(c) /\ Open(c)' = Open(c)
    BY <2>1 DEF Open, TurnsOf
  <2>3. ReservationBacked' /\ HeldWithinLimits'
    BY <2>1, <2>2 DEF LedgerInv, ReservationBacked, HeldWithinLimits
  <2>4. StateIsCurrent'
    BY <2>1 DEF LedgerInv, StateIsCurrent, TurnsOf
  <2>5. RowsOK' /\ BudgetsOK' /\ MessagesMatchTurns'
    BY <2>1 DEF LedgerInv, RowsOK, BudgetsOK, MessagesMatchTurns, CarriedOver
  <2> QED
    BY <2>1, <2>3, <2>4, <2>5 DEF LedgerInv
<1> QED
  BY <1>1, <1>2, <1>3, <1>4, <1>5, <1>6, <1>7, <1>8, <1>9, <1>10, <1>11, <1>12
     DEF Next, ChatStep, ReserveStep, SettleStep

-----------------------------------------------------------------------------
\* Every reservation is backed by one turn, the stored state is current, what is
\* held fits the limits and the conversation matches the accounting, after any
\* number of sends, retries, failures, crashes, limit changes and deletions, from
\* a fresh database, one migrated from version 3 or one of versions 4 to 6.
THEOREM LedgerInvariant == Spec => []LedgerInv
<1>1. LedgerInv /\ [Next]_ledger => LedgerInv'
  BY LedgerInvNext
<1> QED
  BY <1>1, LedgerInvInit, PTL DEF Spec

\* The budget holds exactly the reservation of the chat's one open turn.
THEOREM ReservationAlwaysBacked == Spec => []ReservationBacked
<1>1. LedgerInv => ReservationBacked
  BY DEF LedgerInv
<1> QED
  BY <1>1, LedgerInvariant, PTL

\* The budget state the user and the next send read is never stale.
THEOREM StateAlwaysCurrent == Spec => []StateIsCurrent
<1>1. LedgerInv => StateIsCurrent
  BY DEF LedgerInv
<1> QED
  BY <1>1, LedgerInvariant, PTL

\* What is used and held stays within the limits while anything is held.
THEOREM AlwaysHeldWithinLimits == Spec => []HeldWithinLimits
<1>1. LedgerInv => HeldWithinLimits
  BY DEF LedgerInv
<1> QED
  BY <1>1, LedgerInvariant, PTL

\* Messages and replies show what the accounting recorded: a sent turn has been
\* charged, unless _migrate_3_to_4 carried it over, and a message or a reply has
\* the status of its turn, unless the turn was carried over and never retried.
THEOREM MessagesAlwaysMatch == Spec => []MessagesMatchTurns
<1>1. LedgerInv => MessagesMatchTurns
  BY DEF LedgerInv
<1> QED
  BY <1>1, LedgerInvariant, PTL

-----------------------------------------------------------------------------
\* Type correctness, with the request journal.
JournalOK ==
  /\ hasTable \in BOOLEAN
  /\ sequence \in Nat
  /\ DOMAIN journal \subseteq 1 .. sequence
  /\ \A s \in DOMAIN journal :
       journal[s] \in Attempt /\ journal[s].chat = turns[journal[s].turn].chat

\* The journal's copy of a turn has its type.
LEMMA SnapshotType ==
  ASSUME NEW row \in Turn
  PROVE  Snapshot(row) \in [status : Statuses \cup {"none"},
                            accounting : Accountings \cup {"none"},
                            total : Nat, cost : Nat]
  BY DEF Snapshot, Turn

\* A journal row of a turn has its type, and names the turn and its chat.
LEMMA AttemptRowType ==
  ASSUME NEW t \in Turns, NEW row \in Turn, row.chat \in Chats, NEW known \in BOOLEAN
  PROVE  /\ AttemptRow(t, row, known) \in Attempt
         /\ AttemptRow(t, row, known).turn = t
         /\ AttemptRow(t, row, known).chat = row.chat
<1> DEFINE s == Snapshot(row)
<1>1. s \in [status : Statuses \cup {"none"}, accounting : Accountings \cup {"none"},
             total : Nat, cost : Nat]
  BY SnapshotType
<1>2. AttemptRow(t, row, known) =
        [turn |-> t, chat |-> row.chat, known |-> known, snapshot |-> s]
  BY DEF AttemptRow
<1> HIDE DEF s
<1> QED
  BY <1>1, <1>2 DEF Attempt

\* A transaction that adds no row, rewrites at most snapshots and moves no turn
\* to another chat keeps the journal well typed.
LEMMA JournalKept ==
  ASSUME JournalOK,
         hasTable' \in BOOLEAN, sequence' = sequence,
         DOMAIN journal' \subseteq DOMAIN journal,
         \A s \in DOMAIN journal' :
           \/ journal'[s] = journal[s]
           \/ \E row \in Turn : journal'[s] = [journal[s] EXCEPT !.snapshot = Snapshot(row)],
         \A s \in DOMAIN journal' :
           turns'[journal[s].turn].chat = turns[journal[s].turn].chat
  PROVE  JournalOK'
<1>1. ASSUME NEW s \in DOMAIN journal'
      PROVE  /\ journal'[s] \in Attempt
             /\ journal'[s].turn = journal[s].turn
             /\ journal'[s].chat = journal[s].chat
  <2>1. journal[s] \in Attempt
    BY DEF JournalOK
  <2>2. CASE journal'[s] = journal[s]
    BY <2>1, <2>2
  <2>3. ASSUME NEW row \in Turn, journal'[s] = [journal[s] EXCEPT !.snapshot = Snapshot(row)]
        PROVE  /\ journal'[s] \in Attempt
               /\ journal'[s].turn = journal[s].turn
               /\ journal'[s].chat = journal[s].chat
    BY <2>1, <2>3, SnapshotType DEF Attempt
  <2> QED
    BY <2>2, <2>3
<1> QED
  BY <1>1 DEF JournalOK

\* Synchronising the latest row of a turn keeps the journal well formed.
LEMMA SynchronizeKeeps ==
  ASSUME JournalOK, NEW j, NEW t \in Turns,
         DOMAIN j \subseteq DOMAIN journal,
         \A s \in DOMAIN j : j[s] = journal[s],
         turns' \in [Turns -> Turn],
         journal' = Synchronize(j, turns', t),
         hasTable' = hasTable, sequence' = sequence,
         \A u \in Turns : turns'[u].chat = turns[u].chat
  PROVE  JournalOK'
<1>1. DOMAIN journal' \subseteq DOMAIN journal
  BY DEF Synchronize
<1>2. \A s \in DOMAIN journal' :
           \/ journal'[s] = journal[s]
           \/ \E row \in Turn : journal'[s] = [journal[s] EXCEPT !.snapshot = Snapshot(row)]
  <2> SUFFICES ASSUME NEW s \in DOMAIN journal'
               PROVE  journal'[s] = journal[s] \/
                      journal'[s] = [journal[s] EXCEPT !.snapshot = Snapshot(turns'[t])]
    OBVIOUS
  <2>1. s \in DOMAIN j /\ j[s] = journal[s]
    BY DEF Synchronize
  <2> QED
    BY <2>1 DEF Synchronize
<1>3. \A s \in DOMAIN journal' :
           turns'[journal[s].turn].chat = turns[journal[s].turn].chat
  BY <1>1 DEF JournalOK, Attempt
<1>4. hasTable' \in BOOLEAN
  BY DEF JournalOK
<1> QED
  BY <1>1, <1>2, <1>3, <1>4, JournalKept

\* The journal after a dispatch of t: the rows that were there, or those made from
\* the turns of an older database, and one new row after them.
MarkedFrom(old, last, t) ==
  /\ last \in Nat
  /\ DOMAIN old \subseteq 1 .. last
  /\ \A s \in DOMAIN old :
       old[s] \in Attempt /\ old[s].chat = turns[old[s].turn].chat
  /\ hasTable => old = journal
  /\ ~hasTable => \E order \in BackfillOrders(turns) : old = Backfill(turns, order)
  /\ DOMAIN journal' = DOMAIN old \cup {last + 1}
  /\ \A s \in DOMAIN journal' :
       journal'[s] = IF s = last + 1 THEN AttemptRow(t, turns'[t], TRUE) ELSE old[s]
  /\ sequence' = last + 1
  /\ turns'[t].sent /\ turns'[t] \in Turn /\ turns'[t].chat \in Chats
  /\ \A u \in Turns : turns'[u].chat = turns[u].chat

\* What a mark writes: the rows kept, the older ones of the chat let go, and one
\* row more.
LEMMA MarkedJournal ==
  ASSUME LedgerInv, LedgerInv', JournalOK, NEW t \in Turns, MarkRequestSent(t)
  PROVE  \E old, last : MarkedFrom(old, last, t)
<1>1. PICK order \in BackfillOrders(turns) :
        LET old  == IF hasTable THEN journal ELSE Backfill(turns, order)
            last == IF hasTable THEN sequence ELSE Cardinality(DOMAIN order)
        IN /\ last < MaxSequence
           /\ journal' = Record(old, last + 1, turns', t)
           /\ sequence' = last + 1
  BY DEF MarkRequestSent
<1> DEFINE old  == IF hasTable THEN journal ELSE Backfill(turns, order)
           last == IF hasTable THEN sequence ELSE Cardinality(DOMAIN order)
<1>2. \A u \in Turns : turns'[u].chat = turns[u].chat
  BY DEF MarkRequestSent, LedgerInv, Turn
<1>3. Dispatched(turns) \subseteq Turns /\ Cardinality(Dispatched(turns)) \in Nat
  <2>1. Dispatched(turns) \subseteq Turns
    BY DEF Dispatched, LedgerInv
  <2>2. IsFiniteSet(Dispatched(turns))
    BY <2>1, LedgerAssumption, FS_Subset
  <2> QED
    BY <2>1, <2>2, FS_CardinalityType
<1>4. /\ DOMAIN order = 1 .. Cardinality(Dispatched(turns))
      /\ \A i \in DOMAIN order : order[i] \in Dispatched(turns)
  BY DEF BackfillOrders
<1>5. Cardinality(DOMAIN order) = Cardinality(Dispatched(turns))
  <2>1. Cardinality(Dispatched(turns)) - 1 + 1 = Cardinality(Dispatched(turns))
    BY <1>3
  <2> QED
    BY <1>3, <1>4, <2>1, FS_Interval
<1>6. last \in Nat
  BY <1>3, <1>5 DEF JournalOK
<1>7. /\ DOMAIN old \subseteq 1 .. last
      /\ \A s \in DOMAIN old : old[s] \in Attempt /\ old[s].chat = turns[old[s].turn].chat
  <2>1. CASE hasTable
    BY <2>1 DEF JournalOK
  <2>2. CASE ~hasTable
    <3>1. /\ old = Backfill(turns, order)
          /\ last = Cardinality(Dispatched(turns))
      BY <2>2, <1>5
    <3>2. DOMAIN old \subseteq 1 .. last
      BY <3>1, <1>4 DEF Backfill
    <3>3. ASSUME NEW s \in DOMAIN old
          PROVE  old[s] \in Attempt /\ old[s].chat = turns[old[s].turn].chat
      <4>1. s \in DOMAIN order /\ old[s] = AttemptRow(order[s], turns[order[s]], FALSE)
        BY <3>1 DEF Backfill
      <4>2. PICK u \in Turns : u = order[s] /\ turns[u].sent
        BY <1>3, <1>4, <4>1 DEF Dispatched
      <4>3. turns[u].chat \in Chats
        BY <4>2 DEF LedgerInv, RowsOK, Turn
      <4>4. turns[u] \in Turn
        BY DEF LedgerInv
      <4> QED
        <5> HIDE DEF old
        <5>1. /\ AttemptRow(u, turns[u], FALSE) \in Attempt
              /\ AttemptRow(u, turns[u], FALSE).turn = u
              /\ AttemptRow(u, turns[u], FALSE).chat = turns[u].chat
          BY <4>3, <4>4, AttemptRowType
        <5>2. old[s] = AttemptRow(u, turns[u], FALSE)
          BY <4>1, <4>2
        <5> QED
          BY <5>1, <5>2
    <3> QED
      BY <3>2, <3>3
  <2> QED
    BY <2>1, <2>2 DEF JournalOK
<1>8. turns'[t].sent /\ turns'[t] \in Turn /\ turns'[t].chat \in Chats
  <2>1. turns[t].status = "pending"
    BY DEF MarkRequestSent
  <2>2. turns[t].chat # NoChat
    BY <2>1 DEF LedgerInv, RowsOK, MessagesMatchTurns
  <2> QED
    BY <2>2, <1>2 DEF MarkRequestSent, LedgerInv, Turn
<1>9. /\ DOMAIN journal' = DOMAIN old \cup {last + 1}
      /\ \A s \in DOMAIN journal' :
           journal'[s] = IF s = last + 1 THEN AttemptRow(t, turns'[t], TRUE) ELSE old[s]
      /\ sequence' = last + 1
  <2> HIDE DEF old, last
  <2> QED
    BY <1>1, <1>8 DEF Record, old, last
<1>10. /\ hasTable => old = journal
       /\ ~hasTable => \E ord \in BackfillOrders(turns) : old = Backfill(turns, ord)
  OBVIOUS
<1> HIDE DEF old, last
<1> QED
  <2>1. MarkedFrom(old, last, t)
    BY <1>2, <1>6, <1>7, <1>8, <1>9, <1>10 DEF MarkedFrom
  <2> QED
    BY <2>1

\* A mark keeps the journal well formed.
LEMMA MarkKeepsJournal ==
  ASSUME LedgerInv, LedgerInv', JournalOK, NEW t \in Turns, MarkRequestSent(t)
  PROVE  JournalOK'
<1>1. PICK old, last : MarkedFrom(old, last, t)
  BY MarkedJournal
<1>2. ASSUME NEW s \in DOMAIN journal'
       PROVE  journal'[s] \in Attempt /\ journal'[s].chat = turns'[journal'[s].turn].chat
  <2>1. CASE s = last + 1
    <3>1. /\ AttemptRow(t, turns'[t], TRUE) \in Attempt
          /\ AttemptRow(t, turns'[t], TRUE).turn = t
          /\ AttemptRow(t, turns'[t], TRUE).chat = turns'[t].chat
      BY <1>1, AttemptRowType DEF MarkedFrom
    <3>2. journal'[s] = AttemptRow(t, turns'[t], TRUE)
      BY <2>1, <1>1 DEF MarkedFrom
    <3> QED
      BY <3>1, <3>2
  <2>2. CASE s # last + 1
    <3>1. journal'[s] = old[s] /\ s \in DOMAIN old
      BY <2>2, <1>1 DEF MarkedFrom
    <3>2. old[s].turn \in Turns
      BY <3>1, <1>1 DEF MarkedFrom, Attempt
    <3> QED
      BY <3>1, <3>2, <1>1 DEF MarkedFrom
  <2> QED
    BY <2>1, <2>2
<1>3. hasTable' \in BOOLEAN
  BY DEF MarkRequestSent
<1> QED
  BY <1>1, <1>2, <1>3 DEF MarkedFrom, JournalOK

\* Every transaction does.
LEMMA JournalNext ==
  ASSUME LedgerInv, LedgerInv', JournalOK, [Next]_ledger
  PROVE  JournalOK'
<1>t. \A s \in DOMAIN journal : journal[s].turn \in Turns /\ journal[s].chat \in Chats
  BY DEF JournalOK, Attempt
<1>1. CASE \/ UNCHANGED ledger
           \/ \E c \in Chats, m \in Modes : CreateChat(c, m)
           \/ \E c \in Chats, m \in Modes, l \in TokenLimits, k \in CostLimits \cup {0} :
                CreateChatWithLimits(c, m, l, k)
           \/ \E c \in Chats, l \in TokenLimits, k \in CostLimits \cup {0}, f \in BOOLEAN :
                SetChatLimits(c, l, k, f)
  <2>1. UNCHANGED <<turns, journal, hasTable, sequence>>
    BY <1>1 DEF ledger, CreateChat, CreateChatWithLimits, SetChatLimits
  <2> QED
    BY <2>1 DEF JournalOK
<1>2. ASSUME NEW c \in Chats, DeleteChat(c) PROVE JournalOK'
  <2>1. /\ hasTable' = hasTable /\ sequence' = sequence
        /\ journal' = DeleteAttemptsOf(journal, c)
    BY <1>2 DEF DeleteChat
  <2>2. /\ DOMAIN journal' \subseteq DOMAIN journal
        /\ \A s \in DOMAIN journal' : journal'[s] = journal[s] /\ journal[s].chat # c
    BY <2>1 DEF DeleteAttemptsOf
  <2>3. \A s \in DOMAIN journal' :
          turns'[journal[s].turn].chat = turns[journal[s].turn].chat
    BY <1>2, <1>t, <2>2 DEF DeleteChat, JournalOK
  <2> QED
    BY <2>1, <2>2, <2>3, JournalKept DEF JournalOK
<1>3. ASSUME NEW t \in Turns, NEW c \in Chats, NEW n \in ReserveTokens,
             NEW k \in ReserveCosts \cup {0}, ReserveNew(t, c, n, k)
      PROVE  JournalOK'
  <2>1. /\ UNCHANGED <<journal, hasTable, sequence>>
        /\ turns[t].chat = NoChat
        /\ \A u \in Turns : u # t => turns'[u] = turns[u]
    BY <1>3 DEF ReserveNew, LedgerInv
  <2>2. \A s \in DOMAIN journal : journal[s].turn # t
    BY <1>t, <2>1, LedgerAssumption DEF JournalOK
  <2> QED
    BY <1>t, <2>1, <2>2 DEF JournalOK
<1>4. ASSUME NEW t \in Turns, NEW n \in ReserveTokens,
             NEW k \in ReserveCosts \cup {0}, ReserveRetry(t, n, k)
      PROVE  JournalOK'
  <2>1. /\ UNCHANGED <<journal, hasTable, sequence>>
        /\ \A u \in Turns : turns'[u].chat = turns[u].chat
    BY <1>4 DEF ReserveRetry, LedgerInv, Turn
  <2> QED
    BY <1>t, <2>1 DEF JournalOK
<1>5. ASSUME NEW t \in Turns, MarkRequestSent(t) PROVE JournalOK'
  BY <1>5, MarkKeepsJournal
<1>6. ASSUME NEW t \in Turns,
             \/ \E successful, content \in BOOLEAN, n \in UsageTokens, k \in UsageCosts :
                  FinalizeKnownTurn(t, successful, content, n, k)
             \/ ReleaseLocalFailure(t)
             \/ ReleaseKnownFailure(t)
             \/ ReleaseUnknownReservation(t)
             \/ \E partial \in BOOLEAN : MarkUnknownOutcome(t, partial)
      PROVE  JournalOK'
  <2>1. /\ hasTable' = hasTable /\ sequence' = sequence
        /\ journal' = Synchronize(journal, turns', t)
    BY <1>6 DEF FinalizeKnownTurn, ReleaseLocalFailure, ReleaseKnownFailure,
                ReleaseUnknownReservation, MarkUnknownOutcome, ReleaseReservation
  <2>2. \A u \in Turns : turns'[u].chat = turns[u].chat
    <3>1. ASSUME NEW successful \in BOOLEAN, NEW content \in BOOLEAN,
                 NEW n \in UsageTokens, NEW k \in UsageCosts,
                 FinalizeKnownTurn(t, successful, content, n, k)
          PROVE  \A u \in Turns : turns'[u].chat = turns[u].chat
      BY <3>1 DEF FinalizeKnownTurn, LedgerInv, Turn
    <3>2. ASSUME NEW partial \in BOOLEAN, MarkUnknownOutcome(t, partial)
          PROVE  \A u \in Turns : turns'[u].chat = turns[u].chat
      BY <3>2 DEF MarkUnknownOutcome, LedgerInv, Turn
    <3>3. CASE \/ ReleaseLocalFailure(t)
               \/ ReleaseKnownFailure(t)
               \/ ReleaseUnknownReservation(t)
      <4>1. \E sent : ReleaseReservation(t, sent)
        BY <3>3 DEF ReleaseLocalFailure, ReleaseKnownFailure, ReleaseUnknownReservation
      <4> QED
        BY <4>1 DEF ReleaseReservation, LedgerInv, Turn
    <3> QED
      BY <1>6, <3>1, <3>2, <3>3
  <2> QED
    BY <2>1, <2>2, SynchronizeKeeps DEF LedgerInv
<1>7. ASSUME NEW t \in Turns, ReleaseUnsentDispatch(t) PROVE JournalOK'
  <2>1. PICK r \in DOMAIN journal :
             journal' = Synchronize(DeleteAttempt(journal, r), turns', t)
    BY <1>7 DEF ReleaseUnsentDispatch
  <2>2. /\ hasTable' = hasTable /\ sequence' = sequence
        /\ \A u \in Turns : turns'[u].chat = turns[u].chat
    BY <1>7 DEF ReleaseUnsentDispatch, ReleaseReservation, LedgerInv, Turn
  <2> DEFINE j == DeleteAttempt(journal, r)
  <2>3. DOMAIN j \subseteq DOMAIN journal /\ \A s \in DOMAIN j : j[s] = journal[s]
    BY DEF DeleteAttempt
  <2> HIDE DEF j
  <2> QED
    BY <2>1, <2>2, <2>3, SynchronizeKeeps DEF LedgerInv, j
<1>8. CASE RecoverInterruptedTurns
  <2>1. /\ hasTable' = hasTable /\ sequence' = sequence
        /\ journal' = Recover(journal, turns')
    BY <1>8 DEF RecoverInterruptedTurns
  <2>2. \A u \in Turns : turns'[u].chat = turns[u].chat /\ turns'[u] \in Turn
    <3>1. \A u \in Turns : turns'[u].chat = turns[u].chat
      <4>1. \A u \in Turns :
              turns'[u] = IF turns[u].status = "pending"
                THEN [turns[u] EXCEPT !.status = "failed", !.message = "failed",
                                      !.accounting = "unknown"]
                ELSE turns[u]
        BY <1>8, RecoveredIs DEF RecoverInterruptedTurns
      <4>2. \A u \in Turns : turns[u] \in Turn
        BY DEF LedgerInv
      <4> QED
        BY <4>1, <4>2 DEF Turn
    <3> QED
      BY <3>1 DEF LedgerInv
  <2>3. /\ DOMAIN journal' \subseteq DOMAIN journal
        /\ \A s \in DOMAIN journal' :
             \/ journal'[s] = journal[s]
             \/ journal'[s] = [journal[s] EXCEPT !.snapshot = Snapshot(turns'[journal[s].turn])]
    BY <2>1 DEF Recover
  <2> QED
    BY <1>t, <2>1, <2>2, <2>3, JournalKept DEF JournalOK
<1> QED
  BY <1>1, <1>2, <1>3, <1>4, <1>5, <1>6, <1>7, <1>8
     DEF Next, ChatStep, ReserveStep, SettleStep

\* Every table keeps its shape, the journal's rows their turns and chats.
THEOREM TypeCorrect == Spec => []TypeOK
<1>1. Init => JournalOK
  <2>1. DOMAIN EmptyJournal = {}
    BY DEF EmptyJournal
  <2> QED
    <3> SUFFICES ASSUME Init PROVE JournalOK
      OBVIOUS
    <3>1. hasTable = FALSE /\ sequence = 0 /\ DOMAIN journal = {}
      BY <2>1 DEF Init
    <3> QED
      BY <3>1 DEF JournalOK
<1>2. LedgerInv /\ JournalOK /\ [Next]_ledger => LedgerInv' /\ JournalOK'
  BY LedgerInvNext, JournalNext
<1>3. LedgerInv /\ JournalOK => TypeOK
  BY DEF LedgerInv, JournalOK, TypeOK
<1> QED
  BY <1>1, <1>2, <1>3, LedgerInvInit, PTL DEF Spec

-----------------------------------------------------------------------------
\* ChatLedger implements Escrow: every transaction of the database is, for the
\* accounts, one escrow operation or nothing.

\* The account a chat is mapped to, field by field.
LEMMA AccountFields ==
  ASSUME NEW c \in Chats
  PROVE  /\ account[c].status = IF mode[c] = "none" THEN "closed"
                                ELSE IF budgets[c].state = "accounting_unknown"
                                  THEN "frozen" ELSE "open"
         /\ account[c].limit = budgets[c].tokenLimit
         /\ account[c].used = budgets[c].used
         /\ account[c].held = budgets[c].reserved
         /\ account[c] = [status |-> account[c].status, limit |-> account[c].limit,
                          used |-> account[c].used, held |-> account[c].held]
  BY DEF account, AccountOf

\* A transaction on one chat changes that chat's account only.
LEMMA OneAccount ==
  ASSUME NEW c \in Chats,
         \A d \in Chats : d # c => mode'[d] = mode[d] /\ budgets'[d] = budgets[d]
  PROVE  account' = [account EXCEPT ![c] = AccountOf(mode'[c], budgets'[c])]
<1>1. \A d \in Chats : d # c => AccountOf(mode'[d], budgets'[d]) = AccountOf(mode[d], budgets[d])
  OBVIOUS
<1> HIDE DEF AccountOf
<1> QED
  BY <1>1 DEF account

\* Opening, with or without limits.
LEMMA OpenMaps ==
  ASSUME LedgerInv, NEW c \in Chats, NEW m \in Modes, NEW l \in Nat, NEW k,
         mode[c] = "none",
         mode' = [mode EXCEPT ![c] = m],
         budgets' = [budgets EXCEPT ![c] = NewBudget(l, k)]
  PROVE  EscrowOf!OpenAccount(c, l)
<1>1. /\ mode'[c] = m /\ m # "none"
      /\ budgets'[c] = NewBudget(l, k)
      /\ \A d \in Chats : d # c => mode'[d] = mode[d] /\ budgets'[d] = budgets[d]
  BY DEF LedgerInv, Modes
<1>2. /\ budgets'[c].state # "accounting_unknown"
      /\ budgets'[c].tokenLimit = l /\ budgets'[c].used = 0 /\ budgets'[c].reserved = 0
  BY <1>1 DEF NewBudget
<1>3. account' = [account EXCEPT ![c] =
                    [status |-> "open", limit |-> l, used |-> 0, held |-> 0]]
  <2>1. AccountOf(mode'[c], budgets'[c]) =
          [status |-> "open", limit |-> l, used |-> 0, held |-> 0]
    BY <1>1, <1>2 DEF AccountOf
  <2> QED
    BY <1>1, <2>1, OneAccount
<1>4. account[c].status = "closed"
  BY AccountFields
<1> QED
  BY <1>3, <1>4 DEF EscrowOf!OpenAccount, EscrowOf!NoAccount

\* Changing the limits of a chat sets the limit of its account.
LEMMA SetLimitMaps ==
  ASSUME LedgerInv, NEW c \in Chats, NEW l \in TokenLimits, NEW k \in CostLimits \cup {0},
         NEW confirmed \in BOOLEAN, SetChatLimits(c, l, k, confirmed)
  PROVE  EscrowOf!SetLimit(c, l)
<1> DEFINE frozen == budgets[c].state = "accounting_unknown"
           new == [budgets[c] EXCEPT !.configured = TRUE, !.tokenLimit = l, !.costLimit = k]
           b == WithState(mode[c], new, frozen)
<1>1. /\ mode' = mode /\ mode[c] # "none"
      /\ budgets' = [budgets EXCEPT ![c] = b]
      /\ l >= budgets[c].used + budgets[c].reserved
  BY DEF SetChatLimits
<1>2. /\ budgets[c] \in Budget /\ l \in Nat /\ k \in Nat /\ frozen \in BOOLEAN
      /\ DOMAIN budgets = Chats
  BY LedgerAssumption DEF LedgerInv
<1>3. /\ new \in Budget /\ new.tokenLimit = l /\ new.used = budgets[c].used
      /\ new.reserved = budgets[c].reserved
  BY <1>2 DEF Budget
<1> HIDE DEF new, frozen
<1>4. /\ b.tokenLimit = l /\ b.used = budgets[c].used /\ b.reserved = budgets[c].reserved
      /\ b.state = CalculateState(mode[c], b, frozen)
  BY <1>2, <1>3, WithStateIsCurrent
<1> HIDE DEF b
<1>5. b.state = "accounting_unknown" <=> frozen
  BY <1>2, <1>4 DEF CalculateState
<1>6. /\ budgets'[c] = b
      /\ \A d \in Chats : d # c => mode'[d] = mode[d] /\ budgets'[d] = budgets[d]
  BY <1>1, <1>2
<1>7. account[c].status =
        IF mode'[c] = "none" THEN "closed"
        ELSE IF budgets'[c].state = "accounting_unknown" THEN "frozen" ELSE "open"
  BY <1>1, <1>5, <1>6, AccountFields DEF frozen
<1>8. account' = [account EXCEPT ![c] = [status |-> account[c].status, limit |-> l,
                                         used |-> account[c].used, held |-> account[c].held]]
  <2>1. /\ account[c].used = budgets'[c].used /\ account[c].held = budgets'[c].reserved
        /\ budgets'[c].tokenLimit = l
    BY <1>4, <1>6, AccountFields
  <2>2. AccountOf(mode'[c], budgets'[c]) =
          [status |-> account[c].status, limit |-> l,
           used |-> account[c].used, held |-> account[c].held]
    BY <1>7, <2>1 DEF AccountOf
  <2> QED
    BY <1>6, <2>2, OneAccount
<1>9. account[c].status # "closed" /\ l >= account[c].used + account[c].held
  BY <1>1, AccountFields
<1> QED
  BY <1>8, <1>9, AccountFields DEF EscrowOf!SetLimit

\* A reservation holds its estimate.
LEMMA HoldMaps ==
  ASSUME LedgerInv, NEW c \in Chats, NEW n \in ReserveTokens, NEW k \in ReserveCosts \cup {0},
         CanReserve(c, n, k), NonePending(c), mode' = mode,
         budgets' = [budgets EXCEPT ![c] = WithReservation(c, n, k)]
  PROVE  EscrowOf!Hold(c, n)
<1> DEFINE new == [budgets[c] EXCEPT !.reserved = @ + n, !.costReserved = @ + k]
           b == WithState(mode[c], new, FALSE)
<1>1. /\ budgets[c] \in Budget /\ n \in Nat /\ n > 0 /\ k \in Nat
      /\ DOMAIN budgets = Chats
      /\ mode[c] # "none" /\ budgets[c].state # "accounting_unknown"
      /\ n <= budgets[c].tokenLimit - budgets[c].used - budgets[c].reserved
      /\ budgets[c].reserved = 0 /\ budgets[c].costReserved = 0
  BY LedgerAssumption, ReserveLeavesOneOpen DEF LedgerInv, CanReserve
<1>2. budgets[c].used \in Nat /\ budgets[c].tokenLimit \in Nat
  BY <1>1 DEF Budget
<1>3. budgets[c].reserved + n = n /\ budgets[c].costReserved + k = k
  BY <1>1
<1>4. /\ new \in Budget /\ new.tokenLimit = budgets[c].tokenLimit
      /\ new.used = budgets[c].used /\ new.reserved = n
  BY <1>1, <1>3 DEF Budget
<1> HIDE DEF new
<1>5. /\ b.tokenLimit = budgets[c].tokenLimit /\ b.used = budgets[c].used /\ b.reserved = n
      /\ b.state = CalculateState(mode[c], b, FALSE)
  BY <1>4, WithStateIsCurrent
<1>6. budgets'[c] = b /\ \A d \in Chats : d # c => mode'[d] = mode[d] /\ budgets'[d] = budgets[d]
  BY <1>1 DEF WithReservation, new
<1> HIDE DEF b
<1>7. b.state # "accounting_unknown"
  BY <1>5 DEF CalculateState
<1>8. account' = [account EXCEPT ![c] = [status |-> "open", limit |-> account[c].limit,
                                         used |-> account[c].used, held |-> n]]
  <2>1. /\ account[c].used = budgets'[c].used /\ account[c].limit = budgets'[c].tokenLimit
        /\ budgets'[c].reserved = n /\ mode'[c] # "none"
        /\ budgets'[c].state # "accounting_unknown"
    BY <1>1, <1>5, <1>6, <1>7, AccountFields
  <2>2. AccountOf(mode'[c], budgets'[c]) =
          [status |-> "open", limit |-> account[c].limit,
           used |-> account[c].used, held |-> n]
    BY <2>1 DEF AccountOf
  <2> QED
    BY <1>6, <2>2, OneAccount
<1>9. /\ account[c].status = "open" /\ account[c].held = 0
      /\ account[c].used + n <= account[c].limit
  <2>1. budgets[c].used + n <= budgets[c].tokenLimit
    BY <1>1, <1>2
  <2>2. account[c].status = "open" /\ account[c].held = 0
    BY <1>1, AccountFields
  <2>3. account[c].used + n <= account[c].limit
    BY <2>1, AccountFields
  <2> QED
    BY <2>2, <2>3
<1> QED
  BY <1>1, <1>8, <1>9, AccountFields DEF EscrowOf!Hold

\* What ends a reservation writes a budget that holds nothing and is not frozen.
LEMMA EmptiedAccount ==
  ASSUME LedgerInv, NEW c \in Chats, NEW used \in Nat, NEW spent \in Nat,
         mode[c] # "none", mode' = mode,
         budgets' = [budgets EXCEPT ![c] =
           WithState(mode[c], [budgets[c] EXCEPT !.reserved = 0, !.costReserved = 0,
                                                 !.used = used, !.spent = spent], FALSE)]
  PROVE  account' = [account EXCEPT ![c] = [status |-> "open", limit |-> account[c].limit,
                                            used |-> used, held |-> 0]]
<1> DEFINE new == [budgets[c] EXCEPT !.reserved = 0, !.costReserved = 0,
                                     !.used = used, !.spent = spent]
           b == WithState(mode[c], new, FALSE)
<1>1. budgets[c] \in Budget /\ DOMAIN budgets = Chats
  BY DEF LedgerInv
<1>2. /\ new \in Budget /\ new.tokenLimit = budgets[c].tokenLimit
      /\ new.used = used /\ new.reserved = 0
  BY <1>1 DEF Budget
<1>3. budgets'[c] = b /\ \A d \in Chats : d # c => mode'[d] = mode[d] /\ budgets'[d] = budgets[d]
  BY <1>1
<1> HIDE DEF new
<1>4. /\ b.tokenLimit = budgets[c].tokenLimit /\ b.used = used /\ b.reserved = 0
      /\ b.state = CalculateState(mode[c], b, FALSE)
  BY <1>2, WithStateIsCurrent
<1> HIDE DEF b
<1>5. b.state # "accounting_unknown"
  BY <1>4 DEF CalculateState
<1>6. /\ account[c].limit = budgets'[c].tokenLimit
      /\ budgets'[c].used = used /\ budgets'[c].reserved = 0 /\ mode'[c] # "none"
      /\ budgets'[c].state # "accounting_unknown"
  BY <1>3, <1>4, <1>5, AccountFields
<1>7. AccountOf(mode'[c], budgets'[c]) =
        [status |-> "open", limit |-> account[c].limit, used |-> used, held |-> 0]
  BY <1>6 DEF AccountOf
<1> QED
  BY <1>3, <1>7, OneAccount

\* Charging the reported usage settles what was held.
LEMMA SettleMaps ==
  ASSUME LedgerInv, NEW t \in Turns, NEW successful \in BOOLEAN, NEW content \in BOOLEAN,
         NEW n \in UsageTokens, NEW k \in UsageCosts,
         FinalizeKnownTurn(t, successful, content, n, k)
  PROVE  \E c \in Chats : EscrowOf!Settle(c, n)
<1>1. turns[t].accounting = "reserved"
  BY DEF FinalizeKnownTurn, Active, LedgerInv, MessagesMatchTurns
<1>2. PICK c \in Chats : /\ turns[t].chat = c
                         /\ mode[c] \in Modes
                         /\ t \in Open(c)
                         /\ \A u \in Turns \ {t} : turns[u].chat = c =>
                              turns[u].accounting \notin {"reserved", "unknown"}
                         /\ budgets[c].reserved = turns[t].tokens
  BY <1>1, OpenTurn
<1>3. /\ budgets[c] \in Budget /\ n \in Nat /\ k \in Nat
      /\ mode[c] # "none" /\ mode' = mode
  BY <1>2, LedgerAssumption DEF LedgerInv, Modes, FinalizeKnownTurn
<1>4. /\ budgets[c].used \in Nat /\ budgets[c].spent \in Nat
      /\ budgets[c].used + n \in Nat /\ budgets[c].spent + k \in Nat
  BY <1>3 DEF Budget
<1>5. WithoutReservation(t) = [budgets[c] EXCEPT !.reserved = 0, !.costReserved = 0]
  BY <1>1, <1>2, WithoutReservationOK
<1>6. [WithoutReservation(t) EXCEPT !.used = @ + n, !.spent = @ + k] =
        [budgets[c] EXCEPT !.reserved = 0, !.costReserved = 0,
                           !.used = budgets[c].used + n, !.spent = budgets[c].spent + k]
  BY <1>3, <1>5 DEF Budget
<1>7. budgets' = [budgets EXCEPT ![c] =
           WithState(mode[c], [budgets[c] EXCEPT !.reserved = 0, !.costReserved = 0,
                       !.used = budgets[c].used + n, !.spent = budgets[c].spent + k], FALSE)]
  BY <1>2, <1>6 DEF FinalizeKnownTurn
<1>8. account' = [account EXCEPT ![c] = [status |-> "open", limit |-> account[c].limit,
                                         used |-> budgets[c].used + n, held |-> 0]]
  BY <1>3, <1>4, <1>7, EmptiedAccount
<1>9. turns[t].tokens > 0
  BY <1>1 DEF LedgerInv, RowsOK
<1>10. budgets[c].state # "accounting_unknown"
  <2>1. ~\E u \in TurnsOf(c) : turns[u].accounting = "unknown"
    BY <1>1, <1>2 DEF TurnsOf
  <2>2. budgets[c].state = CalculateState(mode[c], budgets[c],
                             \E u \in TurnsOf(c) : turns[u].accounting = "unknown")
    BY <1>3 DEF LedgerInv, StateIsCurrent
  <2> QED
    BY <2>1, <2>2 DEF CalculateState
<1>11. account[c].status = "open" /\ account[c].held > 0 /\ account[c].used = budgets[c].used
  BY <1>2, <1>3, <1>9, <1>10, AccountFields
<1>12. account' = [account EXCEPT ![c] = EscrowOf!Emptied(c, account[c].used + n)]
  BY <1>8, <1>11 DEF EscrowOf!Emptied
<1> QED
  BY <1>11, <1>12 DEF EscrowOf!Settle

\* A release returns it.
LEMMA ReturnMaps ==
  ASSUME LedgerInv, NEW t \in Turns, NEW sent \in BOOLEAN,
         turns[t].accounting \in {"reserved", "unknown"}, ReleaseReservation(t, sent)
  PROVE  \E c \in Chats : EscrowOf!Return(c)
<1>1. PICK c \in Chats : /\ turns[t].chat = c
                         /\ mode[c] \in Modes
                         /\ \A u \in Turns \ {t} : turns[u].chat = c =>
                              turns[u].accounting \notin {"reserved", "unknown"}
                         /\ budgets[c].reserved = turns[t].tokens
  BY OpenTurn
<1>2. /\ budgets[c] \in Budget /\ mode[c] # "none" /\ mode' = mode
      /\ turns[t].tokens > 0
  BY <1>1 DEF LedgerInv, RowsOK, Modes, ReleaseReservation
<1>3. budgets[c].used \in Nat /\ budgets[c].spent \in Nat
  BY <1>2 DEF Budget
<1>4. WithoutReservation(t) = [budgets[c] EXCEPT !.reserved = 0, !.costReserved = 0]
  BY <1>1, WithoutReservationOK
<1>5. [budgets[c] EXCEPT !.reserved = 0, !.costReserved = 0] =
        [budgets[c] EXCEPT !.reserved = 0, !.costReserved = 0,
                           !.used = budgets[c].used, !.spent = budgets[c].spent]
  BY <1>2 DEF Budget
<1>6. OtherUnknown(t) = FALSE
  BY <1>1 DEF OtherUnknown, TurnsOf
<1>7. budgets' = [budgets EXCEPT ![c] =
           WithState(mode[c], [budgets[c] EXCEPT !.reserved = 0, !.costReserved = 0,
                       !.used = budgets[c].used, !.spent = budgets[c].spent], FALSE)]
  BY <1>1, <1>4, <1>5, <1>6 DEF ReleaseReservation
<1>8. account' = [account EXCEPT ![c] = [status |-> "open", limit |-> account[c].limit,
                                         used |-> budgets[c].used, held |-> 0]]
  BY <1>2, <1>3, <1>7, EmptiedAccount
<1>9. account[c].held > 0 /\ account[c].used = budgets[c].used
  BY <1>1, <1>2, AccountFields
<1>10. account' = [account EXCEPT ![c] = EscrowOf!Emptied(c, account[c].used)]
  BY <1>8, <1>9 DEF EscrowOf!Emptied
<1> QED
  BY <1>9, <1>10 DEF EscrowOf!Return

\* A chat with an open turn holds something.
LEMMA OpenHolds ==
  ASSUME LedgerInv, NEW c \in Chats, NEW t \in Open(c)
  PROVE  account[c].held > 0 /\ mode[c] # "none"
<1>1. /\ t \in Turns /\ turns[t].chat = c /\ turns[t].accounting \in {"reserved", "unknown"}
      /\ c # NoChat
  BY LedgerAssumption DEF Open, TurnsOf
<1>2. turns[t].tokens > 0 /\ mode[c] # "none" /\ budgets[c].reserved = turns[t].tokens
  BY <1>1 DEF LedgerInv, RowsOK, ReservationBacked
<1> QED
  BY <1>2, AccountFields

\* Budgets that only turn accounting_unknown where something is held.
LEMMA FreezeMaps ==
  ASSUME LedgerInv, NEW S \in SUBSET Chats, mode' = mode,
         \A c \in S : Open(c) # {},
         \A c \in Chats :
           budgets'[c] = IF c \in S THEN [budgets[c] EXCEPT !.state = "accounting_unknown"]
                                    ELSE budgets[c]
  PROVE  EscrowOf!Freeze(S)
<1>1. \A c \in S : account[c].held > 0 /\ mode[c] # "none"
  BY OpenHolds
<1>2. ASSUME NEW c \in S
      PROVE  AccountOf(mode'[c], budgets'[c]) = [account[c] EXCEPT !.status = "frozen"]
  <2>1. /\ budgets'[c] = [budgets[c] EXCEPT !.state = "accounting_unknown"]
        /\ budgets[c] \in Budget /\ mode'[c] # "none"
    BY <1>1 DEF LedgerInv
  <2>2. /\ budgets'[c].state = "accounting_unknown"
        /\ budgets'[c].tokenLimit = budgets[c].tokenLimit
        /\ budgets'[c].used = budgets[c].used
        /\ budgets'[c].reserved = budgets[c].reserved
    BY <2>1 DEF Budget
  <2>3. AccountOf(mode'[c], budgets'[c]) =
          [status |-> "frozen", limit |-> budgets[c].tokenLimit,
           used |-> budgets[c].used, held |-> budgets[c].reserved]
    BY <2>1, <2>2 DEF AccountOf
  <2>4. account[c] = [status |-> account[c].status, limit |-> budgets[c].tokenLimit,
                      used |-> budgets[c].used, held |-> budgets[c].reserved]
    BY AccountFields
  <2>5. [account[c] EXCEPT !.status = "frozen"] =
          [status |-> "frozen", limit |-> budgets[c].tokenLimit,
           used |-> budgets[c].used, held |-> budgets[c].reserved]
    BY <2>4
  <2> QED
    BY <2>3, <2>5
<1>3. ASSUME NEW c \in Chats, c \notin S
      PROVE  AccountOf(mode'[c], budgets'[c]) = account[c]
  BY <1>3 DEF account
<1>4. account' = [c \in Chats |-> IF c \in S THEN [account[c] EXCEPT !.status = "frozen"]
                                             ELSE account[c]]
  <2> HIDE DEF AccountOf
  <2> QED
    BY <1>2, <1>3 DEF account
<1> QED
  BY <1>1, <1>4 DEF EscrowOf!Freeze

\* Deleting a chat closes its account.
LEMMA CloseMaps ==
  ASSUME LedgerInv, NEW c \in Chats, DeleteChat(c)
  PROVE  EscrowOf!CloseAccount(c)
<1>1. /\ mode'[c] = "none" /\ budgets'[c] = NewBudget(0, 0)
      /\ \A d \in Chats : d # c => mode'[d] = mode[d] /\ budgets'[d] = budgets[d]
  BY DEF DeleteChat, LedgerInv
<1>2. AccountOf(mode'[c], budgets'[c]) = EscrowOf!NoAccount
  BY <1>1 DEF AccountOf, NewBudget, EscrowOf!NoAccount
<1>3. account[c].status # "closed"
  BY AccountFields DEF DeleteChat
<1> QED
  BY <1>1, <1>2, <1>3, OneAccount DEF EscrowOf!CloseAccount

\* After a restart the frozen accounts are those with an unknown outcome, old or new.
LEMMA RecoverMaps ==
  ASSUME LedgerInv, LedgerInv', RecoverInterruptedTurns
  PROVE  \E S \in SUBSET Chats : EscrowOf!Freeze(S)
<1> DEFINE S == {c \in Chats : \E t \in TurnsOf(c) : turns'[t].accounting = "unknown"}
<1>1. /\ mode' = mode
      /\ \A c \in Chats :
           budgets'[c] = IF c \in S THEN [budgets[c] EXCEPT !.state = "accounting_unknown"]
                                    ELSE budgets[c]
  BY DEF RecoverInterruptedTurns
<1>2. ASSUME NEW c \in S PROVE Open(c) # {}
  <2>1. PICK t \in TurnsOf(c) : turns'[t].accounting = "unknown"
    OBVIOUS
  <2>2. t \in Turns /\ turns[t] \in Turn
    BY DEF TurnsOf, LedgerInv
  <2>3. turns[t].accounting \in {"reserved", "unknown"}
    <3>1. CASE turns[t].status = "pending"
      BY <2>2, <3>1 DEF LedgerInv, MessagesMatchTurns
    <3>2. CASE turns[t].status # "pending"
      <4>1. turns'[t] = turns[t]
        BY <2>2, <3>2, RecoveredIs DEF RecoverInterruptedTurns
      <4> QED
        BY <2>1, <4>1
    <3> QED
      BY <3>1, <3>2
  <2> QED
    BY <2>3 DEF Open
<1> HIDE DEF S
<1>3. S \in SUBSET Chats
  BY DEF S
<1> QED
  BY <1>1, <1>2, <1>3, FreezeMaps

\* Leaving a turn in doubt freezes the account.
LEMMA MarkUnknownMaps ==
  ASSUME LedgerInv, NEW t \in Turns, NEW partial \in BOOLEAN, MarkUnknownOutcome(t, partial)
  PROVE  \E S \in SUBSET Chats : EscrowOf!Freeze(S)
<1>1. turns[t].accounting = "reserved"
  BY DEF MarkUnknownOutcome, Active, LedgerInv, MessagesMatchTurns
<1>2. PICK c \in Chats : turns[t].chat = c /\ t \in Open(c)
  BY <1>1, OpenTurn
<1>3. mode' = mode /\ budgets' = [budgets EXCEPT ![c].state = "accounting_unknown"]
  BY <1>2 DEF MarkUnknownOutcome
<1>4. \A d \in Chats :
        budgets'[d] = IF d \in {c} THEN [budgets[d] EXCEPT !.state = "accounting_unknown"]
                                   ELSE budgets[d]
  BY <1>3 DEF LedgerInv
<1> QED
  BY <1>2, <1>3, <1>4, FreezeMaps

\* The program starts with accounts the escrow may start with.
LEMMA InitMaps == Init => EscrowOf!Init
<1> SUFFICES ASSUME Init PROVE EscrowOf!Init
  OBVIOUS
<1>0. LedgerInv
  BY LedgerInvInit
<1>1. ASSUME NEW c \in Chats
      PROVE  /\ account[c] \in EscrowOf!Account
             /\ account[c].status = "closed" => account[c] = EscrowOf!NoAccount
             /\ account[c].status = "frozen" => account[c].held > 0
             /\ account[c].held > 0 => account[c].used + account[c].held <= account[c].limit
  <2>1. budgets[c] \in Budget
    BY <1>0 DEF LedgerInv
  <2>2. account[c] \in EscrowOf!Account
    <3>1. /\ budgets[c].tokenLimit \in Nat /\ budgets[c].used \in Nat
          /\ budgets[c].reserved \in Nat
      BY <2>1 DEF Budget
    <3> DEFINE s == IF mode[c] = "none" THEN "closed"
                    ELSE IF budgets[c].state = "accounting_unknown" THEN "frozen" ELSE "open"
    <3>2. s \in {"closed", "open", "frozen"}
      OBVIOUS
    <3>3. account[c] = [status |-> s, limit |-> budgets[c].tokenLimit,
                        used |-> budgets[c].used, held |-> budgets[c].reserved]
      BY DEF account, AccountOf
    <3> HIDE DEF s
    <3> QED
      BY <3>1, <3>2, <3>3 DEF EscrowOf!Account
  <2>3. ASSUME account[c].status = "closed" PROVE account[c] = EscrowOf!NoAccount
    <3>1. mode[c] = "none"
      BY <2>3, AccountFields
    <3>2. budgets[c] = NewBudget(0, 0)
      BY <1>0, <3>1 DEF LedgerInv, BudgetsOK
    <3>3. /\ budgets[c].tokenLimit = 0 /\ budgets[c].used = 0 /\ budgets[c].reserved = 0
      BY <3>2 DEF NewBudget
    <3>4. account[c] = [status |-> "closed", limit |-> 0, used |-> 0, held |-> 0]
      BY <3>1, <3>3 DEF account, AccountOf
    <3> QED
      BY <3>4 DEF EscrowOf!NoAccount
  <2>4. ASSUME account[c].status = "frozen" PROVE account[c].held > 0
    <3>1. mode[c] # "none" /\ budgets[c].state = "accounting_unknown"
      BY <2>4, AccountFields
    <3>2. budgets[c].state = CalculateState(mode[c], budgets[c],
                               \E u \in TurnsOf(c) : turns[u].accounting = "unknown")
      BY <1>0, <3>1 DEF LedgerInv, StateIsCurrent
    <3>3. PICK u \in TurnsOf(c) : turns[u].accounting = "unknown"
      BY <3>1, <3>2 DEF CalculateState
    <3>4. u \in Open(c)
      BY <3>3 DEF Open
    <3> QED
      BY <1>0, <3>4, OpenHolds
  <2>5. ASSUME account[c].held > 0
        PROVE  account[c].used + account[c].held <= account[c].limit
    <3>1. Open(c) # {}
      <4>1. budgets[c].reserved > 0
        BY <2>5, AccountFields
      <4> QED
        BY <1>0, <4>1 DEF LedgerInv, ReservationBacked
    <3>2. budgets[c].used + budgets[c].reserved <= budgets[c].tokenLimit
      BY <1>0, <3>1 DEF LedgerInv, HeldWithinLimits
    <3> QED
      BY <3>2, AccountFields
  <2> QED
    BY <2>2, <2>3, <2>4, <2>5
<1>2. account \in [Chats -> EscrowOf!Account]
  BY <1>1 DEF account
<1> QED
  BY <1>1, <1>2 DEF EscrowOf!Init

\* Every step is a step of the escrow, or leaves the accounts alone.
LEMMA StepMaps == LedgerInv /\ LedgerInv' /\ [Next]_ledger => [EscrowOf!Next]_account
<1> SUFFICES ASSUME LedgerInv, LedgerInv', [Next]_ledger PROVE [EscrowOf!Next]_account
  OBVIOUS
<1> DEFINE Amounts == TokenLimits \cup ReserveTokens \cup UsageTokens \cup {0}
<1>1. ASSUME NEW c \in Chats, NEW m \in Modes, CreateChat(c, m)
      PROVE  EscrowOf!Next
  BY <1>1, OpenMaps DEF CreateChat, EscrowOf!Next
<1>2. ASSUME NEW c \in Chats, NEW m \in Modes, NEW l \in TokenLimits,
             NEW k \in CostLimits \cup {0}, CreateChatWithLimits(c, m, l, k)
      PROVE  EscrowOf!Next
  BY <1>2, OpenMaps, LedgerAssumption DEF CreateChatWithLimits, EscrowOf!Next
<1>3. ASSUME NEW c \in Chats, NEW l \in TokenLimits, NEW k \in CostLimits \cup {0},
             NEW confirmed \in BOOLEAN, SetChatLimits(c, l, k, confirmed)
      PROVE  EscrowOf!Next
  BY <1>3, SetLimitMaps DEF EscrowOf!Next
<1>4. ASSUME NEW c \in Chats, DeleteChat(c) PROVE EscrowOf!Next
  BY <1>4, CloseMaps DEF EscrowOf!Next
<1>5. ASSUME NEW t \in Turns, NEW c \in Chats, NEW n \in ReserveTokens,
             NEW k \in ReserveCosts \cup {0}, ReserveNew(t, c, n, k)
      PROVE  EscrowOf!Next
  BY <1>5, HoldMaps DEF ReserveNew, EscrowOf!Next
<1>6. ASSUME NEW t \in Turns, NEW n \in ReserveTokens, NEW k \in ReserveCosts \cup {0},
             ReserveRetry(t, n, k)
      PROVE  EscrowOf!Next
  <2>1. PICK c \in Chats : turns[t].chat = c
    BY <1>6 DEF ReserveRetry, LedgerInv, Turn
  <2> QED
    BY <1>6, <2>1, HoldMaps DEF ReserveRetry, EscrowOf!Next
<1>7. ASSUME NEW t \in Turns, MarkRequestSent(t) PROVE UNCHANGED account
  BY <1>7 DEF MarkRequestSent, account
<1>8. ASSUME NEW t \in Turns, NEW successful \in BOOLEAN, NEW content \in BOOLEAN,
             NEW n \in UsageTokens, NEW k \in UsageCosts,
             FinalizeKnownTurn(t, successful, content, n, k)
      PROVE  EscrowOf!Next
  BY <1>8, SettleMaps DEF EscrowOf!Next
<1>9. ASSUME NEW t \in Turns,
             \/ ReleaseLocalFailure(t)
             \/ ReleaseKnownFailure(t)
             \/ ReleaseUnsentDispatch(t)
             \/ ReleaseUnknownReservation(t)
      PROVE  EscrowOf!Next
  <2>1. turns[t].accounting \in {"reserved", "unknown"}
    BY <1>9 DEF ReleaseLocalFailure, ReleaseKnownFailure, ReleaseUnsentDispatch,
                ReleaseUnknownReservation, Active, LedgerInv, MessagesMatchTurns
  <2>2. ReleaseReservation(t, FALSE) \/ ReleaseReservation(t, turns[t].sent)
    BY <1>9 DEF ReleaseLocalFailure, ReleaseKnownFailure, ReleaseUnsentDispatch,
                ReleaseUnknownReservation
  <2>3. turns[t].sent \in BOOLEAN
    BY DEF LedgerInv, Turn
  <2>4. \E c \in Chats : EscrowOf!Return(c)
    BY <2>1, <2>2, <2>3, ReturnMaps
  <2> QED
    BY <2>4 DEF EscrowOf!Next
<1>10. ASSUME NEW t \in Turns, NEW partial \in BOOLEAN, MarkUnknownOutcome(t, partial)
       PROVE  EscrowOf!Next
  BY <1>10, MarkUnknownMaps DEF EscrowOf!Next
<1>11. CASE RecoverInterruptedTurns
  BY <1>11, RecoverMaps DEF EscrowOf!Next
<1>12. CASE UNCHANGED ledger
  BY <1>12 DEF ledger, account
<1> QED
  BY <1>1, <1>2, <1>3, <1>4, <1>5, <1>6, <1>7, <1>8, <1>9, <1>10, <1>11, <1>12
     DEF Next, ChatStep, ReserveStep, SettleStep

\* The ledger never lends twice, never lends from a chat with an unknown outcome
\* or beyond its limit, and gives back what it held and nothing else.
THEOREM LedgerImplementsEscrow == Spec => ImplementsEscrow
<1>1. LedgerInv /\ [Next]_ledger => LedgerInv'
  BY LedgerInvNext
<1> QED
  BY <1>1, LedgerInvInit, InitMaps, StepMaps, PTL DEF Spec, ImplementsEscrow, EscrowOf!Spec

-----------------------------------------------------------------------------
(* What the ledger remembers.                                              *)

\* Sums over finite sets.  FiniteSetsExt computes one by removing an arbitrary
\* element at a time; that the choice does not matter is proved by induction on
\* the set, here as a statement about a set of sets.

\* Induction over the subsets of a finite set: a family G of subsets with the
\* empty one, and with every set whose subsets of one element less are all in it,
\* has the whole set.
LEMMA SetInduction ==
  ASSUME NEW S, IsFiniteSet(S), NEW G \in SUBSET SUBSET S,
         {} \in G,
         \A T \in SUBSET S : T # {} /\ (\A x \in T : T \ {x} \in G) => T \in G
  PROVE  S \in G
<1> DEFINE B == (SUBSET S) \ G
<1> SUFFICES ASSUME B # {} PROVE FALSE
  OBVIOUS
<1>1. IsWellFoundedOn(StrictSubsetOrdering(S), SUBSET S)
  <2>1. FiniteSubsetsOf(S) = SUBSET S
    BY FS_FiniteSubsetsOfFinite, Zenon
  <2>2. IsWellFoundedOn(StrictSubsetOrdering(S), FiniteSubsetsOf(S))
    BY FS_StrictSubsetOrderingWellFounded, Zenon
  <2> QED
    BY <2>1, <2>2
<1>2. PICK T \in B : \A U \in B : ~ (<<U, T>> \in StrictSubsetOrdering(S))
  <2> B \subseteq SUBSET S
    OBVIOUS
  <2> HIDE DEF B
  <2> QED
    BY <1>1, WFMin
<1>3. \A x \in T : T \ {x} \in G
  <2> SUFFICES ASSUME NEW x \in T, T \ {x} \notin G PROVE FALSE
    OBVIOUS
  <2>1. T \ {x} \in B
    OBVIOUS
  <2>2. ~(<<T \ {x}, T>> \in StrictSubsetOrdering(S))
    BY <1>2, <2>1
  <2>3. <<T \ {x}, T>> \in (SUBSET S) \X (SUBSET S)
    OBVIOUS
  <2>4. T \ {x} \subseteq T /\ T \ {x} # T
    OBVIOUS
  <2> QED
    BY <2>2, <2>3, <2>4 DEF StrictSubsetOrdering
<1> QED
  BY <1>2, <1>3

\* Some element of a set: the one the fold of the model takes next.
Pick(s) == CHOOSE x \in s : TRUE

\* g is the sum of f over each subset of S, one picked element at a time.
IsSum(g, f, S) ==
  g = [s \in SUBSET S |-> IF s = {} THEN 0 ELSE f[Pick(s)] + g[s \ {Pick(s)}]]

\* A set that is not empty has the element picked of it.
LEMMA PickIn == ASSUME NEW S, S # {} PROVE Pick(S) \in S
  BY DEF Pick

\* A sum is 0, or the picked element's value and the sum of the rest.
LEMMA SumStep ==
  ASSUME NEW f, NEW S, NEW g, IsSum(g, f, S), NEW T \in SUBSET S
  PROVE  /\ T = {} => g[T] = 0
         /\ T # {} => g[T] = f[Pick(T)] + g[T \ {Pick(T)}]
<1> DEFINE h == [s \in SUBSET S |-> IF s = {} THEN 0 ELSE f[Pick(s)] + g[s \ {Pick(s)}]]
<1>1. h[T] = IF T = {} THEN 0 ELSE f[Pick(T)] + g[T \ {Pick(T)}]
  OBVIOUS
<1>2. g = h
  BY DEF IsSum
<1> QED
  BY <1>1, <1>2

\* Two sums of one function agree wherever both are defined.
LEMMA SumUnique ==
  ASSUME NEW f, NEW A, NEW B, NEW g, NEW h, IsSum(g, f, A), IsSum(h, f, B),
         NEW T, T \subseteq A, T \subseteq B, IsFiniteSet(T)
  PROVE  g[T] = h[T]
<1> DEFINE G == {U \in SUBSET T : g[U] = h[U]}
<1>1. {} \in G
  <2>1. g[{}] = 0 /\ h[{}] = 0
    BY SumStep
  <2> QED
    BY <2>1
<1>2. ASSUME NEW U \in SUBSET T, U # {}, \A x \in U : U \ {x} \in G
      PROVE  U \in G
  <2>1. Pick(U) \in U
    BY <1>2, PickIn
  <2>2. g[U \ {Pick(U)}] = h[U \ {Pick(U)}]
    BY <1>2, <2>1
  <2>3. g[U] = f[Pick(U)] + g[U \ {Pick(U)}] /\ h[U] = f[Pick(U)] + h[U \ {Pick(U)}]
    <3> U \in SUBSET A /\ U \in SUBSET B
      OBVIOUS
    <3> HIDE DEF G
    <3> QED
      BY <1>2, SumStep
  <2> QED
    BY <2>2, <2>3
<1>3. T \in G
  <2> G \in SUBSET SUBSET T
    OBVIOUS
  <2> HIDE DEF G
  <2> QED
    BY <1>1, <1>2, SetInduction
<1> QED
  BY <1>3

\* A finite set has a sum.
LEMMA SumExists ==
  ASSUME NEW f, NEW S, IsFiniteSet(S)
  PROVE  \E g : IsSum(g, f, S)
<1> DEFINE G == {T \in SUBSET S : \E g : IsSum(g, f, T)}
           Of(T) == CHOOSE g : IsSum(g, f, T)
<1>1. {} \in G
  <2> DEFINE g == [s \in SUBSET {} |-> 0]
  <2>1. \A s \in SUBSET {} : s = {}
    OBVIOUS
  <2>2. [s \in SUBSET {} |-> IF s = {} THEN 0 ELSE f[Pick(s)] + g[s \ {Pick(s)}]]
        = [s \in SUBSET {} |-> 0]
    BY <2>1
  <2>3. IsSum(g, f, {})
    BY <2>2 DEF IsSum
  <2> QED
    BY <2>3
<1>2. ASSUME NEW T \in SUBSET S, T # {}, \A x \in T : T \ {x} \in G
      PROVE  T \in G
  <2>1. \A x \in T : IsSum(Of(T \ {x}), f, T \ {x})
    <3> SUFFICES ASSUME NEW x \in T PROVE IsSum(Of(T \ {x}), f, T \ {x})
      OBVIOUS
    <3>1. \E g : IsSum(g, f, T \ {x})
      BY <1>2
    <3> QED
      BY <3>1
  <2> HIDE DEF Of
  <2> DEFINE Out(U) == Pick(T \ U)
             h == [U \in SUBSET T |-> IF U = T THEN f[Pick(T)] + Of(T \ {Pick(T)})[T \ {Pick(T)}]
                                      ELSE Of(T \ {Out(U)})[U]]
  <2>2. ASSUME NEW U \in SUBSET T
        PROVE  h[U] = IF U = {} THEN 0 ELSE f[Pick(U)] + h[U \ {Pick(U)}]
    <3>1. CASE U = T
      <4> DEFINE c == Pick(T)
      <4>1. c \in T
        BY <1>2, PickIn
      <4>2. T \ (T \ {c}) = {c} /\ T \ {c} # T /\ T \ {c} \in SUBSET T
        BY <4>1
      <4>3. Out(T \ {c}) = c
        BY <4>2, PickIn
      <4>4. h[T \ {c}] = Of(T \ {c})[T \ {c}]
        <5> HIDE DEF c, Out
        <5> QED
          BY <4>2, <4>3
      <4>5. h[T] = f[c] + Of(T \ {c})[T \ {c}]
        OBVIOUS
      <4> QED
        BY <1>2, <3>1, <4>4, <4>5
    <3>2. CASE U # T
      <4> DEFINE x == Out(U)
      <4>1. x \in T /\ x \notin U
        <5> T \ U # {}
          BY <3>2
        <5> QED
          BY PickIn
      <4>2. h[U] = Of(T \ {x})[U]
        BY <3>2
      <4>3. U \in SUBSET (T \ {x})
        BY <4>1
      <4>4. CASE U = {}
        <5> HIDE DEF x, h
        <5>1. IsSum(Of(T \ {x}), f, T \ {x})
          BY <4>1, <2>1
        <5>2. Of(T \ {x})[U] = 0
          BY <4>3, <4>4, <5>1, SumStep
        <5> QED
          BY <4>2, <4>4, <5>2
      <4>5. CASE U # {}
        <5> DEFINE W == U \ {Pick(U)}
                   y == Out(W)
        <5>1. Pick(U) \in U
          BY <4>5, PickIn
        <5>2. W \in SUBSET T /\ W # T
          BY <5>1
        <5>3. y \in T /\ y \notin W
          <6> T \ W # {}
            BY <5>1
          <6> QED
            BY PickIn
        <5>4. h[W] = Of(T \ {y})[W]
          BY <5>2
        <5>5. Of(T \ {x})[U] = f[Pick(U)] + Of(T \ {x})[W]
          <6> HIDE DEF x, h
          <6> QED
            BY <4>1, <4>3, <4>5, <2>1, SumStep
        <5>6. Of(T \ {x})[W] = Of(T \ {y})[W]
          <6>1. IsFiniteSet(W)
            BY FS_Subset, <5>2
          <6>2. W \subseteq T \ {x} /\ W \subseteq T \ {y}
            BY <4>1, <5>3
          <6> HIDE DEF x, y, W, h
          <6> QED
            BY <4>1, <5>3, <6>1, <6>2, <2>1, SumUnique
        <5> HIDE DEF x, y, h
        <5> QED
          BY <4>2, <4>5, <5>4, <5>5, <5>6
      <4> QED
        BY <4>4, <4>5
    <3> QED
      BY <3>1, <3>2
  <2>3. IsSum(h, f, T)
    <3>1. h = [U \in SUBSET T |-> h[U]]
      OBVIOUS
    <3> HIDE DEF h
    <3> QED
      BY <2>2, <3>1 DEF IsSum
  <2> QED
    <3> HIDE DEF h
    <3> QED
      BY <2>3
<1>3. S \in G
  <2> G \in SUBSET SUBSET S
    OBVIOUS
  <2> HIDE DEF G
  <2> QED
    BY <1>1, <1>2, SetInduction
<1> QED
  BY <1>3

\* The sum of f over S.
Total(f, S) == (CHOOSE g : IsSum(g, f, S))[S]

\* The sum over a subset is what any sum of the whole set gives it.
LEMMA TotalIs ==
  ASSUME NEW f, NEW S, IsFiniteSet(S), NEW T \in SUBSET S, NEW g, IsSum(g, f, S)
  PROVE  Total(f, T) = g[T]
<1>1. IsFiniteSet(T)
  BY FS_Subset
<1>2. IsSum(CHOOSE h : IsSum(h, f, T), f, T)
  BY <1>1, SumExists
<1> QED
  BY <1>1, <1>2, SumUnique DEF Total

\* Nothing adds up to 0.
LEMMA TotalOfNone ==
  ASSUME NEW f
  PROVE  Total(f, {}) = 0
<1>1. IsFiniteSet({})
  BY FS_EmptySet
<1>2. PICK g : IsSum(g, f, {})
  BY <1>1, SumExists
<1>3. g[{}] = 0
  BY <1>2, SumStep
<1> QED
  BY <1>1, <1>2, <1>3, TotalIs

\* The sum of a set is the picked element's value and the sum of the rest.
LEMMA TotalStep ==
  ASSUME NEW f, NEW S, IsFiniteSet(S), S # {}
  PROVE  Total(f, S) = f[Pick(S)] + Total(f, S \ {Pick(S)})
<1>1. PICK g : IsSum(g, f, S)
  BY SumExists
<1>2. g[S] = f[Pick(S)] + g[S \ {Pick(S)}]
  BY <1>1, SumStep
<1>3. Total(f, S) = g[S] /\ Total(f, S \ {Pick(S)}) = g[S \ {Pick(S)}]
  BY <1>1, TotalIs
<1> QED
  BY <1>2, <1>3

\* Natural numbers add up to one.
LEMMA TotalType ==
  ASSUME NEW f, NEW S, IsFiniteSet(S), \A x \in S : f[x] \in Nat
  PROVE  Total(f, S) \in Nat
<1> DEFINE G == {T \in SUBSET S : Total(f, T) \in Nat}
<1>1. {} \in G
  BY TotalOfNone
<1>2. ASSUME NEW T \in SUBSET S, T # {}, \A x \in T : T \ {x} \in G
      PROVE  T \in G
  <2>1. Pick(T) \in T /\ IsFiniteSet(T)
    BY <1>2, PickIn, FS_Subset
  <2>2. Total(f, T \ {Pick(T)}) \in Nat
    BY <1>2, <2>1
  <2>3. Total(f, T) = f[Pick(T)] + Total(f, T \ {Pick(T)})
    BY <1>2, <2>1, TotalStep
  <2> QED
    BY <2>1, <2>2, <2>3
<1>3. G \in SUBSET SUBSET S
  OBVIOUS
<1>4. S \in G
  <2> HIDE DEF G
  <2> QED
    BY <1>1, <1>2, <1>3, SetInduction
<1> QED
  BY <1>4

\* It does not matter which element is taken out first.
LEMMA TotalRemove ==
  ASSUME NEW f, NEW S, IsFiniteSet(S), \A x \in S : f[x] \in Nat, NEW a \in S
  PROVE  Total(f, S) = f[a] + Total(f, S \ {a})
<1> DEFINE G == {T \in SUBSET S : \A x \in T : Total(f, T) = f[x] + Total(f, T \ {x})}
<1>1. {} \in G
  OBVIOUS
<1>2. ASSUME NEW T \in SUBSET S, T # {}, \A x \in T : T \ {x} \in G
      PROVE  T \in G
  <2> SUFFICES ASSUME NEW x \in T
               PROVE  Total(f, T) = f[x] + Total(f, T \ {x})
    OBVIOUS
  <2> DEFINE y == Pick(T)
  <2>1. y \in T /\ IsFiniteSet(T)
    BY <1>2, PickIn, FS_Subset
  <2> HIDE DEF y
  <2>2. Total(f, T) = f[y] + Total(f, T \ {y})
    BY <1>2, <2>1, TotalStep DEF y
  <2>3. CASE x = y
    BY <2>2, <2>3
  <2>4. CASE x # y
    <3>1. Total(f, T \ {y}) = f[x] + Total(f, (T \ {y}) \ {x})
      <4>1. T \ {y} \in G /\ x \in T \ {y}
        BY <1>2, <2>1, <2>4
      <4> QED
        BY <4>1
    <3>2. Total(f, T \ {x}) = f[y] + Total(f, (T \ {x}) \ {y})
      <4>1. T \ {x} \in G /\ y \in T \ {x}
        BY <1>2, <2>1, <2>4
      <4> QED
        BY <4>1
    <3>3. (T \ {y}) \ {x} = (T \ {x}) \ {y}
      OBVIOUS
    <3>4. f[x] \in Nat /\ f[y] \in Nat /\ Total(f, (T \ {x}) \ {y}) \in Nat
      <4>1. IsFiniteSet((T \ {x}) \ {y})
        BY <2>1, FS_Subset
      <4>2. Total(f, (T \ {x}) \ {y}) \in Nat
        BY <4>1, TotalType
      <4> QED
        BY <2>1, <4>2
    <3> QED
      BY <2>2, <3>1, <3>2, <3>3, <3>4
  <2> QED
    BY <2>3, <2>4
<1>3. G \in SUBSET SUBSET S
  OBVIOUS
<1>4. S \in G
  <2> HIDE DEF G
  <2> QED
    BY <1>1, <1>2, <1>3, SetInduction
<1> QED
  BY <1>4

\* Functions that agree on a set have one sum there.
LEMMA TotalSame ==
  ASSUME NEW f, NEW g, NEW S, IsFiniteSet(S), \A x \in S : f[x] = g[x]
  PROVE  Total(f, S) = Total(g, S)
<1> DEFINE G == {T \in SUBSET S : Total(f, T) = Total(g, T)}
<1>1. {} \in G
  BY TotalOfNone
<1>2. ASSUME NEW T \in SUBSET S, T # {}, \A x \in T : T \ {x} \in G
      PROVE  T \in G
  <2>1. Pick(T) \in T /\ IsFiniteSet(T)
    BY <1>2, PickIn, FS_Subset
  <2>2. Total(f, T \ {Pick(T)}) = Total(g, T \ {Pick(T)})
    BY <1>2, <2>1
  <2>3. /\ Total(f, T) = f[Pick(T)] + Total(f, T \ {Pick(T)})
        /\ Total(g, T) = g[Pick(T)] + Total(g, T \ {Pick(T)})
    BY <1>2, <2>1, TotalStep
  <2> QED
    BY <2>1, <2>2, <2>3
<1>3. G \in SUBSET SUBSET S
  OBVIOUS
<1>4. S \in G
  <2> HIDE DEF G
  <2> QED
    BY <1>1, <1>2, <1>3, SetInduction
<1> QED
  BY <1>4


-----------------------------------------------------------------------------
\* ChargedOnce with Total for the fold.
totals == [t \in Turns |-> turns[t].total]
\* What each turn cost.
costs  == [t \in Turns |-> turns[t].cost]

\* A chat was charged what its settled turns used and cost.
ChargedTo(c) ==
  /\ budgets[c].used  = Total(totals, FinalTurns(c))
  /\ budgets[c].spent = Total(costs, FinalTurns(c))

\* Every chat was.
Charges == \A c \in Chats : ChargedTo(c)

\* The settled turns of a chat are finitely many.
LEMMA FinalTurnsAreTurns ==
  ASSUME NEW c \in Chats
  PROVE  FinalTurns(c) \subseteq Turns /\ IsFiniteSet(FinalTurns(c))
<1>1. FinalTurns(c) \subseteq Turns
  BY DEF FinalTurns, TurnsOf
<1> QED
  BY <1>1, LedgerAssumption, FS_Subset

\* The folds by which the model states the charges are these sums.
LEMMA FoldIsTotal ==
  ASSUME NEW c \in Chats
  PROVE  /\ MapThenSumSet(LAMBDA t : turns[t].total, FinalTurns(c)) = Total(totals, FinalTurns(c))
         /\ MapThenSumSet(LAMBDA t : turns[t].cost, FinalTurns(c)) = Total(costs, FinalTurns(c))
<1> DEFINE S == FinalTurns(c)
<1>a. S \subseteq Turns /\ IsFiniteSet(S)
  BY FinalTurnsAreTurns
<1> HIDE DEF S
<1>1. MapThenSumSet(LAMBDA t : turns[t].total, S) = Total(totals, S)
  <2> DEFINE Def(g) == g = [s \in SUBSET S |->
                              IF s = {} THEN 0
                              ELSE LET x == CHOOSE x \in s : TRUE
                                   IN  turns[x].total + g[s \ {x}]]
             it == CHOOSE g : Def(g)
  <2>1. \A g : IsSum(g, totals, S) <=> Def(g)
    <3> SUFFICES ASSUME NEW g
                 PROVE  \A s \in SUBSET S : s # {} =>
                          totals[Pick(s)] + g[s \ {Pick(s)}] = turns[Pick(s)].total + g[s \ {Pick(s)}]
      BY DEF IsSum, Pick
    <3> QED
      BY <1>a, PickIn DEF totals
  <2>2. MapThenSumSet(LAMBDA t : turns[t].total, S) = it[S]
    BY DEF MapThenSumSet, MapThenFoldSet
  <2> HIDE DEF Def
  <2>3. \E g : Def(g)
    BY <1>a, <2>1, SumExists
  <2>4. IsSum(it, totals, S)
    BY <2>1, <2>3
  <2> HIDE DEF it
  <2> QED
    BY <1>a, <2>2, <2>4, TotalIs
<1>2. MapThenSumSet(LAMBDA t : turns[t].cost, S) = Total(costs, S)
  <2> DEFINE Def(g) == g = [s \in SUBSET S |->
                              IF s = {} THEN 0
                              ELSE LET x == CHOOSE x \in s : TRUE
                                   IN  turns[x].cost + g[s \ {x}]]
             it == CHOOSE g : Def(g)
  <2>1. \A g : IsSum(g, costs, S) <=> Def(g)
    <3> SUFFICES ASSUME NEW g
                 PROVE  \A s \in SUBSET S : s # {} =>
                          costs[Pick(s)] + g[s \ {Pick(s)}] = turns[Pick(s)].cost + g[s \ {Pick(s)}]
      BY DEF IsSum, Pick
    <3> QED
      BY <1>a, PickIn DEF costs
  <2>2. MapThenSumSet(LAMBDA t : turns[t].cost, S) = it[S]
    BY DEF MapThenSumSet, MapThenFoldSet
  <2> HIDE DEF Def
  <2>3. \E g : Def(g)
    BY <1>a, <2>1, SumExists
  <2>4. IsSum(it, costs, S)
    BY <2>1, <2>3
  <2> HIDE DEF it
  <2> QED
    BY <1>a, <2>2, <2>4, TotalIs
<1> QED
  BY <1>1, <1>2 DEF S

\* Nothing is charged to c where its budget and its final turns stay.
LEMMA NothingCharged ==
  ASSUME LedgerInv, LedgerInv', NEW c \in Chats, ChargedTo(c),
         budgets'[c].used = budgets[c].used,
         budgets'[c].spent = budgets[c].spent,
         FinalTurns(c)' = FinalTurns(c),
         \A t \in FinalTurns(c) : /\ turns'[t].total = turns[t].total
                                  /\ turns'[t].cost = turns[t].cost
  PROVE  ChargedTo(c)'
<1>1. FinalTurns(c) \subseteq Turns /\ IsFiniteSet(FinalTurns(c))
  BY FinalTurnsAreTurns
<1>2. Total(totals, FinalTurns(c)) = Total(totals', FinalTurns(c))
  BY <1>1, TotalSame DEF totals
<1>3. Total(costs, FinalTurns(c)) = Total(costs', FinalTurns(c))
  BY <1>1, TotalSame DEF costs
<1> QED
  BY <1>2, <1>3 DEF ChargedTo

\* A transaction that rewrites one turn, which is final neither before nor after.
LEMMA OneTurnUncharged ==
  ASSUME LedgerInv, LedgerInv', Charges, NEW t \in Turns,
         \A u \in Turns \ {t} : turns'[u] = turns[u],
         turns[t].accounting # "final", turns'[t].accounting # "final",
         \A c \in Chats : /\ budgets'[c].used = budgets[c].used
                          /\ budgets'[c].spent = budgets[c].spent
  PROVE  Charges'
<1> SUFFICES ASSUME NEW c \in Chats PROVE ChargedTo(c)'
  BY DEF Charges
<1>1. FinalTurns(c)' = FinalTurns(c)
  BY DEF FinalTurns, TurnsOf
<1>2. \A u \in FinalTurns(c) : turns'[u] = turns[u]
  BY DEF FinalTurns, TurnsOf
<1> QED
  BY <1>1, <1>2, NothingCharged DEF Charges

\* Settling a turn adds its usage to its chat, once.
LEMMA FinalizeCharges ==
  ASSUME LedgerInv, LedgerInv', Charges, NEW t \in Turns,
         NEW successful \in BOOLEAN, NEW content \in BOOLEAN,
         NEW n \in UsageTokens, NEW k \in UsageCosts,
         FinalizeKnownTurn(t, successful, content, n, k)
  PROVE  Charges'
<1>1. turns[t].accounting = "reserved"
  BY DEF FinalizeKnownTurn, Active, LedgerInv, MessagesMatchTurns
<1>2. PICK d \in Chats : turns[t].chat = d
  BY <1>1, OpenTurn
<1>3. n \in Nat /\ k \in Nat /\ turns[t] \in Turn /\ budgets[d] \in Budget
  BY LedgerAssumption DEF LedgerInv
<1>4. /\ turns'[t].accounting = "final" /\ turns'[t].chat = d
      /\ turns'[t].total = n /\ turns'[t].cost = k
      /\ \A u \in Turns \ {t} : turns'[u] = turns[u]
  BY <1>2, <1>3 DEF FinalizeKnownTurn, LedgerInv, Turn
<1>5. budgets'[d].used = budgets[d].used + n /\ budgets'[d].spent = budgets[d].spent + k
  <2> DEFINE old == WithoutReservation(t)
             new == [old EXCEPT !.used = @ + n, !.spent = @ + k]
  <2>1. budgets'[d] = WithState(mode[d], new, FALSE)
    BY <1>2 DEF FinalizeKnownTurn, LedgerInv
  <2>2. new.used = budgets[d].used + n /\ new.spent = budgets[d].spent + k
    BY <1>2, <1>3 DEF WithoutReservation, Budget
  <2> HIDE DEF new
  <2>3. /\ WithState(mode[d], new, FALSE).used = new.used
        /\ WithState(mode[d], new, FALSE).spent = new.spent
    BY DEF WithState
  <2> QED
    BY <2>1, <2>2, <2>3
<1>6. \A c \in Chats : c # d => budgets'[c] = budgets[c]
  BY <1>2 DEF FinalizeKnownTurn, LedgerInv
<1> SUFFICES ASSUME NEW c \in Chats PROVE ChargedTo(c)'
  BY DEF Charges
<1>7. CASE c # d
  <2>1. FinalTurns(c)' = FinalTurns(c)
    BY <1>2, <1>4, <1>7 DEF FinalTurns, TurnsOf
  <2>2. \A u \in FinalTurns(c) : turns'[u] = turns[u]
    BY <1>2, <1>4, <1>7 DEF FinalTurns, TurnsOf
  <2> QED
    BY <1>6, <1>7, <2>1, <2>2, NothingCharged DEF Charges
<1>8. CASE c = d
  <2> DEFINE S == FinalTurns(c)
             P == FinalTurns(c)'
  <2>1. /\ P = S \cup {t} /\ t \notin S /\ P \ {t} = S
    BY <1>1, <1>2, <1>4, <1>8 DEF FinalTurns, TurnsOf
  <2>2. S \subseteq Turns /\ IsFiniteSet(S) /\ P \subseteq Turns /\ IsFiniteSet(P)
    <3>1. S \subseteq Turns /\ P \subseteq Turns
      BY DEF FinalTurns, TurnsOf
    <3> QED
      BY <3>1, LedgerAssumption, FS_Subset
  <2> HIDE DEF S, P
  <2>3. \A u \in P : totals'[u] \in Nat /\ costs'[u] \in Nat
    BY <2>2 DEF totals, costs, LedgerInv, Turn
  <2>4. Total(totals', P) = n + Total(totals', S)
    <3>1. totals'[t] = n
      BY <1>4 DEF totals
    <3>2. Total(totals', P) = totals'[t] + Total(totals', P \ {t})
      BY <2>1, <2>2, <2>3, TotalRemove
    <3> QED
      BY <2>1, <3>1, <3>2
  <2>5. Total(costs', P) = k + Total(costs', S)
    <3>1. costs'[t] = k
      BY <1>4 DEF costs
    <3>2. Total(costs', P) = costs'[t] + Total(costs', P \ {t})
      BY <2>1, <2>2, <2>3, TotalRemove
    <3> QED
      BY <2>1, <3>1, <3>2
  <2>6. Total(totals, S) = Total(totals', S) /\ Total(costs, S) = Total(costs', S)
    <3>1. \A u \in S : totals[u] = totals'[u] /\ costs[u] = costs'[u]
      BY <1>4, <2>1, <2>2 DEF totals, costs
    <3> QED
      BY <2>2, <3>1, TotalSame
  <2>7. budgets[c].used = Total(totals, S) /\ budgets[c].spent = Total(costs, S)
    BY DEF Charges, ChargedTo, S
  <2>8. Total(totals, S) \in Nat /\ Total(costs, S) \in Nat
    BY <1>3, <1>8, <2>7 DEF Budget
  <2>9. budgets'[c].used = Total(totals', P) /\ budgets'[c].spent = Total(costs', P)
    BY <1>3, <1>5, <1>8, <2>4, <2>5, <2>6, <2>7, <2>8
  <2> QED
    BY <2>9 DEF ChargedTo, P
<1> QED
  BY <1>7, <1>8

\* The other transactions on one turn change neither totals nor final outcomes.
LEMMA ReserveCharges ==
  ASSUME LedgerInv, LedgerInv', Charges, NEW t \in Turns, NEW c \in Chats,
         NEW n \in ReserveTokens, NEW k \in ReserveCosts \cup {0},
         ReserveNew(t, c, n, k) \/ (ReserveRetry(t, n, k) /\ turns[t].chat = c)
  PROVE  Charges'
<1>1. /\ budgets' = [budgets EXCEPT ![c] = WithReservation(c, n, k)]
      /\ \A u \in Turns \ {t} : turns'[u] = turns[u]
  BY DEF ReserveNew, ReserveRetry, LedgerInv
<1>2. turns[t].accounting # "final" /\ turns'[t].accounting # "final"
  <2>1. CASE ReserveNew(t, c, n, k)
    BY <2>1 DEF ReserveNew, LedgerInv, RowsOK, NoTurnRow, Turn
  <2>2. CASE ReserveRetry(t, n, k)
    BY <2>2 DEF ReserveRetry, LedgerInv, Turn
  <2> QED
    BY <2>1, <2>2
<1>3. /\ WithReservation(c, n, k).used = budgets[c].used
      /\ WithReservation(c, n, k).spent = budgets[c].spent
  BY DEF WithReservation, WithState, LedgerInv, Budget
<1>4. \A d \in Chats : /\ budgets'[d].used = budgets[d].used
                       /\ budgets'[d].spent = budgets[d].spent
  BY <1>1, <1>3 DEF LedgerInv
<1> QED
  BY <1>1, <1>2, <1>4, OneTurnUncharged

\* Releasing a turn charges nothing.
LEMMA ReleaseCharges ==
  ASSUME LedgerInv, LedgerInv', Charges, NEW t \in Turns, NEW sent \in BOOLEAN,
         turns[t].accounting \in {"reserved", "unknown"},
         ReleaseReservation(t, sent)
  PROVE  Charges'
<1>1. PICK c \in Chats : turns[t].chat = c
  BY OpenTurn
<1> DEFINE b == WithoutReservation(t)
           u == OtherUnknown(t)
<1>2. /\ budgets' = [budgets EXCEPT ![c] = WithState(mode[c], b, u)]
      /\ \A v \in Turns \ {t} : turns'[v] = turns[v]
      /\ turns'[t].accounting = "released"
  BY <1>1 DEF ReleaseReservation, LedgerInv, Turn
<1>3. b.used = budgets[c].used /\ b.spent = budgets[c].spent
  BY <1>1 DEF WithoutReservation, LedgerInv, Budget
<1> HIDE DEF b, u
<1>4. WithState(mode[c], b, u).used = b.used /\ WithState(mode[c], b, u).spent = b.spent
  BY DEF WithState
<1>5. \A d \in Chats : /\ budgets'[d].used = budgets[d].used
                       /\ budgets'[d].spent = budgets[d].spent
  BY <1>2, <1>3, <1>4 DEF LedgerInv
<1> QED
  BY <1>2, <1>5, OneTurnUncharged

\* Marking a turn sent, or in doubt, charges nothing.
LEMMA MarkingCharges ==
  ASSUME LedgerInv, LedgerInv', Charges, NEW t \in Turns,
         MarkRequestSent(t) \/ \E partial \in BOOLEAN : MarkUnknownOutcome(t, partial)
  PROVE  Charges'
<1>1. turns[t].accounting = "reserved"
  BY DEF MarkRequestSent, MarkUnknownOutcome, Active, LedgerInv, MessagesMatchTurns
<1>2. \A u \in Turns \ {t} : turns'[u] = turns[u]
  BY DEF MarkRequestSent, MarkUnknownOutcome, LedgerInv
<1>3. /\ turns'[t].accounting # "final"
      /\ \A d \in Chats : /\ budgets'[d].used = budgets[d].used
                          /\ budgets'[d].spent = budgets[d].spent
  <2>1. CASE MarkRequestSent(t)
    BY <1>1, <2>1 DEF MarkRequestSent, LedgerInv, Turn
  <2>2. ASSUME NEW partial \in BOOLEAN, MarkUnknownOutcome(t, partial)
        PROVE  /\ turns'[t].accounting # "final"
               /\ \A d \in Chats : /\ budgets'[d].used = budgets[d].used
                                   /\ budgets'[d].spent = budgets[d].spent
    <3>1. PICK c \in Chats : turns[t].chat = c
      BY <1>1, OpenTurn
    <3> DEFINE b == [budgets[c] EXCEPT !.state = "accounting_unknown"]
               row == [turns[t] EXCEPT !.status = "failed", !.accounting = "unknown",
                         !.message = "failed", !.reply = Reply(t, partial, FALSE)]
    <3>2. b.used = budgets[c].used /\ b.spent = budgets[c].spent
      BY DEF LedgerInv, Budget
    <3>3. row.accounting = "unknown"
      BY DEF LedgerInv, Turn
    <3>4. /\ budgets' = [budgets EXCEPT ![c] = b]
          /\ turns' = [turns EXCEPT ![t] = row]
      BY <2>2, <3>1 DEF MarkUnknownOutcome
    <3> HIDE DEF b, row
    <3> QED
      BY <3>2, <3>3, <3>4 DEF LedgerInv
  <2> QED
    BY <2>1, <2>2
<1> QED
  BY <1>1, <1>2, <1>3, OneTurnUncharged

\* Recovery charges nothing.
LEMMA RecoveryCharges ==
  ASSUME LedgerInv, LedgerInv', Charges, RecoverInterruptedTurns
  PROVE  Charges'
<1>1. \A u \in Turns :
        turns'[u] = IF turns[u].status = "pending"
                      THEN [turns[u] EXCEPT !.status = "failed", !.message = "failed",
                                            !.accounting = "unknown"]
                      ELSE turns[u]
  BY RecoveredIs DEF RecoverInterruptedTurns
<1>2. \A u \in Turns : /\ turns'[u].accounting = "final" <=> turns[u].accounting = "final"
                       /\ turns'[u].chat = turns[u].chat
                       /\ turns[u].accounting = "final" => turns'[u] = turns[u]
  <2> SUFFICES ASSUME NEW u \in Turns
               PROVE  /\ turns'[u].accounting = "final" <=> turns[u].accounting = "final"
                      /\ turns'[u].chat = turns[u].chat
                      /\ turns[u].accounting = "final" => turns'[u] = turns[u]
    OBVIOUS
  <2>1. /\ turns[u] \in Turn
        /\ turns[u].status = "pending" => turns[u].accounting = "reserved"
    BY DEF LedgerInv, MessagesMatchTurns
  <2> QED
    BY <1>1, <2>1 DEF Turn
<1>3. \A c \in Chats : /\ budgets'[c].used = budgets[c].used
                       /\ budgets'[c].spent = budgets[c].spent
  BY DEF RecoverInterruptedTurns, LedgerInv, Budget
<1> SUFFICES ASSUME NEW c \in Chats PROVE ChargedTo(c)'
  BY DEF Charges
<1>4. FinalTurns(c)' = FinalTurns(c) /\ \A u \in FinalTurns(c) : turns'[u] = turns[u]
  BY <1>2 DEF FinalTurns, TurnsOf
<1> QED
  BY <1>3, <1>4, NothingCharged DEF Charges

\* Transactions on a chat's row and budget.  A new chat has no turns yet.
LEMMA ChatCharges ==
  ASSUME LedgerInv, LedgerInv', Charges, NEW c \in Chats, NEW b \in Budget,
         turns' = turns,
         budgets' = [budgets EXCEPT ![c] = b],
         b.used = budgets[c].used, b.spent = budgets[c].spent
  PROVE  Charges'
<1> SUFFICES ASSUME NEW d \in Chats PROVE ChargedTo(d)'
  BY DEF Charges
<1>1. budgets'[d].used = budgets[d].used /\ budgets'[d].spent = budgets[d].spent
  BY DEF LedgerInv
<1>2. FinalTurns(d)' = FinalTurns(d)
  BY DEF FinalTurns, TurnsOf
<1> QED
  BY <1>1, <1>2, NothingCharged DEF Charges

\* Deleting a chat leaves the other chats' charges alone.
LEMMA DeletionCharges ==
  ASSUME LedgerInv, LedgerInv', Charges, NEW c \in Chats, DeleteChat(c)
  PROVE  Charges'
<1>1. /\ \A u \in Turns : turns'[u] = IF turns[u].chat = c THEN NoTurnRow ELSE turns[u]
      /\ \A d \in Chats : budgets'[d] = IF d = c THEN NewBudget(0, 0) ELSE budgets[d]
  BY DEF DeleteChat, LedgerInv
<1> SUFFICES ASSUME NEW d \in Chats PROVE ChargedTo(d)'
  BY DEF Charges
<1>2. CASE d = c
  <2>1. FinalTurns(d)' = {}
    BY <1>1, <1>2, LedgerAssumption DEF FinalTurns, TurnsOf, NoTurnRow
  <2>2. budgets'[d].used = 0 /\ budgets'[d].spent = 0
    BY <1>1, <1>2 DEF NewBudget
  <2> QED
    BY <2>1, <2>2, TotalOfNone DEF ChargedTo
<1>3. CASE d # c
  <2>1. FinalTurns(d)' = FinalTurns(d) /\ \A u \in FinalTurns(d) : turns'[u] = turns[u]
    BY <1>1, <1>3, LedgerAssumption DEF FinalTurns, TurnsOf, NoTurnRow
  <2> QED
    BY <1>1, <1>3, <2>1, NothingCharged DEF Charges
<1> QED
  BY <1>2, <1>3

\* The databases the program starts with have charged what they say.
LEMMA ChargesInit == Init => Charges
<1> SUFFICES ASSUME Init, NEW c \in Chats PROVE ChargedTo(c)
  BY DEF Charges
<1>1. (\A t \in Turns : turns[t].accounting # "final") /\ budgets[c].used = 0 /\ budgets[c].spent = 0
  BY InitIsQuiet
<1>2. FinalTurns(c) = {}
  BY <1>1 DEF FinalTurns, TurnsOf
<1> QED
  BY <1>1, <1>2, TotalOfNone DEF ChargedTo

\* Every transaction keeps the charges.
LEMMA ChargesNext ==
  ASSUME LedgerInv, LedgerInv', Charges, [Next]_ledger
  PROVE  Charges'
<1>1. ASSUME NEW c \in Chats, NEW m \in Modes,
             NEW l \in TokenLimits \cup {0}, NEW k \in CostLimits \cup {0},
             mode[c] = "none", turns' = turns,
             budgets' = [budgets EXCEPT ![c] = NewBudget(l, k)]
      PROVE  Charges'
  <2>1. budgets[c].used = 0 /\ budgets[c].spent = 0
    BY <1>1 DEF LedgerInv, BudgetsOK, NewBudget
  <2>2. /\ NewBudget(l, k) \in Budget
        /\ NewBudget(l, k).used = 0 /\ NewBudget(l, k).spent = 0
    BY LedgerAssumption, NewBudgetOK DEF NewBudget
  <2> QED
    BY <1>1, <2>1, <2>2, ChatCharges
<1>2. ASSUME NEW c \in Chats, NEW l \in TokenLimits, NEW k \in CostLimits \cup {0},
             NEW confirmed \in BOOLEAN, SetChatLimits(c, l, k, confirmed)
      PROVE  Charges'
  <2> DEFINE new == [budgets[c] EXCEPT !.configured = TRUE, !.tokenLimit = l, !.costLimit = k]
             u == budgets[c].state = "accounting_unknown"
             b == WithState(mode[c], new, u)
  <2>1. turns' = turns /\ budgets' = [budgets EXCEPT ![c] = b]
    BY <1>2 DEF SetChatLimits
  <2>2. new.used = budgets[c].used /\ new.spent = budgets[c].spent
    BY DEF LedgerInv, Budget
  <2>3. b.used = new.used /\ b.spent = new.spent
    <3> HIDE DEF new, u
    <3> QED
      BY DEF WithState
  <2>4. b \in Budget
    BY <2>1 DEF LedgerInv
  <2> HIDE DEF b, new
  <2> QED
    BY <2>1, <2>2, <2>3, <2>4, ChatCharges
<1>3. ASSUME NEW t \in Turns, \/ ReleaseLocalFailure(t)
                              \/ ReleaseKnownFailure(t)
                              \/ ReleaseUnsentDispatch(t)
                              \/ ReleaseUnknownReservation(t)
      PROVE  Charges'
  <2>1. turns[t].accounting \in {"reserved", "unknown"}
    BY <1>3 DEF ReleaseLocalFailure, ReleaseKnownFailure, ReleaseUnsentDispatch,
                ReleaseUnknownReservation, Active, LedgerInv, MessagesMatchTurns
  <2>2. ReleaseReservation(t, FALSE) \/ ReleaseReservation(t, turns[t].sent)
    BY <1>3 DEF ReleaseLocalFailure, ReleaseKnownFailure, ReleaseUnsentDispatch,
                ReleaseUnknownReservation
  <2>3. turns[t].sent \in BOOLEAN
    BY DEF LedgerInv, Turn
  <2> QED
    BY <2>1, <2>2, <2>3, ReleaseCharges
<1>4. CASE UNCHANGED ledger
  <2> SUFFICES ASSUME NEW c \in Chats PROVE ChargedTo(c)'
    BY DEF Charges
  <2>1. turns' = turns /\ budgets' = budgets /\ FinalTurns(c)' = FinalTurns(c)
    BY <1>4 DEF ledger, FinalTurns, TurnsOf
  <2> QED
    BY <2>1, NothingCharged DEF Charges
<1>5. CASE ChatStep
  <2>1. ASSUME NEW c \in Chats, NEW m \in Modes, CreateChat(c, m) PROVE Charges'
    BY <1>1, <2>1 DEF CreateChat
  <2>2. ASSUME NEW c \in Chats, NEW m \in Modes, NEW l \in TokenLimits,
               NEW k \in CostLimits \cup {0}, CreateChatWithLimits(c, m, l, k)
        PROVE  Charges'
    BY <1>1, <2>2 DEF CreateChatWithLimits
  <2> QED
    BY <1>2, <1>5, <2>1, <2>2, DeletionCharges DEF ChatStep
<1>6. CASE ReserveStep
  <2>1. ASSUME NEW t \in Turns, NEW n \in ReserveTokens, NEW k \in ReserveCosts \cup {0},
               ReserveRetry(t, n, k)
        PROVE  Charges'
    <3>1. turns[t].chat \in Chats
      BY <2>1 DEF ReserveRetry, LedgerInv, Turn
    <3> QED
      BY <2>1, <3>1, ReserveCharges
  <2> QED
    BY <1>6, <2>1, ReserveCharges DEF ReserveStep
<1>7. CASE SettleStep
  BY <1>3, <1>7, FinalizeCharges, MarkingCharges DEF SettleStep
<1> QED
  BY <1>4, <1>5, <1>6, <1>7, MarkingCharges, RecoveryCharges DEF Next

\* Every final outcome is charged to its chat exactly once, whatever fails, is
\* retried, voided or interrupted: the totals that the limits are compared with
\* (chat_budgets.used_total_tokens and spent_usd) are the sums over the turns.
THEOREM EveryOutcomeChargedOnce == Spec => []ChargedOnce
<1>1. Charges => ChargedOnce
  BY FoldIsTotal, Zenon DEF Charges, ChargedTo, ChargedOnce
<1>2. LedgerInv /\ Charges /\ [Next]_ledger => LedgerInv' /\ Charges'
  BY LedgerInvNext, ChargesNext
<1> QED
  BY <1>1, <1>2, LedgerInvInit, ChargesInit, PTL DEF Spec

-----------------------------------------------------------------------------
\* The journal.  A dispatched turn's latest attempt carries the outcome of the
\* turn; a pending attempt is a recorded one, of a dispatched turn, and the last
\* of its turn and of its chat; before the table exists nothing is in flight.
OutcomesCarried(j, ts) ==
  \A t \in Turns : ts[t].sent =>
    \E s \in DOMAIN j : IsLatest(j, s, t) /\ j[s].snapshot = Snapshot(ts[t])

\* A row that still tells of a pending turn tells of a request that was sent, and
\* is the last row of its turn and of its chat.
PendingIsLast(j, ts) ==
  \A s \in DOMAIN j : j[s].snapshot.status = "pending" =>
    /\ j[s].known
    /\ ts[j[s].turn].sent
    /\ IsLatest(j, s, j[s].turn)
    /\ IsLatestOfChat(j, s, j[s].chat)

\* What a row tells of its turn, once the table is there; before that there is no
\* row, and no turn waits for an answer.
JournalFollows ==
  /\ hasTable => OutcomesCarried(journal, turns)
  /\ ~hasTable => /\ DOMAIN journal = {} /\ sequence = 0
                  /\ \A t \in Turns : turns[t].sent => turns[t].status # "pending"
  /\ PendingIsLast(journal, turns)

\* A turn in flight is the only pending turn of its chat.
LEMMA OnePending ==
  ASSUME LedgerInv, NEW t \in Turns, NEW u \in Turns,
         turns[t].status = "pending", turns[u].status = "pending",
         turns[t].chat = turns[u].chat
  PROVE  t = u
<1>1. turns[t].accounting = "reserved" /\ turns[u].accounting = "reserved"
  BY DEF LedgerInv, MessagesMatchTurns
<1> QED
  BY <1>1, OpenTurn

\* The latest row of a dispatched turn shows that turn's outcome.
LEMMA LatestShows ==
  ASSUME JournalOK, JournalFollows, NEW s \in DOMAIN journal, NEW t \in Turns,
         IsLatest(journal, s, t), turns[t].sent
  PROVE  journal[s].snapshot = Snapshot(turns[t])
<1>1. hasTable
  BY DEF JournalFollows, JournalOK
<1>2. PICK r \in DOMAIN journal : /\ IsLatest(journal, r, t)
                                  /\ journal[r].snapshot = Snapshot(turns[t])
  BY <1>1 DEF JournalFollows, OutcomesCarried
<1>3. r <= s /\ s <= r /\ r \in Nat /\ s \in Nat
  BY <1>2 DEF IsLatest, JournalOK
<1> QED
  BY <1>2, <1>3

\* A pending row is the row of a turn in flight.
LEMMA PendingRow ==
  ASSUME LedgerInv, JournalOK, JournalFollows, NEW s \in DOMAIN journal,
         journal[s].snapshot.status = "pending"
  PROVE  /\ journal[s].turn \in Turns
         /\ turns[journal[s].turn].sent
         /\ turns[journal[s].turn].status = "pending"
         /\ journal[s].snapshot.accounting = "reserved"
<1>1. /\ journal[s].turn \in Turns
      /\ turns[journal[s].turn].sent
      /\ IsLatest(journal, s, journal[s].turn)
  BY DEF JournalOK, Attempt, JournalFollows, PendingIsLast
<1>2. journal[s].snapshot = Snapshot(turns[journal[s].turn])
  BY <1>1, LatestShows
<1> QED
  BY <1>1, <1>2 DEF Snapshot, LedgerInv, MessagesMatchTurns

\* What a reading of the maxima depends on.
LEMMA SameLatest ==
  ASSUME NEW j, NEW i, DOMAIN i = DOMAIN j,
         \A s \in DOMAIN j : i[s].turn = j[s].turn /\ i[s].chat = j[s].chat
  PROVE  /\ \A s, t : IsLatest(i, s, t) <=> IsLatest(j, s, t)
         /\ \A s, c : IsLatestOfChat(i, s, c) <=> IsLatestOfChat(j, s, c)
  BY DEF IsLatest, IsLatestOfChat

\* The transactions that end an attempt: the turn is no longer pending, and its
\* latest row is synchronised.
LEMMA SettledFollows ==
  ASSUME LedgerInv, LedgerInv', JournalOK, JournalFollows, NEW t \in Turns,
         \A u \in Turns \ {t} : turns'[u] = turns[u],
         turns'[t].sent = turns[t].sent, turns'[t].status # "pending",
         journal' = Synchronize(journal, turns', t),
         hasTable' = hasTable, sequence' = sequence
  PROVE  JournalFollows'
<1>1. /\ DOMAIN journal' = DOMAIN journal
      /\ \A s \in DOMAIN journal :
           /\ journal'[s].turn = journal[s].turn
           /\ journal'[s].chat = journal[s].chat
           /\ journal'[s].known = journal[s].known
           /\ journal'[s].snapshot = IF turns'[t].sent /\ IsLatest(journal, s, t)
                                       THEN Snapshot(turns'[t]) ELSE journal[s].snapshot
  BY DEF Synchronize, JournalOK, Attempt
<1>2. /\ \A s, u : IsLatest(journal', s, u) <=> IsLatest(journal, s, u)
      /\ \A s, c : IsLatestOfChat(journal', s, c) <=> IsLatestOfChat(journal, s, c)
  BY <1>1, SameLatest
<1>3. ASSUME hasTable, NEW u \in Turns, turns'[u].sent
      PROVE  \E s \in DOMAIN journal' : /\ IsLatest(journal', s, u)
                                        /\ journal'[s].snapshot = Snapshot(turns'[u])
  <2>1. turns[u].sent
    BY <1>3
  <2>2. PICK s \in DOMAIN journal : /\ IsLatest(journal, s, u)
                                    /\ journal[s].snapshot = Snapshot(turns[u])
    BY <1>3, <2>1 DEF JournalFollows, OutcomesCarried
  <2>3. CASE u = t
    BY <1>1, <1>2, <1>3, <2>2, <2>3
  <2>4. CASE u # t
    <3>1. ~IsLatest(journal, s, t)
      BY <2>2, <2>4 DEF IsLatest
    <3> QED
      BY <1>1, <1>2, <2>2, <2>4, <3>1
  <2> QED
    BY <2>3, <2>4
<1>4. ASSUME NEW s \in DOMAIN journal', journal'[s].snapshot.status = "pending"
      PROVE  /\ journal'[s].known
             /\ turns'[journal'[s].turn].sent
             /\ IsLatest(journal', s, journal'[s].turn)
             /\ IsLatestOfChat(journal', s, journal'[s].chat)
  <2>1. journal'[s].snapshot = journal[s].snapshot
    BY <1>1, <1>4 DEF Snapshot
  <2>2. journal[s].turn \in Turns /\ turns[journal[s].turn].sent
    BY <1>1, <1>4, <2>1, PendingRow
  <2>3. turns'[journal[s].turn].sent
    BY <2>2
  <2> QED
    BY <1>1, <1>2, <1>4, <2>1, <2>3 DEF JournalFollows, PendingIsLast
<1>5. ASSUME ~hasTable
      PROVE  /\ DOMAIN journal' = {} /\ sequence' = 0
             /\ \A u \in Turns : turns'[u].sent => turns'[u].status # "pending"
  BY <1>1, <1>5 DEF JournalFollows
<1> QED
  BY <1>3, <1>4, <1>5 DEF JournalFollows, OutcomesCarried, PendingIsLast

\* A turn whose current attempt is not dispatched owns no pending row.
LEMMA UnsentFollows ==
  ASSUME JournalOK, JournalFollows, NEW t \in Turns,
         \A u \in Turns \ {t} : turns'[u] = turns[u],
         ~turns'[t].sent,
         \A s \in DOMAIN journal : journal[s].turn = t => journal[s].snapshot.status # "pending",
         journal' = journal, hasTable' = hasTable, sequence' = sequence
  PROVE  JournalFollows'
<1>1. OutcomesCarried(journal, turns) => OutcomesCarried(journal, turns')
  BY DEF OutcomesCarried
<1>2. PendingIsLast(journal, turns')
  <2>1. \A s \in DOMAIN journal : journal[s].turn \in Turns
    BY DEF JournalOK, Attempt
  <2> QED
    BY <2>1 DEF JournalFollows, PendingIsLast
<1> QED
  BY <1>1, <1>2 DEF JournalFollows

\* A reservation leaves the journal telling the truth.
LEMMA ReserveFollows ==
  ASSUME LedgerInv, LedgerInv', JournalOK, JournalFollows, ReserveStep
  PROVE  JournalFollows'
<1>1. ASSUME NEW t \in Turns, NEW c \in Chats, NEW n \in ReserveTokens,
             NEW k \in ReserveCosts \cup {0}, ReserveNew(t, c, n, k)
      PROVE  JournalFollows'
  <2>1. /\ turns[t].chat = NoChat
        /\ \A u \in Turns \ {t} : turns'[u] = turns[u]
        /\ ~turns'[t].sent
    BY <1>1 DEF ReserveNew, LedgerInv, NoTurnRow
  <2>2. \A s \in DOMAIN journal : journal[s].turn # t
    BY <2>1, LedgerAssumption DEF JournalOK, Attempt
  <2> QED
    BY <1>1, <2>1, <2>2, UnsentFollows DEF ReserveNew
<1>2. ASSUME NEW t \in Turns, NEW n \in ReserveTokens,
             NEW k \in ReserveCosts \cup {0}, ReserveRetry(t, n, k)
      PROVE  JournalFollows'
  <2>1. /\ turns[t].status = "failed"
        /\ \A u \in Turns \ {t} : turns'[u] = turns[u]
        /\ ~turns'[t].sent
    BY <1>2 DEF ReserveRetry, LedgerInv, Turn
  <2>2. \A s \in DOMAIN journal : journal[s].turn = t => journal[s].snapshot.status # "pending"
    BY <2>1, PendingRow
  <2> QED
    BY <1>2, <2>1, <2>2, UnsentFollows DEF ReserveRetry
<1> QED
  BY <1>1, <1>2 DEF ReserveStep

\* A voided dispatch takes its own row with it, and no other.
LEMMA UnsentDispatchFollows ==
  ASSUME LedgerInv, LedgerInv', JournalOK, JournalFollows, NEW t \in Turns,
         ReleaseUnsentDispatch(t)
  PROVE  JournalFollows'
<1>1. PICK r \in DOMAIN journal :
           /\ IsLatest(journal, r, t)
           /\ journal' = Synchronize(DeleteAttempt(journal, r), turns', t)
  BY DEF ReleaseUnsentDispatch
<1>2. /\ hasTable' = hasTable /\ sequence' = sequence
      /\ ~turns'[t].sent
      /\ \A u \in Turns \ {t} : turns'[u] = turns[u]
  BY DEF ReleaseUnsentDispatch, ReleaseReservation, LedgerInv, Turn
<1>3. /\ DOMAIN journal' = DOMAIN journal \ {r}
      /\ \A s \in DOMAIN journal' : journal'[s] = journal[s]
  BY <1>1, <1>2 DEF Synchronize, DeleteAttempt
<1>4. hasTable
  BY <1>1 DEF JournalFollows
<1>5. ASSUME NEW u \in Turns, turns'[u].sent
      PROVE  \E s \in DOMAIN journal' : /\ IsLatest(journal', s, u)
                                        /\ journal'[s].snapshot = Snapshot(turns'[u])
  <2>1. u # t /\ turns'[u] = turns[u]
    BY <1>2, <1>5
  <2>2. PICK s \in DOMAIN journal : /\ IsLatest(journal, s, u)
                                    /\ journal[s].snapshot = Snapshot(turns[u])
    BY <1>4, <1>5, <2>1 DEF JournalFollows, OutcomesCarried
  <2>3. s # r
    BY <1>1, <2>1, <2>2 DEF IsLatest
  <2> QED
    BY <1>3, <2>1, <2>2, <2>3 DEF IsLatest
<1>6. ASSUME NEW s \in DOMAIN journal', journal'[s].snapshot.status = "pending"
      PROVE  /\ journal'[s].known
             /\ turns'[journal'[s].turn].sent
             /\ IsLatest(journal', s, journal'[s].turn)
             /\ IsLatestOfChat(journal', s, journal'[s].chat)
  <2>1. /\ s # r /\ s \in DOMAIN journal /\ journal'[s] = journal[s]
        /\ s \in Nat /\ r \in Nat
    BY <1>3 DEF JournalOK
  <2>2. /\ journal[s].known
        /\ journal[s].turn \in Turns
        /\ turns[journal[s].turn].sent
        /\ IsLatest(journal, s, journal[s].turn)
        /\ IsLatestOfChat(journal, s, journal[s].chat)
    BY <1>6, <2>1, PendingRow DEF JournalFollows, PendingIsLast
  <2>3. journal[s].turn # t
    BY <1>1, <2>1, <2>2 DEF IsLatest
  <2> QED
    BY <1>2, <1>3, <2>1, <2>2, <2>3 DEF IsLatest, IsLatestOfChat
<1> QED
  BY <1>2, <1>4, <1>5, <1>6 DEF JournalFollows, OutcomesCarried, PendingIsLast

\* So does the deletion of a chat, which takes its rows along.
LEMMA DeletionFollows ==
  ASSUME LedgerInv, LedgerInv', JournalOK, JournalFollows, NEW c \in Chats, DeleteChat(c)
  PROVE  JournalFollows'
<1>1. /\ hasTable' = hasTable /\ sequence' = sequence
      /\ \A u \in Turns : turns'[u] = IF turns[u].chat = c THEN NoTurnRow ELSE turns[u]
      /\ DOMAIN journal' = {s \in DOMAIN journal : journal[s].chat # c}
      /\ \A s \in DOMAIN journal' : journal'[s] = journal[s]
  BY DEF DeleteChat, DeleteAttemptsOf, LedgerInv
<1>2. ASSUME hasTable, NEW u \in Turns, turns'[u].sent
      PROVE  \E s \in DOMAIN journal' : /\ IsLatest(journal', s, u)
                                        /\ journal'[s].snapshot = Snapshot(turns'[u])
  <2>1. turns[u].chat # c /\ turns'[u] = turns[u]
    BY <1>1, <1>2 DEF NoTurnRow
  <2>2. PICK s \in DOMAIN journal : /\ IsLatest(journal, s, u)
                                    /\ journal[s].snapshot = Snapshot(turns[u])
    BY <1>2, <2>1 DEF JournalFollows, OutcomesCarried
  <2>3. journal[s].chat # c
    BY <2>1, <2>2 DEF IsLatest, JournalOK
  <2> QED
    BY <1>1, <2>1, <2>2, <2>3 DEF IsLatest
<1>3. ASSUME NEW s \in DOMAIN journal', journal'[s].snapshot.status = "pending"
      PROVE  /\ journal'[s].known
             /\ turns'[journal'[s].turn].sent
             /\ IsLatest(journal', s, journal'[s].turn)
             /\ IsLatestOfChat(journal', s, journal'[s].chat)
  <2>1. /\ s \in DOMAIN journal /\ journal'[s] = journal[s] /\ journal[s].chat # c
        /\ journal[s].chat = turns[journal[s].turn].chat
    BY <1>1 DEF JournalOK
  <2>2. /\ journal[s].known
        /\ journal[s].turn \in Turns
        /\ turns[journal[s].turn].sent
        /\ IsLatest(journal, s, journal[s].turn)
        /\ IsLatestOfChat(journal, s, journal[s].chat)
    BY <1>3, <2>1, PendingRow DEF JournalFollows, PendingIsLast
  <2> QED
    BY <1>1, <2>1, <2>2 DEF IsLatest, IsLatestOfChat
<1>4. ASSUME ~hasTable
      PROVE  /\ DOMAIN journal' = {} /\ sequence' = 0
             /\ \A u \in Turns : turns'[u].sent => turns'[u].status # "pending"
  BY <1>1, <1>4 DEF JournalFollows, NoTurnRow
<1> QED
  BY <1>1, <1>2, <1>3, <1>4 DEF JournalFollows, OutcomesCarried, PendingIsLast

\* A journal made from an older database has exactly one row of every dispatched
\* turn: as many rows as turns, and no two of the same turn.
LEMMA BackfillCovers ==
  ASSUME LedgerInv, NEW order \in BackfillOrders(turns), NEW u \in Turns, turns[u].sent
  PROVE  \E i \in DOMAIN order : /\ order[i] = u
                                 /\ \A k \in DOMAIN order : order[k] = u => k = i
<1> DEFINE old == Dispatched(turns)
           n == Cardinality(old)
<1>1. u \in old /\ old \subseteq Turns
  BY DEF Dispatched, LedgerInv
<1>2. IsFiniteSet(old) /\ n \in Nat
  BY <1>1, LedgerAssumption, FS_Subset, FS_CardinalityType
<1>3. /\ order \in [1 .. n -> old]
      /\ \A i, k \in DOMAIN order : order[i] = order[k] => i = k
  BY DEF BackfillOrders
<1>4. \E i \in 1 .. n : order[i] = u
  <2> SUFFICES ASSUME \A i \in 1 .. n : order[i] # u PROVE FALSE
    OBVIOUS
  <2> DEFINE rest == old \ {u}
  <2>1. order \in [1 .. n -> rest]
    BY <1>3
  <2>2. IsFiniteSet(rest) /\ Cardinality(rest) = n - 1
    BY <1>1, <1>2, FS_RemoveElement
  <2>3. IsFiniteSet(1 .. n) /\ Cardinality(1 .. n) = n
    <3>1. n - 1 + 1 = n
      BY <1>2
    <3> QED
      BY <1>2, <3>1, FS_Interval
  <2> HIDE DEF rest, old
  <2>4. \E i, k \in 1 .. n : i # k /\ order[i] = order[k]
    BY <1>2, <2>1, <2>2, <2>3, FS_PigeonHole
  <2> QED
    BY <1>3, <2>4
<1> QED
  BY <1>3, <1>4

\* The rows a dispatch starts from are in step with the turns too.
LEMMA MarkedFromFollows ==
  ASSUME LedgerInv, JournalOK, JournalFollows, NEW t \in Turns, NEW old, NEW last,
         MarkedFrom(old, last, t)
  PROVE  OutcomesCarried(old, turns) /\ PendingIsLast(old, turns)
<1>1. CASE hasTable
  BY <1>1 DEF MarkedFrom, JournalFollows
<1>2. CASE ~hasTable
  <2>1. PICK order \in BackfillOrders(turns) : old = Backfill(turns, order)
    BY <1>2 DEF MarkedFrom
  <2>2. /\ DOMAIN old = DOMAIN order
        /\ \A s \in DOMAIN old : /\ old[s].turn = order[s]
                                 /\ old[s].snapshot = Snapshot(turns[order[s]])
    BY <2>1 DEF Backfill, AttemptRow
  <2>3. ASSUME NEW u \in Turns, turns[u].sent
        PROVE  \E s \in DOMAIN old : IsLatest(old, s, u) /\ old[s].snapshot = Snapshot(turns[u])
    <3>1. PICK i \in DOMAIN order : /\ order[i] = u
                                    /\ \A k \in DOMAIN order : order[k] = u => k = i
      BY <2>3, BackfillCovers
    <3>2. i \in Nat
      BY <2>2 DEF MarkedFrom
    <3> QED
      BY <2>2, <3>1, <3>2 DEF IsLatest
  <2>4. \A s \in DOMAIN old : old[s].snapshot.status # "pending"
    <3> SUFFICES ASSUME NEW s \in DOMAIN old PROVE old[s].snapshot.status # "pending"
      OBVIOUS
    <3>1. order[s] \in Dispatched(turns)
      BY <2>2 DEF BackfillOrders
    <3>2. order[s] \in Turns /\ turns[order[s]].sent
      BY <3>1 DEF Dispatched, LedgerInv
    <3>3. turns[order[s]].status # "pending"
      BY <1>2, <3>2 DEF JournalFollows
    <3>4. old[s].snapshot = Snapshot(turns[order[s]])
      BY <2>2
    <3> QED
      BY <3>3, <3>4 DEF Snapshot
  <2> QED
    BY <2>3, <2>4 DEF OutcomesCarried, PendingIsLast
<1> QED
  BY <1>1, <1>2

\* So does a mark, whose row is the new last one.
LEMMA MarkFollows ==
  ASSUME LedgerInv, LedgerInv', JournalOK, JournalFollows, NEW t \in Turns,
         MarkRequestSent(t)
  PROVE  JournalFollows'
<1>1. PICK old, last : MarkedFrom(old, last, t)
  BY MarkedJournal
<1>2. /\ hasTable'
      /\ turns[t].status = "pending" /\ turns'[t].status = "pending"
      /\ turns[t].chat # NoChat
      /\ ~turns[t].sent
      /\ \A u \in Turns \ {t} : turns'[u] = turns[u]
      /\ turns'[t].chat = turns[t].chat
  BY DEF MarkRequestSent, LedgerInv, Turn, RowsOK, MessagesMatchTurns
<1> DEFINE new == AttemptRow(t, turns'[t], TRUE)
<1>3. /\ new.turn = t /\ new.chat = turns[t].chat /\ new.known = TRUE
      /\ new.snapshot = Snapshot(turns'[t])
  BY <1>2 DEF AttemptRow
<1> HIDE DEF new
<1>4. /\ last \in Nat
      /\ \A s \in DOMAIN old : /\ s \in Nat /\ s <= last
                               /\ old[s].turn \in Turns
                               /\ old[s].chat = turns[old[s].turn].chat
      /\ DOMAIN journal' = DOMAIN old \cup {last + 1}
      /\ journal'[last + 1] = new
      /\ \A s \in DOMAIN old : journal'[s] = old[s]
      /\ turns'[t].sent
  <2>1. /\ last \in Nat
        /\ \A s \in DOMAIN old : s \in 1 .. last
        /\ DOMAIN journal' = DOMAIN old \cup {last + 1}
        /\ \A s \in DOMAIN journal' : journal'[s] = IF s = last + 1 THEN new ELSE old[s]
        /\ turns'[t].sent
    BY <1>1 DEF MarkedFrom, new
  <2>2. \A s \in DOMAIN old : old[s].turn \in Turns /\ old[s].chat = turns[old[s].turn].chat
    BY <1>1 DEF MarkedFrom, Attempt
  <2>3. \A s \in DOMAIN old : s \in Nat /\ s <= last /\ s # last + 1
    BY <2>1
  <2> QED
    BY <2>1, <2>2, <2>3
<1>5. OutcomesCarried(old, turns) /\ PendingIsLast(old, turns)
  BY <1>1, MarkedFromFollows
<1>6. ASSUME NEW u \in Turns, turns'[u].sent
      PROVE  \E s \in DOMAIN journal' : /\ IsLatest(journal', s, u)
                                        /\ journal'[s].snapshot = Snapshot(turns'[u])
  <2>1. CASE u = t
    BY <1>3, <1>4, <2>1 DEF IsLatest
  <2>2. CASE u # t
    <3>1. PICK s \in DOMAIN old : IsLatest(old, s, u) /\ old[s].snapshot = Snapshot(turns[u])
      BY <1>2, <1>5, <1>6, <2>2 DEF OutcomesCarried
    <3> QED
      BY <1>2, <1>3, <1>4, <2>2, <3>1 DEF IsLatest
  <2> QED
    BY <2>1, <2>2
<1>7. ASSUME NEW s \in DOMAIN journal', journal'[s].snapshot.status = "pending"
      PROVE  /\ journal'[s].known
             /\ turns'[journal'[s].turn].sent
             /\ IsLatest(journal', s, journal'[s].turn)
             /\ IsLatestOfChat(journal', s, journal'[s].chat)
  <2>1. CASE s = last + 1
    BY <1>3, <1>4, <2>1 DEF IsLatest, IsLatestOfChat
  <2>2. CASE s # last + 1
    <3>1. /\ s \in DOMAIN old /\ journal'[s] = old[s]
          /\ old[s].known /\ turns[old[s].turn].sent
          /\ IsLatest(old, s, old[s].turn)
          /\ IsLatestOfChat(old, s, old[s].chat)
      BY <1>4, <1>5, <1>7, <2>2 DEF PendingIsLast
    <3>2. turns[old[s].turn].status = "pending"
      <4>1. PICK r \in DOMAIN old : /\ IsLatest(old, r, old[s].turn)
                                    /\ old[r].snapshot = Snapshot(turns[old[s].turn])
        BY <1>4, <1>5, <3>1 DEF OutcomesCarried
      <4>2. r = s
        <5>1. r <= s /\ s <= r /\ r \in Nat /\ s \in Nat
          BY <1>4, <3>1, <4>1 DEF IsLatest
        <5> QED
          BY <5>1
      <4> QED
        BY <1>7, <3>1, <4>1, <4>2 DEF Snapshot
    <3>3. old[s].turn # t /\ old[s].chat # turns[t].chat
      BY <1>2, <1>4, <3>1, <3>2, OnePending
    <3> QED
      BY <1>2, <1>3, <1>4, <3>1, <3>3 DEF IsLatest, IsLatestOfChat
  <2> QED
    BY <2>1, <2>2
<1> QED
  BY <1>2, <1>6, <1>7 DEF JournalFollows, OutcomesCarried, PendingIsLast

\* A restart settles the turns in flight and the rows that show them.
LEMMA RecoveryRows ==
  ASSUME LedgerInv, JournalOK, JournalFollows, RecoverInterruptedTurns
  PROVE  /\ hasTable' = hasTable /\ sequence' = sequence
         /\ \A u \in Turns : turns'[u].status # "pending" /\ turns'[u].sent = turns[u].sent
         /\ \A u \in Turns : turns[u].status # "pending" => turns'[u] = turns[u]
         /\ DOMAIN journal' = DOMAIN journal
         /\ \A s \in DOMAIN journal :
              /\ journal'[s].turn = journal[s].turn
              /\ journal'[s].chat = journal[s].chat
              /\ journal[s].snapshot.status # "pending" => journal'[s] = journal[s]
              /\ journal[s].snapshot.status = "pending" =>
                   journal'[s].snapshot = Snapshot(turns'[journal[s].turn])
<1>1. /\ hasTable' = hasTable /\ sequence' = sequence
      /\ journal' = Recover(journal, turns')
      /\ \A u \in Turns :
           turns'[u] = IF turns[u].status = "pending"
             THEN [turns[u] EXCEPT !.status = "failed", !.message = "failed",
                                   !.accounting = "unknown"]
             ELSE turns[u]
  BY RecoveredIs DEF RecoverInterruptedTurns
<1>2. \A u \in Turns : turns[u] \in Turn
  BY DEF LedgerInv
<1>3. /\ \A u \in Turns : turns'[u].status # "pending" /\ turns'[u].sent = turns[u].sent
      /\ \A u \in Turns : turns[u].status # "pending" => turns'[u] = turns[u]
  <2> SUFFICES ASSUME NEW u \in Turns
               PROVE  /\ turns'[u].status # "pending" /\ turns'[u].sent = turns[u].sent
                      /\ turns[u].status # "pending" => turns'[u] = turns[u]
    OBVIOUS
  <2>1. CASE turns[u].status = "pending"
    BY <1>1, <1>2, <2>1 DEF Turn
  <2>2. CASE turns[u].status # "pending"
    BY <1>1, <2>2
  <2> QED
    BY <2>1, <2>2
<1> DEFINE Stale(u) == /\ turns'[u].status # "pending"
                       /\ turns'[u].sent
                       /\ \E r \in DOMAIN journal :
                            journal[r].turn = u /\ journal[r].snapshot.status = "pending"
<1>4. /\ DOMAIN journal' = DOMAIN journal
      /\ \A s \in DOMAIN journal :
           journal'[s] = IF Stale(journal[s].turn) /\ IsLatest(journal, s, journal[s].turn)
                           THEN [journal[s] EXCEPT !.snapshot = Snapshot(turns'[journal[s].turn])]
                           ELSE journal[s]
  BY <1>1 DEF Recover
<1>5. ASSUME NEW s \in DOMAIN journal
      PROVE  /\ journal'[s].turn = journal[s].turn
             /\ journal'[s].chat = journal[s].chat
             /\ journal[s].snapshot.status # "pending" => journal'[s] = journal[s]
             /\ journal[s].snapshot.status = "pending" =>
                  journal'[s].snapshot = Snapshot(turns'[journal[s].turn])
  <2>1. journal[s] \in Attempt
    BY DEF JournalOK
  <2>2. CASE journal[s].snapshot.status = "pending"
    <3>1. /\ journal[s].turn \in Turns /\ turns[journal[s].turn].sent
          /\ IsLatest(journal, s, journal[s].turn)
      BY <2>2, PendingRow DEF JournalFollows, PendingIsLast
    <3>2. Stale(journal[s].turn)
      BY <1>3, <2>2, <3>1
    <3> HIDE DEF Stale
    <3> QED
      BY <1>4, <2>1, <2>2, <3>1, <3>2 DEF Attempt
  <2>3. CASE journal[s].snapshot.status # "pending"
    <3>1. ~(Stale(journal[s].turn) /\ IsLatest(journal, s, journal[s].turn))
      <4> SUFFICES ASSUME NEW r \in DOMAIN journal, journal[r].turn = journal[s].turn,
                          journal[r].snapshot.status = "pending",
                          IsLatest(journal, s, journal[s].turn)
                   PROVE  FALSE
        OBVIOUS
      <4>1. r <= s /\ s <= r /\ r \in Nat /\ s \in Nat
        BY DEF IsLatest, JournalOK, JournalFollows, PendingIsLast
      <4>2. r = s
        BY <4>1
      <4> QED
        BY <2>3, <4>2
    <3> HIDE DEF Stale
    <3> QED
      BY <1>4, <2>3, <3>1
  <2> QED
    BY <2>2, <2>3
<1> QED
  BY <1>1, <1>3, <1>4, <1>5

\* So does recovery, which settles every turn that waits.
LEMMA RecoveryFollows ==
  ASSUME LedgerInv, LedgerInv', JournalOK, JournalFollows, RecoverInterruptedTurns
  PROVE  JournalFollows'
<1>1. /\ \A s, u : IsLatest(journal', s, u) <=> IsLatest(journal, s, u)
      /\ \A s, c : IsLatestOfChat(journal', s, c) <=> IsLatestOfChat(journal, s, c)
  BY RecoveryRows, SameLatest
<1>2. ASSUME hasTable, NEW u \in Turns, turns'[u].sent
      PROVE  \E s \in DOMAIN journal' : /\ IsLatest(journal', s, u)
                                        /\ journal'[s].snapshot = Snapshot(turns'[u])
  <2>1. PICK s \in DOMAIN journal : /\ IsLatest(journal, s, u)
                                    /\ journal[s].snapshot = Snapshot(turns[u])
    BY <1>2, RecoveryRows DEF JournalFollows, OutcomesCarried
  <2>2. journal[s].turn = u
    BY <2>1 DEF IsLatest
  <2>3. CASE turns[u].status = "pending"
    <3>1. journal[s].snapshot.status = "pending"
      BY <2>1, <2>3 DEF Snapshot
    <3> QED
      BY <1>1, <2>1, <2>2, <3>1, RecoveryRows
  <2>4. CASE turns[u].status # "pending"
    <3>1. journal[s].snapshot.status # "pending"
      BY <2>1, <2>4 DEF Snapshot
    <3> QED
      BY <1>1, <2>1, <2>4, <3>1, RecoveryRows
  <2> QED
    BY <2>3, <2>4
<1>3. ASSUME NEW s \in DOMAIN journal', journal'[s].snapshot.status = "pending"
      PROVE  FALSE
  <2>1. s \in DOMAIN journal /\ journal[s].turn \in Turns
    BY RecoveryRows DEF JournalOK, Attempt
  <2>2. CASE journal[s].snapshot.status = "pending"
    <3>1. journal'[s].snapshot = Snapshot(turns'[journal[s].turn])
      BY <2>1, <2>2, RecoveryRows
    <3>2. turns'[journal[s].turn].status # "pending"
      BY <2>1, RecoveryRows
    <3> QED
      BY <1>3, <3>1, <3>2 DEF Snapshot
  <2>3. CASE journal[s].snapshot.status # "pending"
    BY <1>3, <2>1, <2>3, RecoveryRows
  <2> QED
    BY <2>2, <2>3
<1>4. ASSUME ~hasTable
      PROVE  /\ DOMAIN journal' = {} /\ sequence' = 0
             /\ \A u \in Turns : turns'[u].sent => turns'[u].status # "pending"
  BY <1>4, RecoveryRows DEF JournalFollows
<1> QED
  BY <1>2, <1>3, <1>4, RecoveryRows DEF JournalFollows, OutcomesCarried, PendingIsLast

\* The rows a settling transaction may touch, and what it leaves of its turn.
LEMMA SettleSteps ==
  ASSUME LedgerInv, NEW t \in Turns,
         \/ \E successful, content \in BOOLEAN, n \in UsageTokens, k \in UsageCosts :
              FinalizeKnownTurn(t, successful, content, n, k)
         \/ ReleaseLocalFailure(t)
         \/ ReleaseKnownFailure(t)
         \/ ReleaseUnknownReservation(t)
         \/ \E partial \in BOOLEAN : MarkUnknownOutcome(t, partial)
  PROVE  /\ hasTable' = hasTable /\ sequence' = sequence
         /\ journal' = Synchronize(journal, turns', t)
         /\ \A u \in Turns \ {t} : turns'[u] = turns[u]
         /\ turns[t].accounting \in {"reserved", "unknown"}
         /\ turns'[t].sent = turns[t].sent
         /\ turns'[t].status # "pending"
<1>1. /\ hasTable' = hasTable /\ sequence' = sequence
      /\ journal' = Synchronize(journal, turns', t)
      /\ \A u \in Turns \ {t} : turns'[u] = turns[u]
  BY DEF FinalizeKnownTurn, ReleaseLocalFailure, ReleaseKnownFailure,
         ReleaseUnknownReservation, MarkUnknownOutcome, ReleaseReservation, LedgerInv
<1>2. turns[t].accounting \in {"reserved", "unknown"}
  BY DEF FinalizeKnownTurn, ReleaseLocalFailure, ReleaseKnownFailure, Active,
         ReleaseUnknownReservation, MarkUnknownOutcome, LedgerInv, MessagesMatchTurns
<1>3. turns[t] \in Turn
  BY DEF LedgerInv
<1>4. ASSUME NEW successful \in BOOLEAN, NEW content \in BOOLEAN,
             NEW n \in UsageTokens, NEW k \in UsageCosts,
             FinalizeKnownTurn(t, successful, content, n, k)
      PROVE  turns'[t].sent = turns[t].sent /\ turns'[t].status # "pending"
  <2> DEFINE row == [turns[t] EXCEPT !.status = MessageStatus(successful), !.accounting = "final",
                       !.total = n, !.cost = k, !.message = MessageStatus(successful),
                       !.reply = Reply(t, content, successful)]
  <2>1. turns' = [turns EXCEPT ![t] = row]
    BY <1>4 DEF FinalizeKnownTurn
  <2>2. row.sent = turns[t].sent /\ row.status = MessageStatus(successful)
    BY <1>3 DEF Turn
  <2> HIDE DEF row
  <2> QED
    BY <2>1, <2>2 DEF LedgerInv, MessageStatus
<1>5. ASSUME NEW partial \in BOOLEAN, MarkUnknownOutcome(t, partial)
      PROVE  turns'[t].sent = turns[t].sent /\ turns'[t].status # "pending"
  <2> DEFINE row == [turns[t] EXCEPT !.status = "failed", !.accounting = "unknown",
                       !.message = "failed", !.reply = Reply(t, partial, FALSE)]
  <2>1. turns' = [turns EXCEPT ![t] = row]
    BY <1>5 DEF MarkUnknownOutcome
  <2>2. row.sent = turns[t].sent /\ row.status = "failed"
    BY <1>3 DEF Turn
  <2> HIDE DEF row
  <2> QED
    BY <2>1, <2>2 DEF LedgerInv
<1>6. ASSUME \/ ReleaseLocalFailure(t)
             \/ ReleaseKnownFailure(t)
             \/ ReleaseUnknownReservation(t)
      PROVE  turns'[t].sent = turns[t].sent /\ turns'[t].status # "pending"
  <2>1. \E sent \in BOOLEAN : sent = turns[t].sent /\ ReleaseReservation(t, sent)
    BY <1>3, <1>6 DEF ReleaseLocalFailure, ReleaseKnownFailure,
                      ReleaseUnknownReservation, Turn
  <2> QED
    BY <1>3, <2>1 DEF ReleaseReservation, LedgerInv, Turn
<1>7. turns'[t].sent = turns[t].sent /\ turns'[t].status # "pending"
  BY <1>4, <1>5, <1>6
<1> QED
  BY <1>1, <1>2, <1>7

\* So does every database the program starts with.
LEMMA FollowsInit == Init => JournalOK /\ JournalFollows
<1> SUFFICES ASSUME Init PROVE JournalOK /\ JournalFollows
  OBVIOUS
<1>1. hasTable = FALSE /\ sequence = 0 /\ DOMAIN journal = {}
  BY DEF Init, EmptyJournal
<1>2. \A t \in Turns : turns[t].status # "pending"
  BY InitIsQuiet
<1> QED
  BY <1>1, <1>2 DEF JournalOK, JournalFollows, PendingIsLast

\* So does every transaction.
LEMMA FollowsNext ==
  ASSUME LedgerInv, LedgerInv', JournalOK, JournalFollows, [Next]_ledger
  PROVE  JournalFollows'
<1>1. ASSUME UNCHANGED <<turns, journal, hasTable, sequence>> PROVE JournalFollows'
  BY <1>1 DEF JournalFollows
<1>2. CASE UNCHANGED ledger
  BY <1>1, <1>2 DEF ledger
<1>3. CASE ChatStep
  BY <1>1, <1>3, DeletionFollows
     DEF ChatStep, CreateChat, CreateChatWithLimits, SetChatLimits
<1>4. CASE SettleStep
  <2>1. ASSUME NEW t \in Turns,
               \/ \E successful, content \in BOOLEAN, n \in UsageTokens, k \in UsageCosts :
                    FinalizeKnownTurn(t, successful, content, n, k)
               \/ ReleaseLocalFailure(t)
               \/ ReleaseKnownFailure(t)
               \/ ReleaseUnknownReservation(t)
               \/ \E partial \in BOOLEAN : MarkUnknownOutcome(t, partial)
        PROVE  JournalFollows'
    BY <2>1, SettleSteps, SettledFollows
  <2> QED
    BY <1>4, <2>1, UnsentDispatchFollows DEF SettleStep
<1> QED
  BY <1>2, <1>3, <1>4, ReserveFollows, MarkFollows, RecoveryFollows DEF Next

\* The invariant behind what the journal tells.
HistoryInv == LedgerInv /\ JournalOK /\ JournalFollows

\* The invariant of the three theorems below holds throughout.
LEMMA HistoryInvariant == Spec => []HistoryInv
<1>1. Init => HistoryInv
  BY LedgerInvInit, FollowsInit DEF HistoryInv
<1>2. HistoryInv /\ [Next]_ledger => HistoryInv'
  BY LedgerInvNext, JournalNext, FollowsNext DEF HistoryInv
<1> QED
  BY <1>1, <1>2, PTL DEF Spec

\* A finite journal that has a row of a chat has a last one: the rows of the chat
\* are numbered below the table's counter.
LEMMA LatestExists ==
  ASSUME JournalOK, NEW c, NEW s \in DOMAIN journal, journal[s].chat = c
  PROVE  \E r \in DOMAIN journal : IsLatestOfChat(journal, r, c)
<1> DEFINE D == {sequence - r : r \in {q \in DOMAIN journal : journal[q].chat = c}}
<1>1. D \subseteq Nat /\ D # {}
  BY DEF JournalOK
<1>2. PICK d \in D : \A e \in D : ~(<<e, d>> \in OpToRel(<, Nat))
  <2> HIDE DEF D
  <2> QED
    BY <1>1, NatLessThanWellFounded, WFMin, Zenon
<1>3. \A e \in D : d <= e
  <2> SUFFICES ASSUME NEW e \in D, ~(d <= e) PROVE FALSE
    OBVIOUS
  <2>1. e \in Nat /\ d \in Nat /\ e < d
    BY <1>1
  <2> HIDE DEF D
  <2> QED
    BY <1>2, <2>1 DEF OpToRel
<1>4. PICK r \in DOMAIN journal : journal[r].chat = c /\ d = sequence - r
  OBVIOUS
<1>5. \A q \in DOMAIN journal : journal[q].chat = c => q <= r
  <2> SUFFICES ASSUME NEW q \in DOMAIN journal, journal[q].chat = c PROVE q <= r
    OBVIOUS
  <2>1. sequence - r <= sequence - q
    BY <1>3, <1>4
  <2>2. sequence \in Nat /\ q \in Nat /\ r \in Nat
    BY DEF JournalOK
  <2> QED
    BY <2>1, <2>2
<1> QED
  BY <1>4, <1>5 DEF IsLatestOfChat

\* The chat's last request is shown as pending exactly while one is in flight.
LEMMA PendingIsShown == HistoryInv => PendingShownIffInFlight
<1> SUFFICES ASSUME HistoryInv, NEW c \in Chats
             PROVE  LastRequest(c) = "pending" <=>
                      \E t \in TurnsOf(c) : turns[t].status = "pending" /\ turns[t].sent
  BY DEF PendingShownIffInFlight
<1> USE DEF HistoryInv
<1> DEFINE last == CHOOSE s \in DOMAIN journal : IsLatestOfChat(journal, s, c)
<1>1. ASSUME NEW t \in TurnsOf(c), turns[t].status = "pending", turns[t].sent
      PROVE  LastRequest(c) = "pending"
  <2>1. t \in Turns /\ turns[t].chat = c
    BY DEF TurnsOf
  <2>2. hasTable
    BY <1>1, <2>1 DEF JournalFollows
  <2>3. PICK s \in DOMAIN journal : /\ IsLatest(journal, s, t)
                                    /\ journal[s].snapshot = Snapshot(turns[t])
    BY <1>1, <2>1, <2>2 DEF JournalFollows, OutcomesCarried
  <2>4. /\ journal[s].snapshot.status = "pending"
        /\ journal[s].chat = c
    BY <1>1, <2>1, <2>3 DEF Snapshot, IsLatest, JournalOK
  <2>5. journal[s].known /\ IsLatestOfChat(journal, s, c)
    BY <2>4 DEF JournalFollows, PendingIsLast
  <2>6. last = s
    <3>1. last \in DOMAIN journal /\ IsLatestOfChat(journal, last, c)
      BY <2>5
    <3>2. last <= s /\ s <= last /\ last \in Nat /\ s \in Nat
      BY <2>5, <3>1 DEF IsLatestOfChat, JournalOK
    <3> HIDE DEF last
    <3> QED
      BY <3>2
  <2> HIDE DEF last
  <2>7. LastRequest(c) = LastRequestState(journal[last])
    BY <2>2, <2>4, <2>6 DEF LastRequest, last
  <2> QED
    BY <2>4, <2>5, <2>6, <2>7 DEF LastRequestState
<1>2. ASSUME LastRequest(c) = "pending"
      PROVE  \E t \in TurnsOf(c) : turns[t].status = "pending" /\ turns[t].sent
  <2>1. /\ hasTable
        /\ \E s \in DOMAIN journal : journal[s].chat = c
        /\ LastRequestState(journal[last]) = "pending"
    BY <1>2 DEF LastRequest
  <2>2. journal[last].known /\ journal[last].snapshot.status = "pending"
    <3> HIDE DEF last
    <3> QED
      BY <2>1 DEF LastRequestState
  <2>3. last \in DOMAIN journal /\ IsLatestOfChat(journal, last, c)
    <3>1. \E s \in DOMAIN journal : IsLatestOfChat(journal, s, c)
      BY <2>1, LatestExists
    <3> QED
      BY <3>1
  <2> HIDE DEF last
  <2>4. /\ journal[last].turn \in Turns
        /\ turns[journal[last].turn].sent
        /\ turns[journal[last].turn].status = "pending"
    BY <2>2, <2>3, PendingRow
  <2>5. turns[journal[last].turn].chat = c
    BY <2>3 DEF IsLatestOfChat, JournalOK
  <2> QED
    BY <2>4, <2>5 DEF TurnsOf
<1> QED
  BY <1>1, <1>2

\* The journal tells what happened: once the table exists the latest attempt of
\* every dispatched turn carries that turn's outcome, no other attempt is pending,
\* and the last request a user is shown (get_last_request) is pending exactly while
\* a dispatched turn awaits its outcome, through restarts, voided dispatches, and
\* the first dispatch in an older database.
THEOREM JournalAlwaysTells == Spec => []JournalTells
<1>1. HistoryInv => TypeOK
  BY DEF HistoryInv, LedgerInv, JournalOK, TypeOK
<1>2. HistoryInv => JournalInStep
  <2> SUFFICES ASSUME HistoryInv PROVE JournalInStep
    OBVIOUS
  <2> USE DEF HistoryInv
  <2>1. \A s \in DOMAIN journal : journal[s].snapshot.status = "pending" =>
          turns[journal[s].turn].sent /\ IsLatest(journal, s, journal[s].turn)
    BY DEF JournalFollows, PendingIsLast
  <2>2. hasTable => OutcomesCarried(journal, turns)
    BY DEF JournalFollows
  <2> QED
    BY <2>1, <2>2 DEF JournalInStep, OutcomesCarried
<1>3. HistoryInv => JournalTells
  BY <1>1, <1>2, PendingIsShown DEF JournalTells
<1> QED
  BY <1>3, HistoryInvariant, PTL

\* The step form of SettledAttemptsKept.
KeepsSettled ==
  \A s \in DOMAIN journal :
    journal[s].snapshot.accounting \in {"final", "released"} =>
      \/ mode'[journal[s].chat] = "none"
      \/ s \in DOMAIN journal' /\ journal'[s] = journal[s]

\* No step changes the row of an attempt that is settled.
LEMMA NextKeepsSettled == HistoryInv /\ [Next]_ledger => KeepsSettled
<1> SUFFICES ASSUME HistoryInv, [Next]_ledger,
                    NEW s \in DOMAIN journal,
                    journal[s].snapshot.accounting \in {"final", "released"}
             PROVE  \/ mode'[journal[s].chat] = "none"
                    \/ s \in DOMAIN journal' /\ journal'[s] = journal[s]
  BY DEF KeepsSettled
<1> USE DEF HistoryInv
<1>1. /\ journal[s].turn \in Turns /\ journal[s].chat \in Chats
      /\ hasTable
      /\ s \in 1 .. sequence
  BY DEF JournalOK, Attempt, JournalFollows
<1>2. CASE journal' = journal
  BY <1>2
<1>3. ASSUME NEW c \in Chats, DeleteChat(c)
      PROVE  \/ mode'[journal[s].chat] = "none"
             \/ s \in DOMAIN journal' /\ journal'[s] = journal[s]
  BY <1>1, <1>3 DEF DeleteChat, DeleteAttemptsOf, LedgerInv
<1>4. ASSUME NEW t \in Turns, MarkRequestSent(t)
      PROVE  s \in DOMAIN journal' /\ journal'[s] = journal[s]
  <2>1. LedgerInv'
    BY LedgerInvNext
  <2>2. PICK old, last : MarkedFrom(old, last, t)
    BY <1>4, <2>1, MarkedJournal
  <2>3. /\ s \in DOMAIN old /\ old[s] = journal[s]
        /\ s \in 1 .. last /\ last \in Nat
    BY <1>1, <2>2 DEF MarkedFrom
  <2>4. /\ DOMAIN journal' = DOMAIN old \cup {last + 1}
        /\ \A r \in DOMAIN journal' :
             journal'[r] = IF r = last + 1 THEN AttemptRow(t, turns'[t], TRUE) ELSE old[r]
    BY <2>2 DEF MarkedFrom
  <2>5. s # last + 1
    BY <2>3
  <2> QED
    BY <2>3, <2>4, <2>5
<1>5. ASSUME NEW t \in Turns,
             \/ \E successful, content \in BOOLEAN, n \in UsageTokens, k \in UsageCosts :
                  FinalizeKnownTurn(t, successful, content, n, k)
             \/ ReleaseLocalFailure(t)
             \/ ReleaseKnownFailure(t)
             \/ ReleaseUnknownReservation(t)
             \/ \E partial \in BOOLEAN : MarkUnknownOutcome(t, partial)
      PROVE  s \in DOMAIN journal' /\ journal'[s] = journal[s]
  <2>1. /\ journal' = Synchronize(journal, turns', t)
        /\ turns[t].accounting \in {"reserved", "unknown"}
        /\ turns'[t].sent = turns[t].sent
    BY <1>5, SettleSteps
  <2>2. ~(turns[t].sent /\ IsLatest(journal, s, t))
    <3> SUFFICES ASSUME turns[t].sent, IsLatest(journal, s, t) PROVE FALSE
      OBVIOUS
    <3>1. journal[s].snapshot = Snapshot(turns[t])
      BY LatestShows
    <3> QED
      BY <2>1, <3>1 DEF Snapshot
  <2> QED
    BY <2>1, <2>2 DEF Synchronize
<1>6. ASSUME NEW t \in Turns, ReleaseUnsentDispatch(t)
      PROVE  s \in DOMAIN journal' /\ journal'[s] = journal[s]
  <2>1. PICK r \in DOMAIN journal :
             /\ IsLatest(journal, r, t)
             /\ journal[r].snapshot.status = "pending"
             /\ journal' = Synchronize(DeleteAttempt(journal, r), turns', t)
    BY <1>6 DEF ReleaseUnsentDispatch
  <2>2. ~turns'[t].sent
    BY <1>6 DEF ReleaseUnsentDispatch, ReleaseReservation, LedgerInv, Turn
  <2>3. s # r
    BY <2>1, PendingRow
  <2> QED
    BY <2>1, <2>2, <2>3 DEF Synchronize, DeleteAttempt
<1>7. CASE RecoverInterruptedTurns
  <2>1. journal[s].snapshot.status # "pending"
    BY PendingRow
  <2> QED
    BY <1>7, <2>1, RecoveryRows
<1>8. CASE UNCHANGED ledger
  BY <1>2, <1>8 DEF ledger
<1>9. CASE ChatStep
  BY <1>2, <1>3, <1>9 DEF ChatStep, CreateChat, CreateChatWithLimits, SetChatLimits
<1>10. CASE ReserveStep
  BY <1>2, <1>10 DEF ReserveStep, ReserveNew, ReserveRetry
<1>11. CASE SettleStep
  BY <1>5, <1>6, <1>11 DEF SettleStep
<1> QED
  BY <1>4, <1>7, <1>8, <1>9, <1>10, <1>11 DEF Next

\* History is not rewritten: the row of an attempt with a final or a released
\* accounting stays as it is until its chat is deleted, whatever becomes of its
\* turn (record_request_attempt, synchronize_request_attempt).
THEOREM SettledAttemptsAlwaysKept == Spec => SettledAttemptsKept
<1>1. HistoryInv /\ [Next]_ledger => [KeepsSettled]_ledger
  BY NextKeepsSettled
<1>2. Spec => [][KeepsSettled]_ledger
  BY <1>1, HistoryInvariant, PTL DEF Spec
<1> QED
  BY <1>2 DEF SettledAttemptsKept, KeepsSettled

-----------------------------------------------------------------------------
(* The senders.                                                            *)

\* The inductive invariant.

\* What is true of each call: one that is idle has left nothing behind; one at
\* work has a turn and a chat, an estimate while it reserves, and the chat of its
\* turn while it retries; it is current only in an open session, and there is
\* none before the restart recovery.
CallOK(s) ==
  /\ send[s] \in Send
  /\ At(s, "idle") => send[s] = NoSend
  /\ ~At(s, "idle") => send[s].turn \in Turns /\ send[s].chat \in Chats
  /\ At(s, "reserving") =>
       send[s].tokens \in ReserveTokens /\ send[s].cost \in ReserveCosts \cup {0}
  /\ send[s].worker # "none" => send[s].stage \in {"reserving", "marking"}
  /\ send[s].retry => turns[send[s].turn].chat = send[s].chat
  /\ send[s].current => unlocked
  /\ ~recovered => send[s] = NoSend

\* From the reservation on its turn is pending in its chat, and marked exactly
\* from the mark on; until the request leaves, the turn is not in doubt.
HandOK(s) ==
  HasReserved(s) =>
    /\ turns[send[s].turn].chat = send[s].chat
    /\ turns[send[s].turn].status = "pending"
    /\ turns[send[s].turn].sent <=> HasMarked(s)
    /\ send[s].stage \notin {"http", "unknowing"} => send[s].turn \notin asked

\* The asyncio.Lock of a chat: one call at a time.
LocksHeld ==
  \A s, r \in Senders : Busy(s) /\ Busy(r) /\ s # r => send[s].chat # send[r].chat

\* Here every mark is written with its journal row, within the bound.
MarksRecorded ==
  /\ sequence <= MaxSequence
  /\ ~hasTable => \A t \in Turns : ~turns[t].sent

\* The rest of the state has its type, and a session opens after the recovery.
SessionOK ==
  /\ setting \in Settings
  /\ send \in [Senders -> Send]
  /\ unlocked \in BOOLEAN /\ recovered \in BOOLEAN
  /\ asked \subseteq Turns /\ requested \subseteq 1 .. MaxSequence
  /\ unlocked => recovered

\* The inductive invariant.
SendInv ==
  /\ HistoryInv /\ MarksRecorded
  /\ SessionOK
  /\ \A s \in Senders : CallOK(s) /\ HandOK(s)
  /\ LocksHeld
  /\ ExposureKept

-----------------------------------------------------------------------------
\* What the transactions leave of the turns.

\* No turn but t has changed.
Only(t) == \A u \in Turns \ {t} : turns'[u] = turns[u]

\* A reservation makes its turn pending in its chat, with no mark.
LEMMA ReserveLeaves ==
  ASSUME LedgerInv, NEW t \in Turns, NEW c \in Chats,
         NEW n \in ReserveTokens, NEW k \in ReserveCosts \cup {0},
         \/ ReserveNew(t, c, n, k)
         \/ turns[t].chat = c /\ ReserveRetry(t, n, k)
  PROVE  /\ Next /\ Only(t)
         /\ turns[t].chat \in {NoChat, c}
         /\ turns[t].accounting \in {"none", "released"}
         /\ turns'[t].chat = c /\ turns'[t].status = "pending"
         /\ turns'[t].accounting = "reserved" /\ turns'[t].sent = FALSE
         /\ journal' = journal /\ hasTable' = hasTable /\ sequence' = sequence
<1>1. turns[t] \in Turn
  BY DEF LedgerInv
<1>2. CASE ReserveNew(t, c, n, k)
  <2>1. turns[t].accounting = "none"
    BY <1>2 DEF ReserveNew, LedgerInv, RowsOK
  <2>2. Next
    BY <1>2 DEF Next, ReserveStep
  <2> QED
    BY <1>2, <2>1, <2>2 DEF ReserveNew, NoTurnRow, LedgerInv, Only
<1>3. CASE turns[t].chat = c /\ ReserveRetry(t, n, k)
  <2>1. Next
    BY <1>3 DEF Next, ReserveStep
  <2>2. turns' = [turns EXCEPT ![t] =
          [turns[t] EXCEPT !.status = "pending", !.accounting = "reserved",
                    !.tokens = n, !.reservedCost = k, !.sent = FALSE,
                    !.total = 0, !.cost = 0, !.message = "pending"]]
    BY <1>3 DEF ReserveRetry
  <2>3. turns[t].accounting = "released"
    BY <1>3 DEF ReserveRetry
  <2>4. journal' = journal /\ hasTable' = hasTable /\ sequence' = sequence
    BY <1>3 DEF ReserveRetry
  <2> QED
    BY <1>1, <1>3, <2>1, <2>2, <2>3, <2>4 DEF LedgerInv, Turn, Only
<1> QED
  BY <1>2, <1>3

\* A mark changes one column of one turn.
LEMMA MarkLeaves ==
  ASSUME HistoryInv, NEW t \in Turns, MarkRequestSent(t)
  PROVE  /\ Next /\ Only(t)
         /\ turns'[t].chat = turns[t].chat /\ turns'[t].status = turns[t].status
         /\ turns'[t].accounting = turns[t].accounting /\ turns'[t].sent = TRUE
         /\ hasTable' = TRUE /\ sequence' <= MaxSequence
<1>1. turns[t] \in Turn
  BY DEF HistoryInv, LedgerInv
<1>2. Next
  BY DEF Next
<1>3. sequence' <= MaxSequence /\ hasTable' = TRUE
  <2>1. LedgerInv'
    BY <1>2, LedgerInvNext DEF HistoryInv
  <2>2. PICK order \in BackfillOrders(turns) :
          LET last == IF hasTable THEN sequence ELSE Cardinality(DOMAIN order)
          IN  last < MaxSequence /\ sequence' = last + 1
    BY DEF MarkRequestSent
  <2> DEFINE last == IF hasTable THEN sequence ELSE Cardinality(DOMAIN order)
  <2>3. last < MaxSequence /\ sequence' = last + 1
    BY <2>2
  <2>4. PICK old, l : MarkedFrom(old, l, t)
    BY <2>1, MarkedJournal DEF HistoryInv
  <2>5. sequence' \in Nat \ {0}
    BY <2>4 DEF MarkedFrom
  <2>6. last \in Nat
    <3>1. CASE hasTable
      BY <3>1 DEF HistoryInv, JournalOK
    <3>2. CASE ~hasTable
      <4>1. DOMAIN order = 1 .. Cardinality(Dispatched(turns))
        BY DEF BackfillOrders
      <4>2. Dispatched(turns) \subseteq Turns
        BY DEF Dispatched, HistoryInv, LedgerInv
      <4>3. IsFiniteSet(Dispatched(turns))
        BY <4>2, FS_Subset, LedgerAssumption
      <4>4. Cardinality(Dispatched(turns)) \in Nat
        BY <4>3, FS_CardinalityType
      <4>5. Cardinality(DOMAIN order) = Cardinality(Dispatched(turns))
        BY <4>1, <4>4, FS_Interval
      <4> QED
        BY <3>2, <4>4, <4>5
    <3> QED
      BY <3>1, <3>2
  <2> HIDE DEF last
  <2> QED
    BY <2>3, <2>6, LedgerAssumption DEF MarkRequestSent
<1> QED
  BY <1>1, <1>2, <1>3 DEF MarkRequestSent, HistoryInv, LedgerInv, Turn, Only

\* The transactions that end an attempt keep the turn in its chat.
LEMMA SettleLeaves ==
  ASSUME LedgerInv, NEW t \in Turns,
         \/ \E successful, content \in BOOLEAN, n \in UsageTokens, k \in UsageCosts :
              FinalizeKnownTurn(t, successful, content, n, k)
         \/ ReleaseLocalFailure(t)
         \/ ReleaseKnownFailure(t)
         \/ ReleaseUnknownReservation(t)
         \/ ReleaseUnsentDispatch(t)
         \/ \E partial \in BOOLEAN : MarkUnknownOutcome(t, partial)
  PROVE  /\ Next /\ Only(t)
         /\ turns'[t].chat = turns[t].chat /\ turns'[t].status # "pending"
         /\ turns'[t].sent => turns[t].sent
         /\ hasTable' = hasTable /\ sequence' = sequence
<1>1. Next /\ Only(t) /\ hasTable' = hasTable /\ sequence' = sequence
  BY DEF Next, SettleStep, FinalizeKnownTurn, ReleaseLocalFailure, ReleaseKnownFailure,
         ReleaseUnknownReservation, ReleaseUnsentDispatch, MarkUnknownOutcome,
         ReleaseReservation, LedgerInv, Only
<1>2. turns[t] \in Turn
  BY DEF LedgerInv
<1>3. ASSUME NEW successful \in BOOLEAN, NEW content \in BOOLEAN,
             NEW n \in UsageTokens, NEW k \in UsageCosts,
             FinalizeKnownTurn(t, successful, content, n, k)
      PROVE  turns'[t].chat = turns[t].chat
  BY <1>2, <1>3 DEF FinalizeKnownTurn, LedgerInv, Turn
<1>4. ASSUME NEW partial \in BOOLEAN, MarkUnknownOutcome(t, partial)
      PROVE  turns'[t].chat = turns[t].chat
  BY <1>2, <1>4 DEF MarkUnknownOutcome, LedgerInv, Turn
<1>5. ASSUME NEW sent \in BOOLEAN, ReleaseReservation(t, sent)
      PROVE  /\ turns'[t].chat = turns[t].chat
             /\ turns'[t].status # "pending" /\ turns'[t].sent = sent
  BY <1>2, <1>5 DEF ReleaseReservation, LedgerInv, Turn
<1>6. turns'[t].chat = turns[t].chat
  BY <1>2, <1>3, <1>4, <1>5
     DEF ReleaseLocalFailure, ReleaseKnownFailure, ReleaseUnknownReservation,
         ReleaseUnsentDispatch, Turn
<1>7. CASE ReleaseUnsentDispatch(t)
  BY <1>1, <1>5, <1>6, <1>7 DEF ReleaseUnsentDispatch
<1>8. CASE ~ReleaseUnsentDispatch(t)
  BY <1>1, <1>6, <1>8, SettleSteps
<1> QED
  BY <1>7, <1>8

\* An outcome that is not known keeps the reservation.
LEMMA UnknownLeaves ==
  ASSUME LedgerInv, NEW t \in Turns, NEW partial \in BOOLEAN, MarkUnknownOutcome(t, partial)
  PROVE  turns'[t].accounting = "unknown"
BY DEF MarkUnknownOutcome, LedgerInv, Turn

-----------------------------------------------------------------------------
\* The ledger under the senders.

\* Nothing, recovery, or a change of limits: no turn becomes marked.
LEMMA MarksNext ==
  ASSUME HistoryInv, MarksRecorded,
         \/ UNCHANGED ledger
         \/ RecoverInterruptedTurns
         \/ \E c \in Chats, l \in TokenLimits, k \in CostLimits \cup {0} :
              SetChatLimits(c, l, k, TRUE)
  PROVE  /\ [Next]_ledger /\ HistoryInv' /\ MarksRecorded'
         /\ \A t \in Turns : turns[t].status # "pending" => turns'[t] = turns[t]
<1>1. [Next]_ledger
  BY DEF Next, ChatStep
<1>2. /\ hasTable' = hasTable /\ sequence' = sequence
      /\ \A t \in Turns : turns'[t].sent = turns[t].sent
      /\ \A t \in Turns : turns[t].status # "pending" => turns'[t] = turns[t]
  BY RecoveryRows DEF ledger, SetChatLimits, HistoryInv
<1>3. HistoryInv'
  BY <1>1, LedgerInvNext, JournalNext, FollowsNext DEF HistoryInv
<1> QED
  BY <1>1, <1>2, <1>3 DEF MarksRecorded

\* The mapped steps keep the ledger's own invariants.
LEMMA HistoryNext ==
  ASSUME HistoryInv, [Next]_ledger
  PROVE  HistoryInv'
  BY LedgerInvNext, JournalNext, FollowsNext DEF HistoryInv

-----------------------------------------------------------------------------
\* A step of one call leaves the others as they were.

\* The call of s goes on as x; it may touch its own turn only, and only under
\* the lock of its chat.
StepOf(s, x) ==
  /\ send' = [send EXCEPT ![s] = x]
  /\ UNCHANGED <<access, setting>>
  /\ \/ UNCHANGED <<turns, asked>>
     \/ /\ Busy(s)
        /\ turns[send[s].turn].chat \in {NoChat, send[s].chat}
        /\ turns[send[s].turn].chat # NoChat =>
             turns'[send[s].turn].chat = turns[send[s].turn].chat
        /\ Only(send[s].turn)
        /\ \A t \in Turns \ {send[s].turn} : t \in asked' <=> t \in asked

\* The calls of the other senders are as they were.
LEMMA OthersKept ==
  ASSUME SendInv, NEW s \in Senders, NEW x \in Send, StepOf(s, x),
         NEW r \in Senders \ {s}
  PROVE  CallOK(r)' /\ HandOK(r)'
<1>1. send'[r] = send[r] /\ unlocked' = unlocked /\ recovered' = recovered
  BY DEF StepOf, access, SendInv, SessionOK
<1>2. CallOK(r) /\ HandOK(r) /\ CallOK(s)
  BY DEF SendInv
<1>3. At(r, "idle") => send[r].retry = FALSE
  BY <1>2 DEF CallOK, NoSend
<1>4. send[r].retry => turns'[send[r].turn].chat = send[r].chat
  <2> SUFFICES ASSUME send[r].retry
               PROVE  turns'[send[r].turn].chat = send[r].chat
    OBVIOUS
  <2>1. send[r].turn \in Turns /\ send[r].chat \in Chats
    BY <1>2, <1>3 DEF CallOK
  <2>2. turns[send[r].turn].chat = send[r].chat
    BY <1>2 DEF CallOK
  <2>3. send[r].chat # NoChat
    BY <2>1, LedgerAssumption
  <2> QED
    BY <2>1, <2>2, <2>3 DEF StepOf, Only
<1>5. CallOK(r)'
  BY <1>1, <1>2, <1>4 DEF CallOK, At
<1>6. HandOK(r)'
  <2> SUFFICES ASSUME HasReserved(r)
               PROVE  HandOK(r)'
    BY <1>1 DEF HandOK, HasReserved, HasMarked, At
  <2>1. Busy(r) /\ ~At(r, "idle")
    BY DEF HasReserved, HasMarked, Busy, At
  <2>2. /\ send[r].turn \in Turns /\ send[r].chat \in Chats
        /\ turns[send[r].turn].chat = send[r].chat
    BY <1>2, <2>1 DEF CallOK, HandOK
  <2>3. CASE UNCHANGED <<turns, asked>>
    BY <1>1, <1>2, <2>3 DEF HandOK, HasReserved, HasMarked, At
  <2>4. CASE /\ Busy(s)
             /\ turns[send[s].turn].chat \in {NoChat, send[s].chat}
             /\ Only(send[s].turn)
             /\ \A t \in Turns \ {send[s].turn} : t \in asked' <=> t \in asked
    <3>1. send[s].chat # send[r].chat
      BY <2>1, <2>4 DEF SendInv, LocksHeld
    <3>2. send[r].turn # send[s].turn
      BY <2>2, <2>4, <3>1, LedgerAssumption
    <3>3. /\ turns'[send[r].turn] = turns[send[r].turn]
          /\ send[r].turn \in asked' <=> send[r].turn \in asked
      BY <2>2, <2>4, <3>2 DEF Only
    <3> QED
      BY <1>1, <1>2, <3>3 DEF HandOK, HasReserved, HasMarked, At
  <2> QED
    BY <2>3, <2>4 DEF StepOf
<1> QED
  BY <1>5, <1>6

\* So it is enough to look at the call that moves.
LEMMA OneCallStep ==
  ASSUME SendInv, NEW s \in Senders, NEW x \in Send, StepOf(s, x),
         HistoryInv', MarksRecorded',
         asked' \subseteq Turns, requested' \subseteq 1 .. MaxSequence,
         CallOK(s)', HandOK(s)',
         \/ x.stage \in {"idle", "loaded"}
         \/ Busy(s) /\ x.chat = send[s].chat
         \/ ~ChatLocked(x.chat),
         ExposureKept'
  PROVE  SendInv'
<1>1. SessionOK'
  BY DEF SessionOK, SendInv, StepOf, access
<1>2. \A r \in Senders : CallOK(r)' /\ HandOK(r)'
  BY OthersKept
<1>3. /\ send'[s] = x
      /\ \A r \in Senders \ {s} : send'[r] = send[r]
  BY DEF StepOf, SendInv, SessionOK
<1>4. \A r \in Senders \ {s} : Busy(r) /\ x.stage \notin {"idle", "loaded"} =>
         send[r].chat # x.chat
  BY DEF SendInv, LocksHeld, ChatLocked
<1>5. LocksHeld'
  BY <1>3, <1>4 DEF SendInv, LocksHeld, Busy
<1> QED
  BY <1>1, <1>2, <1>5 DEF SendInv

-----------------------------------------------------------------------------
\* The three ways a call goes on: to its next await, to an await that needs only
\* its turn, and home.

\* The call of s at its next await, and settled.
Continued(s, next) == [send[s] EXCEPT !.stage = next, !.worker = "none"]
Settled(s, next)   == [NoSend EXCEPT !.stage = next, !.turn = send[s].turn,
                                     !.chat = send[s].chat]

\* The fields of a call that is idle,
LEMMA NoSendIs ==
  /\ NoSend \in Send
  /\ NoSend.stage = "idle" /\ NoSend.worker = "none" /\ NoSend.consent = "none"
  /\ NoSend.retry = FALSE /\ NoSend.current = FALSE /\ NoSend.cancelled = FALSE
BY DEF NoSend, Send, Stages, Consents

\* of one that goes on,
LEMMA ContinuedIs ==
  ASSUME SessionOK, NEW s \in Senders, NEW next \in Stages
  PROVE  /\ Continue(s, next) => send' = [send EXCEPT ![s] = Continued(s, next)]
         /\ Continued(s, next) \in Send
         /\ Continued(s, next).stage = next /\ Continued(s, next).worker = "none"
         /\ Continued(s, next).turn = send[s].turn /\ Continued(s, next).chat = send[s].chat
         /\ Continued(s, next).retry = send[s].retry
         /\ Continued(s, next).tokens = send[s].tokens /\ Continued(s, next).cost = send[s].cost
         /\ Continued(s, next).current = send[s].current
         /\ Continued(s, next).consent = send[s].consent
<1>1. send[s] \in Send
  BY DEF SessionOK
<1> QED
  BY <1>1 DEF Continue, Continued, Send, SessionOK

\* and of one that needs its turn only.
LEMMA SettledIs ==
  ASSUME SessionOK, NEW s \in Senders, NEW next \in Stages
  PROVE  /\ Settle(s, next) => send' = [send EXCEPT ![s] = Settled(s, next)]
         /\ Settled(s, next) \in Send
         /\ Settled(s, next).stage = next /\ Settled(s, next).worker = "none"
         /\ Settled(s, next).turn = send[s].turn /\ Settled(s, next).chat = send[s].chat
         /\ Settled(s, next).retry = FALSE /\ Settled(s, next).current = FALSE
         /\ Settled(s, next).consent = "none"
<1>1. send[s] \in Send
  BY DEF SessionOK
<1> QED
  BY <1>1 DEF Settle, Settled, NoSend, Send, SessionOK, Consents

\* A call at work has a turn and a chat, and the recovery is done.
LEMMA AtWork ==
  ASSUME SendInv, NEW s \in Senders, ~At(s, "idle")
  PROVE  send[s].turn \in Turns /\ send[s].chat \in Chats /\ recovered
  BY NoSendIs DEF SendInv, CallOK, At

\* A call that has reserved finds its turn as it left it.
LEMMA InHand ==
  ASSUME SendInv, NEW s \in Senders, HasReserved(s)
  PROVE  /\ Busy(s) /\ send[s].turn \in Turns /\ send[s].chat \in Chats
         /\ turns[send[s].turn].chat = send[s].chat /\ Active(send[s].turn)
         /\ turns[send[s].turn].status = "pending"
         /\ turns[send[s].turn].accounting = "reserved"
         /\ turns[send[s].turn].sent <=> HasMarked(s)
         /\ send[s].stage \notin {"http", "unknowing"} => send[s].turn \notin asked
<1>1. Busy(s) /\ ~At(s, "idle")
  BY DEF HasReserved, HasMarked, Busy, At
<1>2. HandOK(s)
  BY DEF SendInv
<1>3. /\ turns[send[s].turn].chat = send[s].chat
      /\ turns[send[s].turn].status = "pending"
      /\ turns[send[s].turn].sent <=> HasMarked(s)
      /\ send[s].stage \notin {"http", "unknowing"} => send[s].turn \notin asked
  BY <1>2 DEF HandOK
<1> QED
  BY <1>1, <1>3, AtWork, LedgerAssumption
     DEF Active, SendInv, HistoryInv, LedgerInv, MessagesMatchTurns

\* A step that writes nothing.
LEMMA QuietStep ==
  ASSUME SendInv, NEW s \in Senders, NEW x \in Send,
         send' = [send EXCEPT ![s] = x], UNCHANGED <<ledger, access, ghosts, setting>>,
         CallOK(s)', HandOK(s)',
         \/ x.stage \in {"idle", "loaded"}
         \/ Busy(s) /\ x.chat = send[s].chat
         \/ ~ChatLocked(x.chat)
  PROVE  SendInv'
<1>1. StepOf(s, x)
  BY DEF StepOf, ledger, ghosts
<1>2. HistoryInv' /\ MarksRecorded'
  BY MarksNext DEF SendInv
<1>3. asked' \subseteq Turns /\ requested' \subseteq 1 .. MaxSequence /\ ExposureKept'
  BY DEF SendInv, SessionOK, ghosts, ledger, ExposureKept
<1> QED
  BY <1>1, <1>2, <1>3, OneCallStep

\* A call that leaves owes nothing more.
LEMMA LeaveStep ==
  ASSUME SendInv, NEW s \in Senders, StepOf(s, NoSend),
         HistoryInv', MarksRecorded', asked' \subseteq Turns, requested' = requested,
         ExposureKept'
  PROVE  SendInv'
<1>1. send'[s] = NoSend
  BY DEF StepOf, SendInv, SessionOK
<1>2. CallOK(s)' /\ HandOK(s)'
  BY <1>1, NoSendIs DEF CallOK, HandOK, HasReserved, HasMarked, At
<1> QED
  BY <1>2, NoSendIs, OneCallStep DEF SendInv, SessionOK

\* Leaving without a write keeps the invariant.
LEMMA QuietLeave ==
  ASSUME SendInv, NEW s \in Senders, Leave(s),
         UNCHANGED <<ledger, access, ghosts, setting>>
  PROVE  SendInv'
<1>1. StepOf(s, NoSend)
  BY DEF StepOf, Leave, ledger, ghosts
<1>2. HistoryInv' /\ MarksRecorded'
  BY MarksNext DEF SendInv
<1>3. asked' \subseteq Turns /\ requested' = requested /\ ExposureKept'
  BY DEF SendInv, SessionOK, ghosts, ledger, ExposureKept
<1> QED
  BY <1>1, <1>2, <1>3, LeaveStep

\* A call that has reserved waits for something else: its turn stays its own, and
\* marked or not as it was.
LEMMA QuietSettle ==
  ASSUME SendInv, NEW s \in Senders, HasReserved(s),
         NEW next \in {"releasing", "voiding", "unknowing"}, Settle(s, next),
         next = "releasing" <=> ~HasMarked(s),
         next = "unknowing" \/ send[s].stage \notin {"http", "unknowing"},
         UNCHANGED <<ledger, access, ghosts, setting>>
  PROVE  SendInv'
<1> DEFINE x == Settled(s, next)
<1>1. /\ x \in Send /\ x.stage = next /\ x.worker = "none"
      /\ x.turn = send[s].turn /\ x.chat = send[s].chat
      /\ x.retry = FALSE /\ x.current = FALSE
      /\ send' = [send EXCEPT ![s] = x]
  <2>1. next \in Stages
    BY DEF Stages
  <2> QED
    BY <2>1, SettledIs DEF SendInv
<1> HIDE DEF x
<1>2. send'[s] = x /\ turns' = turns /\ asked' = asked /\ unlocked' = unlocked
      /\ recovered' = recovered
  BY <1>1 DEF SendInv, SessionOK, ledger, ghosts, access
<1>3. ~At(s, "idle") /\ Busy(s)
  BY InHand DEF Busy, At
<1>4. CallOK(s)'
  BY <1>1, <1>2, <1>3, AtWork DEF CallOK, At
<1>5. HandOK(s)'
  <2>1. HasMarked(s)' <=> HasMarked(s)
    BY <1>1, <1>2 DEF HasMarked, At
  <2>2. next # "unknowing" => send[s].turn \notin asked
    BY InHand DEF HasReserved, HasMarked, At
  <2> QED
    BY <1>1, <1>2, <2>1, <2>2, InHand DEF HandOK
<1> QED
  BY <1>1, <1>3, <1>4, <1>5, QuietStep

-----------------------------------------------------------------------------
\* The actions that write nothing.

\* Beginning a send or a retry keeps the invariant,
LEMMA BeginSafe ==
  ASSUME SendInv, NEW s \in Senders, NEW t \in Turns,
         (\E c \in Chats : SendMessage(s, c, t)) \/ RetryFailedTurn(s, t),
         UNCHANGED setting
  PROVE  SendInv'
<1>1. ASSUME NEW c \in Chats, NEW b \in BOOLEAN, NEW next \in {"preflight", "loaded"},
             Start(s, c, t, b, next),
             b => turns[t].chat = c,
             next = "loaded" \/ ~ChatLocked(c)
      PROVE  SendInv'
  <2>1. PICK k \in {"none", "valid"} :
          send' = [send EXCEPT ![s] =
            [NoSend EXCEPT !.stage = next, !.turn = t, !.chat = c, !.retry = b,
                           !.consent = k, !.current = TRUE]]
    BY <1>1, Zenon DEF Start
  <2> DEFINE x == [NoSend EXCEPT !.stage = next, !.turn = t, !.chat = c, !.retry = b,
                                 !.consent = k, !.current = TRUE]
  <2>2. /\ x \in Send /\ x.stage = next /\ x.turn = t /\ x.chat = c /\ x.retry = b
        /\ x.worker = "none" /\ x.current = TRUE
    BY DEF NoSend, Send, Stages, Consents
  <2>3. send' = [send EXCEPT ![s] = x]
    BY <2>1
  <2> HIDE DEF x
  <2>4. /\ send'[s] = x /\ turns' = turns /\ unlocked /\ unlocked' = unlocked
        /\ recovered /\ recovered' = recovered
        /\ UNCHANGED <<ledger, access, ghosts, setting>>
    BY <1>1, <2>3 DEF SendInv, SessionOK, ledger, access, Start
  <2>5. CallOK(s)' /\ HandOK(s)'
    BY <1>1, <2>2, <2>4 DEF CallOK, HandOK, HasReserved, HasMarked, At
  <2> QED
    BY <1>1, <2>2, <2>3, <2>4, <2>5, QuietStep
<1>2. CASE \E c \in Chats : SendMessage(s, c, t)
  BY <1>1, <1>2 DEF SendMessage
<1>3. CASE RetryFailedTurn(s, t)
  <2>1. turns[t].chat \in Chats
    BY <1>3 DEF RetryFailedTurn, SendInv, HistoryInv, LedgerInv, RowsOK, Turn
  <2> QED
    BY <1>1, <1>3, <2>1 DEF RetryFailedTurn
<1> QED
  BY <1>2, <1>3

\* and so do taking the lock of the chat,
LEMMA TakeLockSafe ==
  ASSUME SendInv, NEW s \in Senders, TakeLock(s), UNCHANGED setting
  PROVE  SendInv'
<1>1. CASE Leave(s)
  BY <1>1, QuietLeave DEF TakeLock
<1>2. CASE ~ChatLocked(send[s].chat) /\ Continue(s, "preflight")
  <2> DEFINE x == Continued(s, "preflight")
  <2>1. /\ x \in Send /\ x.stage = "preflight" /\ x.worker = "none"
        /\ x.turn = send[s].turn /\ x.chat = send[s].chat /\ x.retry = send[s].retry
        /\ x.current = send[s].current /\ send' = [send EXCEPT ![s] = x]
    BY <1>2, ContinuedIs DEF SendInv, Stages
  <2> HIDE DEF x
  <2>2. send'[s] = x /\ UNCHANGED <<ledger, access, ghosts, setting>> /\ ~At(s, "idle")
    BY <1>2, <2>1 DEF TakeLock, SendInv, SessionOK, At
  <2>3. CallOK(s)
    BY DEF SendInv
  <2>4. CallOK(s)' /\ HandOK(s)'
    BY <2>1, <2>2, <2>3, AtWork
       DEF CallOK, HandOK, HasReserved, HasMarked, At, ledger, access
  <2> QED
    BY <1>2, <2>1, <2>2, <2>4, QuietStep
<1> QED
  BY <1>1, <1>2 DEF TakeLock

\* the checks before the reservation,
LEMMA PreflightSafe ==
  ASSUME SendInv, NEW s \in Senders, NEW n \in ReserveTokens, NEW k \in ReserveCosts \cup {0},
         Preflight(s, n, k), UNCHANGED setting
  PROVE  SendInv'
<1> DEFINE y == [send[s] EXCEPT !.stage = "reserving", !.tokens = n]
           x == [y EXCEPT !.cost = k]
<1>1. send[s] \in Send /\ At(s, "preflight") /\ CallOK(s) /\ n \in Nat /\ k \in Nat
  BY LedgerAssumption DEF SendInv, SessionOK, Preflight
<1>2. send' = [send EXCEPT ![s] = x]
  BY <1>1 DEF Preflight, SendInv, SessionOK
<1>3. /\ y \in Send /\ y.stage = "reserving" /\ y.tokens = n
      /\ y.turn = send[s].turn /\ y.chat = send[s].chat /\ y.retry = send[s].retry
      /\ y.worker = send[s].worker /\ y.current = send[s].current
  BY <1>1 DEF Send, Stages
<1> HIDE DEF y
<1>4. /\ x \in Send /\ x.stage = "reserving" /\ x.tokens = n /\ x.cost = k
      /\ x.turn = send[s].turn /\ x.chat = send[s].chat /\ x.retry = send[s].retry
      /\ x.worker = send[s].worker /\ x.current = send[s].current
  BY <1>1, <1>3 DEF Send
<1> HIDE DEF x
<1>5. send'[s] = x /\ UNCHANGED <<ledger, access, ghosts, setting>> /\ ~At(s, "idle")
  BY <1>1, <1>2 DEF Preflight, SendInv, SessionOK, At
<1>6. x.worker = "none"
  BY <1>1, <1>4 DEF CallOK, At, Send
<1>7. CallOK(s)' /\ HandOK(s)'
  BY <1>1, <1>4, <1>5, <1>6, AtWork
     DEF CallOK, HandOK, HasReserved, HasMarked, At, ledger, access
<1>8. Busy(s)
  BY <1>1 DEF Busy, At
<1> QED
  BY <1>2, <1>4, <1>5, <1>7, <1>8, QuietStep

\* a cancellation, wherever it meets the call,
LEMMA CancelSafe ==
  ASSUME SendInv, NEW s \in Senders, Cancel(s), UNCHANGED setting
  PROVE  SendInv'
<1> DEFINE x == [send[s] EXCEPT !.cancelled = TRUE]
<1>1. send[s] \in Send /\ ~At(s, "idle") /\ CallOK(s) /\ HandOK(s)
  BY DEF SendInv, SessionOK, Cancel, At
<1>2. send' = [send EXCEPT ![s] = x]
  BY <1>1 DEF Cancel, SendInv, SessionOK
<1>3. /\ x \in Send /\ x.stage = send[s].stage /\ x.turn = send[s].turn
      /\ x.chat = send[s].chat /\ x.retry = send[s].retry
      /\ x.tokens = send[s].tokens /\ x.cost = send[s].cost
      /\ x.worker = send[s].worker /\ x.current = send[s].current
  BY <1>1 DEF Send
<1> HIDE DEF x
<1>4. send'[s] = x /\ UNCHANGED <<ledger, access, ghosts, setting>>
  BY <1>2 DEF Cancel, SendInv, SessionOK
<1>5. CallOK(s)' /\ HandOK(s)'
  BY <1>1, <1>3, <1>4, AtWork
     DEF CallOK, HandOK, HasReserved, HasMarked, At, ledger, access, ghosts
<1>6. x.stage \in {"idle", "loaded"} \/ Busy(s)
  BY <1>3 DEF Busy
<1> QED
  BY <1>2, <1>3, <1>4, <1>5, <1>6, QuietStep

\* A call that has reserved goes on to an await before the request.
LEMMA QuietContinue ==
  ASSUME SendInv, NEW s \in Senders, HasReserved(s),
         NEW next \in {"marking", "callback", "consent"}, Continue(s, next),
         next = "marking" <=> ~HasMarked(s),
         send[s].stage \notin {"http", "unknowing"},
         UNCHANGED <<ledger, access, ghosts, setting>>
  PROVE  SendInv'
<1> DEFINE x == Continued(s, next)
<1>1. /\ x \in Send /\ x.stage = next /\ x.worker = "none"
      /\ x.turn = send[s].turn /\ x.chat = send[s].chat /\ x.retry = send[s].retry
      /\ x.current = send[s].current /\ send' = [send EXCEPT ![s] = x]
  <2>1. next \in Stages
    BY DEF Stages
  <2> QED
    BY <2>1, ContinuedIs DEF SendInv
<1> HIDE DEF x
<1>2. send'[s] = x /\ turns' = turns /\ asked' = asked /\ unlocked' = unlocked
      /\ recovered' = recovered
  BY <1>1 DEF SendInv, SessionOK, ledger, ghosts, access
<1>3. ~At(s, "idle") /\ Busy(s) /\ CallOK(s)
  BY InHand DEF Busy, At, SendInv
<1>4. CallOK(s)'
  BY <1>1, <1>2, <1>3, AtWork DEF CallOK, At
<1>5. HandOK(s)'
  <2>1. HasMarked(s)' <=> HasMarked(s)
    BY <1>1, <1>2 DEF HasMarked, At
  <2> QED
    BY <1>1, <1>2, <2>1, InHand DEF HandOK
<1> QED
  BY <1>1, <1>3, <1>4, <1>5, QuietStep

\* and going on after the reservation.
LEMMA AfterReserveSafe ==
  ASSUME SendInv, NEW s \in Senders, AfterReserve(s), UNCHANGED setting
  PROVE  SendInv'
<1>1. At(s, "reserving") /\ UNCHANGED <<ledger, access, ghosts, setting>>
  BY DEF AfterReserve
<1>2. CASE Leave(s)
  BY <1>1, <1>2, QuietLeave
<1>3. ASSUME send[s].worker = "done"
      PROVE  HasReserved(s) /\ ~HasMarked(s)
  BY <1>1, <1>3 DEF HasReserved, HasMarked, At
<1>4. CASE send[s].worker = "done" /\ Settle(s, "releasing")
  BY <1>1, <1>3, <1>4, QuietSettle DEF At
<1>5. CASE send[s].worker = "done" /\ Continue(s, "marking")
  BY <1>1, <1>3, <1>5, QuietContinue DEF At
<1> QED
  BY <1>2, <1>4, <1>5 DEF AfterReserve

\* Going on after the mark keeps the invariant,
LEMMA AfterMarkSafe ==
  ASSUME SendInv, NEW s \in Senders, AfterMark(s), UNCHANGED setting
  PROVE  SendInv'
<1>1. At(s, "marking") /\ UNCHANGED <<ledger, access, ghosts, setting>>
  BY DEF AfterMark
<1>2. HasReserved(s) /\ (HasMarked(s) <=> send[s].worker = "done")
  BY <1>1 DEF HasReserved, HasMarked, At
<1>3. CASE send[s].worker = "failed" /\ Settle(s, "releasing")
  BY <1>1, <1>2, <1>3, QuietSettle DEF At
<1>4. CASE send[s].worker = "done" /\ Settle(s, "voiding")
  BY <1>1, <1>2, <1>4, QuietSettle DEF At
<1>5. CASE send[s].worker = "done" /\ Continue(s, "callback")
  BY <1>1, <1>2, <1>5, QuietContinue DEF At
<1> QED
  BY <1>3, <1>4, <1>5 DEF AfterMark

\* The request leaves: its turn is in doubt from now on.
LEMMA DispatchSafe ==
  ASSUME SendInv, NEW s \in Senders, HasReserved(s), HasMarked(s), Dispatch(s),
         UNCHANGED <<ledger, access, setting>>
  PROVE  SendInv'
<1> DEFINE x == Settled(s, "http")
<1>1. /\ x \in Send /\ x.stage = "http" /\ x.worker = "none"
      /\ x.turn = send[s].turn /\ x.chat = send[s].chat
      /\ x.retry = FALSE /\ x.current = FALSE
      /\ send' = [send EXCEPT ![s] = x]
  BY SettledIs DEF SendInv, Dispatch, Stages
<1> HIDE DEF x
<1>2. send'[s] = x /\ turns' = turns /\ unlocked' = unlocked /\ recovered' = recovered
      /\ asked' = asked \cup {send[s].turn}
  BY <1>1 DEF SendInv, SessionOK, ledger, access, Dispatch
<1>3. ~At(s, "idle") /\ Busy(s) /\ turns[send[s].turn].chat = send[s].chat
      /\ send[s].turn \in Turns
  BY InHand DEF Busy, At
<1>4. CallOK(s)'
  BY <1>1, <1>2, <1>3, AtWork DEF CallOK, At
<1>5. HandOK(s)'
  <2>1. HasMarked(s)'
    BY <1>1, <1>2 DEF HasMarked, At
  <2> QED
    BY <1>1, <1>2, <2>1, InHand DEF HandOK
<1>6. StepOf(s, x)
  BY <1>1, <1>2, <1>3 DEF StepOf, Only
<1>7. HistoryInv' /\ MarksRecorded'
  BY MarksNext DEF SendInv
<1>8. asked' \subseteq Turns /\ ExposureKept'
  BY <1>2, <1>3, InHand DEF SendInv, SessionOK, ExposureKept
<1>9. requested' \subseteq 1 .. MaxSequence
  <2>1. DOMAIN journal \subseteq 1 .. MaxSequence
    BY LedgerAssumption DEF SendInv, HistoryInv, JournalOK, MarksRecorded
  <2> QED
    BY <2>1 DEF Dispatch, SendInv, SessionOK
<1> QED
  BY <1>1, <1>3, <1>4, <1>5, <1>6, <1>7, <1>8, <1>9, OneCallStep

\* and so do going on after the callback,
LEMMA AfterCallbackSafe ==
  ASSUME SendInv, NEW s \in Senders, AfterCallback(s), UNCHANGED setting
  PROVE  SendInv'
<1>1. At(s, "callback") /\ UNCHANGED <<ledger, access, setting>>
  BY DEF AfterCallback
<1>2. HasReserved(s) /\ HasMarked(s)
  BY <1>1 DEF HasReserved, HasMarked, At
<1>3. CASE Refuse(s)
  BY <1>1, <1>2, <1>3, QuietSettle DEF Refuse, At
<1>4. CASE Continue(s, "consent") /\ UNCHANGED ghosts
  BY <1>1, <1>2, <1>4, QuietContinue DEF At
<1>5. CASE Dispatch(s)
  BY <1>1, <1>2, <1>5, DispatchSafe
<1> QED
  BY <1>3, <1>4, <1>5 DEF AfterCallback

\* after the second look at the consent,
LEMMA AfterConsentSafe ==
  ASSUME SendInv, NEW s \in Senders, AfterConsent(s), UNCHANGED setting
  PROVE  SendInv'
<1>1. At(s, "consent") /\ UNCHANGED <<ledger, access, setting>>
  BY DEF AfterConsent
<1>2. HasReserved(s) /\ HasMarked(s)
  BY <1>1 DEF HasReserved, HasMarked, At
<1>3. CASE Refuse(s)
  BY <1>1, <1>2, <1>3, QuietSettle DEF Refuse, At
<1>4. CASE Leave(s) /\ UNCHANGED ghosts
  BY <1>1, <1>4, QuietLeave
<1>5. CASE Dispatch(s)
  BY <1>1, <1>2, <1>5, DispatchSafe
<1> QED
  BY <1>3, <1>4, <1>5 DEF AfterConsent

\* and after a call that brought no result.
LEMMA NoResultSafe ==
  ASSUME SendInv, NEW s \in Senders, NoResult(s), UNCHANGED setting
  PROVE  SendInv'
<1>1. At(s, "http") /\ HasReserved(s) /\ HasMarked(s)
  BY DEF NoResult, HasReserved, HasMarked, At
<1> QED
  BY <1>1, QuietSettle DEF NoResult, At

-----------------------------------------------------------------------------
\* The workers.

\* The worker of s ended: nothing else of the call has changed.
Ended(s, how) == [send[s] EXCEPT !.worker = how]

\* The fields of a call whose worker ended.
LEMMA EndedIs ==
  ASSUME SessionOK, NEW s \in Senders, NEW how \in {"done", "failed"}
  PROVE  /\ WorkerEnds(s, how) => send' = [send EXCEPT ![s] = Ended(s, how)]
         /\ Ended(s, how) \in Send /\ Ended(s, how).worker = how
         /\ Ended(s, how).stage = send[s].stage
         /\ Ended(s, how).turn = send[s].turn /\ Ended(s, how).chat = send[s].chat
         /\ Ended(s, how).retry = send[s].retry
         /\ Ended(s, how).tokens = send[s].tokens /\ Ended(s, how).cost = send[s].cost
         /\ Ended(s, how).current = send[s].current
         /\ Ended(s, how).consent = send[s].consent
<1>1. send[s] \in Send
  BY DEF SessionOK
<1> QED
  BY <1>1 DEF WorkerEnds, Ended, Send, SessionOK

\* A worker that fails before it writes keeps the invariant,
LEMMA WorkerFailsSafe ==
  ASSUME SendInv, NEW s \in Senders, send[s].stage \in {"reserving", "marking"},
         WorkerEnds(s, "failed"), UNCHANGED <<ledger, setting>>
  PROVE  SendInv'
<1> DEFINE x == Ended(s, "failed")
<1>1. /\ x \in Send /\ x.worker = "failed" /\ x.stage = send[s].stage
      /\ x.turn = send[s].turn /\ x.chat = send[s].chat /\ x.retry = send[s].retry
      /\ x.tokens = send[s].tokens /\ x.cost = send[s].cost
      /\ x.current = send[s].current
      /\ send' = [send EXCEPT ![s] = x]
  BY EndedIs DEF SendInv
<1> HIDE DEF x
<1>2. send'[s] = x /\ UNCHANGED <<ledger, access, ghosts, setting>>
  BY <1>1 DEF SendInv, SessionOK, WorkerEnds
<1>3. ~At(s, "idle") /\ Busy(s) /\ CallOK(s) /\ HandOK(s) /\ send[s].worker = "none"
  BY DEF Busy, At, SendInv, WorkerEnds
<1>4. CallOK(s)'
  BY <1>1, <1>2, <1>3, AtWork DEF CallOK, At, ledger, access
<1>5. HandOK(s)'
  BY <1>1, <1>2, <1>3 DEF HandOK, HasReserved, HasMarked, At, ledger, ghosts
<1> QED
  BY <1>1, <1>2, <1>3, <1>4, <1>5, QuietStep

\* and so do the worker that reserves,
LEMMA ReserveWorkerSafe ==
  ASSUME SendInv, NEW s \in Senders, ReserveWorker(s), UNCHANGED setting
  PROVE  SendInv'
<1> DEFINE t == send[s].turn
           c == send[s].chat
           n == send[s].tokens
           k == send[s].cost
           x == Ended(s, "done")
<1>1. CASE UNCHANGED ledger /\ WorkerEnds(s, "failed")
  BY <1>1, WorkerFailsSafe DEF ReserveWorker, At
<1>2. CASE /\ IF send[s].retry THEN ReserveRetry(t, n, k) ELSE ReserveNew(t, c, n, k)
           /\ WorkerEnds(s, "done")
  <2>1. /\ At(s, "reserving") /\ ~At(s, "idle") /\ Busy(s) /\ CallOK(s)
        /\ t \in Turns /\ c \in Chats /\ recovered
        /\ n \in ReserveTokens /\ k \in ReserveCosts \cup {0}
        /\ send[s].retry => turns[t].chat = c
    <3>1. At(s, "reserving") /\ ~At(s, "idle") /\ Busy(s) /\ CallOK(s)
      BY DEF ReserveWorker, At, Busy, SendInv
    <3> QED
      BY <3>1, AtWork DEF CallOK
  <2>2. LedgerInv /\ HistoryInv
    BY DEF SendInv, HistoryInv
  <2>3. \/ ReserveNew(t, c, n, k)
        \/ turns[t].chat = c /\ ReserveRetry(t, n, k)
    BY <1>2, <2>1
  <2>4. /\ x \in Send /\ x.worker = "done" /\ x.stage = send[s].stage
        /\ x.turn = t /\ x.chat = c /\ x.retry = send[s].retry
        /\ x.tokens = n /\ x.cost = k /\ x.current = send[s].current
        /\ send' = [send EXCEPT ![s] = x]
    BY <1>2, EndedIs DEF SendInv
  <2> HIDE DEF t, c, n, k, x
  <2>5. /\ Next /\ Only(t)
        /\ turns[t].chat \in {NoChat, c}
        /\ turns[t].accounting \in {"none", "released"}
        /\ turns'[t].chat = c /\ turns'[t].status = "pending"
        /\ turns'[t].accounting = "reserved" /\ turns'[t].sent = FALSE
        /\ journal' = journal /\ hasTable' = hasTable /\ sequence' = sequence
    BY <2>1, <2>2, <2>3, ReserveLeaves
  <2>6. send'[s] = x /\ UNCHANGED <<access, ghosts, setting>>
    BY <1>2, <2>4 DEF SendInv, SessionOK, WorkerEnds
  <2>7. HistoryInv'
    BY <2>2, <2>5, HistoryNext
  <2>8. MarksRecorded'
    BY <2>5 DEF SendInv, MarksRecorded, Only
  <2>9. t \notin asked
    BY <2>5 DEF SendInv, ExposureKept
  <2>10. ExposureKept'
    BY <2>5, <2>6, <2>9 DEF SendInv, SessionOK, ExposureKept, Only, ghosts
  <2>11. StepOf(s, x)
    BY <2>1, <2>4, <2>5, <2>6, LedgerAssumption DEF StepOf, ghosts, t, c
  <2>12. CallOK(s)'
    BY <2>1, <2>4, <2>5, <2>6 DEF CallOK, At, access
  <2>13. HandOK(s)'
    BY <2>1, <2>4, <2>5, <2>6, <2>9 DEF HandOK, HasReserved, HasMarked, At, ghosts
  <2>14. asked' \subseteq Turns /\ requested' \subseteq 1 .. MaxSequence
    BY <2>6 DEF SendInv, SessionOK, ghosts
  <2> QED
    BY <2>1, <2>4, <2>7, <2>8, <2>10, <2>11, <2>12, <2>13, <2>14, OneCallStep DEF c
<1> QED
  BY <1>1, <1>2 DEF ReserveWorker

\* and the worker that marks.
LEMMA MarkWorkerSafe ==
  ASSUME SendInv, NEW s \in Senders, MarkWorker(s), UNCHANGED setting
  PROVE  SendInv'
<1> DEFINE t == send[s].turn
           x == Ended(s, "done")
<1>1. CASE UNCHANGED ledger /\ WorkerEnds(s, "failed")
  BY <1>1, WorkerFailsSafe DEF MarkWorker, At
<1>2. CASE MarkRequestSent(t) /\ WorkerEnds(s, "done")
  <2>1. /\ At(s, "marking") /\ ~At(s, "idle") /\ CallOK(s) /\ HasReserved(s)
        /\ send[s].worker = "none" /\ ~HasMarked(s)
    BY <1>2 DEF MarkWorker, At, SendInv, HasReserved, HasMarked, WorkerEnds
  <2>2. /\ Busy(s) /\ t \in Turns /\ send[s].chat \in Chats
        /\ turns[t].chat = send[s].chat /\ turns[t].status = "pending"
        /\ turns[t].accounting = "reserved" /\ t \notin asked
    BY <2>1, InHand DEF At
  <2>3. HistoryInv
    BY DEF SendInv
  <2>4. /\ x \in Send /\ x.worker = "done" /\ x.stage = send[s].stage
        /\ x.turn = t /\ x.chat = send[s].chat /\ x.retry = send[s].retry
        /\ x.current = send[s].current
        /\ send' = [send EXCEPT ![s] = x]
    BY <1>2, EndedIs DEF SendInv
  <2> HIDE DEF t, x
  <2>5. /\ Next /\ Only(t)
        /\ turns'[t].chat = turns[t].chat /\ turns'[t].status = turns[t].status
        /\ turns'[t].accounting = turns[t].accounting /\ turns'[t].sent = TRUE
        /\ hasTable' = TRUE /\ sequence' <= MaxSequence
    BY <1>2, <2>2, <2>3, MarkLeaves
  <2>6. send'[s] = x /\ UNCHANGED <<access, ghosts, setting>>
    BY <1>2, <2>4 DEF SendInv, SessionOK, WorkerEnds
  <2>7. HistoryInv' /\ MarksRecorded'
    BY <2>3, <2>5, HistoryNext DEF MarksRecorded
  <2>8. ExposureKept'
    BY <2>2, <2>5, <2>6 DEF SendInv, SessionOK, ExposureKept, Only, ghosts
  <2>9. StepOf(s, x)
    BY <2>2, <2>4, <2>5, <2>6 DEF StepOf, ghosts, t
  <2>10. CallOK(s)'
    BY <2>1, <2>2, <2>4, <2>5, <2>6, AtWork DEF CallOK, At, access
  <2>11. HandOK(s)'
    BY <2>1, <2>2, <2>4, <2>5, <2>6 DEF HandOK, HasReserved, HasMarked, At, ghosts
  <2>12. asked' \subseteq Turns /\ requested' \subseteq 1 .. MaxSequence
    BY <2>6 DEF SendInv, SessionOK, ghosts
  <2> QED
    BY <2>2, <2>4, <2>7, <2>8, <2>9, <2>10, <2>11, <2>12, OneCallStep
<1> QED
  BY <1>1, <1>2 DEF MarkWorker

\* A call ends in a transaction that settles its turn, which is then on record,
\* out of doubt already, or unknown.
LEMMA SettlingSafe ==
  ASSUME SendInv, NEW s \in Senders, HasReserved(s), Leave(s),
         \/ \E successful, content \in BOOLEAN, n \in UsageTokens, k \in UsageCosts :
              FinalizeKnownTurn(send[s].turn, successful, content, n, k)
         \/ ReleaseLocalFailure(send[s].turn)
         \/ ReleaseKnownFailure(send[s].turn)
         \/ ReleaseUnsentDispatch(send[s].turn)
         \/ \E partial \in BOOLEAN : MarkUnknownOutcome(send[s].turn, partial),
         \/ asked' = asked \ {send[s].turn}
         \/ asked' = asked /\ send[s].turn \notin asked
         \/ asked' = asked /\ \E partial \in BOOLEAN : MarkUnknownOutcome(send[s].turn, partial),
         UNCHANGED <<access, requested, setting>>
  PROVE  SendInv'
<1> DEFINE t == send[s].turn
<1>1. /\ Busy(s) /\ t \in Turns /\ turns[t].chat = send[s].chat /\ LedgerInv /\ HistoryInv
  BY InHand DEF SendInv, HistoryInv
<1>2. /\ Next /\ Only(t)
      /\ turns'[t].chat = turns[t].chat
      /\ turns'[t].sent => turns[t].sent
      /\ hasTable' = hasTable /\ sequence' = sequence
  BY <1>1, SettleLeaves
<1>3. HistoryInv' /\ MarksRecorded'
  BY <1>1, <1>2, HistoryNext DEF SendInv, MarksRecorded, Only
<1>4. StepOf(s, NoSend)
  BY <1>1, <1>2 DEF StepOf, Leave
<1>5. (\E partial \in BOOLEAN : MarkUnknownOutcome(t, partial)) => turns'[t].accounting = "unknown"
  BY <1>1, UnknownLeaves
<1>6. asked' \subseteq Turns
  BY DEF SendInv, SessionOK
<1>7. ExposureKept'
  BY <1>2, <1>5 DEF SendInv, SessionOK, ExposureKept, Only
<1> QED
  BY <1>3, <1>4, <1>6, <1>7, LeaveStep

\* Recording what the provider answered keeps the invariant,
LEMMA RecordResultSafe ==
  ASSUME SendInv, NEW s \in Senders, RecordResult(s), UNCHANGED setting
  PROVE  SendInv'
<1>1. HasReserved(s) /\ UNCHANGED access
  BY DEF RecordResult, HasReserved, HasMarked, At
<1> QED
  BY <1>1, SettlingSafe DEF RecordResult, Answered, ghosts

\* and so do leaving a cancelled turn in doubt,
LEMMA MarkCancelledUnknownSafe ==
  ASSUME SendInv, NEW s \in Senders, MarkCancelledUnknown(s), UNCHANGED setting
  PROVE  SendInv'
<1>1. HasReserved(s) /\ Leave(s) /\ UNCHANGED <<access, ghosts>>
  BY DEF MarkCancelledUnknown, HasReserved, HasMarked, At
<1> QED
  BY <1>1, SettlingSafe, QuietLeave DEF MarkCancelledUnknown, Swallowed, ghosts

\* releasing it before it was sent,
LEMMA ReleaseBeforeSendSafe ==
  ASSUME SendInv, NEW s \in Senders, ReleaseBeforeSend(s), UNCHANGED setting
  PROVE  SendInv'
<1>1. HasReserved(s) /\ Leave(s) /\ UNCHANGED <<access, ghosts>> /\ At(s, "releasing")
  BY DEF ReleaseBeforeSend, HasReserved, HasMarked, At
<1>2. send[s].turn \notin asked
  BY <1>1, InHand DEF At
<1> QED
  BY <1>1, <1>2, SettlingSafe, QuietLeave DEF ReleaseBeforeSend, Swallowed, ghosts

\* and releasing it after the mark, when no request was made.
LEMMA ReleaseWithoutHttpSafe ==
  ASSUME SendInv, NEW s \in Senders, ReleaseWithoutHttp(s), UNCHANGED setting
  PROVE  SendInv'
<1>1. HasReserved(s) /\ Leave(s) /\ UNCHANGED <<access, ghosts>> /\ At(s, "voiding")
  BY DEF ReleaseWithoutHttp, HasReserved, HasMarked, At
<1>2. send[s].turn \notin asked
  BY <1>1, InHand DEF At
<1> QED
  BY <1>1, <1>2, SettlingSafe, QuietLeave DEF ReleaseWithoutHttp, Swallowed, ghosts

-----------------------------------------------------------------------------
\* What happens around the senders.

\* A step that changes calls only in what the others do not depend on.
LEMMA EveryoneStep ==
  ASSUME SendInv, send' \in [Senders -> Send],
         \A s \in Senders :
           /\ send'[s].stage = send[s].stage /\ send'[s].turn = send[s].turn
           /\ send'[s].chat = send[s].chat /\ send'[s].retry = send[s].retry
           /\ send'[s].tokens = send[s].tokens /\ send'[s].cost = send[s].cost
           /\ send'[s].worker = send[s].worker
           /\ send'[s].current => send[s].current /\ unlocked'
           /\ At(s, "idle") => send'[s] = NoSend,
         unlocked' \in BOOLEAN, recovered' = recovered, unlocked' => recovered,
         UNCHANGED <<ledger, ghosts, setting>>
  PROVE  SendInv'
<1>1. HistoryInv' /\ MarksRecorded'
  BY MarksNext DEF SendInv
<1>2. SessionOK'
  BY DEF SessionOK, SendInv, ghosts
<1>3. ASSUME NEW s \in Senders
      PROVE  CallOK(s)' /\ HandOK(s)'
  <2>1. CallOK(s) /\ HandOK(s)
    BY DEF SendInv
  <2>2. ~recovered => At(s, "idle")
    BY <2>1, NoSendIs DEF CallOK, At
  <2>3. CallOK(s)'
    BY <2>1, <2>2 DEF CallOK, At, ledger
  <2>4. HandOK(s)'
    BY <2>1 DEF HandOK, HasReserved, HasMarked, At, ledger, ghosts
  <2> QED
    BY <2>3, <2>4
<1>4. LocksHeld'
  BY DEF SendInv, LocksHeld, Busy
<1>5. ExposureKept'
  BY DEF SendInv, SessionOK, ExposureKept, ledger, ghosts
<1> QED
  BY <1>1, <1>2, <1>3, <1>4, <1>5 DEF SendInv

\* Withdrawing a consent keeps the invariant.
LEMMA WithdrawSafe ==
  ASSUME SendInv, NEW c \in Chats, NEW from \in Consents \ {"none"}, NEW to \in Consents,
         Withdraw(c, from, to), UNCHANGED setting
  PROVE  SendInv'
<1> DEFINE holders == {s \in Senders : send[s].chat = c /\ send[s].consent = from}
<1>1. /\ send' = [s \in Senders |-> IF s \in holders THEN [send[s] EXCEPT !.consent = to]
                                                   ELSE send[s]]
      /\ UNCHANGED <<ledger, access, ghosts>>
  BY DEF Withdraw
<1>2. \A s \in Senders : send[s] \in Send /\ CallOK(s)
  BY DEF SendInv, SessionOK
<1>3. ASSUME NEW s \in Senders
      PROVE  /\ send'[s] \in Send
             /\ send'[s].stage = send[s].stage /\ send'[s].turn = send[s].turn
             /\ send'[s].chat = send[s].chat /\ send'[s].retry = send[s].retry
             /\ send'[s].tokens = send[s].tokens /\ send'[s].cost = send[s].cost
             /\ send'[s].worker = send[s].worker
             /\ send'[s].current = send[s].current
             /\ At(s, "idle") => send'[s] = NoSend
  <2>1. At(s, "idle") => s \notin holders /\ send[s] = NoSend
    BY <1>2, NoSendIs DEF CallOK
  <2> HIDE DEF holders
  <2>2. s \in holders => send'[s] = [send[s] EXCEPT !.consent = to]
    BY <1>1
  <2>3. s \notin holders => send'[s] = send[s]
    BY <1>1
  <2>4. send[s] \in Send
    BY <1>2
  <2> QED
    BY <2>1, <2>2, <2>3, <2>4 DEF Send
<1>4. send' \in [Senders -> Send]
  <2> HIDE DEF holders
  <2>1. DOMAIN send' = Senders /\ send' = [s \in Senders |-> send'[s]]
    BY <1>1
  <2> QED
    BY <1>3, <2>1
<1>5. unlocked' = unlocked /\ recovered' = recovered /\ unlocked' \in BOOLEAN
      /\ (unlocked' => recovered) /\ \A s \in Senders : send[s].current => unlocked'
  BY <1>1, <1>2 DEF access, SendInv, SessionOK, CallOK
<1> HIDE DEF holders
<1> QED
  BY <1>1, <1>3, <1>4, <1>5, EveryoneStep

\* Locking the session keeps the invariant,
LEMMA LockSafe ==
  ASSUME SendInv, Lock, UNCHANGED setting
  PROVE  SendInv'
<1>1. \A s \in Senders : send[s] \in Send /\ CallOK(s)
  BY DEF SendInv, SessionOK
<1>2. send' = [s \in Senders |-> [send[s] EXCEPT !.current = FALSE]]
  BY DEF Lock
<1>3. ASSUME NEW s \in Senders
      PROVE  /\ send'[s] \in Send
             /\ send'[s].stage = send[s].stage /\ send'[s].turn = send[s].turn
             /\ send'[s].chat = send[s].chat /\ send'[s].retry = send[s].retry
             /\ send'[s].tokens = send[s].tokens /\ send'[s].cost = send[s].cost
             /\ send'[s].worker = send[s].worker
             /\ send'[s].current = FALSE
             /\ At(s, "idle") => send'[s] = NoSend
  <2>1. send'[s] = [send[s] EXCEPT !.current = FALSE] /\ send[s] \in Send
    BY <1>1, <1>2
  <2>2. send[s] = NoSend => send'[s] = NoSend
    <3> DEFINE y == [NoSend EXCEPT !.current = FALSE]
    <3>1. /\ y \in Send
          /\ y.stage = NoSend.stage /\ y.turn = NoSend.turn /\ y.chat = NoSend.chat
          /\ y.retry = NoSend.retry /\ y.tokens = NoSend.tokens /\ y.cost = NoSend.cost
          /\ y.cancelled = NoSend.cancelled /\ y.consent = NoSend.consent
          /\ y.worker = NoSend.worker /\ y.current = NoSend.current
      BY NoSendIs DEF Send
    <3>2. NoSend \in Send
      BY NoSendIs
    <3> HIDE DEF y
    <3>3. y = NoSend
      BY <3>1, <3>2 DEF Send
    <3> QED
      BY <2>1, <3>3 DEF y
  <2>3. At(s, "idle") => send'[s] = NoSend
    BY <1>1, <2>2 DEF CallOK
  <2> QED
    BY <2>1, <2>3 DEF Send
<1>4. send' \in [Senders -> Send]
  BY <1>2, <1>3
<1>5. unlocked' = FALSE /\ recovered' = recovered /\ UNCHANGED <<ledger, ghosts>>
  BY DEF Lock
<1> QED
  BY <1>3, <1>4, <1>5, EveryoneStep

\* and so do the end of the process,
LEMMA ProcessDies ==
  ASSUME SendInv, Crash, UNCHANGED setting
  PROVE  SendInv'
<1>1. HistoryInv' /\ MarksRecorded'
  BY MarksNext DEF SendInv, Crash
<1>2. /\ send' = [s \in Senders |-> NoSend] /\ unlocked' = FALSE /\ recovered' = FALSE
      /\ asked' = asked /\ turns' = turns
  BY DEF Crash, ledger
<1>3. DOMAIN journal \subseteq 1 .. MaxSequence
  BY LedgerAssumption DEF SendInv, HistoryInv, JournalOK, MarksRecorded
<1>4. SessionOK'
  BY <1>2, <1>3, NoSendIs DEF SessionOK, SendInv, Crash
<1>5. ASSUME NEW s \in Senders
      PROVE  CallOK(s)' /\ HandOK(s)' /\ ~Busy(s)'
  BY <1>2, NoSendIs DEF CallOK, HandOK, HasReserved, HasMarked, At, Busy
<1>6. LocksHeld'
  BY <1>5 DEF LocksHeld
<1>7. ExposureKept'
  BY <1>2 DEF SendInv, ExposureKept
<1> QED
  BY <1>1, <1>4, <1>5, <1>6, <1>7 DEF SendInv

\* the sign-in with its recovery,
LEMMA UnlockSafe ==
  ASSUME SendInv, Unlock, UNCHANGED setting
  PROVE  SendInv'
<1>1. /\ unlocked' = TRUE /\ recovered' = TRUE
      /\ UNCHANGED <<send, ghosts>>
      /\ UNCHANGED ledger \/ RecoverInterruptedTurns
      /\ recovered => UNCHANGED ledger
  BY DEF Unlock
<1>2. /\ HistoryInv' /\ MarksRecorded'
      /\ \A t \in Turns : turns[t].status # "pending" => turns'[t] = turns[t]
  BY <1>1, MarksNext DEF SendInv
<1>3. SessionOK'
  BY <1>1 DEF SessionOK, SendInv, ghosts
<1>4. ASSUME NEW s \in Senders
      PROVE  CallOK(s)' /\ HandOK(s)'
  <2>1. CallOK(s) /\ HandOK(s)
    BY DEF SendInv
  <2>2. CASE recovered
    BY <1>1, <2>1, <2>2 DEF CallOK, HandOK, HasReserved, HasMarked, At, ledger, ghosts
  <2>3. CASE ~recovered
    <3>1. send'[s] = NoSend
      BY <1>1, <2>1, <2>3 DEF CallOK
    <3> QED
      BY <3>1, NoSendIs DEF CallOK, HandOK, HasReserved, HasMarked, At
  <2> QED
    BY <2>2, <2>3
<1>5. LocksHeld'
  BY <1>1 DEF SendInv, LocksHeld, Busy
<1>6. ExposureKept'
  <2>1. ASSUME NEW t \in asked
        PROVE  turns'[t].accounting \in {"reserved", "unknown"}
    <3>1. t \in Turns /\ turns[t].accounting \in {"reserved", "unknown"}
      BY DEF SendInv, SessionOK, ExposureKept
    <3>2. CASE UNCHANGED ledger
      BY <3>1, <3>2 DEF ledger
    <3>3. CASE turns[t].status # "pending"
      BY <1>2, <3>1, <3>3
    <3>4. CASE RecoverInterruptedTurns /\ turns[t].status = "pending"
      <4>1. turns[t] \in Turn /\ turns[t].tokens > 0
        BY <3>1 DEF SendInv, HistoryInv, LedgerInv, RowsOK
      <4>2. turns'[t] = [turns[t] EXCEPT !.status = "failed", !.message = "failed",
                                         !.accounting = "unknown"]
        BY <3>1, <3>4, RecoveredIs DEF RecoverInterruptedTurns, SendInv, HistoryInv
      <4> QED
        BY <4>1, <4>2 DEF Turn
    <3> QED
      BY <1>1, <3>2, <3>3, <3>4
  <2> QED
    BY <1>1, <2>1 DEF ExposureKept, ghosts
<1> QED
  BY <1>2, <1>3, <1>4, <1>5, <1>6 DEF SendInv

\* A step of the user that leaves every turn a call works on, and every turn in
\* doubt, as it was.
LEMMA UserStep ==
  ASSUME SendInv, HistoryInv', MarksRecorded',
         UNCHANGED <<send, access, requested, setting>>,
         asked' \subseteq asked,
         \A t \in Turns : /\ turns'[t].chat = turns[t].chat
                          /\ turns[t].status = "pending" => turns'[t] = turns[t]
                          /\ t \in asked' => turns'[t].accounting = turns[t].accounting
  PROVE  SendInv'
<1>1. SessionOK' /\ LocksHeld' /\ ExposureKept'
  BY DEF SessionOK, SendInv, access, LocksHeld, Busy, ExposureKept
<1>2. ASSUME NEW s \in Senders
      PROVE  CallOK(s)' /\ HandOK(s)'
  <2>1. CallOK(s) /\ HandOK(s)
    BY DEF SendInv
  <2>2. send[s].retry => send[s].turn \in Turns
    BY <2>1, NoSendIs DEF CallOK
  <2>3. HasReserved(s) => send[s].turn \in Turns
    BY InHand
  <2> QED
    BY <2>1, <2>2, <2>3 DEF CallOK, HandOK, HasReserved, HasMarked, At, access
<1> QED
  BY <1>1, <1>2 DEF SendInv

\* the user's change of limits,
LEMMA LimitsSafe ==
  ASSUME SendInv, UserChangesLimits, UNCHANGED setting
  PROVE  SendInv'
<1>1. HistoryInv' /\ MarksRecorded'
  BY MarksNext DEF SendInv, UserChangesLimits
<1>2. turns' = turns /\ UNCHANGED <<send, access, ghosts>>
  BY DEF UserChangesLimits, SetChatLimits
<1> QED
  BY <1>1, <1>2, UserStep DEF ghosts

\* and the user's release of a turn in doubt.
LEMMA UserReleaseSafe ==
  ASSUME SendInv, NEW t \in Turns, UserReleasesUnknown(t), UNCHANGED setting
  PROVE  SendInv'
<1>1. /\ ReleaseUnknownReservation(t) /\ turns[t].accounting = "unknown"
      /\ asked' = asked \ {t} /\ UNCHANGED <<requested, send, access>>
      /\ HistoryInv /\ LedgerInv
  BY DEF UserReleasesUnknown, ReleaseUnknownReservation, SendInv, HistoryInv
<1>2. /\ Next /\ Only(t)
      /\ turns'[t].chat = turns[t].chat
      /\ turns'[t].sent => turns[t].sent
      /\ hasTable' = hasTable /\ sequence' = sequence
  BY <1>1, SettleLeaves
<1>3. HistoryInv' /\ MarksRecorded'
  BY <1>1, <1>2, HistoryNext DEF SendInv, MarksRecorded, Only
<1>4. turns[t].status # "pending"
  BY <1>1 DEF LedgerInv, MessagesMatchTurns
<1> QED
  BY <1>1, <1>2, <1>3, <1>4, UserStep DEF Only

-----------------------------------------------------------------------------
\* The start and the steps, together.

\* The process that finds configured chats starts from a ledger in order.
LEMMA SendInitLedger == SendInit => HistoryInv /\ MarksRecorded
<1> SUFFICES ASSUME SendInit PROVE HistoryInv /\ MarksRecorded
  OBVIOUS
<1>0. PICK m \in setting.modes, limit \in TokenLimits :
         \E money \in AdmissibleCostLimits(m) :
           /\ mode = [c \in Chats |-> m]
           /\ budgets = [c \in Chats |-> NewBudget(limit, money)]
  BY DEF SendInit
<1>1. PICK money \in AdmissibleCostLimits(m) :
         /\ mode = [c \in Chats |-> m]
         /\ budgets = [c \in Chats |-> NewBudget(limit, money)]
  BY <1>0
<1>2. m \in Modes /\ limit \in Nat \ {0} /\ money \in Nat /\ (m = "paid" => money # 0)
  BY <1>1, SendingAssumption, LedgerAssumption DEF SendInit, AdmissibleCostLimits
<1> DEFINE b == NewBudget(limit, money)
<1>3. /\ b \in Budget /\ b.reserved = 0 /\ b.costReserved = 0
      /\ b.configured <=> b.tokenLimit # 0
      /\ b.tokenLimit = limit /\ b.costLimit = money
      /\ b.state = CalculateState(m, b, FALSE)
  <2>1. m \in Modes /\ limit \in Nat /\ money \in Nat /\ (m = "paid" /\ limit # 0 => money # 0)
    BY <1>2
  <2>2. b.state = CalculateState(m, b, FALSE)
    BY <2>1, NewBudgetIsCurrent
  <2>3. /\ b \in Budget /\ b.reserved = 0 /\ b.costReserved = 0
        /\ b.configured <=> b.tokenLimit # 0
        /\ b.tokenLimit = limit /\ b.costLimit = money
    BY <2>1, NewBudgetOK
  <2> QED
    BY <2>2, <2>3
<1> HIDE DEF b
<1>4. /\ NoTurnRow \in Turn
      /\ NoTurnRow.chat = NoChat /\ NoTurnRow.accounting = "none"
      /\ NoTurnRow.status = "none" /\ NoTurnRow.message = "none"
      /\ NoTurnRow.reply = "none" /\ ~NoTurnRow.sent
  BY DEF NoTurnRow, Turn
<1>5. /\ \A t \in Turns : turns[t] = NoTurnRow
      /\ \A c \in Chats : mode[c] = m /\ budgets[c] = b
      /\ turns \in [Turns -> Turn] /\ budgets \in [Chats -> Budget]
      /\ mode \in [Chats -> Modes \cup {"none"}]
  BY <1>1, <1>2, <1>3, <1>4 DEF SendInit, b
<1>6. \A c \in Chats : TurnsOf(c) = {} /\ Open(c) = {}
  BY <1>4, <1>5, LedgerAssumption DEF TurnsOf, Open
<1>7. RowsOK /\ MessagesMatchTurns
  BY <1>4, <1>5 DEF RowsOK, MessagesMatchTurns
<1>8. BudgetsOK /\ ReservationBacked /\ StateIsCurrent /\ HeldWithinLimits
  BY <1>2, <1>3, <1>5, <1>6
     DEF BudgetsOK, ReservationBacked, StateIsCurrent, HeldWithinLimits, Modes
<1>9. LedgerInv
  BY <1>5, <1>7, <1>8 DEF LedgerInv
<1>10. hasTable = FALSE /\ sequence = 0 /\ DOMAIN journal = {}
  BY DEF SendInit, EmptyJournal
<1>11. JournalOK /\ JournalFollows
  BY <1>4, <1>5, <1>10
     DEF JournalOK, JournalFollows, OutcomesCarried, PendingIsLast
<1>12. MarksRecorded
  BY <1>4, <1>5, <1>10, LedgerAssumption DEF MarksRecorded
<1> QED
  BY <1>9, <1>11, <1>12 DEF HistoryInv

\* The initial states satisfy the invariant.
LEMMA SendInitSafe == SendInit => SendInv
<1> SUFFICES ASSUME SendInit PROVE SendInv
  OBVIOUS
<1>1. HistoryInv /\ MarksRecorded
  BY SendInitLedger
<1>2. /\ \A s \in Senders : send[s] = NoSend
      /\ send \in [Senders -> Send]
  BY NoSendIs DEF SendInit
<1>3. SessionOK /\ ExposureKept
  BY <1>2 DEF SendInit, SessionOK, ExposureKept
<1>4. ASSUME NEW s \in Senders
      PROVE  CallOK(s) /\ HandOK(s) /\ ~Busy(s)
  BY <1>2, NoSendIs DEF CallOK, HandOK, HasReserved, HasMarked, At, Busy, SendInit
<1>5. LocksHeld
  BY <1>4 DEF LocksHeld
<1> QED
  BY <1>1, <1>3, <1>4, <1>5 DEF SendInv

\* Every step of a sender keeps it,
LEMMA ProceedSafe ==
  ASSUME SendInv, NEW s \in Senders, Begin(s) \/ Proceed(s), UNCHANGED setting
  PROVE  SendInv'
<1>1. CASE Begin(s)
  BY <1>1, BeginSafe DEF Begin
<1>2. CASE \/ TakeLock(s)
           \/ \E n \in ReserveTokens, k \in ReserveCosts \cup {0} : Preflight(s, n, k)
           \/ PreflightFails(s)
  BY <1>2, TakeLockSafe, PreflightSafe, QuietLeave DEF PreflightFails
<1>3. CASE ReserveWorker(s) \/ AfterReserve(s) \/ MarkWorker(s) \/ AfterMark(s)
  BY <1>3, ReserveWorkerSafe, AfterReserveSafe, MarkWorkerSafe, AfterMarkSafe
<1>4. CASE AfterCallback(s) \/ AfterConsent(s) \/ RecordResult(s) \/ NoResult(s)
  BY <1>4, AfterCallbackSafe, AfterConsentSafe, RecordResultSafe, NoResultSafe
<1>5. CASE MarkCancelledUnknown(s) \/ ReleaseBeforeSend(s) \/ ReleaseWithoutHttp(s)
  BY <1>5, MarkCancelledUnknownSafe, ReleaseBeforeSendSafe, ReleaseWithoutHttpSafe
<1> QED
  BY <1>1, <1>2, <1>3, <1>4, <1>5 DEF Proceed

\* and every step around them.
LEMMA EnvironmentSafe ==
  ASSUME SendInv, Environment, UNCHANGED setting
  PROVE  SendInv'
<1>1. ASSUME NEW c \in Chats, Withdraw(c, "valid", "revoking") \/ Withdraw(c, "revoking", "revoked")
      PROVE  SendInv'
  <2>1. "valid" \in Consents \ {"none"} /\ "revoking" \in Consents \ {"none"} /\ "revoked" \in Consents
    BY DEF Consents
  <2> QED
    BY <1>1, <2>1, WithdrawSafe
<1> QED
  BY <1>1, CancelSafe, LockSafe, UnlockSafe, ProcessDies, LimitsSafe, UserReleaseSafe
     DEF Environment

\* So does every step.
LEMMA SendInvNext ==
  ASSUME SendInv, [SendNext]_vars
  PROVE  SendInv'
<1>1. CASE SendNext
  BY <1>1, ProceedSafe, EnvironmentSafe DEF SendNext
<1>2. CASE UNCHANGED vars
  <2>1. HistoryInv' /\ MarksRecorded'
    BY <1>2, MarksNext DEF SendInv, vars
  <2> QED
    BY <1>2, <2>1
       DEF SendInv, vars, ledger, access, ghosts, SessionOK, CallOK, HandOK, HasReserved,
           HasMarked, At, Busy, LocksHeld, ExposureKept
<1> QED
  BY <1>1, <1>2

\* Whatever the senders, the user and the process do, the invariant holds.
LEMMA SendInvariant == SendSpec => []SendInv
<1>1. SendInv /\ [SendNext]_vars => SendInv'
  BY SendInvNext
<1> QED
  BY <1>1, SendInitSafe, PTL DEF SendSpec

\* A sender that waits owns the turn it will settle: no other sender, recovery
\* or user release has touched it, and it is marked exactly from the mark on
\* (the lock of the chat and the lease, chat/sending.py).
THEOREM SendersAlwaysOwn == SendSpec => []SendersOwn
<1>1. SendInv => SendersOwn
  <2> SUFFICES ASSUME SendInv PROVE SendersOwn
    OBVIOUS
  <2>1. SendTypeOK
    BY DEF SendInv, SessionOK, CallOK, SendTypeOK
  <2>2. ASSUME NEW s \in Senders, HasReserved(s), NEW r \in Senders \ {s}, HasReserved(r)
        PROVE  send[r].chat # send[s].chat
    BY <2>2, InHand DEF SendInv, LocksHeld
  <2>3. TurnInHand
    BY <2>2, InHand DEF TurnInHand
  <2> QED
    BY <2>1, <2>3 DEF SendersOwn
<1> QED
  BY <1>1, SendInvariant, PTL

\* Money that may have been spent stays held until an answer is on record or the
\* user gives it up (mark_unknown_outcome and the restart recovery).
THEOREM ExposureAlwaysKept == SendSpec => []ExposureKept
<1>1. SendInv => ExposureKept
  BY DEF SendInv
<1> QED
  BY <1>1, SendInvariant, PTL

-----------------------------------------------------------------------------
\* The moment of dispatch.

\* The guards of the step that sends the request.
MayDispatch(s) == HasMarked(s) /\ CanDispatch(s)

\* No other step brings a call to its request.
LEMMA OnlyDispatchAsks ==
  ASSUME SessionOK, SendNext, NEW s \in Senders, ~At(s, "http"), At(s, "http")'
  PROVE  MayDispatch(s)
<1>1. send \in [Senders -> Send] /\ send[s] \in Send /\ send'[s].stage = "http"
      /\ send[s].stage # "http"
  BY DEF SessionOK, At
<1>2. ASSUME NEW r \in Senders, NEW x, send' = [send EXCEPT ![r] = x], x.stage # "http"
      PROVE  FALSE
  BY <1>1, <1>2
<1>3. ASSUME NEW r \in Senders, NEW next \in Stages \ {"http"},
             Continue(r, next) \/ Settle(r, next)
      PROVE  FALSE
  <2>1. next \in Stages /\ next # "http"
    OBVIOUS
  <2>2. CASE Continue(r, next)
    <3>1. send' = [send EXCEPT ![r] = Continued(r, next)] /\ Continued(r, next).stage = next
      BY <2>1, <2>2, ContinuedIs
    <3> QED
      BY <1>2, <2>1, <3>1
  <2>3. CASE Settle(r, next)
    <3>1. send' = [send EXCEPT ![r] = Settled(r, next)] /\ Settled(r, next).stage = next
      BY <2>1, <2>3, SettledIs
    <3> QED
      BY <1>2, <2>1, <3>1
  <2> QED
    BY <1>3, <2>2, <2>3
<1>4. ASSUME NEW r \in Senders, Leave(r)
      PROVE  FALSE
  BY <1>2, <1>4, NoSendIs DEF Leave
<1>5. ASSUME NEW r \in Senders, NEW how \in {"done", "failed"}, WorkerEnds(r, how),
             send[r].stage # "http"
      PROVE  FALSE
  BY <1>2, <1>5, EndedIs
<1>6. ASSUME NEW r \in Senders, Dispatch(r)
      PROVE  r = s
  BY <1>1, <1>6 DEF Dispatch, Settle
<1>7. ASSUME NEW r \in Senders, Begin(r)
      PROVE  FALSE
  <2>1. PICK c, t, b, next : Start(r, c, t, b, next) /\ next \in {"preflight", "loaded"}
    BY <1>7 DEF Begin, SendMessage, RetryFailedTurn
  <2>2. PICK k : send' = [send EXCEPT ![r] =
          [NoSend EXCEPT !.stage = next, !.turn = t, !.chat = c, !.retry = b,
                         !.consent = k, !.current = TRUE]]
    BY <2>1, Zenon DEF Start
  <2> DEFINE x == [NoSend EXCEPT !.stage = next, !.turn = t, !.chat = c, !.retry = b,
                                 !.consent = k, !.current = TRUE]
  <2>3. x.stage = next
    BY DEF NoSend
  <2> QED
    BY <1>2, <2>1, <2>2, <2>3
<1>8. ASSUME NEW r \in Senders, NEW n, NEW k, Preflight(r, n, k)
      PROVE  FALSE
  <2>1. send' = [send EXCEPT ![r].stage = "reserving", ![r].tokens = n, ![r].cost = k]
    BY <1>8 DEF Preflight
  <2> QED
    BY <1>1, <2>1 DEF Send
<1>9. /\ "preflight" \in Stages \ {"http"} /\ "marking" \in Stages \ {"http"}
      /\ "releasing" \in Stages \ {"http"} /\ "voiding" \in Stages \ {"http"}
      /\ "callback" \in Stages \ {"http"} /\ "consent" \in Stages \ {"http"}
      /\ "unknowing" \in Stages \ {"http"}
  BY DEF Stages
<1>10. ASSUME NEW r \in Senders, TakeLock(r) \/ PreflightFails(r) \/ AfterReserve(r) \/ AfterMark(r)
       PROVE  FALSE
  BY <1>3, <1>4, <1>9, <1>10 DEF TakeLock, PreflightFails, AfterReserve, AfterMark
<1>11. ASSUME NEW r \in Senders, ReserveWorker(r) \/ MarkWorker(r)
       PROVE  FALSE
  BY <1>5, <1>11 DEF ReserveWorker, MarkWorker, At
<1>12. ASSUME NEW r \in Senders, AfterCallback(r) \/ AfterConsent(r)
       PROVE  MayDispatch(s)
  <2>1. CASE Dispatch(r) /\ CanDispatch(r)
    BY <1>6, <1>12, <2>1 DEF MayDispatch, AfterCallback, AfterConsent, HasMarked, At
  <2> QED
    BY <1>3, <1>4, <1>9, <1>12, <2>1 DEF AfterCallback, AfterConsent, Refuse
<1>13. ASSUME NEW r \in Senders,
              \/ RecordResult(r) \/ NoResult(r) \/ MarkCancelledUnknown(r)
              \/ ReleaseBeforeSend(r) \/ ReleaseWithoutHttp(r)
       PROVE  FALSE
  BY <1>3, <1>4, <1>9, <1>13
     DEF RecordResult, NoResult, MarkCancelledUnknown, ReleaseBeforeSend, ReleaseWithoutHttp
<1>14. ASSUME Environment
       PROVE  FALSE
  <2>1. CASE \E r \in Senders : Cancel(r)
    BY <1>1, <2>1 DEF Cancel, Send
  <2>2. ASSUME NEW c, NEW from, NEW to, Withdraw(c, from, to)
        PROVE  FALSE
    <3> DEFINE holders == {r \in Senders : send[r].chat = c /\ send[r].consent = from}
    <3>1. send'[s] = IF s \in holders THEN [send[s] EXCEPT !.consent = to] ELSE send[s]
      BY <2>2 DEF Withdraw
    <3> HIDE DEF holders
    <3> QED
      BY <1>1, <3>1 DEF Send
  <2>3. CASE Lock
    BY <1>1, <2>3 DEF Lock, Send
  <2>4. CASE Crash
    BY <1>1, <2>4, NoSendIs DEF Crash
  <2>5. CASE Unlock \/ UserChangesLimits \/ \E t \in Turns : UserReleasesUnknown(t)
    BY <1>1, <2>5 DEF Unlock, UserChangesLimits, UserReleasesUnknown
  <2> QED
    BY <1>14, <2>1, <2>2, <2>3, <2>4, <2>5 DEF Environment
<1>15. ASSUME NEW r \in Senders, Proceed(r)
       PROVE  MayDispatch(s)
  BY <1>8, <1>10, <1>11, <1>12, <1>13, <1>15 DEF Proceed
<1> QED
  BY <1>7, <1>14, <1>15 DEF SendNext

\* What DispatchAuthorized says of a step.
Authorized ==
  \A s \in Senders : ~At(s, "http") /\ At(s, "http")' =>
    LET t == send[s].turn
    IN /\ unlocked /\ send[s].current /\ send[s].consent \in {"none", "valid"}
       /\ turns[t].chat = send[s].chat
       /\ turns[t].accounting = "reserved" /\ turns[t].sent
       /\ \E r \in DOMAIN journal : /\ IsLatest(journal, r, t)
                                    /\ journal[r].snapshot.status = "pending"

\* A step that sends a request is an authorized one.
LEMMA DispatchIsAuthorized == SendInv /\ [SendNext]_vars => [Authorized]_vars
<1> SUFFICES ASSUME SendInv, SendNext, NEW s \in Senders, ~At(s, "http"), At(s, "http")',
                    NEW t, t = send[s].turn
             PROVE  /\ unlocked /\ send[s].current /\ send[s].consent \in {"none", "valid"}
                    /\ turns[t].chat = send[s].chat
                    /\ turns[t].accounting = "reserved" /\ turns[t].sent
                    /\ \E r \in DOMAIN journal : /\ IsLatest(journal, r, t)
                                                 /\ journal[r].snapshot.status = "pending"
  BY DEF Authorized
<1>1. MayDispatch(s)
  BY OnlyDispatchAsks DEF SendInv
<1>2. HasReserved(s) /\ HasMarked(s)
  BY <1>1 DEF MayDispatch, HasReserved
<1>3. unlocked /\ send[s].current /\ send[s].consent \in {"none", "valid"}
  BY <1>1 DEF MayDispatch, CanDispatch, ConsentCurrent, SendInv, CallOK
<1>4. /\ t \in Turns /\ turns[t].chat = send[s].chat /\ turns[t].status = "pending"
      /\ turns[t].accounting = "reserved" /\ turns[t].sent
  BY <1>2, InHand
<1>5. hasTable
  BY <1>4 DEF SendInv, MarksRecorded
<1>6. PICK r \in DOMAIN journal : IsLatest(journal, r, t) /\ journal[r].snapshot = Snapshot(turns[t])
  BY <1>4, <1>5 DEF SendInv, HistoryInv, JournalFollows, OutcomesCarried
<1>7. journal[r].snapshot.status = "pending"
  BY <1>4, <1>6 DEF Snapshot
<1> QED
  BY <1>3, <1>4, <1>6, <1>7

\* No request leaves after its permission is gone: at the moment of dispatch the
\* session is open, the consent stands, and the turn is reserved, marked and on
\* record (the guards between the mark and the request, chat/sending.py).
THEOREM EveryDispatchAuthorized == SendSpec => DispatchAuthorized
<1>1. SendInv /\ [SendNext]_vars => [Authorized]_vars
  BY DispatchIsAuthorized
<1>2. SendSpec => [][Authorized]_vars
  BY <1>1, SendInvariant, PTL DEF SendSpec
<1> QED
  BY <1>2 DEF DispatchAuthorized, Authorized

-----------------------------------------------------------------------------
\* No turn waits for nobody, and no row tells of a request nobody made.

\* While the process lives, a pending turn has a call that will settle it.
TurnsHeld ==
  recovered => \A t \in Turns : turns[t].status = "pending" =>
    \E s \in Senders : HasReserved(s) /\ send[s].turn = t

\* Before the recovery, every row it will find pending counts as a request.
CrashCounted ==
  ~recovered => \A q \in DOMAIN journal : journal[q].snapshot.status = "pending" => q \in requested

\* A call that waits for an answer, or has given up waiting, has its row counted.
AnswersCounted ==
  \A s \in Senders : send[s].stage \in {"http", "unknowing"} =>
    \A q \in DOMAIN journal : IsLatest(journal, q, send[s].turn) => q \in requested

\* Where consents are not saved, no call looks at one again.
NoConsent == \A s \in Senders : send[s].consent = "none" /\ ~At(s, "consent")

\* The second invariant.
Accounted == NoConsent /\ TurnsHeld /\ CrashCounted /\ RowsWereSent /\ AnswersCounted

\* A synchronised journal differs in the latest row of its turn only, and only if
\* that turn is marked.
LEMMA SyncRows ==
  ASSUME JournalOK, NEW t \in Turns, journal' = Synchronize(journal, turns', t)
  PROVE  /\ DOMAIN journal' = DOMAIN journal
         /\ \A q, u : IsLatest(journal', q, u) <=> IsLatest(journal, q, u)
         /\ \A q \in DOMAIN journal :
              journal'[q] = journal[q] \/ (turns'[t].sent /\ IsLatest(journal, q, t))
<1>1. /\ DOMAIN journal' = DOMAIN journal
      /\ \A s \in DOMAIN journal :
           /\ journal'[s].turn = journal[s].turn
           /\ journal'[s].chat = journal[s].chat
  BY DEF Synchronize, JournalOK, Attempt
<1>2. \A q, u : IsLatest(journal', q, u) <=> IsLatest(journal, q, u)
  BY <1>1, SameLatest
<1>3. \A q \in DOMAIN journal :
        journal'[q] = journal[q] \/ (turns'[t].sent /\ IsLatest(journal, q, t))
  BY DEF Synchronize
<1> QED
  BY <1>1, <1>2, <1>3

\* A voided dispatch takes its row out, and touches no other.
LEMMA VoidRows ==
  ASSUME LedgerInv, NEW t \in Turns, ReleaseUnsentDispatch(t)
  PROVE  /\ DOMAIN journal' \subseteq DOMAIN journal
         /\ \A q \in DOMAIN journal' : journal'[q] = journal[q]
         /\ \A u \in Turns \ {t} : \A q : IsLatest(journal', q, u) => IsLatest(journal, q, u)
<1>1. PICK r \in DOMAIN journal :
           /\ IsLatest(journal, r, t)
           /\ journal' = Synchronize(DeleteAttempt(journal, r), turns', t)
  BY DEF ReleaseUnsentDispatch
<1>2. ~turns'[t].sent
  BY DEF ReleaseUnsentDispatch, ReleaseReservation, LedgerInv, Turn
<1>3. /\ DOMAIN journal' = DOMAIN journal \ {r}
      /\ \A q \in DOMAIN journal' : journal'[q] = journal[q]
  BY <1>1, <1>2 DEF Synchronize, DeleteAttempt
<1>4. journal[r].turn = t
  BY <1>1 DEF IsLatest
<1> QED
  BY <1>3, <1>4 DEF IsLatest

\* Here a mark adds one pending row to the rows there were.
LEMMA MarkRows ==
  ASSUME HistoryInv, MarksRecorded, NEW t \in Turns, MarkRequestSent(t)
  PROVE  /\ \A q \in DOMAIN journal' :
              journal'[q].snapshot.status # "pending" =>
                q \in DOMAIN journal /\ journal[q].snapshot.status # "pending"
         /\ \A u \in Turns \ {t} : \A q : IsLatest(journal', q, u) => IsLatest(journal, q, u)
<1>0. LedgerInv'
  BY LedgerInvNext DEF HistoryInv, Next
<1>1. PICK old, last : MarkedFrom(old, last, t)
  BY <1>0, MarkedJournal DEF HistoryInv
<1>2. turns'[t].status = "pending"
  BY DEF MarkRequestSent, HistoryInv, LedgerInv, Turn
<1> DEFINE new == AttemptRow(t, turns'[t], TRUE)
<1>3. new.turn = t /\ new.snapshot.status = "pending"
  BY <1>2 DEF AttemptRow, Snapshot
<1>4. /\ last \in Nat /\ DOMAIN old \subseteq 1 .. last
      /\ DOMAIN journal' = DOMAIN old \cup {last + 1}
      /\ \A q \in DOMAIN journal' : journal'[q] = IF q = last + 1 THEN new ELSE old[q]
  BY <1>1 DEF MarkedFrom
<1> HIDE DEF new
<1>5. DOMAIN old \subseteq DOMAIN journal /\ \A q \in DOMAIN old : old[q] = journal[q]
  <2>1. CASE hasTable
    BY <1>1, <2>1 DEF MarkedFrom
  <2>2. CASE ~hasTable
    <3>1. PICK order \in BackfillOrders(turns) : old = Backfill(turns, order)
      BY <1>1, <2>2 DEF MarkedFrom
    <3>2. Dispatched(turns) = {}
      BY <2>2 DEF MarksRecorded, Dispatched, HistoryInv, LedgerInv
    <3>3. order \in [1 .. 0 -> {}]
      BY <3>1, <3>2, FS_EmptySet DEF BackfillOrders
    <3>4. DOMAIN order = {}
      BY <3>3
    <3> QED
      BY <3>1, <3>4 DEF Backfill
  <2> QED
    BY <2>1, <2>2
<1>6. ASSUME NEW q \in DOMAIN journal', q # last + 1
      PROVE  q \in DOMAIN journal /\ journal'[q] = journal[q]
  BY <1>4, <1>5, <1>6
<1>7. ASSUME NEW u \in Turns \ {t}, NEW q, IsLatest(journal', q, u)
      PROVE  IsLatest(journal, q, u)
  <2>1. q \in DOMAIN journal' /\ journal'[q].turn = u
    BY <1>7 DEF IsLatest
  <2>2. q # last + 1
    BY <1>3, <1>4, <2>1
  <2>3. q \in DOMAIN journal /\ journal[q].turn = u
    BY <1>6, <2>1, <2>2
  <2>4. ASSUME NEW p \in DOMAIN journal, journal[p].turn = u
        PROVE  p <= q
    <3>1. hasTable
      BY <2>4 DEF HistoryInv, JournalFollows
    <3>2. p \in DOMAIN journal' /\ p # last + 1
      BY <1>1, <1>4, <3>1 DEF MarkedFrom
    <3>3. journal'[p].turn = u
      BY <1>6, <2>4, <3>2
    <3> QED
      BY <1>7, <3>2, <3>3 DEF IsLatest
  <2> QED
    BY <2>3, <2>4 DEF IsLatest
<1> QED
  BY <1>3, <1>4, <1>6, <1>7

\* Two calls that have reserved work on two turns.
LEMMA TwoTurns ==
  ASSUME SendInv, NEW s \in Senders, NEW r \in Senders \ {s}, HasReserved(s), HasReserved(r)
  PROVE  send[r].turn # send[s].turn /\ send[r].turn \in Turns
<1>1. send[r].chat # send[s].chat
  BY InHand DEF SendInv, LocksHeld
<1> QED
  BY <1>1, InHand

\* A step of one call keeps the accounts if it leaves no turn behind, counts the
\* rows of its own request, and touches no row of another call's turn.
LEMMA OneCallAccounted ==
  ASSUME SendInv, Accounted, recovered, recovered' = recovered,
         NEW s \in Senders, NEW x \in Send, send' = [send EXCEPT ![s] = x],
         x.consent = "none", x.stage # "consent",
         \A u \in Turns : turns'[u].status = "pending" =>
           \/ turns[u].status = "pending" /\ ~(HasReserved(s) /\ u = send[s].turn)
           \/ u = x.turn /\ HasReserved(s)',
         requested \subseteq requested',
         RowsWereSent',
         \/ journal' = journal
         \/ /\ HasReserved(s)
            /\ \A u \in Turns \ {send[s].turn} : \A q :
                 IsLatest(journal', q, u) => IsLatest(journal, q, u),
         x.stage \in {"http", "unknowing"} =>
           \A q \in DOMAIN journal' : IsLatest(journal', q, x.turn) => q \in requested'
  PROVE  Accounted'
<1>1. send'[s] = x /\ \A r \in Senders \ {s} : send'[r] = send[r]
  BY DEF SendInv, SessionOK
<1>2. NoConsent'
  BY <1>1 DEF Accounted, NoConsent, At
<1>3. TurnsHeld'
  <2> SUFFICES ASSUME NEW u \in Turns, turns'[u].status = "pending"
               PROVE  \E r \in Senders : HasReserved(r)' /\ send'[r].turn = u
    BY DEF TurnsHeld
  <2>1. CASE u = x.turn /\ HasReserved(s)'
    BY <1>1, <2>1
  <2>2. CASE turns[u].status = "pending" /\ ~(HasReserved(s) /\ u = send[s].turn)
    <3>1. PICK r \in Senders : HasReserved(r) /\ send[r].turn = u
      BY <2>2 DEF Accounted, TurnsHeld
    <3>2. r # s
      BY <2>2, <3>1
    <3>3. send'[r] = send[r]
      BY <1>1, <3>2
    <3> QED
      BY <3>1, <3>3 DEF HasReserved, HasMarked, At
  <2> QED
    BY <2>1, <2>2
<1>4. CrashCounted'
  BY DEF CrashCounted
<1>5. AnswersCounted'
  <2> SUFFICES ASSUME NEW r \in Senders \ {s}, send[r].stage \in {"http", "unknowing"},
                      NEW q \in DOMAIN journal', IsLatest(journal', q, send[r].turn)
               PROVE  q \in requested
    BY <1>1 DEF AnswersCounted
  <2>1. HasReserved(r)
    BY DEF HasReserved, HasMarked
  <2>2. IsLatest(journal, q, send[r].turn)
    BY <2>1, TwoTurns
  <2>3. q \in DOMAIN journal
    BY <2>2 DEF IsLatest
  <2> QED
    BY <2>2, <2>3 DEF Accounted, AnswersCounted
<1> QED
  BY <1>2, <1>3, <1>4, <1>5 DEF Accounted

\* A step that writes nothing keeps the accounts if it keeps its turn.
LEMMA QuietAccounted ==
  ASSUME SendInv, Accounted, recovered, UNCHANGED <<ledger, access>>,
         requested \subseteq requested',
         NEW s \in Senders, NEW x \in Send, send' = [send EXCEPT ![s] = x],
         x.consent = "none", x.stage # "consent",
         HasReserved(s) => HasReserved(s)' /\ x.turn = send[s].turn,
         x.stage \in {"http", "unknowing"} =>
           \A q \in DOMAIN journal : IsLatest(journal, q, x.turn) => q \in requested'
  PROVE  Accounted'
<1>1. recovered' = recovered /\ turns' = turns /\ journal' = journal
  BY DEF ledger, access
<1>2. RowsWereSent'
  BY <1>1 DEF Accounted, RowsWereSent
<1> QED
  BY <1>1, <1>2, OneCallAccounted

\* A call that leaves with nothing reserved leaves no turn behind.
LEMMA LeaveAccounted ==
  ASSUME SendInv, Accounted, NEW s \in Senders, ~HasReserved(s), ~At(s, "idle"), Leave(s),
         UNCHANGED <<ledger, access, ghosts>>
  PROVE  Accounted'
<1>1. send' = [send EXCEPT ![s] = NoSend] /\ requested' = requested /\ recovered
  BY AtWork DEF Leave, ghosts
<1> QED
  BY <1>1, NoSendIs, QuietAccounted

\* A call that has reserved goes on: it keeps its turn in hand.
LEMMA GoOnAccounted ==
  ASSUME SendInv, Accounted, NEW s \in Senders, HasReserved(s),
         NEW next \in {"releasing", "voiding", "unknowing", "http", "marking", "callback"},
         \/ Settle(s, next)
         \/ next \in {"marking", "callback"} /\ Continue(s, next),
         next = "unknowing" => At(s, "http"),
         next = "http" => requested' = requested \cup
                            {r \in DOMAIN journal : IsLatest(journal, r, send[s].turn)},
         next # "http" => requested' = requested,
         UNCHANGED <<ledger, access>>
  PROVE  Accounted'
<1>1. PICK x \in Send : /\ send' = [send EXCEPT ![s] = x]
                        /\ x.stage = next /\ x.turn = send[s].turn /\ x.consent = "none"
  <2>1. next \in Stages /\ send[s].consent = "none" /\ SessionOK
    BY DEF Stages, Accounted, NoConsent, SendInv
  <2>2. CASE Settle(s, next)
    BY <2>1, <2>2, SettledIs
  <2>3. CASE Continue(s, next)
    BY <2>1, <2>3, ContinuedIs
  <2> QED
    BY <2>2, <2>3
<1>2. send'[s] = x
  BY <1>1 DEF SendInv, SessionOK
<1>3. HasReserved(s)'
  BY <1>1, <1>2 DEF HasReserved, HasMarked, At
<1>4. recovered
  BY AtWork, InHand DEF Busy, At
<1>5. x.stage \in {"http", "unknowing"} =>
        \A q \in DOMAIN journal : IsLatest(journal, q, x.turn) => q \in requested'
  <2>1. CASE next = "http"
    BY <1>1, <2>1
  <2>2. CASE next = "unknowing"
    BY <1>1, <2>2 DEF Accounted, AnswersCounted, At
  <2> QED
    BY <1>1, <2>1, <2>2
<1>6. x.stage # "consent"
  BY <1>1
<1> QED
  BY <1>1, <1>3, <1>4, <1>5, <1>6, QuietAccounted

\* A call that settles its turn leaves nothing pending behind.
LEMMA SettlingAccounted ==
  ASSUME SendInv, Accounted, NEW s \in Senders, HasReserved(s), Leave(s),
         NEW t, t = send[s].turn,
         \/ /\ send[s].stage \in {"http", "unknowing"}
            /\ \/ \E successful, content \in BOOLEAN, n \in UsageTokens, k \in UsageCosts :
                    FinalizeKnownTurn(t, successful, content, n, k)
               \/ ReleaseKnownFailure(t)
               \/ \E partial \in BOOLEAN : MarkUnknownOutcome(t, partial)
         \/ ReleaseLocalFailure(t)
         \/ ReleaseUnsentDispatch(t),
         UNCHANGED <<access, requested>>
  PROVE  Accounted'
<1>1. LedgerInv /\ JournalOK /\ t \in Turns /\ recovered
  BY InHand, AtWork DEF SendInv, HistoryInv, Busy, At
<1>2. Only(t) /\ turns'[t].status # "pending"
  BY <1>1, SettleLeaves
<1>3. \A u \in Turns : turns'[u].status = "pending" =>
        turns[u].status = "pending" /\ u # t
  BY <1>2 DEF Only
<1>4. CASE ReleaseUnsentDispatch(t)
  <2>1. /\ DOMAIN journal' \subseteq DOMAIN journal
        /\ \A q \in DOMAIN journal' : journal'[q] = journal[q]
        /\ \A u \in Turns \ {t} : \A q : IsLatest(journal', q, u) => IsLatest(journal, q, u)
    BY <1>1, <1>4, VoidRows
  <2>2. RowsWereSent'
    BY <2>1 DEF Accounted, RowsWereSent
  <2> QED
    BY <1>1, <1>3, <2>1, <2>2, NoSendIs, OneCallAccounted DEF Leave, access
<1>5. CASE ~ReleaseUnsentDispatch(t)
  <2>1. journal' = Synchronize(journal, turns', t) /\ turns'[t].sent = turns[t].sent
    BY <1>1, <1>5, SettleSteps
  <2>2. /\ DOMAIN journal' = DOMAIN journal
        /\ \A q, u : IsLatest(journal', q, u) <=> IsLatest(journal, q, u)
        /\ \A q \in DOMAIN journal :
             journal'[q] = journal[q] \/ (turns'[t].sent /\ IsLatest(journal, q, t))
    BY <1>1, <2>1, SyncRows
  <2>3. turns'[t].sent => \A q \in DOMAIN journal : IsLatest(journal, q, t) => q \in requested
    <3>1. CASE ReleaseLocalFailure(t)
      BY <2>1, <3>1 DEF ReleaseLocalFailure
    <3>2. CASE ~ReleaseLocalFailure(t)
      BY <1>5, <3>2 DEF Accounted, AnswersCounted
    <3> QED
      BY <3>1, <3>2
  <2>4. RowsWereSent'
    BY <2>2, <2>3 DEF Accounted, RowsWereSent
  <2> QED
    BY <1>1, <1>3, <2>2, <2>4, NoSendIs, OneCallAccounted DEF Leave, access
<1> QED
  BY <1>4, <1>5

\* A call that begins leaves no turn behind.
LEMMA BeginAccounted ==
  ASSUME SendInv, Plain, Accounted, NEW s \in Senders, NEW t \in Turns,
         (\E c \in Chats : SendMessage(s, c, t)) \/ RetryFailedTurn(s, t)
  PROVE  Accounted'
<1>1. ASSUME NEW c \in Chats, NEW b \in BOOLEAN, NEW next \in {"preflight", "loaded"},
             Start(s, c, t, b, next)
      PROVE  Accounted'
  <2> DEFINE x == [NoSend EXCEPT !.stage = next, !.turn = t, !.chat = c, !.retry = b,
                                 !.consent = "none", !.current = TRUE]
  <2>1. send' = [send EXCEPT ![s] = x]
    BY <1>1 DEF Start, Plain
  <2>2. x \in Send /\ x.stage = next /\ x.consent = "none" /\ x.stage # "consent"
        /\ x.stage \notin {"http", "unknowing"}
    BY DEF NoSend, Send, Stages, Consents
  <2> HIDE DEF x
  <2>3. recovered /\ ~HasReserved(s) /\ UNCHANGED <<ledger, access>> /\ requested' = requested
    BY <1>1 DEF Start, HasReserved, HasMarked, At, SendInv, SessionOK, ghosts
  <2> QED
    BY <2>1, <2>2, <2>3, QuietAccounted
<1>2. CASE \E c \in Chats : SendMessage(s, c, t)
  BY <1>1, <1>2 DEF SendMessage
<1>3. CASE RetryFailedTurn(s, t)
  <2>1. turns[t].chat \in Chats
    BY <1>3 DEF RetryFailedTurn, SendInv, HistoryInv, LedgerInv, RowsOK, Turn
  <2> QED
    BY <1>1, <1>3, <2>1 DEF RetryFailedTurn
<1> QED
  BY <1>2, <1>3

\* The steps before the reservation.
LEMMA EarlyAccounted ==
  ASSUME SendInv, Accounted, NEW s \in Senders,
         \/ TakeLock(s) \/ PreflightFails(s)
         \/ \E n \in ReserveTokens, k \in ReserveCosts \cup {0} : Preflight(s, n, k)
  PROVE  Accounted'
<1>1. /\ ~HasReserved(s) /\ ~At(s, "idle") /\ UNCHANGED <<ledger, access, ghosts>>
      /\ requested' = requested /\ send[s].consent = "none" /\ send[s] \in Send
  BY DEF TakeLock, PreflightFails, Preflight, HasReserved, HasMarked, At, ghosts,
         Accounted, NoConsent, SendInv, SessionOK
<1>2. recovered
  BY <1>1, AtWork
<1>3. CASE Leave(s)
  BY <1>1, <1>3, LeaveAccounted
<1>4. CASE Continue(s, "preflight")
  <2>1. PICK x \in Send : /\ send' = [send EXCEPT ![s] = x]
                          /\ x.stage = "preflight" /\ x.consent = "none"
    <3>1. "preflight" \in Stages /\ SessionOK
      BY DEF Stages, SendInv
    <3> QED
      BY <1>1, <1>4, <3>1, ContinuedIs
  <2>2. x.stage # "consent" /\ x.stage \notin {"http", "unknowing"}
    BY <2>1
  <2> QED
    BY <1>1, <1>2, <2>1, <2>2, QuietAccounted
<1>5. ASSUME NEW n \in ReserveTokens, NEW k \in ReserveCosts \cup {0}, Preflight(s, n, k)
      PROVE  Accounted'
  <2> DEFINE y == [send[s] EXCEPT !.stage = "reserving", !.tokens = n]
             x == [y EXCEPT !.cost = k]
  <2>1. send' = [send EXCEPT ![s] = x]
    BY <1>1, <1>5 DEF Preflight, SendInv, SessionOK
  <2>2. n \in Nat /\ k \in Nat
    BY LedgerAssumption
  <2>3. y \in Send /\ y.stage = "reserving" /\ y.consent = "none"
    BY <1>1, <2>2 DEF Send, Stages
  <2> HIDE DEF y
  <2>4. x \in Send /\ x.stage = "reserving" /\ x.consent = "none"
    BY <2>2, <2>3 DEF Send
  <2> HIDE DEF x
  <2>5. x.stage # "consent" /\ x.stage \notin {"http", "unknowing"}
    BY <2>4
  <2> QED
    BY <1>1, <1>2, <2>1, <2>4, <2>5, QuietAccounted
<1> QED
  BY <1>3, <1>4, <1>5 DEF TakeLock, PreflightFails

\* The worker of s has ended, and with it a reservation or a mark, or neither.
LEMMA WorkerAccounted ==
  ASSUME SendInv, Accounted, NEW s \in Senders, ReserveWorker(s) \/ MarkWorker(s)
  PROVE  Accounted'
<1> DEFINE t == send[s].turn
<1>1. /\ ~At(s, "idle") /\ CallOK(s) /\ send[s].consent = "none" /\ SessionOK
      /\ send[s].worker = "none"
  BY DEF ReserveWorker, MarkWorker, At, SendInv, Accounted, NoConsent, WorkerEnds
<1>2. /\ t \in Turns /\ send[s].chat \in Chats /\ recovered /\ LedgerInv /\ HistoryInv
      /\ MarksRecorded
  BY <1>1, AtWork DEF SendInv, HistoryInv
<1>3. PICK how \in {"done", "failed"} :
        /\ WorkerEnds(s, how)
        /\ how = "failed" => UNCHANGED ledger
        /\ how = "done" =>
             \/ /\ At(s, "reserving")
                /\ IF send[s].retry
                     THEN ReserveRetry(send[s].turn, send[s].tokens, send[s].cost)
                     ELSE ReserveNew(send[s].turn, send[s].chat, send[s].tokens, send[s].cost)
             \/ At(s, "marking") /\ MarkRequestSent(send[s].turn)
  BY DEF ReserveWorker, MarkWorker
<1> DEFINE x == Ended(s, how)
<1>4. /\ x \in Send /\ x.worker = how /\ x.stage = send[s].stage /\ x.turn = t
      /\ x.consent = "none" /\ send' = [send EXCEPT ![s] = x]
  BY <1>1, <1>3, EndedIs
<1> HIDE DEF x
<1>5. /\ send'[s] = x /\ requested' = requested /\ UNCHANGED access /\ recovered' = recovered
      /\ x.stage \in {"reserving", "marking"}
      /\ x.stage # "consent" /\ x.stage \notin {"http", "unknowing"}
  <2>1. send'[s] = x
    BY <1>1, <1>4 DEF SessionOK
  <2>2. requested' = requested /\ UNCHANGED access
    BY <1>3 DEF WorkerEnds, ghosts
  <2>3. send[s].stage \in {"reserving", "marking"}
    BY DEF ReserveWorker, MarkWorker, At
  <2> QED
    BY <1>4, <2>1, <2>2, <2>3 DEF access
<1>6. CASE how = "failed"
  <2>1. HasReserved(s) => HasReserved(s)'
    BY <1>1, <1>4, <1>5 DEF HasReserved, HasMarked, At
  <2> QED
    BY <1>2, <1>3, <1>4, <1>5, <1>6, <2>1, QuietAccounted
<1>7. CASE how = "done" /\ At(s, "reserving")
  <2>1. /\ Only(t) /\ journal' = journal
    <3>1. /\ send[s].tokens \in ReserveTokens /\ send[s].cost \in ReserveCosts \cup {0}
          /\ send[s].retry => turns[t].chat = send[s].chat
      BY <1>1, <1>7 DEF CallOK
    <3>2. \/ ReserveNew(t, send[s].chat, send[s].tokens, send[s].cost)
          \/ turns[t].chat = send[s].chat /\ ReserveRetry(t, send[s].tokens, send[s].cost)
      BY <1>3, <1>7, <3>1 DEF At
    <3> HIDE DEF t
    <3> QED
      BY <1>2, <3>1, <3>2, ReserveLeaves
  <2>2. HasReserved(s)' /\ ~HasReserved(s)
    BY <1>1, <1>4, <1>5, <1>7 DEF HasReserved, HasMarked, At
  <2>3. \A u \in Turns : turns'[u].status = "pending" =>
          turns[u].status = "pending" \/ u = x.turn
    BY <1>4, <2>1 DEF Only
  <2>4. RowsWereSent'
    BY <1>5, <2>1 DEF Accounted, RowsWereSent
  <2> QED
    BY <1>2, <1>4, <1>5, <2>1, <2>2, <2>3, <2>4, OneCallAccounted
<1>8. CASE how = "done" /\ At(s, "marking")
  <2>1. MarkRequestSent(t)
    BY <1>3, <1>8 DEF At
  <2>2. HasReserved(s)' /\ HasReserved(s)
    BY <1>4, <1>5, <1>8 DEF HasReserved, HasMarked, At
  <2> HIDE DEF t
  <2>3. Only(t)
    BY <1>2, <2>1, MarkLeaves
  <2>4. /\ \A q \in DOMAIN journal' :
             journal'[q].snapshot.status # "pending" =>
               q \in DOMAIN journal /\ journal[q].snapshot.status # "pending"
        /\ \A u \in Turns \ {t} : \A q : IsLatest(journal', q, u) => IsLatest(journal, q, u)
    BY <1>2, <2>1, MarkRows
  <2>5. RowsWereSent'
    BY <1>5, <2>4 DEF Accounted, RowsWereSent
  <2>6. \A u \in Turns : turns'[u].status = "pending" =>
          \/ turns[u].status = "pending" /\ ~(HasReserved(s) /\ u = send[s].turn)
          \/ u = x.turn /\ HasReserved(s)'
    BY <1>4, <2>2, <2>3 DEF Only, t
  <2> QED
    BY <1>2, <1>4, <1>5, <2>2, <2>4, <2>5, <2>6, OneCallAccounted DEF t
<1> QED
  BY <1>3, <1>6, <1>7, <1>8

\* Between its transactions, and after them.
LEMMA LateAccounted ==
  ASSUME SendInv, Plain, Accounted, NEW s \in Senders,
         \/ AfterReserve(s) \/ AfterMark(s) \/ AfterCallback(s) \/ AfterConsent(s)
         \/ NoResult(s)
  PROVE  Accounted'
<1>1. send[s].consent = "none" /\ ~At(s, "consent")
  BY DEF Accounted, NoConsent
<1>2. CASE AfterReserve(s)
  <2>1. CASE send[s].worker = "failed" /\ Leave(s)
    <3>1. ~HasReserved(s) /\ ~At(s, "idle") /\ UNCHANGED <<ledger, access, ghosts>>
      BY <1>2, <2>1 DEF AfterReserve, HasReserved, HasMarked, At
    <3> QED
      BY <2>1, <3>1, LeaveAccounted
  <2>2. CASE send[s].worker = "done" /\ (Settle(s, "releasing") \/ Continue(s, "marking"))
    <3>1. HasReserved(s) /\ UNCHANGED <<ledger, access>> /\ requested' = requested
      BY <1>2, <2>2 DEF AfterReserve, HasReserved, HasMarked, At, ghosts
    <3> QED
      BY <2>2, <3>1, GoOnAccounted
  <2> QED
    BY <1>2, <2>1, <2>2 DEF AfterReserve
<1>3. CASE AfterMark(s)
  <2>1. HasReserved(s) /\ UNCHANGED <<ledger, access>> /\ requested' = requested
    BY <1>3 DEF AfterMark, HasReserved, HasMarked, At, ghosts
  <2> QED
    BY <1>3, <2>1, GoOnAccounted DEF AfterMark
<1>4. CASE AfterCallback(s)
  <2>1. HasReserved(s) /\ UNCHANGED <<ledger, access>>
    BY <1>4 DEF AfterCallback, HasReserved, HasMarked, At
  <2>2. CASE Refuse(s)
    BY <2>1, <2>2, GoOnAccounted DEF Refuse, ghosts
  <2>3. CASE Dispatch(s)
    BY <2>1, <2>3, GoOnAccounted DEF Dispatch
  <2> QED
    BY <1>1, <1>4, <2>2, <2>3 DEF AfterCallback
<1>5. CASE NoResult(s)
  <2>1. /\ HasReserved(s) /\ At(s, "http") /\ UNCHANGED <<ledger, access>>
        /\ requested' = requested
    BY <1>5 DEF NoResult, HasReserved, HasMarked, At, ghosts
  <2> QED
    BY <1>5, <2>1, GoOnAccounted DEF NoResult
<1> QED
  BY <1>1, <1>2, <1>3, <1>4, <1>5 DEF AfterConsent

\* The transaction that gives up a reservation finds the row it requires.
LEMMA EndingAccounted ==
  ASSUME SendInv, Plain, Accounted, NEW s \in Senders,
         \/ RecordResult(s) \/ MarkCancelledUnknown(s)
         \/ ReleaseBeforeSend(s) \/ ReleaseWithoutHttp(s)
  PROVE  Accounted'
<1>1. /\ HasReserved(s) /\ Leave(s) /\ UNCHANGED <<access, requested>>
  BY DEF RecordResult, MarkCancelledUnknown, ReleaseBeforeSend, ReleaseWithoutHttp,
         HasReserved, HasMarked, At, Answered, ghosts
<1>2. Active(send[s].turn) /\ (turns[send[s].turn].sent <=> HasMarked(s))
  BY <1>1, InHand
<1>3. CASE RecordResult(s)
  BY <1>1, <1>3, SettlingAccounted DEF RecordResult, At
<1>4. CASE MarkCancelledUnknown(s)
  BY <1>1, <1>2, <1>4, SettlingAccounted DEF MarkCancelledUnknown, Swallowed, Plain, At
<1>5. CASE ReleaseBeforeSend(s)
  <2>1. ~HasMarked(s)
    BY <1>5 DEF ReleaseBeforeSend, HasMarked, At
  <2> QED
    BY <1>1, <1>2, <1>5, <2>1, SettlingAccounted DEF ReleaseBeforeSend, Swallowed, Plain
<1>6. CASE ReleaseWithoutHttp(s)
  <2>1. HasMarked(s)
    BY <1>6 DEF ReleaseWithoutHttp, HasMarked, At
  <2> QED
    BY <1>1, <1>2, <1>6, <2>1, SettlingAccounted DEF ReleaseWithoutHttp, Swallowed, Plain
<1> QED
  BY <1>3, <1>4, <1>5, <1>6

\* What happens around the senders: a crash leaves its pending rows counted, and
\* the recovery leaves no pending turn.
LEMMA AroundAccounted ==
  ASSUME SendInv, Plain, Accounted, Environment
  PROVE  Accounted'
<1>1. HistoryInv /\ LedgerInv /\ JournalOK /\ JournalFollows /\ MarksRecorded
  BY DEF SendInv, HistoryInv
<1>2. ASSUME NEW r \in Senders, Cancel(r)
      PROVE  Accounted'
  <2> DEFINE x == [send[r] EXCEPT !.cancelled = TRUE]
  <2>1. /\ ~At(r, "idle") /\ send[r] \in Send /\ send[r].consent = "none" /\ ~At(r, "consent")
        /\ UNCHANGED <<ledger, access>> /\ requested' = requested
    BY <1>2 DEF Cancel, At, SendInv, SessionOK, Accounted, NoConsent, ghosts
  <2>2. send' = [send EXCEPT ![r] = x]
    BY <1>2, <2>1 DEF Cancel, SendInv, SessionOK
  <2>3. /\ x \in Send /\ x.stage = send[r].stage /\ x.turn = send[r].turn
        /\ x.worker = send[r].worker /\ x.consent = "none"
    BY <2>1 DEF Send
  <2> HIDE DEF x
  <2>4. send'[r] = x /\ recovered
    BY <2>1, <2>2, AtWork DEF SendInv, SessionOK
  <2>5. HasReserved(r) => HasReserved(r)'
    BY <2>3, <2>4 DEF HasReserved, HasMarked, At
  <2>6. x.stage \in {"http", "unknowing"} =>
          \A q \in DOMAIN journal : IsLatest(journal, q, x.turn) => q \in requested'
    BY <2>1, <2>3 DEF Accounted, AnswersCounted
  <2>7. x.stage # "consent"
    BY <2>1, <2>3 DEF At
  <2> QED
    BY <2>1, <2>2, <2>3, <2>4, <2>5, <2>6, <2>7, QuietAccounted
<1>3. ASSUME NEW c \in Chats, Withdraw(c, "valid", "revoking") \/ Withdraw(c, "revoking", "revoked")
      PROVE  Accounted'
  BY <1>3 DEF Withdraw, Accounted, NoConsent
<1>4. ASSUME UNCHANGED <<turns, journal, requested, recovered>>,
             \A s \in Senders : /\ send'[s].stage = send[s].stage
                                /\ send'[s].turn = send[s].turn
                                /\ send'[s].worker = send[s].worker
                                /\ send'[s].consent = send[s].consent
      PROVE  Accounted'
  <2>1. \A s \in Senders : (HasReserved(s)' <=> HasReserved(s)) /\ (At(s, "consent")' <=> At(s, "consent"))
    BY <1>4 DEF HasReserved, HasMarked, At
  <2>2. NoConsent' /\ TurnsHeld'
    BY <1>4, <2>1 DEF Accounted, NoConsent, TurnsHeld
  <2>3. CrashCounted' /\ RowsWereSent' /\ AnswersCounted'
    BY <1>4 DEF Accounted, CrashCounted, RowsWereSent, AnswersCounted
  <2> QED
    BY <2>2, <2>3 DEF Accounted
<1>5. CASE Lock
  <2>1. ASSUME NEW s \in Senders
        PROVE  /\ send'[s].stage = send[s].stage
               /\ send'[s].turn = send[s].turn
               /\ send'[s].worker = send[s].worker
               /\ send'[s].consent = send[s].consent
    <3>1. send'[s] = [send[s] EXCEPT !.current = FALSE] /\ send[s] \in Send
      BY <1>5 DEF Lock, SendInv, SessionOK
    <3> QED
      BY <3>1 DEF Send
  <2> QED
    BY <1>4, <1>5, <2>1 DEF Lock, ledger, ghosts
<1>6. CASE Unlock
  <2>1. recovered' = TRUE /\ send' = send /\ requested' = requested
    BY <1>6 DEF Unlock, ghosts
  <2>2. CASE recovered
    BY <1>4, <1>6, <2>1, <2>2 DEF Unlock, ledger
  <2>3. CASE ~recovered
    <3>1. /\ \A u \in Turns : turns'[u].status # "pending"
          /\ DOMAIN journal' = DOMAIN journal
          /\ \A q \in DOMAIN journal :
               journal[q].snapshot.status # "pending" => journal'[q] = journal[q]
      BY <1>1, <1>6, <2>3, RecoveryRows DEF Unlock
    <3>2. RowsWereSent'
      BY <2>1, <2>3, <3>1 DEF Accounted, RowsWereSent, CrashCounted
    <3>3. \A s \in Senders : send[s].stage = "idle"
      BY <2>3, NoSendIs DEF SendInv, CallOK
    <3>4. NoConsent' /\ TurnsHeld' /\ CrashCounted' /\ AnswersCounted'
      BY <2>1, <3>1, <3>3
         DEF Accounted, NoConsent, TurnsHeld, CrashCounted, AnswersCounted, At
    <3> QED
      BY <3>2, <3>4 DEF Accounted
  <2> QED
    BY <2>2, <2>3
<1>7. CASE Crash
  <2>1. /\ \A s \in Senders : send'[s] = NoSend
        /\ recovered' = FALSE /\ UNCHANGED <<turns, journal>>
        /\ requested' = requested \cup
             {r \in DOMAIN journal : /\ journal[r].snapshot.status = "pending"
                                    /\ \E s \in Senders : Busy(s) /\ send[s].turn = journal[r].turn}
    BY <1>7 DEF Crash, ledger
  <2>2. ASSUME NEW q \in DOMAIN journal, journal[q].snapshot.status = "pending"
        PROVE  q \in requested'
    <3>1. CASE ~recovered
      BY <2>1, <2>2, <3>1 DEF Accounted, CrashCounted
    <3>2. CASE recovered
      <4>1. journal[q].turn \in Turns /\ turns[journal[q].turn].status = "pending"
        BY <1>1, <2>2, PendingRow
      <4>2. PICK s \in Senders : HasReserved(s) /\ send[s].turn = journal[q].turn
        BY <3>2, <4>1 DEF Accounted, TurnsHeld
      <4>3. Busy(s)
        BY <4>2, InHand
      <4> QED
        BY <2>1, <2>2, <4>2, <4>3
    <3> QED
      BY <3>1, <3>2
  <2>3. NoConsent' /\ TurnsHeld' /\ AnswersCounted'
    BY <2>1, NoSendIs DEF NoConsent, TurnsHeld, AnswersCounted, At
  <2>4. RowsWereSent' /\ CrashCounted'
    BY <2>1, <2>2 DEF Accounted, RowsWereSent, CrashCounted
  <2> QED
    BY <2>3, <2>4 DEF Accounted
<1>8. CASE UserChangesLimits
  BY <1>4, <1>8 DEF UserChangesLimits, SetChatLimits, access, ghosts
<1>9. ASSUME NEW t \in Turns, UserReleasesUnknown(t)
      PROVE  Accounted'
  <2>1. /\ ReleaseUnknownReservation(t) /\ turns[t].accounting = "unknown"
        /\ UNCHANGED <<requested, send, recovered>> /\ recovered
    BY <1>9 DEF UserReleasesUnknown, ReleaseUnknownReservation, access, SendInv, SessionOK
  <2>2. /\ journal' = Synchronize(journal, turns', t)
        /\ turns'[t].sent = turns[t].sent
        /\ Only(t) /\ turns'[t].status # "pending"
    BY <1>1, <2>1, SettleSteps, SettleLeaves
  <2>3. /\ DOMAIN journal' = DOMAIN journal
        /\ \A q, u : IsLatest(journal', q, u) <=> IsLatest(journal, q, u)
        /\ \A q \in DOMAIN journal :
             journal'[q] = journal[q] \/ (turns'[t].sent /\ IsLatest(journal, q, t))
    BY <1>1, <2>2, SyncRows
  <2>4. ASSUME NEW q \in DOMAIN journal, turns'[t].sent, IsLatest(journal, q, t)
        PROVE  q \in requested
    <3>1. journal[q].snapshot = Snapshot(turns[t])
      BY <1>1, <2>2, <2>4, LatestShows
    <3>2. journal[q].snapshot.status # "pending"
      BY <1>1, <2>1, <3>1 DEF Snapshot, LedgerInv, MessagesMatchTurns
    <3> QED
      BY <3>2 DEF Accounted, RowsWereSent
  <2>5. RowsWereSent'
    BY <2>1, <2>3, <2>4 DEF Accounted, RowsWereSent
  <2>6. \A s \in Senders : HasReserved(s)' <=> HasReserved(s)
    BY <2>1 DEF HasReserved, HasMarked, At
  <2>7. NoConsent' /\ TurnsHeld' /\ CrashCounted'
    BY <2>1, <2>2, <2>6 DEF Accounted, NoConsent, TurnsHeld, CrashCounted, At, Only
  <2>8. AnswersCounted'
    BY <2>1, <2>3 DEF Accounted, AnswersCounted
  <2> QED
    BY <2>5, <2>7, <2>8 DEF Accounted
<1> QED
  BY <1>2, <1>3, <1>5, <1>6, <1>7, <1>8, <1>9 DEF Environment

\* No step of a sender does.
LEMMA ProceedAccounted ==
  ASSUME SendInv, Plain, Accounted, NEW s \in Senders, Begin(s) \/ Proceed(s)
  PROVE  Accounted'
<1>1. CASE Begin(s)
  BY <1>1, BeginAccounted DEF Begin
<1>2. CASE \/ TakeLock(s)
           \/ \E n \in ReserveTokens, k \in ReserveCosts \cup {0} : Preflight(s, n, k)
           \/ PreflightFails(s)
  BY <1>2, EarlyAccounted
<1>3. CASE ReserveWorker(s) \/ MarkWorker(s)
  BY <1>3, WorkerAccounted
<1>4. CASE \/ AfterReserve(s) \/ AfterMark(s) \/ AfterCallback(s) \/ AfterConsent(s)
           \/ NoResult(s)
  BY <1>4, LateAccounted
<1>5. CASE \/ RecordResult(s) \/ MarkCancelledUnknown(s)
           \/ ReleaseBeforeSend(s) \/ ReleaseWithoutHttp(s)
  BY <1>5, EndingAccounted
<1> QED
  BY <1>1, <1>2, <1>3, <1>4, <1>5 DEF Proceed

\* No step does.
LEMMA AccountedNext ==
  ASSUME SendInv, Plain => Accounted, [SendNext]_vars
  PROVE  (Plain => Accounted)'
<1>1. setting' = setting
  BY DEF SendNext, vars
<1>2. SUFFICES ASSUME Plain PROVE Accounted'
  BY <1>1 DEF Plain
<1>3. CASE SendNext
  BY <1>2, <1>3, ProceedAccounted, AroundAccounted DEF SendNext
<1>4. CASE UNCHANGED vars
  BY <1>2, <1>4
     DEF vars, ledger, access, ghosts, Accounted, NoConsent, TurnsHeld, CrashCounted,
         RowsWereSent, AnswersCounted, HasReserved, HasMarked, At
<1> QED
  BY <1>3, <1>4

\* The first start accounts for everything.
LEMMA AccountedInit == SendInit => Accounted
<1> SUFFICES ASSUME SendInit PROVE Accounted
  OBVIOUS
<1>1. /\ recovered = FALSE /\ DOMAIN journal = {}
      /\ \A s \in Senders : send[s] = NoSend
  BY DEF SendInit, EmptyJournal
<1> QED
  BY <1>1, NoSendIs
     DEF Accounted, NoConsent, TurnsHeld, CrashCounted, RowsWereSent, AnswersCounted, At

\* Where no consent is saved and every release is accepted, no turn waits for
\* nobody, and no journal row with an outcome tells of a request nobody made
\* (the handlers of _send_authorized and the restart recovery).
THEOREM TurnsAlwaysAccounted == SendSpec => []TurnsAccounted
<1>1. SendInv /\ (Plain => Accounted) => TurnsAccounted
  <2> SUFFICES ASSUME SendInv, Plain => Accounted PROVE TurnsAccounted
    OBVIOUS
  <2>1. NoAbandonedTurn
    BY InHand DEF NoAbandonedTurn, Accounted, TurnsHeld
  <2>2. RowsAreRequests
    BY DEF RowsAreRequests, Accounted
  <2> QED
    BY <2>1, <2>2 DEF TurnsAccounted
<1>2. SendInv /\ (Plain => Accounted) /\ [SendNext]_vars => (Plain => Accounted)'
  BY AccountedNext
<1>3. SendInit => (Plain => Accounted)
  BY AccountedInit
<1> QED
  BY <1>1, <1>2, <1>3, SendInvariant, PTL DEF SendSpec

=============================================================================
