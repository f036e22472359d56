----------------------------- MODULE ChatLedger -----------------------------
(***************************************************************************)
(* The accounting tables of the database and every transaction on them:    *)
(* storage/message_repository.py, the chat rows of                         *)
(* storage/chat_repository.py, the journal of storage/request_attempts.py  *)
(* and the restart recovery of storage/database.py.                        *)
(*                                                                         *)
(* Each action is one committed "BEGIN IMMEDIATE" transaction; a           *)
(* transaction that raises rolls back and is a step that changes nothing,  *)
(* so it is no action.  A NULL amount is 0 where the code never stores 0   *)
(* (limits), or where another column tells the two apart (usage, read only *)
(* when accounting_status is final).  Prompt and completion tokens are     *)
(* one figure, the turn's safe_total.  Identifiers are slots: a uuid is    *)
(* never drawn twice, but a deleted row leaves nothing behind, so a later  *)
(* row may take its slot.                                                  *)
(***************************************************************************)
EXTENDS RequestAttempts, FiniteSetsExt

CONSTANTS
  Chats,          \* chat identifiers
  Turns,          \* turn identifiers
  NoChat,         \* chat of a turn row that does not exist
  ReserveTokens,  \* token estimates a reservation may carry
  ReserveCosts,   \* cost estimates of a reservation in a paid chat
  UsageTokens,    \* token usage a provider may report
  UsageCosts,     \* cost a provider may report
  TokenLimits,    \* token limits a user may set
  CostLimits,     \* money limits a user may set on a paid chat
  OldTurns,       \* what schema version 3 may have stored of a turn
  MaxSequence     \* bound on chat_request_attempts.sequence

ASSUME LedgerAssumption ==
  /\ NoChat \notin Chats
  /\ IsFiniteSet(Turns)
  /\ ReserveTokens \subseteq Nat \ {0}
  /\ ReserveCosts \subseteq Nat
  /\ UsageTokens \subseteq Nat
  /\ UsageCosts \subseteq Nat
  /\ TokenLimits \subseteq Nat \ {0}
  /\ CostLimits \subseteq Nat \ {0}
  /\ OldTurns \subseteq [message : {"pending", "sent", "failed"}, total : Nat,
                     reply : {"none", "pending", "failed", "inherited"}]
  /\ MaxSequence \in Nat

VARIABLES
  mode,      \* chats.mode, "none" when the chat does not exist
  budgets,   \* chat_budgets
  turns,     \* turns, with the status of their user message and reply
  journal,   \* chat_request_attempts
  hasTable,  \* the table above exists
  sequence   \* its AUTOINCREMENT counter

ledger == <<mode, budgets, turns, journal, hasTable, sequence>>

-----------------------------------------------------------------------------
\* Rows.

Modes       == {"free", "paid"}
States      == {"unconfigured", "ready", "exhausted", "accounting_unknown"}
Statuses    == {"pending", "sent", "failed"}
Accountings == {"reserved", "final", "unknown", "released"}

Budget == [configured : BOOLEAN, tokenLimit : Nat, costLimit : Nat,
           used : Nat, spent : Nat, reserved : Nat, costReserved : Nat,
           state : States]

Turn == [chat : Chats \cup {NoChat}, status : Statuses \cup {"none"},
         accounting : Accountings \cup {"none"}, tokens : Nat, reservedCost : Nat,
         sent : BOOLEAN, total : Nat, cost : Nat,
         message : Statuses \cup {"none"},
         reply : {"none", "sent", "failed", "inherited"}]

Attempt == [turn : Turns, chat : Chats, known : BOOLEAN,
            snapshot : [status : Statuses \cup {"none"},
                        accounting : Accountings \cup {"none"},
                        total : Nat, cost : Nat]]

NoTurnRow == [chat |-> NoChat, status |-> "none", accounting |-> "none",
              tokens |-> 0, reservedCost |-> 0, sent |-> FALSE,
              total |-> 0, cost |-> 0, message |-> "none", reply |-> "none"]

NewBudget(tokenLimit, costLimit) ==
  [configured |-> tokenLimit # 0, tokenLimit |-> tokenLimit,
   costLimit |-> costLimit, used |-> 0, spent |-> 0, reserved |-> 0,
   costReserved |-> 0, state |-> IF tokenLimit # 0 THEN "ready" ELSE "unconfigured"]

TurnsOf(c) == {t \in Turns : turns[t].chat = c}

\* The turns whose reservation the budget of c still holds.
Open(c) == {t \in TurnsOf(c) : turns[t].accounting \in {"reserved", "unknown"}}

\* _calculate_state.
CalculateState(m, b, accountingUnknown) ==
  IF accountingUnknown THEN "accounting_unknown"
  ELSE IF b.tokenLimit = 0 THEN "unconfigured"
  ELSE IF \/ b.used + b.reserved >= b.tokenLimit
          \/ m = "free" /\ b.spent + b.costReserved > 0
          \/ m = "paid" /\ b.costLimit # 0 /\ b.spent + b.costReserved >= b.costLimit
    THEN "exhausted"
    ELSE "ready"

WithState(m, b, accountingUnknown) ==
  [b EXCEPT !.state = CalculateState(m, b, accountingUnknown)]

-----------------------------------------------------------------------------
\* Chats and their limits.

CreateChat(c, m) ==
  /\ mode[c] = "none"
  /\ mode' = [mode EXCEPT ![c] = m]
  /\ budgets' = [budgets EXCEPT ![c] = NewBudget(0, 0)]
  /\ UNCHANGED <<turns, journal, hasTable, sequence>>

\* Mutant: a paid chat may go without a money limit.
AdmissibleCostLimitsMutant(m) == IF m = "free" THEN {0} ELSE CostLimits \cup {0}

\* The money limit a mode admits: none for a free chat, positive for a paid one.
AdmissibleCostLimits(m) == IF m = "free" THEN {0} ELSE CostLimits

CreateChatWithLimits(c, m, tokenLimit, costLimit) ==
  /\ mode[c] = "none"
  /\ costLimit \in AdmissibleCostLimits(m)
  /\ mode' = [mode EXCEPT ![c] = m]
  /\ budgets' = [budgets EXCEPT ![c] = NewBudget(tokenLimit, costLimit)]
  /\ UNCHANGED <<turns, journal, hasTable, sequence>>

\* Mutant: the new limits unfreeze a chat with an unknown outcome.
SetChatLimitsForgetsUnknown(c, tokenLimit, costLimit, confirmed) ==
  LET b == budgets[c]
      new == [b EXCEPT !.configured = TRUE, !.tokenLimit = tokenLimit,
                       !.costLimit = costLimit]
  IN /\ mode[c] # "none"
     /\ costLimit \in AdmissibleCostLimits(mode[c])
     /\ tokenLimit >= b.used + b.reserved
     /\ costLimit >= b.spent + b.costReserved
     /\ budgets' = [budgets EXCEPT ![c] = WithState(mode[c], new, FALSE)]
     /\ UNCHANGED <<mode, turns, journal, hasTable, sequence>>

\* Mutant: the new limits are compared with what is used only.
SetChatLimitsIgnoresReserved(c, tokenLimit, costLimit, confirmed) ==
  LET b == budgets[c]
      new == [b EXCEPT !.configured = TRUE, !.tokenLimit = tokenLimit,
                       !.costLimit = costLimit]
  IN /\ mode[c] # "none"
     /\ costLimit \in AdmissibleCostLimits(mode[c])
     /\ tokenLimit >= b.used
     /\ costLimit >= b.spent
     /\ budgets' = [budgets EXCEPT
          ![c] = WithState(mode[c], new, b.state = "accounting_unknown")]
     /\ UNCHANGED <<mode, turns, journal, hasTable, sequence>>

\* Mutant: the new limits are compared only while a request holds something.
SetChatLimitsBelowUsed(c, tokenLimit, costLimit, confirmed) ==
  LET b == budgets[c]
      new == [b EXCEPT !.configured = TRUE, !.tokenLimit = tokenLimit,
                       !.costLimit = costLimit]
  IN /\ mode[c] # "none"
     /\ costLimit \in AdmissibleCostLimits(mode[c])
     /\ b.reserved > 0 => tokenLimit >= b.used + b.reserved
     /\ costLimit >= b.spent + b.costReserved
     /\ budgets' = [budgets EXCEPT
          ![c] = WithState(mode[c], new, b.state = "accounting_unknown")]
     /\ UNCHANGED <<mode, turns, journal, hasTable, sequence>>

\* configure_chat_limits (first time) and update_chat_limits (later) both end
\* in this transaction; a rise of a paid chat's money limit is confirmed.
SetChatLimits(c, tokenLimit, costLimit, confirmed) ==
  LET b == budgets[c]
      new == [b EXCEPT !.configured = TRUE, !.tokenLimit = tokenLimit,
                       !.costLimit = costLimit]
  IN /\ mode[c] # "none"
     /\ costLimit \in AdmissibleCostLimits(mode[c])
     /\ tokenLimit >= b.used + b.reserved
     /\ costLimit >= b.spent + b.costReserved
     /\ mode[c] = "paid" /\ (~b.configured \/ costLimit > b.costLimit) => confirmed
     /\ budgets' = [budgets EXCEPT
          ![c] = WithState(mode[c], new, b.state = "accounting_unknown")]
     /\ UNCHANGED <<mode, turns, journal, hasTable, sequence>>

\* delete_chat: the foreign keys cascade.
DeleteChat(c) ==
  /\ mode[c] # "none"
  /\ mode' = [mode EXCEPT ![c] = "none"]
  /\ budgets' = [budgets EXCEPT ![c] = NewBudget(0, 0)]
  /\ turns' = [t \in Turns |-> IF turns[t].chat = c THEN NoTurnRow ELSE turns[t]]
  /\ journal' = DeleteAttemptsOf(journal, c)
  /\ UNCHANGED <<hasTable, sequence>>

-----------------------------------------------------------------------------
\* reserve_turn.

\* Mutant: the guard on accounting_unknown is missing.
CanReserveWhileUnknown(c, n, k) ==
  LET b == budgets[c]
  IN /\ mode[c] # "none"
     /\ b.configured
     /\ n <= b.tokenLimit - b.used - b.reserved
     /\ IF mode[c] = "paid" THEN b.costLimit # 0 /\ b.spent + b.costReserved + k <= b.costLimit
                            ELSE k = 0

\* The budget guards, in the transaction, before anything is written.
CanReserve(c, n, k) ==
  LET b == budgets[c]
  IN /\ mode[c] # "none"
     /\ b.configured
     /\ b.state # "accounting_unknown"
     /\ n <= b.tokenLimit - b.used - b.reserved
     /\ IF mode[c] = "paid" THEN b.costLimit # 0 /\ b.spent + b.costReserved + k <= b.costLimit
                            ELSE k = 0

\* idx_turns_one_pending_per_chat.
NonePending(c) == \A t \in TurnsOf(c) : turns[t].status # "pending"

WithReservation(c, n, k) ==
  WithState(mode[c], [budgets[c] EXCEPT !.reserved = @ + n, !.costReserved = @ + k],
            FALSE)

ReserveNew(t, c, n, k) ==
  /\ turns[t].chat = NoChat
  /\ CanReserve(c, n, k)
  /\ NonePending(c)
  /\ turns' = [turns EXCEPT ![t] =
       [NoTurnRow EXCEPT !.chat = c, !.status = "pending", !.accounting = "reserved",
                         !.tokens = n, !.reservedCost = k, !.message = "pending"]]
  /\ budgets' = [budgets EXCEPT ![c] = WithReservation(c, n, k)]
  /\ UNCHANGED <<mode, journal, hasTable, sequence>>

\* Mutant: the guard on the accounting of the failed turn is missing.
ReserveRetryOfFinal(t, n, k) ==
  LET c == turns[t].chat
  IN /\ c # NoChat
     /\ CanReserve(c, n, k)
     /\ turns[t].status = "failed"
     /\ NonePending(c)
     /\ turns' = [turns EXCEPT ![t] =
          [@ EXCEPT !.status = "pending", !.accounting = "reserved",
                    !.tokens = n, !.reservedCost = k, !.sent = FALSE,
                    !.total = 0, !.cost = 0, !.message = "pending"]]
     /\ budgets' = [budgets EXCEPT ![c] = WithReservation(c, n, k)]
     /\ UNCHANGED <<mode, journal, hasTable, sequence>>

\* _prepare_retry: the same turn again, its outcome columns cleared; the reply
\* of an earlier attempt, if any, stays until a new one overwrites it.
ReserveRetry(t, n, k) ==
  LET c == turns[t].chat
  IN /\ c # NoChat
     /\ CanReserve(c, n, k)
     /\ turns[t].status = "failed"
     /\ turns[t].accounting = "released"
     /\ NonePending(c)
     /\ turns' = [turns EXCEPT ![t] =
          [@ EXCEPT !.status = "pending", !.accounting = "reserved",
                    !.tokens = n, !.reservedCost = k, !.sent = FALSE,
                    !.total = 0, !.cost = 0, !.message = "pending"]]
     /\ budgets' = [budgets EXCEPT ![c] = WithReservation(c, n, k)]
     /\ UNCHANGED <<mode, journal, hasTable, sequence>>

-----------------------------------------------------------------------------
\* mark_request_sent: the journal is created, and filled from the turns of an
\* older database, before this turn counts as dispatched.

MarkRequestSent(t) ==
  /\ turns[t].status = "pending"
  /\ ~turns[t].sent
  /\ turns' = [turns EXCEPT ![t].sent = TRUE]
  /\ \E order \in BackfillOrders(turns) :
       LET old  == IF hasTable THEN journal ELSE Backfill(turns, order)
           last == IF hasTable THEN sequence ELSE Cardinality(DOMAIN order)
       IN /\ last < MaxSequence
          /\ journal' = Record(old, last + 1, turns', t)
          /\ sequence' = last + 1
  /\ hasTable' = TRUE
  /\ UNCHANGED <<mode, budgets>>

-----------------------------------------------------------------------------
\* The five ways a reservation ends.

Active(t) == turns[t].chat # NoChat /\ turns[t].status = "pending"

MessageStatus(successful) == IF successful THEN "sent" ELSE "failed"

\* Mutant: a failed answer is shown as sent.
ReplyMutant(t, content, successful) == IF content THEN "sent" ELSE turns[t].reply

\* _upsert_assistant_message, when the result has content.
Reply(t, content, successful) ==
  IF content THEN MessageStatus(successful) ELSE turns[t].reply

\* The budget of t's chat without the reservation of t.
WithoutReservation(t) ==
  [budgets[turns[t].chat] EXCEPT !.reserved = @ - turns[t].tokens,
                                 !.costReserved = @ - turns[t].reservedCost]

\* n is safe_total, k cost_usd: what the provider reported, not the estimate.
\* A successful result always has content.
FinalizeKnownTurn(t, successful, content, n, k) ==
  LET c == turns[t].chat
      new == [WithoutReservation(t) EXCEPT !.used = @ + n, !.spent = @ + k]
  IN /\ Active(t)
     /\ successful => content
     /\ new.reserved >= 0 /\ new.costReserved >= 0
     /\ budgets' = [budgets EXCEPT ![c] = WithState(mode[c], new, FALSE)]
     /\ turns' = [turns EXCEPT ![t] =
          [@ EXCEPT !.status = MessageStatus(successful), !.accounting = "final",
                    !.total = n, !.cost = k, !.message = MessageStatus(successful),
                    !.reply = Reply(t, content, successful)]]
     /\ journal' = Synchronize(journal, turns', t)
     /\ UNCHANGED <<mode, hasTable, sequence>>

OtherUnknown(t) ==
  \E u \in TurnsOf(turns[t].chat) \ {t} : turns[u].accounting = "unknown"

\* _release_reservation, except for the journal.  sent is the turn's
\* request_sent after the caller's own updates.
ReleaseReservation(t, sent) ==
  LET c == turns[t].chat
      new == WithoutReservation(t)
  IN /\ new.reserved >= 0 /\ new.costReserved >= 0
     /\ budgets' = [budgets EXCEPT ![c] = WithState(mode[c], new, OtherUnknown(t))]
     /\ turns' = [turns EXCEPT ![t] =
          [@ EXCEPT !.status = "failed", !.accounting = "released",
                    !.sent = sent, !.message = "failed"]]
     /\ UNCHANGED <<mode, hasTable, sequence>>

ReleaseLocalFailure(t) ==
  /\ Active(t)
  /\ ~turns[t].sent
  /\ ReleaseReservation(t, FALSE)
  /\ journal' = Synchronize(journal, turns', t)

ReleaseKnownFailure(t) ==
  /\ Active(t)
  /\ ReleaseReservation(t, turns[t].sent)
  /\ journal' = Synchronize(journal, turns', t)

\* Void a mark that no HTTP request followed: its own journal row goes, the
\* rows of earlier attempts stay as they are.
ReleaseUnsentDispatch(t) ==
  /\ Active(t)
  /\ turns[t].sent
  /\ \E s \in DOMAIN journal :
       /\ IsLatest(journal, s, t)
       /\ journal[s].snapshot.status = "pending"
       /\ journal[s].known
       /\ ReleaseReservation(t, FALSE)
       /\ journal' = Synchronize(DeleteAttempt(journal, s), turns', t)

\* The reservation stays in the budget, which lends nothing more.
MarkUnknownOutcome(t, partial) ==
  LET c == turns[t].chat
  IN /\ Active(t)
     /\ turns' = [turns EXCEPT ![t] =
          [@ EXCEPT !.status = "failed", !.accounting = "unknown",
                    !.message = "failed", !.reply = Reply(t, partial, FALSE)]]
     /\ budgets' = [budgets EXCEPT ![c].state = "accounting_unknown"]
     /\ journal' = Synchronize(journal, turns', t)
     /\ UNCHANGED <<mode, hasTable, sequence>>

\* The user gives up on an unknown outcome.
ReleaseUnknownReservation(t) ==
  /\ turns[t].chat # NoChat
  /\ turns[t].accounting = "unknown"
  /\ ReleaseReservation(t, turns[t].sent)
  /\ journal' = Synchronize(journal, turns', t)

\* A row after _recover_interrupted_turns, which looks for pending turns and for
\* pending messages independently.
Recovered(row) ==
  LET Closed(status) == IF status = "pending" THEN "failed" ELSE status
  IN [row EXCEPT !.status = Closed(@), !.message = Closed(@), !.reply = Closed(@),
                 !.accounting = IF row.status # "pending" THEN @
                                ELSE IF row.tokens > 0 THEN "unknown" ELSE "released"]

\* _recover_interrupted_turns, once per start of the process: every request
\* the last process left pending has an unknown outcome.
RecoverInterruptedTurns ==
  /\ turns' = [t \in Turns |-> Recovered(turns[t])]
  /\ budgets' = [c \in Chats |->
       IF \E t \in TurnsOf(c) : turns'[t].accounting = "unknown"
         THEN [budgets[c] EXCEPT !.state = "accounting_unknown"]
         ELSE budgets[c]]
  /\ journal' = Recover(journal, turns')
  /\ UNCHANGED <<mode, hasTable, sequence>>

-----------------------------------------------------------------------------
FreshDatabase ==
  /\ mode = [c \in Chats |-> "none"]
  /\ budgets = [c \in Chats |-> NewBudget(0, 0)]
  /\ turns = [t \in Turns |-> NoTurnRow]

\* A turn that _migrate_3_to_4 makes of the messages of version 3, which had no
\* table of turns.  An "inherited" reply is one that version 3 stored as sent.
MigratedTurn(c, old) ==
  [NoTurnRow EXCEPT !.chat = c, !.accounting = "released", !.total = old.total,
                    !.message = old.message, !.reply = old.reply,
                    !.status = IF "pending" \in {old.message, old.reply} THEN "pending"
                               ELSE IF "failed" \in {old.message, old.reply} THEN "failed"
                               ELSE "sent"]

MigratedTurns(c) == {MigratedTurn(c, old) : old \in OldTurns}

\* A database of version 3: no chat has limits.  The migration and the recovery
\* are one transaction, which idx_turns_one_pending_per_chat lets pass only when
\* no chat had two turns pending.
VersionThreeDatabase ==
  \E rows \in [Turns -> {NoTurnRow} \cup UNION {MigratedTurns(c) : c \in Chats}] :
    /\ mode \in [Chats -> Modes \cup {"none"}]
    /\ \A t \in Turns : rows[t].chat # NoChat => mode[rows[t].chat] # "none"
    /\ \A t, u \in Turns : /\ rows[t].status = "pending" /\ rows[u].status = "pending"
                           /\ rows[t].chat = rows[u].chat
                           => t = u
    /\ budgets = [c \in Chats |-> NewBudget(0, 0)]
    /\ turns = [t \in Turns |-> Recovered(rows[t])]

\* A turn that versions 4 to 6 dispatched before there was a journal.
LegacyTurn(c, n, k, accounting) ==
  [NoTurnRow EXCEPT !.chat = c, !.status = "failed", !.accounting = accounting,
                    !.tokens = n, !.reservedCost = k, !.sent = TRUE,
                    !.message = "failed"]

\* A database of versions 4 to 6 without the journal: one chat, whose turns were
\* dispatched and failed, one of them perhaps with an unknown outcome, or came
\* from version 3.
OlderDatabase ==
  \E c \in Chats, m \in Modes, n \in ReserveTokens, k \in ReserveCosts \cup {0},
     limit \in TokenLimits, released \in SUBSET Turns, unknown \in SUBSET Turns :
   \E money \in AdmissibleCostLimits(m),
      rows \in [Turns -> {NoTurnRow} \cup MigratedTurns(c)] :
    LET frozen == unknown # {}
        b == [NewBudget(limit, money) EXCEPT !.reserved = IF frozen THEN n ELSE 0,
                                             !.costReserved = IF frozen THEN k ELSE 0]
    IN /\ released \cap unknown = {}
       /\ \A t, u \in unknown : t = u
       /\ n <= limit /\ k <= money
       /\ mode = [[d \in Chats |-> "none"] EXCEPT ![c] = m]
       /\ budgets = [[d \in Chats |-> NewBudget(0, 0)]
                       EXCEPT ![c] = WithState(m, b, frozen)]
       /\ turns = [t \in Turns |->
            CASE t \in released -> LegacyTurn(c, n, k, "released")
              [] t \in unknown  -> LegacyTurn(c, n, k, "unknown")
              [] OTHER          -> Recovered(rows[t])]

Init ==
  /\ FreshDatabase \/ VersionThreeDatabase \/ OlderDatabase
  /\ journal = EmptyJournal
  /\ hasTable = FALSE
  /\ sequence = 0

ChatStep ==
  \E c \in Chats :
    \/ \E m \in Modes : CreateChat(c, m)
    \/ \E m \in Modes, tokenLimit \in TokenLimits, costLimit \in CostLimits \cup {0} :
         CreateChatWithLimits(c, m, tokenLimit, costLimit)
    \/ \E tokenLimit \in TokenLimits, costLimit \in CostLimits \cup {0},
          confirmed \in BOOLEAN : SetChatLimits(c, tokenLimit, costLimit, confirmed)
    \/ DeleteChat(c)

ReserveStep ==
  \E t \in Turns, n \in ReserveTokens, k \in ReserveCosts \cup {0} :
    \/ \E c \in Chats : ReserveNew(t, c, n, k)
    \/ ReserveRetry(t, n, k)

SettleStep ==
  \E t \in Turns :
    \/ \E successful, content \in BOOLEAN, n \in UsageTokens, k \in UsageCosts :
         FinalizeKnownTurn(t, successful, content, n, k)
    \/ ReleaseLocalFailure(t)
    \/ ReleaseKnownFailure(t)
    \/ ReleaseUnsentDispatch(t)
    \/ \E partial \in BOOLEAN : MarkUnknownOutcome(t, partial)
    \/ ReleaseUnknownReservation(t)

Next ==
  \/ ChatStep
  \/ ReserveStep
  \/ \E t \in Turns : MarkRequestSent(t)
  \/ SettleStep
  \/ RecoverInterruptedTurns

Spec == Init /\ [][Next]_ledger

-----------------------------------------------------------------------------
\* Properties.

\* Every column has its type, and the journal names each attempt's own chat and
\* only sequence numbers already drawn.
TypeOK ==
  /\ mode \in [Chats -> Modes \cup {"none"}]
  /\ budgets \in [Chats -> Budget]
  /\ turns \in [Turns -> Turn]
  /\ hasTable \in BOOLEAN
  /\ sequence \in Nat
  /\ DOMAIN journal \subseteq 1 .. sequence
  /\ \A s \in DOMAIN journal :
       journal[s] \in Attempt /\ journal[s].chat = turns[journal[s].turn].chat

\* Money is held for exactly one turn of a chat or for none: the reservation
\* in chat_budgets equals that of the chat's single reserved or unknown turn,
\* through failures, retries, restarts and user releases.
ReservationBacked ==
  \A c \in Chats :
    /\ \A t, u \in Open(c) : t = u
    /\ Open(c) = {} => budgets[c].reserved = 0 /\ budgets[c].costReserved = 0
    /\ \A t \in Open(c) : /\ budgets[c].reserved = turns[t].tokens
                          /\ budgets[c].costReserved = turns[t].reservedCost

\* The stored state is never stale: chat_budgets.state is what _calculate_state
\* computes from the other columns, and is accounting_unknown exactly while some
\* turn of the chat has an unknown outcome, whichever transaction came last.
StateIsCurrent ==
  \A c \in Chats : mode[c] # "none" =>
    budgets[c].state =
      CalculateState(mode[c], budgets[c],
                     \E t \in TurnsOf(c) : turns[t].accounting = "unknown")

\* While a reservation is held, what is used and held fits the limits, even
\* when the user lowers them (set_chat_limits) or an earlier request cost more
\* than its estimate (finalize_known_turn).
HeldWithinLimits ==
  \A c \in Chats : Open(c) # {} =>
    /\ budgets[c].used + budgets[c].reserved <= budgets[c].tokenLimit
    /\ mode[c] = "paid" =>
         budgets[c].spent + budgets[c].costReserved <= budgets[c].costLimit

FinalTurns(c) == {t \in TurnsOf(c) : turns[t].accounting = "final"}

\* Every final outcome is charged once: the chat's totals are the sum over its
\* final turns, however often a turn failed, was retried or was interrupted.
ChargedOnce ==
  \A c \in Chats :
    /\ budgets[c].used  = MapThenSumSet(LAMBDA t : turns[t].total, FinalTurns(c))
    /\ budgets[c].spent = MapThenSumSet(LAMBDA t : turns[t].cost, FinalTurns(c))

\* The journal follows the turns: once the table exists, a dispatched turn's
\* latest attempt carries that turn's current outcome, and no other attempt is
\* pending.
JournalInStep ==
  /\ hasTable => \A t \in Turns : turns[t].sent =>
       \E s \in DOMAIN journal : /\ IsLatest(journal, s, t)
                                 /\ journal[s].snapshot = Snapshot(turns[t])
  /\ \A s \in DOMAIN journal : journal[s].snapshot.status = "pending" =>
       turns[journal[s].turn].sent /\ IsLatest(journal, s, journal[s].turn)

\* Mutant: the oldest attempt instead of the latest.
LastRequestMutant(c) ==
  IF hasTable /\ \E s \in DOMAIN journal : journal[s].chat = c
    THEN LastRequestState(journal[CHOOSE s \in DOMAIN journal :
           /\ journal[s].chat = c
           /\ \A r \in DOMAIN journal : journal[r].chat = c => s <= r])
  ELSE "none"

\* get_last_request.
LastRequest(c) ==
  IF hasTable /\ \E s \in DOMAIN journal : journal[s].chat = c
    THEN LastRequestState(journal[CHOOSE s \in DOMAIN journal :
                                    IsLatestOfChat(journal, s, c)])
  ELSE IF \E t \in TurnsOf(c) : turns[t].sent THEN "unknown" ELSE "none"

\* What the user is shown as the chat's last request: "pending" exactly while a
\* dispatched turn awaits its outcome, including just after a restart, a voided
\* dispatch, or the first dispatch in an older database.
PendingShownIffInFlight ==
  \A c \in Chats :
    LastRequest(c) = "pending" <=>
      \E t \in TurnsOf(c) : turns[t].status = "pending" /\ turns[t].sent

\* The journal tells what happened, to the recovery that reads its rows and to
\* the user who is shown the last of them.
JournalTells == TypeOK /\ JournalInStep /\ PendingShownIffInFlight

\* A turn of version 3 that has not been tried again: nothing else holds no tokens.
CarriedOver(t) == turns[t].accounting = "released" /\ turns[t].tokens = 0

\* The conversation agrees with the accounting: a user message is pending, sent
\* or failed as its turn is, a turn is shown as sent exactly when it has been
\* charged, and a reply the program received is shown as sent exactly under such
\* a turn.  Only a turn of version 3 may be sent without a charge, or have failed
\* under a sent message (_migrate_3_to_4), and no longer once it is tried again.
MessagesMatchTurns ==
  \A t \in Turns :
    /\ turns[t].status = "pending" <=> turns[t].accounting = "reserved"
    /\ turns[t].message # turns[t].status =>
         CarriedOver(t) /\ turns[t].status = "failed" /\ turns[t].message = "sent"
    /\ turns[t].reply = "sent" <=>
         turns[t].status = "sent" /\ turns[t].accounting = "final"
    /\ turns[t].status = "sent" => turns[t].accounting = "final" \/ CarriedOver(t)

\* History is not rewritten: an attempt whose accounting is final or released
\* keeps its row until the chat is deleted, in particular while its turn is
\* retried ("an unsent retry must not overwrite the previous attempt").
SettledAttemptsKept ==
  [][\A s \in DOMAIN journal :
       journal[s].snapshot.accounting \in {"final", "released"} =>
         \/ mode'[journal[s].chat] = "none"
         \/ s \in DOMAIN journal' /\ journal'[s] = journal[s]]_ledger

\* The refinement mapping: the account that a chat and its budget stand for.
AccountOf(m, b) ==
  [status |-> IF m = "none" THEN "closed"
              ELSE IF b.state = "accounting_unknown" THEN "frozen" ELSE "open",
   limit |-> b.tokenLimit, used |-> b.used, held |-> b.reserved]

account == [c \in Chats |-> AccountOf(mode[c], budgets[c])]

EscrowOf == INSTANCE Escrow
  WITH Amounts <- TokenLimits \cup ReserveTokens \cup UsageTokens \cup {0}

\* The ledger is an escrow account per chat: no transaction lends from a frozen
\* account, lends twice, lends beyond the limit, or gives back what it did not
\* hold.
ImplementsEscrow == EscrowOf!Spec

-----------------------------------------------------------------------------
\* The rows agree on what exists: a turn row is whole or absent, belongs to an
\* existing chat, and an open one reserves something.
RowsOK ==
  \A t \in Turns :
    /\ turns[t].chat = NoChat <=> turns[t].accounting = "none"
    /\ turns[t].chat # NoChat => mode[turns[t].chat] # "none"
    /\ turns[t].accounting \in {"reserved", "unknown"} => turns[t].tokens > 0
    /\ turns[t].sent => turns[t].chat # NoChat

\* A chat that does not exist has a blank budget; a paid chat has a money limit
\* as soon as it has a token limit.
BudgetsOK ==
  \A c \in Chats :
    /\ mode[c] = "none" => budgets[c] = NewBudget(0, 0)
    /\ budgets[c].configured <=> budgets[c].tokenLimit # 0
    /\ mode[c] = "paid" /\ budgets[c].configured => budgets[c].costLimit # 0

\* The inductive invariant behind the safety properties above: their conjunction
\* with what every transaction of the code takes for granted about its rows.
LedgerInv ==
  /\ mode \in [Chats -> Modes \cup {"none"}]
  /\ budgets \in [Chats -> Budget]
  /\ turns \in [Turns -> Turn]
  /\ RowsOK
  /\ BudgetsOK
  /\ ReservationBacked
  /\ StateIsCurrent
  /\ HeldWithinLimits
  /\ MessagesMatchTurns
=============================================================================
