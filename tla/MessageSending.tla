--------------------------- MODULE MessageSending ---------------------------
(***************************************************************************)
(* chat/sending.py: what happens between the press of "send" and the       *)
(* settled turn.  A sender is one call of send_message or                  *)
(* retry_failed_turn, an asyncio task; every transaction of ChatLedger it  *)
(* asks for runs in a worker thread, so that between any two of its awaits *)
(* the application may be locked, the consent withdrawn, the limits        *)
(* changed, the task cancelled, or the process may die.                    *)
(*                                                                         *)
(* A stage names the await a sender is suspended in.  The reservation and  *)
(* the mark are left in two steps, the worker's transaction and the code   *)
(* its result resumes, because a cancellation may fall between.  The other *)
(* workers run under finish_worker, which delays a cancellation until the  *)
(* worker is done.  Chats are not deleted here: the controllers' operation *)
(* lock keeps deletion and sends apart.  Drafts are left out.              *)
(***************************************************************************)
EXTENDS ChatLedger

CONSTANTS
  Senders,
  NoTurn,       \* the turn of a sender that is not at work
  Settings      \* what may happen in one behaviour: "modes" of its chats, "saved" that
                \* paid ones may carry the consent to pay without being asked, "fails"
                \* that the transaction that gives up a reservation may fail

ASSUME SendingAssumption ==
  NoTurn \notin Turns /\ Settings \subseteq [modes : SUBSET Modes, saved : BOOLEAN, fails : BOOLEAN]

VARIABLES
  setting,    \* the element of Settings that this behaviour is about
  send,       \* the call each sender is executing
  unlocked,   \* DataAccess holds the key
  recovered,  \* this process has run the restart recovery
  asked,      \* ghost: turns whose request may have reached the provider, with
              \* neither a recorded answer nor the user's release
  requested   \* ghost: journal rows whose request was sent, or whose sender
              \* died with the process

access == <<unlocked, recovered>>
ghosts == <<asked, requested>>
vars   == <<ledger, send, access, ghosts, setting>>

Stages == {"idle", "loaded", "preflight", "reserving", "marking", "callback",
           "consent", "http", "unknowing", "releasing", "voiding"}

Consents == {"none", "valid", "revoking", "revoked"}

\* tokens and cost are the estimate of the preflight; cancelled says that
\* task.cancel() was called and has not been raised yet; worker how the worker
\* it waits for ended; current that the epoch it captured is the open session's;
\* consent what became of its saved consent to pay unasked: "revoking" when
\* withdrawn in memory, "revoked" when the policy on disk says so too.
Send == [stage : Stages, turn : Turns \cup {NoTurn}, chat : Chats \cup {NoChat},
         retry : BOOLEAN, tokens : Nat, cost : Nat, cancelled : BOOLEAN,
         consent : Consents, worker : {"none", "done", "failed"}, current : BOOLEAN]

NoSend == [stage |-> "idle", turn |-> NoTurn, chat |-> NoChat, retry |-> FALSE,
           tokens |-> 0, cost |-> 0, cancelled |-> FALSE, consent |-> "none",
           worker |-> "none", current |-> FALSE]

At(s, stage) == send[s].stage = stage

\* A sender holds its chat's asyncio.Lock from the preflight on.
Busy(s)       == send[s].stage \notin {"idle", "loaded"}
ChatLocked(c) == \E s \in Senders : Busy(s) /\ send[s].chat = c

\* Bound: a send starts only if the journal has room for its row.
Room == sequence + Cardinality({s \in Senders : ~At(s, "idle")}) < MaxSequence

\* The sender's next await.
Continue(s, next) == send' = [send EXCEPT ![s].stage = next, ![s].worker = "none"]

\* From the request on, and when it gives up, a send needs nothing but its turn.
Settle(s, next) ==
  send' = [send EXCEPT ![s] = [NoSend EXCEPT !.stage = next, !.turn = send[s].turn,
                                             !.chat = send[s].chat]]

\* The call returns or raises; its lease is closed and its lock released.
Leave(s) == send' = [send EXCEPT ![s] = NoSend]

-----------------------------------------------------------------------------
\* send_message and retry_failed_turn.

Start(s, c, t, isRetry, next) ==
  /\ At(s, "idle")
  /\ unlocked
  /\ Room
  /\ \E k \in IF setting.saved /\ mode[c] = "paid" THEN {"none", "valid"} ELSE {"none"} :
       send' = [send EXCEPT ![s] =
         [NoSend EXCEPT !.stage = next, !.turn = t, !.chat = c, !.retry = isRetry,
                        !.consent = k, !.current = TRUE]]
  /\ UNCHANGED <<ledger, access, ghosts>>

\* The turn id is drawn here, and the lease names it before its row exists.
SendMessage(s, c, t) ==
  /\ mode[c] # "none"
  /\ turns[t].chat = NoChat
  /\ \A r \in Senders \ {s} : Busy(r) => send[r].turn # t
  /\ ~ChatLocked(c)
  /\ Start(s, c, t, FALSE, "preflight")

\* The turn is read before the lock is looked at.
RetryFailedTurn(s, t) ==
  /\ turns[t].status = "failed"
  /\ turns[t].accounting = "released"
  /\ Start(s, turns[t].chat, t, TRUE, "loaded")

TakeLock(s) ==
  /\ At(s, "loaded")
  /\ \/ ~send[s].cancelled /\ send[s].current /\ ~ChatLocked(send[s].chat) /\ Continue(s, "preflight")
     \/ (send[s].cancelled \/ ~send[s].current \/ ChatLocked(send[s].chat)) /\ Leave(s)
  /\ UNCHANGED <<ledger, access, ghosts>>

-----------------------------------------------------------------------------
\* paid_consent_is_current: a lock ends the consent of the session it was given in.
ConsentCurrent(s) == send[s].consent = "none" \/ (send[s].consent = "valid" /\ send[s].current)

\* _preflight plans a request that fits the budget as it was read, which may
\* not be the budget its reservation will meet.
Preflight(s, n, k) ==
  LET c == send[s].chat
      b == budgets[c]
  IN /\ At(s, "preflight")
     /\ ~send[s].cancelled
     /\ send[s].current
     /\ b.configured
     /\ b.state = "ready"
     /\ n <= b.tokenLimit - b.used - b.reserved
     /\ IF mode[c] = "paid" THEN b.spent + b.costReserved + k <= b.costLimit ELSE k = 0
     /\ ConsentCurrent(s)
     /\ send' = [send EXCEPT ![s].stage = "reserving", ![s].tokens = n, ![s].cost = k]
     /\ UNCHANGED <<ledger, access, ghosts>>

\* A check, a request for the catalog or the key, or the dispatch guard failed,
\* the session is locked, or the task cancelled: nothing has been written yet.
PreflightFails(s) ==
  /\ At(s, "preflight")
  /\ Leave(s)
  /\ UNCHANGED <<ledger, access, ghosts>>

-----------------------------------------------------------------------------
\* The reservation and the mark.  A worker may also fail for reasons of its own.

WorkerEnds(s, how) ==
  /\ send[s].worker = "none"
  /\ send' = [send EXCEPT ![s].worker = how]
  /\ UNCHANGED <<access, ghosts>>

\* authorize("reserve") wants the session that started the send, the
\* transaction the policy revision the consent was given for.
ReserveWorker(s) ==
  /\ At(s, "reserving")
  /\ \/ /\ send[s].current
        /\ send[s].consent # "revoked"
        /\ IF send[s].retry
             THEN ReserveRetry(send[s].turn, send[s].tokens, send[s].cost)
             ELSE ReserveNew(send[s].turn, send[s].chat, send[s].tokens, send[s].cost)
        /\ WorkerEnds(s, "done")
     \/ UNCHANGED ledger /\ WorkerEnds(s, "failed")

AfterReserve(s) ==
  /\ At(s, "reserving")
  /\ \/ send[s].worker = "failed" /\ Leave(s)
     \/ send[s].worker = "done" /\ send[s].cancelled /\ Settle(s, "releasing")
     \/ send[s].worker = "done" /\ ~send[s].cancelled /\ Continue(s, "marking")
  /\ UNCHANGED <<ledger, access, ghosts>>

MarkWorker(s) ==
  /\ At(s, "marking")
  /\ \/ send[s].current /\ MarkRequestSent(send[s].turn) /\ WorkerEnds(s, "done")
     \/ UNCHANGED ledger /\ WorkerEnds(s, "failed")

\* Mutant: a mark that failed is voided as if it had been written.
AfterMarkVoidsUnmarked(s) ==
  /\ At(s, "marking")
  /\ \/ send[s].worker = "failed" /\ Settle(s, "voiding")
     \/ send[s].worker = "done" /\ send[s].cancelled /\ Settle(s, "voiding")
     \/ send[s].worker = "done" /\ ~send[s].cancelled /\ Continue(s, "callback")
  /\ UNCHANGED <<ledger, access, ghosts>>

AfterMark(s) ==
  /\ At(s, "marking")
  /\ \/ send[s].worker = "failed" /\ Settle(s, "releasing")
     \/ send[s].worker = "done" /\ send[s].cancelled /\ Settle(s, "voiding")
     \/ send[s].worker = "done" /\ ~send[s].cancelled /\ Continue(s, "callback")
  /\ UNCHANGED <<ledger, access, ghosts>>

-----------------------------------------------------------------------------
\* The guards between the mark and the request.

\* Mutant: the final assert_current is missing.
CanDispatchMutant(s) == ConsentCurrent(s)

\* The HTTP request leaves: ConsentCurrent, the dispatch guard and
\* assert_current run in one step of the event loop with it.
CanDispatch(s) == ConsentCurrent(s) /\ send[s].current

Dispatch(s) ==
  /\ Settle(s, "http")
  /\ asked' = asked \cup {send[s].turn}
  /\ requested' = requested \cup {r \in DOMAIN journal : IsLatest(journal, r, send[s].turn)}

Refuse(s) ==
  /\ Settle(s, "voiding")
  /\ UNCHANGED ghosts

\* Mutant: a cancellation during on_reserved is not caught.
AfterCallbackMutant(s) ==
  /\ At(s, "callback")
  /\ \/ send[s].cancelled /\ Leave(s) /\ UNCHANGED ghosts
     \/ ~send[s].cancelled /\ send[s].consent # "none" /\ Continue(s, "consent") /\ UNCHANGED ghosts
     \/ ~send[s].cancelled /\ send[s].consent = "none" /\ CanDispatch(s) /\ Dispatch(s)
     \/ ~send[s].cancelled /\ send[s].consent = "none" /\ Refuse(s)
  /\ UNCHANGED <<ledger, access>>

\* on_reserved returned, raised or was cancelled.  With a saved consent the
\* chat is then read again, an await; without one the guards follow at once.
\* The dispatch guard may refuse whatever the session and consent say.
AfterCallback(s) ==
  /\ At(s, "callback")
  /\ \/ send[s].cancelled /\ Refuse(s)
     \/ ~send[s].cancelled /\ send[s].consent # "none" /\ Continue(s, "consent") /\ UNCHANGED ghosts
     \/ ~send[s].cancelled /\ send[s].consent = "none" /\ CanDispatch(s) /\ Dispatch(s)
     \/ ~send[s].cancelled /\ send[s].consent = "none" /\ Refuse(s)
  /\ UNCHANGED <<ledger, access>>

\* _validate_saved_consent has read the chat.  Its CancelledError is caught by
\* no handler of _send_authorized.
AfterConsent(s) ==
  /\ At(s, "consent")
  /\ \/ send[s].cancelled /\ Leave(s) /\ UNCHANGED ghosts
     \/ ~send[s].cancelled /\ CanDispatch(s) /\ Dispatch(s)
     \/ ~send[s].cancelled /\ Refuse(s)
  /\ UNCHANGED <<ledger, access>>

-----------------------------------------------------------------------------
\* The answer, recorded under the lease whether or not the session is open.

\* The provider's answer is now on record: nothing is in doubt for t.
Answered(t) == asked' = asked \ {t} /\ UNCHANGED requested

RecordResult(s) ==
  LET t == send[s].turn
  IN /\ At(s, "http")
     /\ ~send[s].cancelled
     /\ \/ \E successful, content \in BOOLEAN, n \in UsageTokens, k \in UsageCosts :
             FinalizeKnownTurn(t, successful, content, n, k) /\ Answered(t) /\ Leave(s)
        \/ ReleaseKnownFailure(t) /\ Answered(t) /\ Leave(s)
        \/ \E partial \in BOOLEAN :
             MarkUnknownOutcome(t, partial) /\ UNCHANGED ghosts /\ Leave(s)
     /\ UNCHANGED access

\* Mutant: a request that was cancelled in flight is voided.
NoResultMutant(s) ==
  /\ At(s, "http")
  /\ Settle(s, "voiding")
  /\ UNCHANGED <<ledger, access, ghosts>>

\* Mutant: a request that was cancelled is waited for without a limit.
NoResultWaits(s) ==
  /\ At(s, "http")
  /\ ~send[s].cancelled
  /\ Settle(s, "unknowing")
  /\ UNCHANGED <<ledger, access, ghosts>>

\* The task was cancelled in the request, or recording its result failed.
NoResult(s) ==
  /\ At(s, "http")
  /\ Settle(s, "unknowing")
  /\ UNCHANGED <<ledger, access, ghosts>>

\* The transaction that gives up a reservation may raise, because its guard
\* finds another row than it requires or for reasons of its own; the exception
\* is swallowed and the row stays as it is.
Swallowed(guard) == (setting.fails \/ ~guard) /\ UNCHANGED ledger

MarkCancelledUnknown(s) ==
  LET t == send[s].turn
  IN /\ At(s, "unknowing")
     /\ MarkUnknownOutcome(t, FALSE) \/ Swallowed(Active(t))
     /\ Leave(s)
     /\ UNCHANGED <<access, ghosts>>

ReleaseBeforeSend(s) ==
  LET t == send[s].turn
  IN /\ At(s, "releasing")
     /\ ReleaseLocalFailure(t) \/ Swallowed(Active(t) /\ ~turns[t].sent)
     /\ Leave(s)
     /\ UNCHANGED <<access, ghosts>>

\* Mutant: the mark stays, and its journal row with it.
ReleaseWithoutHttpMutant(s) ==
  LET t == send[s].turn
  IN /\ At(s, "voiding")
     /\ ReleaseKnownFailure(t) \/ Swallowed(Active(t))
     /\ Leave(s)
     /\ UNCHANGED <<access, ghosts>>

ReleaseWithoutHttp(s) ==
  LET t == send[s].turn
  IN /\ At(s, "voiding")
     /\ ReleaseUnsentDispatch(t) \/ Swallowed(Active(t) /\ turns[t].sent)
     /\ Leave(s)
     /\ UNCHANGED <<access, ghosts>>

-----------------------------------------------------------------------------
\* What happens around the senders.

\* finish_worker holds a cancellation back while a send is giving up.
Cancel(s) ==
  /\ send[s].stage \notin {"idle", "unknowing", "releasing", "voiding"}
  /\ ~send[s].cancelled
  /\ send' = [send EXCEPT ![s].cancelled = TRUE]
  /\ UNCHANGED <<ledger, access, ghosts>>

\* set_paid_without_confirmation: in memory before the first await, then on disk.
Withdraw(c, from, to) ==
  LET holders == {s \in Senders : send[s].chat = c /\ send[s].consent = from}
  IN /\ holders # {}
     /\ send' = [s \in Senders |-> IF s \in holders THEN [send[s] EXCEPT !.consent = to]
                                                   ELSE send[s]]
     /\ UNCHANGED <<ledger, access, ghosts>>

Lock ==
  /\ unlocked
  /\ unlocked' = FALSE
  /\ send' = [s \in Senders |-> [send[s] EXCEPT !.current = FALSE]]
  /\ UNCHANGED <<recovered, ledger, ghosts>>

\* The first unlock of a process recovers interrupted turns before it opens.
Unlock ==
  /\ ~unlocked
  /\ unlocked' = TRUE
  /\ recovered' = TRUE
  /\ IF recovered THEN UNCHANGED ledger ELSE RecoverInterruptedTurns
  /\ UNCHANGED <<send, ghosts>>

UserChangesLimits ==
  /\ unlocked
  /\ \E c \in Chats, n \in TokenLimits, k \in CostLimits \cup {0} :
       SetChatLimits(c, n, k, TRUE)
  /\ UNCHANGED <<send, access, ghosts>>

UserReleasesUnknown(t) ==
  /\ unlocked
  /\ ReleaseUnknownReservation(t)
  /\ asked' = asked \ {t}
  /\ UNCHANGED <<requested, send, access>>

\* The process dies; every transaction was committed or was not.
Crash ==
  /\ send' = [s \in Senders |-> NoSend]
  /\ unlocked' = FALSE
  /\ recovered' = FALSE
  /\ requested' = requested \cup
       {r \in DOMAIN journal : /\ journal[r].snapshot.status = "pending"
                              /\ \E s \in Senders : Busy(s) /\ send[s].turn = journal[r].turn}
  /\ UNCHANGED <<asked, ledger>>

-----------------------------------------------------------------------------
\* The start of the process that finds one configured chat of each identifier.
SendInit ==
  /\ setting \in Settings
  /\ \E m \in setting.modes, limit \in TokenLimits :
       \E money \in AdmissibleCostLimits(m) :
         /\ mode = [c \in Chats |-> m]
         /\ budgets = [c \in Chats |-> NewBudget(limit, money)]
  /\ turns = [t \in Turns |-> NoTurnRow]
  /\ journal = EmptyJournal /\ hasTable = FALSE /\ sequence = 0
  /\ send = [s \in Senders |-> NoSend]
  /\ unlocked = FALSE /\ recovered = FALSE
  /\ asked = {} /\ requested = {}

Begin(s) == \E t \in Turns : (\E c \in Chats : SendMessage(s, c, t)) \/ RetryFailedTurn(s, t)

\* Everything a started send does by itself: the event loop runs a task whose
\* await has ended, a worker thread ends, the HTTP client answers or times out.
Proceed(s) ==
  \/ TakeLock(s)
  \/ \E n \in ReserveTokens, k \in ReserveCosts \cup {0} : Preflight(s, n, k)
  \/ PreflightFails(s)
  \/ ReserveWorker(s) \/ AfterReserve(s)
  \/ MarkWorker(s) \/ AfterMark(s)
  \/ AfterCallback(s) \/ AfterConsent(s)
  \/ RecordResult(s) \/ NoResult(s) \/ MarkCancelledUnknown(s)
  \/ ReleaseBeforeSend(s) \/ ReleaseWithoutHttp(s)

Environment ==
  \/ \E s \in Senders : Cancel(s)
  \/ \E c \in Chats : Withdraw(c, "valid", "revoking") \/ Withdraw(c, "revoking", "revoked")
  \/ Lock \/ Unlock \/ Crash
  \/ UserChangesLimits
  \/ \E t \in Turns : UserReleasesUnknown(t)

SendNext ==
  /\ (\E s \in Senders : Begin(s) \/ Proceed(s)) \/ Environment
  /\ UNCHANGED setting

SendSpec == SendInit /\ [][SendNext]_vars /\ \A s \in Senders : WF_vars(Proceed(s) /\ UNCHANGED setting)

-----------------------------------------------------------------------------
\* Properties.

\* Every variable has its type, and a sender that is idle has left nothing of its
\* call behind.
SendTypeOK ==
  /\ send \in [Senders -> Send]
  /\ unlocked \in BOOLEAN /\ recovered \in BOOLEAN
  /\ asked \subseteq Turns /\ requested \subseteq 1 .. MaxSequence
  /\ \A s \in Senders : At(s, "idle") => send[s] = NoSend

\* The stages in which the sender's turn is marked as sent.
HasMarked(s) ==
  \/ send[s].stage \in {"callback", "consent", "http", "unknowing", "voiding"}
  \/ At(s, "marking") /\ send[s].worker = "done"

\* The stages in which the sender's turn is reserved.
HasReserved(s) ==
  \/ HasMarked(s)
  \/ send[s].stage \in {"marking", "releasing"}
  \/ At(s, "reserving") /\ send[s].worker = "done"

\* Between the transactions of a send its turn is in its hands alone: no other
\* sender, restart recovery or user release settles it or takes it over, and it
\* is marked exactly from the mark on, so that the transaction that ends the
\* send finds the row it requires.
TurnInHand ==
  \A s \in Senders : HasReserved(s) =>
    LET t == send[s].turn
    IN /\ turns[t].chat = send[s].chat
       /\ turns[t].status = "pending"
       /\ turns[t].sent <=> HasMarked(s)
       /\ \A r \in Senders \ {s} : HasReserved(r) => send[r].chat # send[s].chat

\* A sender that waits owns the turn it will settle.
SendersOwn == SendTypeOK /\ TurnInHand

\* Money that may have been spent stays held: while a request may have reached
\* the provider and nothing is on record, its turn keeps its reservation,
\* through cancellation, a lock, a retry by another sender, a crash and restart.
ExposureKept == \A t \in asked : turns[t].accounting \in {"reserved", "unknown"}

\* No request leaves after its permission is gone: at the moment of dispatch the
\* session that started the send is open, the consent was not withdrawn, and the
\* turn is reserved and marked, with its pending row in the journal.
DispatchAuthorized ==
  [][\A s \in Senders : ~At(s, "http") /\ At(s, "http")' =>
       LET t == send[s].turn
       IN /\ unlocked /\ send[s].current /\ send[s].consent \in {"none", "valid"}
          /\ turns[t].chat = send[s].chat
          /\ turns[t].accounting = "reserved" /\ turns[t].sent
          /\ \E r \in DOMAIN journal : /\ IsLatest(journal, r, t)
                                       /\ journal[r].snapshot.status = "pending"]_vars

\* Where no consent is saved and the database accepts every release.  Otherwise a
\* task cancelled while a saved consent is checked again, or a release that was
\* swallowed, leaves its turn and row to the next restart.
Plain == ~setting.saved /\ ~setting.fails

\* A turn is pending only while some sender works on it, or until the restart
\* recovery after a crash: nothing blocks the chat for the rest of the session.
NoAbandonedTurn ==
  recovered /\ Plain => \A t \in Turns : turns[t].status = "pending" =>
    \E s \in Senders : Busy(s) /\ send[s].turn = t

\* A journal row with an outcome is a request that left the machine, or one
\* whose process died around the dispatch: "Cancellation or a rejected guard in
\* that window is not an actual HTTP attempt".
RowsWereSent ==
  \A r \in DOMAIN journal : journal[r].snapshot.status # "pending" => r \in requested

RowsAreRequests == Plain => RowsWereSent

\* No turn waits for nobody, and no row tells of a request nobody made.
TurnsAccounted == NoAbandonedTurn /\ RowsAreRequests

\* No chat stays blocked by a pending turn while its process lives: whatever was
\* cancelled, locked or withdrawn, the send ends in a transaction that settles it.
Blocked(c) == \E t \in Turns : turns[t].chat = c /\ turns[t].status = "pending"
EveryTurnSettles ==
  \A c \in Chats : (recovered /\ Plain /\ Blocked(c)) ~> ~(recovered /\ Blocked(c))
=============================================================================
