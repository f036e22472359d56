# Tokenlogue: specification and proofs

Tokenlogue is a desktop and Android chat client for OpenRouter with local
accounting: every chat has a token limit, paid chats also a money limit, and each
request reserves its worst case before it is sent. Conversations, drafts and
accounting live in one SQLite database, encrypted field by field with a key that
a PIN, the device or a recovery code releases. The program is one asyncio event
loop; SQLite runs in worker threads; the session may be locked at any moment.

This directory models the parts where a mistake costs money, loses text, locks its
owner out or leaves the data open, checks them with TLC and proves the safety of the
accounting, the sends, the drafts, the keys, the PIN, the files of a profile, the
routes, the estimates and the watcher of the desktop with TLAPS.

## 1. The system

| Part | Code (under `src/src`) | State | Hard part |
|---|---|---|---|
| Chat ledger | `storage/message_repository.py`, `chat_repository.py`, `request_attempts.py`, `database.py`, `chat/accounting.py` | tables `chats`, `chat_budgets`, `turns`, `messages`, `chat_request_attempts` | retries, unknown outcomes, restart, older databases |
| Message sending | `chat/sending.py` | one suspended coroutine per send, a lock per chat | cancellation, lock or crash between any two awaits |
| Access and leases | `storage/data_access.py`, `access_context.py`, `database_connections.py` | epoch, key, completion leases | work that outlives its session |
| Drafts | `chat/drafts.py`, `storage/draft_repository.py` | cache with revisions over table `chat_drafts` | slow writes, late reads, locks |
| Paid consent | `chat/service.py`, `chat/paid_consent.py`, `storage/chat_preferences.py` | policy per chat, pending writes | consent withdrawn while a send runs |
| Estimates and context | `chat/estimates.py`, `context.py`, `live_estimate.py`, `metrics.py` | one estimate job and its successor | stale results, rounding |
| PIN policy | `auth/pin_policy.py`, `pin.py` | failures and lock in `auth_state` | reboot, suspend, clock changes |
| Authentication | `auth/service.py`, `access.py` | setup generation, session | a setup over three stores with rollback |
| Data protection | `storage/data_protection.py`, `recovery_code.py`, `field_cipher.py` | binding in secure storage, key wraps, initialization phase | crash between two stores |
| Encrypted migration | `storage/encrypted_migration.py`, `encryption_initialization.py` | journal file, temporary database | crash around the file replacement |
| Secure credentials | `storage/secure_credentials.py` | API key, registration id | compensation of a failed replacement |
| Profile deletion | `storage/profile_deletion.py` | durable intent, stage | crash and resume, order of removal |
| Controllers | `chat_controller.py`, `chat_interaction_controller.py`, `chat_workspace_controller.py` | session generation, dialogs, pending send | callbacks of an old session |
| Application | `app.py`, `main.py`, `preferences.py` | security epoch, screens | session seal during an operation |
| Local protection checks | `platform_security/local_protection.py`, `device_protection_store.py` | test in progress, observed transitions | order of signals |
| Linux session and recovery | `platform_security/linux_*.py`, `device_recovery.py` | watcher state | D-Bus |
| OpenRouter client | `api/*.py` | none | HTTP |
| User interface, build | `ui/`, `packaging/` | none of interest | |

How they meet: the controllers call the sending service and the draft service on
the event loop. Both reach SQLite through repositories whose every call opens a
connection under `DataAccess.authorize`: with the key of the open session, or with
a completion lease, which permits the end of one send or the write of one draft
revision after a lock. A send reserves in the ledger and, in the same transaction,
consumes the draft it was made of; if it is refused before the request leaves, it
releases the reservation and puts the draft back. The first unlock of a process
runs the restart recovery of the ledger.

What makes each part correct:

* ledger: what a budget holds is what its open turn reserved; nothing is charged
  twice; an unknown outcome freezes the chat until its owner decides; history is
  not rewritten;
* sending: nothing leaves without reservation, mark, session and consent; money
  that may be spent stays held; no turn is left pending;
* drafts: an edit is in memory or on disk until it is sent, replaced or deleted;
  a text that was sent does not come back;
* protection, migration, deletion: after a crash at any point there is exactly one
  way forward, and it is the one the stores record;
* PIN: failures are never forgotten, the lock ends neither early nor late;
* estimates: the line under the editor is about the text in it, and its figures are those
  a send reserves;
* session: what a lock, a navigation or a newer request has overtaken changes nothing
  any more; what is shown is what is stored; no right outlives its screen;
* desktop: what is announced while the data is open seals it; what the local checks
  report really happened.

## 2. Modules

| Module | What it is |
|---|---|
| `RequestAttempts` | operators on the journal table; no state |
| `ChatLedger` | EXTENDS it; one action per transaction; properties and the inductive invariant |
| `Escrow` | what the ledger promises, as an account per chat |
| `ChatLedgerProofs` | TLAPS: the ledger's invariant, that it implements `Escrow`, charges and the journal, and the senders (`MessageSending`) on top of them |
| `MessageSending` | EXTENDS `ChatLedger`; composes it with the senders, the session and the consent |
| `ChatDrafts` | the draft cache over its table, with the steps of a send that touch drafts |
| `ChatSession` | the controllers between sign-in and lock: screens, dialogs, sends, each handler a coroutine |
| `RequestPlan` | what one request may cost: history, completion, prices, reserve; no state |
| `LiveEstimate` | the estimate worker, the workspace that feeds it, the line under the editor |
| `DataProtection` | the PIN verifier, the records of the secure storage and the calls that change them |
| `EncryptedMigration` | the replacement of the plain database, as the file system sees it |
| `PinPolicy` | wrong PINs, the lock and its clocks |
| `AppRoutes` | the application around the PIN: routes, rights, the seal |
| `LocalProtection` | the lock and sleep checks with the seal, the watcher's evidence and the desktop |
| `LinuxSession` | the watcher of the desktop session: two buses, attestations, the requested lock |
| `ProfileDeletion` | the deletion of a profile from the dialog to its last file, with crashes and a successor |
| `AppRoutesInvariant` | TLAPS: the inductive invariant of `AppRoutes`, and its steps up to the PIN |
| `AppRoutesProofs` | TLAPS: EXTENDS it; the other steps and the theorems about `AppRoutes` |
| `DataProtectionProofs` | TLAPS: the theorems about `DataProtection` and `PinPolicy` |
| `ProfileFilesProofs` | TLAPS: the theorems about `ProfileDeletion` and `EncryptedMigration` |
| `ChatDraftsProofs`, `LiveEstimateProofs`, `LinuxSessionProofs` | TLAPS: the theorems about the module each is named after |
| `MC...` | an instance of each for TLC |

The modules meet where the code does: `DataProtection` takes the migration for one
write and `EncryptedMigration` takes that write apart; `AppRoutes` takes the answer of
each call of `AuthService` as any of those the call may give, what the call writes is
in `DataProtection`, and what a wrong PIN leads to in `PinPolicy`; `LocalProtection`
relies on what `LinuxSession` promises of a requested lock (`LockEvidence`);
`ChatSession` takes the outcome of a send and of a saved draft, `MessageSending` and
`ChatDrafts` say how it comes about.

### ChatLedger

One action is one `BEGIN IMMEDIATE` transaction that commits; one that raises rolls
back and is no action. `mode`, `budgets`, `turns`, `journal` are the tables (the
status of a turn's user message and reply are columns of its record), `sequence`
the AUTOINCREMENT counter, `hasTable` whether the journal exists yet.
`CreateChat`, `CreateChatWithLimits`, `SetChatLimits`, `DeleteChat`, `ReserveNew`
and `ReserveRetry` (`reserve_turn`), `MarkRequestSent`, `FinalizeKnownTurn`,
`ReleaseLocalFailure`, `ReleaseKnownFailure`, `ReleaseUnsentDispatch`,
`MarkUnknownOutcome`, `ReleaseUnknownReservation`, `RecoverInterruptedTurns` carry
the names of the code.

Abstractions: prompt and completion tokens are one figure (`safe_total`); prices,
titles, texts and error wording are left out; a uuid is a slot that a deletion
frees.

`Init` is one of three databases. `FreshDatabase` has no chat. `VersionThreeDatabase` is
what `_migrate_3_to_4` makes of version 3 and, in the same transaction,
`_recover_interrupted_turns` of that: chats without limits, and a turn per group of
messages (`MigratedTurn`), which is sent, failed or, until the recovery, pending, with the
accounting `released`, although nothing was reserved, and without a charge, although a sent
one has answered (`tests/test_database.py:210`). Such a reply counts as `inherited`: it is
shown and was never accounted. `OldTurns` is what version 3 may have stored of a
turn; a retry treats such a turn as any failed one. `OlderDatabase` is one of the
versions 4 to 6, which had no journal: one chat with limits whose turns were dispatched
and failed (`LegacyTurn`), one perhaps with an unknown outcome, beside turns that came
from version 3. The program of version 3 is not in the repository; the
model assumes of it only that every turn has its user message, since the user writes first.

### MessageSending

`send[s]` is a call of `send_message` or `retry_failed_turn`; its `stage` names the
await it is suspended in. The reservation and the mark take two steps each, the
worker's transaction and the code resumed by its result, because a cancellation may
fall between; the other workers run under `finish_worker`, which holds a
cancellation back until the worker has ended. `Lock`, `Unlock`, `Withdraw`,
`Cancel`, `Crash`, `UserChangesLimits` and `UserReleasesUnknown` may come between any
two steps. `asked` and `requested` are ghosts: turns whose request may have reached
the provider, and journal rows whose request left.

`setting`, chosen at the start, says whether chats may carry the consent to pay
without being asked (`saved`) and whether the transaction that gives up a reservation
may fail by itself (`fails`); the code swallows that exception and leaves the row as it
is. `TurnsAccounted` and `EveryTurnSettles` are about behaviours with neither (`Plain`):
the first finding is what happens with the one, a swallowed release leaves its turn to the
next start with the other.

### ChatDrafts

`disk` is `chat_drafts`, `cache` and `leases` are the dictionaries of
`ChatDraftService`, `tasks` the calls of `flush`, `flush_all` and `load` in
progress. A write is `BeginFlush`, `SaveDraft` (the worker), `AfterWrite` (which
loops, as the code does, without an await between). A call that finds its chat's
`asyncio.Lock` free does not wait: the stage `called` has priority over every other
step. Waiters take the lock in any order, a superset of asyncio's queue. `owed`
makes a lock's `flush_all` begin before a PIN can have been typed. `room` bounds a
behaviour: its chats, those a message may be sent in, the texts and the revisions.

### DataProtection

`db` is what the database file says of itself (its PIN verifier, the key it is
encrypted with), `store` the secure storage, `flushed` what a crash leaves of it,
`op` the call `AuthService` is executing: `_run_exclusive` lets in one at a time. A
call is a list of writes, `op.todo`; `WriteStep` performs the next, `FailedWrite`
ends the call with the write done or not. The lists are the straight lines of the
code: `TakeKey` (`_key_after_proof`), `MigrateAndConfirm`, `Reconcile`, `Saved`
(set, synchronize, read back). Where a call reads again, checks and goes on, there
is an action: `RegistrationStored`, `SystemConfirms`, `CodeConfirms`, `CodeFails`,
`GrantProof`, `IntentStored`, `KeyTaken`, `Open`, `CodeStored`. `LockAccess`,
`CancelSetup`, `CancelIssue`, `Flush` and `Crash` may come between any two writes.

A PIN record is a pair of numbers, its salt makes it unique; `spent` is a ghost, the
generations of the codes a PIN was replaced with. `Init` is a new profile or one an
earlier version left: with its PIN only, or on its way to encryption.

Abstractions: the migration of the file is one write (its own crash safety belongs to
`EncryptedMigration`); the evidence of the plain file never changes before the file
is encrypted, since nothing but PIN counters is written to it and it leaves them out;
a right that expires is a right cancelled; the record of the recovery is read as it
was written.

### ProfileDeletion

`dir` is the directory of the profile, `synced` what a power failure may leave of it,
`store` and `flushed` the secure storage in memory and on disk, `op` the call of
`ProfileDeletion` in progress and the operation it comes to. `finish` runs its file
operations without an await, so only a crash or a failure comes between two of them;
at its awaits (`Awaiting`) the user, a lock, the language selector and the workers of
the profile come in. The writing of an intent is four steps (`CreateTemporary`,
`FillTemporary`, `ReplaceIntent`, `SyncIntent`), the same for the acceptance and for
each alias removed. A profile's name stands for its identifiers (registration id,
database id, inode): two profiles let the successor take the path of the deleted one
while a worker of the old one is still queued. `had` and `accepted` are ghosts.

Abstractions: every check of owners, links, file systems and ancestors is passed by
the program's own files and refuses others; `shared` keeps the one repair the code
makes of them. A capture, a journal removal or a check of the storage is one step.

A crash ends the process or the machine, and only one kind occurs in a behaviour
(`crashes`). A machine that fails after a resume that followed a process's death is
left out: a resume does not synchronize an intent that it finds in place, which the
process that died may have renamed and not yet synchronized. The synchronization of
the directory does not fail where the machine may. At any moment at most one change
of the directory is not synchronized, since the code synchronizes after each.

### EncryptedMigration

`disk` is what a process sees: the database (plain or encrypted, with `rows` and
`auth` counting what was committed to its content and its PIN counters), its WAL, the
temporary files, the journal. `states` is what a loss of power may leave of it: the
directory as last synchronized, or after some of the changes since, in their order.
`secure` and `secured` are the same for the secure storage. `run` is the call of an
unlock: `Unlock`, `TakeKey`, the cleaning of an earlier attempt, the copy, the two
stages of the journal, the rename, the verification, and after it the flag
`protected`. `Fails` ends it at any of them, `Killed` and `PowerLost` the process.

Assumptions: changes of a directory survive a loss of power in order; SQLite's own
commit in rollback mode is atomic and synchronizes the directory; the owner signs in
again (`WF` of `Works`, which includes `Unlock`).

### PinPolicy

`attempts` is the row `auth_state`, `clock` the seconds run in all and since the boot, the
boot and whether its token is known. A route (`task`) takes a sample (`sample_clock`)
and hands it to a thread; `Normalized` is `normalize_attempts`, `Remaining` its three
cases. `truth` counts the wrong answers since the last served lock and the seconds
still to serve, and `overtaken` that an abandoned countdown wrote a sample older than the
one a lock of this boot was stored with, which `GuessesBounded` and `LockHolds` set apart. The wall clock takes part only in the numeric deadline of an older
version. The gate (`PinCheckGate`) is the one task of a kind at a time.

### AppRoutes

`app` is the application controller (the page, its current views, the token of the
pending screen, `_suspending`), the session of the chats and the rights of the service
(a grant, an issued code, a validated key). A coroutine that captured a view, the
epoch or a generation holds the pair of it in `fresh`; replacing the captured thing
takes the pair away, so a comparison after an await is `Still`. One operation at a time
holds `_operation_lock`; the end of a seal and the manual lock run beside it.
`BeginSeal` is synchronous, as in `_begin_session_seal`; it may come between any two
steps of anything.

### ChatSession

`ui` holds the page, the view, the dialog, the limits dialog, the pending send, the
busy flag, the catalog request, the selected and shown chat, and `jobs`: one coroutine
per slot with the await it is at, what it has captured (`holds`) and what it does
next. A handler begins with a click and goes on with `...Flushed`, `...Loaded`,
`...Listed`; `Show` is `_show_workspace` with its three awaits. `queue` is the order in
which flushes of drafts wait, `flawless` (a ghost) whether the storage never failed.
Messages are free or consented; the estimates are in `LiveEstimate`.

### RequestPlan and LiveEstimate

`RequestPlan` has the functions of `estimates.py`, `context.py` and `accounting.py` by
their names, over integers (the code's tokens are integers, its money `Decimal`); the
binary search of `_cap_completion_by_cost` is one, and `bisect_left` is its definition.
`EstimateDraft` is what the line shows, `Preflight` what a send computes from the same
data, `SendPlan` the send after the user has agreed to a higher price.

In `LiveEstimate` an estimate is the snapshot and the text it was made of. `worker` is
`LiveEstimateWorker` (`latest`, `pending`, the task and the request its thread has), `revs`
the four counters a revision is made of besides the draft's, `pane` the editor and the line. `show`,
`paid` and `send` are coroutines suspended in `_show_workspace`,
`_save_paid_without_confirmation` and `submit_message`; the first is superseded by a later
one, the others act on the workspace only where their operation still matches. `Bind`,
`StateArrives` and `Metadata` are the ways in which a snapshot changes, `Type` is the edit
with its record and its request, which run without an await between. `stuck` marks that a
failure ended the coroutine that would have refreshed the line. A send that a lock has
overtaken is dropped: `ChatDrafts` says what becomes of its draft.

### LinuxSession

`w` has the fields of `LinuxSessionWatcher`, `sysQ` and `deskQ` the frames received and
not yet consumed on the two buses, `job` the coroutines that attest: the consumer of
each bus, the coalesced re-check, the start or preparation. An attestation is a series
of awaited reads (`SystemRead`, `SystemCommit`, `OwnerRead`, `ScreenAttest`,
`ScreenCommit`); `_screen_generation` is only compared for equality, so the model keeps
the set `current` of those whose snapshot still equals it. `lock` is
`request_screen_lock` with its `_RequestedLock` cycle; serials wrap at `SerialSpace`.
`world` is the desktop, `owed` the history of an event that was promised a seal, `deaf` that
of a trust that outlived the owner it was in: a consumer that cannot attest a new owner of
logind forgets the owner and not the trust another coroutine has just established, and what
logind says from there until the owner is adopted again is heard by nobody (section 4).
`SystemCommit` sets the trust alone, also where the owner `SystemRead` adopted was forgotten in
between; a call to logind that is still due may then fail (`Displaced`).

### LocalProtection

`checks` has the fields of `LocalProtectionChecks`, the screen trial and the sleep
cycle; `watch` the two contexts, the sleep evidence and the requested lock as the
watcher publishes them; `os` the desktop; `desk` and `sys` the signals under way. A
deadline may pass at any moment. `truth` records what really happened since the check
was bound: that the desktop locked because of the request, that the machine slept, that
the ordinary handler closed the data, that the PIN was shown.

## 3. Model checking

| Run | Instance | Shows |
|---|---|---|
| `ledger` | 2 chats, 2 turns, 2 dispatches, estimates 2, usage 3, limits {3,5}, the three databases of `Init` | `LedgerInv` (types, `ReservationBacked`, `StateIsCurrent`, `HeldWithinLimits`, `MessagesMatchTurns`), `ChargedOnce`, `JournalTells`, `SettledAttemptsKept`, `ImplementsEscrow` |
| `sending` | 1 chat, 2 turns, 2 senders; consent asked and storage sound, or consent saved and storage failing | `SendersOwn`, `ExposureKept`, `DispatchAuthorized`; `TurnsAccounted`: `NoAbandonedTurn` and `RowsAreRequests`, and liveness: `EveryTurnSettles`, where the storage is sound and the consent asked (`Plain`) |
| `drafts` | 2 calls; 1 chat with sends, 2 texts and 3 revisions, or 2 chats without sends, 1 text and 2 revisions | `CacheSound`, `SentStaysGone`, `SavedTextKept`, `UnsavedKept` |
| `protection` | 2 ids, 3 PINs, 2 codes, 2 wrong codes | `KeysSurvive`, `OpenIsWhole`, `SpentStaysSpent`, `OpensForPresentPin` |
| `deletion` | 2 profiles, both platforms, both kinds of crash | `NothingMixed`, `OldWorkersStayOut`, `CancelHolds`; liveness: `AcceptedFinishes` |
| `watch` | 2 owners of logind, a known screen saver and an unknown one; 2 disturbances, or 1 with a failing call, or 1 or 2 requested locks among covers | `ContextSound`, `EventsSeal`, `LockEvidence`; liveness: `MonitoringReturns` |
| `trials` | 7 scenarios of 1 or 2 checks with locks, covers, sleeps, seals, failures, changed observers | `ResultsAreTrue`; liveness: `TestsEnd` |
| `routes` | 9 operations, 2 seals, 2 failing answers | `RoutesSound`, `OldStaysQuiet`; liveness: `SealEnds` |
| `pin` | limit 3, a lock of 3 seconds, 8 seconds, 3 boots, 1 cancelled countdown | `GuessesBounded`, `LockExact` |
| `migration` | 2 changes, 2 wrong PINs, 3 crashes, 3 failures, 7 temporary files | `CrashSafe`; liveness: `MigrationEnds` |
| `session` | 2 stored chats and a new one; 3 overlapping clicks, or 2 with a failure, or 1 over two logins with a failure | `SessionsApart`, `WorkspaceHonest` |
| `estimates` | 2 chats, 2 texts and the empty one, 2 metadata, 4 steps of the user or the network; for the plan, about 9,000 snapshots and 4 sizes | `PlanChecked`, `LineSound`; liveness: `EstimatesCurrent` |

A property named in the table may be a conjunction of named parts, each with its own
comment in the module: `JournalTells` is `JournalInStep` and `PendingShownIffInFlight`;
`SendersOwn` is the types and `TurnInHand`; `CacheSound` is `CleanIsSaved`; `KeysSurvive`
is `RegisteredOpens` and `DataKeepsKey`; `NothingMixed` is `WholeOrPending`,
`NothingLeft` and `RecordsGoFirst`; `WorkspaceHonest` is `SettledShowsStored` and
`PendingIsAlive`; `PlanChecked` is `PlanIsLargest`, `ContextIsLongest`, `QuoteHolds` and
`ReserveCoversPrice`, evaluated in the states a behaviour begins with, since a plan depends
on no state; `ContextSound` is `ContextIsCurrent` and `DesktopIsCurrent`; `LineSound` is `LineTells` and
`PublishedIsCurrent`; `ResultsAreTrue` is `ScreenProof`,
`SleepProof` and `ProblemIsReal`; `RoutesSound` is `PageUsable`, `SecretsHaveScreens` and
`OpenForSession`; `LockExact` is `LockHolds` and `LockEnds`; `CrashSafe` is `NothingLost`,
`NeverRefused` and `CopiesAccounted`, and each of these begins with the types of its
module. Parts have mutants of their own where they guard against different mistakes.

`MessagesMatchTurns` says that a turn is sent exactly when it was charged, with one exception
it names: a turn of version 3 that nobody has tried again (`CarriedOver`). `_migrate_3_to_4`
(`storage/database.py:519`) makes such turns sent without a charge, or failed under a sent
message. The first retry ends the exception for its turn.

Ten more configurations show a disagreement each, one of them three (section 4):
`MCMessageSendingSaved.cfg`, `MCChatDraftsLock.cfg`, `MCDataProtectionPin.cfg`,
`MCProfileDeletionLanguage.cfg`, `MCAppRoutesLate.cfg`, `MCPinPolicyOvertaken.cfg`,
`MCChatSessionDialog.cfg`, `MCProfileDeletionTorn.cfg`, `MCLiveEstimateQuote.cfg`,
`MCLinuxSessionForgotten.cfg`; TLC finds the property each names violated within seconds.

Bounds. `MaxSequence` (2 or 3) bounds the dispatches of a behaviour: two are two
attempts of one turn, one of each turn, or a turn sent, voided and sent again. Two
turns suffice for every guard that speaks of "another turn" of the chat; the proofs
cover any number. The amounts of `ledger` are one estimate (2), which fills exactly
what is left of a limit of 5 after a usage of 3, exceeds what is left of a limit of
3, and is exceeded by its usage; an outcome may also be unknown. Of version 3 the run has a
turn that was answered and one interrupted in its answer (`MCOldTurns`); a reply that
lingers under a failed turn is left to the proof, which takes any `OldTurns`. The runs of
`sending` have none: they start from chats with limits. One chat is enough for
sends, which interact only within a chat; chats meet in the restart recovery
(`ledger`) and in `flush_all` (the room of `drafts` with two chats, where no message is
sent: sends meet drafts within one chat, which the other rooms have). Three revisions let an edit follow a
text that was itself typed during a write. `Room` starts a send only if the journal has room for
its row, so that no run ends for lack of numbers.

For `protection`, three PINs are one, its replacement and a replacement that follows
another; two codes are a working one and its successor; two wrong codes are one
counted and the one that locks. Ids are drawn once per profile, so two show that
records are compared. Nothing limits failures, locks and crashes.

For `deletion`, two profiles are the deleted one and its successor; a name is used
again once nothing carries it. A profile has the aliases of one of three stages of
its protection; the moment at which a setup has stored the binding and not yet
removed the initialization is left out. Nothing limits deletions, failures, crashes
and changes of the language.

For `watch`, an event is a change of owner, metadata, session, power or console, and a
budget chooses what a behaviour may spend: two events overtake one attestation, or one
event and one failing call; the requested lock meets covers without openings, since its
evidence does not depend on the data. `SerialSpace` 24 from 20 on wraps within the run;
half of it exceeds the serials of a behaviour, as 2^31 does those of a session (`SerialAssumption`). For `trials`, each scenario is a
way in which two signals, or a signal and a poll, or a seal and an answer cross. For
`routes`, nine operations reach every screen from an empty profile. For `pin`, the lock
of three seconds stands for the 300 of the code, whose arithmetic is linear; eight
seconds cover a lock, a boot in the middle of it and what follows it. For `migration`,
a temporary file is created per attempt, so seven suffice for six faults. For
`session`, three clicks are two handlers suspended at awaits and a third that overtakes
both; choosing a mode and a model is free, so a new chat costs one click. With three
clicks the key is valid at the login; with fewer it may also be unchecked.

For `estimates`, four steps are, say, an edit, a send, a choice of another chat and an edit
there, with the worker's thread ending anywhere between; the snapshots that TLC tells apart
differ in the chat and the metadata, and every change of a snapshot takes the same way
through `Refresh`. The revisions only grow with the steps. The prices, budgets and lengths
of the plan lie on both sides of each comparison, with one schedule and with two. Runs with
two stored versions (3 steps, 176,000 states) were made by hand.

Symmetry is used for the identifiers in safety runs only.

Fairness. `SendSpec` assumes weak fairness of `Proceed(s)`: a suspended call
continues once its await has ended. asyncio runs every ready task, a worker thread
ends, and the HTTP client gives up at its time limit, which is why `NoResult` and
`PreflightFails` are always possible. Nothing is assumed of the user, of locks or of
crashes. `FairSpec` of `ProfileDeletion` assumes that a call and a worker go on, and
that the owner starts the program again or presses the only button it shows, as the
documents ask of them. `AcceptedFinishes` speaks of behaviours in which crashes and
failed calls come to an end, and excepts the two obstacles of the findings
(`Blocked`). `FairSpec` of `LinuxSession` assumes that every suspended coroutine and the
consumers go on and that the saved monitoring prepares again whenever there is no
context, which `_restore_saved_screen` does; of the desktop, the user and the failures
it assumes nothing. That of `LocalProtection` assumes that a check's coroutine goes on
and that its deadline passes (each await is under `asyncio.wait_for`); that of
`AppRoutes` that an operation, a seal and a manual lock go on once what they await has
answered, except for a prompt of the system, which the user may leave open. That of `LiveEstimate` assumes that the worker's task and thread
and the suspended coroutines go on. That of
`EncryptedMigration` assumes that the owner signs in again. `ChatSession` and `PinPolicy`
state safety only.

Every property has mutants: variants of a definition, kept beside it in the modules,
with which the property fails.

## 4. Findings

* **A cancellation while a saved consent is read again** (`MCMessageSendingSaved.cfg`).
  `_send_authorized` awaits `_validate_saved_consent` after the mark, and no handler
  there takes `CancelledError`. The turn stays pending and marked, blocks its chat,
  and the next start reports an unknown request that was never made.
* **A lock keeps a lease for the wrong revision** (`MCChatDraftsLock.cfg`). `prepare_lock`
  makes no lease where an earlier lock has left one. When a save was still running
  at that lock, or `flush_all` stopped at an earlier chat, the lease that remains is
  for the revision before, and the edit kept by the second lock cannot be written.
* **The old PIN fails after a replacement that was not saved** (`MCDataProtectionPin.cfg`).
  The intent is in the running storage, its synchronization fails, and the call ends.
  `_key_after_proof` refuses a binding with a pending record; only a start, the end
  of a lock or another recovery removes it, and the way back to the PIN screen is
  none of these.
* **A language change stops an accepted deletion** (`MCProfileDeletionLanguage.cfg`). The
  preferences written after the intent carry `local_protection_onboarding`, which
  `_sanitize_preferences` takes for data of the profile and refuses at every attempt.
* **An empty progress file stops an accepted deletion** (`MCProfileDeletionTorn.cfg`,
  `InterruptedProgressReadable`). A process
  that dies between creating and filling the `.write` file leaves one that `_intent`
  reads, and refuses, although the main intent is whole. The comment in `_intent`
  (`profile_deletion.py:1153`) says "The accepted main intent dominates."
* **A migrated paid chat asks for a confirmation it never offers**
  (`MCLiveEstimateQuote.cfg`, `QuoteAlwaysHolds`). `_migrate_3_to_4`
  (`storage/database.py:370`) marks the prices of existing chats as incomplete. For such a
  chat `model_price_increased` is true and `model_price_change` None
  (`accounting.py:253`, `:262`), so the preflight refuses with `PRICE_RECONFIRMATION_REQUIRED`
  and `_handle_preview_failure` (`chat_workspace_controller.py:736`) opens the dialog only for a
  change. The line shows the estimate as ready, and every send fails with "needs to be
  confirmed again" until the chat pays without being asked. docs/user-guide.md:584: "A price
  change requires another confirmation."
* **The reserve of several schedules may lie below the price** (`ReserveAlwaysCovers`, same
  file). Whether a price has risen is decided on the highest price of each part over all
  schedules (`accounting.py:266`), the reserve on the most expensive schedule (`:231`). A chat
  that confirmed two schedules, dear in different parts, is not asked again when the model
  comes to charge both at once, and reserves less than the request may then cost.
  docs/user-guide.md:275: "The response maximum and possible cost are upper bounds for the
  known configuration".
* **A login overtaken by a seal opens the data again** (`MCAppRoutesLate.cfg`,
  `OldNeverOpens`). When the seal falls into the first phases of `_login_checked`
  (`auth/service.py:555`), `_unlock_checked` captures the generation of the access only
  afterwards (`data_protection.py:911`) and opens it; `submit_pin` then finds its view
  replaced and returns without locking. No page is shown, but the data stay open behind
  the PIN screen. The docstring of `prepare_system_lock` (`app.py:2030`) says that it
  «синхронно закрывает доступ до возврата диспетчеру» (synchronously closes the access
  before it returns to the dispatcher), and docs/user-guide.md:82 that the lock of the
  desktop "closes the workspace" and unlocking it does not open chats.
* **A cancelled countdown shortens the lock** (`MCPinPolicyOvertaken.cfg`,
  `LockIsServed`). `_cancel_lock_task` (`app.py:2425`) cancels the coroutine that polls the
  lock, which releases the service's lock, while the thread of its transaction goes on
  with the sample it took earlier. Written after a newer one it shortens the lock by the
  time between the samples, or lifts it where the token of the boot is hidden
  (`pin_policy.py:230`). docs/user-guide.md:187: "A correct PIN cannot bypass
  an active lockout."
* **A context for a desktop that is no longer the user's** (`MCLinuxSessionForgotten.cfg`,
  `DesktopStillOurs`). logind restarts, and its consumer's attestation of the new owner fails
  while another coroutine has come to trust that owner and has begun to attest the screen saver,
  with the user's sessions already read. The consumer forgets the owner (`linux_session.py:1976`)
  and leaves the trust. A queued signal of logind, that a second session has begun, is now
  dropped, having no known sender; the generation of the attestation does not move, it commits
  its context, and the next look at logind adopts the owner again. docs/user-guide.md:172: "Use
  one active local Cinnamon/X11 desktop and one display." `DesktopIsCurrent` sets this state apart
  as `deaf`; it was found when the invariant for the proof failed there.
* **A dialog that answers no button** (`MCChatSessionDialog.cfg`, `DialogAnswers`).
  `request_new_chat` (`chat_controller.py:391`) does not withdraw the request of the
  workspace, which may replace the loading page; a Delete or Rename dialog opened there
  stays when the catalog arrives and `_show_mode_selection` clears the workspace without
  dismissing it. It is modal (`ui/chat_view.py:1512`), and neither Confirm nor Cancel does
  anything any more; docs/user-guide.md:534 says "Cancel the confirmation to keep it."

Smaller ones, met while modelling; the properties set them apart by name where they
touch them.

* `RoutesSound` sets apart (`loose`) a session closed by `_report_storage_error`
  (`chat_controller.py:1656`), which leaves the access open behind the error page, and
  (`relocked`) a manual lock whose draft cannot be saved: it locks a second time, over a
  login that followed it. A seal that arrives while the manual lock reads the countdown
  is answered BUSY and ends on the page of a storage error.
* `EncryptedMigration`: an attempt whose temporary file was created, but whose journal
  could not be written because an old journal was in the way, leaves an empty
  `.protected-*` file for good (`encrypted_migration.py:426`); it holds no content, which is
  what `CopiesAccounted` speaks of. SQLite's rollback journal of a killed copy is not removed.
* `LinuxSession`: a consumer that fails to attest a new owner forgets it
  (`linux_session.py:1976`) without ending the trust another coroutine has just
  established, so that the assertion of an owner in `read_screen_state` may fail
  (`ContextHasOwner`); and after such a failure nothing looks again (`Stranded`), although
  `enable_saved_screen_monitoring` says that the monitoring comes back.
* `LocalProtection`: `start_sleep_test` returns without an end when the session was
  closed during its preparation (`local_protection.py:733`), and the check stays RUNNING
  until the next one (`RunningRuns`); a problem may be reported for a receipt of an
  earlier cover (`local_protection.py:1016`).
* `LiveEstimate`: `acknowledge_reserved` empties the draft at its revision
  (`chat/drafts.py:155`), so an estimate that is late is shown over the emptied editor until
  the refresh of the send has been answered (`PublishedIsTyped`). Conversely an empty line may
  stand over a text: a send overtaken by a choice of another chat and back empties the
  editor, a refresh publishes the empty estimate, and the next capture records the text again,
  so the line is empty until the pending answer. This takes five steps; the attempt to prove
  a stronger `LineSound` showed it, and the property allows it. Where the paid setting can neither be saved nor
  read again, or a choice of another chat fails at a draft, the line stays at "calculating"
  until the next edit (`stuck`). The fences overlap: without the comparison
  of the draft's revision `LineSound` still holds, as `revision == self._latest` drops the
  same answers.
* `ChatSession`: sending, then New chat: an invalid key cancels the catalog without
  leaving the loading page, or leaves its buttons dead; `load_state` raising after a send
  leaves it pending (`chat_workspace_controller.py`), so later ones are ignored, which is why
  `PendingIsAlive` asks for a storage that does not fail; a chat deleted between the list
  and its reading closes the session; `select_chat` checks only the session after its
  flush, so a choice that waited for another chat's draft overtakes a later one (`Wanted`);
  selecting a chat while the one shown is being deleted leaves the list as it was,
  which is why `SettledShowsStored` asks that every stored chat be listed, and not the converse.

## 5. Proofs

TLC checks an instance, the theorems hold for every value of the constants: any
number of chats, turns, senders, calls, identifiers and temporary files, any
amounts, texts, limits and lengths of a lock. Every safety invariant and action
property of `ledger`, `sending`, `drafts`, `protection`, `pin`, `migration`,
`deletion`, `routes` and `watch` is a theorem, and so is `LineSound` of `estimates`. Each rests on an inductive invariant, which TLC has checked on the
instance of the run before it was proved.

| Module | Theorem: property | Inductive invariant |
|---|---|---|
| `ChatLedgerProofs` | `LedgerInvariant`: `LedgerInv`, and its parts; `TypeCorrect`; `LedgerImplementsEscrow`: `ImplementsEscrow` | `LedgerInv` |
| | `EveryOutcomeChargedOnce`: `ChargedOnce`; `JournalAlwaysTells`: `JournalTells`; `SettledAttemptsAlwaysKept`: `SettledAttemptsKept` | `HistoryInv` |
| | `SendersAlwaysOwn`: `SendersOwn`; `ExposureAlwaysKept`: `ExposureKept`; `EveryDispatchAuthorized`: `DispatchAuthorized`; `TurnsAlwaysAccounted`: `TurnsAccounted` | `SendInv` |
| `ChatDraftsProofs` | `CacheAlwaysSound`: `CacheSound`; `SentAlwaysStaysGone`: `SentStaysGone`; `SavedTextAlwaysKept`: `SavedTextKept`; `UnsavedAlwaysKept`: `UnsavedKept` | `DraftInv` |
| `DataProtectionProofs` | `KeysAlwaysSurvive`: `KeysSurvive`; `OpenAlwaysWhole`: `OpenIsWhole`; `SpentAlwaysStaysSpent`: `SpentStaysSpent`; `OpensAlwaysForPresentPin`: `OpensForPresentPin` | `ProtectionInv` |
| | `GuessesAreBounded`: `GuessesBounded`; `LocksAreExact`: `LockExact` | `PinInv` |
| `ProfileFilesProofs` | `CrashesAreSafe`: `CrashSafe` | `SafeInv` |
| | `NothingEverMixed`: `NothingMixed`; `OldWorkersAlwaysStayOut`: `OldWorkersStayOut`; `CancelAlwaysHolds`: `CancelHolds` | `DeletionInv` |
| `AppRoutesProofs` | `RoutesInvariant`; `RoutesAlwaysSound`: `RoutesSound`; `OldAlwaysStaysQuiet`: `OldStaysQuiet` | `RoutesInv` |
| `LiveEstimateProofs` | `LineInvariant`; `LineAlwaysSound`: `LineSound` | `LineInv` |
| `LinuxSessionProofs` | `WatchInvariant`; `ContextsAlwaysCurrent`: `ContextSound`; `EventsAlwaysSeal`: `EventsSeal`; `LockEvidenceIsReal`: `LockEvidence` | `WatchInv` |

Assumptions: only those named `ASSUME` in the modules, which TLC evaluates on every
run. `LedgerAssumption`: amounts are naturals, estimates and limits positive,
`Turns` finite, and what version 3 may have stored of a turn is one of the records the migration
can read (`OldTurns`). `SendingAssumption` and `DraftsAssumption` say what a setting and a
room are, and that `NoTurn`, `NoChat` and the empty draft are none of the others.
`ProtectionAssumption`: identifiers are numbers other than `NoId`, at least one wrong
code is accepted and at least one PIN chosen (a profile of an earlier version has one). `PolicyAssumption`: limit and length of
a lock are positive. `TempsAssumption`: temporary names are numbers other than `None`.
`DeletionAssumption` and `FilesAssumption`: `NoProfile` is no profile, the crashes are of
the two kinds, and a file that is absent or torn is no intent.
`BudgetsAssumption`: a budget gives each of operations, seals and failing answers a number, of
any size, so the theorems about the routes bound none of them. `LiveAssumption`: `Nothing` is the
empty text and no snapshot, revision, request or operation. `OwnersAssumption`: `NoOwner`
owns nothing, and there is a genuine logind. `SerialAssumption`: the serials of a
behaviour are fewer than half of those there are. One theorem has a
hypothesis: `NothingEverMixed` holds of the behaviours in which not both kinds of crash occur
(`OneKindOfCrash`; the run's instance has one kind per behaviour), for the reason given
in section 2 under `ProfileDeletion`; the other two theorems, and the rest of
`DeletionInv`, hold of all.

The ledger. `ReservationBacked` alone is not inductive: a release subtracts what the
turn reserved, so the budget must hold exactly that and no other turn may be open;
that rests on the state never being stale (`StateIsCurrent`: an unknown outcome keeps
`reserve_turn` out) and on the index of one pending turn, tied to accounting by
`MessagesMatchTurns`, whose exception (`CarriedOver`) holds no tokens and is neither pending nor
final, so that it disturbs no sum; the limits follow (`HeldWithinLimits`) since only one
reservation is held. `RowsOK` and `BudgetsOK` are what the code takes for granted
about rows. `ChatLedgerProofs` has a lemma per transaction, one step per conjunct it
can disturb. The refinement: each transaction, under `LedgerInv`, is a step of
`Escrow` or leaves every account as it is.

Its history. `ChargedOnce` compares a total with a sum over a set of turns. What the
sum is when a turn is added to, removed from or changed in the set is an induction
over finite sets. The library's induction rule cannot be used here, since it takes a
predicate as parameter; it is replaced by a minimal element of the well-founded order of
strict inclusion (`SetInduction`, a statement about a set of sets). `JournalTells` needs that
the latest row of a dispatched turn carries its outcome (`JournalFollows`) while rows
of deleted chats go and numbers are not used again (`JournalOK`).

Sending. The senders move the ledger by its own transactions, so `HistoryInv` is part of
`SendInv`; on top of it lies what the tasks hold: a call that has reserved has its
turn pending in its chat and marked exactly from the mark on (`HandOK`), one call
works on a chat (`LocksHeld`), a session is open only after the recovery. The worker
that commits and the coroutine that learns of it are two steps, which is why `HandOK` speaks of the
worker's progress and not of the stage alone.

Drafts. A draft is in memory in up to five copies: the row, the entry, the draft of the
send, what a write carries, what a read brought. `DraftInv` orders their revisions and says
that copies of one revision have one text unless one was cleared (`Agree`,
`Follows`); a read that began before the text was sent either brings it no more or is
not believed (`ReadSound`). Without the last part a late `load` restores a sent text.

Protection. A call is a list of writes that may break off anywhere, and what is on disk may
be older. `Sound` says what a secure storage may be beside the database, for the one in
memory and the one on disk; `PlanOK` says of the writes still to come, phase by
phase, that each fits what will be there when it is its turn, which makes an
interrupted list harmless. `SoundOpens` is the point of it: whatever is sound opens with
the PIN. `RightsOK` ties grants, codes on display and key replacements to it.

PIN. The argument is about the second of the boot at which the stored lock ends: a
newer sample of the same boot keeps it, the first one of another boot never brings it
forward, and only an abandoned countdown writes an older sample, which the history
`overtaken` records. Migration. `DisksSound` says of every directory a loss of power may leave
that it holds what was committed and names its copies, and of every value of the secure
storage that it fits each of them; `Call` and `Copying` what each step may rely on.

Deletion. `NothingMixed` speaks of the states in which nothing is pending, and no step can
be argued from it alone. `DeletionInv` says of the directory the process sees, and of the one
last synchronized, what records may lie beside it (`RecordsOK`): a whole profile's before the
intent was renamed, the intent's own after it, none without a database. That the storage
on disk has followed by the time a file goes (`RemovalOK`), that the two directories differ
in the intent only while one of the two synchronizations is due (`StorageOK`), and that an
intent in preparation is of the profile whose database is there (`CallOK`, `FilesOK`) makes
every operation, every failure and every crash keep it. `WorkerOK` carries the argument about
workers: one is current only with its own profile in place, and none writes while something
is pending.

Routes. At rest `RoutesSound` says which page may be shown; between two awaits almost any
page may be, so no step can be argued from it. `RoutesInv` says for every place where a
coroutine may be suspended which of its captures are still current there (`HeldViews`,
`Generations`, `OpHolds`, `OpAuth`, `Handovers`). The page is then that of the one current
view, or of the chats, or of the coroutine about to replace it (`PageIs`, `SessionShown`,
`FirstRun`), the rights are with the page or with that coroutine (`Rights`), and the access
is open for a session or for a login on its way to one (`OpenIs`, `EntersOpen`). A seal is
where the parts meet: it takes every capture away but that of the access
(`OldHoldNothing`), and until it ends there is no session, no right, and no view but that of the PIN
(`Sealing`, `Sealed`). `OldStaysQuiet` follows from `OldHoldNothing` action by action: what
would change the page or the session compares something the operation no longer holds.
The proof follows the code: what runs between two awaits is a composition of a few dozen
updates of the application, each with a lemma on its effect (`<Update>Is`); a lemma per
composition (`<Step>Safe`) shows the invariant, and an action is the cases of its guards.

Estimates. `LineSound` compares the line with the chat and the editor, which move on while
three coroutines and a thread are under way. `LineInv` says that equal contexts have equal
snapshots and equal revisions of a draft equal texts, except where a send emptied it
(`EditorOK`, `RequestsOK`), that the latest request is about what is on the screen once
nothing is suspended, and that whatever the thread will answer is dropped, or fits
(`AnswerOK`, `LineOK`).

Watcher. A context is current because whatever makes it stale is either still in a queue, or
was heard and has ended the trust. `WatchInv` says so for the owners of the two buses, the
session and the desktop: a signal consumed without effect leaves a later change of owner queued, or
the watcher is `deaf`. What an attestation has read is still true, or its generation is no longer
`current`. `EventsOK` ties each event owed a seal to its frame or to the closed
data. For the requested lock, all serials of a behaviour lie within half of the
circle, so `_serial_after` is their order there (`SerialsOK`), and the cycle
advances only on frames sent after the request (`CycleOK`).

Only model-checked: the properties of `trials` (`ResultsAreTrue`) and of `session`
(`SessionsApart`, `WorkspaceHonest`); and all liveness, which is beyond the prover: `EveryTurnSettles`,
`AcceptedFinishes`, `MonitoringReturns`, `TestsEnd`, `SealEnds`, `MigrationEnds`,
`EstimatesCurrent`. What a binary search over prices computes (`PlanChecked`) is an
induction over data and stays with TLC too.

## 6. Not modelled, and the plan

The plan, in this order:

1. Proofs of `SessionsApart` and of the safety of `LocalProtection`.
2. An abstract session (sealed, open, opening) that `AppRoutes` implements where it is
   not `loose`.

Not modelled, and why:

* of the estimates, the submission without a running event loop and the display of metrics;
  `MessageSending` takes any plan within the budget it read, of which `RequestPlan` is one;
* the compensation inside `replace_api_key`: one write and one attempt to undo it;
* the controller's pending writes of a consent (`chat/paid_consent.py`); the dialog that
  confirms a higher price, whose outcome `SendPlan` has;
* `linux_recovery.py`, `linux_dbus.py`, `windows_session.py`, `device_recovery.py`: calls of
  the system and the encoding of frames, no state the others depend on beyond what
  `LinuxSession` and `AppRoutes` take as answers;
* rendering, HTTP and parsing, key derivation and ciphers (perfect where they occur),
  packaging.

A machine that fails after a resume that followed a process's death is set apart in
`ProfileDeletion` (see there).

The hazards, with the properties that cover each, are listed in `PROJECT.json`.
