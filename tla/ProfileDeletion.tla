--------------------------- MODULE ProfileDeletion ---------------------------
(***************************************************************************)
(* The deletion of a profile: storage/profile_deletion.py, with what       *)
(* app.py, main.py, preferences.py and database_connections.py do around   *)
(* it.  A confirmation captures the profile, acceptance writes a durable   *)
(* intent, and finish removes the records of the secure storage, then the  *)
(* files, then the intent.  It is resumed at every start until it is done. *)
(*                                                                         *)
(* finish is one asyncio call.  Its file operations run without an await,  *)
(* so that only a crash can come between two of them; each operation on    *)
(* the secure storage is an await, where the user, the system and the      *)
(* workers of the profile come in.  A crash ends the process, or also      *)
(* loses what the directory had not been synchronized for (one change: the *)
(* code synchronizes after each).  On Android the secure storage reaches   *)
(* the disk later, or when it is asked to.                                 *)
(***************************************************************************)
EXTENDS Integers, Sequences

CONSTANTS
  Profiles,   \* what a profile may be; one is free again once nothing is left of it
  NoProfile,
  Absent,     \* a file of the intent that does not exist
  Torn,       \* one that was created and not written
  CrashKinds  \* the kinds of crash that may meet in a behaviour: sets of kinds

ASSUME DeletionAssumption ==
  /\ NoProfile \notin Profiles
  /\ CrashKinds \subseteq SUBSET {"process", "power"}

VARIABLES
  platform,   \* "linux" or "android"
  crashes,    \* the kinds of crash of this behaviour
  dir,        \* the directory of the profile
  synced,     \* what a power failure may leave of it
  prefs,      \* tokenlogue-preferences.json
  shared,     \* the directory is writable for the user's group
  store,      \* whose record each alias of the secure storage holds
  flushed,    \* what a crash leaves of it
  screen,     \* what the program shows
  scope,      \* the profile of the standing confirmation
  withdrawn,  \* the call in progress has been cancelled
  op,         \* the call of ProfileDeletion in progress
  fresh,      \* the incarnation of the running composition is current
  onboarding, \* local_protection_onboarding of the running PreferencesStore
  worker,     \* a delayed worker of AuthDatabase
  had,        \* ghost: the aliases the present profile was set up with
  accepted    \* ghost: the profiles whose deletion has been accepted

files   == <<dir, synced, prefs, shared>>
storage == <<store, flushed>>
memory  == <<screen, scope, withdrawn, op, fresh, onboarding, worker>>
ghosts  == <<had, accepted>>
vars    == <<platform, crashes, files, storage, memory, ghosts>>

-----------------------------------------------------------------------------
\* PROFILE_ALIASES, in the order of their removal.
Order   == <<"api", "key", "binding", "initialization", "registration">>
Aliases == {Order[i] : i \in DOMAIN Order}

Holder == [Aliases -> Profiles \cup {NoProfile}]
Empty  == [a \in Aliases |-> NoProfile]

\* The snapshot an intent carries and the number of aliases it says are removed.
Intent == [owner : Profiles, copy : BOOLEAN, prefs : BOOLEAN,
           removed : 0 .. Len(Order)]

\* A file that is absent, or torn, is no intent.
ASSUME FilesAssumption == Absent # Torn /\ {Absent, Torn} \cap Intent = {}

\* owner created the database file, data is whose rows it holds.
Database   == [owner : Profiles \cup {NoProfile}, data : Profiles \cup {NoProfile},
               schema : {0, 6, 7}]
NoDatabase == [owner |-> NoProfile, data |-> NoProfile, schema |-> 0]

\* journal is SQLite's, copy the files of an interrupted encryption, main the
\* intent, writing its ".write" file.
Directory == [db : Database,
              journal : Profiles \cup {NoProfile}, copy : Profiles \cup {NoProfile},
              main : Intent \cup {Absent}, writing : Intent \cup {Absent, Torn}]

\* captured: it is the inode the intent names; extra: it has keys other than the
\* language and the layout.
Prefs == [exists : BOOLEAN, captured : BOOLEAN, extra : BOOLEAN]

NoOp     == [kind |-> "none", at |-> "none", i |-> 0, intent |-> Absent]
NoWorker == [at |-> "none", owner |-> NoProfile, current |-> FALSE]

\* pending, and deletion_pending of database_connections.py.
Pending(d) == d.main # Absent \/ d.writing # Absent

\* The aliases a profile has after its setup: without encryption, on its way to
\* it, and with it.
Shapes == {{"api", "registration"}, {"api", "registration", "key", "initialization"},
           {"api", "registration", "key", "binding"}}

\* The call awaits: callbacks of the event loop may run.
Awaiting == op.at \in {"none", "wait", "snapshot", "prepared", "remove", "durable", "check"}

\* database_lock.
LockFree == worker.at # "writing"

At(kind, at) == op.kind = kind /\ op.at = at

Go(at) == op' = [op EXCEPT !.at = at]

-----------------------------------------------------------------------------
\* Confirmation: app.py.

RequestDeletion ==
  /\ screen = "use" /\ op = NoOp /\ ~Pending(dir)
  /\ op' = [NoOp EXCEPT !.kind = "capture", !.at = "snapshot"]
  /\ withdrawn' = FALSE
  /\ UNCHANGED <<platform, crashes, files, storage, screen, scope, fresh, onboarding,
                 worker, ghosts>>

\* _snapshot succeeds: the records that say whose the storage is agree with the
\* database, and a key of unknown origin is not in it.
CanSnapshot ==
  LET p == dir.db.owner
  IN /\ p # NoProfile
     /\ store["registration"] = p
     /\ dir.db.schema = 7 => store["binding"] = p
     /\ \A a \in {"binding", "initialization"} : store[a] \in {p, NoProfile}
     /\ store["key"] # NoProfile =>
          \E a \in {"binding", "initialization"} : store[a] # NoProfile

\* The storage may fail to answer.
CaptureEnds ==
  /\ At("capture", "snapshot") /\ LockFree
  /\ op' = NoOp /\ withdrawn' = FALSE
  /\ \/ UNCHANGED <<screen, scope>>
     \/ ~withdrawn /\ CanSnapshot /\ screen' = "dialog" /\ scope' = dir.db.owner
  /\ UNCHANGED <<platform, crashes, files, storage, fresh, onboarding, worker, ghosts>>

\* A cancellation, from the dialog or by a lock, the background or a language
\* change, as long as nothing has been accepted.
Cancelled ==
  IF screen = "dialog" \/ op.kind \in {"capture", "accept"}
    THEN /\ withdrawn' = (op.kind \in {"capture", "accept"})
         /\ scope' = NoProfile
         /\ screen' = IF screen = "dialog" THEN "use" ELSE screen
    ELSE UNCHANGED <<withdrawn, scope, screen>>

CancelProfileDeletion ==
  /\ screen = "dialog" \/ op.kind \in {"capture", "accept"}
  /\ Awaiting /\ ~Pending(dir)
  /\ Cancelled
  /\ UNCHANGED <<platform, crashes, files, storage, op, fresh, onboarding, worker, ghosts>>

ConfirmProfileDeletion ==
  /\ screen = "dialog" /\ op = NoOp
  /\ screen' = "progress"
  /\ withdrawn' = FALSE
  /\ op' = [NoOp EXCEPT !.kind = "accept", !.at = "wait"]
  /\ UNCHANGED <<platform, crashes, files, storage, scope, fresh, onboarding, worker, ghosts>>

-----------------------------------------------------------------------------
\* accept, and the writing of an intent.

\* Mutant: the clean-up takes the accepted intent with it.
WithoutTemporaryMutant(d) == [d EXCEPT !.writing = Absent, !.main = Absent]

WithoutTemporary(d) == [d EXCEPT !.writing = Absent]

\* The call raises; the file it was writing is removed.  The screen it leaves
\* offers another try.
Raises ==
  /\ op' = NoOp
  /\ screen' = IF screen = "starting" THEN "error" ELSE screen
  /\ dir' = IF op.at \in {"fill", "replace"} THEN WithoutTemporary(dir) ELSE dir

\* wait_profile_deletion has ended: the old session writes nothing more.
AcceptBegins ==
  /\ At("accept", "wait")
  /\ IF withdrawn THEN Raises ELSE Go("snapshot") /\ UNCHANGED <<screen, dir>>
  /\ UNCHANGED <<platform, crashes, synced, prefs, shared, storage, scope, withdrawn,
                 fresh, onboarding, worker, ghosts>>

\* Mutant: the snapshot is compared, the confirmation is not.
ConfirmedMutant == CanSnapshot

Confirmed == ~withdrawn /\ CanSnapshot /\ scope = dir.db.owner

\* _prepare_directory; the snapshot is taken once more after it.
PrepareDirectory ==
  /\ At("accept", "snapshot") /\ LockFree /\ Confirmed
  /\ shared
  /\ shared' = FALSE
  /\ Go("prepared")
  /\ UNCHANGED <<platform, crashes, dir, synced, prefs, storage, screen, scope,
                 withdrawn, fresh, onboarding, worker, ghosts>>

\* Mutant: the delayed workers of the old composition are not retired.
RetireMutant == UNCHANGED <<fresh, worker>>

\* retire_database: delayed workers of this composition are refused from now on.
Retire ==
  /\ fresh' = FALSE
  /\ worker' = [worker EXCEPT !.current = FALSE]

\* The last check, with no await between it and the durable intent.
AcceptSnapshot ==
  /\ \/ At("accept", "snapshot") /\ ~shared
     \/ At("accept", "prepared")
  /\ LockFree /\ Confirmed
  /\ op' = [op EXCEPT !.at = "create",
                      !.intent = [owner |-> dir.db.owner, copy |-> dir.copy # NoProfile,
                                  prefs |-> prefs.exists, removed |-> 0]]
  /\ prefs' = [prefs EXCEPT !.captured = prefs.exists]
  /\ Retire
  /\ UNCHANGED <<platform, crashes, dir, synced, shared, storage, screen, scope,
                 withdrawn, onboarding, ghosts>>

AcceptRefused ==
  /\ op.kind = "accept" /\ op.at \in {"snapshot", "prepared"} /\ LockFree
  /\ ~Confirmed
  /\ Raises
  /\ UNCHANGED <<platform, crashes, synced, prefs, shared, storage, scope, withdrawn,
                 fresh, onboarding, worker, ghosts>>

Writes(d, at) ==
  /\ dir' = d
  /\ Go(at)
  /\ UNCHANGED <<platform, crashes, synced, prefs, shared, storage, screen, scope,
                 withdrawn, fresh, onboarding, worker, ghosts>>

\* _write_intent, for accept and for each alias removed.
CreateTemporary == op.at = "create" /\ Writes([dir EXCEPT !.writing = Torn], "fill")
FillTemporary   == op.at = "fill" /\ Writes([dir EXCEPT !.writing = op.intent], "replace")
ReplaceIntent   ==
  /\ op.at = "replace"
  /\ Writes([dir EXCEPT !.main = op.intent, !.writing = Absent], "sync")

\* Mutant: one removal too many.
NextAliasMutant ==
  IF op.i <= Len(Order) THEN [op EXCEPT !.at = "remove", !.i = @ + 1]
                        ELSE [op EXCEPT !.at = "files"]

NextAlias ==
  IF op.i < Len(Order) THEN [op EXCEPT !.at = "remove", !.i = @ + 1]
                       ELSE [op EXCEPT !.at = "files"]

\* Mutant: the directory is not synchronized.
DurableMutant(d) == synced

\* _sync_directory.
Durable(d) == d

\* _sync_directory at its end; accept returns and finish is called.
SyncIntent ==
  /\ op.at = "sync"
  /\ synced' = Durable(dir)
  /\ IF op.kind = "accept"
       THEN /\ op' = [NoOp EXCEPT !.kind = "finish", !.at = "begin"]
            /\ scope' = NoProfile
            /\ accepted' = accepted \cup {op.intent.owner}
       ELSE op' = NextAlias /\ UNCHANGED <<scope, accepted>>
  /\ UNCHANGED <<platform, crashes, dir, prefs, shared, storage, screen, withdrawn,
                 fresh, onboarding, worker, had>>

-----------------------------------------------------------------------------
\* finish.

StorageCall(at) ==
  /\ Go(at)
  /\ UNCHANGED <<platform, crashes, files, screen, scope, withdrawn, fresh, onboarding,
                 worker, ghosts>>

\* _intent: a whole intent that was not renamed is promoted, a progress that was
\* not renamed is dropped.
FinishBegins ==
  /\ op.at = "begin" /\ LockFree
  /\ dir.writing # Torn
  /\ IF dir.writing = Absent
       THEN op' = [op EXCEPT !.at = "validate", !.intent = dir.main] /\ UNCHANGED dir
       ELSE LET main == IF dir.main = Absent THEN dir.writing ELSE dir.main
            IN /\ main.owner = dir.writing.owner /\ main.removed <= dir.writing.removed
               /\ dir' = [dir EXCEPT !.main = main, !.writing = Absent]
               /\ op' = [op EXCEPT !.at = "settle", !.intent = main]
  /\ UNCHANGED <<platform, crashes, synced, prefs, shared, storage, screen, scope,
                 withdrawn, fresh, onboarding, worker, ghosts>>

SettleIntent ==
  /\ op.at = "settle"
  /\ synced' = Durable(dir)
  /\ Go("validate")
  /\ UNCHANGED <<platform, crashes, dir, prefs, shared, storage, screen, scope,
                 withdrawn, fresh, onboarding, worker, ghosts>>

\* _validate_files: no other file than the intent's is in the way.
ValidFiles(intent) ==
  /\ dir.db.owner \in {intent.owner, NoProfile}
  /\ dir.journal = NoProfile
  /\ dir.copy # NoProfile => intent.copy /\ dir.copy = intent.owner

ValidateIntent ==
  /\ op.at = "validate"
  /\ ~shared /\ ValidFiles(op.intent)
  /\ op' = [op EXCEPT !.at = "remove", !.i = 1]
  /\ accepted' = accepted \cup {op.intent.owner}
  /\ Retire
  /\ UNCHANGED <<platform, crashes, files, storage, screen, scope, withdrawn,
                 onboarding, had>>

\* Mutant: the registration id must be there.
NamespaceMutant(p) ==
  /\ store["registration"] = p
  /\ \A a \in {"binding", "initialization"} : store[a] \in {p, NoProfile}

\* _namespace: the storage is the intent's; its registration id goes last.
Namespace(p) ==
  /\ \/ store["registration"] = p
     \/ store = Empty
  /\ \A a \in {"binding", "initialization"} : store[a] \in {p, NoProfile}

\* On Linux the keyring answers when it has stored the change.
RemoveAlias ==
  /\ op.at = "remove"
  /\ Namespace(op.intent.owner)
  /\ store' = [store EXCEPT ![Order[op.i]] = NoProfile]
  /\ flushed' = IF platform = "linux" THEN store' ELSE flushed
  /\ StorageCall("durable")

\* Mutant: the removal is not written through.
WrittenThroughMutant == flushed

WrittenThrough == store

\* durable_write, which only Android has.
StoreWritten ==
  /\ op.at = "durable"
  /\ flushed' = WrittenThrough
  /\ StorageCall("check")
  /\ UNCHANGED store

NoteRemoved ==
  /\ op.at = "check"
  /\ store[Order[op.i]] = NoProfile
  /\ op' = IF op.i > op.intent.removed
             THEN [op EXCEPT !.at = "create", !.intent.removed = op.i]
             ELSE NextAlias
  /\ UNCHANGED <<platform, crashes, files, storage, screen, scope, withdrawn, fresh,
                 onboarding, worker, ghosts>>

\* _sanitize_preferences accepts a file it did not capture only without extra keys.
Acceptable(p) == p.exists /\ ~p.captured => ~p.extra

SanitizePreferences ==
  /\ op.at = "files" /\ LockFree
  /\ store = Empty
  /\ ValidFiles(op.intent)
  /\ Acceptable(prefs)
  /\ op.intent.prefs => prefs.exists
  /\ prefs' = IF op.intent.prefs /\ prefs.captured
                THEN [exists |-> TRUE, captured |-> FALSE, extra |-> FALSE]
                ELSE prefs
  /\ Go("copy")
  /\ UNCHANGED <<platform, crashes, dir, synced, shared, storage, screen, scope,
                 withdrawn, fresh, onboarding, worker, ghosts>>

\* _unlink and the end of finish, each with its _sync_directory.
Unlinks(d) ==
  /\ dir' = d
  /\ synced' = Durable(d)
  /\ UNCHANGED <<platform, crashes, prefs, shared, storage, scope, withdrawn, fresh,
                 onboarding, worker, ghosts>>

UnlinkCopy ==
  /\ op.at = "copy"
  /\ Unlinks([dir EXCEPT !.copy = NoProfile])
  /\ Go("database")
  /\ UNCHANGED screen
UnlinkDatabase ==
  /\ op.at = "database"
  /\ Unlinks([dir EXCEPT !.db = NoDatabase])
  /\ Go("intent")
  /\ UNCHANGED screen
UnlinkIntent ==
  /\ op.at = "intent"
  /\ Unlinks([dir EXCEPT !.main = Absent])
  /\ op' = NoOp
  /\ screen' = "reload"

-----------------------------------------------------------------------------
\* What may go wrong, and what else goes on.

\* Any call of the system may fail, a removal with or without effect.  The
\* synchronization of the directory does not where the power may.
Fails ==
  /\ op.kind \in {"accept", "finish"} /\ op.at # "wait"
  /\ op.at \in {"sync", "settle"} => "power" \notin crashes
  /\ Raises
  /\ \/ op.at = "remove" /\ store' = [store EXCEPT ![Order[op.i]] = NoProfile]
     \/ UNCHANGED store
  /\ flushed' = IF platform = "linux" THEN store' ELSE flushed
  /\ UNCHANGED <<platform, crashes, synced, prefs, shared, scope, withdrawn, fresh,
                 onboarding, worker, ghosts>>

\* On Android the system writes the storage when it likes.
Flush ==
  /\ flushed' = store /\ flushed # store
  /\ UNCHANGED <<platform, crashes, files, store, memory, ghosts>>

\* The process dies, or the machine with it.
Crash ==
  /\ screen # "off"
  /\ \/ "process" \in crashes /\ UNCHANGED <<dir, synced>>
     \/ "power" \in crashes /\ dir' \in {dir, synced} /\ synced' = dir'
  /\ store' = flushed
  /\ screen' = "off" /\ scope' = NoProfile /\ withdrawn' = FALSE
  /\ op' = NoOp /\ fresh' = FALSE /\ onboarding' = FALSE /\ worker' = NoWorker
  /\ UNCHANGED <<platform, crashes, prefs, shared, flushed, ghosts>>

\* main: a start, or a retry after an error, a reload or a failed deletion.
Launching == op = NoOp /\ screen \in {"off", "error", "reload", "progress"}

Resume ==
  /\ Launching /\ Pending(dir)
  /\ op' = [NoOp EXCEPT !.kind = "finish", !.at = "begin"]
  /\ screen' = IF screen = "progress" THEN "progress" ELSE "starting"
  /\ onboarding' = IF screen = "progress" THEN onboarding ELSE prefs.extra
  /\ UNCHANGED <<platform, crashes, files, storage, scope, withdrawn, fresh, worker, ghosts>>

\* A new composition; SQLite rolls back what a crash has left.
Composed ==
  /\ screen' = "use" /\ scope' = NoProfile /\ withdrawn' = FALSE
  /\ fresh' = TRUE /\ onboarding' = prefs.extra
  /\ UNCHANGED <<platform, crashes, prefs, shared, storage, op, worker>>

OpenProfile ==
  /\ Launching /\ ~Pending(dir) /\ dir.db # NoDatabase
  /\ LockFree
  /\ dir' = [dir EXCEPT !.journal = NoProfile] /\ synced' = dir'
  /\ Composed
  /\ UNCHANGED ghosts

Unused(p) ==
  /\ \A a \in Aliases : p \notin {store[a], flushed[a]}
  /\ p \notin {dir.copy, synced.db.owner, synced.copy, worker.owner}

\* Not over a key of unknown origin.
CreateProfile ==
  /\ Launching /\ ~Pending(dir) /\ dir.db = NoDatabase
  /\ \A a \in {"key", "binding", "initialization"} : store[a] = NoProfile
  /\ \E p \in Profiles :
       /\ Unused(p)
       /\ dir' = [dir EXCEPT !.db = [owner |-> p, data |-> p, schema |-> 6]]
       /\ accepted' = accepted \ {p}
  /\ synced' = dir' /\ had' = {}
  /\ Composed

\* The setup of the profile, up to a stage of its protection; an interrupted
\* encryption leaves its copy, until it is taken up again.
SetUp ==
  /\ screen = "use" /\ op = NoOp /\ LockFree
  /\ dir.db # NoDatabase
  /\ had = {} \/ dir.copy # NoProfile
  /\ \E S \in Shapes :
       /\ store' = [a \in Aliases |-> IF a \in S THEN dir.db.owner ELSE NoProfile]
       /\ \E copy \in {NoProfile, dir.db.owner} :
            /\ copy # NoProfile => "initialization" \in S /\ "binding" \notin S
            /\ dir' = [dir EXCEPT !.db.schema = IF "binding" \in S THEN 7 ELSE 6,
                                  !.copy = copy]
       /\ had \subseteq S \cup {"initialization"}
       /\ had' = S
  /\ flushed' = store' /\ synced' = dir'
  /\ UNCHANGED <<platform, crashes, prefs, shared, memory, accepted>>

\* PreferencesStore._save: a new file, with what this process has read.
Saves(extra) ==
  /\ prefs' = [exists |-> TRUE, captured |-> FALSE, extra |-> extra]
  /\ onboarding' = extra
  /\ UNCHANGED <<platform, crashes, dir, synced, shared, storage, op, fresh, worker, ghosts>>

SetOnboarding ==
  /\ platform = "linux" /\ screen = "use" /\ op = NoOp
  /\ Saves(TRUE)
  /\ UNCHANGED <<screen, scope, withdrawn>>

\* Also a choice made before the selector was disabled.
SetLanguage ==
  /\ screen # "off" /\ Awaiting
  /\ Saves(onboarding)
  /\ IF Pending(dir) THEN UNCHANGED <<screen, scope, withdrawn>> ELSE Cancelled

\* A worker of AuthDatabase that starts late.
QueueWorker ==
  /\ screen = "use" /\ worker = NoWorker
  /\ worker' = [at |-> "queued", owner |-> dir.db.owner, current |-> fresh]
  /\ UNCHANGED <<platform, crashes, files, storage, screen, scope, withdrawn, op, fresh,
                 onboarding, ghosts>>

\* connection: refused, or a transaction with its journal file.
WorkerBegins ==
  /\ worker.at = "queued" /\ Awaiting
  /\ IF Pending(dir) \/ ~worker.current \/ dir.db = NoDatabase
       THEN worker' = NoWorker /\ UNCHANGED <<dir, synced>>
       ELSE /\ worker' = [worker EXCEPT !.at = "writing"]
            /\ dir' = [dir EXCEPT !.journal = dir.db.owner] /\ synced' = dir'
  /\ UNCHANGED <<platform, crashes, prefs, shared, storage, screen, scope, withdrawn, op,
                 fresh, onboarding, ghosts>>

WorkerEnds ==
  /\ worker.at = "writing"
  /\ worker' = NoWorker
  /\ dir' = [dir EXCEPT !.journal = NoProfile, !.db.data = worker.owner] /\ synced' = dir'
  /\ UNCHANGED <<platform, crashes, prefs, shared, storage, screen, scope, withdrawn, op,
                 fresh, onboarding, ghosts>>

-----------------------------------------------------------------------------
Init ==
  /\ platform \in {"linux", "android"}
  /\ crashes \in CrashKinds
  /\ dir = [db |-> NoDatabase, journal |-> NoProfile, copy |-> NoProfile,
         main |-> Absent, writing |-> Absent]
  /\ synced = dir
  /\ prefs = [exists |-> FALSE, captured |-> FALSE, extra |-> FALSE]
  /\ shared \in (IF platform = "linux" THEN BOOLEAN ELSE {FALSE})
  /\ store = Empty /\ flushed = Empty
  /\ screen = "off" /\ scope = NoProfile /\ withdrawn = FALSE
  /\ op = NoOp /\ fresh = FALSE /\ onboarding = FALSE /\ worker = NoWorker
  /\ had = {}
  /\ accepted = {}

Launch == Resume \/ OpenProfile \/ CreateProfile

Accept == AcceptBegins \/ PrepareDirectory \/ AcceptSnapshot \/ AcceptRefused

WriteIntent == CreateTemporary \/ FillTemporary \/ ReplaceIntent \/ SyncIntent

Finish ==
  \/ FinishBegins \/ SettleIntent \/ ValidateIntent
  \/ RemoveAlias \/ StoreWritten \/ NoteRemoved
  \/ SanitizePreferences \/ UnlinkCopy \/ UnlinkDatabase \/ UnlinkIntent

User ==
  \/ RequestDeletion \/ CaptureEnds \/ CancelProfileDeletion \/ ConfirmProfileDeletion
  \/ SetUp \/ SetOnboarding \/ SetLanguage

Next ==
  \/ Launch \/ Accept \/ WriteIntent \/ Finish \/ User
  \/ QueueWorker \/ WorkerBegins \/ WorkerEnds
  \/ Fails \/ Flush \/ Crash

Spec == Init /\ [][Next]_vars

\* Calls and workers go on once their await has ended; the owner starts the
\* program again, or presses its only button.
FairSpec == Spec /\ WF_vars(Launch) /\ WF_vars(Accept \/ WriteIntent \/ Finish)
                 /\ WF_vars(WorkerEnds)

-----------------------------------------------------------------------------
\* Properties.

Labels == {"none", "wait", "snapshot", "prepared", "create", "fill", "replace", "sync",
           "begin", "settle", "validate", "remove", "durable", "check", "files", "copy",
           "database", "intent"}

\* Every variable has its type; the ".write" file exists only while a call
\* writes it or after one died doing so.
TypeOK ==
  /\ platform \in {"linux", "android"} /\ crashes \in CrashKinds
  /\ dir \in Directory /\ synced \in Directory /\ prefs \in Prefs /\ shared \in BOOLEAN
  /\ store \in Holder /\ flushed \in Holder
  /\ screen \in {"off", "starting", "use", "dialog", "progress", "error", "reload"}
  /\ scope \in Profiles \cup {NoProfile} /\ withdrawn \in BOOLEAN
  /\ op \in [kind : {"none", "capture", "accept", "finish"}, at : Labels,
             i : 0 .. Len(Order), intent : Intent \cup {Absent}]
  /\ fresh \in BOOLEAN /\ onboarding \in BOOLEAN
  /\ worker \in [at : {"none", "queued", "writing"},
                 owner : Profiles \cup {NoProfile}, current : BOOLEAN]
  /\ had \subseteq Aliases /\ accepted \subseteq Profiles

Holds(p, holder) == \E a \in Aliases : holder[a] = p

\* A partly deleted profile never becomes a working one: without an intent, a
\* profile has every record it was set up with, also after a crash, in
\* whichever step of acceptance or removal it came.
WholeOrPending ==
  ~Pending(dir) /\ dir.db # NoDatabase =>
    \A a \in had : store[a] = dir.db.owner /\ flushed[a] = dir.db.owner

\* Nothing is left of a deleted profile once its intent is gone: no record that a
\* crash brings back, no database, no journal file.
NothingLeft ==
  ~Pending(dir) => \A p \in accepted :
    /\ ~Holds(p, store) /\ ~Holds(p, flushed)
    /\ p \notin {dir.db.owner, dir.copy, dir.journal}
    /\ p \notin {synced.db.owner, synced.copy, synced.journal}

\* The database stays until the records are gone for good: it bars a new setup,
\* which would find them.
RecordsGoFirst ==
  \A p \in accepted : dir.db.owner # p => ~Holds(p, store) /\ ~Holds(p, flushed)

\* No start finds half a profile, and none finds a deleted one again.
NothingMixed == TypeOK /\ WholeOrPending /\ NothingLeft /\ RecordsGoFirst

\* A delayed worker of a deleted profile writes nothing into its successor, which
\* has the same path.
OldWorkersStayOut == dir.db.data = dir.db.owner

\* A cancelled confirmation is never accepted, whichever await of accept the
\* cancellation came in.
CancelHolds == op.kind = "accept" /\ ~Awaiting => ~withdrawn

\* What no retry gets past.
Blocked == dir.writing = Torn \/ ~Acceptable(prefs)

CalmStep == screen' # "off" /\ (op.kind = "finish" /\ op' = NoOp => screen' = "reload")

\* Once crashes and failures stop, an accepted deletion is completed, wherever the
\* last crash interrupted it, unless one of the two obstacles of Blocked is there.
AcceptedFinishes ==
  <>[][CalmStep]_vars => (dir.main # Absent ~> (~Pending(dir) \/ Blocked))

\* "Its new nonsensitive choice is already clean": a language chosen after the
\* intent was written does not stand in the way of the deletion.
LanguageStaysClean == dir.main # Absent => Acceptable(prefs)

\* "The accepted main intent dominates ... even if an ACK-progress replacement was
\* interrupted": what the interrupted replacement left can be read or ignored.
InterruptedProgressReadable ==
  dir.main # Absent /\ op = NoOp => dir.writing # Torn
=============================================================================
