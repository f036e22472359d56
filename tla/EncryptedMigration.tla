-------------------------- MODULE EncryptedMigration --------------------------
(***************************************************************************)
(* The replacement of the plain database by an encrypted copy:             *)
(* src/storage/encrypted_migration.py, the proof that the file is still    *)
(* the plain one (src/storage/encryption_initialization.py), and the calls *)
(* of src/storage/data_protection.py around them.                          *)
(*                                                                         *)
(* DataProtection.tla takes the replacement for one write; here it is what *)
(* the file system sees: a temporary file, a journal that names it, a      *)
(* rename, and the synchronisation of the directory.  A killed process     *)
(* leaves "disk"; a loss of power leaves one of "states", the directory as *)
(* it was synchronised last or after some of the changes since, in their   *)
(* order.  Of the secure storage it leaves "secure" or "secured".  The     *)
(* counters rows and auth stand for what was committed.                    *)
(***************************************************************************)
EXTENDS Integers, Sequences

CONSTANTS
    Temps,      \* bound: the temporary files mkstemp may create
    Budgets     \* bounds: commits of content and of wrong PINs, crashes, failures

None == 0

ASSUME TempsAssumption == Temps \subseteq Nat \ {None}

VARIABLES
    disk,       \* what a process sees: the database, its WAL, the temporary
                \* files, the journal
    states,     \* what a loss of power may leave of it
    secure,     \* the secure storage: the record of the initialization with its
                \* digest, the binding, the key, the flag "protected"
    secured,    \* the part of it that survives
    run,        \* the call of unlock: its step, its temporary file, the writes
                \* to the secure storage it has still to do
    recovered,  \* has this process run the recovery of interrupted turns?
    truth,      \* history: everything that was committed
    left        \* what is left of the budgets

migrationVars == <<disk, states, secure, secured, run, recovered, truth, left>>

NoFile == [kind |-> "none"]
EmptyFile == [kind |-> "empty"]
Part == [kind |-> "part"]
Whole(d) == [kind |-> "whole", db |-> [d EXCEPT !.format = "cipher"]]
NoJournal == [stage |-> "none", temp |-> None]

Plain == disk.db.format = "plain"
AtStep(pc) == run.pc = pc
Goes(pc) == run' = [run EXCEPT !.pc = pc]

-----------------------------------------------------------------------------
(* The file system.                                                        *)

(* A change of the directory, not synchronised yet. *)
Changes(d) == disk' = d /\ states' = states \cup {d}
(* _sync_directory *)
SyncDirectory == states' = {disk}

(* The bytes of a file, whose name a loss of power may have forgotten.     *)
Fill(t, content) ==
    LET Filled(d) == IF d.temps[t] = NoFile THEN d ELSE [d EXCEPT !.temps[t] = content]
    IN  /\ disk' = Filled(disk)
        /\ states' = {Filled(d) : d \in states}

JournalUnsynced(stage, t) ==
    Changes([disk EXCEPT !.journal = [stage |-> stage, temp |-> t]])
(* _journal writes another file, synchronises it, renames it and            *)
(* synchronises the directory.                                             *)
Journal(stage, t) ==
    /\ disk' = [disk EXCEPT !.journal = [stage |-> stage, temp |-> t]]
    /\ states' = {disk'}

(* SQLite commits: it makes its own journal durable first, and the          *)
(* directory that holds it along with it.                                  *)
Commit(d) ==
    /\ disk' = [disk EXCEPT !.db = d]
    /\ states' = {disk'}

-----------------------------------------------------------------------------
(* Who may take the key: _key_after_proof for the right PIN.               *)

DigestWithCounters(d) == <<d.rows, d.auth>>
(* plaintext_evidence: failed_attempts and locked_until are left out.      *)
Digest(d) == <<d.rows>>

NothingBeside(f) == f.journal = NoJournal /\ \A t \in Temps : f.temps[t] = NoFile
Prepares(f, s) ==
    s.phase = "prepared" \/ (s.phase = "none" /\ ~s.key /\ f.db.format = "plain")
CanTakeKey(f, s) ==
    /\ s.protected \/ s.phase = "complete" => f.db.format = "cipher"
    /\ ~s.binding => f.db.format = "plain" /\ ~s.key /\ s.phase \in {"none", "prepared"}
    /\ Prepares(f, s) =>
         /\ f.db.format = "plain" /\ NothingBeside(f)
         /\ s.phase = "prepared" => s.digest = Digest(f.db)
    /\ ~Prepares(f, s) => s.key

KeyWritesUnsynced ==
    LET prepared == [secure EXCEPT !.phase = "prepared", !.digest = Digest(disk.db)]
        keyed == [prepared EXCEPT !.binding = TRUE, !.key = TRUE]
    IN  IF ~Prepares(disk, secure) THEN <<>>
        ELSE <<prepared, [prepared EXCEPT !.binding = TRUE], keyed, [keyed EXCEPT !.phase = "key_ready"]>>
(* Its writes, each followed by a synchronisation; without any the storage *)
(* is synchronised as it is before the key is read.                        *)
KeyWrites ==
    LET prepared == [secure EXCEPT !.phase = "prepared", !.digest = Digest(disk.db)]
        bound == [prepared EXCEPT !.binding = TRUE]
        keyed == [bound EXCEPT !.key = TRUE]
    IN  IF ~Prepares(disk, secure) THEN <<secure>>
        ELSE (IF secure.phase = "none" THEN <<prepared>> ELSE <<>>)
             \o <<bound>> \o (IF secure.key THEN <<>> ELSE <<keyed>>)
             \o <<[keyed EXCEPT !.phase = "key_ready"]>>

(* _migrate_and_confirm after the migration. *)
ConfirmWrites ==
    LET protected == [secure EXCEPT !.protected = TRUE]
    IN  (IF secure.protected THEN <<>> ELSE <<protected>>)
        \o (IF secure.phase \in {"none", "complete"} THEN <<>>
            ELSE <<[protected EXCEPT !.phase = "complete"]>>)

-----------------------------------------------------------------------------
MigrationInit ==
    /\ disk \in [db : [format : {"plain"}, rows : {0}, auth : {0}, open : BOOLEAN],
                 wal : BOOLEAN, temps : {[t \in Temps |-> NoFile]}, journal : {NoJournal}]
    /\ states = {disk}
    \* A new profile, or one whose key an older version created.
    /\ secure \in [phase : {"none"}, digest : {<<>>}, binding : {FALSE}, key : {FALSE},
                  protected : {FALSE}]
                 \cup [phase : {"none"}, digest : {<<>>}, binding : {TRUE}, key : {TRUE},
                       protected : {FALSE}]
    /\ secured = secure
    /\ run = [pc |-> "down", temp |-> None, todo |-> <<>>]
    /\ recovered = FALSE
    /\ truth = [rows |-> 0, auth |-> 0]
    /\ left \in Budgets

(* recover_interrupted_turns: what it writes is committed as well. *)
Recovered ==
    /\ IF disk.db.open
       THEN /\ Commit([disk.db EXCEPT !.open = FALSE, !.rows = @ + 1])
            /\ truth' = [truth EXCEPT !.rows = @ + 1]
       ELSE UNCHANGED <<disk, states, truth>>

(* The process starts: _initialize_schema of a plain database recovers too. *)
Start ==
    /\ AtStep("down")
    /\ Goes("idle") /\ recovered' = FALSE
    /\ IF Plain THEN Recovered ELSE UNCHANGED <<disk, states, truth>>
    /\ UNCHANGED <<secure, secured, left>>

WrongPin ==
    /\ AtStep("idle") /\ left.pins > 0
    /\ Commit([disk.db EXCEPT !.auth = @ + 1])
    /\ truth' = [truth EXCEPT !.auth = @ + 1]
    /\ left' = [left EXCEPT !.pins = @ - 1]
    /\ UNCHANGED <<secure, secured, run, recovered>>

Unlock ==
    /\ AtStep("idle") /\ CanTakeKey(disk, secure)
    /\ run' = [pc |-> "key", temp |-> None, todo |-> KeyWrites]
    /\ UNCHANGED <<disk, states, secure, secured, recovered, truth, left>>

(* One write to the secure storage; the next step waits for its flush. *)
StoreWrites ==
    /\ run.pc \in {"key", "confirm"} /\ run.todo # <<>> /\ secure # Head(run.todo)
    /\ secure' = Head(run.todo)
    /\ UNCHANGED <<disk, states, secured, run, recovered, truth, left>>
StoreSyncs ==
    /\ run.pc \in {"key", "confirm"} /\ run.todo # <<>> /\ secure = Head(run.todo)
    /\ secured' = secure
    /\ run' = [run EXCEPT !.todo = Tail(@)]
    /\ UNCHANGED <<disk, states, secure, recovered, truth, left>>

-----------------------------------------------------------------------------
(* migrate_database, from one possible end to the next.                    *)

File == UNCHANGED <<secure, secured, recovered, truth, left>>

Begin ==
    /\ AtStep("key") /\ run.todo = <<>>
    /\ Goes("clean") /\ UNCHANGED <<disk, states>> /\ File

RemovableOnlyIfThere(t) == disk.temps[t] # NoFile
(* A temporary file that is gone already needs no removal. *)
Removable(t) == TRUE

CleanUpResumes ==
    LET old == disk.journal.temp
        resume == Plain /\ disk.journal.stage = "validated" /\ disk.temps[old] # NoFile
    IN  /\ AtStep("clean")
        /\ Changes(IF old = None \/ resume THEN disk ELSE [disk EXCEPT !.temps[old] = NoFile])
        /\ run' = [run EXCEPT !.pc = IF resume THEN "replace" ELSE IF Plain THEN "checkpoint" ELSE "unlink",
                              !.temp = IF resume THEN old ELSE None]
        /\ File
(* _cleanup_previous; an encrypted database only gets rid of the journal.  *)
CleanUp ==
    LET old == disk.journal.temp IN
    /\ AtStep("clean")
    /\ IF old = None THEN UNCHANGED <<disk, states>>
       ELSE Removable(old) /\ Changes([disk EXCEPT !.temps[old] = NoFile])
    /\ Goes(IF Plain THEN "checkpoint" ELSE "unlink")
    /\ File

(* The WAL is moved into the file and the file leaves WAL mode. *)
Checkpoint ==
    /\ AtStep("checkpoint")
    /\ disk' = [disk EXCEPT !.wal = FALSE]
    /\ states' = {[d EXCEPT !.wal = FALSE] : d \in states}
    /\ Goes("mkstemp") /\ File

MakeTemporary ==
    /\ AtStep("mkstemp")
    /\ \E t \in Temps :
         /\ disk.temps[t] = NoFile /\ \A u \in Temps : u < t => disk.temps[u] # NoFile
         /\ Changes([disk EXCEPT !.temps[t] = EmptyFile])
         /\ run' = [run EXCEPT !.pc = "journal", !.temp = t]
    /\ File

JournalCopying ==
    /\ AtStep("journal") /\ Journal("copying", run.temp)
    /\ Goes("copy") /\ File

CopyRows ==
    /\ AtStep("copy") /\ Fill(run.temp, Part)
    /\ Goes("commit") /\ File

(* The copy is compared with the source and committed. *)
CommitCopy ==
    /\ AtStep("commit") /\ Fill(run.temp, Whole(disk.db))
    /\ Goes("validate") /\ File

JournalValidated ==
    /\ AtStep("validate") /\ Journal("validated", run.temp)
    /\ Goes("replace") /\ File

Replace ==
    /\ AtStep("replace")
    /\ Changes([disk EXCEPT !.db = disk.temps[run.temp].db, !.temps[run.temp] = NoFile])
    /\ Goes("sync") /\ File

SyncReplaced ==
    /\ AtStep("sync") /\ SyncDirectory /\ UNCHANGED disk
    /\ Goes("unlink") /\ File

(* After verify_protected_database. *)
UnlinkJournal ==
    /\ AtStep("unlink")
    /\ Changes([disk EXCEPT !.journal = NoJournal])
    /\ Goes("sync_last") /\ File

SyncLast ==
    /\ AtStep("sync_last") /\ SyncDirectory /\ UNCHANGED disk
    /\ Goes("migrated") /\ File

RecoverOnce ==
    /\ AtStep("migrated")
    /\ IF recovered THEN UNCHANGED <<disk, states, truth>> ELSE Recovered
    /\ recovered' = TRUE
    /\ run' = [run EXCEPT !.pc = "confirm", !.todo = ConfirmWrites]
    /\ UNCHANGED <<secure, secured, left>>

Opens ==
    /\ AtStep("confirm") /\ run.todo = <<>>
    /\ Goes("open")
    /\ UNCHANGED <<disk, states, secure, secured, recovered, truth, left>>

-----------------------------------------------------------------------------
(* Use and faults.                                                         *)

(* The open session writes content; a turn may be left unfinished. *)
Change ==
    /\ AtStep("open") /\ left.changes > 0
    /\ \E turn \in BOOLEAN : Commit([disk.db EXCEPT !.rows = @ + 1, !.open = turn])
    /\ truth' = [truth EXCEPT !.rows = @ + 1]
    /\ left' = [left EXCEPT !.changes = @ - 1]
    /\ UNCHANGED <<secure, secured, run, recovered>>

Idle == run' = [pc |-> "idle", temp |-> None, todo |-> <<>>]

Lock ==
    /\ AtStep("open") /\ Idle
    /\ UNCHANGED <<disk, states, secure, secured, recovered, truth, left>>

(* A step raises; "finally" removes a temporary file without a journal.    *)
AttemptFails ==
    /\ run.pc \notin {"down", "idle", "open"} /\ left.fails > 0
    /\ Idle
    /\ left' = [left EXCEPT !.fails = @ - 1]
    /\ IF run.temp = None \/ disk.journal # NoJournal THEN UNCHANGED <<disk, states>>
       ELSE Changes([disk EXCEPT !.temps[run.temp] = NoFile])
    /\ UNCHANGED <<secure, secured, recovered, truth>>

Down == run' = [pc |-> "down", temp |-> None, todo |-> <<>>]

Killed ==
    /\ ~AtStep("down") /\ left.crashes > 0 /\ Down
    /\ left' = [left EXCEPT !.crashes = @ - 1]
    /\ UNCHANGED <<disk, states, secure, secured, recovered, truth>>

PowerLost ==
    /\ left.crashes > 0 /\ Down
    /\ left' = [left EXCEPT !.crashes = @ - 1]
    /\ disk' \in states /\ states' = {disk'}
    /\ secure' \in {secure, secured} /\ secured' = secure'
    /\ UNCHANGED <<recovered, truth>>

Works ==
    \/ Start \/ Unlock \/ StoreWrites \/ StoreSyncs \/ Begin \/ CleanUp \/ Checkpoint
    \/ MakeTemporary \/ JournalCopying \/ CopyRows \/ CommitCopy \/ JournalValidated
    \/ Replace \/ SyncReplaced \/ UnlinkJournal \/ SyncLast \/ RecoverOnce \/ Opens
MigrationNext == Works \/ WrongPin \/ Change \/ Lock \/ AttemptFails \/ Killed \/ PowerLost

MigrationSpec == MigrationInit /\ [][MigrationNext]_migrationVars
(* The user signs in again; the steps of a call follow each other. *)
MigrationFairSpec == MigrationSpec /\ WF_migrationVars(Works)

-----------------------------------------------------------------------------
(* Properties.                                                             *)

Sees(d) == [rows |-> d.rows, auth |-> d.auth]

(* Whatever a kill or a loss of power leaves, the file under the name of   *)
(* the database holds everything that was ever committed, the wrong PINs   *)
(* counted between two attempts included.                                  *)
NothingLost ==
    \A f \in states : Sees(f.db) = truth

(* Whatever they leave of the files and of the secure storage, the next    *)
(* sign-in with the right PIN is not refused: no digest of an older        *)
(* content, no flag "protected" beside a plain file, no key missing.       *)
NeverRefused ==
    \A f \in states, s \in {secure, secured} :
        \* Start recovers a plain database first.
        LET plain == f.db.format = "plain" /\ f.db.open
            started == IF plain THEN [f EXCEPT !.db.open = FALSE, !.db.rows = @ + 1] ELSE f
        IN  CanTakeKey(started, s)

(* Content outside the database file is always named by the journal that a *)
(* crash leaves, so the next attempt removes it; an encrypted database has *)
(* no plain write-ahead log beside it.                                     *)
CopiesAccounted ==
    \A f \in states :
        /\ \A t \in Temps : f.temps[t].kind \in {"part", "whole"} => f.journal.temp = t
        /\ f.db.format = "cipher" => ~f.wal

(* A crash anywhere loses nothing, locks nobody out and leaks no copy. *)
CrashSafe == NothingLost /\ NeverRefused /\ CopiesAccounted

(* Faults being finite, the database ends encrypted and marked as such,    *)
(* with neither a journal nor a copy of content beside it.                 *)
MigrationEnds ==
    <>[](/\ ~Plain /\ secure.protected /\ secured.protected /\ disk.journal = NoJournal
         /\ \A t \in Temps : disk.temps[t] \in {NoFile, EmptyFile})
=============================================================================
