-------------------------- MODULE ProfileFilesProofs --------------------------
(***************************************************************************)
(* Theorems about the two calls that change which files a profile has, and *)
(* that a crash may interrupt: ProfileDeletion here, EncryptedMigration in *)
(* the second part.                                                        *)
(*                                                                         *)
(* The deletion of a profile, for any profiles: a crash finds a            *)
(* profile whole or its deletion pending, nothing of a deleted one is left *)
(* or comes back, a worker of a deleted profile stays out of its           *)
(* successor, and a confirmation that was cancelled is not accepted.       *)
(*                                                                         *)
(* The argument is about a directory and the two states of the secure      *)
(* storage, in memory and on disk: without a renamed intent they belong to *)
(* a whole profile or to none, with one to the profile it names.  That     *)
(* must be so of the directory the process sees and, where the machine may *)
(* fail, of the one last synchronized, between any two operations.         *)
(***************************************************************************)
EXTENDS ProfileDeletion, EncryptedMigration, SequenceTheorems, TLAPS

-----------------------------------------------------------------------------
\* What a directory may be.

\* Its files are those of one profile; an intent is about that profile, and
\* SQLite's journal is gone before there is one.
FilesOK(d) ==
  /\ d.db.data = d.db.owner
  /\ d.db.owner = NoProfile => d.db = NoDatabase
  /\ d.copy \in {NoProfile, d.db.owner} /\ d.journal \in {NoProfile, d.db.owner}
  /\ Pending(d) => d.journal = NoProfile
  /\ d.main # Absent => d.db.owner \in {d.main.owner, NoProfile}
  /\ d.main = Absent /\ d.writing # Absent =>
       /\ d.db # NoDatabase
       /\ d.writing # Torn => d.writing.owner = d.db.owner

\* A storage that holds profile p's records of the aliases S.
WholeOf(h, p, S) == \A a \in Aliases : h[a] = IF a \in S THEN p ELSE NoProfile

\* One that holds no records of others.
OwnedBy(h, p) == \A a \in Aliases : h[a] \in {p, NoProfile}

\* The storages s in memory and f on disk beside directory d, for a profile set
\* up with the records S: whole and not accepted, or under the intent.
RecordsOK(d, s, f, S, done) ==
  /\ d.db = NoDatabase => s = Empty /\ f = Empty
  /\ d.main = Absent /\ d.db # NoDatabase =>
       /\ WholeOf(s, d.db.owner, S) /\ WholeOf(f, d.db.owner, S)
       /\ d.db.owner \notin done
  /\ d.main # Absent => OwnedBy(s, d.main.owner) /\ OwnedBy(f, d.main.owner)

-----------------------------------------------------------------------------
\* The invariant.

\* The directories; the one last synchronized differs in the intent at most.
DirectoryOK ==
  /\ FilesOK(dir) /\ FilesOK(synced)
  /\ synced.db = dir.db /\ synced.copy = dir.copy /\ synced.journal = dir.journal

\* A death of the process and a failure of the machine do not both occur.
OneKindOfCrash == crashes # {"process", "power"}

\* The records beside them; only "sync" and "settle" are ahead of the disk.
StorageOK ==
  /\ RecordsOK(dir, store, flushed, had, accepted)
  /\ "power" \in crashes =>
       /\ RecordsOK(synced, store, flushed, had, accepted)
       /\ op.at \notin {"sync", "settle"} => synced.main = dir.main

\* How far a call has come: until its intent is written nothing is pending, and
\* from then on the main intent names its profile.
CallOK ==
  /\ op.kind = "none" => op = NoOp
  /\ op.kind = "capture" => op.at = "snapshot" /\ ~Pending(dir)
  /\ op.kind = "accept" =>
       /\ op.at \in {"wait", "snapshot", "prepared", "create", "fill", "replace", "sync"}
       /\ op.at \in {"wait", "snapshot", "prepared", "create"} => ~Pending(dir)
       /\ op.at \in {"fill", "replace"} => dir.main = Absent
       /\ ~Awaiting => /\ op.intent # Absent /\ op.intent.owner = dir.db.owner
                       /\ ~fresh /\ dir.journal = NoProfile /\ dir.db # NoDatabase
  /\ op.kind = "finish" =>
       /\ op.at \notin {"none", "wait", "snapshot", "prepared"}
       /\ Pending(dir)
       /\ op.at # "begin" =>
            /\ op.intent # Absent /\ dir.main # Absent /\ dir.main.owner = op.intent.owner
       /\ op.at \notin {"begin", "settle", "validate"} => ~fresh
       /\ op.at \in {"database", "intent"} => dir.copy = NoProfile
       /\ op.at = "intent" => dir.db = NoDatabase
  /\ op.at = "fill" => dir.writing = Torn
  /\ op.at = "replace" => dir.writing = op.intent
  /\ op.at = "sync" => dir.main = op.intent
  /\ op.at \notin {"none", "begin", "fill", "replace"} => dir.writing = Absent

\* How far the removal has come: what the storage says is on disk once a removal
\* was written through, and the files go after the records.
RemovalOK ==
  op.kind = "finish" =>
    /\ op.at \in {"check", "create", "fill", "replace", "sync", "files"} => flushed = store
    /\ op.at \in {"copy", "database", "intent"} => store = Empty /\ flushed = Empty

\* The screens of a running profile; what is off has no call and no worker.
ScreenOK ==
  /\ screen \in {"use", "dialog"} =>
       ~Pending(dir) /\ dir.db # NoDatabase /\ op.kind \in {"none", "capture"}
  /\ screen = "off" => op = NoOp /\ worker = NoWorker /\ ~fresh
  /\ op.kind = "capture" => dir.db # NoDatabase

\* A worker is of the present profile, or refused; it writes while nothing is
\* pending, and leaves a journal only to a process that died.
WorkerOK ==
  /\ fresh => dir.db # NoDatabase
  /\ worker.current => fresh /\ worker.at # "none" /\ worker.owner = dir.db.owner
  /\ worker.at = "writing" =>
       /\ ~Pending(dir) /\ worker.owner = dir.db.owner /\ dir.db # NoDatabase
       /\ Awaiting
  /\ dir.journal # NoProfile => worker.at = "writing" \/ screen = "off"

\* The inductive invariant; the records are safe from one kind of crash.
DeletionInv ==
  /\ TypeOK /\ DirectoryOK /\ CallOK /\ ScreenOK /\ WorkerOK /\ CancelHolds
  /\ OneKindOfCrash => StorageOK /\ RemovalOK

-----------------------------------------------------------------------------
\* Values.

\* The number of the aliases.
LEMMA FiveAliases == Len(Order) = 5
  BY DEF Order

\* What the empty values are.
LEMMA Nothing ==
  /\ NoOp.kind = "none" /\ NoOp.at = "none" /\ NoOp.i = 0 /\ NoOp.intent = Absent
  /\ NoWorker.at = "none" /\ NoWorker.owner = NoProfile /\ NoWorker.current = FALSE
  /\ \A a \in Aliases : Empty[a] = NoProfile
  /\ NoDatabase.owner = NoProfile /\ NoDatabase.data = NoProfile /\ NoDatabase.schema = 0
  BY DEF NoOp, NoWorker, Empty, NoDatabase

\* The types of the empty values.
LEMMA NothingTyped ==
  /\ NoWorker \in [at : {"none", "queued", "writing"},
                   owner : Profiles \cup {NoProfile}, current : BOOLEAN]
  /\ Empty \in Holder /\ NoDatabase \in Database
  BY DEF NoWorker, Empty, Holder, NoDatabase, Database

\* The fields of a directory.
LEMMA DirectoryFields ==
  ASSUME NEW d \in Directory
  PROVE  /\ d.db \in Database /\ d.db.owner \in Profiles \cup {NoProfile}
         /\ d.db.data \in Profiles \cup {NoProfile} /\ d.db.schema \in {0, 6, 7}
         /\ d.journal \in Profiles \cup {NoProfile} /\ d.copy \in Profiles \cup {NoProfile}
         /\ d.main \in Intent \cup {Absent} /\ d.writing \in Intent \cup {Absent, Torn}
  BY DEF Directory, Database

\* A directory with other values in one of its fields.
LEMMA DirectoryChanged ==
  ASSUME NEW d \in Directory
  PROVE  /\ \A w \in Intent \cup {Absent, Torn} : [d EXCEPT !.writing = w] \in Directory
         /\ \A m \in Intent \cup {Absent}, w \in Intent \cup {Absent, Torn} :
              [d EXCEPT !.main = m, !.writing = w] \in Directory
         /\ \A m \in Intent \cup {Absent} : [d EXCEPT !.main = m] \in Directory
         /\ \A c \in Profiles \cup {NoProfile} : [d EXCEPT !.copy = c] \in Directory
         /\ \A j \in Profiles \cup {NoProfile} : [d EXCEPT !.journal = j] \in Directory
         /\ \A b \in Database : [d EXCEPT !.db = b] \in Directory
  BY DEF Directory

\* What a call may be.
Calls == [kind : {"none", "capture", "accept", "finish"}, at : Labels,
          i : 0 .. Len(Order), intent : Intent \cup {Absent}]

\* A call with other values in some of its fields.
LEMMA CallChanged ==
  ASSUME NEW o \in Calls, NEW at \in Labels
  PROVE  /\ [o EXCEPT !.at = at] \in Calls
         /\ \A i \in 0 .. Len(Order) : [o EXCEPT !.at = at, !.i = i] \in Calls
         /\ \A m \in Intent \cup {Absent} : [o EXCEPT !.at = at, !.intent = m] \in Calls
         /\ \A i \in 0 .. Len(Order) :
              o.intent # Absent => [o EXCEPT !.at = at, !.intent.removed = i] \in Calls
  BY DEF Calls, Intent

\* No call, and a new one.
LEMMA CallBegun ==
  /\ NoOp \in Calls
  /\ \A kind \in {"capture", "accept", "finish"}, at \in Labels :
       [NoOp EXCEPT !.kind = kind, !.at = at] \in Calls
<1>1. NoOp \in Calls
  BY FiveAliases DEF NoOp, Calls, Labels
<1> QED
  BY <1>1 DEF Calls

\* The next alias, and what the moves of a call may be.
LEMMA NextAliasTyped ==
  ASSUME op \in Calls
  PROVE  NextAlias \in Calls
<1>1. op.i \in 0 .. 5
  BY FiveAliases DEF Calls
<1>2. CASE op.i < 5
  <2>1. op.i + 1 \in 0 .. Len(Order)
    BY <1>1, <1>2, FiveAliases
  <2>2. [op EXCEPT !.at = "remove", !.i = op.i + 1] \in Calls
    BY <2>1, CallChanged DEF Labels
  <2> QED
    BY <2>2, <1>2, FiveAliases DEF NextAlias
<1>3. CASE ~(op.i < 5)
  BY <1>3, FiveAliases, CallChanged DEF NextAlias, Labels
<1> QED
  BY <1>2, <1>3

\* The types by name.
LEMMA TypeFields ==
  ASSUME TypeOK
  PROVE  /\ op \in Calls /\ dir \in Directory /\ synced \in Directory
         /\ store \in Holder /\ flushed \in Holder
  BY DEF TypeOK, Calls

\* Whose call it is, by the place it has come to.
LEMMA CallPlace ==
  ASSUME TypeOK, CallOK
  PROVE  /\ op.at \in {"begin", "settle", "validate", "remove", "durable", "check",
                       "files", "copy", "database", "intent"} => op.kind = "finish"
         /\ op.at \in {"create", "fill", "replace", "sync"} =>
              op.kind \in {"accept", "finish"}
         /\ op.at \in {"create", "fill", "replace", "sync", "settle", "validate", "remove",
                       "durable", "check", "files", "copy", "database", "intent"} =>
              op.intent \in Intent
<1>1. op.kind \in {"none", "capture", "accept", "finish"} /\ op.intent \in Intent \cup {Absent}
  BY TypeFields DEF Calls
<1>2. CASE op.kind = "none"
  BY <1>2, Nothing DEF CallOK
<1>3. CASE op.kind = "capture"
  BY <1>3 DEF CallOK
<1>4. CASE op.kind = "accept"
  BY <1>1, <1>4 DEF CallOK, Awaiting
<1>5. CASE op.kind = "finish"
  BY <1>1, <1>5 DEF CallOK
<1> QED
  BY <1>1, <1>2, <1>3, <1>4, <1>5

\* A directory with the database of a new profile, with one that was set up
\* further, and with one that a worker wrote.
LEMMA DatabaseChanged ==
  ASSUME NEW d \in Directory
  PROVE  /\ \A p \in Profiles :
              [d EXCEPT !.db = [owner |-> p, data |-> p, schema |-> 6]] \in Directory
         /\ \A n \in {6, 7}, c \in Profiles \cup {NoProfile} :
              [d EXCEPT !.db.schema = n, !.copy = c] \in Directory
         /\ \A p \in Profiles \cup {NoProfile} :
              [d EXCEPT !.journal = NoProfile, !.db.data = p] \in Directory
<1>1. \A p \in Profiles :
        [d EXCEPT !.db = [owner |-> p, data |-> p, schema |-> 6]] \in Directory
  BY DirectoryChanged DEF Database
<1>2. \A n \in {6, 7}, c \in Profiles \cup {NoProfile} :
        [d EXCEPT !.db.schema = n, !.copy = c] \in Directory
  BY DirectoryFields DEF Directory, Database
<1>3. \A p \in Profiles \cup {NoProfile} :
        [d EXCEPT !.journal = NoProfile, !.db.data = p] \in Directory
  BY DirectoryFields DEF Directory, Database
<1> QED
  BY <1>1, <1>2, <1>3

\* A call that has moved on.
LEMMA CallFields ==
  ASSUME NEW o \in Calls
  PROVE  /\ \A at : /\ [o EXCEPT !.at = at].at = at
                    /\ [o EXCEPT !.at = at].kind = o.kind
                    /\ [o EXCEPT !.at = at].i = o.i
                    /\ [o EXCEPT !.at = at].intent = o.intent
         /\ \A at, m : /\ [o EXCEPT !.at = at, !.intent = m].at = at
                       /\ [o EXCEPT !.at = at, !.intent = m].kind = o.kind
                       /\ [o EXCEPT !.at = at, !.intent = m].i = o.i
                       /\ [o EXCEPT !.at = at, !.intent = m].intent = m
         /\ \A at, i : o.intent \in Intent =>
              /\ [o EXCEPT !.at = at, !.intent.removed = i].at = at
              /\ [o EXCEPT !.at = at, !.intent.removed = i].kind = o.kind
              /\ [o EXCEPT !.at = at, !.intent.removed = i].i = o.i
              /\ [o EXCEPT !.at = at, !.intent.removed = i].intent.owner = o.intent.owner
  BY DEF Calls, Intent

\* The next alias, or the files after the last.
LEMMA NextAliasFields ==
  ASSUME op \in Calls
  PROVE  /\ NextAlias.kind = op.kind /\ NextAlias.intent = op.intent
         /\ NextAlias.at \in {"remove", "files"}
  BY DEF NextAlias, Calls

\* Nothing is withdrawn but by a Boolean.
LEMMA CancelledTyped ==
  ASSUME TypeOK, Cancelled
  PROVE  withdrawn' \in BOOLEAN
<1>1. CASE screen = "dialog" \/ op.kind \in {"capture", "accept"}
  <2>1. withdrawn' = (op.kind \in {"capture", "accept"})
    BY <1>1 DEF Cancelled
  <2>2. CASE op.kind \in {"capture", "accept"}
    BY <2>1, <2>2
  <2>3. CASE op.kind \notin {"capture", "accept"}
    BY <2>1, <2>3
  <2> QED
    BY <2>2, <2>3
<1>2. CASE ~(screen = "dialog" \/ op.kind \in {"capture", "accept"})
  BY <1>2 DEF Cancelled, TypeOK
<1> QED
  BY <1>1, <1>2

-----------------------------------------------------------------------------
\* What each action leaves: the types, the directories, the call, the screen and
\* the worker, a cancellation, and under one kind of crash the records.

\* A start with an intent only begins a call of finish.
LEMMA ResumeKeeps ==
  ASSUME DeletionInv, Resume
  PROVE  DeletionInv'
<1> USE DEF Resume, Launching, Pending, files, storage, ghosts
<1> TypeOK /\ DirectoryOK /\ CallOK /\ ScreenOK /\ WorkerOK /\ CancelHolds
  BY DEF DeletionInv
<1>1. TypeOK'
  <2>1. op' \in Calls
    BY CallBegun DEF Labels
  <2> QED
    BY <2>1 DEF TypeOK, Calls, Prefs
<1>2. DirectoryOK' /\ CallOK' /\ ScreenOK' /\ WorkerOK' /\ CancelHolds'
  BY DEF DirectoryOK, CallOK, ScreenOK, WorkerOK, CancelHolds, FilesOK
<1>3. ASSUME OneKindOfCrash, StorageOK, RemovalOK
      PROVE  StorageOK' /\ RemovalOK'
  BY <1>3, Nothing DEF StorageOK, RemovalOK
<1> QED
  BY <1>1, <1>2, <1>3 DEF DeletionInv, OneKindOfCrash

\* SQLite rolls the journal back; nothing else is different.
LEMMA OpenProfileKeeps ==
  ASSUME DeletionInv, OpenProfile
  PROVE  DeletionInv'
<1> USE DEF OpenProfile, Launching, Pending, LockFree, Composed, storage, ghosts
<1> TypeOK /\ DirectoryOK /\ CallOK /\ ScreenOK /\ WorkerOK /\ CancelHolds
  BY DEF DeletionInv
<1>1. TypeOK'
  <2>1. dir' \in Directory /\ synced' \in Directory
    BY TypeFields, DirectoryChanged
  <2>2. fresh' \in BOOLEAN /\ withdrawn' \in BOOLEAN /\ onboarding' \in BOOLEAN
    BY DEF TypeOK, Prefs
  <2> QED
    BY <2>1, <2>2 DEF TypeOK
<1>2. DirectoryOK' /\ WorkerOK' /\ CancelHolds'
  BY DEF DirectoryOK, WorkerOK, CancelHolds, FilesOK
<1>3. CallOK' /\ ScreenOK'
  BY Nothing DEF CallOK, ScreenOK
<1>4. ASSUME OneKindOfCrash, StorageOK, RemovalOK
      PROVE  StorageOK' /\ RemovalOK'
  BY <1>4 DEF StorageOK, RemovalOK, RecordsOK
<1> QED
  BY <1>1, <1>2, <1>3, <1>4 DEF DeletionInv, OneKindOfCrash

\* Without a database there is no record, so that a new profile has the storage
\* to itself.
LEMMA CreateProfileKeeps ==
  ASSUME DeletionInv, CreateProfile
  PROVE  DeletionInv'
<1> USE DEF CreateProfile, Launching, Pending, Composed, storage
<1> TypeOK /\ DirectoryOK /\ CallOK /\ ScreenOK /\ WorkerOK /\ CancelHolds
  BY DEF DeletionInv
<1>1. TypeOK'
  <2>1. PICK p \in Profiles :
          /\ dir' = [dir EXCEPT !.db = [owner |-> p, data |-> p, schema |-> 6]]
          /\ accepted' = accepted \ {p}
    OBVIOUS
  <2>2. dir' \in Directory /\ synced' \in Directory
    BY <2>1, TypeFields, DatabaseChanged
  <2>3. fresh' \in BOOLEAN /\ withdrawn' \in BOOLEAN /\ onboarding' \in BOOLEAN
    BY DEF TypeOK, Prefs
  <2>4. had' \subseteq Aliases /\ accepted' \subseteq Profiles
    BY <2>1 DEF TypeOK
  <2> QED
    BY <2>2, <2>3, <2>4 DEF TypeOK
<1>2. DirectoryOK' /\ ScreenOK' /\ WorkerOK'
  BY Nothing DEF DirectoryOK, ScreenOK, WorkerOK, FilesOK, Unused
<1>3. CallOK' /\ CancelHolds'
  BY DEF CallOK, CancelHolds, Awaiting
<1>4. ASSUME OneKindOfCrash, StorageOK, RemovalOK
      PROVE  StorageOK' /\ RemovalOK'
  BY <1>4, Nothing DEF StorageOK, RemovalOK, RecordsOK, WholeOf
<1> QED
  BY <1>1, <1>2, <1>3, <1>4 DEF DeletionInv, OneKindOfCrash

\* The first await of accept is over.
LEMMA AcceptBeginsKeeps ==
  ASSUME DeletionInv, AcceptBegins
  PROVE  DeletionInv'
<1> TypeOK /\ DirectoryOK /\ CallOK /\ ScreenOK /\ WorkerOK /\ CancelHolds
  BY DEF DeletionInv
<1>1. UNCHANGED <<platform, crashes, synced, prefs, shared, store, flushed, scope,
                  withdrawn, fresh, onboarding, worker, had, accepted>>
  BY DEF AcceptBegins, storage, ghosts
<1>2. op.kind = "accept" /\ op.at = "wait" /\ op \in Calls /\ ~Pending(dir)
  BY TypeFields DEF AcceptBegins, At, CallOK
<1>3. CASE withdrawn
  <2>1. op' = NoOp /\ dir' = dir /\ screen' \in {screen, "error"}
    BY <1>2, <1>3 DEF AcceptBegins, Raises
  <2>2. TypeOK'
    <3>1. op' \in Calls
      BY <2>1, CallBegun
    <3> QED
      BY <1>1, <2>1, <3>1 DEF TypeOK, Calls
  <2>3. DirectoryOK' /\ CallOK' /\ ScreenOK' /\ WorkerOK' /\ CancelHolds'
    BY <1>1, <1>2, <2>1, Nothing
       DEF DirectoryOK, CallOK, ScreenOK, WorkerOK, CancelHolds, Pending, Awaiting
  <2>4. StorageOK => StorageOK'
    BY <1>1, <1>2, <2>1 DEF StorageOK
  <2>5. RemovalOK'
    BY <2>1, Nothing DEF RemovalOK
  <2> QED
    BY <1>1, <2>2, <2>3, <2>4, <2>5 DEF DeletionInv, OneKindOfCrash
<1>4. CASE ~withdrawn
  <2>1. op' = [op EXCEPT !.at = "snapshot"] /\ UNCHANGED <<screen, dir>>
    BY <1>4 DEF AcceptBegins, Go
  <2>2. op' \in Calls /\ op'.kind = "accept" /\ op'.at = "snapshot"
    BY <1>2, <2>1, CallChanged, CallFields DEF Labels
  <2>3. TypeOK'
    BY <1>1, <2>1, <2>2 DEF TypeOK, Calls
  <2>4. DirectoryOK' /\ CallOK' /\ ScreenOK' /\ CancelHolds'
    BY <1>1, <1>2, <2>1, <2>2, Nothing
       DEF DirectoryOK, CallOK, ScreenOK, CancelHolds, Pending, Awaiting
  <2>5. WorkerOK'
    BY <1>1, <1>2, <2>1, <2>2 DEF WorkerOK, Pending, Awaiting
  <2>6. StorageOK => StorageOK'
    BY <1>1, <1>2, <2>1, <2>2 DEF StorageOK
  <2>7. RemovalOK'
    BY <2>2 DEF RemovalOK
  <2> QED
    BY <1>1, <2>3, <2>4, <2>5, <2>6, <2>7 DEF DeletionInv, OneKindOfCrash
<1> QED
  BY <1>3, <1>4

\* The rights of the directory are no part of the invariant.
LEMMA PrepareDirectoryKeeps ==
  ASSUME DeletionInv, PrepareDirectory
  PROVE  DeletionInv'
<1> USE DEF PrepareDirectory, At, LockFree, Confirmed, Go, storage, ghosts
<1> TypeOK /\ DirectoryOK /\ CallOK /\ ScreenOK /\ WorkerOK /\ CancelHolds
  BY DEF DeletionInv
<1>1. TypeOK'
  <2>1. op' \in Calls
    BY TypeFields, CallChanged DEF Labels
  <2>2. shared' \in BOOLEAN
    OBVIOUS
  <2> QED
    BY <2>1, <2>2 DEF TypeOK, Calls, Prefs
<1>2. DirectoryOK' /\ CallOK' /\ WorkerOK' /\ CancelHolds'
  BY DEF DirectoryOK, CallOK, WorkerOK, CancelHolds, Awaiting
<1>3. ScreenOK'
  BY Nothing DEF ScreenOK
<1>4. ASSUME OneKindOfCrash, StorageOK, RemovalOK
      PROVE  StorageOK' /\ RemovalOK'
  BY <1>4 DEF StorageOK, RemovalOK
<1> QED
  BY <1>1, <1>2, <1>3, <1>4 DEF DeletionInv, OneKindOfCrash

\* The last check: nobody writes, nothing is withdrawn, and from here on the
\* composition is retired.
LEMMA AcceptSnapshotKeeps ==
  ASSUME DeletionInv, AcceptSnapshot
  PROVE  DeletionInv'
<1> TypeOK /\ DirectoryOK /\ CallOK /\ ScreenOK /\ WorkerOK /\ CancelHolds
  BY DEF DeletionInv
<1>1. UNCHANGED <<platform, crashes, dir, synced, shared, store, flushed, screen, scope,
                  withdrawn, onboarding, had, accepted>>
  BY DEF AcceptSnapshot, storage, ghosts
<1>2. /\ op.kind = "accept" /\ op.at \in {"snapshot", "prepared"} /\ op \in Calls
      /\ worker.at # "writing" /\ ~withdrawn /\ dir.db.owner # NoProfile
      /\ ~fresh' /\ worker' = [worker EXCEPT !.current = FALSE]
      /\ prefs' = [prefs EXCEPT !.captured = prefs.exists]
  BY TypeFields DEF AcceptSnapshot, At, LockFree, Confirmed, CanSnapshot, Retire
<1>3. dir.db.owner \in Profiles /\ dir.db # NoDatabase
  BY <1>2, TypeFields, DirectoryFields, Nothing
<1>4. PICK m \in Intent : /\ op' = [op EXCEPT !.at = "create", !.intent = m]
                          /\ m.owner = dir.db.owner
  <2>1. [owner |-> dir.db.owner, copy |-> dir.copy # NoProfile, prefs |-> prefs.exists,
         removed |-> 0] \in Intent
    BY <1>3, FiveAliases DEF Intent, TypeOK, Prefs
  <2> QED
    BY <2>1 DEF AcceptSnapshot
<1>5. /\ op' \in Calls /\ op'.kind = "accept" /\ op'.at = "create" /\ op'.intent = m
      /\ m # Absent
  <2>1. op' \in Calls
    BY <1>2, <1>4, CallChanged DEF Labels
  <2>2. op'.kind = "accept" /\ op'.at = "create" /\ op'.intent = m
    BY <1>2, <1>4 DEF Calls
  <2> QED
    BY <2>1, <2>2, FilesAssumption
<1>6. /\ worker' \in [at : {"none", "queued", "writing"},
                      owner : Profiles \cup {NoProfile}, current : BOOLEAN]
      /\ worker'.at = worker.at /\ worker'.owner = worker.owner /\ ~worker'.current
  BY <1>2 DEF TypeOK
<1>7. ~Pending(dir) /\ dir.journal = NoProfile
  BY <1>2, Nothing DEF CallOK, WorkerOK, ScreenOK
<1>8. TypeOK'
  <2>1. prefs' \in Prefs /\ fresh' \in BOOLEAN
    BY <1>2 DEF TypeOK, Prefs, AcceptSnapshot, Retire
  <2> QED
    BY <1>1, <1>5, <1>6, <2>1 DEF TypeOK, Calls
<1>9. DirectoryOK'
  BY <1>1 DEF DirectoryOK
<1>10. CallOK'
  BY <1>1, <1>2, <1>3, <1>4, <1>5, <1>7 DEF CallOK, Pending, Awaiting
<1>11. ScreenOK' /\ CancelHolds'
  BY <1>1, <1>2, <1>5, Nothing DEF ScreenOK, CancelHolds, Pending
<1>12. WorkerOK'
  BY <1>1, <1>2, <1>6, <1>7 DEF WorkerOK
<1>13. StorageOK => StorageOK'
  BY <1>1, <1>2, <1>5 DEF StorageOK
<1>14. RemovalOK'
  BY <1>5 DEF RemovalOK
<1> QED
  BY <1>1, <1>8, <1>9, <1>10, <1>11, <1>12, <1>13, <1>14 DEF DeletionInv, OneKindOfCrash

\* A refused acceptance leaves everything as it was.
LEMMA AcceptRefusedKeeps ==
  ASSUME DeletionInv, AcceptRefused
  PROVE  DeletionInv'
<1> USE DEF AcceptRefused, LockFree, Confirmed, Raises, WithoutTemporary, storage, ghosts
<1> TypeOK /\ DirectoryOK /\ CallOK /\ ScreenOK /\ WorkerOK /\ CancelHolds
  BY DEF DeletionInv
<1>1. TypeOK'
  <2>1. op' \in Calls
    BY CallBegun
  <2>2. dir' = dir
    OBVIOUS
  <2> QED
    BY <2>1, <2>2 DEF TypeOK, Calls, Prefs
<1>2. DirectoryOK' /\ WorkerOK'
  BY DEF DirectoryOK, WorkerOK
<1>3. CallOK' /\ ScreenOK' /\ CancelHolds'
  BY Nothing DEF CallOK, ScreenOK, CancelHolds
<1>4. ASSUME OneKindOfCrash, StorageOK, RemovalOK
      PROVE  StorageOK' /\ RemovalOK'
  BY <1>4, Nothing DEF StorageOK, RemovalOK
<1> QED
  BY <1>1, <1>2, <1>3, <1>4 DEF DeletionInv, OneKindOfCrash

\* A torn ".write" file, of which nothing is read.
LEMMA CreateTemporaryKeeps ==
  ASSUME DeletionInv, CreateTemporary
  PROVE  DeletionInv'
<1> USE DEF CreateTemporary, Writes, Go, storage, ghosts
<1> TypeOK /\ DirectoryOK /\ CallOK /\ ScreenOK /\ WorkerOK /\ CancelHolds
  BY DEF DeletionInv
<1>1. TypeOK'
  <2>1. op' \in Calls
    BY TypeFields, CallChanged DEF Labels
  <2>2. dir' \in Directory
    BY TypeFields, DirectoryChanged
  <2> QED
    BY <2>1, <2>2 DEF TypeOK, Calls, Prefs
<1>2. DirectoryOK'
  <2>1. /\ dir'.db = dir.db /\ dir'.copy = dir.copy /\ dir'.journal = dir.journal
        /\ dir'.main = dir.main /\ dir'.writing = Torn
    BY TypeFields DEF Directory
  <2>2. dir.journal = NoProfile
    BY CallPlace DEF CallOK, Awaiting, DirectoryOK, FilesOK
  <2>3. dir.main = Absent => dir.db # NoDatabase
    BY CallPlace DEF CallOK, Awaiting
  <2> QED
    BY <2>1, <2>2, <2>3 DEF DirectoryOK, FilesOK, Pending
<1>3. CallOK'
  BY CallPlace DEF CallOK, Pending, Awaiting
<1>4. ScreenOK'
  BY Nothing DEF CallOK, ScreenOK
<1>5. WorkerOK' /\ CancelHolds'
  BY DEF WorkerOK, CancelHolds, Awaiting
<1>6. ASSUME OneKindOfCrash, StorageOK, RemovalOK
      PROVE  StorageOK' /\ RemovalOK'
  BY <1>6 DEF StorageOK, RemovalOK, RecordsOK
<1> QED
  BY <1>1, <1>2, <1>3, <1>4, <1>5, <1>6 DEF DeletionInv, OneKindOfCrash

\* A whole one is of the present profile.
LEMMA FillTemporaryKeeps ==
  ASSUME DeletionInv, FillTemporary
  PROVE  DeletionInv'
<1> USE DEF FillTemporary, Writes, Go, storage, ghosts
<1> TypeOK /\ DirectoryOK /\ CallOK /\ ScreenOK /\ WorkerOK /\ CancelHolds
  BY DEF DeletionInv
<1>1. TypeOK'
  <2>1. op' \in Calls
    BY TypeFields, CallChanged DEF Labels
  <2>2. dir' \in Directory
    BY TypeFields, CallPlace, DirectoryChanged
  <2> QED
    BY <2>1, <2>2 DEF TypeOK, Calls, Prefs
<1>2. DirectoryOK'
  <2>1. /\ dir'.db = dir.db /\ dir'.copy = dir.copy /\ dir'.journal = dir.journal
        /\ dir'.main = dir.main /\ dir'.writing = op.intent
    BY TypeFields DEF Directory
  <2>2. dir.journal = NoProfile
    BY CallPlace DEF CallOK, Awaiting, DirectoryOK, FilesOK
  <2>3. dir.main = Absent => dir.db # NoDatabase /\ op.intent.owner = dir.db.owner
    BY CallPlace DEF CallOK, Awaiting
  <2> QED
    BY <2>1, <2>2, <2>3 DEF DirectoryOK, FilesOK, Pending
<1>3. CallOK'
  BY CallPlace DEF CallOK, Pending, Awaiting
<1>4. ScreenOK'
  BY Nothing DEF CallOK, ScreenOK
<1>5. WorkerOK' /\ CancelHolds'
  BY DEF WorkerOK, CancelHolds, Awaiting
<1>6. ASSUME OneKindOfCrash, StorageOK, RemovalOK
      PROVE  StorageOK' /\ RemovalOK'
  BY <1>6 DEF StorageOK, RemovalOK, RecordsOK
<1> QED
  BY <1>1, <1>2, <1>3, <1>4, <1>5, <1>6 DEF DeletionInv, OneKindOfCrash

\* With the rename the records are under the intent.
LEMMA ReplaceIntentKeeps ==
  ASSUME DeletionInv, ReplaceIntent
  PROVE  DeletionInv'
<1> USE DEF ReplaceIntent, Writes, Go, storage, ghosts
<1> TypeOK /\ DirectoryOK /\ CallOK /\ ScreenOK /\ WorkerOK /\ CancelHolds
  BY DEF DeletionInv
<1>1. TypeOK'
  <2>1. op' \in Calls
    BY TypeFields, CallChanged DEF Labels
  <2>2. dir' \in Directory
    BY TypeFields, CallPlace, DirectoryChanged
  <2> QED
    BY <2>1, <2>2 DEF TypeOK, Calls, Prefs
<1>2. DirectoryOK'
  BY FilesAssumption, CallPlace DEF DirectoryOK, CallOK, FilesOK, Pending
<1>3. CallOK'
  BY CallPlace DEF CallOK, Pending, Awaiting
<1>4. ScreenOK'
  BY Nothing DEF CallOK, ScreenOK
<1>5. WorkerOK' /\ CancelHolds'
  BY DEF WorkerOK, CancelHolds, Awaiting
<1>6. ASSUME OneKindOfCrash, StorageOK, RemovalOK
      PROVE  StorageOK' /\ RemovalOK'
  BY <1>6, FilesAssumption, CallPlace DEF DirectoryOK, CallOK, StorageOK, RemovalOK,
     FilesOK, RecordsOK, WholeOf, OwnedBy
<1> QED
  BY <1>1, <1>2, <1>3, <1>4, <1>5, <1>6 DEF DeletionInv, OneKindOfCrash

\* The synchronized directory is the present one, and finish goes on.
LEMMA SyncIntentKeeps ==
  ASSUME DeletionInv, SyncIntent
  PROVE  DeletionInv'
<1> TypeOK /\ DirectoryOK /\ CallOK /\ ScreenOK /\ WorkerOK /\ CancelHolds
  BY DEF DeletionInv
<1>1. /\ op.at = "sync" /\ op.kind \in {"accept", "finish"} /\ op.intent \in Intent
      /\ op \in Calls
  BY CallPlace, TypeFields DEF SyncIntent
<1>2. /\ UNCHANGED <<platform, crashes, dir, prefs, shared, store, flushed, screen,
                     withdrawn, fresh, onboarding, worker, had>>
      /\ synced' = dir
  BY DEF SyncIntent, Durable, storage
<1>3. /\ op' \in Calls /\ op'.kind = "finish"
      /\ op.kind = "accept" => op'.at = "begin"
      /\ op.kind = "finish" => op'.at \in {"remove", "files"} /\ op'.intent = op.intent
  <2>1. CASE op.kind = "accept"
    <3>1. op' = [NoOp EXCEPT !.kind = "finish", !.at = "begin"]
      BY <2>1 DEF SyncIntent
    <3>2. op' \in Calls /\ op'.kind = "finish" /\ op'.at = "begin"
      BY <3>1, CallBegun DEF Labels, NoOp
    <3> QED
      BY <2>1, <3>2
  <2>2. CASE op.kind = "finish"
    <3>1. op' = NextAlias
      BY <2>2 DEF SyncIntent
    <3> QED
      BY <1>1, <2>2, <3>1, NextAliasTyped, NextAliasFields
  <2> QED
    BY <1>1, <2>1, <2>2
<1>4. /\ scope' \in {scope, NoProfile}
      /\ accepted' = IF op.kind = "accept" THEN accepted \cup {op.intent.owner} ELSE accepted
  BY <1>1 DEF SyncIntent
<1>5. dir.main = op.intent /\ dir.main # Absent /\ dir.writing = Absent
  BY <1>1, FilesAssumption DEF CallOK
<1>6. TypeOK'
  BY <1>1, <1>2, <1>3, <1>4 DEF TypeOK, Calls, Intent
<1>7. DirectoryOK'
  BY <1>2 DEF DirectoryOK
<1>8. CallOK'
  BY <1>1, <1>2, <1>3, <1>5 DEF CallOK, Pending, Awaiting
<1>9. ScreenOK' /\ WorkerOK' /\ CancelHolds'
  <2>1. ScreenOK'
    BY <1>1, <1>2, <1>3, Nothing DEF ScreenOK
  <2>2. WorkerOK'
    BY <1>1, <1>2, <1>5 DEF WorkerOK, Pending, Awaiting
  <2>3. CancelHolds'
    BY <1>3 DEF CancelHolds
  <2> QED
    BY <2>1, <2>2, <2>3
<1>10. ASSUME OneKindOfCrash, StorageOK, RemovalOK
       PROVE  StorageOK' /\ RemovalOK'
  <2>1. RecordsOK(dir, store, flushed, had, accepted)'
    BY <1>2, <1>5, <1>10 DEF StorageOK, RecordsOK
  <2>2. StorageOK'
    BY <2>1, <1>2, <1>3 DEF StorageOK
  <2>3. RemovalOK'
    BY <1>1, <1>2, <1>3, <1>10 DEF RemovalOK
  <2> QED
    BY <2>2, <2>3
<1> QED
  BY <1>2, <1>6, <1>7, <1>8, <1>9, <1>10 DEF DeletionInv, OneKindOfCrash

\* A promoted intent was written for the profile whose database is there.
LEMMA FinishBeginsKeeps ==
  ASSUME DeletionInv, FinishBegins
  PROVE  DeletionInv'
<1> TypeOK /\ DirectoryOK /\ CallOK /\ ScreenOK /\ WorkerOK /\ CancelHolds
  BY DEF DeletionInv
<1>1. /\ op.at = "begin" /\ op.kind = "finish" /\ op \in Calls
      /\ dir \in Directory /\ dir.main \in Intent \cup {Absent}
      /\ dir.writing \in Intent \cup {Absent} /\ Pending(dir)
  BY CallPlace, TypeFields, DirectoryFields DEF FinishBegins, CallOK
<1>2. UNCHANGED <<platform, crashes, synced, prefs, shared, store, flushed, screen, scope,
                  withdrawn, fresh, onboarding, worker, had, accepted>>
  BY DEF FinishBegins, storage, ghosts
<1>3. PICK m \in Intent, at \in {"validate", "settle"} :
        /\ dir' \in Directory /\ dir'.db = dir.db /\ dir'.copy = dir.copy
        /\ dir'.journal = dir.journal /\ dir'.main = m /\ dir'.writing = Absent
        /\ op' = [op EXCEPT !.at = at, !.intent = m]
        /\ dir.main # Absent => m = dir.main
        /\ dir.main = Absent => m = dir.writing
        /\ at = "validate" => dir' = dir
  <2>1. CASE dir.writing = Absent
    BY <1>1, <2>1 DEF FinishBegins, Pending
  <2>2. CASE dir.writing # Absent
    <3>1. PICK m \in Intent :
            /\ dir' = [dir EXCEPT !.main = m, !.writing = Absent]
            /\ op' = [op EXCEPT !.at = "settle", !.intent = m]
            /\ m = IF dir.main = Absent THEN dir.writing ELSE dir.main
      BY <1>1, <2>2 DEF FinishBegins
    <3>2. /\ dir' \in Directory /\ dir'.db = dir.db /\ dir'.copy = dir.copy
          /\ dir'.journal = dir.journal /\ dir'.main = m /\ dir'.writing = Absent
      BY <1>1, <3>1 DEF Directory
    <3> QED
      BY <3>1, <3>2
  <2> QED
    BY <2>1, <2>2
<1>4. /\ op' \in Calls /\ op'.kind = "finish" /\ op'.at = at
      /\ op'.intent = m /\ m # Absent
  <2>1. op' \in Calls
    BY <1>1, <1>3, CallChanged DEF Labels
  <2>2. op'.kind = "finish" /\ op'.at = at /\ op'.intent = m
    BY <1>1, <1>3 DEF Calls
  <2> QED
    BY <2>1, <2>2, FilesAssumption
<1>5. TypeOK'
  BY <1>2, <1>3, <1>4 DEF TypeOK, Calls
<1>6. DirectoryOK'
  <2>1. dir.db.owner \in {m.owner, NoProfile}
    BY <1>1, <1>3, FilesAssumption DEF DirectoryOK, FilesOK
  <2> QED
    BY <1>1, <1>2, <1>3, <1>4, <2>1 DEF DirectoryOK, FilesOK, Pending
<1>7. CallOK'
  BY <1>2, <1>3, <1>4 DEF CallOK, Pending, Awaiting
<1>8. ScreenOK' /\ WorkerOK' /\ CancelHolds'
  <2>1. ScreenOK'
    BY <1>1, <1>2, <1>3, <1>4, Nothing DEF ScreenOK
  <2>2. WorkerOK'
    BY <1>1, <1>2, <1>3 DEF WorkerOK, Pending, Awaiting
  <2>3. CancelHolds'
    BY <1>4 DEF CancelHolds
  <2> QED
    BY <2>1, <2>2, <2>3
<1>9. ASSUME OneKindOfCrash, StorageOK, RemovalOK
      PROVE  StorageOK' /\ RemovalOK'
  <2>1. RecordsOK(dir, store, flushed, had, accepted)'
    BY <1>1, <1>2, <1>3, <1>4, <1>9, FilesAssumption
       DEF StorageOK, RecordsOK, WholeOf, OwnedBy, DirectoryOK, FilesOK
  <2>2. "power" \in crashes /\ op'.at # "settle" => synced.main = m
    BY <1>1, <1>3, <1>4, <1>9, CallFields DEF StorageOK
  <2>3. StorageOK'
    BY <2>1, <2>2, <1>2, <1>3, <1>4, <1>9 DEF StorageOK
  <2>4. RemovalOK'
    BY <1>4 DEF RemovalOK
  <2> QED
    BY <2>3, <2>4
<1> QED
  BY <1>2, <1>5, <1>6, <1>7, <1>8, <1>9 DEF DeletionInv, OneKindOfCrash

\* A promoted intent is synchronized.
LEMMA SettleIntentKeeps ==
  ASSUME DeletionInv, SettleIntent
  PROVE  DeletionInv'
<1> USE DEF SettleIntent, Durable, Go, storage, ghosts
<1> TypeOK /\ DirectoryOK /\ CallOK /\ ScreenOK /\ WorkerOK /\ CancelHolds
  BY DEF DeletionInv
<1>1. TypeOK'
  <2>1. op' \in Calls
    BY TypeFields, CallChanged DEF Labels
  <2> QED
    BY <2>1 DEF TypeOK, Calls, Prefs
<1>2. DirectoryOK' /\ WorkerOK' /\ CancelHolds'
  BY DEF DirectoryOK, WorkerOK, CancelHolds, Awaiting
<1>3. CallOK'
  BY CallPlace DEF CallOK
<1>4. ScreenOK'
  BY Nothing DEF ScreenOK
<1>5. ASSUME OneKindOfCrash, StorageOK, RemovalOK
      PROVE  StorageOK' /\ RemovalOK'
  BY <1>5 DEF StorageOK, RemovalOK
<1> QED
  BY <1>1, <1>2, <1>3, <1>4, <1>5 DEF DeletionInv, OneKindOfCrash

\* From here on the profile is accepted, if a crash had come before that.
LEMMA ValidateIntentKeeps ==
  ASSUME DeletionInv, ValidateIntent
  PROVE  DeletionInv'
<1> USE DEF ValidateIntent, Retire, files, storage
<1> TypeOK /\ DirectoryOK /\ CallOK /\ ScreenOK /\ WorkerOK /\ CancelHolds
  BY DEF DeletionInv
<1>1. TypeOK'
  <2>1. 1 \in 0 .. Len(Order)
    BY FiveAliases
  <2>2. op' \in Calls
    BY <2>1, TypeFields, CallChanged DEF Labels
  <2>3. accepted' \subseteq Profiles
    BY CallPlace DEF TypeOK, Intent
  <2>4. worker' \in [at : {"none", "queued", "writing"},
                     owner : Profiles \cup {NoProfile}, current : BOOLEAN]
    BY DEF TypeOK
  <2>5. fresh' \in BOOLEAN
    OBVIOUS
  <2> QED
    BY <2>2, <2>3, <2>4, <2>5 DEF TypeOK, Calls
<1>2. DirectoryOK' /\ WorkerOK' /\ CancelHolds'
  BY DEF DirectoryOK, WorkerOK, CancelHolds, Awaiting
<1>3. CallOK'
  BY CallPlace DEF CallOK
<1>4. ScreenOK'
  BY Nothing DEF ScreenOK
<1>5. ASSUME OneKindOfCrash, StorageOK, RemovalOK
      PROVE  StorageOK' /\ RemovalOK'
  BY <1>5, CallPlace DEF CallOK, StorageOK, RemovalOK, RecordsOK
<1> QED
  BY <1>1, <1>2, <1>3, <1>4, <1>5 DEF DeletionInv, OneKindOfCrash

\* A storage with fewer records of the same profile.
LEMMA RemoveAliasKeeps ==
  ASSUME DeletionInv, RemoveAlias
  PROVE  DeletionInv'
<1> USE DEF RemoveAlias, StorageCall, Go, files, ghosts
<1> TypeOK /\ DirectoryOK /\ CallOK /\ ScreenOK /\ WorkerOK /\ CancelHolds
  BY DEF DeletionInv
<1>1. TypeOK'
  <2>1. op' \in Calls
    BY TypeFields, CallChanged DEF Labels
  <2>2. store' \in Holder /\ flushed' \in Holder
    BY TypeFields DEF Holder
  <2> QED
    BY <2>1, <2>2 DEF TypeOK, Calls, Prefs
<1>2. DirectoryOK' /\ WorkerOK' /\ CancelHolds'
  BY DEF DirectoryOK, WorkerOK, CancelHolds, Awaiting
<1>3. CallOK'
  BY CallPlace DEF CallOK
<1>4. ScreenOK'
  BY Nothing DEF ScreenOK
<1>5. ASSUME OneKindOfCrash, StorageOK, RemovalOK
      PROVE  StorageOK'
  <2>1. /\ \A a \in Aliases : store'[a] \in {store[a], NoProfile}
        /\ flushed' \in {flushed, store'} /\ store' \in Holder
    BY TypeFields DEF Holder
  <2>2. op.kind = "finish" /\ dir.main # Absent
    BY CallPlace DEF CallOK
  <2>3. ASSUME NEW d, RecordsOK(d, store, flushed, had, accepted), d.main # Absent
        PROVE  RecordsOK(d, store', flushed', had, accepted)
    <3>1. ASSUME d.db = NoDatabase PROVE store' = Empty /\ flushed' = Empty
      <4>1. \A a \in Aliases : store'[a] = NoProfile
        BY <2>1, <2>3, <3>1, Nothing DEF RecordsOK
      <4> QED
        BY <2>1, <2>3, <3>1, <4>1 DEF RecordsOK, Holder, Empty
    <3> QED
      BY <2>1, <2>3, <3>1 DEF RecordsOK, OwnedBy
  <2>4. RecordsOK(dir, store', flushed', had, accepted)
    BY <1>5, <2>2, <2>3 DEF StorageOK
  <2>5. "power" \in crashes =>
          RecordsOK(synced, store', flushed', had, accepted) /\ synced.main = dir.main
    BY <1>5, <2>2, <2>3 DEF StorageOK
  <2>6. UNCHANGED <<dir, synced, crashes, had, accepted>>
    OBVIOUS
  <2> QED
    BY <2>4, <2>5, <2>6 DEF StorageOK
<1>6. ASSUME OneKindOfCrash, StorageOK, RemovalOK
      PROVE  RemovalOK'
  BY <1>6 DEF RemovalOK
<1> QED
  BY <1>1, <1>2, <1>3, <1>4, <1>5, <1>6 DEF DeletionInv, OneKindOfCrash

\* The storage on disk is that in memory.
LEMMA StoreWrittenKeeps ==
  ASSUME DeletionInv, StoreWritten
  PROVE  DeletionInv'
<1> USE DEF StoreWritten, WrittenThrough, StorageCall, Go, files, ghosts
<1> TypeOK /\ DirectoryOK /\ CallOK /\ ScreenOK /\ WorkerOK /\ CancelHolds
  BY DEF DeletionInv
<1>1. TypeOK'
  <2>1. op' \in Calls
    BY TypeFields, CallChanged DEF Labels
  <2> QED
    BY <2>1 DEF TypeOK, Calls, Prefs
<1>2. DirectoryOK' /\ WorkerOK' /\ CancelHolds'
  BY DEF DirectoryOK, WorkerOK, CancelHolds, Awaiting
<1>3. CallOK'
  BY CallPlace DEF CallOK
<1>4. ScreenOK'
  BY Nothing DEF ScreenOK
<1>5. ASSUME OneKindOfCrash, StorageOK, RemovalOK
      PROVE  StorageOK' /\ RemovalOK'
  BY <1>5 DEF StorageOK, RemovalOK, RecordsOK
<1> QED
  BY <1>1, <1>2, <1>3, <1>4, <1>5 DEF DeletionInv, OneKindOfCrash

\* The progress names the same profile.
LEMMA NoteRemovedKeeps ==
  ASSUME DeletionInv, NoteRemoved
  PROVE  DeletionInv'
<1> USE DEF NoteRemoved, NextAlias, files, storage, ghosts
<1> TypeOK /\ DirectoryOK /\ CallOK /\ ScreenOK /\ WorkerOK /\ CancelHolds
  BY DEF DeletionInv
<1>1. TypeOK'
  <2>1. op.i \in 0 .. Len(Order) /\ op.intent # Absent
    BY TypeFields, CallPlace, FilesAssumption DEF Calls
  <2>2. [op EXCEPT !.at = "create", !.intent.removed = op.i] \in Calls
    BY <2>1, TypeFields, CallChanged DEF Labels
  <2>3. op' \in Calls
    BY <2>2, TypeFields, NextAliasTyped
  <2> QED
    BY <2>1, <2>2, <2>3 DEF TypeOK, Calls
<1>2. DirectoryOK'
  BY DEF DirectoryOK
<1>3. CallOK'
  <2>1. /\ op \in Calls /\ op.kind = "finish" /\ op.intent \in Intent /\ dir.main # Absent
        /\ dir.main.owner = op.intent.owner /\ Pending(dir) /\ ~fresh
        /\ dir.writing = Absent
    BY TypeFields, CallPlace DEF CallOK
  <2>2. /\ op'.kind = "finish" /\ op'.intent.owner = op.intent.owner
        /\ op'.at \in {"create", "remove", "files"} /\ op'.intent # Absent
    <3>1. CASE op.i > op.intent.removed
      <4>1. op' = [op EXCEPT !.at = "create", !.intent.removed = op.i]
        BY <3>1
      <4>2. op'.at = "create" /\ op'.kind = "finish"
        BY <2>1, <4>1 DEF Calls
      <4>3. op'.intent = [op.intent EXCEPT !.removed = op.i] /\ op.i \in 0 .. Len(Order)
        BY <2>1, <4>1 DEF Calls
      <4>4. op'.intent \in Intent /\ op'.intent.owner = op.intent.owner
        BY <2>1, <4>3 DEF Intent
      <4> QED
        BY <4>2, <4>4, FilesAssumption
    <3>2. CASE ~(op.i > op.intent.removed)
      BY <3>2, <2>1, NextAliasFields, FilesAssumption
    <3> QED
      BY <3>1, <3>2
  <2>3. UNCHANGED <<dir, fresh>>
    OBVIOUS
  <2> QED
    BY <2>1, <2>2, <2>3 DEF CallOK, Pending, Awaiting
<1>4. ScreenOK'
  BY Nothing DEF ScreenOK
<1>5. WorkerOK' /\ CancelHolds'
  BY CallPlace DEF CallOK, WorkerOK, CancelHolds
<1>6. ASSUME OneKindOfCrash, StorageOK, RemovalOK
      PROVE  StorageOK' /\ RemovalOK'
  BY <1>6 DEF StorageOK, RemovalOK
<1> QED
  BY <1>1, <1>2, <1>3, <1>4, <1>5, <1>6 DEF DeletionInv, OneKindOfCrash

\* The files go once the storage is empty, on disk too.
LEMMA SanitizePreferencesKeeps ==
  ASSUME DeletionInv, SanitizePreferences
  PROVE  DeletionInv'
<1> USE DEF SanitizePreferences, files, LockFree, Go, storage, ghosts
<1> TypeOK /\ DirectoryOK /\ CallOK /\ ScreenOK /\ WorkerOK /\ CancelHolds
  BY DEF DeletionInv
<1>1. TypeOK'
  <2>1. op' \in Calls
    BY TypeFields, CallChanged DEF Labels
  <2> QED
    BY <2>1 DEF TypeOK, Calls, Prefs
<1>2. DirectoryOK' /\ WorkerOK' /\ CancelHolds'
  BY DEF DirectoryOK, WorkerOK, CancelHolds, Awaiting
<1>3. CallOK'
  BY CallPlace DEF CallOK
<1>4. ScreenOK'
  BY Nothing DEF ScreenOK
<1>5. ASSUME OneKindOfCrash, StorageOK, RemovalOK
      PROVE  StorageOK' /\ RemovalOK'
  BY <1>5 DEF StorageOK, RemovalOK
<1> QED
  BY <1>1, <1>2, <1>3, <1>4, <1>5 DEF DeletionInv, OneKindOfCrash

\* The files of an interrupted encryption.
LEMMA UnlinkCopyKeeps ==
  ASSUME DeletionInv, UnlinkCopy
  PROVE  DeletionInv'
<1> USE DEF UnlinkCopy, Unlinks, Durable, storage, ghosts, Go
<1> TypeOK /\ DirectoryOK /\ CallOK /\ ScreenOK /\ WorkerOK /\ CancelHolds
  BY DEF DeletionInv
<1>1. TypeOK'
  <2>1. op' \in Calls
    BY TypeFields, CallChanged DEF Labels
  <2>2. dir' \in Directory
    BY TypeFields, DirectoryChanged
  <2> QED
    BY <2>1, <2>2 DEF TypeOK, Calls, Prefs
<1>2. DirectoryOK' /\ WorkerOK' /\ CancelHolds'
  BY DEF DirectoryOK, WorkerOK, CancelHolds, FilesOK, Pending, Awaiting
<1>3. CallOK'
  BY CallPlace DEF CallOK, Pending
<1>4. ScreenOK'
  BY Nothing DEF ScreenOK, Pending
<1>5. ASSUME OneKindOfCrash, StorageOK, RemovalOK
      PROVE  StorageOK' /\ RemovalOK'
  BY <1>5 DEF StorageOK, RemovalOK, RecordsOK
<1> QED
  BY <1>1, <1>2, <1>3, <1>4, <1>5 DEF DeletionInv, OneKindOfCrash

\* Nothing of the profile is left but its intent.
LEMMA UnlinkDatabaseKeeps ==
  ASSUME DeletionInv, UnlinkDatabase
  PROVE  DeletionInv'
<1> USE DEF UnlinkDatabase, Unlinks, Durable, storage, ghosts, Go
<1> TypeOK /\ DirectoryOK /\ CallOK /\ ScreenOK /\ WorkerOK /\ CancelHolds
  BY DEF DeletionInv
<1>1. TypeOK'
  <2>1. op' \in Calls
    BY TypeFields, CallChanged DEF Labels
  <2>2. dir' \in Directory
    BY TypeFields, DirectoryChanged, NothingTyped
  <2> QED
    BY <2>1, <2>2 DEF TypeOK, Calls, Prefs
<1>2. DirectoryOK'
  <2>1. /\ dir'.db = NoDatabase /\ dir'.copy = dir.copy /\ dir'.journal = dir.journal
        /\ dir'.main = dir.main /\ dir'.writing = dir.writing
    BY TypeFields DEF Directory
  <2>2. dir.copy = NoProfile /\ dir.journal = NoProfile /\ dir.main # Absent
    BY CallPlace DEF CallOK, DirectoryOK, FilesOK
  <2> QED
    BY <2>1, <2>2, Nothing DEF DirectoryOK, FilesOK, Pending
<1>3. CallOK' /\ WorkerOK'
  BY CallPlace DEF CallOK, WorkerOK, Pending
<1>4. ScreenOK'
  BY Nothing DEF CallOK, ScreenOK
<1>5. CancelHolds'
  BY DEF CancelHolds, Awaiting
<1>6. ASSUME OneKindOfCrash, StorageOK, RemovalOK
      PROVE  StorageOK' /\ RemovalOK'
  BY <1>6, CallPlace DEF StorageOK, RemovalOK, RecordsOK
<1> QED
  BY <1>1, <1>2, <1>3, <1>4, <1>5, <1>6 DEF DeletionInv, OneKindOfCrash

\* Nothing is left.
LEMMA UnlinkIntentKeeps ==
  ASSUME DeletionInv, UnlinkIntent
  PROVE  DeletionInv'
<1> USE DEF UnlinkIntent, Unlinks, Durable, storage, ghosts
<1> TypeOK /\ DirectoryOK /\ CallOK /\ ScreenOK /\ WorkerOK /\ CancelHolds
  BY DEF DeletionInv
<1>1. TypeOK'
  <2>1. op' \in Calls
    BY CallBegun
  <2>2. dir' \in Directory
    BY TypeFields, DirectoryChanged
  <2> QED
    BY <2>1, <2>2 DEF TypeOK, Calls, Prefs
<1>2. DirectoryOK'
  BY DEF DirectoryOK, CallOK, FilesOK, Pending
<1>3. CallOK' /\ ScreenOK' /\ CancelHolds'
  BY Nothing DEF CallOK, ScreenOK, CancelHolds
<1>4. WorkerOK'
  BY CallPlace DEF DirectoryOK, CallOK, WorkerOK, FilesOK
<1>5. ASSUME OneKindOfCrash, StorageOK, RemovalOK
      PROVE  StorageOK' /\ RemovalOK'
  BY <1>5, CallPlace DEF CallOK, StorageOK, RemovalOK, RecordsOK
<1> QED
  BY <1>1, <1>2, <1>3, <1>4, <1>5 DEF DeletionInv, OneKindOfCrash

\* A capture changes nothing.
LEMMA RequestDeletionKeeps ==
  ASSUME DeletionInv, RequestDeletion
  PROVE  DeletionInv'
<1> USE DEF RequestDeletion, Pending, files, storage, ghosts
<1> TypeOK /\ DirectoryOK /\ CallOK /\ ScreenOK /\ WorkerOK /\ CancelHolds
  BY DEF DeletionInv
<1>1. TypeOK'
  <2>1. op' \in Calls
    BY CallBegun DEF Labels
  <2>2. withdrawn' \in BOOLEAN
    OBVIOUS
  <2> QED
    BY <2>1, <2>2 DEF TypeOK, Calls, Prefs
<1>2. DirectoryOK' /\ CallOK' /\ ScreenOK' /\ WorkerOK' /\ CancelHolds'
  BY DEF DirectoryOK, CallOK, ScreenOK, WorkerOK, CancelHolds, Awaiting
<1>3. ASSUME OneKindOfCrash, StorageOK, RemovalOK
      PROVE  StorageOK' /\ RemovalOK'
  BY <1>3, FilesAssumption, CallPlace DEF CallOK, StorageOK, RemovalOK
<1> QED
  BY <1>1, <1>2, <1>3 DEF DeletionInv, OneKindOfCrash

\* The dialog is there, or nothing has happened.
LEMMA CaptureEndsKeeps ==
  ASSUME DeletionInv, CaptureEnds
  PROVE  DeletionInv'
<1> USE DEF CaptureEnds, At, LockFree, files, storage, ghosts
<1> TypeOK /\ DirectoryOK /\ CallOK /\ ScreenOK /\ WorkerOK /\ CancelHolds
  BY DEF DeletionInv
<1>1. TypeOK'
  <2>1. op' \in Calls
    BY CallBegun
  <2>2. withdrawn' \in BOOLEAN
    OBVIOUS
  <2>3. scope' \in Profiles \cup {NoProfile}
    BY TypeFields, DirectoryFields DEF TypeOK
  <2> QED
    BY <2>1, <2>2, <2>3 DEF TypeOK, Calls, Prefs
<1>2. DirectoryOK' /\ CancelHolds'
  BY DEF DirectoryOK, CancelHolds
<1>3. CallOK' /\ ScreenOK' /\ WorkerOK'
  BY Nothing DEF CallOK, ScreenOK, WorkerOK
<1>4. ASSUME OneKindOfCrash, StorageOK, RemovalOK
      PROVE  StorageOK' /\ RemovalOK'
  BY <1>4, Nothing DEF StorageOK, RemovalOK
<1> QED
  BY <1>1, <1>2, <1>3, <1>4 DEF DeletionInv, OneKindOfCrash

\* Only a call that still awaits is withdrawn.
LEMMA CancelProfileDeletionKeeps ==
  ASSUME DeletionInv, CancelProfileDeletion
  PROVE  DeletionInv'
<1> USE DEF CancelProfileDeletion, Awaiting, Pending, Cancelled, files, storage, ghosts
<1> TypeOK /\ DirectoryOK /\ CallOK /\ ScreenOK /\ WorkerOK /\ CancelHolds
  BY DEF DeletionInv
<1>1. TypeOK'
  <2>1. withdrawn' \in BOOLEAN
    BY CancelledTyped
  <2> QED
    BY <2>1 DEF TypeOK
<1>2. DirectoryOK' /\ CallOK' /\ ScreenOK' /\ WorkerOK' /\ CancelHolds'
  BY DEF DirectoryOK, CallOK, ScreenOK, WorkerOK, CancelHolds
<1>3. ASSUME OneKindOfCrash, StorageOK, RemovalOK
      PROVE  StorageOK' /\ RemovalOK'
  BY <1>3 DEF StorageOK, RemovalOK
<1> QED
  BY <1>1, <1>2, <1>3 DEF DeletionInv, OneKindOfCrash

\* A new call, not withdrawn.
LEMMA ConfirmProfileDeletionKeeps ==
  ASSUME DeletionInv, ConfirmProfileDeletion
  PROVE  DeletionInv'
<1> USE DEF ConfirmProfileDeletion, files, storage, ghosts
<1> TypeOK /\ DirectoryOK /\ CallOK /\ ScreenOK /\ WorkerOK /\ CancelHolds
  BY DEF DeletionInv
<1>1. TypeOK'
  <2>1. op' \in Calls
    BY CallBegun DEF Labels
  <2>2. withdrawn' \in BOOLEAN
    OBVIOUS
  <2> QED
    BY <2>1, <2>2 DEF TypeOK, Calls, Prefs
<1>2. DirectoryOK' /\ CallOK' /\ ScreenOK' /\ WorkerOK' /\ CancelHolds'
  BY DEF DirectoryOK, CallOK, ScreenOK, WorkerOK, CancelHolds, Pending, Awaiting
<1>3. ASSUME OneKindOfCrash, StorageOK, RemovalOK
      PROVE  StorageOK' /\ RemovalOK'
  BY <1>3, Nothing DEF StorageOK, RemovalOK
<1> QED
  BY <1>1, <1>2, <1>3 DEF DeletionInv, OneKindOfCrash

\* The records are those of the profile, in memory and on disk.
LEMMA SetUpKeeps ==
  ASSUME DeletionInv, SetUp
  PROVE  DeletionInv'
<1> TypeOK /\ DirectoryOK /\ CallOK /\ ScreenOK /\ WorkerOK /\ CancelHolds
  BY DEF DeletionInv
<1>1. UNCHANGED <<platform, crashes, prefs, shared, screen, scope, withdrawn, op, fresh,
                  onboarding, worker, accepted>>
  BY DEF SetUp, memory
<1>2. /\ screen = "use" /\ op = NoOp /\ worker.at # "writing" /\ dir.db # NoDatabase
      /\ synced' = dir' /\ flushed' = store'
  BY DEF SetUp, LockFree
<1>3. PICK S \in Shapes, c \in {NoProfile, dir.db.owner}, n \in {6, 7} :
        /\ store' = [a \in Aliases |-> IF a \in S THEN dir.db.owner ELSE NoProfile]
        /\ dir' = [dir EXCEPT !.db.schema = n, !.copy = c]
        /\ had' = S
  <2>1. PICK S \in Shapes, c \in {NoProfile, dir.db.owner} :
          /\ store' = [a \in Aliases |-> IF a \in S THEN dir.db.owner ELSE NoProfile]
          /\ dir' = [dir EXCEPT !.db.schema = IF "binding" \in S THEN 7 ELSE 6, !.copy = c]
          /\ had' = S
    BY DEF SetUp
  <2>2. CASE "binding" \in S
    BY <2>1, <2>2
  <2>3. CASE "binding" \notin S
    BY <2>1, <2>3
  <2> QED
    BY <2>2, <2>3
<1>4. /\ dir \in Directory /\ dir.db.owner \in Profiles \cup {NoProfile}
      /\ c \in Profiles \cup {NoProfile} /\ dir.db.owner # NoProfile
  BY <1>2, <1>3, TypeFields, DirectoryFields DEF DirectoryOK, FilesOK
<1>5. /\ dir' \in Directory /\ dir'.db.owner = dir.db.owner /\ dir'.db.data = dir.db.data
      /\ dir'.journal = dir.journal /\ dir'.main = dir.main /\ dir'.writing = dir.writing
      /\ dir'.copy = c
  <2>1. dir' \in Directory
    BY <1>3, <1>4, DatabaseChanged
  <2> QED
    BY <1>3, <1>4, <2>1 DEF Directory, Database
<1>6. dir'.db # NoDatabase
  BY <1>4, <1>5, Nothing
<1>7. TypeOK'
  <2>1. store' \in Holder
    BY <1>3, <1>4 DEF Holder
  <2>2. had' \subseteq Aliases
    BY <1>3 DEF Shapes, Aliases, Order
  <2> QED
    BY <1>1, <1>2, <1>5, <2>1, <2>2 DEF TypeOK
<1>8. ~Pending(dir) /\ ~Pending(dir)' /\ dir.journal = NoProfile
  BY <1>2, <1>5 DEF ScreenOK, WorkerOK, Pending
<1>9. DirectoryOK'
  BY <1>2, <1>3, <1>4, <1>5, <1>6, <1>8 DEF DirectoryOK, FilesOK, Pending
<1>10. CallOK' /\ CancelHolds'
  BY <1>1, <1>2, <1>8, Nothing DEF CallOK, CancelHolds, Pending, Awaiting
<1>11. ScreenOK' /\ WorkerOK'
  BY <1>1, <1>2, <1>5, <1>6, <1>8 DEF ScreenOK, WorkerOK, Pending
<1>12. ASSUME StorageOK
       PROVE  StorageOK'
  <2>1. dir.db.owner \notin accepted /\ dir.main = Absent
    BY <1>2, <1>8, <1>12 DEF StorageOK, RecordsOK, Pending
  <2>2. RecordsOK(dir, store, flushed, had, accepted)'
    BY <1>1, <1>2, <1>3, <1>5, <1>6, <2>1 DEF RecordsOK, WholeOf
  <2> QED
    BY <1>2, <2>2 DEF StorageOK
<1>13. RemovalOK'
  BY <1>1, <1>2, Nothing DEF RemovalOK
<1> QED
  BY <1>1, <1>7, <1>9, <1>10, <1>11, <1>12, <1>13 DEF DeletionInv, OneKindOfCrash

\* The preferences are no part of the invariant.
LEMMA SetOnboardingKeeps ==
  ASSUME DeletionInv, SetOnboarding
  PROVE  DeletionInv'
<1> USE DEF SetOnboarding, Saves, storage, ghosts
<1> TypeOK /\ DirectoryOK /\ CallOK /\ ScreenOK /\ WorkerOK /\ CancelHolds
  BY DEF DeletionInv
<1>1. TypeOK'
  BY DEF TypeOK, Prefs
<1>2. DirectoryOK' /\ CallOK' /\ ScreenOK' /\ WorkerOK' /\ CancelHolds'
  BY DEF DirectoryOK, CallOK, ScreenOK, WorkerOK, CancelHolds, Awaiting
<1>3. ASSUME OneKindOfCrash, StorageOK, RemovalOK
      PROVE  StorageOK' /\ RemovalOK'
  BY <1>3 DEF StorageOK, RemovalOK
<1> QED
  BY <1>1, <1>2, <1>3 DEF DeletionInv, OneKindOfCrash

\* Nor is the language, and it cancels as the user does.
LEMMA SetLanguageKeeps ==
  ASSUME DeletionInv, SetLanguage
  PROVE  DeletionInv'
<1> USE DEF SetLanguage, Awaiting, Saves, storage, ghosts, Pending, Cancelled
<1> TypeOK /\ DirectoryOK /\ CallOK /\ ScreenOK /\ WorkerOK /\ CancelHolds
  BY DEF DeletionInv
<1>1. TypeOK'
  <2>1. withdrawn' \in BOOLEAN
    BY CancelledTyped DEF TypeOK
  <2> QED
    BY <2>1 DEF TypeOK, Prefs
<1>2. DirectoryOK' /\ CallOK' /\ ScreenOK' /\ WorkerOK' /\ CancelHolds'
  BY DEF DirectoryOK, CallOK, ScreenOK, WorkerOK, CancelHolds
<1>3. ASSUME OneKindOfCrash, StorageOK, RemovalOK
      PROVE  StorageOK' /\ RemovalOK'
  BY <1>3 DEF StorageOK, RemovalOK
<1> QED
  BY <1>1, <1>2, <1>3 DEF DeletionInv, OneKindOfCrash

\* A worker is of the profile in use.
LEMMA QueueWorkerKeeps ==
  ASSUME DeletionInv, QueueWorker
  PROVE  DeletionInv'
<1> USE DEF QueueWorker, files, storage, ghosts
<1> TypeOK /\ DirectoryOK /\ CallOK /\ ScreenOK /\ WorkerOK /\ CancelHolds
  BY DEF DeletionInv
<1>1. TypeOK'
  BY DEF TypeOK, Directory, Database
<1>2. DirectoryOK' /\ CallOK' /\ ScreenOK' /\ CancelHolds'
  BY DEF DirectoryOK, CallOK, ScreenOK, CancelHolds, Awaiting
<1>3. WorkerOK'
  BY Nothing DEF WorkerOK
<1>4. ASSUME OneKindOfCrash, StorageOK, RemovalOK
      PROVE  StorageOK' /\ RemovalOK'
  BY <1>4 DEF StorageOK, RemovalOK
<1> QED
  BY <1>1, <1>2, <1>3, <1>4 DEF DeletionInv, OneKindOfCrash

\* A worker that is current writes to its own profile, with nothing pending.
LEMMA WorkerBeginsKeeps ==
  ASSUME DeletionInv, WorkerBegins
  PROVE  DeletionInv'
<1> TypeOK /\ DirectoryOK /\ CallOK /\ ScreenOK /\ WorkerOK /\ CancelHolds
  BY DEF DeletionInv
<1>1. /\ UNCHANGED <<platform, crashes, prefs, shared, store, flushed, screen, scope,
                     withdrawn, op, fresh, onboarding, had, accepted>>
      /\ worker.at = "queued" /\ Awaiting
  BY DEF WorkerBegins, storage, ghosts
<1>2. CASE worker' = NoWorker /\ UNCHANGED <<dir, synced>>
  <2>1. TypeOK'
    BY <1>1, <1>2, NothingTyped DEF TypeOK
  <2>2. DirectoryOK' /\ CallOK' /\ ScreenOK' /\ CancelHolds'
    BY <1>1, <1>2 DEF DirectoryOK, CallOK, ScreenOK, CancelHolds, Pending, Awaiting
  <2>3. WorkerOK'
    BY <1>1, <1>2, Nothing DEF WorkerOK
  <2>4. (StorageOK => StorageOK') /\ (RemovalOK => RemovalOK')
    BY <1>1, <1>2 DEF StorageOK, RemovalOK
  <2> QED
    BY <1>1, <2>1, <2>2, <2>3, <2>4 DEF DeletionInv, OneKindOfCrash
<1>3. CASE worker' # NoWorker \/ ~UNCHANGED <<dir, synced>>
  <2>1. /\ ~Pending(dir) /\ worker.current /\ dir.db # NoDatabase
        /\ worker' = [worker EXCEPT !.at = "writing"]
        /\ dir' = [dir EXCEPT !.journal = dir.db.owner] /\ synced' = dir'
    BY <1>3 DEF WorkerBegins
  <2>2. /\ dir \in Directory /\ dir.db.owner \in Profiles \cup {NoProfile}
        /\ worker.owner = dir.db.owner
    BY <2>1, TypeFields, DirectoryFields DEF WorkerOK
  <2>3. /\ dir' \in Directory /\ dir'.db = dir.db /\ dir'.copy = dir.copy
        /\ dir'.journal = dir.db.owner /\ dir'.main = dir.main
        /\ dir'.writing = dir.writing
    <3>1. dir' \in Directory
      BY <2>1, <2>2, DirectoryChanged
    <3> QED
      BY <2>1, <2>2, <3>1 DEF Directory
  <2>4. /\ worker' \in [at : {"none", "queued", "writing"},
                        owner : Profiles \cup {NoProfile}, current : BOOLEAN]
        /\ worker'.at = "writing" /\ worker'.owner = worker.owner
        /\ worker'.current = worker.current
    BY <2>1 DEF TypeOK
  <2>5. ~Pending(dir) /\ ~Pending(dir)'
    BY <2>1, <2>3 DEF Pending
  <2>6. TypeOK'
    BY <1>1, <2>1, <2>3, <2>4 DEF TypeOK
  <2>7. DirectoryOK'
    BY <2>1, <2>3, <2>5 DEF DirectoryOK, FilesOK, Pending
  <2>8. CallOK' /\ CancelHolds'
    BY <1>1, <2>1, <2>3, <2>5 DEF CallOK, CancelHolds, Pending, Awaiting
  <2>9. ScreenOK'
    BY <1>1, <2>3, <2>4, <2>5, Nothing DEF ScreenOK, Pending
  <2>10. WorkerOK'
    BY <1>1, <2>1, <2>2, <2>3, <2>4, <2>5 DEF WorkerOK, Awaiting
  <2>11. StorageOK => StorageOK'
    BY <1>1, <2>1, <2>3, <2>5 DEF StorageOK, RecordsOK, Pending
  <2>12. ASSUME RemovalOK PROVE RemovalOK'
    BY <1>1, <2>3, <2>12 DEF RemovalOK
  <2> QED
    BY <1>1, <2>6, <2>7, <2>8, <2>9, <2>10, <2>11, <2>12 DEF DeletionInv, OneKindOfCrash
<1> QED
  BY <1>2, <1>3

\* What it has written is of the profile that owns the database.
LEMMA WorkerEndsKeeps ==
  ASSUME DeletionInv, WorkerEnds
  PROVE  DeletionInv'
<1> TypeOK /\ DirectoryOK /\ CallOK /\ ScreenOK /\ WorkerOK /\ CancelHolds
  BY DEF DeletionInv
<1>1. /\ UNCHANGED <<platform, crashes, prefs, shared, store, flushed, screen, scope,
                     withdrawn, op, fresh, onboarding, had, accepted>>
      /\ worker.at = "writing" /\ worker' = NoWorker
      /\ dir' = [dir EXCEPT !.journal = NoProfile, !.db.data = worker.owner]
      /\ synced' = dir'
  BY DEF WorkerEnds, storage, ghosts
<1>2. /\ dir \in Directory /\ ~Pending(dir) /\ worker.owner = dir.db.owner
      /\ dir.db # NoDatabase /\ dir.db.owner \in Profiles \cup {NoProfile}
      /\ dir.db \in Database /\ dir.db.data = dir.db.owner
  BY <1>1, TypeFields, DirectoryFields DEF WorkerOK, DirectoryOK, FilesOK
<1>3. /\ dir' \in Directory /\ dir'.db = dir.db /\ dir'.copy = dir.copy
      /\ dir'.journal = NoProfile /\ dir'.main = dir.main /\ dir'.writing = dir.writing
  <2>1. dir' \in Directory
    BY <1>1, <1>2, DatabaseChanged
  <2>2. dir'.db = [dir.db EXCEPT !.data = dir.db.owner]
    BY <1>1, <1>2 DEF Directory
  <2>3. dir'.db = dir.db
    BY <1>2, <2>2 DEF Database
  <2> QED
    BY <1>1, <1>2, <2>1, <2>3 DEF Directory
<1>4. ~Pending(dir)'
  BY <1>2, <1>3 DEF Pending
<1>5. TypeOK'
  BY <1>1, <1>3, NothingTyped DEF TypeOK
<1>6. DirectoryOK'
  BY <1>1, <1>3, <1>4 DEF DirectoryOK, FilesOK, Pending
<1>7. CallOK' /\ CancelHolds'
  BY <1>1, <1>2, <1>3, <1>4 DEF CallOK, CancelHolds, Pending, Awaiting
<1>8. ScreenOK' /\ WorkerOK'
  BY <1>1, <1>2, <1>3, <1>4, Nothing DEF ScreenOK, WorkerOK, Pending
<1>9. StorageOK => StorageOK'
  BY <1>1, <1>2, <1>3 DEF StorageOK, RecordsOK, Pending
<1>10. ASSUME RemovalOK PROVE RemovalOK'
  BY <1>1, <1>3, <1>10 DEF RemovalOK
<1> QED
  BY <1>1, <1>5, <1>6, <1>7, <1>8, <1>9, <1>10 DEF DeletionInv, OneKindOfCrash

\* A call that fails leaves a storage with one record less, at most, and removes
\* the ".write" file it was at.
LEMMA FailsKeeps ==
  ASSUME DeletionInv, Fails
  PROVE  DeletionInv'
<1> TypeOK /\ DirectoryOK /\ CallOK /\ ScreenOK /\ WorkerOK /\ CancelHolds
  BY DEF DeletionInv
<1>1. /\ UNCHANGED <<platform, crashes, synced, prefs, shared, scope, withdrawn, fresh,
                     onboarding, worker, had, accepted>>
      /\ op.kind \in {"accept", "finish"} /\ op.at # "wait"
      /\ op.at \in {"sync", "settle"} => "power" \notin crashes
  BY DEF Fails, ghosts
<1>2. /\ op' = NoOp /\ op' \in Calls
      /\ screen' \in {screen, "error"} /\ (screen # "off" => screen' # "off")
      /\ screen = "use" \/ screen = "dialog" => screen' = screen
  BY CallBegun DEF Fails, Raises
<1>3. screen \notin {"use", "dialog", "off"}
  BY <1>1, Nothing DEF ScreenOK
<1>4. screen' \notin {"use", "dialog", "off"}
  BY <1>2, <1>3
<1>5. /\ dir \in Directory /\ dir' \in Directory
      /\ dir'.db = dir.db /\ dir'.copy = dir.copy /\ dir'.journal = dir.journal
      /\ dir'.main = dir.main
      /\ dir' = dir \/ dir'.writing = Absent
      /\ op.at \in {"fill", "replace"} => dir'.writing = Absent
  <2>1. dir \in Directory
    BY TypeFields
  <2>2. CASE op.at \in {"fill", "replace"}
    <3>1. dir' = [dir EXCEPT !.writing = Absent]
      BY <2>2 DEF Fails, Raises, WithoutTemporary
    <3> QED
      BY <2>1, <3>1, DirectoryChanged DEF Directory
  <2>3. CASE op.at \notin {"fill", "replace"}
    BY <2>1, <2>3 DEF Fails, Raises
  <2> QED
    BY <2>2, <2>3
<1>6. /\ \/ op.at = "remove" /\ store' = [store EXCEPT ![Order[op.i]] = NoProfile]
         \/ store' = store
      /\ flushed' \in {flushed, store'}
  BY DEF Fails
<1>7. store' \in Holder /\ flushed' \in Holder
  BY <1>6, TypeFields DEF Holder
<1>8. TypeOK'
  BY <1>1, <1>2, <1>5, <1>7 DEF TypeOK, Calls
<1>9. DirectoryOK'
  BY <1>1, <1>5 DEF DirectoryOK, FilesOK, Pending
<1>10. CallOK' /\ CancelHolds'
  BY <1>2, Nothing DEF CallOK, CancelHolds, Awaiting
<1>11. ScreenOK'
  BY <1>1, <1>2, <1>4, Nothing DEF ScreenOK
<1>12. WorkerOK'
  BY <1>1, <1>2, <1>3, <1>5, Nothing DEF WorkerOK, Pending, Awaiting
<1>13. ASSUME StorageOK
       PROVE  StorageOK'
  <2>1. /\ \A a \in Aliases : store'[a] \in {store[a], NoProfile}
        /\ \A a \in Aliases : flushed'[a] \in {flushed[a], store'[a]}
    BY <1>6, TypeFields DEF Holder
  <2>2. op.at = "remove" => dir.main # Absent /\ ("power" \in crashes => synced.main # Absent)
    BY <1>1, <1>13 DEF CallOK, StorageOK
  <2>3. ASSUME NEW d, RecordsOK(d, store, flushed, had, accepted),
               op.at = "remove" => d.main # Absent
        PROVE  RecordsOK(d, store', flushed', had, accepted)
    <3>1. d.db = NoDatabase => store' = Empty /\ flushed' = Empty
      <4>1. ASSUME d.db = NoDatabase PROVE store' = Empty /\ flushed' = Empty
        <5>1. \A a \in Aliases : store'[a] = NoProfile /\ flushed'[a] = NoProfile
          BY <2>1, <2>3, <4>1, Nothing DEF RecordsOK
        <5> QED
          BY <5>1, <1>7 DEF Holder, Empty
      <4> QED
        BY <4>1
    <3>2. CASE op.at = "remove"
      BY <2>1, <2>3, <3>1, <3>2 DEF RecordsOK, OwnedBy
    <3>3. CASE store' = store
      BY <1>6, <2>3, <3>1, <3>3 DEF RecordsOK, OwnedBy, WholeOf
    <3> QED
      BY <1>6, <3>2, <3>3
  <2>4. RecordsOK(dir, store', flushed', had, accepted)
    BY <1>13, <2>2, <2>3 DEF StorageOK
  <2>5. RecordsOK(dir', store', flushed', had, accepted)
    BY <1>5, <2>4 DEF RecordsOK
  <2>6. "power" \in crashes => RecordsOK(synced, store', flushed', had, accepted)
    BY <1>13, <2>2, <2>3 DEF StorageOK
  <2> QED
    BY <1>1, <1>2, <1>5, <1>13, <2>5, <2>6, Nothing DEF StorageOK
<1>14. RemovalOK'
  BY <1>2, Nothing DEF RemovalOK
<1> QED
  BY <1>1, <1>8, <1>9, <1>10, <1>11, <1>12, <1>13, <1>14 DEF DeletionInv, OneKindOfCrash

\* The storage on disk is that in memory.
LEMMA FlushKeeps ==
  ASSUME DeletionInv, Flush
  PROVE  DeletionInv'
<1> USE DEF Flush, files, memory, ghosts
<1> TypeOK /\ DirectoryOK /\ CallOK /\ ScreenOK /\ WorkerOK /\ CancelHolds
  BY DEF DeletionInv
<1>1. TypeOK'
  BY DEF TypeOK
<1>2. DirectoryOK' /\ CallOK' /\ ScreenOK' /\ WorkerOK' /\ CancelHolds'
  BY DEF DirectoryOK, CallOK, ScreenOK, WorkerOK, CancelHolds, Awaiting
<1>3. ASSUME OneKindOfCrash, StorageOK, RemovalOK
      PROVE  StorageOK' /\ RemovalOK'
  BY <1>3 DEF StorageOK, RemovalOK, RecordsOK
<1> QED
  BY <1>1, <1>2, <1>3 DEF DeletionInv, OneKindOfCrash

\* A crash leaves the storage on disk, and one of the two directories.
LEMMA CrashKeeps ==
  ASSUME DeletionInv, Crash
  PROVE  DeletionInv'
<1> TypeOK /\ DirectoryOK /\ CallOK /\ ScreenOK /\ WorkerOK /\ CancelHolds
  BY DEF DeletionInv
<1>1. /\ UNCHANGED <<platform, crashes, prefs, shared, flushed, had, accepted>>
      /\ store' = flushed /\ screen' = "off" /\ scope' = NoProfile /\ withdrawn' = FALSE
      /\ op' = NoOp /\ fresh' = FALSE /\ onboarding' = FALSE /\ worker' = NoWorker
  BY DEF Crash, ghosts
<1>2. \/ "process" \in crashes /\ UNCHANGED <<dir, synced>>
      \/ "power" \in crashes /\ dir' \in {dir, synced} /\ synced' = dir'
  BY DEF Crash
<1>3. TypeOK'
  <2>1. op' \in Calls
    BY <1>1, CallBegun
  <2>2. dir' \in Directory /\ synced' \in Directory
    BY <1>2, TypeFields
  <2>3. fresh' \in BOOLEAN /\ withdrawn' \in BOOLEAN /\ onboarding' \in BOOLEAN
    BY <1>1
  <2>4. worker' \in [at : {"none", "queued", "writing"},
                     owner : Profiles \cup {NoProfile}, current : BOOLEAN]
    BY <1>1, NothingTyped
  <2> QED
    BY <1>1, <2>1, <2>2, <2>3, <2>4 DEF TypeOK, Calls
<1>4. DirectoryOK'
  BY <1>2 DEF DirectoryOK
<1>5. CallOK' /\ ScreenOK' /\ CancelHolds'
  BY <1>1, Nothing DEF CallOK, ScreenOK, CancelHolds, Awaiting
<1>6. WorkerOK'
  BY <1>1, Nothing DEF WorkerOK
<1>7. ASSUME OneKindOfCrash, StorageOK
      PROVE  StorageOK'
  <2>1. ASSUME NEW d, RecordsOK(d, store, flushed, had, accepted)
        PROVE  RecordsOK(d, flushed, flushed, had, accepted)
    BY <2>1 DEF RecordsOK
  <2>2. CASE "power" \in crashes
    <3>1. "process" \notin crashes
      <4>1. crashes \subseteq {"process", "power"}
        BY DeletionAssumption DEF TypeOK
      <4> QED
        BY <1>7, <2>2, <4>1 DEF OneKindOfCrash
    <3>2. dir' \in {dir, synced} /\ synced' = dir'
      BY <1>2, <3>1
    <3>3. RecordsOK(dir', flushed, flushed, had, accepted)
      BY <1>7, <2>1, <2>2, <3>2 DEF StorageOK
    <3> QED
      BY <1>1, <3>2, <3>3 DEF StorageOK
  <2>3. CASE "power" \notin crashes
    <3>1. RecordsOK(dir', flushed, flushed, had, accepted)
      BY <1>2, <1>7, <2>1, <2>3 DEF StorageOK
    <3> QED
      BY <1>1, <2>3, <3>1 DEF StorageOK
  <2> QED
    BY <2>2, <2>3
<1>8. RemovalOK'
  BY <1>1, Nothing DEF RemovalOK
<1> QED
  BY <1>1, <1>3, <1>4, <1>5, <1>6, <1>7, <1>8 DEF DeletionInv, OneKindOfCrash

-----------------------------------------------------------------------------
\* The invariant holds.

\* Before the first start there is nothing.
LEMMA DeletionInit ==
  ASSUME Init
  PROVE  DeletionInv
<1>1. /\ dir.db = NoDatabase /\ dir.journal = NoProfile /\ dir.copy = NoProfile
      /\ dir.main = Absent /\ dir.writing = Absent /\ synced = dir
  BY DEF Init
<1>2. TypeOK
  <2>1. dir \in Directory
    BY NothingTyped DEF Init, Directory
  <2>2. prefs \in Prefs /\ shared \in BOOLEAN
    BY DEF Init, Prefs
  <2>3. op \in Calls
    BY CallBegun DEF Init
  <2> QED
    BY <2>1, <2>2, <2>3, NothingTyped DEF Init, TypeOK, Calls
<1>3. DirectoryOK
  BY <1>1, Nothing DEF DirectoryOK, FilesOK, Pending
<1>4. CallOK /\ ScreenOK /\ WorkerOK /\ CancelHolds
  BY <1>1, Nothing DEF Init, CallOK, ScreenOK, WorkerOK, CancelHolds, Awaiting
<1>5. StorageOK /\ RemovalOK
  BY <1>1, Nothing DEF Init, StorageOK, RecordsOK, RemovalOK
<1> QED
  BY <1>2, <1>3, <1>4, <1>5 DEF DeletionInv

\* Every step keeps it.
LEMMA DeletionStep ==
  ASSUME DeletionInv, [Next]_vars
  PROVE  DeletionInv'
<1>1. CASE Launch
  BY <1>1, ResumeKeeps, OpenProfileKeeps, CreateProfileKeeps DEF Launch
<1>2. CASE Accept
  BY <1>2, AcceptBeginsKeeps, PrepareDirectoryKeeps, AcceptSnapshotKeeps,
     AcceptRefusedKeeps DEF Accept
<1>3. CASE WriteIntent
  BY <1>3, CreateTemporaryKeeps, FillTemporaryKeeps, ReplaceIntentKeeps,
     SyncIntentKeeps DEF WriteIntent
<1>4. CASE Finish
  BY <1>4, FinishBeginsKeeps, SettleIntentKeeps, ValidateIntentKeeps, RemoveAliasKeeps,
     StoreWrittenKeeps, NoteRemovedKeeps, SanitizePreferencesKeeps, UnlinkCopyKeeps,
     UnlinkDatabaseKeeps, UnlinkIntentKeeps DEF Finish
<1>5. CASE User
  BY <1>5, RequestDeletionKeeps, CaptureEndsKeeps, CancelProfileDeletionKeeps,
     ConfirmProfileDeletionKeeps, SetUpKeeps, SetOnboardingKeeps, SetLanguageKeeps DEF User
<1>6. CASE QueueWorker \/ WorkerBegins \/ WorkerEnds \/ Fails \/ Flush \/ Crash
  BY <1>6, QueueWorkerKeeps, WorkerBeginsKeeps, WorkerEndsKeeps, FailsKeeps, FlushKeeps,
     CrashKeeps
<1>7. CASE UNCHANGED vars
  <2>1. UNCHANGED <<platform, crashes, dir, synced, prefs, shared, store, flushed, screen,
                    scope, withdrawn, op, fresh, onboarding, worker, had, accepted>>
    BY <1>7 DEF vars, files, storage, memory, ghosts
  <2> QED
    BY <2>1 DEF DeletionInv, TypeOK, DirectoryOK, CallOK, ScreenOK, WorkerOK, CancelHolds,
                OneKindOfCrash, StorageOK, RemovalOK, Awaiting, Pending
<1> QED
  BY <1>1, <1>2, <1>3, <1>4, <1>5, <1>6, <1>7 DEF Next

\* The kinds of crash of a behaviour do not change.
LEMMA CrashesStay ==
  ASSUME [Next]_vars
  PROVE  crashes' = crashes
<1>1. CASE Launch
  BY <1>1 DEF Launch, Resume, OpenProfile, CreateProfile, Composed
<1>2. CASE Accept
  BY <1>2 DEF Accept, AcceptBegins, PrepareDirectory, AcceptSnapshot, AcceptRefused
<1>3. CASE WriteIntent
  BY <1>3 DEF WriteIntent, CreateTemporary, FillTemporary, ReplaceIntent, SyncIntent, Writes
<1>4. CASE Finish
  BY <1>4 DEF Finish, FinishBegins, SettleIntent, ValidateIntent, RemoveAlias, StoreWritten,
              NoteRemoved, SanitizePreferences, UnlinkCopy, UnlinkDatabase, UnlinkIntent,
              StorageCall, Unlinks
<1>5. CASE User
  BY <1>5 DEF User, RequestDeletion, CaptureEnds, CancelProfileDeletion,
              ConfirmProfileDeletion, SetUp, SetOnboarding, SetLanguage, Saves
<1>6. CASE QueueWorker \/ WorkerBegins \/ WorkerEnds \/ Fails \/ Flush \/ Crash
  BY <1>6 DEF QueueWorker, WorkerBegins, WorkerEnds, Fails, Flush, Crash
<1>7. CASE UNCHANGED vars
  BY <1>7 DEF vars
<1> QED
  BY <1>1, <1>2, <1>3, <1>4, <1>5, <1>6, <1>7 DEF Next

\* So it always holds, also where both kinds of crash occur.
THEOREM DeletionInvariant == Spec => []DeletionInv
<1>1. Init => DeletionInv
  BY DeletionInit
<1>2. DeletionInv /\ [Next]_vars => DeletionInv'
  BY DeletionStep
<1> QED
  BY <1>1, <1>2, PTL DEF Spec

-----------------------------------------------------------------------------
\* What it says.

\* A state of the invariant with one kind of crash has nothing mixed.
LEMMA Unmixed ==
  ASSUME DeletionInv, OneKindOfCrash
  PROVE  NothingMixed
<1>1. /\ TypeOK /\ FilesOK(dir) /\ synced.db = dir.db /\ synced.copy = dir.copy
      /\ synced.journal = dir.journal
      /\ RecordsOK(dir, store, flushed, had, accepted)
  BY DEF DeletionInv, DirectoryOK, StorageOK
<1>2. accepted \subseteq Profiles /\ had \subseteq Aliases
  BY <1>1 DEF TypeOK
<1>3. WholeOrPending
  BY <1>1, <1>2 DEF WholeOrPending, RecordsOK, WholeOf, Pending
<1>4. ASSUME NEW p \in accepted, dir.db.owner # p
      PROVE  ~Holds(p, store) /\ ~Holds(p, flushed)
  <2>1. p # NoProfile
    BY <1>2, DeletionAssumption
  <2>2. CASE dir.db = NoDatabase
    BY <1>1, <2>1, <2>2, Nothing DEF RecordsOK, Holds
  <2>3. CASE dir.db # NoDatabase /\ dir.main = Absent
    BY <1>1, <1>4, <2>1, <2>3 DEF RecordsOK, WholeOf, Holds
  <2>4. CASE dir.db # NoDatabase /\ dir.main # Absent
    <3>1. dir.db.owner = dir.main.owner
      BY <1>1, <2>4 DEF FilesOK
    <3> QED
      BY <1>1, <1>4, <2>1, <2>4, <3>1 DEF RecordsOK, OwnedBy, Holds
  <2> QED
    BY <2>2, <2>3, <2>4
<1>5. RecordsGoFirst
  BY <1>4 DEF RecordsGoFirst
<1>6. NothingLeft
  <2> SUFFICES ASSUME ~Pending(dir), NEW p \in accepted
               PROVE  /\ ~Holds(p, store) /\ ~Holds(p, flushed)
                      /\ p \notin {dir.db.owner, dir.copy, dir.journal}
                      /\ p \notin {synced.db.owner, synced.copy, synced.journal}
    BY DEF NothingLeft
  <2>1. p # NoProfile
    BY <1>2, DeletionAssumption
  <2>2. dir.db.owner # p
    BY <1>1, <2>1, Nothing DEF RecordsOK, Pending
  <2> QED
    BY <1>1, <1>4, <2>1, <2>2 DEF FilesOK
<1> QED
  BY <1>1, <1>3, <1>5, <1>6 DEF NothingMixed

\* No start finds half a profile, and none finds a deleted one again: in whichever
\* step of accept or finish the process dies, or in whichever the machine fails,
\* the profile that ProfileDeletion finds is whole, or its intent is there, and
\* once that is gone no file and no record of the profile is left.
THEOREM NothingEverMixed == Spec /\ OneKindOfCrash => []NothingMixed
<1>1. OneKindOfCrash /\ [Next]_vars => OneKindOfCrash'
  BY CrashesStay DEF OneKindOfCrash
<1>2. DeletionInv /\ OneKindOfCrash => NothingMixed
  BY Unmixed
<1> QED
  BY <1>1, <1>2, DeletionInvariant, PTL DEF Spec

\* A delayed worker of AuthDatabase, which opens the path of the database only
\* then, writes nothing of a deleted profile into the next one: retire_database
\* came before the intent, and the intent bars connections until it is gone.
THEOREM OldWorkersAlwaysStayOut == Spec => []OldWorkersStayOut
<1>1. DeletionInv => OldWorkersStayOut
  BY DEF DeletionInv, DirectoryOK, FilesOK, OldWorkersStayOut
<1> QED
  BY <1>1, DeletionInvariant, PTL

\* A confirmation that a lock, the background or a language change cancelled, in
\* whichever await of accept, never becomes an intent.
THEOREM CancelAlwaysHolds == Spec => []CancelHolds
<1>1. DeletionInv => CancelHolds
  BY DEF DeletionInv
<1> QED
  BY <1>1, DeletionInvariant, PTL

-----------------------------------------------------------------------------
(***************************************************************************)
(* The replacement of the plain database is safe against crashes for any   *)
(* number of attempts, commits, failures, kills and losses of power: what  *)
(* they leave holds everything committed, is accepted by the next sign-in, *)
(* and names every copy of content.                                        *)
(*                                                                         *)
(* The inductive invariant says of every directory that a loss of power    *)
(* may leave what the properties say, of every value of the secure storage *)
(* how far the creation of the key has come and that it fits each of these *)
(* directories, and of each step of the call what the steps before it have *)
(* already made certain.                                                   *)
(***************************************************************************)
-----------------------------------------------------------------------------
\* Types.

\* What a database file holds.
Databases == [format : {"plain", "cipher"}, rows : Nat, auth : Nat, open : BOOLEAN]
Files == {NoFile, EmptyFile, Part} \cup {Whole(d) : d \in Databases}
Directories == [db : Databases, wal : BOOLEAN, temps : [Temps -> Files],
              journal : [stage : {"none", "copying", "validated"}, temp : Temps \cup {None}]]
Storage == [phase : {"none", "prepared", "key_ready", "complete"}, digest : Seq(Nat),
            binding : BOOLEAN, key : BOOLEAN, protected : BOOLEAN]

\* The steps of the call that replaces the database.
Migrating == {"clean", "checkpoint", "mkstemp", "journal", "copy", "commit", "validate",
              "replace", "sync", "unlink", "sync_last", "migrated"}

\* Content outside the database file, and none of it in what the process sees.
Content(f, t) == f.temps[t].kind \in {"part", "whole"}
NoContent(f) == \A t \in Temps : ~Content(f, t)

\* A directory that holds what was committed and names its copies.
Sound(f) ==
  /\ f \in Directories
  /\ Sees(f.db) = truth
  /\ \A t \in Temps : Content(f, t) => f.journal.temp = t
  /\ f.db.format = "cipher" => ~f.wal

\* A secure storage from which a key is read, and one that any step may leave:
\* the key follows the binding, the flag follows the key.
Ready(s) == s.key /\ s.phase # "prepared"
Shaped(s) ==
  /\ s.key => s.binding
  /\ s.phase = "none" /\ s.binding => s.key
  /\ s.phase \in {"key_ready", "complete"} => s.key
  /\ s.phase = "complete" => s.protected
  /\ s.protected => Ready(s)

\* A directory f and a secure storage s that the next sign-in accepts together.
Fits(f, s) ==
  /\ s.protected => f.db.format = "cipher"
  /\ ~Ready(s) => f.db.format = "plain" /\ NothingBeside(f)
  /\ s.phase = "prepared" => ~f.db.open /\ s.digest = Digest(f.db)

\* What the secure storage may hold while the directory may be any of "states".
Usable == {s \in Storage : Shaped(s) /\ \A f \in states : Fits(f, s)}

-----------------------------------------------------------------------------
\* The invariant.

\* What a loss of power may leave: every directory is sound, every value of the
\* secure storage fits every directory, and no plain database is open but before
\* the start.
DisksSound ==
  /\ disk \in states
  /\ \A f \in states : Sound(f)
  /\ secure \in Usable /\ secured \in Usable
  /\ \/ run.pc = "down" /\ states = {disk}
     \/ \A f \in states : f.db.format = "plain" => ~f.db.open

\* How far the call has come with the key: it ends with a key to read, and has
\* one from there on.
Call ==
  /\ run \in [pc : {"down", "idle", "key", "confirm", "open"} \cup Migrating,
              temp : Temps \cup {None}, todo : Seq(Usable)]
  /\ run.pc \notin {"key", "confirm"} => run.todo = <<>>
  /\ run.pc = "key" =>
       /\ run.temp = None
       /\ IF run.todo = <<>> THEN Ready(secure) /\ Ready(secured)
                             ELSE Ready(run.todo[Len(run.todo)])
  /\ run.pc \in Migrating \cup {"confirm", "open"} => Ready(secure) /\ Ready(secured)
  /\ run.pc = "confirm" => \A i \in 1 .. Len(run.todo) : Ready(run.todo[i])

\* How far it has come with the copy: what is on disk at each step.
Copying ==
  /\ run.pc \in {"checkpoint", "mkstemp", "journal", "sync", "unlink"} => NoContent(disk)
  /\ run.pc \in {"mkstemp", "journal", "copy", "commit", "validate", "replace"} => ~disk.wal
  /\ run.pc \in {"journal", "copy", "commit", "validate", "replace"} =>
       run.temp \in Temps /\ disk.temps[run.temp] # NoFile
  /\ run.pc \in {"copy", "commit", "validate", "replace"} =>
       \A f \in states : f.journal.temp = run.temp
  /\ run.pc \in {"validate", "replace"} => disk.temps[run.temp] = Whole(disk.db)
  /\ run.pc \in {"sync", "unlink", "sync_last"} => ~Plain
  /\ run.pc \in {"migrated", "confirm", "open"} => states = {disk} /\ ~Plain

\* The inductive invariant.
SafeInv == DisksSound /\ Call /\ Copying

-----------------------------------------------------------------------------
\* Files and directories.

\* The kinds of files differ, and a whole copy is a cipher database with the rows
\* of the one it was made from.
LEMMA FileKinds ==
  /\ NoFile \in Files /\ EmptyFile \in Files /\ Part \in Files
  /\ \A d \in Databases : Whole(d) \in Files
  /\ NoFile.kind = "none" /\ EmptyFile.kind = "empty" /\ Part.kind = "part"
  /\ \A d : Whole(d).kind = "whole"
  /\ \A d \in Databases : Whole(d).db \in Databases
  /\ \A d \in Databases : /\ Whole(d).db.format = "cipher"
                         /\ Whole(d).db.rows = d.rows /\ Whole(d).db.auth = d.auth
  /\ EmptyFile # NoFile /\ Part # NoFile /\ \A d : Whole(d) # NoFile
<1>1. /\ NoFile.kind = "none" /\ EmptyFile.kind = "empty" /\ Part.kind = "part"
      /\ \A d : Whole(d).kind = "whole"
  BY DEF NoFile, EmptyFile, Part, Whole
<1>2. \A d : Whole(d).db = [d EXCEPT !.format = "cipher"]
  BY DEF Whole
<1> QED
  BY <1>1, <1>2 DEF Files, Databases

\* A directory with another file under one of the temporary names,
LEMMA WithFile ==
  ASSUME NEW f \in Directories, NEW t \in Temps, NEW x \in Files
  PROVE  LET g == [f EXCEPT !.temps[t] = x]
         IN  /\ g \in Directories /\ g.db = f.db /\ g.wal = f.wal /\ g.journal = f.journal
             /\ g.temps[t] = x
             /\ \A u \in Temps \ {t} : g.temps[u] = f.temps[u]
<1>1. f.temps \in [Temps -> Files]
  BY DEF Directories
<1>2. [f.temps EXCEPT ![t] = x] \in [Temps -> Files]
  BY <1>1
<1> QED
  BY <1>1, <1>2 DEF Directories

\* with another journal,
LEMMA WithJournal ==
  ASSUME NEW f \in Directories, NEW stage \in {"none", "copying", "validated"},
         NEW t \in Temps \cup {None}
  PROVE  LET g == [f EXCEPT !.journal = [stage |-> stage, temp |-> t]]
         IN  /\ g \in Directories /\ g.db = f.db /\ g.wal = f.wal /\ g.temps = f.temps
             /\ g.journal.temp = t
  BY DEF Directories

\* with another database file,
LEMMA WithDatabase ==
  ASSUME NEW f \in Directories, NEW d \in Databases
  PROVE  LET g == [f EXCEPT !.db = d]
         IN  /\ g \in Directories /\ g.db = d /\ g.wal = f.wal /\ g.temps = f.temps
             /\ g.journal = f.journal
  BY DEF Directories

\* and without the log beside it: all else is as before.
LEMMA WithoutWal ==
  ASSUME NEW f \in Directories
  PROVE  LET g == [f EXCEPT !.wal = FALSE]
         IN  /\ g \in Directories /\ g.db = f.db /\ g.wal = FALSE /\ g.temps = f.temps
             /\ g.journal = f.journal
  BY DEF Directories

-----------------------------------------------------------------------------
\* What the invariant says of the properties.

\* A sign-in after the start accepts a directory and a storage that fit.
LEMMA FittingIsAccepted ==
  ASSUME NEW f \in Directories, NEW s \in Storage, Shaped(s), Fits(f, s)
  PROVE  LET plain == f.db.format = "plain" /\ f.db.open
             started == IF plain THEN [f EXCEPT !.db.open = FALSE, !.db.rows = @ + 1] ELSE f
         IN  CanTakeKey(started, s)
<1> DEFINE plain == f.db.format = "plain" /\ f.db.open
           g == [f EXCEPT !.db.open = FALSE, !.db.rows = @ + 1]
           started == IF plain THEN g ELSE f
<1>1. /\ started.db.format = f.db.format
      /\ started.temps = f.temps /\ started.journal = f.journal
      /\ ~plain => started = f
  <2>1. /\ g.temps = f.temps /\ g.journal = f.journal
        /\ g.db.format = f.db.format
    BY DEF Directories, Databases
  <2> HIDE DEF g
  <2> QED
    BY <2>1
<1>2. s.phase = "prepared" => ~plain /\ s.digest = Digest(f.db)
  BY DEF Fits
<1>3. NothingBeside(started) <=> NothingBeside(f)
  BY <1>1 DEF NothingBeside
<1> HIDE DEF started, plain
<1>4. s.protected \/ s.phase = "complete" => started.db.format = "cipher"
  BY <1>1 DEF Shaped, Fits
<1>5. ~s.binding => started.db.format = "plain" /\ ~s.key /\ s.phase \in {"none", "prepared"}
  BY <1>1 DEF Shaped, Fits, Ready, Storage
<1>6. ~Ready(s) => /\ Prepares(started, s)
                   /\ started.db.format = "plain" /\ NothingBeside(started)
  BY <1>1, <1>3 DEF Shaped, Fits, Ready, Storage, Prepares
<1>7. Prepares(started, s) => ~Ready(s)
  BY DEF Prepares, Ready
<1>8. s.phase = "prepared" => s.digest = Digest(started.db)
  BY <1>1, <1>2
<1> QED
  BY <1>4, <1>5, <1>6, <1>7, <1>8 DEF CanTakeKey, Ready, started, plain

\* The invariant implies the property.
LEMMA InvIsSafe == SafeInv => CrashSafe
<1> SUFFICES ASSUME SafeInv PROVE CrashSafe
  OBVIOUS
<1> USE DEF SafeInv, DisksSound
<1>1. NothingLost
  BY DEF NothingLost, Sound
<1>2. CopiesAccounted
  BY DEF CopiesAccounted, Sound, Content
<1>3. NeverRefused
  <2> SUFFICES ASSUME NEW f \in states, NEW s \in {secure, secured}
               PROVE  LET plain == f.db.format = "plain" /\ f.db.open
                          started == IF plain THEN [f EXCEPT !.db.open = FALSE, !.db.rows = @ + 1]
                                              ELSE f
                      IN  CanTakeKey(started, s)
    BY DEF NeverRefused
  <2>1. f \in Directories /\ s \in Storage /\ Shaped(s) /\ Fits(f, s)
    BY DEF Sound, Usable
  <2> QED
    BY <2>1, FittingIsAccepted
<1> QED
  BY <1>1, <1>2, <1>3 DEF CrashSafe

-----------------------------------------------------------------------------
\* The writes to the secure storage.

\* A sequence of one element.
LEMMA One ==
  ASSUME NEW S, NEW x \in S
  PROVE  <<x>> \in Seq(S) /\ Len(<<x>>) = 1 /\ <<x>>[1] = x
  OBVIOUS

\* Appending to acceptable writes: what comes last.
LEMMA Appended ==
  ASSUME NEW S, NEW s \in Seq(S), NEW x \in S
  PROVE  /\ s \o <<x>> \in Seq(S)
         /\ s \o <<x>> # <<>>
         /\ (s \o <<x>>)[Len(s \o <<x>>)] = x
<1>1. /\ s \o <<x>> \in Seq(S)
      /\ Len(s \o <<x>>) = Len(s) + 1
      /\ (s \o <<x>>)[Len(s) + 1] = x
  BY ConcatProperties, One
<1> QED
  BY <1>1, EmptySeq

\* Creating the key, or going on with it, passes through acceptable values only
\* and ends with a key to read.
LEMMA KeyWritesAccepted ==
  ASSUME DisksSound, run.pc = "idle", CanTakeKey(disk, secure)
  PROVE  /\ KeyWrites \in Seq(Usable) /\ KeyWrites # <<>>
         /\ Ready(KeyWrites[Len(KeyWrites)])
<1> DEFINE prepared == [secure EXCEPT !.phase = "prepared", !.digest = Digest(disk.db)]
           bound == [prepared EXCEPT !.binding = TRUE]
           keyed == [bound EXCEPT !.key = TRUE]
           last == [keyed EXCEPT !.phase = "key_ready"]
<1>1. secure \in Storage /\ Shaped(secure) /\ \A f \in states : Fits(f, secure)
  BY DEF DisksSound, Usable
<1>2. CASE ~Prepares(disk, secure)
  <2>1. KeyWrites = <<secure>>
    BY <1>2 DEF KeyWrites
  <2>2. secure.key /\ secure.phase # "prepared"
    BY <1>2 DEF CanTakeKey, Prepares
  <2>3. secure \in Usable
    BY DEF DisksSound
  <2> QED
    BY <2>1, <2>2, <2>3, One, EmptySeq DEF Ready
<1>3. CASE Prepares(disk, secure)
  <2>1. ~Ready(secure) /\ ~secure.protected
    BY <1>1, <1>3 DEF Prepares, Ready, Shaped
  <2>2. \A f \in states : /\ f.db.format = "plain" /\ NothingBeside(f) /\ ~f.db.open
                          /\ Digest(f.db) = Digest(disk.db)
    <3> SUFFICES ASSUME NEW f \in states
                 PROVE  /\ f.db.format = "plain" /\ NothingBeside(f) /\ ~f.db.open
                        /\ Digest(f.db) = Digest(disk.db)
      OBVIOUS
    <3>1. f.db.format = "plain" /\ NothingBeside(f)
      BY <1>1, <2>1 DEF Fits
    <3>2. ~f.db.open
      BY <3>1 DEF DisksSound
    <3>3. Sees(f.db) = Sees(disk.db)
      BY DEF DisksSound, Sound
    <3> QED
      BY <3>1, <3>2, <3>3 DEF Sees, Digest
  <2>3. Digest(disk.db) \in Seq(Nat)
    BY DEF Digest, DisksSound, Sound, Directories, Databases
  <2>4. /\ prepared \in Storage /\ bound \in Storage /\ keyed \in Storage /\ last \in Storage
        /\ prepared.phase = "prepared" /\ bound.phase = "prepared" /\ keyed.phase = "prepared"
        /\ last.phase = "key_ready"
        /\ \A s \in {prepared, bound, keyed, last} :
             ~s.protected /\ s.digest = Digest(disk.db)
        /\ prepared.key => prepared.binding
        /\ bound.binding /\ keyed.binding /\ last.binding
        /\ keyed.key /\ last.key
    <3>1. /\ prepared \in Storage /\ prepared.phase = "prepared"
          /\ prepared.protected = FALSE
          /\ prepared.digest = Digest(disk.db)
          /\ prepared.key => prepared.binding
      BY <1>1, <2>1, <2>3 DEF Storage, Shaped
    <3> HIDE DEF prepared
    <3>2. /\ bound \in Storage /\ bound.phase = prepared.phase
          /\ bound.protected = prepared.protected
          /\ bound.digest = prepared.digest /\ bound.binding = TRUE
      BY <3>1 DEF Storage
    <3> HIDE DEF bound
    <3>3. /\ keyed \in Storage /\ keyed.phase = bound.phase
          /\ keyed.protected = bound.protected
          /\ keyed.digest = bound.digest /\ keyed.binding = TRUE /\ keyed.key = TRUE
      BY <3>2 DEF Storage
    <3> HIDE DEF keyed
    <3>4. /\ last \in Storage /\ last.phase = "key_ready"
          /\ last.protected = keyed.protected
          /\ last.digest = keyed.digest /\ last.binding = TRUE /\ last.key = TRUE
      BY <3>3 DEF Storage
    <3> HIDE DEF last
    <3> QED
      BY <3>1, <3>2, <3>3, <3>4
  <2> HIDE DEF prepared, bound, keyed, last
  <2>5. /\ prepared \in Usable /\ bound \in Usable
        /\ keyed \in Usable /\ last \in Usable
    BY <2>2, <2>4 DEF Usable, Shaped, Fits, Ready
  <2>6. KeyWrites = ((IF secure.phase = "none" THEN <<prepared>> ELSE <<>>)
                      \o <<bound>> \o (IF secure.key THEN <<>> ELSE <<keyed>>)) \o <<last>>
    BY <1>3 DEF KeyWrites, prepared, bound, keyed, last
  <2>7. /\ <<>> \in Seq(Usable) /\ <<prepared>> \in Seq(Usable)
        /\ <<bound>> \in Seq(Usable) /\ <<keyed>> \in Seq(Usable)
    BY <2>5, One, EmptySeq
  <2>8. ((IF secure.phase = "none" THEN <<prepared>> ELSE <<>>)
          \o <<bound>> \o (IF secure.key THEN <<>> ELSE <<keyed>>)) \in Seq(Usable)
    BY <2>7, ConcatProperties
  <2>9. Ready(last)
    BY <2>4 DEF Ready
  <2> QED
    BY <2>5, <2>6, <2>8, <2>9, Appended
<1> QED
  BY <1>2, <1>3

\* Confirming the migration marks the database as protected, then closes the record
\* of the initialization.
LEMMA ConfirmWritesAccepted ==
  ASSUME secure \in Storage, Shaped(secure), Ready(secure),
         NEW G, G = {s \in Storage : Shaped(s) /\ Ready(s)}
  PROVE  ConfirmWrites \in Seq(G)
<1> DEFINE protected == [secure EXCEPT !.protected = TRUE]
           last == [protected EXCEPT !.phase = "complete"]
<1>1. /\ protected \in Storage /\ protected.key = secure.key /\ protected.phase = secure.phase
      /\ protected.binding = secure.binding /\ protected.protected
  BY DEF Storage
<1>2. protected \in G
  <2> HIDE DEF protected
  <2> QED
    BY <1>1 DEF Shaped, Ready, Storage
<1> HIDE DEF protected
<1>3. /\ last \in Storage /\ last.key = secure.key /\ last.phase = "complete"
      /\ last.binding = secure.binding /\ last.protected
  BY <1>1 DEF Storage
<1>4. last \in G
  <2> HIDE DEF last
  <2> QED
    BY <1>3 DEF Shaped, Ready, Storage
<1>5. ConfirmWrites = (IF secure.protected THEN <<>> ELSE <<protected>>)
                      \o (IF secure.phase \in {"none", "complete"} THEN <<>> ELSE <<last>>)
  BY DEF ConfirmWrites, protected, last
<1>6. <<>> \in Seq(G) /\ <<protected>> \in Seq(G) /\ <<last>> \in Seq(G)
  BY <1>2, <1>4, One, EmptySeq
<1> QED
  BY <1>5, <1>6, ConcatProperties

-----------------------------------------------------------------------------
\* The initial state, and the steps that leave the files alone.

\* The first start satisfies the invariant.
LEMMA SafeInit == MigrationInit => SafeInv
<1> SUFFICES ASSUME MigrationInit PROVE SafeInv
  OBVIOUS
<1>1. /\ states = {disk} /\ truth = [rows |-> 0, auth |-> 0]
      /\ run = [pc |-> "down", temp |-> None, todo |-> <<>>]
      /\ secured = secure
  BY DEF MigrationInit
<1>2. /\ disk.db \in [format : {"plain"}, rows : {0}, auth : {0}, open : BOOLEAN]
      /\ disk.temps = [t \in Temps |-> NoFile]
      /\ disk.journal = NoJournal
      /\ disk \in Directories
  <2>1. disk \in [db : [format : {"plain"}, rows : {0}, auth : {0}, open : BOOLEAN],
                  wal : BOOLEAN, temps : {[t \in Temps |-> NoFile]}, journal : {NoJournal}]
    BY DEF MigrationInit
  <2>2. [t \in Temps |-> NoFile] \in [Temps -> Files]
    BY FileKinds
  <2>3. NoJournal \in [stage : {"none", "copying", "validated"}, temp : Temps \cup {None}]
    BY DEF NoJournal
  <2>4. disk.db \in Databases
    BY <2>1 DEF Databases
  <2> QED
    BY <2>1, <2>2, <2>3, <2>4 DEF Directories
<1>3. \A t \in Temps : disk.temps[t] = NoFile /\ ~Content(disk, t)
  BY <1>2, FileKinds DEF Content
<1>4. Sound(disk)
  BY <1>1, <1>2, <1>3 DEF Sound, Sees
<1>5. secure \in Usable
  <2>1. <<>> \in Seq(Nat)
    BY EmptySeq
  <2>2. /\ secure \in Storage /\ secure.phase = "none" /\ ~secure.protected
        /\ secure.binding = secure.key
    BY <2>1 DEF MigrationInit, Storage
  <2>3. NothingBeside(disk)
    BY <1>2, <1>3 DEF NothingBeside
  <2> QED
    BY <1>1, <1>2, <2>2, <2>3 DEF Usable, Shaped, Fits, Ready
<1>6. run.todo \in Seq(Usable)
  BY <1>1, EmptySeq
<1> QED
  BY <1>1, <1>4, <1>5, <1>6 DEF SafeInv, DisksSound, Call, Copying, Migrating

\* Starting the sign-in keeps it.
LEMMA UnlockSafe == SafeInv /\ Unlock => SafeInv'
<1> SUFFICES ASSUME SafeInv, Unlock PROVE SafeInv'
  OBVIOUS
<1> USE DEF SafeInv
<1>1. /\ run.pc = "idle" /\ UNCHANGED <<disk, states, secure, secured, truth>>
      /\ run' = [pc |-> "key", temp |-> None, todo |-> KeyWrites]
      /\ CanTakeKey(disk, secure)
  BY DEF Unlock, AtStep
<1>2. /\ KeyWrites \in Seq(Usable) /\ KeyWrites # <<>>
      /\ Ready(KeyWrites[Len(KeyWrites)])
  BY <1>1, KeyWritesAccepted
<1>3. Usable' = Usable /\ DisksSound'
  BY <1>1 DEF DisksSound, Usable, Sound
<1> HIDE DEF SafeInv
<1>4. Call'
  BY <1>1, <1>2, <1>3 DEF Call, Migrating
<1>5. Copying'
  BY <1>1 DEF Copying
<1> QED
  BY <1>3, <1>4, <1>5 DEF SafeInv

\* So do the writes to the secure storage, and their reaching the disk.
LEMMA StorageSafe == SafeInv /\ (StoreWrites \/ StoreSyncs) => SafeInv'
<1> SUFFICES ASSUME SafeInv, StoreWrites \/ StoreSyncs PROVE SafeInv'
  OBVIOUS
<1> USE DEF SafeInv
<1>1. /\ run.pc \in {"key", "confirm"} /\ run.todo # <<>>
      /\ UNCHANGED <<disk, states, truth>>
      /\ run.todo \in Seq(Usable)
      /\ run' \in [pc : {run.pc}, temp : {run.temp}, todo : {run.todo, Tail(run.todo)}]
  BY DEF StoreWrites, StoreSyncs, Call
<1>2. /\ Head(run.todo) \in Usable
      /\ Tail(run.todo) \in Seq(Usable)
      /\ Len(run.todo) \in Nat \ {0}
      /\ Head(run.todo) = run.todo[1]
      /\ Len(Tail(run.todo)) = Len(run.todo) - 1
      /\ \A i \in 1 .. Len(Tail(run.todo)) : Tail(run.todo)[i] = run.todo[i + 1]
  BY <1>1, HeadTailProperties, EmptySeq
<1>3. /\ secure' \in Usable /\ secured' \in Usable
      /\ Usable' = Usable
  BY <1>1, <1>2 DEF DisksSound, StoreWrites, StoreSyncs, Usable
<1>4. DisksSound'
  BY <1>1, <1>3 DEF DisksSound, Sound
<1>5. run.pc = "confirm" => Ready(secure) /\ Ready(secured) /\ Ready(Head(run.todo))
  BY <1>2 DEF Call
<1>6. run.pc = "key" => run.temp = None /\ Ready(run.todo[Len(run.todo)])
  BY <1>1 DEF Call
<1>7. CASE StoreWrites
  <2>1. secure' = Head(run.todo) /\ secured' = secured /\ run' = run
    BY <1>7 DEF StoreWrites
  <2>2. Call'
    BY <1>1, <1>3, <1>5, <2>1 DEF Call, Migrating
  <2>3. Copying'
    BY <1>1, <2>1 DEF Copying, NoContent, Plain
  <2> QED
    BY <1>4, <2>2, <2>3
<1>8. CASE StoreSyncs
  <2>1. /\ secure = Head(run.todo) /\ secure' = secure /\ secured' = secure
        /\ run'.pc = run.pc /\ run'.temp = run.temp /\ run'.todo = Tail(run.todo)
        /\ run' = [pc |-> run.pc, temp |-> run.temp, todo |-> Tail(run.todo)]
    BY <1>8 DEF StoreSyncs, Call
  <2>2. run.pc = "key" => IF run'.todo = <<>> THEN Ready(secure') /\ Ready(secured')
                          ELSE Ready(run'.todo[Len(run'.todo)])
    <3>1. CASE Len(run.todo) = 1
      BY <1>2, <1>6, <2>1, <3>1, EmptySeq
    <3>2. CASE Len(run.todo) # 1
      <4> DEFINE rest == Tail(run.todo)
                 n == Len(run.todo)
                 m == Len(rest)
      <4>1. /\ n \in Nat \ {0} /\ n # 1 /\ m = n - 1
            /\ \A i \in 1 .. m : rest[i] = run.todo[i + 1]
        BY <1>2, <3>2
      <4>2. rest[m] = run.todo[n]
        <5> HIDE DEF m, n, rest
        <5>1. m \in 1 .. m /\ m + 1 = n
          BY <4>1
        <5> QED
          BY <4>1, <5>1
      <4>3. rest # <<>>
        <5>1. rest = <<>> => m = 0
          BY EmptySeq
        <5> HIDE DEF m, n, rest
        <5> QED
          BY <4>1, <5>1
      <4> QED
        BY <1>6, <2>1, <4>2, <4>3
    <3> QED
      BY <3>1, <3>2
  <2>3. run.pc = "confirm" => \A i \in 1 .. Len(run'.todo) : Ready(run'.todo[i])
    BY <1>2, <2>1 DEF Call
  <2>4. Call'
    BY <1>1, <1>2, <1>3, <1>5, <1>6, <2>1, <2>2, <2>3 DEF Call, Migrating
  <2>5. Copying'
    BY <1>1, <2>1 DEF Copying, NoContent, Plain
  <2> QED
    BY <1>4, <2>4, <2>5
<1> QED
  BY <1>7, <1>8

\* Steps of the process that change neither the files nor the secure storage.
LEMMA QuietSafe == SafeInv /\ (Begin \/ Opens \/ Lock \/ Killed) => SafeInv'
<1> SUFFICES ASSUME SafeInv, Begin \/ Opens \/ Lock \/ Killed PROVE SafeInv'
  OBVIOUS
<1> USE DEF SafeInv
<1>1. UNCHANGED <<disk, states, secure, secured, truth>> /\ run.pc # "down"
  BY DEF Begin, Opens, Lock, Killed, File, AtStep
<1>2. Usable' = Usable
  BY <1>1 DEF Usable
<1>3. DisksSound'
  BY <1>1, <1>2 DEF DisksSound, Sound
<1>4. /\ <<>> \in Seq(Usable)
      /\ run \in [pc : {"down", "idle", "key", "confirm", "open"} \cup Migrating,
                  temp : Temps \cup {None}, todo : Seq(Usable)]
  BY EmptySeq DEF Call
<1>5. CASE Lock \/ Killed
  <2>1. run' \in [pc : {"idle", "down"}, temp : {None}, todo : {<<>>}]
    BY <1>5 DEF Lock, Killed, Idle, Down
  <2>2. Call'
    BY <1>2, <1>4, <2>1 DEF Call, Migrating
  <2>3. Copying'
    BY <2>1 DEF Copying
  <2>4. DisksSound'
    BY <1>3
  <2> QED
    BY <2>2, <2>3, <2>4
<1>6. CASE Begin \/ Opens
  <2>1. /\ run.pc \in {"key", "confirm"} /\ run.todo = <<>>
        /\ run'.pc = (IF run.pc = "key" THEN "clean" ELSE "open")
        /\ run'.temp = run.temp /\ run'.todo = <<>>
        /\ run' = [pc |-> run'.pc, temp |-> run'.temp, todo |-> run'.todo]
    BY <1>4, <1>6 DEF Begin, Opens, AtStep, Goes
  <2>2. Ready(secure) /\ Ready(secured)
    BY <2>1 DEF Call
  <2>3. Call'
    BY <1>1, <1>2, <1>4, <2>1, <2>2 DEF Call, Migrating
  <2>4. Copying'
    BY <1>1, <2>1 DEF Copying, Plain
  <2> QED
    BY <1>3, <2>3, <2>4
<1> QED
  BY <1>5, <1>6

-----------------------------------------------------------------------------
\* Commits.

\* A commit leaves one directory, which fits what the old ones did as long as the
\* digest of an unfinished preparation still describes the rows.
LEMMA CommitFits ==
  ASSUME DisksSound, NEW d \in Databases, d.format = disk.db.format,
         Commit(d), Sees(d) = truth',
         secure' = secure, secured' = secured,
         \A s \in {secure, secured} :
           s.phase = "prepared" => ~d.open /\ Digest(d) = Digest(disk.db)
  PROVE  /\ states' = {disk'}
         /\ \A f \in states' : Sound(f)'
         /\ secure' \in Usable' /\ secured' \in Usable'
         /\ disk'.db = d /\ disk'.temps = disk.temps
<1>1. disk \in Directories /\ Sound(disk)
  BY DEF DisksSound, Sound
<1>2. /\ disk' = [disk EXCEPT !.db = d] /\ states' = {disk'}
  BY DEF Commit
<1>3. /\ disk' \in Directories /\ disk'.db = d /\ disk'.wal = disk.wal
      /\ disk'.temps = disk.temps /\ disk'.journal = disk.journal
  BY <1>1, <1>2, WithDatabase
<1>5. \A s \in {secure, secured} : Fits(disk', s)
  <2> SUFFICES ASSUME NEW s \in {secure, secured} PROVE Fits(disk', s)
    OBVIOUS
  <2>1. Fits(disk, s)
    BY DEF DisksSound, Usable
  <2>2. NothingBeside(disk') <=> NothingBeside(disk)
    BY <1>3 DEF NothingBeside
  <2> QED
    BY <1>3, <2>1, <2>2 DEF Fits
<1>6. Sound(disk)'
  BY <1>1, <1>3 DEF Sound, Content
<1> QED
  BY <1>2, <1>3, <1>5, <1>6 DEF DisksSound, Usable

\* A database with one row more, opened or closed.
LEMMA WithColumns ==
  ASSUME NEW d \in Databases, NEW open \in BOOLEAN
  PROVE  LET a == [d EXCEPT !.open = open, !.rows = @ + 1]
             b == [d EXCEPT !.rows = @ + 1, !.open = open]
         IN  /\ a \in Databases /\ a.format = d.format /\ a.open = open
             /\ a.rows = d.rows + 1 /\ a.auth = d.auth
             /\ b \in Databases /\ b.format = d.format /\ b.open = open
             /\ b.rows = d.rows + 1 /\ b.auth = d.auth
<1> DEFINE e == [d EXCEPT !.open = open]
           a == [e EXCEPT !.rows = @ + 1]
<1>1. /\ e \in Databases /\ e.format = d.format /\ e.open = open
      /\ e.rows = d.rows /\ e.auth = d.auth
  BY DEF Databases
<1>2. /\ [d EXCEPT !.open = open, !.rows = @ + 1] = a
      /\ [d EXCEPT !.rows = @ + 1, !.open = open] = a
  BY DEF Databases
<1>3. /\ a \in Databases /\ a.format = e.format /\ a.open = e.open
      /\ a.rows = e.rows + 1 /\ a.auth = e.auth
  <2> HIDE DEF e
  <2> QED
    BY <1>1 DEF Databases
<1> QED
  BY <1>1, <1>2, <1>3

\* What was committed is what the directory's database shows.
LEMMA TruthType == DisksSound => truth = Sees(disk.db) /\ truth \in [rows : Nat, auth : Nat]
  BY DEF DisksSound, Sound, Sees, Directories, Databases

\* The recovery of interrupted turns.
LEMMA RecoveredFits ==
  ASSUME DisksSound, Recovered, secure' = secure, secured' = secured,
         disk.db.open => \A s \in {secure, secured} : s.phase # "prepared"
  PROVE  /\ \A f \in states' : Sound(f)'
         /\ secure' \in Usable' /\ secured' \in Usable'
         /\ disk'.db.format = disk.db.format /\ disk'.temps = disk.temps
         /\ disk.db.open => states' = {disk'} /\ ~disk'.db.open
         /\ ~disk.db.open => UNCHANGED <<disk, states, truth>>
<1>1. disk.db \in Databases
  BY DEF DisksSound, Sound, Directories
<1>2. CASE disk.db.open
  <2> DEFINE d == [disk.db EXCEPT !.open = FALSE, !.rows = @ + 1]
  <2>1. Commit(d) /\ truth' = [truth EXCEPT !.rows = @ + 1]
    BY <1>2 DEF Recovered
  <2>2. /\ d \in Databases /\ d.format = disk.db.format /\ d.open = FALSE
        /\ d.rows = disk.db.rows + 1 /\ d.auth = disk.db.auth
    BY <1>1, WithColumns
  <2>3. Sees(d) = truth'
    BY <1>1, <2>1, <2>2, TruthType DEF Sees
  <2> HIDE DEF d
  <2> QED
    BY <1>2, <2>1, <2>2, <2>3, CommitFits
<1>3. CASE ~disk.db.open
  <2>1. UNCHANGED <<disk, states, truth>>
    BY <1>3 DEF Recovered
  <2> QED
    BY <1>3, <2>1 DEF DisksSound, Sound, Usable
<1> QED
  BY <1>2, <1>3

\* Starting the program,
LEMMA StartSafe == SafeInv /\ Start => SafeInv'
<1> SUFFICES ASSUME SafeInv, Start PROVE SafeInv'
  OBVIOUS
<1> USE DEF SafeInv
<1>1. /\ run.pc = "down" /\ run.todo = <<>>
      /\ run' = [run EXCEPT !.pc = "idle"]
      /\ secure' = secure /\ secured' = secured
  BY DEF Start, AtStep, Goes, Call
<1>2. run' \in [pc : {"idle"}, temp : Temps \cup {None}, todo : {<<>>}]
  BY <1>1 DEF Call
<1>3. DisksSound'
  <2>1. CASE Plain
    <3>1. disk.db.open => \A s \in {secure, secured} : s.phase # "prepared"
      BY DEF DisksSound, Usable, Fits
    <3>2. Recovered
      BY <2>1 DEF Start
    <3>3. CASE disk.db.open
      BY <1>1, <3>1, <3>2, <3>3, RecoveredFits DEF DisksSound
    <3>4. CASE ~disk.db.open
      BY <1>1, <3>1, <3>2, <3>4, RecoveredFits DEF DisksSound
    <3> QED
      BY <3>3, <3>4
  <2>2. CASE ~Plain
    <3>1. UNCHANGED <<disk, states, truth>>
      BY <2>2 DEF Start
    <3> QED
      BY <1>1, <2>2, <3>1 DEF DisksSound, Sound, Usable, Plain
  <2> QED
    BY <2>1, <2>2
<1>4. Call'
  BY <1>2, EmptySeq DEF Call, Migrating
<1>5. Copying'
  BY <1>2 DEF Copying
<1> QED
  BY <1>3, <1>4, <1>5

\* refusing a wrong PIN,
LEMMA WrongPinSafe == SafeInv /\ WrongPin => SafeInv'
<1> SUFFICES ASSUME SafeInv, WrongPin PROVE SafeInv'
  OBVIOUS
<1> USE DEF SafeInv
<1> DEFINE d == [disk.db EXCEPT !.auth = @ + 1]
<1>1. /\ run.pc = "idle" /\ run.todo = <<>>
      /\ Commit(d) /\ truth' = [truth EXCEPT !.auth = @ + 1]
      /\ UNCHANGED <<secure, secured, run>>
  BY DEF WrongPin, AtStep, Call
<1>2. disk.db \in Databases
  BY DEF DisksSound, Sound, Directories
<1>3. /\ d \in Databases /\ d.format = disk.db.format /\ d.open = disk.db.open
      /\ d.rows = disk.db.rows /\ d.auth = disk.db.auth + 1
  BY <1>2 DEF Databases
<1>4. Sees(d) = truth'
  BY <1>1, <1>2, <1>3, TruthType DEF Sees
<1>5. \A s \in {secure, secured} :
        s.phase = "prepared" => ~d.open /\ Digest(d) = Digest(disk.db)
  BY <1>3 DEF DisksSound, Usable, Fits, Digest
<1>6. disk.db.format = "plain" => ~disk.db.open
  BY <1>1 DEF DisksSound
<1> HIDE DEF d
<1>7. /\ states' = {disk'}
      /\ \A f \in states' : Sound(f)'
      /\ secure' \in Usable' /\ secured' \in Usable'
      /\ disk'.db = d
  BY <1>1, <1>3, <1>4, <1>5, CommitFits
<1>8. DisksSound'
  BY <1>3, <1>6, <1>7 DEF DisksSound
<1>9. Call'
  BY <1>1, EmptySeq DEF Call, Migrating
<1>10. Copying'
  BY <1>1 DEF Copying
<1> QED
  BY <1>8, <1>9, <1>10

\* committing a change,
LEMMA ChangeSafe == SafeInv /\ Change => SafeInv'
<1> SUFFICES ASSUME SafeInv, Change PROVE SafeInv'
  OBVIOUS
<1> USE DEF SafeInv
<1>1. PICK turn \in BOOLEAN : Commit([disk.db EXCEPT !.rows = @ + 1, !.open = turn])
  BY DEF Change
<1> DEFINE d == [disk.db EXCEPT !.rows = @ + 1, !.open = turn]
<1>2. /\ run.pc = "open" /\ run.todo = <<>>
      /\ truth' = [truth EXCEPT !.rows = @ + 1]
      /\ UNCHANGED <<secure, secured, run>>
  BY DEF Change, AtStep, Call
<1>3. disk.db \in Databases
  BY DEF DisksSound, Sound, Directories
<1>4. /\ d \in Databases /\ d.format = disk.db.format
      /\ d.rows = disk.db.rows + 1 /\ d.auth = disk.db.auth
  BY <1>3, WithColumns
<1>5. Sees(d) = truth'
  BY <1>2, <1>3, <1>4, TruthType DEF Sees
<1>6. Ready(secure) /\ Ready(secured) /\ disk.db.format # "plain"
  BY <1>2 DEF Call, Copying, Plain
<1>7. Commit(d)
  BY <1>1
<1> HIDE DEF d
<1>8. /\ states' = {disk'}
      /\ \A f \in states' : Sound(f)'
      /\ secure' \in Usable' /\ secured' \in Usable'
      /\ disk'.db = d
  BY <1>2, <1>4, <1>5, <1>6, <1>7, CommitFits DEF Ready
<1>9. DisksSound'
  BY <1>4, <1>6, <1>8 DEF DisksSound
<1>10. Call'
  BY <1>2, EmptySeq DEF Call, Migrating
<1>11. Copying'
  BY <1>2, <1>4, <1>6, <1>8 DEF Copying, Plain
<1> QED
  BY <1>9, <1>10, <1>11

\* and the one-time recovery keep the invariant.
LEMMA RecoverOnceSafe == SafeInv /\ RecoverOnce => SafeInv'
<1> SUFFICES ASSUME SafeInv, RecoverOnce PROVE SafeInv'
  OBVIOUS
<1> USE DEF SafeInv
<1>1. /\ run.pc = "migrated"
      /\ run' = [run EXCEPT !.pc = "confirm", !.todo = ConfirmWrites]
      /\ secure' = secure /\ secured' = secured
      /\ Recovered \/ UNCHANGED <<disk, states, truth>>
  BY DEF RecoverOnce, AtStep
<1>2. /\ Ready(secure) /\ Ready(secured) /\ states = {disk} /\ ~Plain
  BY <1>1 DEF Call, Copying, Migrating
<1>3. /\ \A f \in states' : Sound(f)'
      /\ secure' \in Usable' /\ secured' \in Usable'
      /\ states' = {disk'}
      /\ disk'.db.format = disk.db.format
  <2>1. CASE UNCHANGED <<disk, states, truth>>
    BY <1>1, <1>2, <2>1 DEF DisksSound, Sound, Usable
  <2>2. CASE Recovered
    BY <1>1, <1>2, <2>2, RecoveredFits DEF Ready
  <2> QED
    BY <1>1, <2>1, <2>2
<1>4. disk'.db.format = "cipher"
  BY <1>2, <1>3 DEF Plain, DisksSound, Sound, Directories, Databases
<1>5. DisksSound'
  BY <1>3, <1>4 DEF DisksSound
<1> DEFINE G == {s \in Storage : Shaped(s) /\ Ready(s)}
<1>6. ConfirmWrites \in Seq(G)
  <2>1. secure \in Storage /\ Shaped(secure)
    BY DEF DisksSound, Usable
  <2> QED
    BY <1>2, <2>1, ConfirmWritesAccepted
<1>7. \A s \in G : s \in Usable'
  BY <1>3, <1>4 DEF Usable, Fits, Ready
<1> HIDE DEF G
<1>8. /\ ConfirmWrites \in Seq(Usable')
      /\ \A i \in 1 .. Len(ConfirmWrites) : ConfirmWrites[i] \in G
  BY <1>6, <1>7, ElementOfSeq, SeqMonotonic
<1>9. run' \in [pc : {"confirm"}, temp : Temps \cup {None}, todo : {ConfirmWrites}]
  BY <1>1 DEF Call
<1>10. Call'
  BY <1>1, <1>2, <1>8, <1>9 DEF Call, Migrating, G
<1>11. Copying'
  BY <1>3, <1>4, <1>9 DEF Copying, Plain
<1> QED
  BY <1>5, <1>10, <1>11

-----------------------------------------------------------------------------
\* The steps of migrate_database.

\* Once there is a key to read, directories that are sound and make no encrypted
\* database plain again are all that the invariant asks of a step.
LEMMA FilesStep ==
  ASSUME SafeInv, run.pc # "down", Ready(secure), Ready(secured),
         UNCHANGED <<secure, secured, truth>>,
         disk' \in states',
         \A g \in states' : /\ Sound(g)
                            /\ g.db.format = "plain" => \E f \in states : g.db = f.db
  PROVE  DisksSound'
<1> USE DEF SafeInv
<1>1. \A g \in states' : g.db.format = "plain" => ~g.db.open
  BY DEF DisksSound
<1>2. ASSUME NEW s \in {secure, secured}, NEW g \in states' PROVE Fits(g, s)
  <2>1. g.db.format \in {"plain", "cipher"}
    BY DEF Sound, Directories, Databases
  <2>2. Ready(s) /\ s.phase # "prepared" /\ \A f \in states : Fits(f, s)
    BY DEF DisksSound, Usable, Ready
  <2>3. s.protected => g.db.format = "cipher"
    <3> SUFFICES ASSUME s.protected, g.db.format = "plain" PROVE FALSE
      BY <2>1
    <3>1. PICK f \in states : g.db = f.db
      OBVIOUS
    <3> QED
      BY <2>2, <3>1 DEF Fits
  <2> QED
    BY <2>2, <2>3 DEF Fits
<1>3. secure \in Storage /\ Shaped(secure) /\ secured \in Storage /\ Shaped(secured)
  BY DEF DisksSound, Usable
<1>4. secure' \in Usable' /\ secured' \in Usable'
  BY <1>2, <1>3 DEF Usable
<1> QED
  BY <1>1, <1>4 DEF DisksSound, Sound

\* A step from one point of the replacement to another keeps the key.
LEMMA MigratingCall ==
  ASSUME SafeInv, run.pc \in Migrating,
         secure' = secure, secured' = secured,
         run' \in [pc : Migrating, temp : Temps \cup {None}, todo : {<<>>}]
  PROVE  Call'
<1>1. Ready(secure) /\ Ready(secured)
  BY DEF SafeInv, Call
<1>2. <<>> \in Seq(Usable')
  BY EmptySeq
<1> QED
  BY <1>1, <1>2 DEF Call, Migrating

\* Removing a file, and creating an empty one, keep a directory sound.
LEMMA SoundWithFile ==
  ASSUME NEW f \in Directories, Sound(f), NEW t \in Temps, NEW x \in Files,
         x.kind \in {"part", "whole"} => f.journal.temp = t
  PROVE  LET g == [f EXCEPT !.temps[t] = x]
         IN  /\ Sound(g) /\ g.db = f.db /\ g.wal = f.wal /\ g.journal = f.journal
             /\ g.temps[t] = x
             /\ \A u \in Temps \ {t} : g.temps[u] = f.temps[u]
<1> DEFINE g == [f EXCEPT !.temps[t] = x]
<1>1. /\ g \in Directories /\ g.db = f.db /\ g.wal = f.wal /\ g.journal = f.journal
      /\ g.temps[t] = x
      /\ \A u \in Temps \ {t} : g.temps[u] = f.temps[u]
  BY WithFile
<1> HIDE DEF g
<1>2. Sound(g)
  BY <1>1 DEF Sound, Content
<1> QED
  BY <1>1, <1>2 DEF g

\* Removing what an earlier attempt left keeps the invariant,
LEMMA CleanUpSafe == SafeInv /\ CleanUp => SafeInv'
<1> SUFFICES ASSUME SafeInv, CleanUp PROVE SafeInv'
  OBVIOUS
<1> USE DEF SafeInv
<1> DEFINE old == disk.journal.temp
           g == [disk EXCEPT !.temps[old] = NoFile]
<1>1. /\ run.pc = "clean" /\ UNCHANGED <<secure, secured, truth>>
      /\ IF old = None THEN UNCHANGED <<disk, states>> ELSE Changes(g)
      /\ run' = [run EXCEPT !.pc = IF Plain THEN "checkpoint" ELSE "unlink"]
  BY DEF CleanUp, AtStep, File, Goes
<1>2. /\ disk \in Directories /\ Sound(disk) /\ disk \in states
      /\ old \in Temps \cup {None}
  BY DEF DisksSound, Sound, Directories
<1>3. run' \in [pc : {IF Plain THEN "checkpoint" ELSE "unlink"},
                temp : Temps \cup {None}, todo : {<<>>}]
  BY <1>1 DEF Call
<1>4. /\ disk' \in states' /\ states' \subseteq states \cup {disk'}
      /\ Sound(disk') /\ disk'.db = disk.db /\ NoContent(disk')
  <2>1. CASE old = None
    <3>1. \A t \in Temps : t # None
      BY TempsAssumption DEF None
    <3> QED
      BY <1>1, <1>2, <2>1, <3>1 DEF Sound, NoContent
  <2>2. CASE old # None
    <3>1. old \in Temps
      BY <1>2, <2>2
    <3>2. /\ Sound(g) /\ g.db = disk.db /\ g.journal = disk.journal
          /\ g.temps[old] = NoFile
          /\ \A u \in Temps \ {old} : g.temps[u] = disk.temps[u]
      BY <1>2, <3>1, FileKinds, SoundWithFile
    <3>3. disk' = g /\ states' = states \cup {disk'}
      BY <1>1, <2>2 DEF Changes
    <3> HIDE DEF g
    <3>4. \A t \in Temps : ~Content(g, t)
      BY <1>2, <3>2, FileKinds DEF Sound, Content
    <3> QED
      BY <3>2, <3>3, <3>4 DEF NoContent
  <2> QED
    BY <2>1, <2>2
<1>5. Ready(secure) /\ Ready(secured)
  BY <1>1 DEF Call, Migrating
<1>6. DisksSound'
  <2>1. \A f \in states' : Sound(f) /\ \E h \in states : f.db = h.db
    BY <1>2, <1>4 DEF DisksSound
  <2> QED
    BY <1>1, <1>4, <1>5, <2>1, FilesStep
<1>7. Call'
  BY <1>1, <1>3, MigratingCall DEF Migrating
<1>8. Copying'
  BY <1>3, <1>4 DEF Copying, Plain, NoContent, Content
<1> QED
  BY <1>6, <1>7, <1>8

\* and so do the checkpoint of the plain database,
LEMMA CheckpointSafe == SafeInv /\ Checkpoint => SafeInv'
<1> SUFFICES ASSUME SafeInv, Checkpoint PROVE SafeInv'
  OBVIOUS
<1> USE DEF SafeInv
<1>1. /\ run.pc = "checkpoint" /\ UNCHANGED <<secure, secured, truth>>
      /\ disk' = [disk EXCEPT !.wal = FALSE]
      /\ states' = {[f EXCEPT !.wal = FALSE] : f \in states}
      /\ run' = [run EXCEPT !.pc = "mkstemp"]
  BY DEF Checkpoint, AtStep, File, Goes
<1>2. ASSUME NEW f \in states
      PROVE  LET g == [f EXCEPT !.wal = FALSE]
             IN  /\ Sound(g) /\ g.db = f.db /\ g.temps = f.temps /\ g.wal = FALSE
  <2> DEFINE g == [f EXCEPT !.wal = FALSE]
  <2>1. f \in Directories /\ Sound(f)
    BY DEF DisksSound, Sound
  <2>2. /\ g \in Directories /\ g.db = f.db /\ g.wal = FALSE /\ g.temps = f.temps
        /\ g.journal = f.journal
    BY <2>1, WithoutWal
  <2> HIDE DEF g
  <2>3. Sound(g)
    BY <2>1, <2>2 DEF Sound, Content
  <2> QED
    BY <2>2, <2>3 DEF g
<1>3. run' \in [pc : {"mkstemp"}, temp : Temps \cup {None}, todo : {<<>>}]
  BY <1>1 DEF Call
<1>4. Ready(secure) /\ Ready(secured)
  BY <1>1 DEF Call, Migrating
<1>5. /\ disk' \in states' /\ disk'.temps = disk.temps /\ disk'.wal = FALSE
  BY <1>1, <1>2 DEF DisksSound
<1>6. DisksSound'
  <2>1. \A g \in states' : Sound(g) /\ \E f \in states : g.db = f.db
    BY <1>1, <1>2
  <2> QED
    BY <1>1, <1>4, <1>5, <2>1, FilesStep
<1>7. Call'
  BY <1>1, <1>3, MigratingCall DEF Migrating
<1>8. Copying'
  BY <1>1, <1>3, <1>5 DEF Copying, NoContent, Content
<1> QED
  BY <1>6, <1>7, <1>8

\* the temporary file,
LEMMA MakeTemporarySafe == SafeInv /\ MakeTemporary => SafeInv'
<1> SUFFICES ASSUME SafeInv, MakeTemporary PROVE SafeInv'
  OBVIOUS
<1> USE DEF SafeInv
<1>1. PICK t \in Temps :
           /\ Changes([disk EXCEPT !.temps[t] = EmptyFile])
           /\ run' = [run EXCEPT !.pc = "journal", !.temp = t]
  BY DEF MakeTemporary
<1> DEFINE g == [disk EXCEPT !.temps[t] = EmptyFile]
<1>2. /\ run.pc = "mkstemp" /\ UNCHANGED <<secure, secured, truth>>
      /\ disk' = g /\ states' = states \cup {g}
  BY <1>1 DEF MakeTemporary, AtStep, File, Changes
<1>3. disk \in Directories /\ Sound(disk) /\ disk \in states
  BY DEF DisksSound, Sound
<1>4. /\ Sound(g) /\ g.db = disk.db /\ g.wal = disk.wal
      /\ g.temps[t] = EmptyFile
      /\ \A u \in Temps \ {t} : g.temps[u] = disk.temps[u]
  BY <1>3, FileKinds, SoundWithFile
<1> HIDE DEF g
<1>5. run' \in [pc : {"journal"}, temp : {t}, todo : {<<>>}]
  BY <1>1, <1>2 DEF Call
<1>6. Ready(secure) /\ Ready(secured)
  BY <1>2 DEF Call, Migrating
<1>7. DisksSound'
  <2>1. \A f \in states' : Sound(f) /\ \E h \in states : f.db = h.db
    BY <1>2, <1>3, <1>4 DEF DisksSound
  <2> QED
    BY <1>2, <1>6, <2>1, FilesStep
<1>8. Call'
  BY <1>2, <1>5, MigratingCall DEF Migrating
<1>9. NoContent(g)
  BY <1>2, <1>4, FileKinds DEF Copying, NoContent, Content
<1>10. Copying'
  BY <1>2, <1>4, <1>5, <1>9, FileKinds DEF Copying
<1> QED
  BY <1>7, <1>8, <1>10

\* A journal that names the temporary file of this call, when no other file has
\* content; the directory is synchronised with it.
LEMMA JournalSafe ==
  ASSUME SafeInv, NEW stage \in {"copying", "validated"}, run.pc \in {"journal", "validate"},
         Journal(stage, run.temp),
         run' = [run EXCEPT !.pc = IF run.pc = "journal" THEN "copy" ELSE "replace"],
         UNCHANGED <<secure, secured, truth>>
  PROVE  SafeInv'
<1> USE DEF SafeInv
<1> DEFINE g == [disk EXCEPT !.journal = [stage |-> stage, temp |-> run.temp]]
<1>1. disk' = g /\ states' = {g}
  BY DEF Journal
<1>2. /\ disk \in Directories /\ Sound(disk) /\ disk \in states
      /\ run.temp \in Temps /\ disk.temps[run.temp] # NoFile /\ ~disk.wal
  BY DEF DisksSound, Sound, Copying
<1>3. /\ g \in Directories /\ g.db = disk.db /\ g.wal = disk.wal /\ g.temps = disk.temps
      /\ g.journal.temp = run.temp
  BY <1>2, WithJournal
<1> HIDE DEF g
<1>4. \A t \in Temps : Content(disk, t) => t = run.temp
  <2>1. CASE run.pc = "journal"
    BY <2>1 DEF Copying, NoContent
  <2>2. CASE run.pc = "validate"
    BY <1>2, <2>2 DEF Copying, Sound
  <2> QED
    BY <2>1, <2>2
<1>5. Sound(g)
  BY <1>2, <1>3, <1>4 DEF Sound, Content
<1>6. run' \in [pc : {IF run.pc = "journal" THEN "copy" ELSE "replace"}, temp : {run.temp},
                todo : {<<>>}]
  BY DEF Call
<1>7. Ready(secure) /\ Ready(secured)
  BY DEF Call, Migrating
<1>8. DisksSound'
  BY <1>1, <1>2, <1>3, <1>5, <1>7, FilesStep
<1>9. Call'
  BY <1>2, <1>6, MigratingCall DEF Migrating
<1>10. run.pc = "validate" => disk.temps[run.temp] = Whole(disk.db)
  BY DEF Copying
<1>11. Copying'
  BY <1>1, <1>2, <1>3, <1>6, <1>10 DEF Copying
<1> QED
  BY <1>8, <1>9, <1>11

\* Bytes for the temporary file of this call, in every directory that has it.
LEMMA FillSafe ==
  ASSUME SafeInv, NEW x \in Files, run.pc \in {"copy", "commit"},
         Fill(run.temp, x), x # NoFile,
         run.pc = "commit" => x = Whole(disk.db),
         run' = [run EXCEPT !.pc = IF run.pc = "copy" THEN "commit" ELSE "validate"],
         UNCHANGED <<secure, secured, truth>>
  PROVE  SafeInv'
<1> USE DEF SafeInv
<1> DEFINE t == run.temp
           Filled(f) == IF f.temps[t] = NoFile THEN f ELSE [f EXCEPT !.temps[t] = x]
<1>1. disk' = Filled(disk) /\ states' = {Filled(f) : f \in states}
  BY DEF Fill
<1>2. /\ disk \in states /\ t \in Temps /\ disk.temps[t] # NoFile /\ ~disk.wal
      /\ \A f \in states : f.journal.temp = t
  BY DEF DisksSound, Copying
<1>3. ASSUME NEW f \in states
      PROVE  /\ Sound(Filled(f)) /\ Filled(f).db = f.db /\ Filled(f).wal = f.wal
             /\ Filled(f).journal = f.journal
             /\ f.temps[t] # NoFile => Filled(f).temps[t] = x
  <2> DEFINE g == [f EXCEPT !.temps[t] = x]
  <2>1. f \in Directories /\ Sound(f)
    BY DEF DisksSound, Sound
  <2>2. /\ Sound(g) /\ g.db = f.db /\ g.wal = f.wal /\ g.journal = f.journal
        /\ g.temps[t] = x
    BY <1>2, <2>1, SoundWithFile
  <2> HIDE DEF g
  <2>3. Filled(f) = IF f.temps[t] = NoFile THEN f ELSE g
    BY DEF g
  <2> HIDE DEF Filled
  <2> QED
    BY <2>1, <2>2, <2>3
<1> HIDE DEF Filled
<1>4. /\ disk' \in states' /\ disk'.db = disk.db /\ ~disk'.wal /\ disk'.temps[t] = x
      /\ \A g \in states' : g.journal.temp = t
  BY <1>1, <1>2, <1>3
<1>5. run' \in [pc : {IF run.pc = "copy" THEN "commit" ELSE "validate"}, temp : {t},
                todo : {<<>>}]
  BY DEF Call
<1>6. Ready(secure) /\ Ready(secured)
  BY DEF Call, Migrating
<1>7. DisksSound'
  <2>1. \A g \in states' : Sound(g) /\ \E f \in states : g.db = f.db
    BY <1>1, <1>3
  <2> QED
    BY <1>4, <1>6, <2>1, FilesStep
<1>8. Call'
  BY <1>2, <1>5, MigratingCall DEF Migrating
<1>9. Copying'
  BY <1>2, <1>4, <1>5 DEF Copying
<1> QED
  BY <1>7, <1>8, <1>9

\* Putting the copy in the place of the database keeps the invariant,
LEMMA ReplaceSafe == SafeInv /\ Replace => SafeInv'
<1> SUFFICES ASSUME SafeInv, Replace PROVE SafeInv'
  OBVIOUS
<1> USE DEF SafeInv
<1> DEFINE t == run.temp
           copy == disk.temps[t].db
           h == [disk EXCEPT !.db = copy]
           g == [h EXCEPT !.temps[t] = NoFile]
<1>1. /\ run.pc = "replace" /\ UNCHANGED <<secure, secured, truth>>
      /\ disk' = [disk EXCEPT !.db = copy, !.temps[t] = NoFile]
      /\ states' = states \cup {disk'}
      /\ run' = [run EXCEPT !.pc = "sync"]
  BY DEF Replace, AtStep, File, Goes, Changes
<1>2. /\ disk \in Directories /\ Sound(disk) /\ disk \in states /\ disk.db \in Databases
      /\ t \in Temps /\ disk.temps[t] = Whole(disk.db) /\ ~disk.wal
      /\ disk.journal.temp = t
  BY <1>1 DEF DisksSound, Sound, Directories, Copying
<1>3. /\ copy \in Databases /\ copy.format = "cipher"
      /\ copy.rows = disk.db.rows /\ copy.auth = disk.db.auth
  BY <1>2, FileKinds
<1>4. disk' = g
  BY <1>1, <1>2 DEF Directories
<1> HIDE DEF copy
<1>5. /\ h \in Directories /\ h.db = copy /\ h.wal = disk.wal /\ h.temps = disk.temps
      /\ h.journal = disk.journal
  BY <1>2, <1>3, WithDatabase
<1> HIDE DEF h
<1>6. Sound(h)
  BY <1>2, <1>3, <1>5 DEF Sound, Content, Sees
<1>7. /\ Sound(g) /\ g.db = h.db /\ g.temps[t] = NoFile
      /\ \A u \in Temps \ {t} : g.temps[u] = h.temps[u]
  BY <1>2, <1>5, <1>6, FileKinds, SoundWithFile
<1> HIDE DEF g
<1>8. NoContent(g)
  <2>1. \A u \in Temps : Content(disk, u) => u = t
    BY <1>2 DEF Sound
  <2>2. ASSUME NEW u \in Temps PROVE ~Content(g, u)
    <3>1. CASE u = t
      <4>1. g.temps[u].kind = "none"
        BY <1>7, <3>1, FileKinds
      <4> QED
        BY <4>1 DEF Content
    <3>2. CASE u # t
      <4>1. g.temps[u] = disk.temps[u]
        BY <1>5, <1>7, <3>2
      <4> QED
        BY <2>1, <3>2, <4>1 DEF Content
    <3> QED
      BY <3>1, <3>2
  <2> QED
    BY <2>2 DEF NoContent
<1>9. run' \in [pc : {"sync"}, temp : Temps \cup {None}, todo : {<<>>}]
  BY <1>1 DEF Call
<1>10. Ready(secure) /\ Ready(secured)
  BY <1>1 DEF Call, Migrating
<1>11. DisksSound'
  <2>1. \A f \in states' :
          /\ Sound(f)
          /\ f.db.format = "plain" => \E e \in states : f.db = e.db
    BY <1>1, <1>3, <1>4, <1>5, <1>7 DEF DisksSound
  <2> QED
    BY <1>1, <1>10, <2>1, FilesStep
<1>12. Call'
  BY <1>1, <1>9, MigratingCall DEF Migrating
<1>13. Copying'
  BY <1>3, <1>4, <1>5, <1>7, <1>8, <1>9 DEF Copying, Plain
<1> QED
  BY <1>11, <1>12, <1>13

\* and so do the syncs of the directory,
LEMMA SyncSafe == SafeInv /\ (SyncReplaced \/ SyncLast) => SafeInv'
<1> SUFFICES ASSUME SafeInv, SyncReplaced \/ SyncLast PROVE SafeInv'
  OBVIOUS
<1> USE DEF SafeInv
<1>1. /\ run.pc \in {"sync", "sync_last"} /\ UNCHANGED <<disk, secure, secured, truth>>
      /\ states' = {disk}
      /\ run' = [run EXCEPT !.pc = IF run.pc = "sync" THEN "unlink" ELSE "migrated"]
  BY DEF SyncReplaced, SyncLast, SyncDirectory, AtStep, File, Goes
<1>2. run' \in [pc : {IF run.pc = "sync" THEN "unlink" ELSE "migrated"},
                temp : Temps \cup {None}, todo : {<<>>}]
  BY <1>1 DEF Call
<1>3. Ready(secure) /\ Ready(secured) /\ ~Plain
  BY <1>1 DEF Call, Copying, Migrating
<1>4. DisksSound'
  BY <1>1, <1>3, FilesStep DEF DisksSound
<1>5. Call'
  BY <1>1, <1>2, MigratingCall DEF Migrating
<1>6. Copying'
  BY <1>1, <1>2, <1>3 DEF Copying, Plain, NoContent, Content
<1> QED
  BY <1>4, <1>5, <1>6

\* and the removal of the journal.
LEMMA UnlinkSafe == SafeInv /\ UnlinkJournal => SafeInv'
<1> SUFFICES ASSUME SafeInv, UnlinkJournal PROVE SafeInv'
  OBVIOUS
<1> USE DEF SafeInv
<1> DEFINE g == [disk EXCEPT !.journal = NoJournal]
<1>1. /\ run.pc = "unlink" /\ UNCHANGED <<secure, secured, truth>>
      /\ disk' = g /\ states' = states \cup {g}
      /\ run' = [run EXCEPT !.pc = "sync_last"]
  BY DEF UnlinkJournal, AtStep, File, Goes, Changes
<1>2. /\ disk \in Directories /\ Sound(disk) /\ disk \in states /\ NoContent(disk) /\ ~Plain
  BY <1>1 DEF DisksSound, Sound, Copying
<1>3. /\ g \in Directories /\ g.db = disk.db /\ g.wal = disk.wal /\ g.temps = disk.temps
  BY <1>2, WithJournal DEF NoJournal
<1> HIDE DEF g
<1>4. Sound(g)
  BY <1>2, <1>3 DEF Sound, NoContent, Content
<1>5. run' \in [pc : {"sync_last"}, temp : Temps \cup {None}, todo : {<<>>}]
  BY <1>1 DEF Call
<1>6. Ready(secure) /\ Ready(secured)
  BY <1>1 DEF Call, Migrating
<1>7. DisksSound'
  <2>1. \A f \in states' : Sound(f) /\ \E h \in states : f.db = h.db
    BY <1>1, <1>2, <1>3, <1>4 DEF DisksSound
  <2> QED
    BY <1>1, <1>6, <2>1, FilesStep
<1>8. Call'
  BY <1>1, <1>5, MigratingCall DEF Migrating
<1>9. Copying'
  BY <1>1, <1>2, <1>3, <1>5 DEF Copying, Plain
<1> QED
  BY <1>7, <1>8, <1>9

-----------------------------------------------------------------------------
\* Faults.

\* A call that fails keeps the invariant,
LEMMA FailsSafe == SafeInv /\ AttemptFails => SafeInv'
<1> SUFFICES ASSUME SafeInv, AttemptFails PROVE SafeInv'
  OBVIOUS
<1> USE DEF SafeInv
<1> DEFINE g == [disk EXCEPT !.temps[run.temp] = NoFile]
<1>1. /\ run.pc \notin {"down", "idle", "open"}
      /\ run' \in [pc : {"idle"}, temp : {None}, todo : {<<>>}]
      /\ UNCHANGED <<secure, secured, truth>>
      /\ \/ UNCHANGED <<disk, states>>
         \/ run.temp # None /\ disk' = g /\ states' = states \cup {g}
  BY DEF AttemptFails, Idle, Changes
<1>2. DisksSound'
  <2>1. CASE UNCHANGED <<disk, states>>
    BY <1>1, <2>1 DEF DisksSound, Sound, Usable
  <2>2. CASE run.temp # None /\ disk' = g /\ states' = states \cup {g}
    <3>1. /\ disk \in Directories /\ Sound(disk) /\ disk \in states /\ run.temp \in Temps
      BY <2>2 DEF DisksSound, Sound, Call
    <3>2. Sound(g) /\ g.db = disk.db
      BY <3>1, FileKinds, SoundWithFile
    <3> HIDE DEF g
    <3>3. Ready(secure) /\ Ready(secured)
      BY <1>1, <2>2 DEF Call
    <3>4. \A f \in states' : Sound(f) /\ \E h \in states : f.db = h.db
      BY <2>2, <3>1, <3>2 DEF DisksSound
    <3> QED
      BY <1>1, <2>2, <3>3, <3>4, FilesStep
  <2> QED
    BY <1>1, <2>1, <2>2
<1>3. Call'
  BY <1>1, EmptySeq DEF Call, Migrating
<1>4. Copying'
  BY <1>1 DEF Copying
<1> QED
  BY <1>2, <1>3, <1>4

\* and a loss of power, whatever it leaves.
LEMMA PowerLostSafe == SafeInv /\ PowerLost => SafeInv'
<1> SUFFICES ASSUME SafeInv, PowerLost PROVE SafeInv'
  OBVIOUS
<1> USE DEF SafeInv
<1>1. /\ run' \in [pc : {"down"}, temp : {None}, todo : {<<>>}]
      /\ disk' \in states /\ states' = {disk'}
      /\ secure' \in {secure, secured} /\ secured' = secure'
      /\ truth' = truth
  BY DEF PowerLost, Down
<1>2. DisksSound'
  BY <1>1 DEF DisksSound, Sound, Usable
<1>3. Call'
  BY <1>1, EmptySeq DEF Call, Migrating
<1>4. Copying'
  BY <1>1 DEF Copying
<1> QED
  BY <1>2, <1>3, <1>4

-----------------------------------------------------------------------------
\* Every step keeps the invariant.
LEMMA SafeNext == SafeInv /\ [MigrationNext]_migrationVars => SafeInv'
<1> SUFFICES ASSUME SafeInv, [MigrationNext]_migrationVars PROVE SafeInv'
  OBVIOUS
<1>1. CASE JournalCopying
  BY <1>1, JournalSafe DEF JournalCopying, AtStep, Goes, File
<1>2. CASE JournalValidated
  BY <1>2, JournalSafe DEF JournalValidated, AtStep, Goes, File
<1>3. CASE CopyRows
  BY <1>3, FillSafe, FileKinds DEF CopyRows, AtStep, Goes, File
<1>4. CASE CommitCopy
  <2>1. disk.db \in Databases
    BY DEF SafeInv, DisksSound, Sound, Directories
  <2> QED
    BY <1>4, <2>1, FillSafe, FileKinds DEF CommitCopy, AtStep, Goes, File
<1>5. CASE UNCHANGED migrationVars
  <2>1. /\ UNCHANGED <<disk, states, secure, secured, run, truth>>
        /\ Usable' = Usable
    BY <1>5 DEF migrationVars, Usable
  <2>2. DisksSound'
    BY <2>1 DEF SafeInv, DisksSound, Sound
  <2>3. Call'
    BY <2>1 DEF SafeInv, Call
  <2>4. Copying'
    BY <2>1 DEF SafeInv, Copying, Plain, NoContent, Content
  <2> QED
    BY <2>2, <2>3, <2>4 DEF SafeInv
<1> QED
  BY <1>1, <1>2, <1>3, <1>4, <1>5, StartSafe, UnlockSafe, StorageSafe, QuietSafe, CleanUpSafe,
     CheckpointSafe, MakeTemporarySafe, ReplaceSafe, SyncSafe, UnlinkSafe, RecoverOnceSafe,
     WrongPinSafe, ChangeSafe, FailsSafe, PowerLostSafe
     DEF MigrationNext, Works

\* A failure, a kill or a loss of power at any step of the replacement loses nothing
\* that was committed, leaves a directory and a secure storage that the next sign-in
\* accepts (_key_after_proof), and leaves no copy of content that the journal does
\* not name (migrate_database, _cleanup_previous).
THEOREM CrashesAreSafe == MigrationSpec => []CrashSafe
<1>1. MigrationSpec => []SafeInv
  BY SafeInit, SafeNext, PTL DEF MigrationSpec
<1> QED
  BY <1>1, InvIsSafe, PTL
=============================================================================
