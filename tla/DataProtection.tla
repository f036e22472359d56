---------------------------- MODULE DataProtection ----------------------------
(***************************************************************************)
(* Who may open the data: the PIN verifier of the database, the records    *)
(* of the secure storage that bind it to the data key, the one-time        *)
(* recovery code, and the calls of auth/service.py and                     *)
(* storage/data_protection.py that change them.                            *)
(*                                                                         *)
(* AuthService executes one call at a time.  A call is a list of writes    *)
(* with awaits between them; nobody else writes meanwhile, so what it      *)
(* reads between two writes is read with the first of them.  The session   *)
(* may be locked, the setup cancelled, the process killed, a write may     *)
(* fail with or without effect between any two writes.  On Android the     *)
(* secure storage reaches the disk later, or when it is asked to; where it *)
(* does at once, Flush follows every write.  The replacement of the file   *)
(* is one write here.                                                      *)
(***************************************************************************)
EXTENDS Integers, Sequences

CONSTANTS
  Ids,         \* what a pair of database_id and key_id may be
  MaxFailed,   \* MAX_FAILED_ATTEMPTS of recovery_code.py
  MaxRecords,  \* bound on the PINs chosen
  MaxCodes     \* bound on the recovery codes issued

NoId == 0

ASSUME ProtectionAssumption ==
  /\ Ids \subseteq Nat \ {NoId}
  /\ MaxFailed \in Nat \ {0} /\ MaxRecords \in Nat \ {0} /\ MaxCodes \in Nat

VARIABLES
  db,           \* the database file: its PIN verifier and whether it is encrypted
  store,        \* the secure storage
  flushed,      \* what a crash leaves of it
  op,           \* the call AuthService is executing
  unlocked,     \* DataAccess holds the key
  recovered,    \* this process has run the restart recovery
  setup,        \* the registration id of the setup that awaits its PIN
  grant,        \* the right to choose a new PIN
  issue,        \* the recovery code on display, not yet confirmed
  replacement,  \* the key kept while the API key is replaced
  made, issued, \* ghosts: how many PINs were chosen and codes issued
  spent         \* ghost: the generations of the codes a PIN was replaced with

profile == <<db, store, flushed>>
rights  == <<grant, issue, replacement>>
ghosts  == <<made, issued, spent>>
vars    == <<profile, op, unlocked, recovered, setup, rights, ghosts>>

Kinds == {"none", "initialize", "setup", "login", "system", "code", "replace", "confirm"}

\* A PIN verifier with the registration it belongs to; its salt makes it unique.
Record   == [reg : 0 .. MaxRecords, pin : 0 .. MaxRecords]
NoRecord == [reg |-> 0, pin |-> 0]

\* The verifier of a recovery code, its generation, and the wrong codes entered.
Code   == [code : 0 .. MaxCodes, gen : 0 .. MaxCodes, active : BOOLEAN,
           failed : 0 .. MaxFailed]
NoCode == [code |-> 0, gen |-> 0, active |-> FALSE, failed |-> 0]

Binding   == [id : Ids \cup {NoId}, fp : Record, protected : BOOLEAN, code : Code,
              pending : Record, proof : {"none", "system", "code"}, gen : 0 .. MaxCodes]
NoBinding == [id |-> NoId, fp |-> NoRecord, protected |-> FALSE, code |-> NoCode,
              pending |-> NoRecord, proof |-> "none", gen |-> 0]

Initialization   == [phase : {"none", "prepared", "key_ready", "complete"},
                     id : Ids \cup {NoId}, fp : Record]
NoInitialization == [phase |-> "none", id |-> NoId, fp |-> NoRecord]

\* reg and key are the two aliases of secure_credentials.py.
Store == [reg : 0 .. MaxRecords, key : BOOLEAN, binding : Binding,
          init : Initialization, dek : Ids \cup {NoId}]
EmptyStore == [reg |-> 0, key |-> FALSE, binding |-> NoBinding,
               init |-> NoInitialization, dek |-> NoId]

\* _RecoveryGrant and _PendingCodeIssue with the binding they were made for.
Grant   == [kind : {"none", "system", "code"}, binding : Binding]
NoGrant == [kind |-> "none", binding |-> NoBinding]
Issue   == [code : 0 .. MaxCodes, gen : 0 .. MaxCodes, binding : Binding]
NoIssue == [code |-> 0, gen |-> 0, binding |-> NoBinding]

Database == [auth : Record, enc : Ids \cup {NoId}]

-----------------------------------------------------------------------------
\* Writes.

Write(do, s, r) == [do |-> do, store |-> s, record |-> r]
Put(s)      == Write("put", s, NoRecord)
SaveAuth(r) == Write("auth", EmptyStore, r)
Sync        == Write("sync", EmptyStore, NoRecord)
ReadKey     == Write("readkey", EmptyStore, NoRecord)
Migrate     == Write("migrate", EmptyStore, NoRecord)
Recover     == Write("recover", EmptyStore, NoRecord)
RemoveKey   == Write("unkey", EmptyStore, NoRecord)
RemoveReg   == Write("unreg", EmptyStore, NoRecord)

\* _save_binding, _save_initialization: set, synchronize, read back.
Saved(s) == <<Put(s), Sync>>

SaveBinding(b) == Saved([store EXCEPT !.binding = b])

\* record is the PIN typed or chosen, code the recovery code typed, before the
\* storage the call may have to restore; current that no lock came since.
NoOp == [kind |-> "none", phase |-> "none", todo |-> <<>>, record |-> NoRecord,
         code |-> 0, before |-> EmptyStore, current |-> TRUE]

Idle == op = NoOp

\* The effect of a write that succeeds.
Perform(w) ==
  /\ db' = CASE w.do = "auth"    -> [db EXCEPT !.auth = w.record]
             [] w.do = "migrate" -> [db EXCEPT !.enc = store.binding.id]
             [] OTHER            -> db
  /\ store' = CASE w.do = "put"   -> w.store
                [] w.do = "unkey" -> [store EXCEPT !.key = FALSE]
                [] w.do = "unreg" -> [store EXCEPT !.reg = 0]
                [] OTHER          -> store
  /\ flushed' = IF w.do = "sync" THEN store ELSE flushed
  /\ recovered' = (recovered \/ w.do = "recover")
  /\ w.do = "readkey" => store.dek = store.binding.id
  /\ spent' = IF w.do = "auth" /\ store.binding.proof = "code"
                THEN spent \cup {store.binding.gen} ELSE spent
  /\ UNCHANGED <<made, issued>>

-----------------------------------------------------------------------------
\* What the code reads before it writes.

\* has_protection.
HasProtection(d, s) ==
  d.enc # NoId \/ s.binding # NoBinding \/ s.init # NoInitialization \/ s.dek # NoId

\* _states_match.
StatesMatch(d, s) == d.auth # NoRecord /\ s.key /\ s.reg = d.auth.reg

\* reconcile: what a pending replacement must agree with.
CanReconcile(d, s) ==
  s.binding.pending # NoRecord =>
    /\ s.binding.proof = "code" => ~s.binding.code.active /\ s.binding.code.gen = s.binding.gen
    /\ IF d.enc # NoId THEN d.enc = s.binding.id
       ELSE ~s.binding.protected /\ d.auth \in {s.binding.fp, s.binding.pending}
    /\ s.reg = s.binding.pending.reg

Completed(b) == [b EXCEPT !.fp = b.pending, !.pending = NoRecord, !.proof = "none", !.gen = 0]

\* Mutant: the verifier changes before the intent is known to be on disk.
ReconcileMutant ==
  IF store.binding.pending = NoRecord THEN <<>>
  ELSE <<SaveAuth(store.binding.pending)>> \o SaveBinding(Completed(store.binding))

Reconcile ==
  IF store.binding.pending = NoRecord THEN <<>>
  ELSE <<Sync, SaveAuth(store.binding.pending)>> \o SaveBinding(Completed(store.binding))

\* The first initialization, begun or not, of a file that is not encrypted.
Prepares(d, s) ==
  \/ s.init.phase = "prepared"
  \/ s.init = NoInitialization /\ s.dek = NoId /\ d.enc = NoId

\* The refusals of _key_after_proof.
CanTakeKey(d, s, record, recovery) ==
  /\ IF s.binding = NoBinding
       THEN /\ d.enc = NoId /\ s.dek = NoId
            /\ \/ s.init = NoInitialization
               \/ s.init.phase = "prepared" /\ s.init.fp = record
       ELSE /\ s.binding.protected => d.enc # NoId
            /\ recovery \/ s.binding.fp = record
            /\ s.binding.pending = NoRecord
            /\ s.init # NoInitialization => s.init.id = s.binding.id
            /\ s.init.phase = "complete" => d.enc # NoId
            /\ d.enc # NoId => d.enc = s.binding.id
  /\ Prepares(d, s) =>
       /\ d.enc = NoId /\ d.auth = record /\ s.reg = record.reg
       /\ ~s.binding.protected
       /\ s.binding # NoBinding => s.binding.fp = record
       /\ s.init # NoInitialization => s.init.fp = record
  /\ ~Prepares(d, s) => s.dek # NoId

\* Its writes; id is the new pair of random ids, if one is needed.
TakeKey(record, id) ==
  LET binding == IF store.binding # NoBinding THEN store.binding
                 ELSE [NoBinding EXCEPT !.fp = record,
                         !.id = IF store.init # NoInitialization THEN store.init.id ELSE id]
      prepared == [store EXCEPT !.init = [phase |-> "prepared", id |-> binding.id, fp |-> record]]
      bound    == [prepared EXCEPT !.binding = binding]
      keyed    == [bound EXCEPT !.dek = IF @ = NoId THEN binding.id ELSE @]
      ready    == [keyed EXCEPT !.init.phase = "key_ready"]
  IN IF ~Prepares(db, store) THEN <<Sync, ReadKey>>
     ELSE (IF store.init = NoInitialization THEN Saved(prepared) ELSE <<>>)
          \o Saved(bound) \o (IF store.dek = NoId THEN <<Put(keyed)>> ELSE <<>>)
          \o <<Sync, ReadKey>> \o Saved(ready)

\* Mutant: the record of the initialization is left as it is.
MigrateAndConfirmMutant ==
  LET protected == [store EXCEPT !.binding.protected = TRUE]
  IN <<Migrate>> \o (IF recovered THEN <<>> ELSE <<Recover>>) \o Saved(protected)

\* _migrate_and_confirm.
MigrateAndConfirm ==
  LET protected == [store EXCEPT !.binding.protected = TRUE]
      complete  == [protected EXCEPT !.init.phase = "complete"]
  IN <<Migrate>>
     \o (IF recovered THEN <<>> ELSE <<Recover>>)
     \o (IF store.binding.protected THEN <<>> ELSE Saved(protected))
     \o (IF store.init.phase \in {"none", "complete"} THEN <<>> ELSE Saved(complete))

-----------------------------------------------------------------------------
\* Calls begin.

Call(kind, phase, todo, record) ==
  [NoOp EXCEPT !.kind = kind, !.phase = phase, !.todo = todo, !.record = record]

\* cancel_grant.
NoRights == grant' = NoGrant /\ issue' = NoIssue /\ replacement' = FALSE

\* initialize, of the start and of the end of a lock.
Initialize ==
  /\ Idle /\ ~unlocked
  /\ CanReconcile(db, store)
  /\ op' = Call("initialize", "reconcile", Reconcile, NoRecord)
  /\ UNCHANGED <<profile, unlocked, recovered, setup, rights, ghosts>>

\* start_setup of a new registration, with a key the provider accepts.
StartSetup ==
  /\ Idle /\ ~unlocked /\ ~replacement
  /\ db.auth = NoRecord /\ store.reg = 0 /\ ~store.key
  /\ ~HasProtection(db, store)
  /\ made < MaxRecords
  /\ setup' = made + 1
  /\ UNCHANGED <<profile, op, unlocked, recovered, rights, ghosts>>

\* complete_setup; the setup is over whatever comes of it.
CompleteSetup ==
  LET record == [reg |-> setup, pin |-> made + 1]
      registered == [store EXCEPT !.reg = setup]
  IN /\ Idle /\ setup # 0
     /\ op' = Call("setup", "register",
                   <<SaveAuth(record), Put(registered), Put([registered EXCEPT !.key = TRUE])>>,
                   record)
     /\ made' = made + 1
     /\ setup' = 0
     /\ UNCHANGED <<profile, unlocked, recovered, rights, issued, spent>>

\* login with the right PIN.
Login ==
  /\ Idle /\ ~unlocked
  /\ StatesMatch(db, store)
  /\ CanTakeKey(db, store, db.auth, FALSE)
  /\ \E id \in Ids : op' = Call("login", "key", TakeKey(db.auth, id), db.auth)
  /\ UNCHANGED <<profile, unlocked, recovered, setup, rights, ghosts>>

\* recover, and recover_with_code for what the user typed.  Both start from the
\* PIN screen, which a profile reaches only when its registration is whole.
BeginRecovery(kind, code) ==
  /\ Idle /\ ~unlocked
  /\ StatesMatch(db, store)
  /\ CanReconcile(db, store)
  /\ op' = [Call(kind, "reconcile", Reconcile, NoRecord) EXCEPT !.code = code]
  /\ NoRights
  /\ UNCHANGED <<profile, unlocked, recovered, setup, ghosts>>

\* _code_binding.
CodeBindingOK ==
  /\ StatesMatch(db, store)
  /\ store.binding.protected /\ db.enc = store.binding.id
  /\ store.binding.pending = NoRecord

\* The one protected record of replace_pin: the new PIN and the end of the code.
Prepared(g, record) ==
  [g.binding EXCEPT !.pending = record, !.proof = g.kind,
     !.gen  = IF g.kind = "code" THEN g.binding.code.gen ELSE 0,
     !.code = IF g.kind = "code" THEN [@ EXCEPT !.active = FALSE, !.code = 0, !.failed = 0]
              ELSE @]

\* complete_recovery; the grant is used up whatever comes of it.
ReplacePin ==
  LET record == [reg |-> store.reg, pin |-> made + 1]
  IN /\ Idle /\ ~unlocked
     /\ grant # NoGrant
     /\ store.binding = grant.binding
     /\ grant.kind = "code" => grant.binding.code.active
     /\ made < MaxRecords
     /\ made' = made + 1
     /\ op' = Call("replace", "intent", SaveBinding(Prepared(grant, record)), record)
     /\ grant' = NoGrant
     /\ UNCHANGED <<profile, unlocked, recovered, setup, issue, replacement, issued, spent>>

\* Mutant: a generation that has ended is used again.
NextGenerationMutant(b) == IF b.code.gen = 0 THEN 1 ELSE b.code.gen

\* The generation of the next code; the one before is remembered after its end.
NextGeneration(b) == b.code.gen + 1

\* begin_recovery_code with the right PIN.
BeginRecoveryCode ==
  /\ Idle /\ unlocked
  /\ CodeBindingOK
  /\ store.binding.fp = db.auth
  /\ issued < MaxCodes /\ store.binding.code.gen < MaxCodes
  /\ issued' = issued + 1
  /\ issue' = [code |-> issued + 1, gen |-> NextGeneration(store.binding), binding |-> store.binding]
  /\ grant' = NoGrant /\ replacement' = FALSE
  /\ UNCHANGED <<profile, op, unlocked, recovered, setup, made, spent>>

\* confirm_recovery_code with the code that was shown.
ConfirmRecoveryCode ==
  /\ Idle /\ unlocked
  /\ issue # NoIssue
  /\ CodeBindingOK
  /\ store.binding = issue.binding
  /\ op' = [Call("confirm", "confirm",
                 SaveBinding([store.binding EXCEPT !.code =
                   [code |-> issue.code, gen |-> issue.gen, active |-> TRUE, failed |-> 0]]),
                 NoRecord) EXCEPT !.before = store]
  /\ UNCHANGED <<profile, unlocked, recovered, setup, rights, ghosts>>

\* begin_key_replacement: a new API key is asked for, with the data locked.
BeginKeyReplacement ==
  /\ Idle /\ unlocked
  /\ unlocked' = FALSE
  /\ grant' = NoGrant /\ issue' = NoIssue /\ replacement' = TRUE
  /\ UNCHANGED <<profile, op, recovered, setup, ghosts>>

\* The new key is stored, in the place of one that is there.
FinishKeyReplacement ==
  /\ Idle /\ replacement
  /\ store.key
  /\ replacement' = FALSE
  /\ unlocked' = TRUE
  /\ UNCHANGED <<profile, op, recovered, setup, grant, issue, ghosts>>

-----------------------------------------------------------------------------
\* Calls go on.

\* Only _key_after_proof looks at the session at every write.
MayWrite == op.phase = "key" => op.current

WriteStep ==
  /\ op.todo # <<>>
  /\ MayWrite
  /\ Perform(Head(op.todo))
  /\ op' = [op EXCEPT !.todo = Tail(@)]
  /\ UNCHANGED <<unlocked, setup, rights>>

GoOn(phase, todo) == op' = [op EXCEPT !.phase = phase, !.todo = todo]

\* Mutant: the setup is undone even when the data may be encrypted already.
UndoesSetupMutant == op.kind = "setup"

\* _rollback_setup is for the registration alone.
UndoesSetup == op.phase = "register"

\* A write fails, done or not done, or what it rests on does not hold.
FailedWrite ==
  /\ op.todo # <<>>
  /\ \/ UNCHANGED <<profile, recovered, ghosts>>
     \/ Head(op.todo).do \notin {"recover", "readkey"} /\ MayWrite /\ Perform(Head(op.todo))
  /\ CASE UndoesSetup ->
            GoOn("rollback", <<RemoveKey, RemoveReg, SaveAuth(NoRecord)>>) /\ UNCHANGED rights
       [] op.phase = "confirm"  -> GoOn("restore", Saved(op.before)) /\ UNCHANGED rights
       [] op.phase = "rollback" -> GoOn("rollback", Tail(op.todo)) /\ UNCHANGED rights
       [] op.kind \in {"login", "replace"} -> op' = NoOp /\ NoRights
       [] OTHER -> op' = NoOp /\ UNCHANGED rights
  /\ UNCHANGED <<unlocked, setup>>

Done(kinds, phase) == op.kind \in kinds /\ op.phase = phase /\ op.todo = <<>>

\* A call that has nothing left to write ends without opening anything.
End ==
  /\ \/ Done({"initialize"}, "reconcile")
     \/ Done({"setup"}, "rollback") \/ Done({"confirm"}, "restore") \/ Done({"code"}, "fails")
     \/ ~op.current /\ \/ Done({"setup"}, "register")
                       \/ Done({"setup", "login", "system", "code"}, "key")
                       \/ Done({"setup", "login", "replace"}, "migrate")
                       \/ Done({"system", "code"}, "reconcile")
  /\ op' = NoOp
  /\ UNCHANGED <<profile, unlocked, recovered, setup, rights, ghosts>>

\* The key is taken once the registration is stored, or the recovery is proved.
BeginKey(record, recovery) ==
  /\ CanTakeKey(db, store, record, recovery)
  /\ \E id \in Ids :
       op' = [op EXCEPT !.phase = "key", !.todo = TakeKey(record, id),
                        !.record = record, !.before = store]
  /\ UNCHANGED <<profile, unlocked, recovered, setup, rights, ghosts>>

RegistrationStored ==
  /\ Done({"setup"}, "register") /\ op.current
  /\ BeginKey(op.record, FALSE)

\* The system has confirmed its user.
SystemConfirms ==
  /\ Done({"system"}, "reconcile") /\ op.current
  /\ BeginKey(db.auth, TRUE)

\* Or it has not, or the code cannot be tried: there is none, or it is locked.
ProofFails ==
  /\ Done({"system", "code"}, "reconcile")
  /\ op.kind = "code" =>
       \/ ~CodeBindingOK \/ ~store.binding.code.active
       \/ store.binding.code.failed = MaxFailed
  /\ op' = NoOp
  /\ UNCHANGED <<profile, unlocked, recovered, setup, rights, ghosts>>

CanTryCode == Done({"code"}, "reconcile") /\ op.current /\ CodeBindingOK /\ store.binding.code.active

CodeConfirms ==
  /\ CanTryCode
  /\ op.code = store.binding.code.code
  /\ BeginKey(db.auth, TRUE)

\* A wrong code is counted, from one again when the lock has run out.
CodeFails ==
  /\ CanTryCode
  /\ op.code # store.binding.code.code
  /\ LET failed == store.binding.code.failed
     IN GoOn("fails", SaveBinding([store.binding EXCEPT
                !.code.failed = IF failed = MaxFailed THEN 1 ELSE failed + 1]))
  /\ UNCHANGED <<profile, unlocked, recovered, setup, rights, ghosts>>

\* A proof ends with the right to choose a PIN.
GrantProof ==
  /\ Done({"system", "code"}, "key") /\ op.current
  /\ op.kind = "code" => store.binding = op.before.binding
  /\ grant' = [kind |-> op.kind, binding |-> store.binding]
  /\ op' = NoOp
  /\ UNCHANGED <<profile, unlocked, recovered, setup, issue, replacement, ghosts>>

\* replace_pin goes on whether or not the session was locked meanwhile.
IntentStored ==
  /\ Done({"replace"}, "intent")
  /\ CanReconcile(db, store)
  /\ GoOn("reconcile", Reconcile)
  /\ UNCHANGED <<profile, unlocked, recovered, setup, rights, ghosts>>

KeyTaken ==
  /\ \/ Done({"setup", "login"}, "key") /\ op.current
     \/ Done({"replace"}, "reconcile")
  /\ GoOn("migrate", MigrateAndConfirm)
  /\ UNCHANGED <<profile, unlocked, recovered, setup, rights, ghosts>>

\* Mutant: access is opened without a look at the session.
MayOpenMutant == Done({"setup", "login", "replace"}, "migrate")

MayOpen == Done({"setup", "login", "replace"}, "migrate") /\ op.current

\* A grant or an issue of the epoch before is of no use any more.
Open ==
  /\ MayOpen
  /\ unlocked' = TRUE
  /\ op' = NoOp
  /\ NoRights
  /\ UNCHANGED <<profile, recovered, setup, ghosts>>

\* The code was stored while its issue stood, or the former binding comes back.
CodeStored ==
  /\ Done({"confirm"}, "confirm")
  /\ IF op.current /\ issue # NoIssue
       THEN op' = NoOp /\ issue' = NoIssue
       ELSE GoOn("restore", Saved(op.before)) /\ UNCHANGED issue
  /\ UNCHANGED <<profile, unlocked, recovered, setup, grant, replacement, ghosts>>

-----------------------------------------------------------------------------
\* What may happen between any two steps.

\* Mutant: the rights outlive the session.
LockAccessMutant ==
  /\ unlocked' = FALSE
  /\ setup' = 0
  /\ op' = IF Idle THEN NoOp ELSE [op EXCEPT !.current = FALSE]
  /\ UNCHANGED <<profile, recovered, rights, ghosts>>

\* lock_access.
LockAccess ==
  /\ unlocked' = FALSE
  /\ setup' = 0
  /\ NoRights
  /\ op' = IF Idle THEN NoOp ELSE [op EXCEPT !.current = FALSE]
  /\ UNCHANGED <<profile, recovered, ghosts>>

\* cancel_pending_setup, and cancel_recovery_code_issue.
CancelSetup ==
  /\ Idle /\ setup # 0
  /\ setup' = 0
  /\ UNCHANGED <<profile, op, unlocked, recovered, rights, ghosts>>

CancelIssue ==
  /\ issue # NoIssue
  /\ issue' = NoIssue
  /\ UNCHANGED <<profile, op, unlocked, recovered, setup, grant, replacement, ghosts>>

\* The platform writes its preferences.
Flush ==
  /\ flushed # store
  /\ flushed' = store
  /\ UNCHANGED <<db, store, op, unlocked, recovered, setup, rights, ghosts>>

\* The process dies and another one starts.
Crash ==
  /\ store' = flushed
  /\ op' = NoOp
  /\ unlocked' = FALSE /\ recovered' = FALSE
  /\ setup' = 0
  /\ NoRights
  /\ UNCHANGED <<db, flushed, ghosts>>

-----------------------------------------------------------------------------
\* A new profile, or one of an earlier version: with its PIN only, or on its way
\* to encryption, which then left no record of its initialization.
Init ==
  LET record == [reg |-> 1, pin |-> 1]
      old == [EmptyStore EXCEPT !.reg = 1, !.key = TRUE]
  IN /\ \E id \in Ids :
          LET bound == [old EXCEPT !.binding = [NoBinding EXCEPT !.id = id, !.fp = record]]
              keyed == [bound EXCEPT !.dek = id]
              whole == [keyed EXCEPT !.binding.protected = TRUE]
          IN \/ made = 0 /\ db = [auth |-> NoRecord, enc |-> NoId] /\ store = EmptyStore
             \/ made = 1 /\ db = [auth |-> record, enc |-> NoId] /\ store \in {old, bound, keyed}
             \/ made = 1 /\ db = [auth |-> record, enc |-> id] /\ store \in {keyed, whole}
     /\ flushed = store
     /\ op = NoOp
     /\ unlocked = FALSE /\ recovered = FALSE
     /\ setup = 0 /\ grant = NoGrant /\ issue = NoIssue /\ replacement = FALSE
     /\ issued = 0 /\ spent = {}

UserStep ==
  \/ Initialize \/ StartSetup \/ CompleteSetup \/ Login
  \/ BeginRecovery("system", 0)
  \/ \E code \in 0 .. issued : BeginRecovery("code", code)
  \/ ReplacePin \/ BeginRecoveryCode \/ ConfirmRecoveryCode
  \/ BeginKeyReplacement \/ FinishKeyReplacement

CallStep ==
  \/ WriteStep \/ FailedWrite \/ End
  \/ RegistrationStored \/ SystemConfirms \/ ProofFails \/ CodeConfirms \/ CodeFails
  \/ GrantProof \/ IntentStored \/ KeyTaken \/ Open \/ CodeStored

Next ==
  \/ UserStep
  \/ CallStep
  \/ LockAccess \/ CancelSetup \/ CancelIssue \/ Flush \/ Crash

Spec == Init /\ [][Next]_vars

-----------------------------------------------------------------------------
\* Properties.

\* Every variable has its type, and rights belong to their side of the lock.
TypeOK ==
  /\ db \in Database /\ store \in Store /\ flushed \in Store
  /\ op.kind \in Kinds /\ op.record \in Record /\ op.before \in Store
  /\ unlocked \in BOOLEAN /\ recovered \in BOOLEAN /\ setup \in 0 .. MaxRecords
  /\ grant \in Grant /\ issue \in Issue /\ replacement \in BOOLEAN
  /\ made \in 0 .. MaxRecords /\ issued \in 0 .. MaxCodes /\ spent \subseteq 1 .. MaxCodes
  /\ issue # NoIssue => unlocked
  /\ grant # NoGrant \/ replacement => ~unlocked

\* The profile as reconcile leaves it.
ReconciledDb(d, s) ==
  IF s.binding.pending = NoRecord THEN d ELSE [d EXCEPT !.auth = s.binding.pending]
ReconciledStore(s) ==
  IF s.binding.pending = NoRecord THEN s ELSE [s EXCEPT !.binding = Completed(@)]

\* A start followed by the login with the PIN of the verifier would open it.
Openable(d, s) ==
  /\ CanReconcile(d, s)
  /\ LET rd == ReconciledDb(d, s)
         rs == ReconciledStore(s)
     IN /\ StatesMatch(rd, rs)
        /\ CanTakeKey(rd, rs, rd.auth, FALSE)
        /\ rs.dek # NoId => rs.dek = rs.binding.id

\* Wherever a process dies, a registered profile can be opened with its PIN, or
\* with the one chosen last: with what the storage holds and with what a crash
\* would leave of it.
RegisteredOpens ==
  \A s \in {store, flushed} : StatesMatch(db, s) => Openable(db, s)

\* Encrypted data are never without a registration and the key, on disk.
DataKeepsKey ==
  db.enc # NoId => StatesMatch(db, flushed) /\ flushed.dek = db.enc /\ flushed.binding.id = db.enc

\* No crash separates a profile from its data: both the way in and the key are
\* on disk wherever a process dies.
KeysSurvive == TypeOK /\ RegisteredOpens /\ DataKeepsKey

\* Open data are encrypted, under the binding of the present PIN, with nothing
\* left to finish, after the restart recovery; whatever a failure or a lock left
\* of earlier calls.
OpenIsWhole ==
  unlocked =>
    /\ db.enc # NoId /\ db.enc = store.dek
    /\ store.binding.protected /\ store.binding.fp = db.auth
    /\ store.binding.pending = NoRecord
    /\ store.init.phase \in {"none", "complete"}
    /\ recovered

\* A recovery code that has replaced a PIN is gone for good, on disk too.
SpentStaysSpent ==
  \A s \in {store, flushed} : s.binding.code.active => s.binding.code.gen \notin spent

\* Access opens for the PIN that is stored, proved or chosen by a call during
\* which nothing was locked, or for the key of the session a replacement of the
\* API key interrupted.
OpensForPresentPin ==
  [][~unlocked /\ unlocked' =>
       \/ op.kind \in {"login", "setup", "replace"} /\ op.current /\ op.record = db.auth
       \/ replacement]_vars

-----------------------------------------------------------------------------
\* What the documents say.

\* docs/linux-appimage.md: "Your previous PIN stays valid until the new one is
\* saved."  Whenever no call runs, the PIN of the verifier signs in.
OldPinWorks ==
  Idle /\ StatesMatch(db, store) => CanTakeKey(db, store, db.auth, FALSE)
=============================================================================
