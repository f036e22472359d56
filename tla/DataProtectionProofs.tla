-------------------------- MODULE DataProtectionProofs --------------------------
(***************************************************************************)
(* Theorems about DataProtection, for any identifiers and numbers of PINs, *)
(* codes and tries: whoever has the PIN gets in, open data are whole, and  *)
(* a code that was used stays used.                                        *)
(*                                                                         *)
(* A call is a list of writes that may break off at any of them, and a     *)
(* crash may leave what was on disk before the last of them.  So each      *)
(* write that is still to come must fit what is there now: Sound says what *)
(* a storage may be beside a database, in memory as well as on disk, and   *)
(* PlanOK what the rest of a list may hold in each phase of a call.        *)
(*                                                                         *)
(* The second part is about the policy that guards the PIN (PinPolicy).    *)
(***************************************************************************)
EXTENDS DataProtection, PinPolicy, TLAPS

-----------------------------------------------------------------------------
\* What a storage may be beside a database.

\* There is nothing of a protection, or the way to the key is complete.
Plain(s) == s.binding = NoBinding /\ s.init = NoInitialization /\ s.dek = NoId
Keyed(s) == s.dek # NoId /\ s.init.phase # "prepared"

\* The record of the first initialization is that of the binding and the PIN.
InitSound(d, s) ==
  /\ s.init.phase = "none" <=> s.init = NoInitialization
  /\ s.init # NoInitialization =>
       /\ s.init.id # NoId
       /\ s.binding # NoBinding => s.init.id = s.binding.id
  /\ s.init.phase = "prepared" => s.init.fp = d.auth
  /\ s.init.phase \in {"key_ready", "complete"} => s.dek # NoId

\* The binding is that of the key and of the PIN, or of a PIN that replaces it
\* with the way to the key complete and the code that proved it ended.
BindingSound(d, s) ==
  /\ s.binding = NoBinding => s.init.phase = "prepared" /\ s.dek = NoId
  /\ s.binding # NoBinding => s.binding.id # NoId
  /\ s.dek # NoId => s.dek = s.binding.id
  /\ IF s.binding.pending = NoRecord THEN s.binding # NoBinding => s.binding.fp = d.auth
     ELSE /\ Keyed(s) /\ s.binding.pending.reg = s.reg
          /\ d.auth \in {s.binding.fp, s.binding.pending}
          /\ s.binding.proof = "code" =>
               ~s.binding.code.active /\ s.binding.code.gen = s.binding.gen /\ s.binding.gen # 0

\* There is nothing, or a registration with a protection that fits the database.
Sound(d, s) ==
  \/ Plain(s) /\ d.enc = NoId
  \/ /\ ~Plain(s) /\ StatesMatch(d, s)
     /\ InitSound(d, s) /\ BindingSound(d, s)
     /\ IF d.enc = NoId THEN ~s.binding.protected /\ s.init.phase # "complete"
                        ELSE Keyed(s) /\ s.dek = d.enc

\* The codes that were used are over, and none is numbered after the present one.
CodeSound(s, used) ==
  /\ s.binding.code.active => s.binding.code.gen # 0 /\ s.binding.code.gen \notin used
  /\ \A g \in used : g <= s.binding.code.gen

\* Nothing of the encryption is left to record.
Finished(s) == s.binding.protected /\ s.init.phase \in {"none", "complete"}

\* Two storages that differ in the recovery code at most.
Same(x, s) ==
  /\ x.reg = s.reg /\ x.key = s.key /\ x.dek = s.dek /\ x.init = s.init
  /\ x.binding = [s.binding EXCEPT !.code = x.binding.code]

-----------------------------------------------------------------------------
\* The storage as a value.

\* The fields of a storage.
LEMMA StoreFields ==
  ASSUME NEW s \in Store
  PROVE  /\ s.reg \in 0 .. MaxRecords /\ s.key \in BOOLEAN /\ s.dek \in Ids \cup {NoId}
         /\ s.binding \in Binding /\ s.init \in Initialization
         /\ s.binding.id \in Ids \cup {NoId} /\ s.binding.fp \in Record
         /\ s.binding.pending \in Record /\ s.binding.code \in Code
         /\ s.binding.code.gen \in 0 .. MaxCodes /\ s.binding.gen \in 0 .. MaxCodes
         /\ s.init.phase \in {"none", "prepared", "key_ready", "complete"}
         /\ s.init.id \in Ids \cup {NoId} /\ s.init.fp \in Record
  BY DEF Store, Binding, Initialization, Code

\* What the empty values are.
LEMMA Nothing ==
  /\ NoRecord \in Record /\ NoCode \in Code /\ NoBinding \in Binding
  /\ NoInitialization \in Initialization /\ EmptyStore \in Store
  /\ NoGrant \in Grant /\ NoIssue \in Issue
  /\ NoBinding.id = NoId /\ NoBinding.pending = NoRecord /\ NoBinding.protected = FALSE
  /\ NoBinding.proof = "none" /\ NoBinding.code.gen = 0 /\ NoBinding.code.active = FALSE
  /\ NoInitialization.phase = "none" /\ NoInitialization.id = NoId
  /\ EmptyStore.dek = NoId /\ EmptyStore.binding = NoBinding /\ EmptyStore.init = NoInitialization
<1>1. 0 \in 0 .. MaxRecords /\ 0 \in 0 .. MaxCodes /\ 0 \in 0 .. MaxFailed
  BY ProtectionAssumption DEF ProtectionAssumption
<1>2. NoRecord \in Record /\ NoCode \in Code
  BY <1>1 DEF NoRecord, Record, NoCode, Code
<1>3. NoBinding \in Binding /\ NoInitialization \in Initialization
  BY <1>1, <1>2 DEF NoBinding, Binding, NoInitialization, Initialization
<1>4. EmptyStore \in Store /\ NoGrant \in Grant /\ NoIssue \in Issue
  BY <1>1, <1>3 DEF EmptyStore, Store, NoGrant, Grant, NoIssue, Issue
<1> QED
  BY <1>2, <1>3, <1>4 DEF NoBinding, NoCode, NoInitialization, EmptyStore

\* A sound storage opens: the start reconciles it and the PIN takes the key.
LEMMA SoundOpens ==
  ASSUME NEW d \in Database, NEW s \in Store, Sound(d, s), StatesMatch(d, s)
  PROVE  Openable(d, s)
<1> DEFINE b == s.binding
           rd == ReconciledDb(d, s)
           rs == ReconciledStore(s)
<1>1. CASE Plain(s)
  <2>1. b.pending = NoRecord /\ d.enc = NoId /\ b = NoBinding /\ s.init = NoInitialization
        /\ s.dek = NoId
    BY <1>1, Nothing DEF Sound, Plain
  <2>2. rd = d /\ rs = s
    BY <2>1 DEF ReconciledDb, ReconciledStore
  <2>3. CanReconcile(d, s)
    BY <2>1 DEF CanReconcile
  <2>4. CanTakeKey(d, s, d.auth, FALSE)
    BY <2>1, Nothing DEF CanTakeKey, Prepares, StatesMatch
  <2> QED
    BY <2>1, <2>2, <2>3, <2>4 DEF Openable
<1>2. CASE ~Plain(s)
  <2>1. /\ InitSound(d, s) /\ BindingSound(d, s)
        /\ IF d.enc = NoId THEN ~s.binding.protected /\ s.init.phase # "complete"
                           ELSE Keyed(s) /\ s.dek = d.enc
    BY <1>2 DEF Sound
  <2>2. CanReconcile(d, s)
    BY <2>1 DEF CanReconcile, BindingSound, Keyed
  <2>3. CASE b.pending = NoRecord
    <3>1. rd = d /\ rs = s
      BY <2>3 DEF ReconciledDb, ReconciledStore
    <3>2. CanTakeKey(d, s, d.auth, FALSE)
      BY <2>1, <2>3, StoreFields DEF CanTakeKey, Prepares, StatesMatch, InitSound, BindingSound, Keyed
    <3> QED
      BY <2>1, <2>2, <3>1, <3>2 DEF Openable, BindingSound
  <2>4. CASE b.pending # NoRecord
    <3>1. /\ rd.auth = b.pending /\ rd.enc = d.enc
      BY <2>4 DEF ReconciledDb, Database
    <3>2. /\ rs.reg = s.reg /\ rs.key = s.key /\ rs.dek = s.dek /\ rs.init = s.init
          /\ rs.binding.id = b.id /\ rs.binding.fp = b.pending /\ rs.binding.pending = NoRecord
          /\ rs.binding.protected = b.protected
      BY <2>4, StoreFields DEF ReconciledStore, Completed, Store, Binding
    <3>3. Keyed(s) /\ b # NoBinding /\ b.pending.reg = s.reg /\ s.dek = b.id
      BY <2>1, <2>4, Nothing DEF BindingSound, Keyed
    <3>4. rs.binding # NoBinding
      BY <3>2, <3>3, Nothing DEF Keyed
    <3> HIDE DEF rd, rs
    <3>5. StatesMatch(rd, rs)
      BY <2>4, <3>1, <3>2, <3>3 DEF StatesMatch
    <3>6. CanTakeKey(rd, rs, rd.auth, FALSE)
      BY <2>1, <3>1, <3>2, <3>3, <3>4 DEF CanTakeKey, Prepares, InitSound, Keyed
    <3> QED
      BY <2>2, <3>2, <3>3, <3>5, <3>6 DEF Openable, rd, rs
  <2> QED
    BY <2>3, <2>4
<1> QED
  BY <1>1, <1>2

-----------------------------------------------------------------------------
\* What is left of a call to write.

\* The kinds of writes, the writes, the phases of a call, and the calls.
Doings == {"put", "auth", "sync", "readkey", "migrate", "recover", "unkey", "unreg"}
Writes == [do : Doings, store : Store, record : Record]
Phases == {"none", "reconcile", "register", "rollback", "key", "migrate", "intent",
           "confirm", "restore", "fails"}
Op     == [kind : Kinds, phase : Phases, todo : Seq(Writes), record : Record, code : Nat,
           before : Store, current : BOOLEAN]

\* A sound storage, whose codes go with those that were used.
Kept(d, s, used) == Sound(d, s) /\ CodeSound(s, used)

\* The storage in memory and on disk beside the database: what is on disk is
\* behind by what a call has put, and never by a whole protection or another key.
Profile(d, s, f, used) ==
  /\ d \in Database /\ s \in Store /\ f \in Store /\ used \subseteq 1 .. MaxCodes
  /\ Kept(d, s, used) /\ Kept(d, f, used)
  /\ Plain(s) => Plain(f)
  /\ f.dek # NoId => s.dek = f.dek

\* Open data: encrypted, finished, and recovered.
Whole(d, s, r) == d.enc # NoId /\ s.binding.pending = NoRecord /\ Finished(s) /\ r

\* In each phase: T is the list that is left, d, s and f the database and the two
\* storages, rec the PIN of the call.

\* A pending PIN goes to disk, to the database, and out of the binding.
ReconcilePlan(T, d, s, f, kind, rec) ==
  LET N == Len(T)
  IN /\ N <= 4
     /\ s.binding.pending # NoRecord <=> N >= 2
     /\ N = 4 => T[1] = Sync
     /\ N >= 3 => T[N - 2] = SaveAuth(s.binding.pending)
     /\ N >= 2 => T[N - 1] = Put([s EXCEPT !.binding = Completed(s.binding)])
     /\ N >= 1 => T[N] = Sync
     /\ N \in {2, 3} => f = s
     /\ N = 2 => d.auth = s.binding.pending
     /\ kind \in {"system", "code"} => StatesMatch(d, s)
     /\ kind = "replace" =>
          /\ Keyed(s) /\ Keyed(f)
          /\ rec = IF N >= 3 THEN s.binding.pending ELSE d.auth

\* A registration is written, or taken back, while there is no protection.
RegisterPlan(T, d, s, f, phase, rec) ==
  LET N == Len(T)
  IN /\ Plain(s) /\ Plain(f) /\ d.enc = NoId
     /\ \A i \in 1 .. N : /\ T[i].do \in {"auth", "put", "unkey", "unreg"}
                          /\ T[i].do = "put" => Plain(T[i].store)
     /\ phase = "register" =>
          /\ rec # NoRecord
          /\ IF N = 0 THEN s.key ELSE T[N].do = "put" /\ T[N].store.key

\* Each storage that is put on the way to the key is sound, and the last one is
\* complete; once there is a key no other one is put in its place.
KeyPut(T, i, d, s, used) ==
  LET x == T[i].store
  IN /\ Kept(d, x, used) /\ ~Plain(x) /\ x.binding.pending = NoRecord
     /\ ~Keyed(s)
     /\ Keyed(x) => i = Len(T) - 1
     /\ s.dek # NoId => x.dek = s.dek
     /\ \A j \in 1 .. Len(T) : j > i /\ T[j].do = "put" /\ x.dek # NoId => T[j].store.dek = x.dek

\* The key is taken: the list ends with a complete way to it on disk.
KeyPlan(T, d, s, f, used, rec) ==
  LET N == Len(T)
  IN /\ rec = d.auth /\ s.binding.pending = NoRecord
     /\ \A i \in 1 .. N : T[i].do \in {"put", "sync", "readkey"}
     /\ \A i \in 1 .. N : T[i].do = "put" => KeyPut(T, i, d, s, used)
     /\ N = 0 => Keyed(s) /\ Keyed(f)
     /\ N > 0 =>
          \/ /\ T[N].do = "sync"
             /\ IF N = 1 THEN Keyed(s) ELSE T[N - 1].do = "put" /\ Keyed(T[N - 1].store)
          \/ /\ T[N].do = "readkey" /\ Keyed(s) /\ N <= 2
             /\ IF N = 2 THEN T[1] = Sync ELSE Keyed(f)

\* What is put after the encryption is sound beside encrypted data.
MigratePut(T, i, d, s, used) ==
  LET x == T[i].store
  IN /\ Kept([d EXCEPT !.enc = s.binding.id], x, used) /\ x.binding.pending = NoRecord
     /\ ~Finished(s) /\ x.dek = s.dek
     /\ Finished(x) => i = Len(T) - 1

\* The file is encrypted first, and recorded as such last.
MigratePlan(T, d, s, f, used, r, rec) ==
  LET N == Len(T)
  IN /\ rec = d.auth /\ s.binding.pending = NoRecord
     /\ Keyed(s) /\ Keyed(f)
     /\ d.enc # NoId \/ (N > 0 /\ T[1].do = "migrate")
     /\ r \/ \E i \in 1 .. N : T[i].do = "recover"
     /\ \A i \in 1 .. N : /\ T[i].do \in {"migrate", "recover", "put", "sync"}
                          /\ T[i].do = "migrate" => i = 1
     /\ \A i \in 1 .. N : T[i].do = "put" => MigratePut(T, i, d, s, used)
     /\ \/ Finished(s)
        \/ N > 1 /\ T[N].do = "sync" /\ T[N - 1].do = "put" /\ Finished(T[N - 1].store)

\* The intent of a new PIN is put and brought to disk.
IntentPlan(T, d, s, f, used, rec) ==
  LET N == Len(T)
  IN /\ N <= 2
     /\ N > 0 => T[N] = Sync
     /\ Keyed(s) /\ Keyed(f) /\ rec # NoRecord
     /\ IF N = 2
          THEN /\ T[1].do = "put"
               /\ Kept(d, T[1].store, used) /\ Keyed(T[1].store) /\ T[1].store.dek = s.dek
               /\ T[1].store.binding.pending = rec
          ELSE s.binding.pending = rec

\* Only the recovery code is put, a new one or the one there was before.
RewritePlan(T, d, s, used, kind, before) ==
  LET N == Len(T)
  IN /\ N <= 2
     /\ N > 0 => T[N] = Sync
     /\ s.binding.pending = NoRecord /\ d.enc # NoId
     /\ N = 2 => T[1].do = "put" /\ Same(T[1].store, s) /\ CodeSound(T[1].store, used)
     /\ kind = "confirm" => Same(before, s) /\ CodeSound(before, used)

\* The plan of each phase.
Plan(o, d, s, f, used, r) ==
  \/ o = NoOp
  \/ /\ o.phase = "reconcile" /\ o.kind \in {"initialize", "system", "code", "replace"}
     /\ ReconcilePlan(o.todo, d, s, f, o.kind, o.record)
  \/ /\ o.phase \in {"register", "rollback"} /\ o.kind = "setup"
     /\ RegisterPlan(o.todo, d, s, f, o.phase, o.record)
  \/ /\ o.phase = "key" /\ o.kind \in {"setup", "login", "system", "code"}
     /\ KeyPlan(o.todo, d, s, f, used, o.record)
  \/ /\ o.phase = "migrate" /\ o.kind \in {"setup", "login", "replace"}
     /\ MigratePlan(o.todo, d, s, f, used, r, o.record)
  \/ /\ o.phase = "intent" /\ o.kind = "replace"
     /\ IntentPlan(o.todo, d, s, f, used, o.record)
  \/ /\ o.phase \in {"confirm", "restore"} /\ o.kind = "confirm"
     /\ RewritePlan(o.todo, d, s, used, o.kind, o.before)
  \/ /\ o.phase = "fails" /\ o.kind = "code"
     /\ RewritePlan(o.todo, d, s, used, o.kind, o.before)

\* The profile and the call of a state.
ProfileOK == Profile(db, store, flushed, spent)
PlanOK    == op \in Op /\ Plan(op, db, store, flushed, spent, recovered)

\* A right to choose a PIN and open data rest on a complete key; a code on
\* display is the next one; a setup that awaits its PIN has nothing to protect.
RightsOK ==
  /\ grant # NoGrant =>
       /\ Keyed(store) /\ Keyed(flushed) /\ ~replacement
       /\ grant.kind # "none" /\ grant.binding.pending = NoRecord
  /\ issue # NoIssue => issue.gen = issue.binding.code.gen + 1
  /\ setup # 0 =>
       /\ Plain(store) /\ Plain(flushed) /\ db.auth = NoRecord
       /\ made < MaxRecords /\ op.kind \in {"none", "initialize"}
  /\ unlocked \/ replacement => Whole(db, store, recovered)
  /\ op.kind \notin {"none", "confirm"} => ~unlocked
  /\ op.kind \in {"setup", "system", "code", "replace"} => ~replacement

\* The inductive invariant.
ProtectionInv == TypeOK /\ ProfileOK /\ PlanOK /\ RightsOK

-----------------------------------------------------------------------------
\* One write.

\* The fields of the writes.
LEMMA WriteFields ==
  /\ \A s \in Store : Put(s) \in Writes /\ Put(s).do = "put" /\ Put(s).store = s
  /\ \A r \in Record : SaveAuth(r) \in Writes /\ SaveAuth(r).do = "auth" /\ SaveAuth(r).record = r
  /\ Sync \in Writes /\ Sync.do = "sync"
  /\ ReadKey \in Writes /\ ReadKey.do = "readkey"
  /\ Migrate \in Writes /\ Migrate.do = "migrate"
  /\ Recover \in Writes /\ Recover.do = "recover"
  /\ RemoveKey \in Writes /\ RemoveKey.do = "unkey"
  /\ RemoveReg \in Writes /\ RemoveReg.do = "unreg"
BY Nothing DEF Write, Put, SaveAuth, Sync, ReadKey, Migrate, Recover, RemoveKey, RemoveReg,
               Writes, Doings

\* What is left after the first of a list of writes.
LEMMA Left ==
  ASSUME NEW T \in Seq(Writes), T # <<>>
  PROVE  /\ Head(T) \in Writes /\ Head(T) = T[1] /\ Len(T) \in Nat \ {0}
         /\ Tail(T) \in Seq(Writes) /\ Len(Tail(T)) = Len(T) - 1
         /\ \A i \in 1 .. Len(T) - 1 : Tail(T)[i] = T[i + 1]
         /\ \A i \in 1 .. Len(T) : T[i] \in Writes
  OBVIOUS

\* What the first of the writes that are left does.
LEMMA PerformIs ==
  ASSUME op.todo \in Seq(Writes), op.todo # <<>>, recovered \in BOOLEAN, Perform(Head(op.todo))
  PROVE  LET w == op.todo[1]
         IN /\ w \in Writes
            /\ w.do # "auth" => spent' = spent
            /\ w.do = "auth" => /\ db' = [db EXCEPT !.auth = w.record]
                                /\ UNCHANGED <<store, flushed, recovered>>
                                /\ spent' = IF store.binding.proof = "code"
                                              THEN spent \cup {store.binding.gen} ELSE spent
            /\ w.do = "put" => store' = w.store /\ UNCHANGED <<db, flushed, recovered>>
            /\ w.do = "sync" => flushed' = store /\ UNCHANGED <<db, store, recovered>>
            /\ w.do = "readkey" => UNCHANGED <<db, store, flushed, recovered>>
            /\ w.do = "migrate" => /\ db' = [db EXCEPT !.enc = store.binding.id]
                                   /\ UNCHANGED <<store, flushed, recovered>>
            /\ w.do = "recover" => recovered' /\ UNCHANGED <<db, store, flushed>>
            /\ w.do = "unkey" => /\ store' = [store EXCEPT !.key = FALSE]
                                 /\ UNCHANGED <<db, flushed, recovered>>
            /\ w.do = "unreg" => /\ store' = [store EXCEPT !.reg = 0]
                                 /\ UNCHANGED <<db, flushed, recovered>>
            /\ UNCHANGED <<made, issued>>
<1> DEFINE w == op.todo[1]
<1>1. w = Head(op.todo) /\ w \in Writes
  BY Left
<1>2. Perform(w)
  BY <1>1
<1> HIDE DEF w
<1>3. recovered' = (recovered \/ w.do = "recover")
  BY <1>2 DEF Perform
<1>4. w.do # "recover" => recovered' = recovered
  BY <1>3
<1> QED
  BY <1>1, <1>2, <1>3, <1>4 DEF Perform, w

-----------------------------------------------------------------------------
\* How a sound storage changes.

\* A complete way to the key has a binding of that key, a sound one also a
\* registration; encrypted data have it, and so has a PIN that is pending.
LEMMA KeptFacts ==
  ASSUME NEW d \in Database, NEW s \in Store, NEW used, Kept(d, s, used)
  PROVE  /\ ~Plain(s) => StatesMatch(d, s)
         /\ Keyed(s) => ~Plain(s) /\ s.binding # NoBinding /\ s.dek = s.binding.id
         /\ d.enc # NoId => Keyed(s) /\ s.dek = d.enc
         /\ s.binding.pending # NoRecord => Keyed(s)
         /\ Keyed(s) /\ s.binding.pending = NoRecord => s.binding.fp = d.auth
  BY Nothing DEF Kept, Sound, BindingSound, Plain, Keyed

\* Without a protection there are no codes, and any registration is sound.
LEMMA PlainKept ==
  ASSUME NEW d \in Database, NEW e \in Database, NEW s \in Store, NEW x \in Store,
         NEW used, used \subseteq 1 .. MaxCodes, Kept(d, s, used),
         Plain(s), Plain(x), e.enc = NoId
  PROVE  used = {} /\ Kept(e, x, used)
<1>1. s.binding.code.gen = 0
  BY Nothing DEF Plain
<1>2. used = {}
  BY <1>1, ProtectionAssumption DEF Kept, CodeSound, ProtectionAssumption
<1> QED
  BY <1>2, Nothing DEF Kept, Sound, CodeSound, Plain

\* The verifier may become the PIN that is pending; the code that proved it is
\* among the used ones from then on.
LEMMA VerifierMoves ==
  ASSUME NEW d \in Database, NEW s \in Store,
         NEW used, used \subseteq 1 .. MaxCodes, Kept(d, s, used),
         s.binding.pending # NoRecord
  PROVE  LET e == [d EXCEPT !.auth = s.binding.pending]
             more == IF s.binding.proof = "code" THEN used \cup {s.binding.gen} ELSE used
         IN e \in Database /\ e.auth = s.binding.pending /\ e.enc = d.enc
            /\ Kept(e, s, more) /\ more \subseteq 1 .. MaxCodes
<1> DEFINE e == [d EXCEPT !.auth = s.binding.pending]
           more == IF s.binding.proof = "code" THEN used \cup {s.binding.gen} ELSE used
<1>1. e \in Database /\ e.auth = s.binding.pending /\ e.enc = d.enc
  BY StoreFields DEF Database
<1>2. Keyed(s) /\ ~Plain(s) /\ s.binding.id = s.dek
  BY KeptFacts
<1>3. InitSound(d, s) /\ BindingSound(d, s) /\ StatesMatch(d, s)
  BY <1>2 DEF Kept, Sound
<1> HIDE DEF e
<1>4. Sound(e, s)
  <2>1. StatesMatch(e, s)
    BY <1>1, <1>3 DEF StatesMatch, BindingSound
  <2>2. InitSound(e, s) /\ BindingSound(e, s)
    BY <1>1, <1>2, <1>3 DEF InitSound, BindingSound, Keyed
  <2>3. IF e.enc = NoId THEN ~s.binding.protected /\ s.init.phase # "complete"
                        ELSE Keyed(s) /\ s.dek = e.enc
    BY <1>1, <1>2 DEF Kept, Sound
  <2> QED
    BY <1>2, <2>1, <2>2, <2>3 DEF Sound
<1>5. CodeSound(s, more) /\ more \subseteq 1 .. MaxCodes
  <2>1. CASE s.binding.proof = "code"
    <3>1. ~s.binding.code.active /\ s.binding.code.gen = s.binding.gen /\ s.binding.gen # 0
      BY <1>3, <2>1 DEF BindingSound
    <3>2. s.binding.gen \in 1 .. MaxCodes
      BY <3>1, StoreFields, ProtectionAssumption DEF ProtectionAssumption
    <3>3. more = used \cup {s.binding.gen}
      BY <2>1
    <3>4. \A g \in used : g <= s.binding.code.gen
      BY DEF Kept, CodeSound
    <3>5. s.binding.gen <= s.binding.code.gen
      BY <3>1, <3>2, ProtectionAssumption DEF ProtectionAssumption
    <3> HIDE DEF more
    <3>6. \A g \in more : g <= s.binding.code.gen
      BY <3>3, <3>4, <3>5
    <3>7. more \subseteq 1 .. MaxCodes
      BY <3>2, <3>3
    <3> QED
      BY <3>1, <3>6, <3>7 DEF CodeSound
  <2> QED
    BY <2>1 DEF Kept
<1> QED
  BY <1>1, <1>4, <1>5 DEF Kept, e

\* The record of the replacement is completed once the verifier is the new one.
LEMMA Completes ==
  ASSUME NEW d \in Database, NEW s \in Store, NEW used, Kept(d, s, used),
         s.binding.pending # NoRecord, d.auth = s.binding.pending
  PROVE  LET x == [s EXCEPT !.binding = Completed(s.binding)]
         IN x \in Store /\ Kept(d, x, used) /\ Keyed(x) /\ x.dek = s.dek
            /\ x.binding.pending = NoRecord
<1> DEFINE b == Completed(s.binding)
           x == [s EXCEPT !.binding = Completed(s.binding)]
<1>1. /\ b \in Binding /\ b.id = s.binding.id /\ b.fp = s.binding.pending
      /\ b.pending = NoRecord /\ b.code = s.binding.code /\ b.protected = s.binding.protected
  <2>1. 0 \in 0 .. MaxCodes
    BY ProtectionAssumption DEF ProtectionAssumption
  <2> QED
    BY <2>1, StoreFields, Nothing DEF Completed, Binding
<1>2. /\ x \in Store /\ x.reg = s.reg /\ x.key = s.key /\ x.binding = b /\ x.init = s.init
      /\ x.dek = s.dek
  BY <1>1 DEF Store
<1>3. Keyed(s) /\ ~Plain(s) /\ s.dek = s.binding.id
  BY KeptFacts
<1>4. InitSound(d, s) /\ BindingSound(d, s) /\ StatesMatch(d, s) /\ s.binding # NoBinding
  BY <1>3, KeptFacts DEF Kept, Sound
<1> HIDE DEF b, x
<1>5. b # NoBinding
  BY <1>1, <1>3, Nothing DEF Keyed
<1>6. Sound(d, x)
  <2>1. StatesMatch(d, x) /\ InitSound(d, x) /\ BindingSound(d, x)
    BY <1>1, <1>2, <1>3, <1>4, <1>5 DEF StatesMatch, InitSound, BindingSound, Keyed
  <2>2. ~Plain(x) /\ Keyed(x)
    BY <1>2, <1>3 DEF Plain, Keyed
  <2>3. IF d.enc = NoId THEN ~x.binding.protected /\ x.init.phase # "complete"
                        ELSE Keyed(x) /\ x.dek = d.enc
    BY <1>1, <1>2, <1>3, <2>2 DEF Kept, Sound
  <2> QED
    BY <2>1, <2>2, <2>3 DEF Sound
<1>7. CodeSound(x, used)
  BY <1>1, <1>2 DEF Kept, CodeSound
<1> QED
  BY <1>1, <1>2, <1>3, <1>6, <1>7 DEF Kept, Keyed, x, b

\* The file may be encrypted once the way to the key is complete.
LEMMA Encrypts ==
  ASSUME NEW d \in Database, NEW s \in Store, NEW used, NEW id, id = s.binding.id,
         Kept(d, s, used), Keyed(s)
  PROVE  LET e == [d EXCEPT !.enc = id]
         IN e \in Database /\ e.auth = d.auth /\ e.enc = id /\ id # NoId /\ Kept(e, s, used)
            /\ (d.enc # NoId => e = d)
<1> DEFINE e == [d EXCEPT !.enc = id]
<1>1. ~Plain(s) /\ s.dek = s.binding.id /\ s.dek # NoId
  BY KeptFacts DEF Keyed
<1>2. e \in Database /\ e.auth = d.auth /\ e.enc = id /\ id # NoId
  BY <1>1, StoreFields DEF Database
<1>3. d.enc # NoId => e = d
  BY <1>1, KeptFacts DEF Database
<1> HIDE DEF e
<1>4. Sound(e, s)
  BY <1>1, <1>2 DEF Kept, Sound, StatesMatch, InitSound, BindingSound
<1> QED
  BY <1>2, <1>3, <1>4 DEF Kept, e

\* Only the code changes: the rest of the storage is as sound as it was.
LEMMA CodeMoves ==
  ASSUME NEW d \in Database, NEW s \in Store, NEW x \in Store, NEW used,
         Kept(d, s, used), Same(x, s), CodeSound(x, used),
         s.binding.pending = NoRecord, d.enc # NoId
  PROVE  /\ Kept(d, x, used) /\ Keyed(x) /\ ~Plain(x)
         /\ x.binding.pending = NoRecord /\ (Finished(s) => Finished(x))
<1>1. /\ x.binding.id = s.binding.id /\ x.binding.fp = s.binding.fp
      /\ x.binding.pending = NoRecord /\ x.binding.protected = s.binding.protected
  BY StoreFields DEF Same, Binding
<1>2. Keyed(s) /\ ~Plain(s) /\ s.binding # NoBinding /\ s.dek = s.binding.id /\ s.dek = d.enc
  BY KeptFacts
<1>3. Keyed(x) /\ ~Plain(x)
  BY <1>2 DEF Same, Keyed, Plain
<1>4. x.binding # NoBinding
  BY <1>1, <1>2, Nothing DEF Keyed
<1>5. Sound(d, x)
  BY <1>1, <1>2, <1>3, <1>4 DEF Kept, Sound, Same, StatesMatch, InitSound, BindingSound
<1> QED
  BY <1>1, <1>3, <1>5 DEF Kept, Finished, Same

\* Storages that are the same but for the code are so to each other.
LEMMA SameMoves ==
  ASSUME NEW s \in Store, NEW x \in Store, NEW y \in Store, Same(x, s), Same(y, s)
  PROVE  Same(x, y) /\ Same(s, s)
<1>1. y.binding = [s.binding EXCEPT !.code = y.binding.code]
  BY DEF Same
<1>2. [y.binding EXCEPT !.code = x.binding.code] = [s.binding EXCEPT !.code = x.binding.code]
  BY <1>1, StoreFields DEF Binding
<1>3. s.binding = [s.binding EXCEPT !.code = s.binding.code]
  BY StoreFields DEF Binding
<1> QED
  BY <1>2, <1>3 DEF Same

-----------------------------------------------------------------------------
\* The next write of a call.

\* A call is about to perform the next of its writes.
Performs == op \in Op /\ op.todo # <<>> /\ recovered \in BOOLEAN /\ Perform(Head(op.todo))

\* The key is in use, or kept for the end of a replacement of the API key.
InUse == unlocked \/ replacement

\* The profile stays sound, what is complete stays so, what is whole stays so
\* as long as the key is in use.
Moved ==
  /\ Profile(db', store', flushed', spent')
  /\ Keyed(store) /\ Keyed(flushed) => Keyed(store') /\ Keyed(flushed')
  /\ InUse /\ Whole(db, store, recovered) => Whole(db', store', recovered')
  /\ recovered' \in BOOLEAN

\* Reaching the disk, reading the key and the restart recovery change no storage
\* in memory.
LEMMA QuietMoves ==
  ASSUME ProfileOK, Performs, op.todo[1].do \in {"sync", "readkey", "recover"}
  PROVE  /\ Moved /\ UNCHANGED <<db, store, spent>>
         /\ flushed' = IF op.todo[1].do = "sync" THEN store ELSE flushed
         /\ IF op.todo[1].do = "recover" THEN recovered' ELSE recovered' = recovered
<1>1. op.todo \in Seq(Writes) /\ op.todo # <<>> /\ recovered \in BOOLEAN /\ Perform(Head(op.todo))
  BY DEF Performs, Op
<1>2. /\ UNCHANGED <<db, store, spent>>
      /\ flushed' = IF op.todo[1].do = "sync" THEN store ELSE flushed
      /\ IF op.todo[1].do = "recover" THEN recovered' ELSE recovered' = recovered
  BY <1>1, PerformIs
<1>3. recovered' \in BOOLEAN
  BY <1>1 DEF Perform
<1> QED
  BY <1>2, <1>3 DEF Moved, ProfileOK, Profile, Whole

\* A sound storage that keeps the key on disk is put.
LEMMA PutMoves ==
  ASSUME ProfileOK, Performs, op.todo[1].do = "put",
         Kept(db, op.todo[1].store, spent), ~Plain(op.todo[1].store),
         store.dek # NoId => op.todo[1].store.dek = store.dek,
         Keyed(store) => Keyed(op.todo[1].store),
         InUse /\ Whole(db, store, recovered) => Whole(db, op.todo[1].store, recovered)
  PROVE  /\ Moved /\ store' = op.todo[1].store /\ store' \in Store
         /\ UNCHANGED <<db, flushed, spent, recovered>>
<1>1. op.todo \in Seq(Writes) /\ op.todo # <<>> /\ recovered \in BOOLEAN /\ Perform(Head(op.todo))
  BY DEF Performs, Op
<1>2. store' = op.todo[1].store /\ UNCHANGED <<db, flushed, spent, recovered>>
  BY <1>1, PerformIs
<1>3. store' \in Store
  BY <1>1, <1>2, Left DEF Writes
<1>4. flushed.dek # NoId => store'.dek = flushed.dek
  BY <1>2 DEF ProfileOK, Profile
<1> QED
  BY <1>1, <1>2, <1>3, <1>4 DEF Moved, ProfileOK, Profile

\* A pending PIN goes one step of its way.
LEMMA ReconcileMoves ==
  ASSUME ProfileOK, Performs, ReconcilePlan(op.todo, db, store, flushed, op.kind, op.record)
  PROVE  /\ Moved
         /\ ReconcilePlan(Tail(op.todo), db', store', flushed', op.kind, op.record)
         /\ Plain(store) => UNCHANGED <<db, store>>
<1> DEFINE T == op.todo
           N == Len(T)
           R == Tail(op.todo)
           b == store.binding
<1>1. T \in Seq(Writes) /\ T # <<>> /\ recovered \in BOOLEAN /\ Perform(Head(T))
  BY DEF Performs, Op
<1>2. /\ N \in Nat \ {0} /\ Len(R) = N - 1 /\ R \in Seq(Writes)
      /\ \A i \in 1 .. N - 1 : R[i] = T[i + 1]
  BY <1>1, Left
<1> HIDE DEF R, N
<1>n. N = Len(T)
  BY DEF N
<1>3. Plain(store) => b.pending = NoRecord
  BY Nothing DEF Plain
<1>4. CASE N = 4
  <2>1. T[1] = Sync /\ T[2] = SaveAuth(b.pending)
        /\ T[3] = Put([store EXCEPT !.binding = Completed(b)]) /\ T[4] = Sync
        /\ b.pending # NoRecord
    BY <1>n, <1>4 DEF ReconcilePlan
  <2>2. T[1].do = "sync"
    BY <2>1, WriteFields
  <2>3. Moved /\ UNCHANGED <<db, store>> /\ flushed' = store
    BY <2>2, QuietMoves
  <2>4. Len(R) = 3 /\ R[1] = T[2] /\ R[2] = T[3] /\ R[3] = T[4]
    BY <1>2, <1>4
  <2>5. ReconcilePlan(R, db', store', flushed', op.kind, op.record)
    BY <1>n, <1>4, <2>1, <2>3, <2>4 DEF ReconcilePlan
  <2> QED
    BY <2>3, <2>5 DEF R
<1>5. CASE N = 3
  <2>1. T[1] = SaveAuth(b.pending) /\ T[2] = Put([store EXCEPT !.binding = Completed(b)])
        /\ T[3] = Sync /\ b.pending # NoRecord /\ flushed = store
    BY <1>n, <1>5 DEF ReconcilePlan
  <2>2. b.pending \in Record
    BY StoreFields DEF ProfileOK, Profile
  <2>3. T[1].do = "auth" /\ T[1].record = b.pending
    BY <2>1, <2>2, WriteFields
  <2>4. /\ db' = [db EXCEPT !.auth = b.pending] /\ UNCHANGED <<store, flushed, recovered>>
        /\ spent' = IF b.proof = "code" THEN spent \cup {b.gen} ELSE spent
    BY <1>1, <2>3, PerformIs
  <2>5. db' \in Database /\ db'.auth = b.pending /\ Kept(db', store, spent')
        /\ spent' \subseteq 1 .. MaxCodes
    BY <2>1, <2>4, VerifierMoves DEF ProfileOK, Profile
  <2>6. Moved
    BY <1>1, <2>1, <2>4, <2>5 DEF Moved, ProfileOK, Profile, Whole
  <2>7. Len(R) = 2 /\ R[1] = T[2] /\ R[2] = T[3]
    BY <1>2, <1>5
  <2>8. op.kind \in {"system", "code"} => StatesMatch(db', store')
    <3>1. Keyed(store) /\ ~Plain(store)
      BY <2>1, KeptFacts DEF ProfileOK, Profile
    <3> QED
      BY <2>4, <2>5, <3>1, KeptFacts DEF ProfileOK, Profile
  <2>9. ReconcilePlan(R, db', store', flushed', op.kind, op.record)
    BY <1>n, <1>5, <2>1, <2>4, <2>5, <2>7, <2>8 DEF ReconcilePlan
  <2> QED
    BY <1>3, <2>1, <2>6, <2>9 DEF R
<1>6. CASE N = 2
  <2> DEFINE x == [store EXCEPT !.binding = Completed(b)]
  <2>1. T[1] = Put(x) /\ T[2] = Sync /\ b.pending # NoRecord /\ db.auth = b.pending
        /\ flushed = store
    BY <1>n, <1>6 DEF ReconcilePlan
  <2>2. x \in Store /\ Kept(db, x, spent) /\ Keyed(x) /\ x.dek = store.dek
        /\ x.binding.pending = NoRecord
    BY <2>1, Completes DEF ProfileOK, Profile
  <2> HIDE DEF x
  <2>3. T[1].do = "put" /\ T[1].store = x
    BY <2>1, <2>2, WriteFields
  <2>4. ~Whole(db, store, recovered)
    BY <2>1 DEF Whole
  <2>5. ~Plain(x)
    BY <2>2 DEF Keyed, Plain
  <2>6. Moved /\ store' = x /\ UNCHANGED <<db, flushed, spent, recovered>>
    BY <2>2, <2>3, <2>4, <2>5, PutMoves
  <2>7. Len(R) = 1 /\ R[1] = T[2]
    BY <1>2, <1>6
  <2>8. StatesMatch(db, x)
    BY <2>2, <2>5, KeptFacts DEF ProfileOK, Profile
  <2>9. ReconcilePlan(R, db', store', flushed', op.kind, op.record)
    BY <1>n, <1>6, <2>1, <2>2, <2>6, <2>7, <2>8 DEF ReconcilePlan
  <2> QED
    BY <1>3, <2>1, <2>6, <2>9 DEF R
<1>7. CASE N = 1
  <2>1. T[1] = Sync /\ b.pending = NoRecord
    BY <1>n, <1>7 DEF ReconcilePlan
  <2>2. Moved /\ UNCHANGED <<db, store>> /\ flushed' = store
    BY <2>1, WriteFields, QuietMoves
  <2>3. Len(R) = 0
    BY <1>2, <1>7
  <2>4. ReconcilePlan(R, db', store', flushed', op.kind, op.record)
    BY <1>n, <1>7, <2>1, <2>2, <2>3 DEF ReconcilePlan
  <2> QED
    BY <2>2, <2>4 DEF R
<1>8. N = 1 \/ N = 2 \/ N = 3 \/ N = 4
  <2>1. N <= 4
    BY <1>n DEF ReconcilePlan
  <2> QED
    BY <1>2, <2>1
<1> QED
  BY <1>4, <1>5, <1>6, <1>7, <1>8

\* A registration goes one step of its way, or one step back.
LEMMA RegisterMoves ==
  ASSUME ProfileOK, Performs, RegisterPlan(op.todo, db, store, flushed, op.phase, op.record)
  PROVE  /\ Moved
         /\ RegisterPlan(Tail(op.todo), db', store', flushed', op.phase, op.record)
<1> DEFINE T == op.todo
           N == Len(T)
           R == Tail(op.todo)
           w == T[1]
<1>1. T \in Seq(Writes) /\ T # <<>> /\ recovered \in BOOLEAN /\ Perform(Head(T))
  BY DEF Performs, Op
<1>2. /\ N \in Nat \ {0} /\ Len(R) = N - 1 /\ w \in Writes
      /\ \A i \in 1 .. N - 1 : R[i] = T[i + 1]
  BY <1>1, Left
<1>3. /\ Plain(store) /\ Plain(flushed) /\ db.enc = NoId
      /\ \A i \in 1 .. N : /\ T[i].do \in {"auth", "put", "unkey", "unreg"}
                           /\ T[i].do = "put" => Plain(T[i].store)
      /\ op.phase = "register" => op.record # NoRecord /\ T[N].do = "put" /\ T[N].store.key
  BY <1>2 DEF RegisterPlan
<1>4. w.do \in {"auth", "put", "unkey", "unreg"} /\ (w.do = "put" => Plain(w.store))
  BY <1>2, <1>3
<1>5. db' \in Database /\ db'.enc = NoId
  BY <1>1, <1>2, <1>3, <1>4, PerformIs DEF ProfileOK, Profile, Database, Writes
<1>6. /\ store' \in Store /\ Plain(store') /\ flushed' = flushed /\ recovered' = recovered
      /\ w.do = "put" => store' = w.store
  <2>1. /\ [store EXCEPT !.key = FALSE] \in Store /\ Plain([store EXCEPT !.key = FALSE])
        /\ [store EXCEPT !.reg = 0] \in Store /\ Plain([store EXCEPT !.reg = 0])
    <3>1. store \in Store /\ 0 \in 0 .. MaxRecords
      BY ProtectionAssumption DEF ProfileOK, Profile, ProtectionAssumption
    <3>2. [store EXCEPT !.key = FALSE] \in Store /\ [store EXCEPT !.reg = 0] \in Store
      BY <3>1 DEF Store
    <3>3. /\ [store EXCEPT !.key = FALSE].binding = store.binding
          /\ [store EXCEPT !.key = FALSE].init = store.init
          /\ [store EXCEPT !.key = FALSE].dek = store.dek
          /\ [store EXCEPT !.reg = 0].binding = store.binding
          /\ [store EXCEPT !.reg = 0].init = store.init
          /\ [store EXCEPT !.reg = 0].dek = store.dek
      BY <3>1 DEF Store
    <3> QED
      BY <1>3, <3>2, <3>3 DEF Plain
  <2> QED
    BY <1>1, <1>2, <1>3, <1>4, <2>1, PerformIs DEF Writes, ProfileOK, Profile
<1>7. spent' = spent
  <2>1. store.binding.proof # "code"
    BY <1>3, Nothing DEF Plain
  <2> QED
    BY <1>1, <2>1, PerformIs
<1>8. Kept(db', store', spent') /\ Kept(db', flushed', spent')
  BY <1>3, <1>5, <1>6, <1>7, PlainKept DEF ProfileOK, Profile
<1>9. Moved
  <2>1. Profile(db', store', flushed', spent')
    BY <1>3, <1>5, <1>6, <1>7, <1>8 DEF ProfileOK, Profile, Plain
  <2>2. ~Keyed(store) /\ ~Whole(db, store, recovered)
    BY <1>3 DEF Plain, Keyed, Whole
  <2> QED
    BY <1>1, <1>6, <2>1, <2>2 DEF Moved
<1> HIDE DEF R, T, N
<1>10. N = Len(T)
  BY DEF N
<1>11. RegisterPlan(R, db', store', flushed', op.phase, op.record)
  <2>1. \A i \in 1 .. Len(R) : /\ R[i].do \in {"auth", "put", "unkey", "unreg"}
                               /\ R[i].do = "put" => Plain(R[i].store)
    BY <1>2, <1>3
  <2>2. op.phase = "register" =>
          IF Len(R) = 0 THEN store'.key ELSE R[Len(R)].do = "put" /\ R[Len(R)].store.key
    <3>1. CASE N = 1
      BY <1>2, <1>3, <1>6, <3>1
    <3>2. CASE N # 1
      <4>1. Len(R) # 0 /\ R[Len(R)] = T[N]
        BY <1>2, <3>2
      <4> QED
        BY <1>3, <4>1
    <3> QED
      BY <3>1, <3>2
  <2> QED
    BY <1>3, <1>5, <1>6, <2>1, <2>2 DEF RegisterPlan
<1> QED
  BY <1>9, <1>11 DEF R

\* The way to the key is one step longer.
LEMMA KeyMoves ==
  ASSUME ProfileOK, Performs, KeyPlan(op.todo, db, store, flushed, spent, op.record)
  PROVE  /\ Moved
         /\ KeyPlan(Tail(op.todo), db', store', flushed', spent', op.record)
<1> DEFINE T == op.todo
           N == Len(T)
           R == Tail(op.todo)
           w == T[1]
<1>1. T \in Seq(Writes) /\ T # <<>>
  BY DEF Performs, Op
<1>2. /\ N \in Nat \ {0} /\ Len(R) = N - 1
      /\ \A i \in 1 .. N - 1 : R[i] = T[i + 1]
  BY <1>1, Left
<1> HIDE DEF R, N
<1>3. N = Len(T)
  BY DEF N
<1>4. /\ op.record = db.auth /\ store.binding.pending = NoRecord
      /\ \A i \in 1 .. N : T[i].do \in {"put", "sync", "readkey"}
      /\ \A i \in 1 .. N : T[i].do = "put" => KeyPut(T, i, db, store, spent)
      /\ \/ /\ T[N].do = "sync"
            /\ IF N = 1 THEN Keyed(store) ELSE T[N - 1].do = "put" /\ Keyed(T[N - 1].store)
         \/ /\ T[N].do = "readkey" /\ Keyed(store) /\ N <= 2
            /\ IF N = 2 THEN T[1] = Sync ELSE Keyed(flushed)
  BY <1>2, <1>3 DEF KeyPlan
<1>5. \A i \in 1 .. Len(R) : R[i].do \in {"put", "sync", "readkey"}
  BY <1>2, <1>4
<1>6. CASE w.do = "put"
  <2> DEFINE x == w.store
  <2>1. KeyPut(T, 1, db, store, spent)
    BY <1>2, <1>4, <1>6
  <2>2. /\ Kept(db, x, spent) /\ ~Plain(x) /\ x.binding.pending = NoRecord
        /\ ~Keyed(store) /\ (store.dek # NoId => x.dek = store.dek)
        /\ Keyed(x) => N = 2
    BY <1>2, <1>3, <2>1 DEF KeyPut
  <2>3. ~Whole(db, store, recovered)
    BY <2>2, KeptFacts DEF Whole, ProfileOK, Profile
  <2>4. Moved /\ store' = x /\ UNCHANGED <<db, flushed, spent>>
    BY <1>6, <2>2, <2>3, PutMoves
  <2>5. T[N].do = "sync" /\ N # 1 /\ T[N - 1].do = "put" /\ Keyed(T[N - 1].store)
    BY <1>4, <1>6, <2>2
  <2>6. \A i \in 1 .. Len(R) : R[i].do = "put" => KeyPut(R, i, db, x, spent)
    <3> SUFFICES ASSUME NEW i \in 1 .. Len(R), R[i].do = "put"
                 PROVE  KeyPut(R, i, db, x, spent)
      OBVIOUS
    <3>1. i + 1 \in 1 .. N /\ R[i] = T[i + 1]
      BY <1>2
    <3>2. KeyPut(T, i + 1, db, store, spent)
      BY <1>4, <3>1
    <3>3. N # 2
      <4> SUFFICES ASSUME N = 2 PROVE FALSE
        OBVIOUS
      <4>1. i = 1
        BY <1>2
      <4> QED
        BY <2>5, <3>1, <4>1
    <3>4. ~Keyed(x)
      BY <2>2, <3>3
    <3>5. \A j \in 1 .. Len(R) : R[j] = T[j + 1] /\ j + 1 \in 1 .. Len(T)
      BY <1>2, <1>3
    <3>6. x.dek # NoId => R[i].store.dek = x.dek
      BY <1>3, <2>1, <3>1 DEF KeyPut
    <3>7. \A j \in 1 .. Len(R) : j > i /\ R[j].do = "put" /\ R[i].store.dek # NoId
                                   => R[j].store.dek = R[i].store.dek
      BY <3>1, <3>2, <3>5 DEF KeyPut
    <3>8. Keyed(R[i].store) => i = Len(R) - 1
      BY <1>2, <1>3, <3>1, <3>2 DEF KeyPut
    <3>9. Kept(db, R[i].store, spent) /\ ~Plain(R[i].store) /\ R[i].store.binding.pending = NoRecord
      BY <3>1, <3>2 DEF KeyPut
    <3> QED
      BY <3>4, <3>6, <3>7, <3>8, <3>9 DEF KeyPut
  <2>7. IF Len(R) = 1 THEN Keyed(x) ELSE R[Len(R) - 1].do = "put" /\ Keyed(R[Len(R) - 1].store)
    BY <1>2, <2>5
  <2>8. Len(R) > 0 /\ R[Len(R)].do = "sync"
    BY <1>2, <2>5
  <2> HIDE DEF x
  <2>9. KeyPlan(R, db, x, flushed, spent, op.record)
    BY <1>4, <1>5, <2>2, <2>6, <2>7, <2>8 DEF KeyPlan
  <2> QED
    BY <2>4, <2>9 DEF R
<1>7. CASE w.do # "put"
  <2>1. w.do \in {"sync", "readkey"}
    BY <1>2, <1>4, <1>7
  <2>2. Moved /\ UNCHANGED <<db, store, spent>>
        /\ flushed' = IF w.do = "sync" THEN store ELSE flushed
    BY <2>1, QuietMoves
  <2>3. \A i \in 1 .. Len(R) : R[i].do = "put" => KeyPut(R, i, db, store, spent)
    <3> SUFFICES ASSUME NEW i \in 1 .. Len(R), R[i].do = "put"
                 PROVE  KeyPut(R, i, db, store, spent)
      OBVIOUS
    <3>1. i + 1 \in 1 .. N /\ R[i] = T[i + 1]
      BY <1>2
    <3>2. KeyPut(T, i + 1, db, store, spent)
      BY <1>4, <3>1
    <3>3. \A j \in 1 .. Len(R) : R[j] = T[j + 1] /\ j + 1 \in 1 .. Len(T)
      BY <1>2, <1>3
    <3>4. \A j \in 1 .. Len(R) : j > i /\ R[j].do = "put" /\ R[i].store.dek # NoId
                                   => R[j].store.dek = R[i].store.dek
      BY <3>1, <3>2, <3>3 DEF KeyPut
    <3>5. Keyed(R[i].store) => i = Len(R) - 1
      BY <1>2, <1>3, <3>1, <3>2 DEF KeyPut
    <3> QED
      BY <3>1, <3>2, <3>4, <3>5 DEF KeyPut
  <2>4. Len(R) = 0 => Keyed(store) /\ Keyed(flushed')
    BY <1>2, <1>4, <2>1, <2>2
  <2>5. Len(R) > 0 =>
          \/ /\ R[Len(R)].do = "sync"
             /\ IF Len(R) = 1 THEN Keyed(store)
                ELSE R[Len(R) - 1].do = "put" /\ Keyed(R[Len(R) - 1].store)
          \/ /\ R[Len(R)].do = "readkey" /\ Keyed(store) /\ Len(R) <= 2
             /\ IF Len(R) = 2 THEN R[1] = Sync ELSE Keyed(flushed')
    <3> QED
      BY <1>2, <1>4, <1>7, <2>2, WriteFields
  <2>6. KeyPlan(R, db, store, flushed', spent, op.record)
    BY <1>4, <1>5, <2>3, <2>4, <2>5 DEF KeyPlan
  <2> QED
    BY <2>2, <2>6 DEF R
<1> QED
  BY <1>6, <1>7

\* The encryption and its record are one step further.
LEMMA MigrateMoves ==
  ASSUME ProfileOK, Performs,
         MigratePlan(op.todo, db, store, flushed, spent, recovered, op.record)
  PROVE  /\ Moved
         /\ MigratePlan(Tail(op.todo), db', store', flushed', spent', recovered', op.record)
<1> DEFINE T == op.todo
           N == Len(T)
           R == Tail(op.todo)
           w == T[1]
<1>1. T \in Seq(Writes) /\ T # <<>> /\ recovered \in BOOLEAN /\ Perform(Head(T))
  BY DEF Performs, Op
<1>2. /\ N \in Nat \ {0} /\ Len(R) = N - 1
      /\ \A i \in 1 .. N - 1 : R[i] = T[i + 1]
  BY <1>1, Left
<1> HIDE DEF R, N
<1>3. N = Len(T)
  BY DEF N
<1>4. /\ op.record = db.auth /\ store.binding.pending = NoRecord
      /\ Keyed(store) /\ Keyed(flushed)
      /\ db.enc # NoId \/ w.do = "migrate"
      /\ recovered \/ \E i \in 1 .. N : T[i].do = "recover"
      /\ \A i \in 1 .. N : /\ T[i].do \in {"migrate", "recover", "put", "sync"}
                           /\ T[i].do = "migrate" => i = 1
      /\ \A i \in 1 .. N : T[i].do = "put" => MigratePut(T, i, db, store, spent)
      /\ \/ Finished(store)
         \/ N > 1 /\ T[N].do = "sync" /\ T[N - 1].do = "put" /\ Finished(T[N - 1].store)
  BY <1>2, <1>3 DEF MigratePlan
<1>5. \A i \in 1 .. Len(R) : i + 1 \in 1 .. N /\ R[i] = T[i + 1]
  BY <1>2
<1>6. \A i \in 1 .. Len(R) : /\ R[i].do \in {"migrate", "recover", "put", "sync"}
                             /\ R[i].do # "migrate"
  BY <1>4, <1>5
<1>7. /\ db \in Database /\ store \in Store /\ flushed \in Store
      /\ Kept(db, store, spent) /\ Kept(db, flushed, spent) /\ flushed.dek = store.dek
  BY <1>4 DEF ProfileOK, Profile, Keyed
<1>8. w.do # "recover" /\ ~recovered => \E i \in 1 .. Len(R) : R[i].do = "recover"
  <2> SUFFICES ASSUME w.do # "recover", ~recovered
               PROVE  \E i \in 1 .. Len(R) : R[i].do = "recover"
    OBVIOUS
  <2>1. PICK i \in 1 .. N : T[i].do = "recover"
    BY <1>4
  <2>2. i - 1 \in 1 .. Len(R) /\ R[i - 1] = T[i]
    BY <1>2, <2>1
  <2> QED
    BY <2>1, <2>2
<1>9. w.do # "put" /\ ~Finished(store) =>
        Len(R) > 1 /\ R[Len(R)].do = "sync" /\ R[Len(R) - 1].do = "put" /\ Finished(R[Len(R) - 1].store)
  <2> SUFFICES ASSUME w.do # "put", ~Finished(store)
               PROVE  Len(R) > 1 /\ R[Len(R)].do = "sync" /\ R[Len(R) - 1].do = "put"
                      /\ Finished(R[Len(R) - 1].store)
    OBVIOUS
  <2>1. N > 1 /\ T[N].do = "sync" /\ T[N - 1].do = "put" /\ Finished(T[N - 1].store)
    BY <1>4
  <2>2. N > 2
    <3> SUFFICES ASSUME N = 2 PROVE FALSE
      BY <1>2, <2>1
    <3> QED
      BY <2>1
  <2> QED
    BY <1>2, <2>1, <2>2
<1>10. \A i \in 1 .. Len(R), d \in Database :
         R[i].do = "put" /\ d.enc = store.binding.id /\ d = [db EXCEPT !.enc = store.binding.id]
           => MigratePut(R, i, d, store, spent)
  <2> SUFFICES ASSUME NEW i \in 1 .. Len(R), NEW d \in Database,
                      R[i].do = "put", d = [db EXCEPT !.enc = store.binding.id]
               PROVE  MigratePut(R, i, d, store, spent)
    OBVIOUS
  <2>1. MigratePut(T, i + 1, db, store, spent)
    BY <1>4, <1>5
  <2>2. [d EXCEPT !.enc = store.binding.id] = d
    BY <1>7 DEF Database
  <2>3. Finished(R[i].store) => i = Len(R) - 1
    BY <1>2, <1>3, <1>5, <2>1 DEF MigratePut
  <2> HIDE DEF R
  <2> QED
    BY <1>5, <2>1, <2>2, <2>3 DEF MigratePut
<1>11. CASE w.do = "put"
  <2> DEFINE x == w.store
  <2>1. MigratePut(T, 1, db, store, spent) /\ db.enc # NoId
    BY <1>2, <1>4, <1>11
  <2>2. [db EXCEPT !.enc = store.binding.id] = db
    BY <1>4, <1>7, <2>1, Encrypts
  <2>3. /\ Kept(db, x, spent) /\ x.binding.pending = NoRecord
        /\ ~Finished(store) /\ x.dek = store.dek /\ (Finished(x) => N = 2)
    BY <1>2, <1>3, <2>1, <2>2 DEF MigratePut
  <2>4. w \in Writes /\ x \in Store
    BY <1>1, Left DEF Writes
  <2>5. Keyed(x) /\ ~Plain(x) /\ x.dek = x.binding.id /\ store.dek = store.binding.id
    BY <1>4, <1>7, <2>1, <2>3, <2>4, KeptFacts
  <2>6. Moved /\ store' = x /\ UNCHANGED <<db, flushed, spent, recovered>>
    BY <1>11, <2>3, <2>5, PutMoves DEF Whole
  <2>7. N > 1 /\ T[N].do = "sync" /\ T[N - 1].do = "put" /\ Finished(T[N - 1].store)
    BY <1>4, <2>3
  <2>8. \A i \in 1 .. Len(R) : R[i].do = "put" => MigratePut(R, i, db, x, spent)
    <3> SUFFICES ASSUME NEW i \in 1 .. Len(R), R[i].do = "put"
                 PROVE  MigratePut(R, i, db, x, spent)
      OBVIOUS
    <3>1. MigratePut(R, i, db, store, spent)
      BY <1>10, <2>2, <2>1, <1>7, KeptFacts, <2>5
    <3>2. N # 2
      <4> SUFFICES ASSUME N = 2 PROVE FALSE
        OBVIOUS
      <4>1. R[i] = T[N]
        BY <1>2, <1>5
      <4> QED
        BY <2>7, <4>1
    <3>3. x.binding.id = store.binding.id
      BY <2>3, <2>5
    <3> HIDE DEF x
    <3> QED
      BY <2>3, <3>1, <3>2, <3>3 DEF MigratePut
  <2>9. \/ Finished(x)
        \/ Len(R) > 1 /\ R[Len(R)].do = "sync" /\ R[Len(R) - 1].do = "put"
           /\ Finished(R[Len(R) - 1].store)
    <3>1. CASE N = 2
      BY <2>7, <3>1
    <3>2. CASE N # 2
      BY <1>2, <2>7, <3>2
    <3> QED
      BY <3>1, <3>2
  <2>10. recovered \/ \E i \in 1 .. Len(R) : R[i].do = "recover"
    BY <1>8, <1>11
  <2> HIDE DEF x
  <2>11. MigratePlan(R, db, x, flushed, spent, recovered, op.record)
    BY <1>4, <1>6, <2>1, <2>3, <2>5, <2>8, <2>9, <2>10 DEF MigratePlan
  <2> QED
    BY <2>6, <2>11 DEF R
<1>12. CASE w.do = "migrate"
  <2>1. /\ db' = [db EXCEPT !.enc = store.binding.id] /\ UNCHANGED <<store, flushed, recovered>>
        /\ spent' = spent
    BY <1>1, <1>12, PerformIs
  <2>2. store.binding.id = flushed.binding.id
    BY <1>4, <1>7, KeptFacts
  <2>3. /\ db' \in Database /\ db'.auth = db.auth /\ db'.enc = store.binding.id /\ db'.enc # NoId
        /\ Kept(db', store, spent) /\ Kept(db', flushed, spent)
    BY <1>4, <1>7, <2>1, <2>2, Encrypts
  <2>4. Moved
    BY <1>1, <2>1, <2>3 DEF Moved, ProfileOK, Profile, Whole
  <2>5. \A i \in 1 .. Len(R) : R[i].do = "put" => MigratePut(R, i, db', store, spent)
    BY <1>10, <2>1, <2>3
  <2>6. recovered \/ \E i \in 1 .. Len(R) : R[i].do = "recover"
    BY <1>8, <1>12
  <2>7. \/ Finished(store)
        \/ Len(R) > 1 /\ R[Len(R)].do = "sync" /\ R[Len(R) - 1].do = "put"
           /\ Finished(R[Len(R) - 1].store)
    BY <1>9, <1>12
  <2>8. MigratePlan(R, db', store, flushed, spent, recovered, op.record)
    BY <1>4, <1>6, <2>3, <2>5, <2>6, <2>7 DEF MigratePlan
  <2> QED
    BY <2>1, <2>4, <2>8 DEF R
<1>13. CASE w.do \in {"sync", "recover"}
  <2>1. /\ Moved /\ UNCHANGED <<db, store, spent>>
        /\ flushed' = IF w.do = "sync" THEN store ELSE flushed
        /\ IF w.do = "recover" THEN recovered' ELSE recovered' = recovered
    BY <1>13, QuietMoves
  <2>2. db.enc # NoId /\ Keyed(flushed')
    BY <1>4, <1>13, <2>1
  <2>3. [db EXCEPT !.enc = store.binding.id] = db /\ db.enc = store.binding.id
    BY <1>4, <1>7, <2>2, Encrypts, KeptFacts
  <2>4. \A i \in 1 .. Len(R) : R[i].do = "put" => MigratePut(R, i, db, store, spent)
    BY <1>7, <1>10, <2>3
  <2>5. recovered' \/ \E i \in 1 .. Len(R) : R[i].do = "recover"
    BY <1>8, <2>1
  <2>6. \/ Finished(store)
        \/ Len(R) > 1 /\ R[Len(R)].do = "sync" /\ R[Len(R) - 1].do = "put"
           /\ Finished(R[Len(R) - 1].store)
    BY <1>9, <1>13
  <2>7. MigratePlan(R, db, store, flushed', spent, recovered', op.record)
    BY <1>4, <1>6, <2>2, <2>4, <2>5, <2>6 DEF MigratePlan
  <2> QED
    BY <2>1, <2>7 DEF R
<1>14. w.do \in {"migrate", "recover", "put", "sync"}
  BY <1>2, <1>4
<1> QED
  BY <1>11, <1>12, <1>13, <1>14

\* The intent of a new PIN is one step nearer to the disk.
LEMMA IntentMoves ==
  ASSUME ProfileOK, Performs, IntentPlan(op.todo, db, store, flushed, spent, op.record),
         ~InUse
  PROVE  /\ Moved
         /\ IntentPlan(Tail(op.todo), db', store', flushed', spent', op.record)
<1> DEFINE T == op.todo
           N == Len(T)
           R == Tail(op.todo)
<1>1. T \in Seq(Writes) /\ T # <<>>
  BY DEF Performs, Op
<1>2. /\ N \in Nat \ {0} /\ Len(R) = N - 1
      /\ \A i \in 1 .. N - 1 : R[i] = T[i + 1]
  BY <1>1, Left
<1> HIDE DEF R, N
<1>3. N = Len(T)
  BY DEF N
<1>4. N = 1 \/ N = 2
  <2>1. N <= 2
    BY <1>3 DEF IntentPlan
  <2> QED
    BY <1>2, <2>1
<1>5. CASE N = 2
  <2>1. /\ T[1].do = "put" /\ T[2] = Sync /\ Keyed(flushed) /\ op.record # NoRecord
        /\ Kept(db, T[1].store, spent) /\ Keyed(T[1].store) /\ T[1].store.dek = store.dek
        /\ T[1].store.binding.pending = op.record
    BY <1>3, <1>5 DEF IntentPlan
  <2>2. Moved /\ store' = T[1].store /\ UNCHANGED <<db, flushed, spent, recovered>>
    BY <2>1, PutMoves DEF Keyed, Plain
  <2>3. Len(R) = 1 /\ R[1] = Sync
    BY <1>2, <1>5, <2>1
  <2>4. IntentPlan(R, db', store', flushed', spent', op.record)
    BY <2>1, <2>2, <2>3 DEF IntentPlan
  <2> QED
    BY <2>2, <2>4 DEF R
<1>6. CASE N = 1
  <2>1. T[1] = Sync /\ Keyed(store) /\ op.record # NoRecord /\ store.binding.pending = op.record
    BY <1>3, <1>6 DEF IntentPlan
  <2>2. Moved /\ UNCHANGED <<db, store, spent>> /\ flushed' = store
    BY <2>1, WriteFields, QuietMoves
  <2>3. Len(R) = 0
    BY <1>2, <1>6
  <2>4. IntentPlan(R, db', store', flushed', spent', op.record)
    BY <2>1, <2>2, <2>3 DEF IntentPlan
  <2> QED
    BY <2>2, <2>4 DEF R
<1> QED
  BY <1>4, <1>5, <1>6

\* The binding with another code is one step nearer to the disk.
LEMMA RewriteMoves ==
  ASSUME ProfileOK, Performs, RewritePlan(op.todo, db, store, spent, op.kind, op.before)
  PROVE  /\ Moved
         /\ RewritePlan(Tail(op.todo), db', store', spent', op.kind, op.before)
<1> DEFINE T == op.todo
           N == Len(T)
           R == Tail(op.todo)
<1>1. T \in Seq(Writes) /\ T # <<>> /\ op.before \in Store
  BY DEF Performs, Op
<1>2. /\ N \in Nat \ {0} /\ Len(R) = N - 1 /\ T[1] \in Writes
      /\ \A i \in 1 .. N - 1 : R[i] = T[i + 1]
  BY <1>1, Left
<1> HIDE DEF R, N
<1>3. N = Len(T)
  BY DEF N
<1>4. N = 1 \/ N = 2
  <2>1. N <= 2
    BY <1>3 DEF RewritePlan
  <2> QED
    BY <1>2, <2>1
<1>5. /\ store.binding.pending = NoRecord /\ db.enc # NoId
      /\ op.kind = "confirm" => Same(op.before, store) /\ CodeSound(op.before, spent)
  BY DEF RewritePlan
<1>6. CASE N = 2
  <2> DEFINE x == T[1].store
  <2>1. T[1].do = "put" /\ T[2] = Sync /\ Same(x, store) /\ CodeSound(x, spent)
    BY <1>3, <1>6 DEF RewritePlan
  <2>2. x \in Store /\ store \in Store /\ db \in Database /\ Kept(db, store, spent)
    BY <1>2 DEF Writes, ProfileOK, Profile
  <2> HIDE DEF x
  <2>3. /\ Kept(db, x, spent) /\ Keyed(x) /\ ~Plain(x)
        /\ x.binding.pending = NoRecord /\ (Finished(store) => Finished(x))
    BY <1>5, <2>1, <2>2, CodeMoves
  <2>9. x.dek = store.dek
    BY <2>1 DEF Same
  <2>4. op.kind = "confirm" => Same(op.before, x)
    BY <1>1, <1>5, <2>1, <2>2, SameMoves
  <2>5. Moved /\ store' = x /\ UNCHANGED <<db, flushed, spent, recovered>>
    BY <2>1, <2>3, <2>9, PutMoves DEF Whole, x
  <2>6. Len(R) = 1 /\ R[1] = Sync
    BY <1>2, <1>6, <2>1
  <2>7. RewritePlan(R, db, x, spent, op.kind, op.before)
    BY <1>5, <2>3, <2>4, <2>6 DEF RewritePlan
  <2> QED
    BY <2>5, <2>7 DEF R
<1>7. CASE N = 1
  <2>1. T[1] = Sync
    BY <1>3, <1>7 DEF RewritePlan
  <2>2. Moved /\ UNCHANGED <<db, store, spent>>
    BY <2>1, WriteFields, QuietMoves
  <2>3. Len(R) = 0
    BY <1>2, <1>7
  <2>4. RewritePlan(R, db, store, spent, op.kind, op.before)
    BY <1>5, <2>3 DEF RewritePlan
  <2> QED
    BY <2>2, <2>4 DEF R
<1> QED
  BY <1>4, <1>6, <1>7

-----------------------------------------------------------------------------
\* The writes of a call when it begins.

\* The two writes of a storage that is saved.
LEMMA SavedIs ==
  ASSUME NEW x \in Store
  PROVE  /\ Saved(x) \in Seq(Writes) /\ Len(Saved(x)) = 2
         /\ Saved(x)[1] = Put(x) /\ Saved(x)[2] = Sync
<1>1. Put(x) \in Writes /\ Sync \in Writes
  BY WriteFields
<1> QED
  BY <1>1 DEF Saved

\* What two lists are one after the other.
LEMMA Joined ==
  ASSUME NEW p \in Seq(Writes), NEW q \in Seq(Writes)
  PROVE  /\ p \o q \in Seq(Writes) /\ Len(p \o q) = Len(p) + Len(q)
         /\ Len(p) \in Nat /\ Len(q) \in Nat
         /\ \A i \in 1 .. Len(p) : (p \o q)[i] = p[i]
         /\ \A i \in Len(p) + 1 .. Len(p) + Len(q) : (p \o q)[i] = q[i - Len(p)]
  OBVIOUS

\* A start, a recovery or a replacement reconciles the profile it finds.
LEMMA ReconcileBegins ==
  ASSUME ProfileOK, NEW kind, NEW rec,
         kind \in {"system", "code"} => StatesMatch(db, store),
         kind = "replace" => /\ Keyed(store) /\ Keyed(flushed)
                             /\ store.binding.pending = rec /\ rec # NoRecord
  PROVE  Reconcile \in Seq(Writes) /\ ReconcilePlan(Reconcile, db, store, flushed, kind, rec)
<1>1. CASE store.binding.pending = NoRecord
  <2>1. Reconcile = <<>> /\ Reconcile \in Seq(Writes) /\ Len(Reconcile) = 0
    BY <1>1 DEF Reconcile
  <2> HIDE DEF Reconcile
  <2>2. kind # "replace"
    BY <1>1
  <2> QED
    BY <1>1, <2>1, <2>2 DEF ReconcilePlan
<1>2. CASE store.binding.pending # NoRecord
  <2> DEFINE b == store.binding
             x == [store EXCEPT !.binding = Completed(b)]
             p == <<Sync, SaveAuth(b.pending)>>
             q == Saved(x)
  <2>1. Reconcile = p \o q
    BY <1>2 DEF Reconcile, SaveBinding
  <2>2. b.pending \in Record /\ store \in Store
    BY StoreFields DEF ProfileOK, Profile
  <2>3. x \in Store
    <3>1. 0 \in 0 .. MaxCodes
      BY ProtectionAssumption DEF ProtectionAssumption
    <3>2. Completed(b) \in Binding
      BY <2>2, <3>1, StoreFields, Nothing DEF Completed, Binding
    <3> QED
      BY <2>2, <3>2 DEF Store
  <2>4. Sync \in Writes /\ SaveAuth(b.pending) \in Writes
    BY <2>2, WriteFields
  <2>5. p \in Seq(Writes) /\ Len(p) = 2 /\ p[1] = Sync /\ p[2] = SaveAuth(b.pending)
    BY <2>4
  <2>6. q \in Seq(Writes) /\ Len(q) = 2 /\ q[1] = Put(x) /\ q[2] = Sync
    BY <2>3, SavedIs
  <2> HIDE DEF p, q, x, b
  <2>7. /\ p \o q \in Seq(Writes) /\ Len(p \o q) = 4
        /\ (p \o q)[1] = Sync /\ (p \o q)[2] = SaveAuth(b.pending)
        /\ (p \o q)[3] = Put(x) /\ (p \o q)[4] = Sync
    <3>0. p \in Seq(Writes) /\ q \in Seq(Writes)
      BY <2>5, <2>6
    <3>9. /\ p \o q \in Seq(Writes) /\ Len(p \o q) = Len(p) + Len(q)
          /\ \A i \in 1 .. Len(p) : (p \o q)[i] = p[i]
          /\ \A i \in Len(p) + 1 .. Len(p) + Len(q) : (p \o q)[i] = q[i - Len(p)]
      BY <3>0, Joined
    <3>1. (p \o q)[1] = p[1] /\ (p \o q)[2] = p[2]
      BY <2>5, <3>9
    <3>2. (p \o q)[3] = q[1] /\ (p \o q)[4] = q[2]
      BY <2>5, <2>6, <3>9
    <3> QED
      BY <2>5, <2>6, <3>1, <3>2, <3>9
  <2>8. ReconcilePlan(p \o q, db, store, flushed, kind, rec)
    BY <1>2, <2>7 DEF ReconcilePlan, x, b
  <2> QED
    BY <2>1, <2>7, <2>8
<1> QED
  BY <1>1, <1>2

\* The intent of a new PIN, in a binding that is the present one otherwise.
LEMMA IntentBegins ==
  ASSUME ProfileOK, NEW g \in Grant, NEW rec \in Record, rec # NoRecord, rec.reg = store.reg,
         Keyed(store), Keyed(flushed), store.binding = g.binding, g.kind # "none",
         store.binding.pending = NoRecord, g.kind = "code" => g.binding.code.active
  PROVE  /\ SaveBinding(Prepared(g, rec)) \in Seq(Writes)
         /\ IntentPlan(SaveBinding(Prepared(g, rec)), db, store, flushed, spent, rec)
<1> DEFINE b == store.binding
           c == Prepared(g, rec)
           x == [store EXCEPT !.binding = c]
<1>1. /\ db \in Database /\ store \in Store /\ Kept(db, store, spent) /\ b \in Binding
      /\ b.code \in Code /\ b.code.gen \in 0 .. MaxCodes
      /\ 0 \in 0 .. MaxCodes /\ 0 \in 0 .. MaxFailed
      /\ g.kind \in {"system", "code"}
  BY StoreFields, ProtectionAssumption DEF ProfileOK, Profile, ProtectionAssumption, Grant
<1> DEFINE ended == [b.code EXCEPT !.active = FALSE, !.code = 0, !.failed = 0]
           code == IF g.kind = "code" THEN ended ELSE b.code
<1>2. ended \in Code /\ ended.gen = b.code.gen /\ ended.active = FALSE
  BY <1>1 DEF Code
<1> HIDE DEF ended
<1>4. /\ code \in Code /\ code.gen = b.code.gen
      /\ code.active => b.code.active
      /\ g.kind = "code" => ~code.active
  BY <1>1, <1>2
<1>5. c = [b EXCEPT !.pending = rec, !.proof = g.kind,
                    !.gen = IF g.kind = "code" THEN b.code.gen ELSE 0, !.code = code]
  BY <1>1, <1>2 DEF Prepared, Binding, ended
<1> HIDE DEF code, c
<1>6. /\ c \in Binding /\ c.id = b.id /\ c.fp = b.fp /\ c.protected = b.protected
      /\ c.pending = rec /\ c.proof = g.kind /\ c.code = code
      /\ g.kind = "code" => c.gen = b.code.gen
  BY <1>1, <1>4, <1>5 DEF Binding
<1>7. /\ x \in Store /\ x.reg = store.reg /\ x.key = store.key /\ x.dek = store.dek
      /\ x.init = store.init /\ x.binding = c
  BY <1>1, <1>6 DEF Store
<1>8. SaveBinding(c) = Saved(x)
  BY DEF SaveBinding
<1> HIDE DEF x, b
<1>9. Keyed(x) /\ ~Plain(x)
  BY <1>7 DEF Keyed, Plain
<1>10. /\ ~Plain(store) /\ b # NoBinding /\ store.dek = b.id /\ store.dek # NoId /\ b.fp = db.auth
       /\ InitSound(db, store) /\ StatesMatch(db, store)
  BY <1>1, KeptFacts DEF Kept, Sound, Keyed, b
<1>11. c # NoBinding
  BY <1>6, <1>10, Nothing
<1>12. Sound(db, x)
  <2>1. StatesMatch(db, x) /\ InitSound(db, x)
    BY <1>6, <1>7, <1>10, <1>11 DEF StatesMatch, InitSound, b
  <2>2. g.kind = "code" => ~c.code.active /\ c.code.gen = c.gen /\ c.gen # 0
    <3> SUFFICES ASSUME g.kind = "code" PROVE ~c.code.active /\ c.code.gen = c.gen /\ c.gen # 0
      OBVIOUS
    <3>1. b.code.active
      BY DEF b
    <3>2. b.code.gen # 0
      BY <1>1, <3>1 DEF Kept, CodeSound, b
    <3> QED
      BY <1>4, <1>6, <3>2
  <2>3. BindingSound(db, x)
    BY <1>6, <1>7, <1>9, <1>10, <1>11, <2>2 DEF BindingSound
  <2>4. IF db.enc = NoId THEN ~x.binding.protected /\ x.init.phase # "complete"
                         ELSE Keyed(x) /\ x.dek = db.enc
    BY <1>1, <1>6, <1>7, <1>9, <1>10 DEF Kept, Sound, b
  <2> QED
    BY <1>9, <2>1, <2>3, <2>4 DEF Sound
<1>13. CodeSound(x, spent)
  BY <1>1, <1>4, <1>6, <1>7 DEF Kept, CodeSound, b
<1>14. Put(x).do = "put" /\ Put(x).store = x
  BY <1>7, WriteFields
<1>15. /\ Saved(x) \in Seq(Writes) /\ Len(Saved(x)) = 2
       /\ Saved(x)[1] = Put(x) /\ Saved(x)[2] = Sync
  BY <1>7, SavedIs
<1>16. IntentPlan(Saved(x), db, store, flushed, spent, rec)
  BY <1>6, <1>7, <1>9, <1>12, <1>13, <1>14, <1>15 DEF IntentPlan, Kept
<1> QED
  BY <1>8, <1>15, <1>16 DEF c

\* A storage with another code, to be saved.
LEMMA RewriteBegins ==
  ASSUME NEW d, NEW s, NEW used, NEW x \in Store, NEW kind, NEW before,
         Same(x, s), CodeSound(x, used), s.binding.pending = NoRecord, d.enc # NoId,
         kind = "confirm" => Same(before, s) /\ CodeSound(before, used)
  PROVE  Saved(x) \in Seq(Writes) /\ RewritePlan(Saved(x), d, s, used, kind, before)
<1>1. /\ Saved(x) \in Seq(Writes) /\ Len(Saved(x)) = 2
      /\ Saved(x)[1] = Put(x) /\ Saved(x)[2] = Sync
  BY SavedIs
<1>2. Put(x).do = "put" /\ Put(x).store = x
  BY WriteFields
<1> QED
  BY <1>1, <1>2 DEF RewritePlan

\* A list with one more write.
LEMMA JoinedOne ==
  ASSUME NEW p \in Seq(Writes), NEW w \in Writes
  PROVE  /\ p \o <<w>> \in Seq(Writes) /\ Len(p \o <<w>>) = Len(p) + 1 /\ Len(p) \in Nat
         /\ \A i \in 1 .. Len(p) : (p \o <<w>>)[i] = p[i]
         /\ (p \o <<w>>)[Len(p) + 1] = w
<1> DEFINE q == <<w>>
<1>1. q \in Seq(Writes) /\ Len(q) = 1 /\ q[1] = w
  OBVIOUS
<1> HIDE DEF q
<1>2. /\ p \o q \in Seq(Writes) /\ Len(p \o q) = Len(p) + Len(q) /\ Len(p) \in Nat
      /\ \A i \in 1 .. Len(p) : (p \o q)[i] = p[i]
      /\ \A i \in Len(p) + 1 .. Len(p) + Len(q) : (p \o q)[i] = q[i - Len(p)]
  BY <1>1, Joined
<1>3. (p \o q)[Len(p) + 1] = q[1]
  BY <1>1, <1>2
<1> QED
  BY <1>1, <1>2, <1>3 DEF q

\* The same with two more writes.
LEMMA JoinedTwo ==
  ASSUME NEW p \in Seq(Writes), NEW q \in Seq(Writes), Len(q) = 2
  PROVE  /\ p \o q \in Seq(Writes) /\ Len(p \o q) = Len(p) + 2 /\ Len(p) \in Nat
         /\ \A i \in 1 .. Len(p) : (p \o q)[i] = p[i]
         /\ (p \o q)[Len(p) + 1] = q[1] /\ (p \o q)[Len(p) + 2] = q[2]
<1>1. /\ p \o q \in Seq(Writes) /\ Len(p \o q) = Len(p) + Len(q) /\ Len(p) \in Nat
      /\ \A i \in 1 .. Len(p) : (p \o q)[i] = p[i]
      /\ \A i \in Len(p) + 1 .. Len(p) + Len(q) : (p \o q)[i] = q[i - Len(p)]
  BY Joined
<1>2. (p \o q)[Len(p) + 1] = q[1] /\ (p \o q)[Len(p) + 2] = q[2]
  BY <1>1
<1> QED
  BY <1>1, <1>2

\* A list of storages on the way to the key: some before there is one, the one
\* with the key if there is none yet, the reading of the key, and the last one.
LEMMA KeyList ==
  ASSUME ProfileOK, store.binding.pending = NoRecord, ~Keyed(store),
         NEW p \in Seq(Writes), NEW keyed \in Store, NEW ready \in Store,
         \A i \in 1 .. Len(p) :
           \/ p[i] = Sync
           \/ \E x \in Store : /\ p[i] = Put(x) /\ x.dek = store.dek /\ ~Keyed(x) /\ ~Plain(x)
                               /\ Kept(db, x, spent) /\ x.binding.pending = NoRecord,
         /\ ~Keyed(keyed) /\ Kept(db, keyed, spent) /\ keyed.binding.pending = NoRecord
         /\ Keyed(ready) /\ Kept(db, ready, spent) /\ ready.binding.pending = NoRecord,
         keyed.dek = ready.dek, ready.dek # NoId,
         store.dek # NoId => ready.dek = store.dek
  PROVE  LET T == p \o (IF store.dek = NoId THEN <<Put(keyed)>> ELSE <<>>)
                    \o <<Sync, ReadKey>> \o Saved(ready)
         IN T \in Seq(Writes) /\ KeyPlan(T, db, store, flushed, spent, db.auth)
<1> DEFINE m == IF store.dek = NoId THEN p \o <<Put(keyed)>> ELSE p
           c == <<Sync, ReadKey>>
           T == (m \o c) \o Saved(ready)
           n == Len(p)
           N == Len(T)
<1>1. p \o (IF store.dek = NoId THEN <<Put(keyed)>> ELSE <<>>) = m
  BY SMT
<1>2. /\ Put(keyed) \in Writes /\ Put(keyed).do = "put" /\ Put(keyed).store = keyed
      /\ Put(ready).do = "put" /\ Put(ready).store = ready
      /\ Sync.do = "sync" /\ ReadKey.do = "readkey" /\ Sync \in Writes /\ ReadKey \in Writes
  BY WriteFields
<1>3. /\ c \in Seq(Writes) /\ Len(c) = 2 /\ c[1] = Sync /\ c[2] = ReadKey
  BY <1>2
<1>4. /\ Saved(ready) \in Seq(Writes) /\ Len(Saved(ready)) = 2
      /\ Saved(ready)[1] = Put(ready) /\ Saved(ready)[2] = Sync
  BY SavedIs
<1>5. /\ m \in Seq(Writes) /\ Len(m) \in Nat /\ n \in Nat
      /\ \A i \in 1 .. n : m[i] = p[i]
      /\ IF store.dek = NoId THEN Len(m) = n + 1 /\ m[n + 1] = Put(keyed) ELSE Len(m) = n
  BY <1>2, JoinedOne
<1> HIDE DEF m, c, n
<1>6. /\ m \o c \in Seq(Writes) /\ Len(m \o c) = Len(m) + 2
      /\ \A i \in 1 .. Len(m) : (m \o c)[i] = m[i]
      /\ (m \o c)[Len(m) + 1] = Sync /\ (m \o c)[Len(m) + 2] = ReadKey
  BY <1>3, <1>5, JoinedTwo
<1>7. /\ T \in Seq(Writes) /\ N = Len(m) + 4
      /\ \A i \in 1 .. Len(m) + 2 : T[i] = (m \o c)[i]
      /\ T[Len(m) + 3] = Put(ready) /\ T[Len(m) + 4] = Sync
  <2> DEFINE k == m \o c
  <2>1. k \in Seq(Writes) /\ Len(k) = Len(m) + 2
    BY <1>6
  <2> HIDE DEF k
  <2>2. /\ k \o Saved(ready) \in Seq(Writes) /\ Len(k \o Saved(ready)) = Len(k) + 2
        /\ \A i \in 1 .. Len(k) : (k \o Saved(ready))[i] = k[i]
        /\ (k \o Saved(ready))[Len(k) + 1] = Put(ready) /\ (k \o Saved(ready))[Len(k) + 2] = Sync
    BY <1>4, <2>1, JoinedTwo
  <2>3. Len(k) + 1 = Len(m) + 3 /\ Len(k) + 2 = Len(m) + 4
    BY <1>5, <2>1
  <2> QED
    BY <2>1, <2>2, <2>3 DEF k
<1> HIDE DEF T, N
<1>8. N = Len(T) /\ N \in Nat
  BY <1>5, <1>7 DEF N
<1>9. /\ \A i \in 1 .. n : T[i] = p[i]
      /\ store.dek = NoId => N = n + 5 /\ T[n + 1] = Put(keyed)
      /\ store.dek # NoId => N = n + 4
      /\ T[N - 3] = Sync /\ T[N - 2] = ReadKey /\ T[N - 1] = Put(ready) /\ T[N] = Sync
  <2>1. \A i \in 1 .. n : T[i] = p[i]
    BY <1>5, <1>6, <1>7
  <2>2. store.dek = NoId => N = n + 5 /\ T[n + 1] = Put(keyed)
    <3> SUFFICES ASSUME store.dek = NoId PROVE N = n + 5 /\ T[n + 1] = Put(keyed)
      OBVIOUS
    <3>1. Len(m) = n + 1 /\ n + 1 \in 1 .. Len(m)
      BY <1>5
    <3> QED
      BY <1>5, <1>6, <1>7, <3>1
  <2>3. /\ N - 3 = Len(m) + 1 /\ N - 2 = Len(m) + 2 /\ N - 1 = Len(m) + 3 /\ N = Len(m) + 4
        /\ Len(m) + 1 \in 1 .. Len(m) + 2 /\ Len(m) + 2 \in 1 .. Len(m) + 2
    BY <1>5, <1>7
  <2> QED
    BY <1>5, <1>6, <1>7, <2>1, <2>2, <2>3
<1>10. \A i \in 1 .. N : i \in 1 .. n \/ (store.dek = NoId /\ i = n + 1) \/ i \in N - 3 .. N
  BY <1>5, <1>8, <1>9
<1>11. \A i \in 1 .. N :
         \/ T[i] \in {Sync, ReadKey}
         \/ i = N - 1 /\ T[i] = Put(ready)
         \/ i = N - 4 /\ store.dek = NoId /\ T[i] = Put(keyed)
         \/ \E x \in Store : /\ T[i] = Put(x) /\ x.dek = store.dek /\ ~Keyed(x) /\ ~Plain(x)
                             /\ Kept(db, x, spent) /\ x.binding.pending = NoRecord
  <2> TAKE i \in 1 .. N
  <2>1. CASE i \in 1 .. n
    BY <1>9, <2>1 DEF n
  <2>2. CASE store.dek = NoId /\ i = n + 1
    BY <1>5, <1>9, <2>2
  <2>3. CASE i \in N - 3 .. N
    <3>1. i = N - 3 \/ i = N - 2 \/ i = N - 1 \/ i = N
      BY <1>8, <2>3
    <3> QED
      BY <1>9, <3>1
  <2> QED
    BY <1>10, <2>1, <2>2, <2>3
<1>12. \A i \in 1 .. N : T[i].do \in {"put", "sync", "readkey"}
  BY <1>2, <1>11, WriteFields
<1>13. \A i \in 1 .. N : T[i].do = "put" => KeyPut(T, i, db, store, spent)
  <2> SUFFICES ASSUME NEW i \in 1 .. N, T[i].do = "put"
               PROVE  KeyPut(T, i, db, store, spent)
    OBVIOUS
  <2>1. ~Plain(keyed) /\ ~Plain(ready)
    BY DEF Plain
  <2>2. CASE i = N - 1 /\ T[i] = Put(ready)
    <3>1. \A j \in 1 .. Len(T) : j > i => j = N
      BY <1>8, <2>2
    <3>2. T[N].do # "put"
      BY <1>2, <1>9
    <3> QED
      BY <1>2, <1>8, <2>1, <2>2, <3>1, <3>2 DEF KeyPut
  <2>3. CASE i = N - 4 /\ store.dek = NoId /\ T[i] = Put(keyed)
    <3>1. \A j \in 1 .. Len(T) : j > i /\ T[j].do = "put" => T[j].store = ready
      <4> SUFFICES ASSUME NEW j \in 1 .. Len(T), j > i, T[j].do = "put" PROVE T[j].store = ready
        OBVIOUS
      <4>1. j = N - 3 \/ j = N - 2 \/ j = N - 1 \/ j = N
        BY <1>8, <2>3
      <4> QED
        BY <1>2, <1>9, <4>1
    <3> QED
      BY <1>2, <2>1, <2>3, <3>1 DEF KeyPut
  <2>4. CASE \E x \in Store : /\ T[i] = Put(x) /\ x.dek = store.dek /\ ~Keyed(x) /\ ~Plain(x)
                              /\ Kept(db, x, spent) /\ x.binding.pending = NoRecord
    <3>1. PICK x \in Store : /\ T[i] = Put(x) /\ x.dek = store.dek /\ ~Keyed(x) /\ ~Plain(x)
                             /\ Kept(db, x, spent) /\ x.binding.pending = NoRecord
      BY <2>4
    <3>2. T[i].store = x
      BY <3>1, WriteFields
    <3>3. \A j \in 1 .. Len(T) : T[j].do = "put" /\ store.dek # NoId => T[j].store.dek = store.dek
      <4> SUFFICES ASSUME NEW j \in 1 .. N, T[j].do = "put", store.dek # NoId
                   PROVE  T[j].store.dek = store.dek
        BY <1>8
      <4>1. T[j] \notin {Sync, ReadKey}
        BY <1>2
      <4>2. T[j] = Put(ready) \/ \E y \in Store : T[j] = Put(y) /\ y.dek = store.dek
        BY <1>11, <4>1
      <4> QED
        BY <1>2, <4>2, WriteFields
    <3> QED
      BY <3>1, <3>2, <3>3 DEF KeyPut
  <2>5. T[i] \notin {Sync, ReadKey}
    BY <1>2
  <2> QED
    BY <1>11, <2>2, <2>3, <2>4, <2>5
<1>14. N > 1 /\ T[N].do = "sync" /\ T[N - 1].do = "put" /\ Keyed(T[N - 1].store)
  BY <1>2, <1>5, <1>9
<1>15. KeyPlan(T, db, store, flushed, spent, db.auth)
  BY <1>8, <1>12, <1>13, <1>14 DEF KeyPlan
<1> QED
  BY <1>1, <1>7, <1>15 DEF T, c

\* The storages of a first initialization, beside a file that is not encrypted.
LEMMA PreparedSound ==
  ASSUME ProfileOK, StatesMatch(db, store), NEW recovery,
         CanTakeKey(db, store, db.auth, recovery), Prepares(db, store),
         NEW b \in Binding, b # NoBinding, b.id # NoId, b.fp = db.auth, b.pending = NoRecord,
         ~b.protected, b.code = store.binding.code, store.dek # NoId => store.dek = b.id,
         NEW x \in Store, x.reg = store.reg, x.key = store.key,
         x.binding = b \/ (x.binding = store.binding /\ x.dek = store.dek
                           /\ (store.binding # NoBinding => b = store.binding)),
         x.init.id = b.id, x.init.fp = db.auth,
         \/ x.init.phase = "prepared" /\ x.dek = store.dek
         \/ x.init.phase \in {"prepared", "key_ready"} /\ x.dek = b.id /\ x.binding = b,
         x.binding = NoBinding => x.dek = NoId
  PROVE  /\ Kept(db, x, spent) /\ ~Plain(x) /\ x.binding.pending = NoRecord
         /\ (Keyed(x) <=> x.init.phase = "key_ready")
<1>1. db.enc = NoId /\ (store.binding # NoBinding => ~store.binding.protected)
  BY DEF CanTakeKey
<1>2. x.init # NoInitialization /\ ~Plain(x)
  BY Nothing DEF Plain
<1>3. x.binding.pending = NoRecord /\ ~x.binding.protected /\ (x.binding # NoBinding => x.binding = b)
  BY Nothing
<1>4. InitSound(db, x) /\ StatesMatch(db, x)
  BY <1>2, <1>3, Nothing DEF InitSound, StatesMatch
<1>5. BindingSound(db, x)
  BY <1>3 DEF BindingSound
<1>6. CodeSound(x, spent)
  <2>1. x.binding.code = store.binding.code
    OBVIOUS
  <2> QED
    BY <2>1 DEF ProfileOK, Profile, Kept, CodeSound
<1>7. Kept(db, x, spent)
  BY <1>1, <1>2, <1>3, <1>4, <1>5, <1>6 DEF Kept, Sound
<1> QED
  BY <1>2, <1>3, <1>7 DEF Keyed

\* The way to the key begins, or its key is read again.
LEMMA KeyBegins ==
  ASSUME ProfileOK, NEW recovery, NEW id \in Ids, StatesMatch(db, store),
         CanTakeKey(db, store, db.auth, recovery)
  PROVE  /\ TakeKey(db.auth, id) \in Seq(Writes)
         /\ KeyPlan(TakeKey(db.auth, id), db, store, flushed, spent, db.auth)
<1>1. /\ db \in Database /\ store \in Store /\ Kept(db, store, spent) /\ db.auth \in Record
      /\ store.binding \in Binding /\ store.init \in Initialization
      /\ store.binding.id \in Ids \cup {NoId} /\ store.init.id \in Ids \cup {NoId}
      /\ id # NoId /\ id \in Ids \cup {NoId} /\ store.dek \in Ids \cup {NoId}
  BY StoreFields, ProtectionAssumption DEF ProfileOK, Profile, ProtectionAssumption, Database
<1>2. store.binding.pending = NoRecord
  BY Nothing DEF CanTakeKey
<1>3. CASE ~Prepares(db, store)
  <2> DEFINE T == <<Sync, ReadKey>>
  <2>1. TakeKey(db.auth, id) = T
    BY <1>3 DEF TakeKey
  <2>2. Keyed(store)
    BY <1>3 DEF CanTakeKey, Prepares, Keyed
  <2>3. /\ Sync \in Writes /\ ReadKey \in Writes /\ Sync.do = "sync" /\ ReadKey.do = "readkey"
    BY WriteFields
  <2>4. T \in Seq(Writes) /\ Len(T) = 2 /\ T[1] = Sync /\ T[2] = ReadKey
    BY <2>3
  <2> HIDE DEF T
  <2>5. \A i \in 1 .. Len(T) : T[i].do \in {"sync", "readkey"}
    BY <2>3, <2>4
  <2>6. KeyPlan(T, db, store, flushed, spent, db.auth)
    BY <1>2, <2>2, <2>3, <2>4, <2>5 DEF KeyPlan
  <2> QED
    BY <2>1, <2>4, <2>6
<1>4. CASE Prepares(db, store)
  <2> DEFINE b == IF store.binding # NoBinding THEN store.binding
                  ELSE [NoBinding EXCEPT !.fp = db.auth,
                          !.id = IF store.init # NoInitialization THEN store.init.id ELSE id]
             prepared == [store EXCEPT !.init = [phase |-> "prepared", id |-> b.id, fp |-> db.auth]]
             bound    == [prepared EXCEPT !.binding = b]
             keyed    == [bound EXCEPT !.dek = IF bound.dek = NoId THEN b.id ELSE bound.dek]
             ready    == [keyed EXCEPT !.init.phase = "key_ready"]
             first    == IF store.init = NoInitialization THEN Saved(prepared) ELSE <<>>
             p        == first \o Saved(bound)
  <2>1. TakeKey(db.auth, id)
          = p \o (IF store.dek = NoId THEN <<Put(keyed)>> ELSE <<>>) \o <<Sync, ReadKey>>
              \o Saved(ready)
    BY <1>4 DEF TakeKey
  <2>2. /\ db.enc = NoId
        /\ store.binding = NoBinding => store.dek = NoId
        /\ store.binding # NoBinding => ~store.binding.protected /\ store.binding.fp = db.auth
        /\ store.dek = NoId \/ store.init.phase = "prepared"
    BY <1>4 DEF CanTakeKey, Prepares
  <2>3. /\ store.binding # NoBinding => store.binding.id # NoId
        /\ store.dek # NoId => store.dek = store.binding.id
        /\ store.init # NoInitialization => store.init.id # NoId
    BY <1>1 DEF Kept, Sound, Plain, InitSound, BindingSound
  <2>4. ~Keyed(store)
    BY <2>2 DEF Keyed
  <2>5. /\ b \in Binding /\ b # NoBinding /\ b.id # NoId /\ b.fp = db.auth /\ b.pending = NoRecord
        /\ ~b.protected /\ b.code = store.binding.code /\ b.id \in Ids \cup {NoId}
        /\ store.dek # NoId => store.dek = b.id
        /\ store.binding # NoBinding => b = store.binding
    <3>1. CASE store.binding # NoBinding
      BY <1>1, <1>2, <2>2, <2>3, <3>1
    <3>2. CASE store.binding = NoBinding
      <4> DEFINE i == IF store.init # NoInitialization THEN store.init.id ELSE id
                 c == [NoBinding EXCEPT !.fp = db.auth, !.id = i]
      <4>1. b = c
        BY <3>2
      <4>2. i \in Ids \cup {NoId} /\ i # NoId
        BY <1>1, <2>3
      <4> HIDE DEF i
      <4>3. /\ c \in Binding /\ c.id = i /\ c.fp = db.auth /\ c.pending = NoRecord
            /\ c.protected = FALSE /\ c.code = NoBinding.code
        BY <1>1, <4>2, Nothing DEF Binding
      <4> HIDE DEF b, c
      <4> QED
        BY <2>2, <3>2, <4>1, <4>2, <4>3, Nothing
    <3> QED
      BY <3>1, <3>2
  <2> HIDE DEF b
  <2> DEFINE init == [phase |-> "prepared", id |-> b.id, fp |-> db.auth]
  <2>6. init \in Initialization /\ init.phase = "prepared" /\ init.id = b.id /\ init.fp = db.auth
    BY <1>1, <2>5 DEF Initialization
  <2>7. prepared = [store EXCEPT !.init = init]
    OBVIOUS
  <2> HIDE DEF init, prepared
  <2>8. /\ prepared \in Store /\ prepared.reg = store.reg /\ prepared.key = store.key
        /\ prepared.binding = store.binding /\ prepared.init = init /\ prepared.dek = store.dek
    BY <1>1, <2>6, <2>7 DEF Store
  <2> HIDE DEF bound
  <2>9. /\ bound \in Store /\ bound.reg = store.reg /\ bound.key = store.key
        /\ bound.binding = b /\ bound.init = init /\ bound.dek = store.dek
    BY <2>5, <2>8 DEF Store, bound
  <2> HIDE DEF keyed
  <2>10. /\ keyed \in Store /\ keyed.reg = store.reg /\ keyed.key = store.key
         /\ keyed.binding = b /\ keyed.init = init /\ keyed.dek = b.id
    <3> DEFINE k == IF bound.dek = NoId THEN b.id ELSE bound.dek
    <3>1. k = b.id /\ k \in Ids \cup {NoId}
      BY <2>5, <2>9
    <3> HIDE DEF k
    <3>2. keyed = [bound EXCEPT !.dek = k]
      BY DEF keyed, k
    <3> QED
      BY <2>9, <3>1, <3>2 DEF Store
  <2> HIDE DEF ready
  <2>11. /\ ready \in Store /\ ready.reg = store.reg /\ ready.key = store.key
         /\ ready.binding = b /\ ready.dek = b.id
         /\ ready.init.phase = "key_ready" /\ ready.init.id = b.id /\ ready.init.fp = db.auth
    <3> DEFINE j == [init EXCEPT !.phase = "key_ready"]
    <3>1. j \in Initialization /\ j.phase = "key_ready" /\ j.id = b.id /\ j.fp = db.auth
      BY <2>6 DEF Initialization
    <3>2. ready = [keyed EXCEPT !.init = j]
      BY <2>10 DEF ready, Store
    <3> HIDE DEF j
    <3> QED
      BY <2>10, <3>1, <3>2 DEF Store
  <2>12. /\ Kept(db, prepared, spent) /\ ~Plain(prepared) /\ ~Keyed(prepared)
         /\ prepared.binding.pending = NoRecord
    BY <1>4, <2>2, <2>5, <2>6, <2>8, PreparedSound
  <2>13. /\ Kept(db, bound, spent) /\ ~Plain(bound) /\ ~Keyed(bound)
         /\ bound.binding.pending = NoRecord
    BY <1>4, <2>2, <2>5, <2>6, <2>9, PreparedSound
  <2>14. /\ Kept(db, keyed, spent) /\ ~Keyed(keyed) /\ keyed.binding.pending = NoRecord
    BY <1>4, <2>2, <2>5, <2>6, <2>10, PreparedSound
  <2>15. /\ Kept(db, ready, spent) /\ Keyed(ready) /\ ready.binding.pending = NoRecord
    BY <1>4, <2>2, <2>5, <2>11, PreparedSound
  <2>16. /\ p \in Seq(Writes)
         /\ \A i \in 1 .. Len(p) : p[i] \in {Sync, Put(prepared), Put(bound)}
    <3>1. /\ Saved(prepared) \in Seq(Writes) /\ Len(Saved(prepared)) = 2
          /\ Saved(prepared)[1] = Put(prepared) /\ Saved(prepared)[2] = Sync
      BY <2>8, SavedIs
    <3>2. /\ Saved(bound) \in Seq(Writes) /\ Len(Saved(bound)) = 2
          /\ Saved(bound)[1] = Put(bound) /\ Saved(bound)[2] = Sync
      BY <2>9, SavedIs
    <3>3. /\ first \in Seq(Writes) /\ Len(first) \in {0, 2}
          /\ \A i \in 1 .. Len(first) : first[i] \in {Sync, Put(prepared)}
      <4>1. CASE store.init = NoInitialization
        <5>1. first = Saved(prepared)
          BY <4>1
        <5> HIDE DEF first
        <5>2. /\ first \in Seq(Writes) /\ Len(first) = 2
              /\ first[1] = Put(prepared) /\ first[2] = Sync
          BY <3>1, <5>1
        <5>3. \A i \in 1 .. Len(first) : i = 1 \/ i = 2
          BY <5>2
        <5> QED
          BY <5>2, <5>3
      <4>2. CASE store.init # NoInitialization
        <5>1. first = <<>>
          BY <4>2
        <5> HIDE DEF first
        <5> QED
          BY <5>1
      <4> QED
        BY <4>1, <4>2
    <3> HIDE DEF first
    <3>4. /\ p \in Seq(Writes) /\ Len(p) = Len(first) + 2
          /\ \A i \in 1 .. Len(first) : p[i] = first[i]
          /\ p[Len(first) + 1] = Put(bound) /\ p[Len(first) + 2] = Sync
      BY <3>2, <3>3, JoinedTwo
    <3> HIDE DEF p
    <3>5. \A i \in 1 .. Len(p) : i \in 1 .. Len(first) \/ i = Len(first) + 1 \/ i = Len(first) + 2
      BY <3>3, <3>4
    <3> QED
      BY <3>3, <3>4, <3>5
  <2> HIDE DEF first, p
  <2>17. \A i \in 1 .. Len(p) :
           \/ p[i] = Sync
           \/ \E x \in Store : /\ p[i] = Put(x) /\ x.dek = store.dek /\ ~Keyed(x) /\ ~Plain(x)
                               /\ Kept(db, x, spent) /\ x.binding.pending = NoRecord
    BY <2>8, <2>9, <2>12, <2>13, <2>16
  <2>18. keyed.dek = ready.dek /\ ready.dek # NoId /\ (store.dek # NoId => ready.dek = store.dek)
    BY <2>5, <2>10, <2>11
  <2> QED
    BY <1>2, <2>1, <2>4, <2>10, <2>11, <2>14, <2>15, <2>16, <2>17, <2>18, KeyList
<1> QED
  BY <1>3, <1>4

\* A list after which a storage is saved.
LEMMA JoinedSaved ==
  ASSUME NEW p \in Seq(Writes), NEW x \in Store
  PROVE  LET q == p \o Saved(x)
         IN /\ q \in Seq(Writes) /\ Len(q) = Len(p) + 2
            /\ \A i \in 1 .. Len(p) : q[i] = p[i]
            /\ q[Len(p) + 1] = Put(x) /\ q[Len(p) + 2] = Sync
<1>1. Saved(x) \in Seq(Writes) /\ Len(Saved(x)) = 2 /\ Saved(x)[1] = Put(x) /\ Saved(x)[2] = Sync
  BY SavedIs
<1> QED
  BY <1>1, JoinedTwo

\* The storages recorded after the encryption.
LEMMA RecordedSound ==
  ASSUME NEW d \in Database, NEW s \in Store, NEW x \in Store, NEW used,
         Kept(d, s, used), Keyed(s), d.enc # NoId, s.binding.pending = NoRecord,
         x.reg = s.reg, x.key = s.key, x.dek = s.dek,
         x.binding = [s.binding EXCEPT !.protected = TRUE],
         x.init = s.init \/ (x.init = [s.init EXCEPT !.phase = "complete"]
                             /\ s.init.phase = "key_ready")
  PROVE  /\ Kept(d, x, used) /\ x.binding.pending = NoRecord /\ x.binding.protected
<1>1. /\ x.binding.id = s.binding.id /\ x.binding.fp = s.binding.fp /\ x.binding.protected
      /\ x.binding.pending = NoRecord /\ x.binding.code = s.binding.code
  BY StoreFields DEF Binding
<1>2. ~Plain(s) /\ s.binding # NoBinding /\ s.dek = s.binding.id /\ s.dek # NoId /\ s.dek = d.enc
  BY KeptFacts DEF Keyed
<1>3. InitSound(d, s) /\ BindingSound(d, s) /\ StatesMatch(d, s)
  BY <1>2 DEF Kept, Sound
<1>4. x.binding # NoBinding
  BY <1>1, <1>2, Nothing
<1>5. /\ x.init.id = s.init.id /\ x.init.phase # "prepared"
      /\ x.init.phase = "none" <=> x.init = NoInitialization
      /\ x.init # NoInitialization => s.init # NoInitialization
  <2>1. CASE x.init = s.init
    BY <1>3, <2>1 DEF InitSound, Keyed
  <2>2. CASE x.init = [s.init EXCEPT !.phase = "complete"] /\ s.init.phase = "key_ready"
    <3>1. x.init.phase = "complete" /\ x.init.id = s.init.id
      BY <2>2, StoreFields DEF Initialization
    <3> QED
      BY <1>3, <2>2, <3>1, Nothing DEF InitSound
  <2> QED
    BY <2>1, <2>2
<1>6. Keyed(x) /\ ~Plain(x)
  BY <1>2, <1>5 DEF Keyed, Plain
<1>7. InitSound(d, x)
  BY <1>1, <1>2, <1>3, <1>4, <1>5, <1>6 DEF InitSound
<1>8. BindingSound(d, x) /\ StatesMatch(d, x)
  BY <1>1, <1>2, <1>3, <1>4 DEF BindingSound, StatesMatch
<1>9. CodeSound(x, used)
  BY <1>1 DEF Kept, CodeSound
<1> QED
  BY <1>1, <1>2, <1>6, <1>7, <1>8, <1>9 DEF Kept, Sound

\* The encryption and its record begin.
LEMMA MigrateBegins ==
  ASSUME ProfileOK, recovered \in BOOLEAN, NEW rec, rec = db.auth,
         store.binding.pending = NoRecord, Keyed(store), Keyed(flushed)
  PROVE  /\ MigrateAndConfirm \in Seq(Writes)
         /\ MigratePlan(MigrateAndConfirm, db, store, flushed, spent, recovered, rec)
<1> DEFINE e         == [db EXCEPT !.enc = store.binding.id]
           protected == [store EXCEPT !.binding.protected = TRUE]
           complete  == [protected EXCEPT !.init.phase = "complete"]
           started   == store.init.phase \notin {"none", "complete"}
           marked    == store.binding.protected
           a         == <<Migrate>> \o (IF recovered THEN <<>> ELSE <<Recover>>)
           m         == a \o (IF store.binding.protected THEN <<>> ELSE Saved(protected))
           T         == m \o (IF store.init.phase \in {"none", "complete"} THEN <<>> ELSE Saved(complete))
           N         == Len(T)
<1>1. /\ db \in Database /\ store \in Store /\ Kept(db, store, spent)
      /\ store.binding \in Binding /\ store.init \in Initialization
      /\ marked \in BOOLEAN
  BY StoreFields DEF ProfileOK, Profile, Binding
<1>2. MigrateAndConfirm = T
  BY DEF MigrateAndConfirm
<1> HIDE DEF a, m, T, N
<1>3. /\ e \in Database /\ e.auth = db.auth /\ e.enc # NoId /\ Kept(e, store, spent)
  BY <1>1, Encrypts
<1> HIDE DEF e
<1>4. /\ protected \in Store /\ protected.reg = store.reg /\ protected.key = store.key
      /\ protected.dek = store.dek /\ protected.init = store.init
      /\ protected.binding = [store.binding EXCEPT !.protected = TRUE]
  <2> DEFINE b == [store.binding EXCEPT !.protected = TRUE]
  <2>1. b \in Binding
    BY <1>1 DEF Binding
  <2>2. protected = [store EXCEPT !.binding = b]
    OBVIOUS
  <2> HIDE DEF b, protected
  <2> QED
    BY <1>1, <2>1, <2>2 DEF Store, b
<1> HIDE DEF protected
<1>5. /\ complete \in Store /\ complete.reg = store.reg /\ complete.key = store.key
      /\ complete.dek = store.dek /\ complete.binding = protected.binding
      /\ complete.init = [store.init EXCEPT !.phase = "complete"]
      /\ complete.init.phase = "complete"
  <2> DEFINE i == [store.init EXCEPT !.phase = "complete"]
  <2>1. i \in Initialization /\ i.phase = "complete"
    BY <1>1 DEF Initialization
  <2>2. complete = [protected EXCEPT !.init = i]
    BY <1>4
  <2> HIDE DEF i, complete
  <2> QED
    BY <1>4, <2>1, <2>2 DEF Store, i
<1> HIDE DEF complete
<1>6. started => store.init.phase = "key_ready"
  BY <1>1 DEF Keyed, Initialization
<1>7. /\ Kept(e, protected, spent) /\ protected.binding.pending = NoRecord
      /\ protected.binding.protected
  BY <1>1, <1>3, <1>4, RecordedSound
<1>8. started => Kept(e, complete, spent) /\ complete.binding.pending = NoRecord
                 /\ Finished(complete)
  <2> SUFFICES ASSUME started
               PROVE  Kept(e, complete, spent) /\ complete.binding.pending = NoRecord
                      /\ Finished(complete)
    OBVIOUS
  <2>1. store.init.phase = "key_ready" /\ complete.binding = [store.binding EXCEPT !.protected = TRUE]
    BY <1>4, <1>5, <1>6
  <2> HIDE DEF started
  <2>2. Kept(e, complete, spent) /\ complete.binding.pending = NoRecord /\ complete.binding.protected
    BY <1>1, <1>3, <1>5, <2>1, RecordedSound
  <2> QED
    BY <1>5, <2>2 DEF Finished
<1>9. /\ Finished(store) <=> marked /\ ~started
      /\ Finished(protected) <=> ~started
  BY <1>1, <1>4, <1>7 DEF Finished
<1> HIDE DEF marked, started
<1>10. /\ Migrate \in Writes /\ Recover \in Writes /\ Migrate.do = "migrate" /\ Recover.do = "recover"
       /\ Sync.do = "sync"
       /\ Put(protected).do = "put" /\ Put(protected).store = protected
       /\ Put(complete).do = "put" /\ Put(complete).store = complete
  BY <1>4, <1>5, WriteFields
<1>11. /\ a \in Seq(Writes) /\ Len(a) \in {1, 2} /\ a[1] = Migrate
       /\ Len(a) = 2 => a[2] = Recover
       /\ recovered \/ Len(a) = 2
  <2> DEFINE one == <<Migrate>>
  <2>1. one \in Seq(Writes) /\ Len(one) = 1 /\ one[1] = Migrate
    BY <1>10
  <2>2. CASE recovered
    <3>1. a = one
      BY <2>2 DEF a
    <3> HIDE DEF one
    <3> QED
      BY <2>1, <2>2, <3>1
  <2>3. CASE ~recovered
    <3>1. a = one \o <<Recover>>
      BY <2>3 DEF a
    <3> HIDE DEF one
    <3>2. /\ one \o <<Recover>> \in Seq(Writes) /\ Len(one \o <<Recover>>) = Len(one) + 1
          /\ \A i \in 1 .. Len(one) : (one \o <<Recover>>)[i] = one[i]
          /\ (one \o <<Recover>>)[Len(one) + 1] = Recover
      BY <1>10, <2>1, JoinedOne
    <3> QED
      BY <2>1, <3>1, <3>2
  <2> QED
    BY <2>2, <2>3
<1>12. /\ m \in Seq(Writes) /\ Len(m) \in Nat
       /\ \A i \in 1 .. Len(a) : m[i] = a[i]
       /\ ~marked => Len(m) = Len(a) + 2 /\ m[Len(a) + 1] = Put(protected) /\ m[Len(a) + 2] = Sync
       /\ marked => Len(m) = Len(a)
  <2>1. CASE marked
    <3>1. m = a \o <<>>
      BY <2>1 DEF m, marked
    <3>2. m = a
      BY <1>11, <3>1
    <3> QED
      BY <1>11, <2>1, <3>2
  <2>2. CASE ~marked
    <3>1. m = a \o Saved(protected)
      BY <2>2 DEF m, marked
    <3>2. /\ a \o Saved(protected) \in Seq(Writes) /\ Len(a \o Saved(protected)) = Len(a) + 2
          /\ \A i \in 1 .. Len(a) : (a \o Saved(protected))[i] = a[i]
          /\ (a \o Saved(protected))[Len(a) + 1] = Put(protected)
          /\ (a \o Saved(protected))[Len(a) + 2] = Sync
      BY <1>4, <1>11, JoinedSaved
    <3> QED
      BY <1>11, <2>2, <3>1, <3>2
  <2> QED
    BY <2>1, <2>2
<1>13. /\ T \in Seq(Writes)
       /\ \A i \in 1 .. Len(m) : T[i] = m[i]
       /\ started => Len(T) = Len(m) + 2 /\ T[Len(m) + 1] = Put(complete) /\ T[Len(m) + 2] = Sync
       /\ ~started => Len(T) = Len(m)
  <2>1. CASE ~started
    <3>1. T = m \o <<>>
      BY <2>1 DEF T, started
    <3>2. T = m
      BY <1>12, <3>1
    <3> QED
      BY <1>12, <2>1, <3>2
  <2>2. CASE started
    <3>1. T = m \o Saved(complete)
      BY <2>2 DEF T, started
    <3>2. /\ m \o Saved(complete) \in Seq(Writes) /\ Len(m \o Saved(complete)) = Len(m) + 2
          /\ \A i \in 1 .. Len(m) : (m \o Saved(complete))[i] = m[i]
          /\ (m \o Saved(complete))[Len(m) + 1] = Put(complete)
          /\ (m \o Saved(complete))[Len(m) + 2] = Sync
      BY <1>5, <1>12, JoinedSaved
    <3> QED
      BY <2>2, <3>1, <3>2
  <2> QED
    BY <2>1, <2>2
<1>14. /\ N = Len(T) /\ N \in Nat
       /\ started => N = Len(m) + 2
       /\ ~started => N = Len(m)
  BY <1>12, <1>13 DEF N
<1>15. /\ \A i \in 1 .. Len(a) : i \in 1 .. N /\ T[i] = a[i]
       /\ ~marked => /\ Len(a) + 1 \in 1 .. N /\ T[Len(a) + 1] = Put(protected)
                     /\ Len(a) + 2 \in 1 .. N /\ T[Len(a) + 2] = Sync
  <2>1. Len(m) <= N /\ Len(a) <= Len(m)
    BY <1>11, <1>12, <1>14
  <2>2. ~marked => Len(a) + 1 \in 1 .. Len(m) /\ Len(a) + 2 \in 1 .. Len(m)
    BY <1>11, <1>12
  <2> QED
    BY <1>11, <1>12, <1>13, <1>14, <2>1, <2>2
<1>16. \A i \in 1 .. N :
         \/ T[i] = Migrate /\ i = 1
         \/ T[i] \in {Recover, Sync}
         \/ T[i] = Put(protected) /\ ~marked /\ (~started => i = N - 1)
         \/ T[i] = Put(complete) /\ started /\ i = N - 1
  <2> TAKE i \in 1 .. N
  <2>1. CASE i \in 1 .. Len(a)
    <3>1. i = 1 \/ (i = 2 /\ Len(a) = 2)
      <4>1. Len(a) = 1 \/ Len(a) = 2
        BY <1>11
      <4>2. i \in Nat /\ 1 <= i /\ i <= Len(a)
        BY <2>1, <4>1
      <4>3. CASE Len(a) = 1
        <5>1. i <= 1
          BY <4>2, <4>3
        <5> QED
          BY <4>2, <5>1
      <4>4. CASE Len(a) = 2
        <5>1. i <= 2
          BY <4>2, <4>4
        <5> QED
          BY <4>2, <4>4, <5>1
      <4> QED
        BY <4>1, <4>3, <4>4
    <3> QED
      BY <1>11, <1>15, <2>1, <3>1
  <2>2. CASE ~marked /\ i = Len(a) + 1
    <3>1. ~started => i = N - 1
      BY <1>11, <1>12, <1>14, <2>2
    <3> QED
      BY <1>15, <2>2, <3>1
  <2>3. CASE ~marked /\ i = Len(a) + 2
    BY <1>15, <2>3
  <2>4. CASE started /\ i = Len(m) + 1
    BY <1>12, <1>13, <1>14, <2>4
  <2>5. CASE started /\ i = Len(m) + 2
    BY <1>13, <2>5
  <2>6. \/ i \in 1 .. Len(a) \/ (~marked /\ i = Len(a) + 1) \/ (~marked /\ i = Len(a) + 2)
        \/ (started /\ i = Len(m) + 1) \/ (started /\ i = Len(m) + 2)
    BY <1>11, <1>12, <1>14
  <2> QED
    BY <2>1, <2>2, <2>3, <2>4, <2>5, <2>6
<1>17. \A i \in 1 .. N : /\ T[i].do \in {"migrate", "recover", "put", "sync"}
                         /\ T[i].do = "migrate" => i = 1
  BY <1>10, <1>16
<1>18. \A i \in 1 .. N : T[i].do = "put" => MigratePut(T, i, db, store, spent)
  <2> SUFFICES ASSUME NEW i \in 1 .. N, T[i].do = "put"
               PROVE  MigratePut(T, i, db, store, spent)
    OBVIOUS
  <2>1. CASE T[i] = Put(protected) /\ ~marked /\ (~started => i = N - 1)
    <3>1. T[i].store = protected /\ protected.dek = store.dek
      BY <1>4, <1>10, <2>1
    <3>2. ~Finished(store) /\ (Finished(protected) => i = Len(T) - 1)
      BY <1>9, <1>14, <2>1
    <3> QED
      BY <1>7, <3>1, <3>2 DEF MigratePut, e
  <2>2. CASE T[i] = Put(complete) /\ started /\ i = N - 1
    BY <1>5, <1>8, <1>9, <1>10, <1>14, <2>2 DEF MigratePut, e
  <2> QED
    BY <1>10, <1>16, <2>1, <2>2
<1>19. \/ Finished(store)
       \/ N > 1 /\ T[N].do = "sync" /\ T[N - 1].do = "put" /\ Finished(T[N - 1].store)
  <2>1. CASE started
    <3>1. N = Len(m) + 2 /\ N - 1 = Len(m) + 1 /\ N > 1
      BY <1>12, <1>14, <2>1
    <3> QED
      BY <1>8, <1>10, <1>13, <2>1, <3>1
  <2>2. CASE ~started /\ ~marked
    <3>1. N = Len(a) + 2 /\ N - 1 = Len(a) + 1 /\ N > 1
      BY <1>11, <1>12, <1>14, <2>2
    <3> QED
      BY <1>9, <1>10, <1>15, <2>2, <3>1
  <2> QED
    BY <1>9, <2>1, <2>2
<1>20. /\ N > 0 /\ T[1].do = "migrate"
       /\ recovered \/ \E i \in 1 .. N : T[i].do = "recover"
  <2>1. 1 \in 1 .. Len(a) /\ (Len(a) = 2 => 2 \in 1 .. Len(a))
    BY <1>11
  <2>2. 1 \in 1 .. N /\ T[1] = Migrate
    BY <1>11, <1>15, <2>1
  <2>3. recovered \/ (2 \in 1 .. N /\ T[2] = Recover)
    BY <1>11, <1>15, <2>1
  <2> QED
    BY <1>10, <1>14, <2>2, <2>3
<1>21. MigratePlan(T, db, store, flushed, spent, recovered, rec)
  BY <1>14, <1>17, <1>18, <1>19, <1>20 DEF MigratePlan
<1> QED
  BY <1>2, <1>13, <1>21

-----------------------------------------------------------------------------
\* The writes of any call.

\* The call with other writes left, and perhaps in another phase.
LEMMA OpMoves ==
  ASSUME op \in Op, NEW phase \in Phases, NEW T \in Seq(Writes), GoOn(phase, T)
  PROVE  /\ op' \in Op /\ op'.phase = phase /\ op'.todo = T /\ op'.kind = op.kind
         /\ op'.record = op.record /\ op'.before = op.before
  BY DEF Op, GoOn

\* The call with the writes that are left after the first one.
LEMMA OpGoesOn ==
  ASSUME op \in Op, op.todo # <<>>, NEW o, o = [op EXCEPT !.todo = Tail(op.todo)]
  PROVE  /\ o \in Op /\ o.phase = op.phase /\ o.todo = Tail(op.todo) /\ o.kind = op.kind
         /\ o.record = op.record /\ o.before = op.before
<1>1. op.todo \in Seq(Writes)
  BY DEF Op
<1>2. Tail(op.todo) \in Seq(Writes)
  BY <1>1, Left
<1> QED
  BY <1>2 DEF Op

\* No call at all.
LEMMA NoCall ==
  /\ NoOp \in Op /\ NoOp.kind = "none" /\ NoOp.phase = "none" /\ NoOp.todo = <<>>
  /\ NoOp.record = NoRecord /\ NoOp.before = EmptyStore
  BY Nothing DEF NoOp, Op, Kinds, Phases

\* The phase of a call tells what its plan is.
LEMMA PhasePlan ==
  ASSUME NEW o, NEW d, NEW s, NEW f, NEW used, NEW r, Plan(o, d, s, f, used, r)
  PROVE  /\ o.kind = "none" => o = NoOp
         /\ o.phase = "none" => o = NoOp
         /\ o.phase = "reconcile" => /\ o.kind \in {"initialize", "system", "code", "replace"}
                                     /\ ReconcilePlan(o.todo, d, s, f, o.kind, o.record)
         /\ o.phase \in {"register", "rollback"} =>
              o.kind = "setup" /\ RegisterPlan(o.todo, d, s, f, o.phase, o.record)
         /\ o.phase = "key" => /\ o.kind \in {"setup", "login", "system", "code"}
                               /\ KeyPlan(o.todo, d, s, f, used, o.record)
         /\ o.phase = "migrate" => /\ o.kind \in {"setup", "login", "replace"}
                                   /\ MigratePlan(o.todo, d, s, f, used, r, o.record)
         /\ o.phase = "intent" => o.kind = "replace" /\ IntentPlan(o.todo, d, s, f, used, o.record)
         /\ o.phase \in {"confirm", "restore"} =>
              o.kind = "confirm" /\ RewritePlan(o.todo, d, s, used, o.kind, o.before)
         /\ o.phase = "fails" => /\ o.kind = "code"
                                 /\ RewritePlan(o.todo, d, s, used, o.kind, o.before)
         /\ o.phase \in Phases
         /\ o.kind = "initialize" => o.phase = "reconcile"
  BY NoCall DEF Plan, Phases

\* The next write of a call leaves the profile sound and the plan one write
\* shorter; under a setup that awaits its PIN it changes nothing.
LEMMA PlanAdvances ==
  ASSUME ProtectionInv, op.todo # <<>>, Perform(Head(op.todo)),
         NEW o, o = [op EXCEPT !.todo = Tail(op.todo)]
  PROVE  /\ Moved
         /\ Plan(o, db', store', flushed', spent', recovered')
         /\ setup # 0 => UNCHANGED <<db, store>>
<1>1. /\ ProfileOK /\ op \in Op /\ Plan(op, db, store, flushed, spent, recovered)
      /\ recovered \in BOOLEAN
  BY DEF ProtectionInv, PlanOK, TypeOK
<1>2. Performs
  BY <1>1 DEF Performs
<1>3. /\ o.phase = op.phase /\ o.todo = Tail(op.todo) /\ o.kind = op.kind
      /\ o.record = op.record /\ o.before = op.before
  BY <1>1, OpGoesOn
<1>4. setup # 0 => op.phase = "reconcile" /\ Plain(store)
  BY <1>1, NoCall, PhasePlan DEF ProtectionInv, RightsOK
<1>5. op.phase \in Phases /\ op.phase # "none"
  BY <1>1, NoCall, PhasePlan
<1>6. op.kind = "replace" => ~InUse
  BY DEF ProtectionInv, RightsOK, InUse
<1>7. CASE op.phase = "reconcile"
  <2>1. /\ op.kind \in {"initialize", "system", "code", "replace"}
        /\ ReconcilePlan(op.todo, db, store, flushed, op.kind, op.record)
    BY <1>1, <1>7, PhasePlan
  <2>2. /\ Moved /\ ReconcilePlan(Tail(op.todo), db', store', flushed', op.kind, op.record)
        /\ Plain(store) => UNCHANGED <<db, store>>
    BY <1>1, <1>2, <2>1, ReconcileMoves
  <2> QED
    BY <1>3, <1>4, <1>7, <2>1, <2>2 DEF Plan
<1>8. CASE op.phase \in {"register", "rollback"}
  <2>1. op.kind = "setup" /\ RegisterPlan(op.todo, db, store, flushed, op.phase, op.record)
    BY <1>1, <1>8, PhasePlan
  <2>2. Moved /\ RegisterPlan(Tail(op.todo), db', store', flushed', op.phase, op.record)
    BY <1>1, <1>2, <2>1, RegisterMoves
  <2> QED
    BY <1>3, <1>4, <1>8, <2>1, <2>2 DEF Plan
<1>9. CASE op.phase = "key"
  <2>1. /\ op.kind \in {"setup", "login", "system", "code"}
        /\ KeyPlan(op.todo, db, store, flushed, spent, op.record)
    BY <1>1, <1>9, PhasePlan
  <2>2. Moved /\ KeyPlan(Tail(op.todo), db', store', flushed', spent', op.record)
    BY <1>1, <1>2, <2>1, KeyMoves
  <2> QED
    BY <1>3, <1>4, <1>9, <2>1, <2>2 DEF Plan
<1>10. CASE op.phase = "migrate"
  <2>1. /\ op.kind \in {"setup", "login", "replace"}
        /\ MigratePlan(op.todo, db, store, flushed, spent, recovered, op.record)
    BY <1>1, <1>10, PhasePlan
  <2>2. Moved /\ MigratePlan(Tail(op.todo), db', store', flushed', spent', recovered', op.record)
    BY <1>1, <1>2, <2>1, MigrateMoves
  <2> QED
    BY <1>3, <1>4, <1>10, <2>1, <2>2 DEF Plan
<1>11. CASE op.phase = "intent"
  <2>1. op.kind = "replace" /\ IntentPlan(op.todo, db, store, flushed, spent, op.record)
    BY <1>1, <1>11, PhasePlan
  <2>2. Moved /\ IntentPlan(Tail(op.todo), db', store', flushed', spent', op.record)
    BY <1>1, <1>2, <1>6, <2>1, IntentMoves
  <2> QED
    BY <1>3, <1>4, <1>11, <2>1, <2>2 DEF Plan
<1>12. CASE op.phase \in {"confirm", "restore", "fails"}
  <2>1. /\ IF op.phase = "fails" THEN op.kind = "code" ELSE op.kind = "confirm"
        /\ RewritePlan(op.todo, db, store, spent, op.kind, op.before)
    BY <1>1, <1>12, PhasePlan
  <2>2. Moved /\ RewritePlan(Tail(op.todo), db', store', spent', op.kind, op.before)
    BY <1>1, <1>2, <2>1, RewriteMoves
  <2> QED
    BY <1>3, <1>4, <1>12, <2>1, <2>2 DEF Plan
<1> QED
  BY <1>5, <1>7, <1>8, <1>9, <1>10, <1>11, <1>12 DEF Phases

-----------------------------------------------------------------------------
\* The steps that write.

\* What a step has to leave behind.
LEMMA Keeps ==
  ASSUME Profile(db', store', flushed', spent'),
         op' \in Op, Plan(op', db', store', flushed', spent', recovered'),
         unlocked' \in BOOLEAN, recovered' \in BOOLEAN, setup' \in 0 .. MaxRecords,
         grant' \in Grant, issue' \in Issue, replacement' \in BOOLEAN,
         made' \in 0 .. MaxRecords, issued' \in 0 .. MaxCodes,
         issue' # NoIssue => unlocked',
         grant' # NoGrant \/ replacement' => ~unlocked',
         RightsOK'
  PROVE  ProtectionInv'
<1>1. op'.kind \in Kinds /\ op'.record \in Record /\ op'.before \in Store
  BY DEF Op
<1> QED
  BY <1>1 DEF ProtectionInv, TypeOK, ProfileOK, PlanOK, Profile

\* The types the invariant gives.
LEMMA Types ==
  ASSUME ProtectionInv
  PROVE  /\ ProfileOK /\ Profile(db, store, flushed, spent) /\ op \in Op
         /\ Plan(op, db, store, flushed, spent, recovered) /\ RightsOK
         /\ unlocked \in BOOLEAN /\ recovered \in BOOLEAN /\ setup \in 0 .. MaxRecords
         /\ grant \in Grant /\ issue \in Issue /\ replacement \in BOOLEAN
         /\ made \in 0 .. MaxRecords /\ issued \in 0 .. MaxCodes
         /\ issue # NoIssue => unlocked
         /\ grant # NoGrant \/ replacement => ~unlocked
         /\ db \in Database /\ store \in Store /\ flushed \in Store
         /\ Kept(db, store, spent) /\ Kept(db, flushed, spent)
  BY DEF ProtectionInv, TypeOK, ProfileOK, PlanOK, Profile

\* A write leaves the rights on their feet, if the call stays of its kind or ends.
LEMMA RightsMove ==
  ASSUME ProtectionInv, Moved, setup # 0 => UNCHANGED <<db, store>>,
         UNCHANGED <<unlocked, setup, made, issued>>,
         UNCHANGED rights \/ NoRights,
         op'.kind = op.kind \/ op'.kind = "none"
  PROVE  /\ RightsOK' /\ recovered' \in BOOLEAN
         /\ grant' \in Grant /\ issue' \in Issue /\ replacement' \in BOOLEAN
         /\ issue' # NoIssue => unlocked'
         /\ grant' # NoGrant \/ replacement' => ~unlocked'
<1>1. /\ grant' = grant \/ grant' = NoGrant
      /\ issue' = issue \/ issue' = NoIssue
      /\ replacement' = replacement \/ replacement' = FALSE
  BY DEF rights, NoRights
<1>2. grant' # NoGrant =>
        /\ Keyed(store') /\ Keyed(flushed') /\ ~replacement'
        /\ grant'.kind # "none" /\ grant'.binding.pending = NoRecord
  BY <1>1, Types DEF Moved, RightsOK, rights, NoRights
<1>3. issue' # NoIssue => issue'.gen = issue'.binding.code.gen + 1
  BY <1>1, Types DEF RightsOK
<1>4. setup' # 0 =>
        /\ Plain(store') /\ Plain(flushed') /\ db'.auth = NoRecord
        /\ made' < MaxRecords /\ op'.kind \in {"none", "initialize"}
  BY Types DEF RightsOK, Moved, Profile
<1>5. unlocked' \/ replacement' => Whole(db', store', recovered')
  BY <1>1, Types DEF RightsOK, Moved, InUse
<1>6. /\ op'.kind \notin {"none", "confirm"} => ~unlocked'
      /\ op'.kind \in {"setup", "system", "code", "replace"} => ~replacement'
  BY <1>1, Types DEF RightsOK
<1>7. RightsOK'
  BY <1>2, <1>3, <1>4, <1>5, <1>6 DEF RightsOK
<1>8. grant' \in Grant /\ issue' \in Issue /\ replacement' \in BOOLEAN
  BY <1>1, Types, Nothing
<1>9. issue' # NoIssue => unlocked'
  BY <1>1, Types
<1>10. grant' # NoGrant \/ replacement' => ~unlocked'
  BY <1>1, Types
<1> QED
  BY <1>7, <1>8, <1>9, <1>10 DEF Moved

\* A write that succeeds.
LEMMA WriteStepKeeps ==
  ASSUME ProtectionInv, WriteStep
  PROVE  ProtectionInv'
<1> DEFINE o == [op EXCEPT !.todo = Tail(op.todo)]
<1>1. op.todo # <<>> /\ Perform(Head(op.todo)) /\ op' = o /\ UNCHANGED <<unlocked, setup, rights>>
  BY DEF WriteStep
<1>2. op \in Op
  BY Types
<1>3. o \in Op /\ o.kind = op.kind
  BY <1>1, <1>2, OpGoesOn
<1>4. Moved /\ Plan(o, db', store', flushed', spent', recovered')
      /\ (setup # 0 => UNCHANGED <<db, store>>)
  BY <1>1, PlanAdvances
<1> HIDE DEF o
<1>5. UNCHANGED <<made, issued>>
  BY <1>1 DEF Perform
<1>6. /\ RightsOK' /\ recovered' \in BOOLEAN
      /\ grant' \in Grant /\ issue' \in Issue /\ replacement' \in BOOLEAN
      /\ issue' # NoIssue => unlocked'
      /\ grant' # NoGrant \/ replacement' => ~unlocked'
  <2>1. UNCHANGED <<unlocked, setup, made, issued>>
    BY <1>1, <1>5
  <2>2. UNCHANGED rights \/ NoRights
    BY <1>1
  <2>3. op'.kind = op.kind \/ op'.kind = "none"
    BY <1>1, <1>3
  <2> QED
    BY <1>4, <2>1, <2>2, <2>3, RightsMove
<1>7. Profile(db', store', flushed', spent')
  BY <1>4 DEF Moved
<1> QED
  BY <1>1, <1>3, <1>4, <1>5, <1>6, <1>7, Types, Keeps

\* Nothing written is a write that leaves all as it is.
LEMMA NothingMoves ==
  ASSUME ProtectionInv, UNCHANGED <<profile, recovered, ghosts>>
  PROVE  /\ Moved /\ UNCHANGED <<db, store, flushed, spent, recovered, made, issued>>
<1>1. UNCHANGED <<db, store, flushed, spent, recovered, made, issued>>
  BY DEF profile, ghosts
<1> QED
  BY <1>1, Types DEF Moved

\* The writes that take a registration back.
LEMMA Rollback ==
  LET T == <<RemoveKey, RemoveReg, SaveAuth(NoRecord)>>
  IN /\ T \in Seq(Writes) /\ Len(T) = 3
     /\ \A i \in 1 .. Len(T) : T[i].do \in {"unkey", "unreg", "auth"}
<1> DEFINE T == <<RemoveKey, RemoveReg, SaveAuth(NoRecord)>>
<1>1. /\ RemoveKey \in Writes /\ RemoveReg \in Writes /\ SaveAuth(NoRecord) \in Writes
      /\ RemoveKey.do = "unkey" /\ RemoveReg.do = "unreg" /\ SaveAuth(NoRecord).do = "auth"
  BY WriteFields, Nothing
<1>2. /\ T \in Seq(Writes) /\ Len(T) = 3
      /\ T[1] = RemoveKey /\ T[2] = RemoveReg /\ T[3] = SaveAuth(NoRecord)
  BY <1>1
<1> HIDE DEF T
<1>3. \A i \in 1 .. Len(T) : i = 1 \/ i = 2 \/ i = 3
  BY <1>2
<1>4. \A i \in 1 .. Len(T) : T[i].do \in {"unkey", "unreg", "auth"}
  BY <1>1, <1>2, <1>3
<1> QED
  BY <1>2, <1>4 DEF T

\* A write that fails: the call breaks off, or undoes what it did.
LEMMA FailedWriteKeeps ==
  ASSUME ProtectionInv, FailedWrite
  PROVE  ProtectionInv'
<1>1. op.todo # <<>> /\ UNCHANGED <<unlocked, setup>> /\ op \in Op /\ op.todo \in Seq(Writes)
      /\ op.before \in Store
  BY Types DEF FailedWrite, Op
<1> DEFINE t == [op EXCEPT !.todo = Tail(op.todo)]
<1>2. \/ UNCHANGED <<profile, recovered, ghosts>>
      \/ Perform(Head(op.todo))
  BY DEF FailedWrite
<1>3. /\ Moved /\ UNCHANGED <<made, issued>> /\ (setup # 0 => UNCHANGED <<db, store>>)
      /\ \/ Plan(op, db', store', flushed', spent', recovered')
         \/ Plan(t, db', store', flushed', spent', recovered')
  <2>1. CASE UNCHANGED <<profile, recovered, ghosts>>
    BY <2>1, NothingMoves, Types
  <2>2. CASE Perform(Head(op.todo))
    <3>1. UNCHANGED <<made, issued>>
      BY <2>2 DEF Perform
    <3>2. /\ Moved /\ (setup # 0 => UNCHANGED <<db, store>>)
          /\ Plan(t, db', store', flushed', spent', recovered')
      BY <1>1, <2>2, PlanAdvances
    <3> QED
      BY <3>1, <3>2
  <2> QED
    BY <1>2, <2>1, <2>2
<1>4. /\ t.phase = op.phase /\ t.kind = op.kind /\ t.before = op.before /\ t.todo = Tail(op.todo)
      /\ Tail(op.todo) \in Seq(Writes)
  BY <1>1, OpGoesOn, Left
<1> HIDE DEF t
<1>5. /\ op' \in Op /\ Plan(op', db', store', flushed', spent', recovered')
      /\ UNCHANGED rights \/ NoRights
      /\ op'.kind = op.kind \/ op'.kind = "none"
  <2>1. CASE op' = NoOp /\ (UNCHANGED rights \/ NoRights)
    BY <2>1, NoCall DEF Plan
  <2>2. CASE /\ op.phase = "register" /\ UNCHANGED rights
             /\ GoOn("rollback", <<RemoveKey, RemoveReg, SaveAuth(NoRecord)>>)
    <3> DEFINE T == <<RemoveKey, RemoveReg, SaveAuth(NoRecord)>>
    <3>1. GoOn("rollback", T) /\ "rollback" \in Phases
      BY <2>2 DEF Phases
    <3>2. T \in Seq(Writes) /\ \A i \in 1 .. Len(T) : T[i].do \in {"unkey", "unreg", "auth"}
      BY Rollback
    <3> HIDE DEF T
    <3>3. /\ op' \in Op /\ op'.phase = "rollback" /\ op'.todo = T /\ op'.kind = op.kind
      BY <1>1, <3>1, <3>2, OpMoves
    <3>4. op.kind = "setup" /\ Plain(store') /\ Plain(flushed') /\ db'.enc = NoId
      BY <1>3, <1>4, <2>2, PhasePlan DEF RegisterPlan
    <3>5. RegisterPlan(T, db', store', flushed', "rollback", op'.record)
      BY <3>2, <3>4 DEF RegisterPlan
    <3> QED
      BY <2>2, <3>3, <3>4, <3>5 DEF Plan
  <2>3. CASE op.phase = "confirm" /\ UNCHANGED rights /\ GoOn("restore", Saved(op.before))
    <3>1. GoOn("restore", Saved(op.before)) /\ "restore" \in Phases
      BY <2>3 DEF Phases
    <3>2. Saved(op.before) \in Seq(Writes)
      BY <1>1, SavedIs
    <3>3. /\ op' \in Op /\ op'.phase = "restore" /\ op'.todo = Saved(op.before)
          /\ op'.kind = op.kind /\ op'.before = op.before
      BY <1>1, <3>1, <3>2, OpMoves
    <3>4. /\ op.kind = "confirm" /\ store'.binding.pending = NoRecord /\ db'.enc # NoId
          /\ Same(op.before, store') /\ CodeSound(op.before, spent')
      BY <1>3, <1>4, <2>3, PhasePlan DEF RewritePlan
    <3>5. RewritePlan(Saved(op.before), db', store', spent', op.kind, op.before)
      BY <1>1, <3>4, RewriteBegins
    <3> QED
      BY <2>3, <3>3, <3>4, <3>5 DEF Plan
  <2>4. CASE op.phase = "rollback" /\ UNCHANGED rights /\ GoOn("rollback", Tail(op.todo))
    <3>1. GoOn("rollback", Tail(op.todo)) /\ "rollback" \in Phases
      BY <2>4 DEF Phases
    <3>2. /\ op' \in Op /\ op'.phase = "rollback" /\ op'.todo = Tail(op.todo)
          /\ op'.kind = op.kind
      BY <1>1, <1>4, <3>1, OpMoves
    <3>3. op.kind = "setup" /\ Plain(store') /\ Plain(flushed') /\ db'.enc = NoId
      BY <1>3, <1>4, <2>4, PhasePlan DEF RegisterPlan
    <3>4. RegisterPlan(op.todo, db, store, flushed, "rollback", op.record)
      BY <2>4, Types, PhasePlan
    <3>5. /\ Len(op.todo) \in Nat \ {0} /\ Len(Tail(op.todo)) = Len(op.todo) - 1
          /\ \A i \in 1 .. Len(op.todo) - 1 : Tail(op.todo)[i] = op.todo[i + 1]
      BY <1>1, Left
    <3> DEFINE R == Tail(op.todo)
    <3> HIDE DEF R
    <3>6. \A i \in 1 .. Len(R) : i + 1 \in 1 .. Len(op.todo) /\ R[i] = op.todo[i + 1]
      BY <3>5 DEF R
    <3>7. \A i \in 1 .. Len(R) : /\ R[i].do \in {"auth", "put", "unkey", "unreg"}
                                 /\ R[i].do = "put" => Plain(R[i].store)
      BY <3>4, <3>6 DEF RegisterPlan
    <3>8. RegisterPlan(R, db', store', flushed', "rollback", op'.record)
      BY <3>3, <3>7 DEF RegisterPlan
    <3> QED
      BY <2>4, <3>2, <3>3, <3>8 DEF Plan, R
  <2> QED
    BY <2>1, <2>2, <2>3, <2>4 DEF FailedWrite, UndoesSetup
<1>6. /\ RightsOK' /\ recovered' \in BOOLEAN
      /\ grant' \in Grant /\ issue' \in Issue /\ replacement' \in BOOLEAN
      /\ issue' # NoIssue => unlocked'
      /\ grant' # NoGrant \/ replacement' => ~unlocked'
  BY <1>1, <1>3, <1>5, RightsMove
<1>7. Profile(db', store', flushed', spent')
  BY <1>3 DEF Moved
<1> QED
  BY <1>1, <1>3, <1>5, <1>6, <1>7, Types, Keeps

-----------------------------------------------------------------------------
\* The steps that write nothing.

\* What a step has to see to that changes no storage.
LEMMA Stays ==
  ASSUME ProtectionInv, UNCHANGED profile, UNCHANGED recovered, UNCHANGED spent,
         op' \in Op, Plan(op', db, store, flushed, spent, recovered),
         unlocked' \in BOOLEAN, setup' \in 0 .. MaxRecords,
         grant' \in Grant, issue' \in Issue, replacement' \in BOOLEAN,
         made' \in 0 .. MaxRecords, issued' \in 0 .. MaxCodes,
         issue' # NoIssue => unlocked',
         grant' # NoGrant \/ replacement' => ~unlocked',
         grant' # NoGrant => /\ Keyed(store) /\ Keyed(flushed) /\ ~replacement'
                             /\ grant'.kind # "none" /\ grant'.binding.pending = NoRecord,
         issue' # NoIssue => issue'.gen = issue'.binding.code.gen + 1,
         setup' # 0 => /\ Plain(store) /\ Plain(flushed) /\ db.auth = NoRecord
                       /\ made' < MaxRecords /\ op'.kind \in {"none", "initialize"},
         unlocked' \/ replacement' => Whole(db, store, recovered),
         op'.kind \notin {"none", "confirm"} => ~unlocked',
         op'.kind \in {"setup", "system", "code", "replace"} => ~replacement'
  PROVE  ProtectionInv'
<1>1. UNCHANGED <<db, store, flushed>>
  BY DEF profile
<1>2. Profile(db', store', flushed', spent') /\ recovered' \in BOOLEAN
      /\ Plan(op', db', store', flushed', spent', recovered')
  BY <1>1, Types
<1>3. RightsOK'
  BY <1>1 DEF RightsOK
<1> QED
  BY <1>2, <1>3, Keeps

\* A call that begins.
LEMMA CallIs ==
  ASSUME NEW kind \in Kinds, NEW phase \in Phases, NEW T \in Seq(Writes), NEW rec \in Record
  PROVE  LET o == Call(kind, phase, T, rec)
         IN /\ o \in Op /\ o.kind = kind /\ o.phase = phase /\ o.todo = T /\ o.record = rec
            /\ o.before = EmptyStore
  BY NoCall DEF Call, Op

\* The start reconciles.
LEMMA InitializeKeeps ==
  ASSUME ProtectionInv, Initialize
  PROVE  ProtectionInv'
<1> DEFINE o == Call("initialize", "reconcile", Reconcile, NoRecord)
<1>1. /\ Idle /\ ~unlocked /\ op' = o
      /\ UNCHANGED profile /\ UNCHANGED rights /\ UNCHANGED ghosts
      /\ UNCHANGED <<unlocked, recovered, setup>>
  BY DEF Initialize
<1>2. UNCHANGED <<grant, issue, replacement, made, issued, spent>>
  BY <1>1 DEF rights, ghosts
<1>3. /\ Reconcile \in Seq(Writes)
      /\ ReconcilePlan(Reconcile, db, store, flushed, "initialize", NoRecord)
  BY Types, ReconcileBegins
<1>4. /\ o \in Op /\ o.kind = "initialize" /\ o.phase = "reconcile" /\ o.todo = Reconcile
      /\ o.record = NoRecord
  BY <1>3, CallIs, Nothing DEF Kinds, Phases
<1> HIDE DEF o
<1>5. Plan(o, db, store, flushed, spent, recovered)
  BY <1>3, <1>4 DEF Plan
<1>6. op.kind = "none"
  BY <1>1, NoCall DEF Idle
<1> QED
  BY <1>1, <1>2, <1>4, <1>5, <1>6, Types, Stays DEF RightsOK

\* A setup is started where there is nothing.
LEMMA StartSetupKeeps ==
  ASSUME ProtectionInv, StartSetup
  PROVE  ProtectionInv'
<1>1. /\ Idle /\ ~unlocked /\ ~replacement /\ db.auth = NoRecord /\ ~HasProtection(db, store)
      /\ made < MaxRecords /\ setup' = made + 1
      /\ UNCHANGED profile /\ UNCHANGED rights /\ UNCHANGED ghosts
      /\ UNCHANGED <<op, unlocked, recovered>>
  BY DEF StartSetup
<1>2. UNCHANGED <<grant, issue, replacement, made, issued, spent>>
  BY <1>1 DEF rights, ghosts
<1>3. Plain(store) /\ Plain(flushed)
  BY <1>1, Types DEF HasProtection, Plain, Profile
<1>4. op.kind = "none"
  BY <1>1, NoCall DEF Idle
<1>5. setup' \in 0 .. MaxRecords
  BY <1>1, Types, ProtectionAssumption DEF ProtectionAssumption
<1> QED
  BY <1>1, <1>2, <1>3, <1>4, <1>5, Types, Stays DEF RightsOK

\* The registration with its PIN is about to be stored.
LEMMA CompleteSetupKeeps ==
  ASSUME ProtectionInv, CompleteSetup
  PROVE  ProtectionInv'
<1> DEFINE record == [reg |-> setup, pin |-> made + 1]
           registered == [store EXCEPT !.reg = setup]
           keyed == [registered EXCEPT !.key = TRUE]
           T == <<SaveAuth(record), Put(registered), Put(keyed)>>
           o == Call("setup", "register", T, record)
<1>1. /\ Idle /\ setup # 0 /\ op' = o /\ made' = made + 1 /\ setup' = 0
      /\ UNCHANGED profile /\ UNCHANGED rights
      /\ UNCHANGED <<unlocked, recovered, issued, spent>>
  BY DEF CompleteSetup
<1>2. UNCHANGED <<grant, issue, replacement>>
  BY <1>1 DEF rights
<1>3. Plain(store) /\ Plain(flushed) /\ made < MaxRecords
  BY <1>1, Types DEF RightsOK
<1>4. db.enc = NoId
  BY <1>3, Types DEF Kept, Sound
<1>5. ~unlocked /\ ~replacement
  BY <1>4, Types DEF RightsOK, Whole
<1>6. record \in Record /\ record # NoRecord /\ made + 1 \in 0 .. MaxRecords
  <2>1. made + 1 \in 1 .. MaxRecords /\ setup \in 0 .. MaxRecords
    BY <1>3, Types, ProtectionAssumption DEF ProtectionAssumption
  <2>2. record.pin # 0 /\ NoRecord.pin = 0
    BY <2>1 DEF NoRecord
  <2> QED
    BY <2>1, <2>2 DEF Record
<1>7. /\ registered \in Store /\ registered.binding = store.binding
      /\ registered.init = store.init /\ registered.dek = store.dek
  BY Types DEF Store
<1> HIDE DEF registered
<1>8. /\ keyed \in Store /\ keyed.binding = store.binding /\ keyed.key = TRUE
      /\ keyed.init = store.init /\ keyed.dek = store.dek
  BY <1>7 DEF Store
<1> HIDE DEF record, keyed
<1>9. /\ SaveAuth(record) \in Writes /\ Put(registered) \in Writes /\ Put(keyed) \in Writes
      /\ SaveAuth(record).do = "auth" /\ Put(registered).do = "put" /\ Put(keyed).do = "put"
      /\ Put(registered).store = registered /\ Put(keyed).store = keyed
  BY <1>6, <1>7, <1>8, WriteFields
<1>10. /\ T \in Seq(Writes) /\ Len(T) = 3
       /\ T[1] = SaveAuth(record) /\ T[2] = Put(registered) /\ T[3] = Put(keyed)
  BY <1>9
<1> HIDE DEF T
<1>11. o \in Op /\ o.kind = "setup" /\ o.phase = "register" /\ o.todo = T /\ o.record = record
  BY <1>6, <1>10, CallIs DEF Kinds, Phases
<1> HIDE DEF o
<1>12. Plain(registered) /\ Plain(keyed)
  BY <1>3, <1>7, <1>8 DEF Plain
<1>13. \A i \in 1 .. Len(T) : i = 1 \/ i = 2 \/ i = 3
  BY <1>10
<1>14. \A i \in 1 .. Len(T) : /\ T[i].do \in {"auth", "put", "unkey", "unreg"}
                              /\ T[i].do = "put" => Plain(T[i].store)
  BY <1>9, <1>10, <1>12, <1>13
<1>15. RegisterPlan(T, db, store, flushed, "register", record)
  BY <1>3, <1>4, <1>6, <1>8, <1>9, <1>10, <1>14 DEF RegisterPlan
<1>16. Plan(o, db, store, flushed, spent, recovered)
  BY <1>11, <1>15 DEF Plan
<1>17. setup' \in 0 .. MaxRecords /\ made' \in 0 .. MaxRecords
  BY <1>1, <1>6, ProtectionAssumption DEF ProtectionAssumption
<1> QED
  BY <1>1, <1>2, <1>5, <1>11, <1>16, <1>17, Types, Stays DEF RightsOK

\* The right PIN begins to take the key.
LEMMA LoginKeeps ==
  ASSUME ProtectionInv, Login
  PROVE  ProtectionInv'
<1>1. /\ Idle /\ ~unlocked /\ StatesMatch(db, store) /\ CanTakeKey(db, store, db.auth, FALSE)
      /\ UNCHANGED profile /\ UNCHANGED rights /\ UNCHANGED ghosts
      /\ UNCHANGED <<unlocked, recovered, setup>>
  BY DEF Login
<1>2. PICK id \in Ids : op' = Call("login", "key", TakeKey(db.auth, id), db.auth)
  BY DEF Login
<1>3. UNCHANGED <<grant, issue, replacement, made, issued, spent>>
  BY <1>1 DEF rights, ghosts
<1>4. /\ TakeKey(db.auth, id) \in Seq(Writes)
      /\ KeyPlan(TakeKey(db.auth, id), db, store, flushed, spent, db.auth)
  BY <1>1, Types, KeyBegins
<1>5. db.auth \in Record
  BY Types DEF Database
<1> DEFINE T == TakeKey(db.auth, id)
<1> HIDE DEF T
<1>6. /\ op' \in Op /\ op'.kind = "login" /\ op'.phase = "key" /\ op'.todo = T
      /\ op'.record = db.auth
  BY <1>2, <1>4, <1>5, CallIs DEF Kinds, Phases, T
<1>7. Plan(op', db, store, flushed, spent, recovered)
  BY <1>4, <1>6 DEF Plan, T
<1>8. setup = 0
  BY <1>1, Types DEF RightsOK, StatesMatch
<1>9. op.kind = "none"
  BY <1>1, NoCall DEF Idle
<1> QED
  BY <1>1, <1>3, <1>6, <1>7, <1>8, <1>9, Types, Stays DEF RightsOK

\* A recovery reconciles as the start does, for a registration that is whole.
LEMMA BeginRecoveryKeeps ==
  ASSUME ProtectionInv, NEW kind \in {"system", "code"}, NEW code \in Nat,
         BeginRecovery(kind, code)
  PROVE  ProtectionInv'
<1> DEFINE c == Call(kind, "reconcile", Reconcile, NoRecord)
           o == [c EXCEPT !.code = code]
<1>1. /\ Idle /\ ~unlocked /\ StatesMatch(db, store) /\ op' = o
      /\ NoRights /\ UNCHANGED profile /\ UNCHANGED ghosts
      /\ UNCHANGED <<unlocked, recovered, setup>>
  BY DEF BeginRecovery
<1>2. UNCHANGED <<made, issued, spent>> /\ grant' = NoGrant /\ issue' = NoIssue /\ ~replacement'
      /\ replacement' \in BOOLEAN
  BY <1>1 DEF NoRights, ghosts
<1>3. /\ Reconcile \in Seq(Writes)
      /\ ReconcilePlan(Reconcile, db, store, flushed, kind, NoRecord)
  BY <1>1, Types, ReconcileBegins
<1>4. /\ c \in Op /\ c.kind = kind /\ c.phase = "reconcile" /\ c.todo = Reconcile
      /\ c.record = NoRecord
  BY <1>3, CallIs, Nothing DEF Kinds, Phases
<1> HIDE DEF c
<1>5. /\ o \in Op /\ o.kind = kind /\ o.phase = "reconcile" /\ o.todo = Reconcile
      /\ o.record = NoRecord
  BY <1>4 DEF Op
<1> HIDE DEF o
<1>6. Plan(o, db, store, flushed, spent, recovered)
  BY <1>3, <1>5 DEF Plan
<1>7. setup = 0
  BY <1>1, Types DEF RightsOK, StatesMatch
<1> QED
  BY <1>1, <1>2, <1>5, <1>6, <1>7, Types, Nothing, Stays

\* The intent of a new PIN is about to be stored.
LEMMA ReplacePinKeeps ==
  ASSUME ProtectionInv, ReplacePin
  PROVE  ProtectionInv'
<1> DEFINE record == [reg |-> store.reg, pin |-> made + 1]
           T == SaveBinding(Prepared(grant, record))
           o == Call("replace", "intent", T, record)
<1>1. /\ Idle /\ ~unlocked /\ grant # NoGrant /\ store.binding = grant.binding
      /\ grant.kind = "code" => grant.binding.code.active
      /\ made < MaxRecords /\ made' = made + 1 /\ op' = o /\ grant' = NoGrant
      /\ UNCHANGED profile /\ UNCHANGED <<unlocked, recovered, setup, issue, replacement, issued, spent>>
  BY DEF ReplacePin
<1>2. /\ Keyed(store) /\ Keyed(flushed) /\ ~replacement /\ grant.kind # "none"
      /\ grant.binding.pending = NoRecord
  BY <1>1, Types DEF RightsOK
<1>3. made + 1 \in 1 .. MaxRecords
  BY <1>1, Types, ProtectionAssumption DEF ProtectionAssumption
<1>4. record \in Record /\ record # NoRecord /\ record.reg = store.reg
  <2>1. record.pin # 0 /\ NoRecord.pin = 0
    BY <1>3 DEF NoRecord
  <2> QED
    BY <1>3, <2>1, Types, StoreFields DEF Record
<1> HIDE DEF record
<1>5. T \in Seq(Writes) /\ IntentPlan(T, db, store, flushed, spent, record)
  BY <1>1, <1>2, <1>4, Types, IntentBegins
<1> HIDE DEF T
<1>6. o \in Op /\ o.kind = "replace" /\ o.phase = "intent" /\ o.todo = T /\ o.record = record
  BY <1>4, <1>5, CallIs DEF Kinds, Phases
<1> HIDE DEF o
<1>7. Plan(o, db, store, flushed, spent, recovered)
  BY <1>5, <1>6 DEF Plan
<1>8. setup = 0
  BY <1>2, Types DEF RightsOK, Keyed, Plain
<1>9. made' \in 0 .. MaxRecords
  BY <1>1, <1>3
<1> QED
  BY <1>1, <1>2, <1>6, <1>7, <1>8, <1>9, Types, Nothing, Stays DEF RightsOK

\* A code is put on display, the next one after the one there is.
LEMMA BeginRecoveryCodeKeeps ==
  ASSUME ProtectionInv, BeginRecoveryCode
  PROVE  ProtectionInv'
<1> DEFINE i == [code |-> issued + 1, gen |-> NextGeneration(store.binding), binding |-> store.binding]
<1>1. /\ Idle /\ unlocked /\ issued < MaxCodes /\ store.binding.code.gen < MaxCodes
      /\ issued' = issued + 1 /\ issue' = i /\ grant' = NoGrant /\ replacement' = FALSE
      /\ UNCHANGED profile /\ UNCHANGED <<op, unlocked, recovered, setup, made, spent>>
  BY DEF BeginRecoveryCode
<1>2. issued + 1 \in 0 .. MaxCodes /\ store.binding.code.gen + 1 \in 0 .. MaxCodes
  BY <1>1, Types, StoreFields, ProtectionAssumption DEF ProtectionAssumption
<1>3. i \in Issue /\ i.gen = i.binding.code.gen + 1
  BY <1>2, Types, StoreFields DEF Issue, NextGeneration
<1> HIDE DEF i
<1>4. Whole(db, store, recovered)
  BY <1>1, Types DEF RightsOK
<1>5. setup = 0
  BY <1>4, Types, KeptFacts DEF RightsOK, Whole, Keyed, Plain
<1>6. op.kind = "none"
  BY <1>1, NoCall DEF Idle
<1> QED
  BY <1>1, <1>2, <1>3, <1>4, <1>5, <1>6, Types, Nothing, Stays

\* The code on display is about to be stored in the binding.
LEMMA ConfirmRecoveryCodeKeeps ==
  ASSUME ProtectionInv, ConfirmRecoveryCode
  PROVE  ProtectionInv'
<1> DEFINE k == [code |-> issue.code, gen |-> issue.gen, active |-> TRUE, failed |-> 0]
           b == [store.binding EXCEPT !.code = k]
           x == [store EXCEPT !.binding = b]
           c == Call("confirm", "confirm", Saved(x), NoRecord)
           o == [c EXCEPT !.before = store]
<1>1. /\ Idle /\ unlocked /\ issue # NoIssue /\ CodeBindingOK /\ store.binding = issue.binding
      /\ op' = o
      /\ UNCHANGED profile /\ UNCHANGED rights /\ UNCHANGED ghosts
      /\ UNCHANGED <<unlocked, recovered, setup>>
  BY DEF ConfirmRecoveryCode, SaveBinding
<1>2. UNCHANGED <<grant, issue, replacement, made, issued, spent>>
  BY <1>1 DEF rights, ghosts
<1>3. Whole(db, store, recovered) /\ issue.gen = store.binding.code.gen + 1
  BY <1>1, Types DEF RightsOK
<1>4. k \in Code /\ k.gen = issue.gen /\ k.active = TRUE
  BY Types, ProtectionAssumption DEF Issue, Code, ProtectionAssumption
<1> HIDE DEF k
<1>5. /\ b \in Binding /\ b.code = k
  BY <1>4, Types, StoreFields DEF Binding
<1>6. /\ x \in Store /\ x.binding = b /\ x.reg = store.reg /\ x.key = store.key
      /\ x.dek = store.dek /\ x.init = store.init
  BY <1>5, Types DEF Store
<1>7. Same(x, store)
  BY <1>5, <1>6 DEF Same
<1> HIDE DEF b, x
<1>8. CodeSound(x, spent)
  <2>1. \A g \in spent : g \in Nat /\ g <= store.binding.code.gen
    BY Types, ProtectionAssumption DEF Kept, CodeSound, Profile, ProtectionAssumption
  <2>2. issue.gen \in Nat /\ store.binding.code.gen \in Nat
    BY Types, StoreFields, ProtectionAssumption DEF Issue, ProtectionAssumption
  <2>3. issue.gen \notin spent /\ issue.gen # 0 /\ \A g \in spent : g <= issue.gen
    BY <1>3, <2>1, <2>2
  <2> QED
    BY <1>4, <1>5, <1>6, <2>3 DEF CodeSound
<1>9. Same(store, store) /\ CodeSound(store, spent)
  BY <1>6, <1>7, Types, SameMoves DEF Kept
<1>10. /\ Saved(x) \in Seq(Writes)
       /\ RewritePlan(Saved(x), db, store, spent, "confirm", store)
  BY <1>3, <1>6, <1>7, <1>8, <1>9, RewriteBegins DEF Whole
<1> DEFINE T == Saved(x)
<1> HIDE DEF T
<1>11. c \in Op /\ c.kind = "confirm" /\ c.phase = "confirm" /\ c.todo = T
  BY <1>10, CallIs, Nothing DEF Kinds, Phases, T
<1> HIDE DEF c
<1>12. o \in Op /\ o.kind = "confirm" /\ o.phase = "confirm" /\ o.todo = T /\ o.before = store
  BY <1>11, Types DEF Op
<1> HIDE DEF o
<1>13. Plan(o, db, store, flushed, spent, recovered)
  BY <1>10, <1>12 DEF Plan, T
<1>14. setup = 0
  BY <1>3, Types, KeptFacts DEF RightsOK, Whole, Keyed, Plain
<1> QED
  BY <1>1, <1>2, <1>12, <1>13, <1>14, Types, Stays DEF RightsOK

\* The session is locked for a new API key, and opens again with it.
LEMMA KeyReplacementKeeps ==
  ASSUME ProtectionInv, BeginKeyReplacement \/ FinishKeyReplacement
  PROVE  ProtectionInv'
<1>1. /\ Idle /\ InUse
      /\ UNCHANGED profile /\ UNCHANGED ghosts /\ UNCHANGED <<op, recovered, setup>>
  BY DEF BeginKeyReplacement, FinishKeyReplacement, InUse
<1>2. UNCHANGED <<made, issued, spent>>
  BY <1>1 DEF ghosts
<1>3. Whole(db, store, recovered)
  BY <1>1, Types DEF RightsOK, InUse
<1>4. setup = 0
  BY <1>3, Types, KeptFacts DEF RightsOK, Whole, Keyed, Plain
<1>5. op.kind = "none"
  BY <1>1, NoCall DEF Idle
<1>6. CASE BeginKeyReplacement
  <2>1. unlocked' = FALSE /\ grant' = NoGrant /\ issue' = NoIssue /\ replacement' = TRUE
    BY <1>6 DEF BeginKeyReplacement
  <2> QED
    BY <1>1, <1>2, <1>3, <1>4, <1>5, <2>1, Types, Nothing, Stays
<1>7. CASE FinishKeyReplacement
  <2>1. replacement /\ unlocked' = TRUE /\ replacement' = FALSE /\ UNCHANGED <<grant, issue>>
    BY <1>7 DEF FinishKeyReplacement
  <2>2. grant = NoGrant
    BY <2>1, Types DEF RightsOK
  <2> QED
    BY <1>1, <1>2, <1>3, <1>4, <1>5, <2>1, <2>2, Types, Stays DEF RightsOK
<1> QED
  BY <1>6, <1>7

\* A call ends without a change of the rights.
LEMMA EndsKeep ==
  ASSUME ProtectionInv, op' = NoOp, UNCHANGED profile, UNCHANGED rights, UNCHANGED ghosts,
         UNCHANGED <<unlocked, recovered, setup>>
  PROVE  ProtectionInv'
<1>1. UNCHANGED <<grant, issue, replacement, made, issued, spent>>
  BY DEF rights, ghosts
<1>2. op' \in Op /\ op'.kind = "none" /\ Plan(op', db, store, flushed, spent, recovered)
  BY NoCall DEF Plan
<1> QED
  BY <1>1, <1>2, Types, Stays DEF RightsOK

\* A call goes on with other writes and leaves the rights alone.
LEMMA GoesOn ==
  ASSUME ProtectionInv, op' \in Op, op'.kind = op.kind,
         Plan(op', db, store, flushed, spent, recovered),
         UNCHANGED profile, UNCHANGED ghosts, UNCHANGED <<unlocked, recovered, setup>>,
         UNCHANGED <<grant, replacement>>, issue' = issue \/ issue' = NoIssue
  PROVE  ProtectionInv'
<1>1. UNCHANGED <<made, issued, spent>>
  BY DEF ghosts
<1>2. issue' \in Issue /\ (issue' # NoIssue => issue' = issue)
  BY Types, Nothing
<1>3. /\ issue' # NoIssue => unlocked'
      /\ issue' # NoIssue => issue'.gen = issue'.binding.code.gen + 1
  BY <1>2, Types DEF RightsOK
<1> QED
  BY <1>1, <1>2, <1>3, Types, Stays DEF RightsOK

\* The key begins to be taken for the PIN of the verifier.
LEMMA BeginKeyKeeps ==
  ASSUME ProtectionInv, op.kind \in {"setup", "system", "code"}, StatesMatch(db, store),
         NEW record, record = db.auth, NEW recovery, BeginKey(record, recovery)
  PROVE  ProtectionInv'
<1>1. /\ CanTakeKey(db, store, db.auth, recovery)
      /\ UNCHANGED profile /\ UNCHANGED rights /\ UNCHANGED ghosts
      /\ UNCHANGED <<unlocked, recovered, setup>>
  BY DEF BeginKey
<1>2. PICK id \in Ids : op' = [op EXCEPT !.phase = "key", !.todo = TakeKey(db.auth, id),
                                         !.record = db.auth, !.before = store]
  BY DEF BeginKey
<1> DEFINE T == TakeKey(db.auth, id)
<1>3. T \in Seq(Writes) /\ KeyPlan(T, db, store, flushed, spent, db.auth)
  BY <1>1, Types, KeyBegins
<1> HIDE DEF T
<1>4. /\ op' \in Op /\ op'.kind = op.kind /\ op'.phase = "key" /\ op'.todo = T
      /\ op'.record = db.auth
  <2>1. op' = [op EXCEPT !.phase = "key", !.todo = T, !.record = db.auth, !.before = store]
    BY <1>2 DEF T
  <2>2. db.auth \in Record /\ store \in Store /\ op \in Op
    BY Types DEF Database
  <2> QED
    BY <1>3, <2>1, <2>2 DEF Op, Phases
<1>5. Plan(op', db, store, flushed, spent, recovered)
  BY <1>3, <1>4 DEF Plan
<1>6. UNCHANGED <<grant, replacement, issue>>
  BY <1>1 DEF rights
<1> QED
  BY <1>1, <1>4, <1>5, <1>6, GoesOn

\* A registration is stored, and its PIN takes the key.
LEMMA RegistrationStoredKeeps ==
  ASSUME ProtectionInv, RegistrationStored
  PROVE  ProtectionInv'
<1>1. op.kind = "setup" /\ op.phase = "register" /\ op.todo = <<>> /\ BeginKey(op.record, FALSE)
  BY DEF RegistrationStored, Done
<1>2. RegisterPlan(op.todo, db, store, flushed, "register", op.record)
  BY <1>1, Types, PhasePlan
<1>3. Plain(store) /\ db.enc = NoId /\ op.record # NoRecord /\ store.key
  BY <1>1, <1>2 DEF RegisterPlan
<1>4. Prepares(db, store) /\ CanTakeKey(db, store, op.record, FALSE)
  BY <1>1, <1>3 DEF Prepares, Plain, BeginKey
<1>5. db.auth = op.record /\ store.reg = op.record.reg
  BY <1>4 DEF CanTakeKey
<1>6. StatesMatch(db, store)
  BY <1>3, <1>5 DEF StatesMatch
<1> QED
  BY <1>1, <1>5, <1>6, BeginKeyKeeps

\* A recovery is proved, and the key is taken.
LEMMA ProofsKeep ==
  ASSUME ProtectionInv, SystemConfirms \/ CodeConfirms
  PROVE  ProtectionInv'
<1>1. /\ op.kind \in {"system", "code"} /\ op.phase = "reconcile" /\ BeginKey(db.auth, TRUE)
  BY DEF SystemConfirms, CodeConfirms, CanTryCode, Done
<1>2. ReconcilePlan(op.todo, db, store, flushed, op.kind, op.record)
  BY <1>1, Types, PhasePlan
<1>3. StatesMatch(db, store)
  BY <1>1, <1>2 DEF ReconcilePlan
<1> QED
  BY <1>1, <1>3, BeginKeyKeeps

\* A wrong code is about to be counted.
LEMMA CodeFailsKeeps ==
  ASSUME ProtectionInv, CodeFails
  PROVE  ProtectionInv'
<1> DEFINE n == IF store.binding.code.failed = MaxFailed THEN 1 ELSE store.binding.code.failed + 1
           b == [store.binding EXCEPT !.code.failed = n]
           x == [store EXCEPT !.binding = b]
<1>1. /\ op.kind = "code" /\ CodeBindingOK
      /\ GoOn("fails", Saved(x))
      /\ UNCHANGED profile /\ UNCHANGED rights /\ UNCHANGED ghosts
      /\ UNCHANGED <<unlocked, recovered, setup>>
  BY DEF CodeFails, CanTryCode, Done, SaveBinding
<1>2. /\ store.binding \in Binding /\ store.binding.code \in Code
      /\ store.binding.code.failed \in 0 .. MaxFailed
  BY Types, StoreFields DEF Code
<1>3. n \in 0 .. MaxFailed
  BY <1>2, ProtectionAssumption DEF ProtectionAssumption
<1> HIDE DEF n
<1> DEFINE k == [store.binding.code EXCEPT !.failed = n]
<1>4. k \in Code /\ k.gen = store.binding.code.gen /\ k.active = store.binding.code.active
  BY <1>2, <1>3 DEF Code
<1>5. b = [store.binding EXCEPT !.code = k]
  OBVIOUS
<1> HIDE DEF k, b
<1>6. b \in Binding /\ b.code = k
  BY <1>2, <1>4, <1>5 DEF Binding
<1>7. /\ x \in Store /\ x.binding = b /\ x.reg = store.reg /\ x.key = store.key
      /\ x.dek = store.dek /\ x.init = store.init
  BY <1>6, Types DEF Store
<1> HIDE DEF x
<1>8. Same(x, store)
  BY <1>5, <1>6, <1>7 DEF Same
<1>9. CodeSound(x, spent)
  BY <1>4, <1>6, <1>7, Types DEF Kept, CodeSound
<1>10. db.enc # NoId /\ store.binding.pending = NoRecord
  BY <1>1, Types, Nothing DEF CodeBindingOK, Kept, Sound, Plain
<1>11. /\ Saved(x) \in Seq(Writes)
       /\ RewritePlan(Saved(x), db, store, spent, "code", op.before)
  BY <1>7, <1>8, <1>9, <1>10, RewriteBegins
<1> DEFINE T == Saved(x)
<1> HIDE DEF T
<1>12. GoOn("fails", T) /\ "fails" \in Phases /\ T \in Seq(Writes)
  BY <1>1, <1>11 DEF T, Phases
<1>13. /\ op' \in Op /\ op'.phase = "fails" /\ op'.todo = T /\ op'.kind = op.kind
       /\ op'.before = op.before
  BY <1>12, Types, OpMoves
<1>14. Plan(op', db, store, flushed, spent, recovered)
  BY <1>1, <1>11, <1>13 DEF Plan, T
<1>15. UNCHANGED <<grant, replacement, issue>>
  BY <1>1 DEF rights
<1> QED
  BY <1>1, <1>13, <1>14, <1>15, GoesOn

\* A proof gives the right to choose a PIN.
LEMMA GrantProofKeeps ==
  ASSUME ProtectionInv, GrantProof
  PROVE  ProtectionInv'
<1>1. /\ op.kind \in {"system", "code"} /\ op.phase = "key" /\ op.todo = <<>>
      /\ grant' = [kind |-> op.kind, binding |-> store.binding] /\ op' = NoOp
      /\ UNCHANGED profile /\ UNCHANGED ghosts
      /\ UNCHANGED <<unlocked, recovered, setup, issue, replacement>>
  BY DEF GrantProof, Done
<1>2. KeyPlan(op.todo, db, store, flushed, spent, op.record)
  BY <1>1, Types, PhasePlan
<1>3. Keyed(store) /\ Keyed(flushed) /\ store.binding.pending = NoRecord
  BY <1>1, <1>2 DEF KeyPlan
<1>4. ~unlocked /\ ~replacement
  BY <1>1, Types DEF RightsOK
<1>5. grant' \in Grant /\ grant'.kind # "none" /\ grant'.binding.pending = NoRecord
  BY <1>1, <1>3, Types, StoreFields DEF Grant
<1>6. op' \in Op /\ op'.kind = "none" /\ Plan(op', db, store, flushed, spent, recovered)
  BY <1>1, NoCall DEF Plan
<1>7. UNCHANGED <<made, issued, spent>>
  BY <1>1 DEF ghosts
<1> QED
  BY <1>1, <1>3, <1>4, <1>5, <1>6, <1>7, Types, Stays DEF RightsOK

\* The intent of a new PIN is on disk, and is carried out.
LEMMA IntentStoredKeeps ==
  ASSUME ProtectionInv, IntentStored
  PROVE  ProtectionInv'
<1>1. /\ op.kind = "replace" /\ op.phase = "intent" /\ op.todo = <<>>
      /\ GoOn("reconcile", Reconcile)
      /\ UNCHANGED profile /\ UNCHANGED rights /\ UNCHANGED ghosts
      /\ UNCHANGED <<unlocked, recovered, setup>>
  BY DEF IntentStored, Done
<1>2. IntentPlan(op.todo, db, store, flushed, spent, op.record)
  BY <1>1, Types, PhasePlan
<1>3. /\ Keyed(store) /\ Keyed(flushed) /\ op.record # NoRecord
      /\ store.binding.pending = op.record
  BY <1>1, <1>2 DEF IntentPlan
<1>4. /\ Reconcile \in Seq(Writes)
      /\ ReconcilePlan(Reconcile, db, store, flushed, "replace", op.record)
  BY <1>3, Types, ReconcileBegins
<1>5. "reconcile" \in Phases
  BY DEF Phases
<1>6. /\ op' \in Op /\ op'.phase = "reconcile" /\ op'.todo = Reconcile /\ op'.kind = op.kind
      /\ op'.record = op.record
  BY <1>1, <1>4, <1>5, Types, OpMoves
<1>7. Plan(op', db, store, flushed, spent, recovered)
  BY <1>1, <1>4, <1>6 DEF Plan
<1>8. UNCHANGED <<grant, replacement, issue>>
  BY <1>1 DEF rights
<1> QED
  BY <1>1, <1>6, <1>7, <1>8, GoesOn

\* The key is there, and the file is encrypted with it.
LEMMA KeyTakenKeeps ==
  ASSUME ProtectionInv, KeyTaken
  PROVE  ProtectionInv'
<1>1. /\ \/ op.kind \in {"setup", "login"} /\ op.phase = "key"
         \/ op.kind = "replace" /\ op.phase = "reconcile"
      /\ op.todo = <<>> /\ GoOn("migrate", MigrateAndConfirm)
      /\ UNCHANGED profile /\ UNCHANGED rights /\ UNCHANGED ghosts
      /\ UNCHANGED <<unlocked, recovered, setup>>
  BY DEF KeyTaken, Done
<1>2. /\ Keyed(store) /\ Keyed(flushed) /\ store.binding.pending = NoRecord /\ op.record = db.auth
  <2>1. CASE op.phase = "key"
    <3>1. KeyPlan(op.todo, db, store, flushed, spent, op.record)
      BY <2>1, Types, PhasePlan
    <3> QED
      BY <1>1, <3>1 DEF KeyPlan
  <2>2. CASE op.phase = "reconcile" /\ op.kind = "replace"
    <3>1. ReconcilePlan(op.todo, db, store, flushed, "replace", op.record) /\ Len(op.todo) = 0
      BY <1>1, <2>2, Types, PhasePlan
    <3> QED
      BY <3>1 DEF ReconcilePlan
  <2> QED
    BY <1>1, <2>1, <2>2
<1>3. /\ MigrateAndConfirm \in Seq(Writes)
      /\ MigratePlan(MigrateAndConfirm, db, store, flushed, spent, recovered, op.record)
  BY <1>2, Types, MigrateBegins
<1>4. "migrate" \in Phases
  BY DEF Phases
<1>5. /\ op' \in Op /\ op'.phase = "migrate" /\ op'.todo = MigrateAndConfirm /\ op'.kind = op.kind
      /\ op'.record = op.record
  BY <1>1, <1>3, <1>4, Types, OpMoves
<1>6. Plan(op', db, store, flushed, spent, recovered)
  BY <1>1, <1>3, <1>5 DEF Plan
<1>7. UNCHANGED <<grant, replacement, issue>>
  BY <1>1 DEF rights
<1> QED
  BY <1>1, <1>5, <1>6, <1>7, GoesOn

\* What is known where access opens.
LEMMA OpensWhole ==
  ASSUME ProtectionInv, Open
  PROVE  /\ Whole(db, store, recovered) /\ op.record = db.auth
         /\ op.kind \in {"setup", "login", "replace"} /\ op.current
<1>1. /\ op.kind \in {"setup", "login", "replace"} /\ op.phase = "migrate" /\ op.todo = <<>>
      /\ op.current
  BY DEF Open, MayOpen, Done
<1>2. MigratePlan(op.todo, db, store, flushed, spent, recovered, op.record)
  BY <1>1, Types, PhasePlan
<1>3. Len(op.todo) = 0
  BY <1>1
<1> QED
  BY <1>1, <1>2, <1>3, Types DEF MigratePlan, Whole

\* Access opens.
LEMMA OpenKeeps ==
  ASSUME ProtectionInv, Open
  PROVE  ProtectionInv'
<1>1. /\ unlocked' = TRUE /\ op' = NoOp /\ NoRights
      /\ UNCHANGED profile /\ UNCHANGED ghosts /\ UNCHANGED <<recovered, setup>>
  BY DEF Open
<1>2. Whole(db, store, recovered) /\ op.kind \in {"setup", "login", "replace"}
  BY OpensWhole
<1>3. UNCHANGED <<made, issued, spent>> /\ grant' = NoGrant /\ issue' = NoIssue
      /\ replacement' = FALSE
  BY <1>1 DEF NoRights, ghosts
<1>4. setup = 0
  BY <1>2, Types DEF RightsOK
<1>5. op' \in Op /\ op'.kind = "none" /\ Plan(op', db, store, flushed, spent, recovered)
  BY <1>1, NoCall DEF Plan
<1> QED
  BY <1>1, <1>2, <1>3, <1>4, <1>5, Types, Nothing, Stays

\* The new code is stored, or the former binding is about to come back.
LEMMA CodeStoredKeeps ==
  ASSUME ProtectionInv, CodeStored
  PROVE  ProtectionInv'
<1>1. /\ op.kind = "confirm" /\ op.phase = "confirm"
      /\ \/ op' = NoOp /\ issue' = NoIssue
         \/ GoOn("restore", Saved(op.before)) /\ UNCHANGED issue
      /\ UNCHANGED profile /\ UNCHANGED ghosts
      /\ UNCHANGED <<unlocked, recovered, setup, grant, replacement>>
  BY DEF CodeStored, Done
<1>2. CASE op' = NoOp /\ issue' = NoIssue
  <2>1. op' \in Op /\ op'.kind = "none" /\ Plan(op', db, store, flushed, spent, recovered)
    BY <1>2, NoCall DEF Plan
  <2>2. UNCHANGED <<made, issued, spent>>
    BY <1>1 DEF ghosts
  <2> QED
    BY <1>1, <1>2, <2>1, <2>2, Types, Nothing, Stays DEF RightsOK
<1>3. CASE GoOn("restore", Saved(op.before)) /\ UNCHANGED issue
  <2>1. RewritePlan(op.todo, db, store, spent, "confirm", op.before)
    BY <1>1, Types, PhasePlan
  <2>2. op.before \in Store
    BY Types DEF Op
  <2>3. /\ Saved(op.before) \in Seq(Writes)
        /\ RewritePlan(Saved(op.before), db, store, spent, "confirm", op.before)
    BY <2>1, <2>2, RewriteBegins DEF RewritePlan
  <2>4. "restore" \in Phases
    BY DEF Phases
  <2>5. /\ op' \in Op /\ op'.phase = "restore" /\ op'.todo = Saved(op.before)
        /\ op'.kind = op.kind /\ op'.before = op.before
    BY <1>3, <2>3, <2>4, Types, OpMoves
  <2>6. Plan(op', db, store, flushed, spent, recovered)
    BY <1>1, <2>3, <2>5 DEF Plan
  <2> QED
    BY <1>1, <1>3, <2>5, <2>6, GoesOn
<1> QED
  BY <1>1, <1>2, <1>3

\* A call ends, or its proof fails.
LEMMA EndKeeps ==
  ASSUME ProtectionInv, End \/ ProofFails
  PROVE  ProtectionInv'
BY EndsKeep DEF End, ProofFails

-----------------------------------------------------------------------------
\* What may happen between any two steps.

\* Only a call under way is told of a lock.
LEMMA LockAccessKeeps ==
  ASSUME ProtectionInv, LockAccess
  PROVE  ProtectionInv'
<1>1. /\ unlocked' = FALSE /\ setup' = 0 /\ grant' = NoGrant /\ issue' = NoIssue
      /\ replacement' = FALSE
      /\ UNCHANGED profile /\ UNCHANGED recovered /\ UNCHANGED <<made, issued, spent>>
  BY DEF LockAccess, NoRights, ghosts
<1>2. op' \in Op /\ Plan(op', db, store, flushed, spent, recovered)
  <2>1. CASE Idle
    <3>1. op' = NoOp
      BY <2>1 DEF LockAccess
    <3> QED
      BY <3>1, NoCall DEF Plan
  <2>2. CASE ~Idle
    <3>1. op' = [op EXCEPT !.current = FALSE] /\ op # NoOp /\ op \in Op
      BY <2>2, Types DEF LockAccess, Idle
    <3>2. /\ op' \in Op /\ op'.kind = op.kind /\ op'.phase = op.phase /\ op'.todo = op.todo
          /\ op'.record = op.record /\ op'.before = op.before
      BY <3>1 DEF Op
    <3>3. Plan(op, db, store, flushed, spent, recovered)
      BY Types
    <3> QED
      BY <3>1, <3>2, <3>3 DEF Plan
  <2> QED
    BY <2>1, <2>2
<1>3. 0 \in 0 .. MaxRecords
  BY ProtectionAssumption DEF ProtectionAssumption
<1> QED
  BY <1>1, <1>2, <1>3, Types, Nothing, Stays

\* A setup or a code on display is cancelled.
LEMMA CancelsKeep ==
  ASSUME ProtectionInv, CancelSetup \/ CancelIssue
  PROVE  ProtectionInv'
<1>1. UNCHANGED profile /\ UNCHANGED ghosts /\ UNCHANGED <<op, unlocked, recovered>>
  BY DEF CancelSetup, CancelIssue
<1>2. CASE CancelSetup
  <2>1. setup' = 0 /\ UNCHANGED <<grant, issue, replacement, made, issued, spent>>
    BY <1>2 DEF CancelSetup, rights, ghosts
  <2>2. 0 \in 0 .. MaxRecords
    BY ProtectionAssumption DEF ProtectionAssumption
  <2> QED
    BY <1>1, <2>1, <2>2, Types, Stays DEF RightsOK
<1>3. CASE CancelIssue
  <2>1. issue' = NoIssue /\ UNCHANGED <<setup, grant, replacement>>
    BY <1>3 DEF CancelIssue
  <2> QED
    BY <1>1, <2>1, Types, GoesOn
<1> QED
  BY <1>2, <1>3

\* What the platform writes is where the call is: its plan holds of the disk too.
LEMMA Flushes ==
  ASSUME NEW o \in Op, NEW d, NEW s, NEW f, NEW used, NEW r,
         s.binding.pending # NoRecord => Keyed(s), Plan(o, d, s, f, used, r)
  PROVE  Plan(o, d, s, s, used, r)
<1>1. ReconcilePlan(o.todo, d, s, f, o.kind, o.record)
        => ReconcilePlan(o.todo, d, s, s, o.kind, o.record)
  BY DEF ReconcilePlan
<1>2. RegisterPlan(o.todo, d, s, f, o.phase, o.record)
        => RegisterPlan(o.todo, d, s, s, o.phase, o.record)
  BY DEF RegisterPlan
<1>3. KeyPlan(o.todo, d, s, f, used, o.record) => KeyPlan(o.todo, d, s, s, used, o.record)
  BY DEF KeyPlan
<1>4. MigratePlan(o.todo, d, s, f, used, r, o.record)
        => MigratePlan(o.todo, d, s, s, used, r, o.record)
  BY DEF MigratePlan
<1>5. IntentPlan(o.todo, d, s, f, used, o.record) => IntentPlan(o.todo, d, s, s, used, o.record)
  BY DEF IntentPlan
<1> QED
  BY <1>1, <1>2, <1>3, <1>4, <1>5 DEF Plan

\* The platform writes its preferences.
LEMMA FlushKeeps ==
  ASSUME ProtectionInv, Flush
  PROVE  ProtectionInv'
<1>1. /\ flushed' = store /\ UNCHANGED <<db, store, op, unlocked, recovered, setup>>
      /\ UNCHANGED <<grant, issue, replacement, made, issued, spent>>
  BY DEF Flush, rights, ghosts
<1>2. Profile(db', store', flushed', spent')
  BY <1>1, Types DEF Profile
<1>3. store.binding.pending # NoRecord => Keyed(store)
  BY Types, Nothing DEF Kept, Sound, BindingSound, Plain
<1>4. Plan(op', db', store', flushed', spent', recovered')
  BY <1>1, <1>3, Types, Flushes
<1>5. RightsOK'
  BY <1>1, Types DEF RightsOK
<1> QED
  BY <1>1, <1>2, <1>4, <1>5, Types, Keeps

\* The process dies, and what is on disk is sound by itself.
LEMMA CrashKeeps ==
  ASSUME ProtectionInv, Crash
  PROVE  ProtectionInv'
<1>1. /\ store' = flushed /\ op' = NoOp /\ unlocked' = FALSE /\ recovered' = FALSE /\ setup' = 0
      /\ grant' = NoGrant /\ issue' = NoIssue /\ replacement' = FALSE
      /\ UNCHANGED <<db, flushed, made, issued, spent>>
  BY DEF Crash, NoRights, ghosts
<1>2. Profile(db', store', flushed', spent')
  BY <1>1, Types DEF Profile
<1>3. op' \in Op /\ op'.kind = "none" /\ Plan(op', db', store', flushed', spent', recovered')
  BY <1>1, NoCall DEF Plan
<1>4. RightsOK'
  BY <1>1, <1>3 DEF RightsOK
<1>5. 0 \in 0 .. MaxRecords
  BY ProtectionAssumption DEF ProtectionAssumption
<1> QED
  BY <1>1, <1>2, <1>3, <1>4, <1>5, Types, Nothing, Keeps

\* Nothing else keeps the variables as they are.
LEMMA StutterKeeps ==
  ASSUME ProtectionInv, UNCHANGED vars
  PROVE  ProtectionInv'
<1>1. /\ UNCHANGED <<db, store, flushed, op, unlocked, recovered, setup>>
      /\ UNCHANGED <<grant, issue, replacement, made, issued, spent>>
  BY DEF vars, profile, rights, ghosts
<1>2. RightsOK'
  BY <1>1, Types DEF RightsOK
<1>3. Profile(db', store', flushed', spent') /\ op' \in Op
      /\ Plan(op', db', store', flushed', spent', recovered')
  BY <1>1, Types
<1> QED
  BY <1>1, <1>2, <1>3, Types, Keeps

-----------------------------------------------------------------------------
\* The theorems.

\* A profile begins sound: new, with its PIN only, or on its way to encryption.
LEMMA InitKeeps == Init => ProtectionInv
<1> SUFFICES ASSUME Init
             PROVE  ProtectionInv
  OBVIOUS
<1> DEFINE record == [reg |-> 1, pin |-> 1]
           old == [EmptyStore EXCEPT !.reg = 1, !.key = TRUE]
           Bound(id) == [old EXCEPT !.binding = [NoBinding EXCEPT !.id = id, !.fp = record]]
           Dek(id) == [Bound(id) EXCEPT !.dek = id]
           Protected(id) == [Dek(id) EXCEPT !.binding.protected = TRUE]
<1>1. PICK id \in Ids :
        \/ made = 0 /\ db = [auth |-> NoRecord, enc |-> NoId] /\ store = EmptyStore
        \/ made = 1 /\ db = [auth |-> record, enc |-> NoId] /\ store \in {old, Bound(id), Dek(id)}
        \/ made = 1 /\ db = [auth |-> record, enc |-> id] /\ store \in {Dek(id), Protected(id)}
  BY DEF Init
<1>2. /\ flushed = store /\ op = NoOp /\ unlocked = FALSE /\ recovered = FALSE /\ setup = 0
      /\ grant = NoGrant /\ issue = NoIssue /\ replacement = FALSE /\ issued = 0 /\ spent = {}
  BY DEF Init
<1>3. 1 \in 0 .. MaxRecords /\ 0 \in 0 .. MaxRecords /\ 0 \in 0 .. MaxCodes /\ id # NoId
  BY ProtectionAssumption DEF ProtectionAssumption
<1>4. record \in Record /\ record # NoRecord /\ record.reg = 1
  BY <1>3 DEF Record, NoRecord
<1>5. /\ old \in Store /\ old.reg = 1 /\ old.key = TRUE /\ old.binding = NoBinding
      /\ old.init = NoInitialization /\ old.dek = NoId
  BY <1>3, Nothing DEF Store, EmptyStore
<1> DEFINE b == [NoBinding EXCEPT !.id = id, !.fp = record]
<1>6. /\ b \in Binding /\ b.id = id /\ b.fp = record /\ b.protected = FALSE
      /\ b.code = NoCode /\ b.pending = NoRecord /\ b.proof = "none" /\ b # NoBinding
  BY <1>3, <1>4, Nothing DEF Binding, NoBinding
<1> DEFINE p == [b EXCEPT !.protected = TRUE]
<1>7. /\ p \in Binding /\ p.id = id /\ p.fp = record /\ p.protected = TRUE
      /\ p.code = NoCode /\ p.pending = NoRecord /\ p.proof = "none" /\ p # NoBinding
  BY <1>3, <1>6, Nothing DEF Binding
<1>8. NoCode.active = FALSE /\ NoCode.gen = 0
  BY DEF NoCode
<1>9. /\ Bound(id) \in Store /\ Bound(id).reg = 1 /\ Bound(id).key = TRUE
      /\ Bound(id).binding = b /\ Bound(id).init = NoInitialization /\ Bound(id).dek = NoId
  <2> HIDE DEF old, b
  <2>1. Bound(id) = [old EXCEPT !.binding = b]
    BY DEF b
  <2> HIDE DEF Bound
  <2> QED
    BY <2>1, <1>5, <1>6 DEF Store
<1>10. /\ Dek(id) \in Store /\ Dek(id).reg = 1 /\ Dek(id).key = TRUE
       /\ Dek(id).binding = b /\ Dek(id).init = NoInitialization /\ Dek(id).dek = id
  <2> HIDE DEF Bound, old, b
  <2> QED
    BY <1>3, <1>9 DEF Store
<1>11. /\ Protected(id) \in Store /\ Protected(id).reg = 1 /\ Protected(id).key = TRUE
       /\ Protected(id).binding = p /\ Protected(id).init = NoInitialization
       /\ Protected(id).dek = id
  <2> HIDE DEF Dek, Bound, old, b
  <2>1. Protected(id) = [Dek(id) EXCEPT !.binding = p]
    BY <1>10 DEF Store
  <2> HIDE DEF Protected, p
  <2> QED
    BY <2>1, <1>7, <1>10 DEF Store
<1> HIDE DEF record, old, Bound, Dek, Protected, b, p
<1>12. db \in Database /\ store \in Store
  BY <1>1, <1>3, <1>4, <1>5, <1>9, <1>10, <1>11, Nothing DEF Database
<1>13. store.binding.code.active = FALSE /\ store.binding.pending = NoRecord
  BY <1>1, <1>5, <1>6, <1>7, <1>8, <1>9, <1>10, <1>11, Nothing
<1>14. Kept(db, store, spent)
  <2>1. CodeSound(store, spent)
    BY <1>2, <1>13 DEF CodeSound
  <2>2. CASE Plain(store) /\ db.enc = NoId
    BY <2>1, <2>2 DEF Kept, Sound
  <2>3. CASE db = [auth |-> record, enc |-> NoId] /\ store \in {Bound(id), Dek(id)}
    BY <2>1, <2>3, <1>3, <1>4, <1>6, <1>9, <1>10, Nothing
       DEF Kept, Sound, Plain, StatesMatch, InitSound, BindingSound, Keyed
  <2>4. CASE db = [auth |-> record, enc |-> id] /\ store \in {Dek(id), Protected(id)}
    BY <2>1, <2>4, <1>3, <1>4, <1>6, <1>7, <1>10, <1>11, Nothing
       DEF Kept, Sound, Plain, StatesMatch, InitSound, BindingSound, Keyed
  <2>5. store \in {EmptyStore, old} => Plain(store)
    BY <1>5, Nothing DEF Plain
  <2> QED
    BY <1>1, <2>2, <2>3, <2>4, <2>5
<1>15. Profile(db, store, flushed, spent)
  BY <1>2, <1>12, <1>14 DEF Profile
<1>16. op \in Op /\ op.kind = "none" /\ op.record \in Record /\ op.before \in Store /\ op.kind \in Kinds
  BY <1>2, NoCall, Nothing DEF Kinds
<1>17. PlanOK
  BY <1>2, <1>16 DEF PlanOK, Plan
<1>18. RightsOK
  BY <1>2, <1>16 DEF RightsOK
<1>19. made \in 0 .. MaxRecords
  BY <1>1, <1>3
<1>20. TypeOK
  BY <1>2, <1>3, <1>12, <1>16, <1>19, Nothing DEF TypeOK
<1> QED
  BY <1>15, <1>17, <1>18, <1>20 DEF ProtectionInv, ProfileOK

\* Every step keeps the invariant.
LEMMA NextKeeps == ProtectionInv /\ [Next]_vars => ProtectionInv'
<1> SUFFICES ASSUME ProtectionInv, [Next]_vars
             PROVE  ProtectionInv'
  OBVIOUS
<1>1. CASE UserStep
  <2>1. CASE Initialize
    BY <2>1, InitializeKeeps
  <2>2. CASE StartSetup
    BY <2>2, StartSetupKeeps
  <2>3. CASE CompleteSetup
    BY <2>3, CompleteSetupKeeps
  <2>4. CASE Login
    BY <2>4, LoginKeeps
  <2>5. CASE BeginRecovery("system", 0)
    BY <2>5, BeginRecoveryKeeps
  <2>6. CASE \E code \in 0 .. issued : BeginRecovery("code", code)
    <3>1. PICK code \in 0 .. issued : BeginRecovery("code", code)
      BY <2>6
    <3>2. code \in Nat
      BY Types, ProtectionAssumption DEF ProtectionAssumption
    <3> QED
      BY <3>1, <3>2, BeginRecoveryKeeps
  <2>7. CASE ReplacePin
    BY <2>7, ReplacePinKeeps
  <2>8. CASE BeginRecoveryCode
    BY <2>8, BeginRecoveryCodeKeeps
  <2>9. CASE ConfirmRecoveryCode
    BY <2>9, ConfirmRecoveryCodeKeeps
  <2>10. CASE BeginKeyReplacement \/ FinishKeyReplacement
    BY <2>10, KeyReplacementKeeps
  <2> QED
    BY <1>1, <2>1, <2>2, <2>3, <2>4, <2>5, <2>6, <2>7, <2>8, <2>9, <2>10 DEF UserStep
<1>2. CASE CallStep
  <2>1. CASE WriteStep
    BY <2>1, WriteStepKeeps
  <2>2. CASE FailedWrite
    BY <2>2, FailedWriteKeeps
  <2>3. CASE End \/ ProofFails
    BY <2>3, EndKeeps
  <2>4. CASE RegistrationStored
    BY <2>4, RegistrationStoredKeeps
  <2>5. CASE SystemConfirms \/ CodeConfirms
    BY <2>5, ProofsKeep
  <2>6. CASE CodeFails
    BY <2>6, CodeFailsKeeps
  <2>7. CASE GrantProof
    BY <2>7, GrantProofKeeps
  <2>8. CASE IntentStored
    BY <2>8, IntentStoredKeeps
  <2>9. CASE KeyTaken
    BY <2>9, KeyTakenKeeps
  <2>10. CASE Open
    BY <2>10, OpenKeeps
  <2>11. CASE CodeStored
    BY <2>11, CodeStoredKeeps
  <2> QED
    BY <1>2, <2>1, <2>2, <2>3, <2>4, <2>5, <2>6, <2>7, <2>8, <2>9, <2>10, <2>11 DEF CallStep
<1>3. CASE LockAccess
  BY <1>3, LockAccessKeeps
<1>4. CASE CancelSetup \/ CancelIssue
  BY <1>4, CancelsKeep
<1>5. CASE Flush
  BY <1>5, FlushKeeps
<1>6. CASE Crash
  BY <1>6, CrashKeeps
<1>7. CASE UNCHANGED vars
  BY <1>7, StutterKeeps
<1> QED
  BY <1>1, <1>2, <1>3, <1>4, <1>5, <1>6, <1>7 DEF Next

\* The invariant holds of every state a profile reaches.
LEMMA ProtectionAlways == Spec => []ProtectionInv
BY InitKeeps, NextKeeps, PTL DEF Spec

\* No crash separates a profile from its data: wherever AuthService, a write of
\* data_protection.py or the process breaks off, the PIN of the verifier, or the
\* one that is about to replace it, opens what the storage and the disk hold.
THEOREM KeysAlwaysSurvive == Spec => []KeysSurvive
<1>1. ProtectionInv => KeysSurvive
  <2> SUFFICES ASSUME ProtectionInv
               PROVE  KeysSurvive
    OBVIOUS
  <2>1. RegisteredOpens
    BY Types, SoundOpens DEF RegisteredOpens, Kept
  <2>2. DataKeepsKey
    <3> SUFFICES ASSUME db.enc # NoId
                 PROVE  StatesMatch(db, flushed) /\ flushed.dek = db.enc /\ flushed.binding.id = db.enc
      BY DEF DataKeepsKey
    <3>1. Sound(db, flushed)
      BY Types DEF Kept
    <3>2. StatesMatch(db, flushed) /\ flushed.dek = db.enc /\ BindingSound(db, flushed)
      BY <3>1 DEF Sound
    <3> QED
      BY <3>2 DEF BindingSound
  <2> QED
    BY <2>1, <2>2 DEF KeysSurvive, ProtectionInv
<1> QED
  BY <1>1, ProtectionAlways, PTL

\* Whatever _migrate_and_confirm was interrupted by in earlier calls, access is
\* open to data that are encrypted, bound to the present PIN and finished only.
THEOREM OpenAlwaysWhole == Spec => []OpenIsWhole
<1>1. ProtectionInv => OpenIsWhole
  <2> SUFFICES ASSUME ProtectionInv, unlocked
               PROVE  /\ db.enc # NoId /\ db.enc = store.dek
                      /\ store.binding.protected /\ store.binding.fp = db.auth
                      /\ store.binding.pending = NoRecord
                      /\ store.init.phase \in {"none", "complete"}
                      /\ recovered
    BY DEF OpenIsWhole
  <2>1. Whole(db, store, recovered)
    BY Types DEF RightsOK
  <2>2. Sound(db, store)
    BY Types DEF Kept
  <2>3. store.dek = db.enc /\ BindingSound(db, store) /\ Keyed(store)
    BY <2>1, <2>2 DEF Sound, Whole
  <2>4. store.binding # NoBinding
    BY <2>1, Nothing DEF Whole, Finished
  <2> QED
    BY <2>1, <2>3, <2>4 DEF Whole, Finished, BindingSound
<1> QED
  BY <1>1, ProtectionAlways, PTL

\* replace_pin ends the code it was proved with before the PIN changes, and the
\* generations of begin_recovery_code go up only: no lost write brings it back.
THEOREM SpentAlwaysStaysSpent == Spec => []SpentStaysSpent
<1>1. ProtectionInv => SpentStaysSpent
  BY Types DEF SpentStaysSpent, Kept, CodeSound
<1> QED
  BY <1>1, ProtectionAlways, PTL

\* Access opens where a call ends for the PIN of the verifier with no lock since
\* it began, or where a key replacement gives its session back.
THEOREM OpensAlwaysForPresentPin == Spec => OpensForPresentPin
<1> DEFINE Opens == ~unlocked /\ unlocked' =>
                      \/ op.kind \in {"login", "setup", "replace"} /\ op.current /\ op.record = db.auth
                      \/ replacement
<1>1. ProtectionInv /\ [Next]_vars => [Opens]_vars
  <2> SUFFICES ASSUME ProtectionInv, Next, ~unlocked, unlocked'
               PROVE  \/ /\ op.kind \in {"login", "setup", "replace"} /\ op.current
                         /\ op.record = db.auth
                      \/ replacement
    OBVIOUS
  <2>1. Open \/ FinishKeyReplacement
    <3>1. CASE UserStep
      BY <3>1 DEF UserStep, Initialize, StartSetup, CompleteSetup, Login, BeginRecovery,
                  ReplacePin, BeginRecoveryCode, ConfirmRecoveryCode, BeginKeyReplacement
    <3>2. CASE CallStep
      BY <3>2 DEF CallStep, WriteStep, FailedWrite, End, RegistrationStored, SystemConfirms,
                  ProofFails, CodeConfirms, CodeFails, GrantProof, IntentStored, KeyTaken,
                  CodeStored, BeginKey
    <3>3. CASE LockAccess \/ CancelSetup \/ CancelIssue \/ Flush \/ Crash
      BY <3>3 DEF LockAccess, CancelSetup, CancelIssue, Flush, Crash
    <3> QED
      BY <3>1, <3>2, <3>3 DEF Next
  <2>2. CASE Open
    BY <2>2, OpensWhole
  <2>3. CASE FinishKeyReplacement
    BY <2>3 DEF FinishKeyReplacement
  <2> QED
    BY <2>1, <2>2, <2>3
<1> HIDE DEF Opens
<1>2. Spec => [][Opens]_vars
  BY <1>1, ProtectionAlways, PTL DEF Spec
<1> QED
  BY <1>2 DEF Opens, OpensForPresentPin

-----------------------------------------------------------------------------
(***************************************************************************)
(* What the policy of the PIN (PinPolicy) promises for every limit and     *)
(* every length of a lock, on any run of the clocks: no more wrong answers *)
(* than the limit are told before a lock was served, and a lock is served  *)
(* neither too briefly nor too long.                                       *)
(*                                                                         *)
(* The argument is about one number, the second of the boot at which the   *)
(* stored lock ends.  A stored lock is whole: its deadline is its last     *)
(* sample plus its budget.  A transaction at a newer sample of the same    *)
(* boot keeps that deadline; the first transaction of another boot gives   *)
(* the lock a deadline no earlier than its budget counted from the start,  *)
(* whether or not it can tell that the boot is another.  A sample older    *)
(* than the stored one can only come from an abandoned countdown, and that *)
(* is what the history "overtaken" records.                                *)
(***************************************************************************)


(* The callers of the policy, the samples they take, and their steps.      *)
Routes == {"login", "code", "ask"}
Samples == [now : Nat, up : Nat, boot : Nat]
Steps == {"idle", "read", "verify", "wrong", "unlock", "reset"}
(* The steps at which a route still writes with the sample it took. *)
Holding == {"read", "wrong", "unlock"}

(* The values of the lock column: none, one of an earlier version, and     *)
NoLocks == [kind : {"none"}]
WallLocks == [kind : {"wall"}, at : Int]
(* A stored lock ends its budget after the sample it was stored at. *)
Locks == {l \in [kind : {"lock"}, deadline : Int, last : Nat, budget : 1..LockSeconds, boot : Nat] :
            l.deadline = l.last + l.budget}
(* The values of the history, the clocks and the row.                      *)
Histories == [wrong : Nat, serve : 0..LockSeconds, since : Nat, met : BOOLEAN, overtaken : BOOLEAN]
Clocks == [now : Nat, up : Nat, boot : Nat \ {0}, told : BOOLEAN]
Rows == [failed : 0..(Limit + 2), until : NoLocks \cup WallLocks \cup Locks]

(* The token of the present boot, as a sample records it. *)
Token == IF clock.told THEN clock.boot ELSE Unknown

(* Every variable has its type.                                            *)
PinTypes ==
    /\ attempts \in Rows
    /\ clock \in Clocks
    /\ task \in [Routes -> [pc : Steps, s : Samples \cup {NoSample}]]
    /\ stray \in Samples \cup {NoSample}
    /\ open \in BOOLEAN
    /\ truth \in Histories

(* A sample of this boot, taken at some second up to the one of clock c. *)
TakenBy(s, c) ==
    /\ s \in Samples /\ s.boot = (IF c.told THEN c.boot ELSE Unknown) /\ s.up <= c.up
    /\ c.now - s.now = c.up - s.up
(* A sample of this boot, by now.                                          *)
Taken(s) == TakenBy(s, clock)

(* One check of a PIN at a time; its sample is no older than an abandoned  *)
(* countdown's and than the one stored in this boot.                       *)
Held ==
    /\ \A t, u \in Routes : task[t].pc # "idle" /\ task[u].pc # "idle" => t = u
    /\ \A t \in Routes : task[t].pc = "idle" => task[t] = AtRest
    /\ stray # NoSample => Taken(stray)
    /\ \A t \in Routes : task[t].pc \in Holding =>
         /\ Taken(task[t].s)
         /\ stray # NoSample => stray.up <= task[t].s.up
         /\ attempts.until.kind = "lock" /\ truth.met => attempts.until.last <= task[t].s.up

(* The stored lock, when a transaction of this boot has met it, and when   *)
(* none has: it then comes from an earlier boot.                           *)
Stored ==
    attempts.until.kind = "lock" =>
      /\ truth.met =>
           /\ attempts.until.boot = Token /\ attempts.until.last <= clock.up
           /\ attempts.until.deadline - clock.up <= NotNegative(LockSeconds - truth.since)
      /\ ~truth.met =>
           /\ IF clock.told THEN attempts.until.boot \in 1..(clock.boot - 1) ELSE attempts.until.boot = Unknown
           /\ truth.since <= clock.up /\ (~clock.told => truth.since = 0)

(* The second of this boot before which the lock does not end. *)
Ends_(l) == IF truth.met THEN l.deadline ELSE l.budget

(* What the row says of the wrong answers and of the lock to serve. *)
Counts ==
    ~truth.overtaken =>
      /\ truth.wrong <= Limit
      /\ attempts.until.kind = "none" => truth.wrong <= attempts.failed
      /\ attempts.until.kind = "wall" => truth.wrong = 0 /\ attempts.failed = Limit + 2
      /\ attempts.until.kind = "lock" => (truth.serve = 0 => truth.wrong = 0)
      /\ truth.serve > 0 =>
           /\ attempts.until.kind = "lock"
           /\ clock.up + truth.serve <= Ends_(attempts.until)

(* The inductive invariant.                                                *)
PinInv == PinTypes /\ Held /\ Stored /\ Counts

-----------------------------------------------------------------------------
(* What a transaction makes of a row.                                      *)

(* The row with nothing to lock, and the row with a lock of some seconds. *)
Unlocked(failed) == [failed |-> failed, until |-> NoLock, left |-> 0]
LockedFor(s, seconds) == [failed |-> Limit, until |-> Armed(s, seconds), left |-> seconds]

(* A lock armed at a sample is whole. *)
LEMMA ArmedWhole ==
  ASSUME NEW s \in Samples, NEW n \in 1..LockSeconds
  PROVE  /\ Armed(s, n) \in Locks
         /\ Armed(s, n).kind = "lock" /\ Armed(s, n).deadline = s.up + n
         /\ Armed(s, n).last = s.up /\ Armed(s, n).budget = n /\ Armed(s, n).boot = s.boot
  BY PolicyAssumption DEF Armed, Locks, Samples

(* What is left of a whole lock at a sample. *)
LEMMA LeftOfLock ==
  ASSUME NEW l \in Locks, NEW s \in Samples
  PROVE  /\ Remaining(l, s) \in 0..LockSeconds
         /\ Restarted(l, s) => Remaining(l, s) = NotNegative(l.budget - s.up)
         /\ ~Restarted(l, s) /\ s.up < l.last => Remaining(l, s) = l.budget
         /\ ~Restarted(l, s) /\ s.up >= l.last => Remaining(l, s) = NotNegative(l.deadline - s.up)
  BY PolicyAssumption DEF Locks, Samples, Remaining, NotNegative, AtMost

(* Normalizing a row with a lock arms it for what is left: a deadline that *)
(* is kept is the one that arming it would give.                           *)
LEMMA NormalizedLock ==
  ASSUME NEW row \in Rows, row.until \in Locks, NEW s \in Samples
  PROVE  LET left_ == Remaining(row.until, s) IN
         Normalized(row, s) = IF left_ > 0 THEN LockedFor(s, left_) ELSE Unlocked(0)
<1> DEFINE l == row.until
           left_ == Remaining(l, s)
           moved == l.kind # "lock" \/ Restarted(l, s) \/ s.up < l.last
           lock == IF moved THEN Armed(s, left_) ELSE [Armed(s, left_) EXCEPT !.deadline = l.deadline]
<1>1. l \in Locks /\ l.kind = "lock" /\ left_ \in 0..LockSeconds
  BY LeftOfLock DEF Locks
<1>2. Normalized(row, s) = IF left_ > 0 THEN [failed |-> Limit, until |-> lock, left |-> left_]
                           ELSE Unlocked(0)
  BY <1>1 DEF Normalized, Unlocked
<1>3. ASSUME left_ > 0 PROVE lock = Armed(s, left_)
  <2>1. CASE moved
    BY <2>1
  <2>2. CASE ~moved
    <3>1. l.deadline = s.up + left_
      BY <1>1, <1>3, <2>2, LeftOfLock DEF Locks, Samples, NotNegative
    <3> QED
      BY <2>2, <3>1 DEF Armed
  <2> QED
    BY <2>1, <2>2
<1> HIDE DEF lock
<1> QED
  BY <1>2, <1>3 DEF LockedFor

(* A row without a lock, or with the deadline of an older version, is      *)
(* locked or, when its failures deserve no lock, keeps at most those.      *)
LEMMA NormalizedOther ==
  ASSUME NEW row \in Rows, row.until \notin Locks, NEW s \in Samples
  PROVE  \E left_ \in 0..LockSeconds :
           /\ Normalized(row, s) =
                IF left_ > 0 THEN LockedFor(s, left_)
                ELSE Unlocked(IF row.until.kind = "none" THEN row.failed ELSE 0)
           /\ row.until.kind = "none" /\ left_ = 0 => row.failed < Limit
<1> DEFINE raw == row.until
           left_ == CASE raw.kind = "lock" -> Remaining(raw, s)
                      [] raw.kind = "wall" /\ raw.at > s.now -> AtMost(LockSeconds, raw.at - s.now)
                      [] OTHER -> IF DeservesLock(row) THEN LockSeconds ELSE 0
           moved == raw.kind # "lock" \/ Restarted(raw, s) \/ s.up < raw.last
           lock == IF moved THEN Armed(s, left_) ELSE [Armed(s, left_) EXCEPT !.deadline = raw.deadline]
<1>1. raw \in NoLocks \/ raw \in WallLocks
  BY DEF Rows
<1>2. raw.kind \in {"none", "wall"} /\ row.failed \in 0..(Limit + 2)
      /\ (raw.kind = "wall" => raw.at \in Int)
  BY <1>1 DEF NoLocks, WallLocks, Rows
<1>3. left_ \in 0..LockSeconds
  BY <1>2, PolicyAssumption DEF AtMost, Samples
<1>4. lock = Armed(s, left_)
  BY <1>2
<1>5. Normalized(row, s) =
        IF left_ > 0 THEN [failed |-> Limit, until |-> lock, left |-> left_]
        ELSE IF raw.kind = "none" THEN Unlocked(row.failed) ELSE Unlocked(0)
  BY DEF Normalized, Unlocked
<1>6. raw.kind = "none" /\ left_ = 0 => row.failed < Limit
  BY <1>2, PolicyAssumption DEF DeservesLock
<1> HIDE DEF left_, lock
<1>7. Normalized(row, s) = IF left_ > 0 THEN LockedFor(s, left_)
                           ELSE Unlocked(IF raw.kind = "none" THEN row.failed ELSE 0)
  BY <1>4, <1>5 DEF LockedFor
<1> QED
  BY <1>3, <1>6, <1>7

(* Does a transaction at this sample write an older one than is stored? *)
Older(s) == attempts.until.kind = "lock" /\ truth.met /\ s.up < attempts.until.last

(* The seconds a lock lasts from the one it was armed at, less those that  *)
(* passed since.                                                           *)
Rest(s, seconds) == NotNegative(seconds - (clock.now - s.now))

(* The history u that a lock of n seconds to serve makes of t. *)
Served(u, t, s, n) ==
    /\ u \in Histories
    /\ u.serve = Rest(s, n) /\ u.since = clock.now - s.now /\ u.met = TRUE
    /\ u.overtaken = t.overtaken
    /\ u.wrong = IF Rest(s, n) = 0 THEN 0 ELSE IF t.wrong < Limit THEN Limit ELSE t.wrong

(* Serve begins a lock at its sample. *)
LEMMA ServeIs ==
  ASSUME PinTypes, NEW t \in Histories, NEW s, Taken(s), NEW n \in 1..LockSeconds
  PROVE  Served(Serve(t, s.now, n), t, s, n)
<1> DEFINE rest == Rest(s, n)
           wrong == IF rest = 0 THEN 0 ELSE IF t.wrong < Limit THEN Limit ELSE t.wrong
<1>1. Serve(t, s.now, n) = [t EXCEPT !.wrong = wrong, !.serve = rest, !.since = clock.now - s.now,
                                     !.met = TRUE]
  BY DEF Serve, Rest
<1>2. rest \in 0..LockSeconds /\ clock.now - s.now \in Nat
  BY PolicyAssumption DEF Rest, NotNegative, Taken, TakenBy, PinTypes, Clocks, Histories, Samples
<1>3. wrong \in Nat
  BY PolicyAssumption DEF Histories
<1> HIDE DEF rest, wrong
<1>4. LET u == Serve(t, s.now, n) IN
      /\ u \in Histories
      /\ u.serve = rest /\ u.since = clock.now - s.now /\ u.met = TRUE
      /\ u.overtaken = t.overtaken /\ u.wrong = wrong
  BY <1>1, <1>2, <1>3 DEF Histories
<1> QED
  BY <1>4 DEF rest, wrong, Served

(* The four things a transaction does: it stores the lock that the row     *)
(* still holds or deserves, it stores that there is none, it counts the    *)
(* failure that locks, or it counts one failure more.                      *)
Effect(s, failure, t) ==
    /\ t \in Histories
    /\ t.wrong = IF attempts.until.kind = "wall" THEN 0 ELSE truth.wrong
    /\ t.serve = truth.serve /\ t.since = truth.since /\ t.met = TRUE
    /\ t.overtaken = (truth.overtaken \/ (Older(s) /\ stray = s))
    /\ LET n == Normalized(attempts, s) IN
       \/ /\ n.left > 0
          /\ attempts' = [failed |-> Limit, until |-> Armed(s, n.left)]
          /\ truth' = IF attempts.until.kind # "lock" THEN Serve(t, s.now, n.left) ELSE t
       \/ /\ n.left = 0 /\ ~failure
          /\ attempts' = [failed |-> n.failed, until |-> NoLock]
          /\ truth' = t
       \/ /\ n.left = 0 /\ failure /\ n.failed + 1 >= Limit
          /\ attempts' = [failed |-> Limit, until |-> Armed(s, LockSeconds)]
          /\ truth' = Serve([t EXCEPT !.wrong = @ + 1], s.now, LockSeconds)
       \/ /\ n.left = 0 /\ failure /\ n.failed + 1 < Limit
          /\ attempts' = [failed |-> n.failed + 1, until |-> NoLock]
          /\ truth' = [t EXCEPT !.wrong = @ + 1]

(* Written has one of those effects, on the history of a transaction. *)
LEMMA WrittenIs ==
  ASSUME PinTypes, NEW s, Taken(s), NEW failure \in BOOLEAN, Written(s, failure)
  PROVE  \E t : Effect(s, failure, t)
<1> DEFINE n == Normalized(attempts, s)
           c == Counted(attempts, s, failure)
           over == truth.overtaken \/ (attempts.until.kind = "lock" /\ truth.met
                                        /\ s.up < attempts.until.last /\ stray = s)
           wrong == IF attempts.until.kind = "wall" THEN 0 ELSE truth.wrong
           t == [truth EXCEPT !.met = TRUE, !.wrong = wrong, !.overtaken = over]
<1>1. /\ attempts' = Row(c)
      /\ truth' = IF attempts.until.kind # "lock" /\ n.left > 0 THEN Serve(t, s.now, c.left)
                  ELSE IF ~failure \/ n.left > 0 THEN t
                  ELSE IF c.left > 0 THEN Serve([t EXCEPT !.wrong = @ + 1], s.now, LockSeconds)
                  ELSE [t EXCEPT !.wrong = @ + 1]
  BY DEF Written
<1>2. wrong \in Nat /\ over \in BOOLEAN
  BY DEF PinTypes, Histories
<1> HIDE DEF wrong, over
<1>3. /\ t \in Histories
      /\ t.wrong = wrong /\ t.serve = truth.serve /\ t.since = truth.since /\ t.met = TRUE
      /\ t.overtaken = over
  BY <1>2 DEF PinTypes, Histories
<1> HIDE DEF t
<1>4. \/ \E k \in 1..LockSeconds : n = LockedFor(s, k)
      \/ \E f \in 0..(Limit + 2) : n = Unlocked(f)
  <2>1. s \in Samples /\ attempts \in Rows /\ 0 \in 0..(Limit + 2)
    BY PolicyAssumption DEF PinTypes, Histories, Taken, TakenBy
  <2>2. CASE attempts.until \in Locks
    <3>1. Remaining(attempts.until, s) \in 0..LockSeconds
      BY <2>1, <2>2, LeftOfLock
    <3> QED
      BY <2>1, <2>2, <3>1, NormalizedLock
  <2>3. CASE attempts.until \notin Locks
    <3>1. attempts.failed \in 0..(Limit + 2)
      BY <2>1 DEF Rows
    <3> QED
      BY <2>1, <2>3, <3>1, NormalizedOther
  <2> QED
    BY <2>2, <2>3
<1>5. LET m == Normalized(attempts, s) IN
      \/ /\ m.left > 0
         /\ attempts' = [failed |-> Limit, until |-> Armed(s, m.left)]
         /\ truth' = IF attempts.until.kind # "lock" THEN Serve(t, s.now, m.left) ELSE t
      \/ /\ m.left = 0 /\ ~failure
         /\ attempts' = [failed |-> m.failed, until |-> NoLock]
         /\ truth' = t
      \/ /\ m.left = 0 /\ failure /\ m.failed + 1 >= Limit
         /\ attempts' = [failed |-> Limit, until |-> Armed(s, LockSeconds)]
         /\ truth' = Serve([t EXCEPT !.wrong = @ + 1], s.now, LockSeconds)
      \/ /\ m.left = 0 /\ failure /\ m.failed + 1 < Limit
         /\ attempts' = [failed |-> m.failed + 1, until |-> NoLock]
         /\ truth' = [t EXCEPT !.wrong = @ + 1]
  <2>1. CASE \E k \in 1..LockSeconds : n = LockedFor(s, k)
    <3>1. n.left > 0 /\ n.failed = Limit /\ n.until = Armed(s, n.left)
      BY <2>1, PolicyAssumption DEF LockedFor
    <3>2. c = n
      BY <3>1 DEF Counted
    <3> HIDE DEF n, c
    <3> QED
      BY <1>1, <3>1, <3>2 DEF Row, n
  <2>2. CASE \E f \in 0..(Limit + 2) : n = Unlocked(f)
    <3>1. PICK f \in 0..(Limit + 2) : n = Unlocked(f)
      BY <2>2
    <3>2. n.left = 0 /\ n.failed = f /\ n.until = NoLock
      BY <3>1 DEF Unlocked
    <3>3. CASE ~failure
      <4>1. c = n
        BY <3>3 DEF Counted
      <4> HIDE DEF n, c
      <4> QED
        BY <1>1, <3>2, <3>3, <4>1 DEF Row, n
    <3>4. CASE failure /\ f + 1 >= Limit
      <4>1. c = [failed |-> Limit, until |-> Armed(s, LockSeconds), left |-> LockSeconds]
        BY <3>2, <3>4 DEF Counted
      <4> HIDE DEF n, c
      <4> QED
        BY <1>1, <3>2, <3>4, <4>1, PolicyAssumption DEF Row, n
    <3>5. CASE failure /\ f + 1 < Limit
      <4>1. c = [n EXCEPT !.failed = @ + 1]
        BY <3>2, <3>5, PolicyAssumption DEF Counted
      <4>2. c = Unlocked(f + 1)
        BY <3>1, <4>1 DEF Unlocked
      <4>3. c.left = 0 /\ c.failed = f + 1 /\ c.until = NoLock
        BY <4>2 DEF Unlocked
      <4> HIDE DEF n, c
      <4> QED
        BY <1>1, <3>2, <3>5, <4>3 DEF Row, n
    <3> QED
      BY <3>3, <3>4, <3>5, PolicyAssumption
  <2> QED
    BY <1>4, <2>1, <2>2
<1> QED
  BY <1>3, <1>5 DEF wrong, over, Effect, Older

-----------------------------------------------------------------------------
(* A transaction keeps the invariant.                                      *)

(* The end that a transaction gives a stored lock: not later than it may   *)
(* last, and, unless the sample is older, not before its own end.          *)
LEMMA LockMet ==
  ASSUME PinTypes, Stored, attempts.until.kind = "lock", NEW s, Taken(s)
  PROVE  LET left_ == Remaining(attempts.until, s) IN
         /\ left_ \in 0..LockSeconds
         /\ left_ > 0 => s.up + left_ - clock.up <= NotNegative(LockSeconds - truth.since)
         /\ ~Older(s) => /\ left_ > 0 => Ends_(attempts.until) <= s.up + left_
                         /\ left_ = 0 => Ends_(attempts.until) <= clock.up
<1> DEFINE l == attempts.until
           left_ == Remaining(l, s)
<1>1. l \in Locks /\ s \in Samples /\ s.up \in Nat /\ s.up <= clock.up /\ s.boot = Token
  BY DEF PinTypes, Histories, Rows, NoLocks, WallLocks, Taken, TakenBy, Token, Samples
<1>2. /\ l.deadline = l.last + l.budget /\ l.last \in Nat /\ l.budget \in 1..LockSeconds
      /\ l.boot \in Nat
  BY <1>1 DEF Locks
<1>3. clock.up \in Nat /\ truth.since \in Nat /\ clock.boot \in Nat \ {0}
      /\ clock.told \in BOOLEAN /\ truth.met \in BOOLEAN /\ LockSeconds \in Nat
  BY PolicyAssumption DEF PinTypes, Clocks, Histories
<1>4. /\ left_ \in 0..LockSeconds
      /\ Restarted(l, s) => left_ = NotNegative(l.budget - s.up)
      /\ ~Restarted(l, s) /\ s.up < l.last => left_ = l.budget
      /\ ~Restarted(l, s) /\ s.up >= l.last => left_ = NotNegative(l.deadline - s.up)
  BY <1>1, LeftOfLock
<1>5. CASE truth.met
  <2>1. /\ l.boot = Token
        /\ l.deadline - clock.up <= NotNegative(LockSeconds - truth.since)
    BY <1>5 DEF Stored
  <2>2. Restarted(l, s) => s.up < l.last
    BY <1>1, <1>3, <2>1 DEF Restarted, ChangedBoot, Token, Unknown
  <2>3. Older(s) <=> s.up < l.last
    BY <1>5 DEF Older
  <2>4. Ends_(l) = l.deadline
    BY <1>5 DEF Ends_
  <2> HIDE DEF l, left_
  <2>5. left_ > 0 => s.up + left_ <= l.deadline
    BY <1>1, <1>2, <1>3, <1>4, <2>2 DEF NotNegative
  <2>6. /\ left_ > 0 => s.up + left_ - clock.up <= NotNegative(LockSeconds - truth.since)
        /\ ~Older(s) => /\ left_ > 0 => Ends_(l) <= s.up + left_
                        /\ left_ = 0 => Ends_(l) <= clock.up
    BY <1>1, <1>2, <1>3, <1>4, <2>1, <2>2, <2>3, <2>4, <2>5 DEF NotNegative
  <2> QED
    BY <1>4, <2>6 DEF l, left_
<1>6. CASE ~truth.met
  <2>1. /\ IF clock.told THEN l.boot \in 1..(clock.boot - 1) ELSE l.boot = Unknown
        /\ truth.since <= clock.up /\ (~clock.told => truth.since = 0)
    BY <1>6 DEF Stored
  <2>2. /\ clock.told => Restarted(l, s)
        /\ ~clock.told => (Restarted(l, s) <=> s.up < l.last)
    BY <1>1, <1>3, <2>1 DEF Restarted, ChangedBoot, Token, Unknown
  <2>3. Ends_(l) = l.budget
    BY <1>6 DEF Ends_
  <2> HIDE DEF l, left_
  <2>4. /\ left_ > 0 => s.up + left_ - clock.up <= NotNegative(LockSeconds - truth.since)
        /\ left_ > 0 => Ends_(l) <= s.up + left_
        /\ left_ = 0 => Ends_(l) <= clock.up
    BY <1>1, <1>2, <1>3, <1>4, <2>1, <2>2, <2>3 DEF NotNegative
  <2> QED
    BY <1>4, <2>4 DEF l, left_
<1> QED
  BY <1>5, <1>6

(* What the row and the history are after a transaction at a sample. *)
Rewritten(s) ==
    /\ attempts' \in Rows
    /\ truth' \in Histories
    /\ truth'.met = TRUE
    /\ attempts'.until.kind = "lock" => attempts'.until.last = s.up
    /\ Stored'
    /\ Counts'

(* A row without a lock, after which nothing is left to serve. *)
LEMMA NoLockWritten ==
  ASSUME PinTypes, NEW s, Taken(s), UNCHANGED clock,
         NEW f \in 0..(Limit + 2), attempts' = [failed |-> f, until |-> NoLock],
         truth' \in Histories,
         truth'.met = TRUE,
         truth'.overtaken \/ (truth'.serve = 0 /\ truth'.wrong <= f /\ truth'.wrong <= Limit)
  PROVE  Rewritten(s)
<1>1. attempts'.until.kind = "none" /\ attempts'.failed = f
  BY DEF NoLock
<1>2. attempts' \in Rows
  BY DEF NoLock, NoLocks, Rows
<1>3. Stored'
  BY <1>1 DEF Stored
<1>4. Counts'
  BY <1>1, PolicyAssumption DEF Counts
<1> QED
  BY <1>1, <1>2, <1>3, <1>4 DEF Rewritten

(* A row with a lock armed at the sample. *)
LEMMA LockWritten ==
  ASSUME PinTypes, NEW s, Taken(s), UNCHANGED clock,
         NEW n \in 1..LockSeconds, attempts' = [failed |-> Limit, until |-> Armed(s, n)],
         truth' \in Histories,
         truth'.met = TRUE,
         s.up + n - clock.up <= NotNegative(LockSeconds - truth'.since),
         \/ truth'.overtaken
         \/ /\ truth'.wrong <= Limit
            /\ truth'.serve = 0 => truth'.wrong = 0
            /\ truth'.serve > 0 => clock.up + truth'.serve <= s.up + n
  PROVE  Rewritten(s)
<1> DEFINE k == Armed(s, n)
<1>1. s \in Samples /\ s.up <= clock.up /\ s.boot = Token
  BY DEF Taken, TakenBy, Token
<1>2. /\ k \in Locks /\ k.kind = "lock" /\ k.deadline = s.up + n /\ k.last = s.up
      /\ k.boot = Token
  BY <1>1, ArmedWhole
<1>3. attempts'.until = k /\ attempts'.failed = Limit
  OBVIOUS
<1> HIDE DEF k
<1>4. attempts' \in Rows
  BY <1>2, PolicyAssumption DEF Rows, k
<1>5. Token' = Token
  BY DEF Token
<1>6. Stored'
  <2>1. /\ attempts'.until.boot = Token' /\ attempts'.until.last <= clock'.up /\ truth'.met = TRUE
        /\ attempts'.until.deadline - clock'.up <= NotNegative(LockSeconds - truth'.since)
    <3>1. clock'.up = clock.up
      OBVIOUS
    <3>2. k.deadline - clock'.up <= NotNegative(LockSeconds - truth'.since)
      <4>1. s.up \in Nat /\ clock.up \in Nat /\ s.up + n \in Int
        BY <1>1, PolicyAssumption DEF PinTypes, Clocks, Samples
      <4> QED
        BY <1>2, <3>1, <4>1
    <3> QED
      BY <1>1, <1>2, <1>3, <1>5, <3>1, <3>2
  <2> HIDE DEF Token
  <2> QED
    BY <2>1 DEF Stored
<1>7. Counts'
  BY <1>2, <1>3 DEF Counts, Ends_
<1> QED
  BY <1>2, <1>3, <1>4, <1>6, <1>7 DEF Rewritten

(* A transaction at a sample that is not older than the stored one, unless *)
(* it is an abandoned countdown's, leaves a row that is sound.             *)
LEMMA WrittenSafe ==
  ASSUME PinTypes, Stored, Counts, NEW s, Taken(s), NEW failure \in BOOLEAN,
         Older(s) => stray = s, Written(s, failure), UNCHANGED clock
  PROVE  Rewritten(s)
<1> DEFINE n == Normalized(attempts, s)
<1>1. PICK t : Effect(s, failure, t)
  BY WrittenIs
<1>2. /\ s \in Samples /\ attempts \in Rows /\ s.up \in Nat /\ s.now \in Nat /\ s.up <= clock.up
      /\ clock.up \in Nat /\ clock.now \in Nat /\ clock.now - s.now = clock.up - s.up
      /\ attempts.failed \in 0..(Limit + 2) /\ Limit \in Nat \ {0} /\ LockSeconds \in Nat \ {0}
  BY PolicyAssumption DEF PinTypes, Clocks, Histories, Taken, TakenBy, Samples, Rows
<1>3. /\ t \in Histories
      /\ t.wrong = IF attempts.until.kind = "wall" THEN 0 ELSE truth.wrong
      /\ t.serve = truth.serve /\ t.since = truth.since /\ t.met = TRUE
      /\ t.overtaken = (truth.overtaken \/ Older(s))
  BY <1>1 DEF Effect
<1>4. attempts.until.kind = "lock" <=> attempts.until \in Locks
  BY <1>2 DEF Rows, NoLocks, WallLocks, Locks
<1>5. CASE attempts.until.kind = "lock" /\ n.left > 0
  <2> DEFINE left_ == Remaining(attempts.until, s)
  <2>1. /\ left_ \in 0..LockSeconds
        /\ left_ > 0 => s.up + left_ - clock.up <= NotNegative(LockSeconds - truth.since)
        /\ ~Older(s) => /\ left_ > 0 => Ends_(attempts.until) <= s.up + left_
                        /\ left_ = 0 => Ends_(attempts.until) <= clock.up
    BY <1>5, LockMet
  <2>2. n = IF left_ > 0 THEN LockedFor(s, left_) ELSE Unlocked(0)
    BY <1>2, <1>4, <1>5, NormalizedLock
  <2> HIDE DEF left_
  <2>3. n.left = left_
    BY <1>5, <2>1, <2>2 DEF LockedFor, Unlocked
  <2> HIDE DEF n
  <2>4. /\ attempts' = [failed |-> Limit, until |-> Armed(s, left_)] /\ truth' = t
        /\ left_ \in 1..LockSeconds
    BY <1>1, <1>2, <1>5, <2>1, <2>3 DEF n, Effect
  <2>5. \/ t.overtaken
        \/ /\ t.wrong <= Limit
           /\ t.serve = 0 => t.wrong = 0
           /\ t.serve > 0 => clock.up + t.serve <= s.up + left_
    <3>1. CASE t.overtaken
      BY <3>1
    <3>2. CASE ~t.overtaken
      <4>1. /\ truth.wrong <= Limit /\ truth.serve \in Nat
            /\ truth.serve = 0 => truth.wrong = 0
            /\ truth.serve > 0 => clock.up + truth.serve <= Ends_(attempts.until)
        BY <1>3, <1>5, <3>2 DEF Counts, PinTypes, Histories
      <4>2. Ends_(attempts.until) \in Int /\ Ends_(attempts.until) <= s.up + left_
        <5>1. Ends_(attempts.until) \in Int
          BY <1>4, <1>5 DEF Ends_, Locks
        <5>2. ~Older(s)
          BY <1>3, <3>2
        <5> QED
          BY <2>1, <2>4, <5>1, <5>2
      <4> QED
        BY <1>3, <1>2, <1>5, <2>4, <4>1, <4>2
    <3> QED
      BY <3>1, <3>2
  <2>6. s.up + left_ - clock.up <= NotNegative(LockSeconds - t.since)
    BY <1>3, <2>1, <2>4
  <2> QED
    BY <1>3, <2>4, <2>5, <2>6, LockWritten
<1>6. CASE attempts.until.kind # "lock" /\ n.left > 0
  <2>1. PICK k \in 0..LockSeconds : n = IF k > 0 THEN LockedFor(s, k)
                        ELSE Unlocked(IF attempts.until.kind = "none" THEN attempts.failed ELSE 0)
    BY <1>2, <1>4, <1>6, NormalizedOther
  <2>2. n.left = k /\ k \in 1..LockSeconds
    BY <1>6, <2>1 DEF LockedFor, Unlocked
  <2> HIDE DEF n
  <2>3. attempts' = [failed |-> Limit, until |-> Armed(s, k)] /\ truth' = Serve(t, s.now, k)
    BY <1>1, <1>2, <1>6, <2>2 DEF n, Effect
  <2>4. /\ truth' \in Histories
        /\ truth'.serve = Rest(s, k) /\ truth'.since = clock.now - s.now /\ truth'.met = TRUE
        /\ truth'.overtaken = t.overtaken
        /\ truth'.wrong = IF Rest(s, k) = 0 THEN 0 ELSE IF t.wrong < Limit THEN Limit ELSE t.wrong
    <3>1. Served(Serve(t, s.now, k), t, s, k)
      BY <1>3, <2>2, ServeIs
    <3> QED
      BY <2>3, <3>1 DEF Served
  <2>5. s.up + k - clock.up <= NotNegative(LockSeconds - truth'.since)
    BY <1>2, <2>2, <2>4 DEF NotNegative
  <2>6. t.overtaken \/ t.wrong <= Limit
    BY <1>2, <1>3 DEF Counts
  <2>7. \/ truth'.overtaken
        \/ /\ truth'.wrong <= Limit
           /\ truth'.serve = 0 => truth'.wrong = 0
           /\ truth'.serve > 0 => clock.up + truth'.serve <= s.up + k
    BY <1>3, <1>2, <2>2, <2>4, <2>6 DEF Rest, NotNegative
  <2> QED
    BY <2>2, <2>3, <2>4, <2>5, <2>7, LockWritten
<1>7. ASSUME n.left = 0
      PROVE  /\ n.failed \in 0..(Limit + 2)
             /\ \/ t.overtaken
                \/ t.serve = 0 /\ t.wrong <= n.failed /\ t.wrong < Limit
  <2>1. CASE attempts.until.kind = "lock"
    <3> DEFINE left_ == Remaining(attempts.until, s)
    <3>1. /\ left_ \in 0..LockSeconds
          /\ ~Older(s) => (left_ = 0 => Ends_(attempts.until) <= clock.up)
      BY <2>1, LockMet
    <3>2. n = IF left_ > 0 THEN LockedFor(s, left_) ELSE Unlocked(0)
      BY <1>2, <1>4, <2>1, NormalizedLock
    <3> HIDE DEF left_
    <3>3. left_ = 0 /\ n.failed = 0
      BY <1>7, <3>1, <3>2 DEF LockedFor, Unlocked
    <3>4. CASE t.overtaken
      BY <1>2, <3>3, <3>4
    <3>5. CASE ~t.overtaken
      <4>1. /\ truth.serve \in Nat
            /\ truth.serve = 0 => truth.wrong = 0
            /\ truth.serve > 0 => clock.up + truth.serve <= Ends_(attempts.until)
        BY <1>3, <2>1, <3>5 DEF Counts, PinTypes, Histories
      <4>2. Ends_(attempts.until) \in Int /\ Ends_(attempts.until) <= clock.up
        <5>1. Ends_(attempts.until) \in Int
          BY <1>4, <2>1 DEF Ends_, Locks
        <5> QED
          BY <1>3, <3>1, <3>3, <3>5, <5>1
      <4> QED
        BY <1>3, <1>2, <2>1, <3>3, <4>1, <4>2
    <3> QED
      BY <3>4, <3>5
  <2>2. CASE attempts.until.kind # "lock"
    <3>1. PICK k \in 0..LockSeconds :
            /\ n = IF k > 0 THEN LockedFor(s, k)
                   ELSE Unlocked(IF attempts.until.kind = "none" THEN attempts.failed ELSE 0)
            /\ attempts.until.kind = "none" /\ k = 0 => attempts.failed < Limit
      BY <1>2, <1>4, <2>2, NormalizedOther
    <3>2. k = 0 /\ n.failed = IF attempts.until.kind = "none" THEN attempts.failed ELSE 0
      BY <1>7, <3>1 DEF LockedFor, Unlocked
    <3> HIDE DEF n
    <3>3. attempts.until.kind \in {"none", "wall"}
      BY <1>2, <2>2 DEF Rows, NoLocks, WallLocks, Locks
    <3>4. truth.overtaken \/ (truth.serve = 0
                               /\ (attempts.until.kind = "none" => truth.wrong <= attempts.failed))
      BY <2>2 DEF Counts, PinTypes, Histories
    <3> QED
      BY <1>2, <1>3, <3>1, <3>2, <3>3, <3>4 DEF PinTypes, Histories
  <2> QED
    BY <2>1, <2>2
<1>8. CASE n.left = 0 /\ ~failure
  <2> HIDE DEF n
  <2>1. attempts' = [failed |-> n.failed, until |-> NoLock] /\ truth' = t
    BY <1>1, <1>2, <1>7, <1>8 DEF n, Effect
  <2> QED
    <3>1. truth'.overtaken \/ (truth'.serve = 0 /\ truth'.wrong <= n.failed /\ truth'.wrong <= Limit)
      BY <1>2, <1>3, <1>7, <1>8, <2>1 DEF Histories
    <3> QED
      BY <1>3, <1>7, <1>8, <2>1, <3>1, NoLockWritten
<1>9. CASE n.left = 0 /\ failure /\ n.failed + 1 >= Limit
  <2> DEFINE u == [t EXCEPT !.wrong = @ + 1]
  <2> HIDE DEF n
  <2>1. /\ attempts' = [failed |-> Limit, until |-> Armed(s, LockSeconds)]
        /\ truth' = Serve(u, s.now, LockSeconds)
    BY <1>1, <1>2, <1>7, <1>9 DEF n, Effect
  <2>2. /\ u \in Histories
        /\ u.wrong = t.wrong + 1 /\ u.overtaken = t.overtaken
    BY <1>3 DEF Histories
  <2> HIDE DEF u
  <2>3. /\ truth' \in Histories
        /\ truth'.serve = Rest(s, LockSeconds) /\ truth'.since = clock.now - s.now
        /\ truth'.met = TRUE /\ truth'.overtaken = u.overtaken
        /\ truth'.wrong = IF Rest(s, LockSeconds) = 0 THEN 0
                          ELSE IF u.wrong < Limit THEN Limit ELSE u.wrong
    <3>1. Served(Serve(u, s.now, LockSeconds), u, s, LockSeconds)
      BY <1>2, <2>2, ServeIs
    <3> QED
      BY <2>1, <3>1 DEF Served
  <2>4. s.up + LockSeconds - clock.up <= NotNegative(LockSeconds - truth'.since)
    BY <1>2, <2>3 DEF NotNegative
  <2>5. \/ truth'.overtaken
        \/ /\ truth'.wrong <= Limit
           /\ truth'.serve = 0 => truth'.wrong = 0
           /\ truth'.serve > 0 => clock.up + truth'.serve <= s.up + LockSeconds
    BY <1>3, <1>2, <1>7, <1>9, <2>2, <2>3 DEF Rest, NotNegative, Histories
  <2>6. LockSeconds \in 1..LockSeconds
    BY <1>2
  <2> QED
    BY <2>1, <2>3, <2>4, <2>5, <2>6, LockWritten
<1>10. CASE n.left = 0 /\ failure /\ n.failed + 1 < Limit
  <2> HIDE DEF n
  <2>1. /\ attempts' = [failed |-> n.failed + 1, until |-> NoLock]
        /\ truth' = [t EXCEPT !.wrong = @ + 1]
    BY <1>1, <1>2, <1>7, <1>10 DEF n, Effect
  <2>2. /\ truth' \in Histories
        /\ truth'.wrong = t.wrong + 1 /\ truth'.overtaken = t.overtaken /\ truth'.met = TRUE
        /\ truth'.serve = t.serve
    BY <1>3, <2>1 DEF Histories
  <2>3. n.failed + 1 \in 0..(Limit + 2)
    BY <1>2, <1>7, <1>10
  <2>4. truth'.overtaken \/ (truth'.serve = 0 /\ truth'.wrong <= n.failed + 1
                              /\ truth'.wrong <= Limit)
    BY <1>3, <1>2, <1>7, <1>10, <2>2 DEF Histories
  <2> QED
    BY <2>1, <2>2, <2>3, <2>4, NoLockWritten
<1>11. \/ n.left > 0
       \/ n.left = 0 /\ ~failure
       \/ n.left = 0 /\ failure /\ n.failed + 1 >= Limit
       \/ n.left = 0 /\ failure /\ n.failed + 1 < Limit
  BY <1>1 DEF Effect
<1> QED
  BY <1>5, <1>6, <1>8, <1>9, <1>10, <1>11

-----------------------------------------------------------------------------
(* The steps.                                                              *)

(* A route samples the present second: no stored sample is newer. *)
LEMMA FreshSample ==
  ASSUME PinTypes
  PROVE  Taken(Sample) /\ Sample.up = clock.up /\ Sample \in Samples
  BY DEF PinTypes, Clocks, Taken, TakenBy, Token, Sample, Samples, Unknown

(* Every other route stands still while one works. *)
OthersIdle(t) == \A u \in Routes \ {t} : task[u] = AtRest

(* A route at work is the only one, and so is one that may begin.          *)
LEMMA WorkingAlone ==
  ASSUME PinTypes, Held, NEW t \in Routes, task[t] # AtRest \/ Exclusive
  PROVE  OthersIdle(t)
<1>1. DOMAIN task = Routes
  BY DEF PinTypes
<1>2. CASE Exclusive
  BY <1>1, <1>2 DEF Exclusive, OthersIdle
<1>3. CASE task[t] # AtRest
  BY <1>3 DEF Held, OthersIdle
<1> QED
  BY <1>2, <1>3

(* A route that works alone goes on: what it writes with is a fresh sample *)
(* and then the row stays as it is, or it writes with none.                *)
LEMMA RouteGoes ==
  ASSUME PinTypes, Held, Stored, NEW t \in Routes, OthersIdle(t),
         NEW p \in Steps, NEW x, Goes(t, p, x), p = "idle" => x = NoSample,
         UNCHANGED clock, stray' = stray,
         \/ p \notin Holding /\ x \in Samples \cup {NoSample}
         \/ x = Sample /\ UNCHANGED <<attempts, truth>>
  PROVE  /\ task' \in [Routes -> [pc : Steps, s : Samples \cup {NoSample}]]
         /\ Held'
<1>1. /\ task \in [Routes -> [pc : Steps, s : Samples \cup {NoSample}]]
      /\ x \in Samples \cup {NoSample} /\ stray \in Samples \cup {NoSample}
      /\ Taken(Sample) /\ Sample.up = clock.up
  BY FreshSample DEF PinTypes
<1>2. /\ task' = [task EXCEPT ![t] = [pc |-> p, s |-> x]]
      /\ task'[t] = [pc |-> p, s |-> x]
      /\ \A u \in Routes \ {t} : task'[u] = AtRest
      /\ task' \in [Routes -> [pc : Steps, s : Samples \cup {NoSample}]]
  BY <1>1 DEF Goes, OthersIdle
<1>3. AtRest.pc = "idle" /\ AtRest = [pc |-> "idle", s |-> NoSample] /\ "idle" \notin Holding
  BY DEF AtRest, Holding
<1>4. \A t1, u \in Routes : task'[t1].pc # "idle" /\ task'[u].pc # "idle" => t1 = u
  BY <1>2, <1>3
<1>5. \A u \in Routes : task'[u].pc = "idle" => task'[u] = AtRest
  BY <1>2, <1>3
<1>6. Taken(stray)' <=> Taken(stray)
  BY DEF Taken
<1>7. ASSUME NEW u \in Routes, task'[u].pc \in Holding
      PROVE  /\ TakenBy(task'[u].s, clock')
             /\ stray' # NoSample => stray'.up <= task'[u].s.up
             /\ attempts'.until.kind = "lock" /\ truth'.met => attempts'.until.last <= task'[u].s.up
  <2>1. u = t /\ p \in Holding /\ task'[u].s = x /\ x = Sample /\ UNCHANGED <<attempts, truth>>
    BY <1>2, <1>3, <1>7
  <2>2. TakenBy(Sample, clock')
    BY <1>1 DEF Taken
  <2>3. Sample' = Sample
    BY DEF Sample
  <2>4. stray # NoSample => stray.up <= clock.up
    BY DEF Held, Taken, TakenBy
  <2>5. attempts.until.kind = "lock" /\ truth.met => attempts.until.last <= clock.up
    BY DEF Stored
  <2> HIDE DEF Sample
  <2> QED
    BY <1>1, <2>1, <2>2, <2>3, <2>4, <2>5
<1> QED
  BY <1>2, <1>4, <1>5, <1>6, <1>7 DEF Held, Taken

(* An abandoned countdown writes at its own sample, and the routes at one  *)
(* that is not older than the one stored.                                  *)
LEMMA NotOlder ==
  ASSUME PinTypes, Held, NEW t \in Routes, task[t].pc \in Holding
  PROVE  Taken(task[t].s) /\ ~Older(task[t].s)
<1>1. /\ Taken(task[t].s)
      /\ attempts.until.kind = "lock" /\ truth.met => attempts.until.last <= task[t].s.up
  BY DEF Held
<1>2. task[t].s.up \in Nat
  BY <1>1 DEF Taken, TakenBy, Samples
<1>3. attempts.until.kind = "lock" => attempts.until.last \in Nat
  BY DEF PinTypes, Rows, NoLocks, WallLocks, Locks
<1> QED
  BY <1>1, <1>2, <1>3 DEF Older

(* A route that writes: it ends, or goes on without a sample. *)
LEMMA RouteWrites ==
  ASSUME PinInv, NEW t \in Routes, task[t].pc \in Holding,
         NEW failure \in BOOLEAN, Written(task[t].s, failure),
         Ends(t) \/ \E p \in {"verify", "reset"} : Goes(t, p, NoSample),
         UNCHANGED <<clock, stray, open>>
  PROVE  PinInv'
<1>1. PinTypes /\ Held /\ Stored /\ Counts
  BY DEF PinInv
<1>2. Rewritten(task[t].s)
  BY <1>1, NotOlder, WrittenSafe
<1>3. OthersIdle(t)
  <2>1. task[t] # AtRest
    BY DEF AtRest, Holding
  <2> QED
    BY <1>1, <2>1, WorkingAlone
<1>4. PICK p \in {"idle", "verify", "reset"} : Goes(t, p, NoSample)
  BY DEF Ends, Goes, AtRest
<1>5. p \in Steps /\ p \notin Holding
  BY DEF Steps, Holding
<1>6. task' \in [Routes -> [pc : Steps, s : Samples \cup {NoSample}]] /\ Held'
  BY <1>1, <1>3, <1>4, <1>5, RouteGoes
<1>7. PinTypes'
  BY <1>1, <1>2, <1>6 DEF PinTypes, Rewritten
<1> QED
  BY <1>2, <1>6, <1>7 DEF PinInv, Rewritten

(* A route that takes a sample or ends, and writes nothing. *)
LEMMA RouteOnly ==
  ASSUME PinInv, NEW t \in Routes, task[t] # AtRest \/ Exclusive,
         \/ \E p \in Steps \ {"idle"} : Goes(t, p, Sample)
         \/ Ends(t),
         UNCHANGED <<attempts, clock, stray, open, truth>>
  PROVE  PinInv'
<1>1. PinTypes /\ Held /\ Stored /\ Counts
  BY DEF PinInv
<1>2. PICK p \in Steps, x \in {Sample, NoSample} :
        /\ Goes(t, p, x) /\ (p = "idle" => x = NoSample)
        /\ x = Sample \/ p \notin Holding
  BY DEF Ends, Goes, AtRest, Steps, Holding
<1>3. OthersIdle(t)
  BY <1>1, WorkingAlone
<1>4. x \in Samples \cup {NoSample}
  BY <1>1, FreshSample
<1>5. task' \in [Routes -> [pc : Steps, s : Samples \cup {NoSample}]] /\ Held'
  BY <1>1, <1>2, <1>3, <1>4, RouteGoes
<1>6. PinTypes'
  BY <1>1, <1>5 DEF PinTypes
<1>7. Stored' /\ Counts'
  BY <1>1 DEF Stored, Counts, Token, Ends_
<1> QED
  BY <1>5, <1>6, <1>7 DEF PinInv

(* The counter starts anew: nothing is told and nothing is to be served. *)
LEMMA CounterCleared ==
  ASSUME PinTypes, attempts' = [failed |-> 0, until |-> NoLock],
         truth' = [truth EXCEPT !.wrong = 0, !.serve = 0], UNCHANGED clock
  PROVE  /\ attempts' \in Rows /\ truth' \in Histories
         /\ attempts'.until.kind = "none"
         /\ Stored' /\ Counts'
<1>1. attempts' \in Rows /\ attempts'.until.kind = "none" /\ attempts'.failed = 0
  BY PolicyAssumption DEF Rows, NoLock, NoLocks
<1>2. truth' \in Histories /\ truth'.wrong = 0 /\ truth'.serve = 0
  <2>1. 0 \in Nat /\ 0 \in 0..LockSeconds
    BY PolicyAssumption
  <2>2. truth \in Histories
    BY DEF PinTypes
  <2> QED
    BY <2>1, <2>2 DEF Histories
<1>3. Stored'
  BY <1>1 DEF Stored
<1>4. Counts'
  BY <1>1, <1>2, PolicyAssumption DEF Counts
<1> QED
  BY <1>1, <1>2, <1>3, <1>4

(* Counting from zero after the right PIN keeps the invariant,             *)
LEMMA AttemptsResetSafe ==
  ASSUME PinInv, NEW t \in Routes, AttemptsReset(t)
  PROVE  PinInv'
<1>1. PinTypes /\ Held /\ Stored /\ Counts
  BY DEF PinInv
<1>2. /\ task[t].pc = "reset" /\ Ends(t) /\ UNCHANGED <<clock, stray>>
      /\ open' = (open \/ t = "login")
      /\ attempts' = [failed |-> 0, until |-> NoLock]
      /\ truth' = [truth EXCEPT !.wrong = 0, !.serve = 0]
  BY DEF AttemptsReset
<1>3. attempts' \in Rows /\ truth' \in Histories /\ Stored' /\ Counts'
  BY <1>1, <1>2, CounterCleared
<1>4. OthersIdle(t)
  <2>1. task[t] # AtRest
    BY <1>2 DEF AtRest
  <2> QED
    BY <1>1, <2>1, WorkingAlone
<1>5. Goes(t, "idle", NoSample) /\ "idle" \in Steps /\ "idle" \notin Holding
  BY <1>2 DEF Ends, Goes, AtRest, Steps, Holding
<1>6. task' \in [Routes -> [pc : Steps, s : Samples \cup {NoSample}]] /\ Held'
  BY <1>1, <1>2, <1>4, <1>5, RouteGoes
<1>7. PinTypes'
  BY <1>1, <1>2, <1>3, <1>6 DEF PinTypes
<1> QED
  BY <1>3, <1>6, <1>7 DEF PinInv

(* and so do the replacement of the PIN,                                   *)
LEMMA PinReplacedSafe ==
  ASSUME PinInv, PinReplaced
  PROVE  PinInv'
<1>1. PinTypes /\ Held /\ Stored /\ Counts
  BY DEF PinInv
<1>2. /\ UNCHANGED <<clock, task, stray, open>>
      /\ attempts' = [failed |-> 0, until |-> NoLock]
      /\ truth' = [truth EXCEPT !.wrong = 0, !.serve = 0]
  BY DEF PinReplaced
<1>3. /\ attempts' \in Rows /\ truth' \in Histories /\ Stored' /\ Counts'
      /\ attempts'.until.kind = "none"
  BY <1>1, <1>2, CounterCleared
<1>4. PinTypes'
  BY <1>1, <1>2, <1>3 DEF PinTypes
<1>5. Held'
  BY <1>1, <1>2, <1>3 DEF Held, Taken
<1> QED
  BY <1>3, <1>4, <1>5 DEF PinInv

(* the end of a session,                                                   *)
LEMMA SessionClosesSafe ==
  ASSUME PinInv, SessionCloses
  PROVE  PinInv'
<1>1. UNCHANGED <<attempts, clock, task, stray, truth>> /\ open' \in BOOLEAN
  BY DEF SessionCloses
<1>2. PinTypes' /\ Held' /\ Stored' /\ Counts'
  BY <1>1 DEF PinInv, PinTypes, Held, Taken, Stored, Counts, Token, Ends_
<1> QED
  BY <1>2 DEF PinInv

(* a countdown that is cancelled,                                             *)
LEMMA CountdownCancelledSafe ==
  ASSUME PinInv, CountdownCancelled
  PROVE  PinInv'
<1>1. PinTypes /\ Held /\ Stored /\ Counts
  BY DEF PinInv
<1>2. /\ task["ask"].pc = "read" /\ stray' = task["ask"].s /\ Ends("ask")
      /\ UNCHANGED <<attempts, clock, open, truth>>
  BY DEF CountdownCancelled
<1>3. "ask" \in Routes /\ OthersIdle("ask")
  <2>1. task["ask"] # AtRest /\ "ask" \in Routes
    BY <1>2 DEF AtRest, Routes
  <2> QED
    BY <1>1, <2>1, WorkingAlone
<1>4. /\ \A u \in Routes : task'[u] = AtRest
      /\ task' \in [Routes -> [pc : Steps, s : Samples \cup {NoSample}]]
  <2>1. AtRest \in [pc : Steps, s : Samples \cup {NoSample}]
    BY DEF AtRest, Steps
  <2> QED
    BY <1>1, <1>2, <1>3, <2>1 DEF PinTypes, Ends, OthersIdle
<1>5. Taken(stray')
  BY <1>1, <1>2, <1>3 DEF Held, Holding
<1>6. PinTypes'
  BY <1>1, <1>2, <1>4, <1>5 DEF PinTypes, Taken, TakenBy
<1>7. Held'
  <2>1. AtRest.pc = "idle" /\ "idle" \notin Holding
    BY DEF AtRest, Holding
  <2>2. TakenBy(stray', clock')
    BY <1>2, <1>5 DEF Taken
  <2> QED
    BY <1>4, <2>1, <2>2 DEF Held, Taken
<1>8. Stored' /\ Counts'
  BY <1>1, <1>2 DEF Stored, Counts, Token, Ends_
<1> QED
  BY <1>6, <1>7, <1>8 DEF PinInv

(* and the write of a countdown that was abandoned.                        *)
LEMMA StrayWritesSafe ==
  ASSUME PinInv, StrayWrites
  PROVE  PinInv'
<1>1. PinTypes /\ Held /\ Stored /\ Counts
  BY DEF PinInv
<1>2. /\ stray # NoSample /\ Written(stray, FALSE) /\ stray' = NoSample
      /\ UNCHANGED <<clock, task, open>>
  BY DEF StrayWrites
<1>3. Taken(stray)
  BY <1>1, <1>2 DEF Held
<1>4. Rewritten(stray)
  BY <1>1, <1>2, <1>3, WrittenSafe
<1>5. PinTypes'
  BY <1>1, <1>2, <1>4 DEF PinTypes, Rewritten
<1>6. Held'
  <2>1. attempts'.until.kind = "lock" => attempts'.until.last = stray.up
    BY <1>4 DEF Rewritten
  <2> QED
    BY <1>1, <1>2, <2>1 DEF Held, Taken
<1> QED
  BY <1>4, <1>5, <1>6 DEF PinInv, Rewritten

(* The clock after a second and the clock after a boot. *)
LEMMA ClockTicks ==
  ASSUME NEW c \in Clocks, NEW d, d = [c EXCEPT !.now = @ + 1, !.up = @ + 1]
  PROVE  /\ d \in Clocks /\ d.now = c.now + 1 /\ d.up = c.up + 1
         /\ d.boot = c.boot /\ d.told = c.told
<1> DEFINE e == [c EXCEPT !.up = @ + 1]
<1>1. c.up + 1 \in Nat /\ c.now + 1 \in Nat
  BY DEF Clocks
<1>2. /\ e \in Clocks /\ e.now = c.now /\ e.up = c.up + 1 /\ e.boot = c.boot /\ e.told = c.told
      /\ d = [e EXCEPT !.now = c.now + 1]
  BY <1>1 DEF Clocks
<1> HIDE DEF e
<1> QED
  BY <1>1, <1>2 DEF Clocks

(* The clock of the next boot.                                             *)
LEMMA ClockBoots ==
  ASSUME NEW c \in Clocks, NEW d, d = [c EXCEPT !.up = 0, !.boot = @ + 1]
  PROVE  /\ d \in Clocks /\ d.up = 0 /\ d.boot = c.boot + 1 /\ d.told = c.told
<1> DEFINE e == [c EXCEPT !.up = 0]
<1>1. c.boot + 1 \in Nat \ {0} /\ 0 \in Nat
  BY DEF Clocks
<1>2. /\ e \in Clocks /\ e.up = 0 /\ e.boot = c.boot /\ e.told = c.told
      /\ d = [e EXCEPT !.boot = c.boot + 1]
  BY <1>1 DEF Clocks
<1> HIDE DEF e
<1> QED
  BY <1>1, <1>2 DEF Clocks

(* The passing of a second keeps the invariant,                            *)
LEMMA TickSafe ==
  ASSUME PinInv, Tick
  PROVE  PinInv'
<1>1. PinTypes /\ Held /\ Stored /\ Counts
  BY DEF PinInv
<1> DEFINE serve == NotNegative(truth.serve - 1)
           wrong == IF truth.serve = 1 THEN 0 ELSE truth.wrong
           since == IF clock.told \/ truth.met THEN truth.since + 1 ELSE truth.since
<1>2. /\ UNCHANGED <<attempts, task, stray, open>>
      /\ clock' = [clock EXCEPT !.now = @ + 1, !.up = @ + 1]
      /\ truth' = [truth EXCEPT !.serve = serve, !.wrong = wrong, !.since = since]
  BY DEF Tick
<1>3. /\ clock.now \in Nat /\ clock.up \in Nat /\ clock.boot \in Nat \ {0}
      /\ clock.told \in BOOLEAN /\ truth.met \in BOOLEAN /\ truth.overtaken \in BOOLEAN
      /\ truth.serve \in 0..LockSeconds /\ truth.wrong \in Nat /\ truth.since \in Nat
      /\ LockSeconds \in Nat /\ Limit \in Nat
  BY <1>1, PolicyAssumption DEF PinTypes, Clocks, Histories
<1>4. serve \in 0..LockSeconds /\ wrong \in Nat /\ since \in Nat
  BY <1>3 DEF NotNegative
<1>5. /\ clock'.now = clock.now + 1 /\ clock'.up = clock.up + 1 /\ clock'.boot = clock.boot
      /\ clock'.told = clock.told
      /\ clock' \in Clocks
  BY <1>1, <1>2, ClockTicks DEF PinTypes
<1> HIDE DEF serve, wrong, since
<1>6. /\ truth' \in Histories /\ truth'.serve = serve /\ truth'.wrong = wrong
      /\ truth'.since = since /\ truth'.met = truth.met /\ truth'.overtaken = truth.overtaken
  BY <1>1, <1>2, <1>4 DEF PinTypes, Histories
<1>7. PinTypes'
  BY <1>1, <1>2, <1>5, <1>6 DEF PinTypes
<1>8. \A s : TakenBy(s, clock) => TakenBy(s, clock')
  BY <1>3, <1>5 DEF TakenBy, Samples
<1>9. Held'
  BY <1>1, <1>2, <1>6, <1>8 DEF Held, Taken
<1>10. attempts.until.kind = "lock" => /\ attempts.until.deadline \in Int /\ attempts.until.last \in Nat
                                 /\ attempts.until.budget \in Nat
  BY <1>1 DEF PinTypes, Rows, NoLocks, WallLocks, Locks
<1>11. Stored'
  <2> SUFFICES ASSUME attempts.until.kind = "lock" PROVE Stored'
    BY <1>2 DEF Stored
  <2>1. Token' = Token
    BY <1>5 DEF Token
  <2>2. CASE truth.met
    <3>1. /\ attempts.until.boot = Token /\ attempts.until.last <= clock.up
          /\ attempts.until.deadline - clock.up <= NotNegative(LockSeconds - truth.since)
      BY <1>1, <2>2 DEF Stored
    <3>2. since = truth.since + 1
      BY <2>2 DEF since
    <3>3. attempts.until.last <= clock'.up
      BY <1>3, <1>5, <1>10, <3>1
    <3>4. attempts.until.deadline - clock'.up <= NotNegative(LockSeconds - truth'.since)
      BY <1>3, <1>5, <1>6, <1>10, <3>1, <3>2 DEF NotNegative
    <3> QED
      BY <1>2, <1>6, <2>1, <2>2, <3>1, <3>3, <3>4 DEF Stored
  <2>3. CASE ~truth.met
    <3>1. /\ IF clock.told THEN attempts.until.boot \in 1..(clock.boot - 1) ELSE attempts.until.boot = Unknown
          /\ truth.since <= clock.up /\ (~clock.told => truth.since = 0)
      BY <1>1, <2>3 DEF Stored
    <3>2. truth'.since <= clock'.up /\ (~clock.told => truth'.since = 0)
      BY <1>3, <1>5, <1>6, <2>3, <3>1 DEF since
    <3> QED
      BY <1>2, <1>5, <1>6, <2>3, <3>1, <3>2 DEF Stored
  <2> QED
    BY <2>2, <2>3
<1>12. Counts'
  <2> SUFFICES ASSUME ~truth.overtaken PROVE Counts'
    BY <1>6 DEF Counts
  <2>1. Ends_(attempts.until)' = Ends_(attempts.until)
    BY <1>2, <1>6 DEF Ends_
  <2>2. attempts.until.kind = "lock" => Ends_(attempts.until) \in Int
    BY <1>10 DEF Ends_
  <2>3. /\ truth.wrong <= Limit
        /\ attempts.until.kind = "none" => truth.wrong <= attempts.failed
        /\ attempts.until.kind = "wall" => truth.wrong = 0 /\ attempts.failed = Limit + 2
        /\ attempts.until.kind = "lock" => (truth.serve = 0 => truth.wrong = 0)
        /\ truth.serve > 0 =>
             /\ attempts.until.kind = "lock"
             /\ clock.up + truth.serve <= Ends_(attempts.until)
    BY <1>1 DEF Counts
  <2>4. wrong <= truth.wrong /\ (serve = 0 /\ (truth.serve = 0 => truth.wrong = 0) => wrong = 0)
    BY <1>3 DEF wrong, serve, NotNegative
  <2>5. attempts.failed \in Nat
    BY <1>1, PolicyAssumption DEF PinTypes, Rows
  <2>6. serve > 0 => attempts.until.kind = "lock" /\ clock'.up + serve <= Ends_(attempts.until)
    BY <1>3, <1>5, <2>2, <2>3 DEF serve, NotNegative
  <2>7. /\ wrong <= Limit
        /\ attempts.until.kind = "none" => wrong <= attempts.failed
        /\ attempts.until.kind = "wall" => wrong = 0 /\ attempts.failed = Limit + 2
        /\ attempts.until.kind = "lock" => (serve = 0 => wrong = 0)
    BY <1>3, <1>4, <2>3, <2>4, <2>5
  <2> QED
    BY <1>2, <1>6, <2>1, <2>6, <2>7 DEF Counts
<1> QED
  BY <1>7, <1>9, <1>11, <1>12 DEF PinInv

(* and a restart of the machine, whether or not its boot can be told.      *)
LEMMA RestartSafe ==
  ASSUME PinInv, Restart
  PROVE  PinInv'
<1>1. PinTypes /\ Held /\ Stored /\ Counts
  BY DEF PinInv
<1>2. /\ task' = [t \in DOMAIN task |-> AtRest] /\ stray' = NoSample /\ open' = FALSE
      /\ UNCHANGED attempts
      /\ \/ UNCHANGED <<clock, truth>>
         \/ /\ clock' = [clock EXCEPT !.up = 0, !.boot = @ + 1]
            /\ truth' = [truth EXCEPT !.since = 0, !.met = FALSE]
  BY DEF Restart
<1>3. /\ task' = [t \in Routes |-> AtRest]
      /\ task' \in [Routes -> [pc : Steps, s : Samples \cup {NoSample}]]
  <2>1. AtRest \in [pc : Steps, s : Samples \cup {NoSample}]
    BY DEF AtRest, Steps
  <2> QED
    BY <1>1, <1>2, <2>1 DEF PinTypes
<1>4. Held'
  <2>1. AtRest.pc = "idle" /\ "idle" \notin Holding
    BY DEF AtRest, Holding
  <2> QED
    BY <1>2, <1>3, <2>1 DEF Held
<1>5. CASE UNCHANGED <<clock, truth>>
  <2>1. PinTypes'
    BY <1>1, <1>2, <1>3, <1>5 DEF PinTypes
  <2>2. Stored' /\ Counts'
    BY <1>1, <1>2, <1>5 DEF Stored, Counts, Token, Ends_
  <2> QED
    BY <1>4, <2>1, <2>2 DEF PinInv
<1>6. CASE /\ clock' = [clock EXCEPT !.up = 0, !.boot = @ + 1]
           /\ truth' = [truth EXCEPT !.since = 0, !.met = FALSE]
  <2>1. /\ clock.up \in Nat /\ clock.boot \in Nat \ {0} /\ clock.told \in BOOLEAN
        /\ truth.met \in BOOLEAN /\ truth.serve \in Nat
    BY <1>1, PolicyAssumption DEF PinTypes, Clocks, Histories
  <2>2. /\ clock' \in Clocks
        /\ clock'.up = 0 /\ clock'.boot = clock.boot + 1 /\ clock'.told = clock.told
    BY <1>1, <1>6, ClockBoots DEF PinTypes
  <2>3. /\ truth' \in Histories /\ truth'.since = 0 /\ truth'.met = FALSE
        /\ truth'.wrong = truth.wrong /\ truth'.serve = truth.serve
        /\ truth'.overtaken = truth.overtaken
    BY <1>1, <1>6 DEF PinTypes, Histories
  <2>4. PinTypes'
    BY <1>1, <1>2, <1>3, <2>2, <2>3 DEF PinTypes
  <2>5. attempts.until.kind = "lock" => /\ attempts.until.deadline = attempts.until.last + attempts.until.budget
                                  /\ attempts.until.last \in Nat /\ attempts.until.budget \in Nat
    BY <1>1, PolicyAssumption DEF PinTypes, Rows, NoLocks, WallLocks, Locks
  <2>6. Stored'
    <3>1. attempts.until.kind = "lock" =>
            IF clock.told THEN attempts.until.boot \in 1..clock.boot ELSE attempts.until.boot = Unknown
      BY <1>1, <2>1 DEF Stored, Token
    <3> QED
      BY <1>2, <2>1, <2>2, <2>3, <3>1 DEF Stored
  <2>7. Counts'
    <3>1. ~truth.overtaken /\ truth.serve > 0 =>
            attempts.until.kind = "lock" /\ truth.serve <= attempts.until.budget
      BY <1>1, <2>1, <2>5 DEF Counts, Stored, Ends_
    <3>2. clock'.up + truth.serve = truth.serve /\ Ends_(attempts.until)' = attempts.until.budget
      BY <1>2, <2>1, <2>2, <2>3 DEF Ends_
    <3> QED
      BY <1>1, <1>2, <2>3, <3>1, <3>2 DEF Counts
  <2> QED
    BY <1>4, <2>4, <2>6, <2>7 DEF PinInv
<1> QED
  BY <1>2, <1>5, <1>6

(* The invariant holds of the state an installation starts with. *)
LEMMA PinInvInit == PinInit => PinInv
<1> SUFFICES ASSUME PinInit PROVE PinInv
  OBVIOUS
<1>1. /\ stray = NoSample /\ open = FALSE
      /\ task = [t \in Routes |-> AtRest]
      /\ clock \in [now : {0}, up : {0, 2}, boot : {1}, told : BOOLEAN]
      /\ truth = [wrong |-> IF attempts.until.kind = "wall" THEN 0 ELSE AtMost(attempts.failed, Limit),
                  serve |-> 0, since |-> 0, met |-> FALSE, overtaken |-> FALSE]
  BY DEF PinInit, Routes
<1>2. \/ attempts \in [failed : 0..(Limit + 1), until : {NoLock}]
      \/ attempts \in [failed : {Limit + 2}, until : {Wall(at) : at \in {-1, 1, LockSeconds + 2}}]
  BY DEF PinInit
<1>3. /\ attempts \in Rows /\ attempts.until.kind \in {"none", "wall"}
      /\ attempts.until.kind = "wall" => attempts.failed = Limit + 2
  <2>1. CASE attempts \in [failed : 0..(Limit + 1), until : {NoLock}]
    <3>1. NoLock \in NoLocks /\ NoLock.kind = "none"
      BY DEF NoLock, NoLocks
    <3> QED
      BY <2>1, <3>1, PolicyAssumption DEF Rows
  <2>2. CASE attempts \in [failed : {Limit + 2}, until : {Wall(at) : at \in {-1, 1, LockSeconds + 2}}]
    <3>1. PICK at \in {-1, 1, LockSeconds + 2} : attempts.until = Wall(at)
      BY <2>2
    <3>2. attempts.until \in WallLocks /\ attempts.until.kind = "wall"
      BY <3>1, PolicyAssumption DEF Wall, WallLocks
    <3> QED
      BY <2>2, <3>2, PolicyAssumption DEF Rows
  <2> QED
    BY <1>2, <2>1, <2>2
<1>4. attempts.failed \in Nat /\ Limit \in Nat \ {0} /\ LockSeconds \in Nat \ {0}
  BY <1>3, PolicyAssumption DEF Rows
<1>5. /\ truth \in Histories /\ truth.serve = 0
      /\ truth.wrong = IF attempts.until.kind = "wall" THEN 0 ELSE AtMost(attempts.failed, Limit)
  BY <1>1, <1>4 DEF Histories, AtMost
<1>6. AtRest \in [pc : Steps, s : Samples \cup {NoSample}] /\ AtRest.pc = "idle" /\ "idle" \notin Holding
  BY DEF AtRest, Steps, Holding
<1>7. PinTypes
  <2>1. clock \in Clocks
    BY <1>1 DEF Clocks
  <2>2. task \in [Routes -> [pc : Steps, s : Samples \cup {NoSample}]]
    BY <1>1, <1>6
  <2> QED
    BY <1>1, <1>3, <1>5, <2>1, <2>2 DEF PinTypes
<1>8. Held
  BY <1>1, <1>6 DEF Held
<1>9. Stored
  BY <1>3 DEF Stored
<1>10. Counts
  BY <1>3, <1>4, <1>5 DEF Counts, AtMost
<1> QED
  BY <1>7, <1>8, <1>9, <1>10 DEF PinInv

(* Every step keeps the invariant.                                         *)
LEMMA PinInvNext == PinInv /\ [PinNext]_pinVars => PinInv'
<1> SUFFICES ASSUME PinInv, [PinNext]_pinVars PROVE PinInv'
  OBVIOUS
<1>1. DOMAIN task = Routes
  BY DEF PinInv, PinTypes
<1>2. ASSUME NEW t \in Routes, Begin(t) PROVE PinInv'
  <2>1. Exclusive /\ Goes(t, "read", Sample) /\ UNCHANGED <<attempts, clock, stray, open, truth>>
    BY <1>2 DEF Begin
  <2>2. "read" \in Steps \ {"idle"}
    BY DEF Steps
  <2> QED
    BY <2>1, <2>2, RouteOnly
<1>3. ASSUME NEW t \in Routes, AttemptsRead(t) PROVE PinInv'
  <2>1. /\ task[t].pc \in Holding /\ Written(task[t].s, FALSE)
        /\ Ends(t) \/ Goes(t, "verify", NoSample)
        /\ UNCHANGED <<clock, stray, open>>
    BY <1>3 DEF AttemptsRead, Holding
  <2> QED
    BY <2>1, RouteWrites
<1>4. ASSUME NEW t \in Routes, Verified(t) PROVE PinInv'
  <2>1. /\ task[t].pc = "verify" /\ UNCHANGED <<attempts, clock, stray, open, truth>>
        /\ \/ Goes(t, "wrong", Sample) \/ Goes(t, "unlock", Sample) \/ Goes(t, "reset", Sample)
           \/ Ends(t)
    BY <1>4 DEF Verified
  <2>2. task[t] # AtRest
    BY <2>1 DEF AtRest
  <2>3. {"wrong", "unlock", "reset"} \subseteq Steps \ {"idle"}
    BY DEF Steps
  <2> QED
    BY <2>1, <2>2, <2>3, RouteOnly
<1>5. ASSUME NEW t \in Routes, FailureCounted(t) PROVE PinInv'
  <2>1. /\ task[t].pc \in Holding /\ Written(task[t].s, TRUE) /\ Ends(t)
        /\ UNCHANGED <<clock, stray, open>>
    BY <1>5 DEF FailureCounted, Holding
  <2> QED
    BY <2>1, RouteWrites
<1>6. ASSUME NEW t \in Routes, RouteFails(t) PROVE PinInv'
  BY <1>6, RouteOnly DEF RouteFails
<1>7. ASSUME LoginUnlocked PROVE PinInv'
  <2>1. /\ "login" \in Routes /\ task["login"].pc \in Holding
        /\ Written(task["login"].s, FALSE)
        /\ Ends("login") \/ Goes("login", "reset", NoSample)
        /\ UNCHANGED <<clock, stray, open>>
    BY <1>7 DEF LoginUnlocked, Holding, Routes
  <2> QED
    BY <2>1, RouteWrites
<1>8. CASE UNCHANGED pinVars
  BY <1>8 DEF pinVars, PinInv, PinTypes, Held, Taken, Stored, Counts, Token, Ends_
<1> QED
  BY <1>1, <1>2, <1>3, <1>4, <1>5, <1>6, <1>7, <1>8, AttemptsResetSafe, PinReplacedSafe,
     SessionClosesSafe, CountdownCancelledSafe, StrayWritesSafe, TickSafe, RestartSafe
     DEF PinNext, Route

(* Every reachable state satisfies the invariant. *)
LEMMA PinInvariant == PinSpec => []PinInv
  BY PinInvInit, PinInvNext, PTL DEF PinSpec

-----------------------------------------------------------------------------
(* What a countdown would show: what is left of the stored lock at the     *)
(* present second.                                                         *)
LEMMA ShownOfLock ==
  ASSUME PinInv, attempts.until.kind = "lock"
  PROVE  /\ Shown = Remaining(attempts.until, Sample) /\ Shown \in Nat
         /\ Shown <= NotNegative(LockSeconds - truth.since)
         /\ Shown = 0 => Ends_(attempts.until) <= clock.up
<1> DEFINE left_ == Remaining(attempts.until, Sample)
<1>1. PinTypes /\ Stored
  BY DEF PinInv
<1>2. Taken(Sample) /\ Sample.up = clock.up /\ Sample \in Samples
  BY <1>1, FreshSample
<1>3. attempts \in Rows /\ attempts.until \in Locks /\ clock.up \in Nat /\ truth.since \in Nat
  BY <1>1 DEF PinTypes, Rows, NoLocks, WallLocks, Clocks, Histories
<1>4. ~Older(Sample)
  <2>1. attempts.until.last \in Nat
    BY <1>3 DEF Locks
  <2> QED
    BY <1>1, <1>2, <1>3, <2>1 DEF Older, Stored
<1>5. /\ left_ \in 0..LockSeconds
      /\ left_ > 0 => Sample.up + left_ - clock.up <= NotNegative(LockSeconds - truth.since)
      /\ left_ = 0 => Ends_(attempts.until) <= clock.up
  BY <1>1, <1>2, <1>4, LockMet
<1>6. Normalized(attempts, Sample) = IF left_ > 0 THEN LockedFor(Sample, left_) ELSE Unlocked(0)
  BY <1>2, <1>3, NormalizedLock
<1> HIDE DEF left_
<1>7. Shown = left_
  BY <1>5, <1>6, PolicyAssumption DEF Shown, LockedFor, Unlocked
<1>8. left_ <= NotNegative(LockSeconds - truth.since)
  BY <1>2, <1>3, <1>5, PolicyAssumption DEF NotNegative
<1> QED
  BY <1>5, <1>7, <1>8, PolicyAssumption DEF left_

(* No more wrong answers than the limit are told before the lock was       *)
(* served (GuessesBounded), for every limit and length of a lock.          *)
THEOREM GuessesAreBounded == PinSpec => []GuessesBounded
<1>1. PinInv => GuessesBounded
  BY DEF PinInv, Counts, GuessesBounded
<1> QED
  BY <1>1, PinInvariant, PTL

(* A lock is served neither too briefly nor too long (LockExact). *)
THEOREM LocksAreExact == PinSpec => []LockExact
<1>1. PinInv => PinTypeOK
  <2> SUFFICES ASSUME PinInv PROVE PinTypeOK
    OBVIOUS
  <2>1. attempts.failed \in 0..(Limit + 2) /\ attempts.until.kind \in {"none", "wall", "lock"}
    BY DEF PinInv, PinTypes, Rows, NoLocks, WallLocks, Locks
  <2>2. \A t \in DOMAIN task :
          task[t].pc \in {"idle", "read", "verify", "wrong", "unlock", "reset"}
    BY DEF PinInv, PinTypes, Steps
  <2>3. truth.wrong \in Nat /\ truth.serve \in 0..LockSeconds
    BY DEF PinInv, PinTypes, Histories
  <2> QED
    BY <2>1, <2>2, <2>3 DEF PinTypeOK
<1>2. PinInv => LockHolds
  <2> SUFFICES ASSUME PinInv, ~truth.overtaken, truth.serve > 0 PROVE Shown > 0
    BY DEF LockHolds
  <2>1. attempts.until.kind = "lock" /\ clock.up + truth.serve <= Ends_(attempts.until)
    BY DEF PinInv, Counts
  <2>2. /\ Shown \in Nat /\ (Shown = 0 => Ends_(attempts.until) <= clock.up)
    BY <2>1, ShownOfLock
  <2>3. clock.up \in Nat /\ truth.serve \in Nat /\ Ends_(attempts.until) \in Int
    BY <2>1, PolicyAssumption
       DEF PinInv, PinTypes, Clocks, Histories, Rows, NoLocks, WallLocks, Locks, Ends_
  <2> QED
    BY <2>1, <2>2, <2>3
<1>3. PinInv => LockEnds
  BY ShownOfLock DEF LockEnds
<1>4. PinInv => LockExact
  BY <1>1, <1>2, <1>3 DEF LockExact
<1> QED
  BY <1>4, PinInvariant, PTL
=================================================================================
