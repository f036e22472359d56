------------------------------ MODULE ChatDrafts ------------------------------
(***************************************************************************)
(* The unsent text of each chat: the cache of chat/drafts.py over the      *)
(* table chat_drafts of storage/draft_repository.py, with the two          *)
(* transactions of a send that touch that table (reserve_turn,             *)
(* restore_unsent_draft), and the lock of the application.                 *)
(*                                                                         *)
(* A task is an asyncio task inside flush, flush_all or load.  A write or  *)
(* a read is two steps, the worker thread's transaction and the code its   *)
(* result resumes; what lies between two awaits is one step.  The cache    *)
(* holds an asyncio.Lock per chat from before the worker starts until      *)
(* after that code; a call that finds it free does not wait ("called").    *)
(* A send is followed only as far as drafts are concerned; MessageSending  *)
(* has the rest of it.                                                     *)
(***************************************************************************)
EXTENDS Integers

CONSTANTS
  Chats,
  Tasks,
  NoChat,       \* the chat of an idle task
  Texts,        \* what a user may have typed, other than nothing
  Rooms         \* bounds of one behaviour: its chats, the chats a message may be
                \* sent in, what is typed, and the highest revision of a draft

Blank == ""

ASSUME DraftsAssumption ==
  /\ NoChat \notin Chats
  /\ Blank \notin Texts
  /\ Rooms \subseteq [chats : SUBSET Chats, sending : SUBSET Chats,
                      texts : SUBSET Texts, revisions : Nat]

VARIABLES
  room,      \* the element of Rooms that bounds this behaviour
  chats,     \* the chats of the database
  disk,      \* chat_drafts; a chat without a row reads as revision 0, no text
  cache,     \* ChatDraftService._cache
  leases,    \* _lock_leases: the revision the lease is for, 0 if there is none
  tasks,     \* the calls in progress
  sends,     \* the send of each chat
  unlocked,  \* DataAccess holds the key
  owed,      \* the flush_all that follows a lock has not begun
  sent       \* ghost: the last draft of a chat whose text went to the provider

vars == <<room, chats, disk, cache, leases, tasks, sends, unlocked, owed, sent>>

Revision == Nat
Draft    == [revision : Revision, text : Texts \cup {Blank}]
NoDraft  == [revision |-> 0, text |-> Blank]

\* _CachedDraft; held is FALSE where the dictionary has no key.
Entry   == [held : BOOLEAN, dirty : BOOLEAN, draft : Draft]
NoEntry == [held |-> FALSE, dirty |-> FALSE, draft |-> NoDraft]

\* draft is what a write is saving, or what a load found in the cache when it
\* began (before); rest the chats flush_all has yet to visit; lease the revision
\* the write may store; valid that the chat was not forgotten since the load
\* began; current that the epoch the call captured is the open session's.
Task == [stage : {"idle", "called", "waiting", "writing", "reading"},
         kind : {"flush", "submit", "load"}, chat : Chats \cup {NoChat},
         rest : SUBSET Chats, draft : Draft, lease : Revision,
         result : {"none", "ok", "failed"}, stored : Draft,
         valid : BOOLEAN, current : BOOLEAN, cancelled : BOOLEAN]

NoTask == [stage |-> "idle", kind |-> "flush", chat |-> NoChat, rest |-> {},
           draft |-> NoDraft, lease |-> 0, result |-> "none", stored |-> NoDraft,
           valid |-> TRUE, current |-> FALSE, cancelled |-> FALSE]

\* draft is _PendingSend.draft; backup the text its reservation consumed, if any;
\* told that the cache heard of it, cleared that it still had that draft then.
Send == [stage : {"none", "saving", "saved", "reserved", "refused"}, draft : Draft,
         backup : Texts \cup {Blank}, told : BOOLEAN, cleared : BOOLEAN,
         current : BOOLEAN]

NoSend == [stage |-> "none", draft |-> NoDraft, backup |-> Blank,
           told |-> FALSE, cleared |-> FALSE, current |-> FALSE]

-----------------------------------------------------------------------------
\* record_edit: only a different text is a new revision.
Edited(entry, text) ==
  IF text = entry.draft.text THEN entry
  ELSE [entry EXCEPT !.dirty = TRUE,
                     !.draft = [revision |-> entry.draft.revision + 1, text |-> text]]

CanEdit(c, text) ==
  /\ cache[c].held
  /\ text # cache[c].draft.text => cache[c].draft.revision < room.revisions

\* A new call of flush or load; it captures the epoch before it waits for a lock.
Call(t, kind, c, rest) ==
  /\ tasks[t].stage = "idle"
  /\ tasks' = [tasks EXCEPT ![t] =
       [NoTask EXCEPT !.stage = "called", !.kind = kind, !.chat = c,
                      !.rest = rest, !.current = unlocked]]

\* update_draft: the edit is in memory before the first await.
UpdateDraft(t, c, text) ==
  /\ unlocked
  /\ CanEdit(c, text)
  /\ cache' = [cache EXCEPT ![c] = Edited(@, text)]
  /\ Call(t, "flush", c, {})
  /\ UNCHANGED <<chats, disk, leases, sends, unlocked, owed, sent>>

\* flush_all, of the chats cached when it starts, in the dictionary's order.
FlushAll(t) ==
  LET keys == {c \in Chats : cache[c].held}
  IN /\ \E c \in keys : Call(t, "flush", c, keys \ {c})
     /\ owed' = FALSE
     /\ UNCHANGED <<chats, disk, cache, leases, sends, unlocked, sent>>

Load(t, c) ==
  /\ unlocked
  /\ Call(t, "load", c, {})
  /\ UNCHANGED <<chats, disk, cache, leases, sends, unlocked, owed, sent>>

\* submit_message up to its flush.
SubmitMessage(t, c, text) ==
  /\ unlocked
  /\ text \in room.texts
  /\ c \in chats \cap room.sending
  /\ sends[c] = NoSend
  /\ CanEdit(c, text)
  /\ cache' = [cache EXCEPT ![c] = Edited(@, text)]
  /\ sends' = [sends EXCEPT ![c] = [NoSend EXCEPT !.stage = "saving",
                                     !.draft = Edited(cache[c], text).draft,
                                     !.current = TRUE]]
  /\ Call(t, "submit", c, {})
  /\ UNCHANGED <<chats, disk, leases, unlocked, owed, sent>>

-----------------------------------------------------------------------------
\* _flush.

LockFree(c) == \A t \in Tasks : tasks[t].chat = c => tasks[t].stage \notin {"writing", "reading"}

Wait(t) ==
  /\ tasks[t].stage = "called"
  /\ ~LockFree(tasks[t].chat)
  /\ tasks' = [tasks EXCEPT ![t].stage = "waiting"]
  /\ UNCHANGED <<chats, disk, cache, leases, sends, unlocked, owed, sent>>

\* The call raises: flush_all visits no further chat, submit_message gives up.
Raise(t) ==
  /\ tasks' = [tasks EXCEPT ![t] = NoTask]
  /\ sends' = IF tasks[t].kind = "submit" THEN [sends EXCEPT ![tasks[t].chat] = NoSend]
                                          ELSE sends

\* The chat's flush returns.
Return(t) ==
  /\ IF tasks[t].rest = {}
       THEN tasks' = [tasks EXCEPT ![t] = NoTask]
       ELSE \E c \in tasks[t].rest :
              tasks' = [tasks EXCEPT ![t].stage = "called", ![t].chat = c,
                                     ![t].rest = @ \ {c}, ![t].result = "none"]
  /\ sends' = IF tasks[t].kind # "submit" THEN sends
              ELSE [sends EXCEPT ![tasks[t].chat] =
                      IF @.current THEN [@ EXCEPT !.stage = "saved"] ELSE NoSend]

\* The head of the loop: the lease kept by the lock, or one of the call's own
\* session, is for the revision about to be written.
Loop(t) ==
  LET c == tasks[t].chat
      revision == cache[c].draft.revision
      Write(lease) ==
        tasks' = [tasks EXCEPT ![t].stage = "writing", ![t].draft = cache[c].draft,
                               ![t].lease = lease, ![t].result = "none"]
  IN \/ ~cache[c].dirty /\ Return(t) /\ UNCHANGED leases
     \/ /\ cache[c].dirty /\ leases[c] # 0
        /\ Write(leases[c]) /\ leases' = [leases EXCEPT ![c] = 0] /\ UNCHANGED sends
     \/ /\ cache[c].dirty /\ leases[c] = 0 /\ tasks[t].current
        /\ Write(revision) /\ UNCHANGED <<leases, sends>>
     \/ /\ cache[c].dirty /\ leases[c] = 0 /\ ~tasks[t].current
        /\ Raise(t) /\ UNCHANGED leases

BeginFlush(t) ==
  /\ tasks[t].stage \in {"called", "waiting"}
  /\ tasks[t].kind # "load"
  /\ LockFree(tasks[t].chat)
  /\ Loop(t)
  /\ UNCHANGED <<chats, disk, cache, unlocked, owed, sent>>

WorkerEnds(t, result, stored) ==
  /\ tasks[t].result = "none"
  /\ tasks' = [tasks EXCEPT ![t].result = result, ![t].stored = stored]
  /\ UNCHANGED <<chats, cache, leases, sends, unlocked, owed, sent>>

\* save_draft: an upsert that only a newer revision wins, for a chat that
\* exists; it answers with the row as it then is.
SaveDraft(t) ==
  LET c == tasks[t].chat
      draft == tasks[t].draft
      row == IF draft.revision > disk[c].revision THEN draft ELSE disk[c]
  IN /\ tasks[t].stage = "writing"
     /\ \/ /\ tasks[t].lease = draft.revision
           /\ c \in chats
           /\ disk' = [disk EXCEPT ![c] = row]
           /\ WorkerEnds(t, "ok", row)
        \/ UNCHANGED disk /\ WorkerEnds(t, "failed", NoDraft)

\* Mutant: whatever was typed during the write counts as written.
UnchangedMutant(t) == cache[tasks[t].chat].held

\* Nothing was typed during the write.
Unchanged(t) == cache[tasks[t].chat].held /\ cache[tasks[t].chat].draft = tasks[t].draft

\* A write that ends while the application is locked leaves nothing in memory.
AfterWrite(t) ==
  LET c == tasks[t].chat
      conflict == Unchanged(t) /\ tasks[t].stored # tasks[t].draft
      failed == tasks[t].result = "failed" \/ conflict
  IN /\ tasks[t].stage = "writing"
     /\ tasks[t].result # "none"
     /\ \/ failed /\ Raise(t) /\ UNCHANGED <<cache, leases>>
        \/ /\ ~failed /\ Unchanged(t)
           /\ cache' = [cache EXCEPT ![c] = IF unlocked THEN [@ EXCEPT !.dirty = FALSE]
                                                        ELSE NoEntry]
           /\ leases' = IF unlocked THEN leases ELSE [leases EXCEPT ![c] = 0]
           /\ IF tasks[t].cancelled THEN Raise(t) ELSE Return(t)
        \/ /\ ~failed /\ ~Unchanged(t) /\ UNCHANGED cache
           /\ IF tasks[t].cancelled THEN Raise(t) /\ UNCHANGED leases ELSE Loop(t)
     /\ UNCHANGED <<chats, disk, unlocked, owed, sent>>

-----------------------------------------------------------------------------
\* load.

BeginLoad(t) ==
  /\ tasks[t].stage \in {"called", "waiting"}
  /\ tasks[t].kind = "load"
  /\ LockFree(tasks[t].chat)
  /\ tasks' = [tasks EXCEPT ![t].stage = "reading", ![t].draft = cache[tasks[t].chat].draft]
  /\ UNCHANGED <<chats, disk, cache, leases, sends, unlocked, owed, sent>>

\* get_draft.
GetDraft(t) ==
  /\ tasks[t].stage = "reading"
  /\ \/ /\ tasks[t].current
        /\ tasks[t].chat \in chats
        /\ WorkerEnds(t, "ok", disk[tasks[t].chat])
     \/ WorkerEnds(t, "failed", NoDraft)
  /\ UNCHANGED disk

\* Mutant: the entry is not compared with what it was before the read.
MayReplaceMutant(t) ==
  LET entry == cache[tasks[t].chat]
  IN entry.held => ~entry.dirty /\ tasks[t].stored.revision >= entry.draft.revision

\* The row replaces an entry that is saved, and that nothing has changed since
\* the load began.
MayReplace(t) ==
  LET entry == cache[tasks[t].chat]
  IN entry.held => /\ ~entry.dirty
                   /\ entry.draft = tasks[t].draft
                   /\ tasks[t].stored.revision >= entry.draft.revision

FinishLoad(t) ==
  /\ tasks[t].stage = "reading"
  /\ tasks[t].result # "none"
  /\ cache' = IF tasks[t].result = "ok" /\ tasks[t].valid /\ MayReplace(t)
                THEN [cache EXCEPT ![tasks[t].chat] =
                        [held |-> TRUE, dirty |-> FALSE, draft |-> tasks[t].stored]]
                ELSE cache
  /\ tasks' = [tasks EXCEPT ![t] = NoTask]
  /\ UNCHANGED <<chats, disk, leases, sends, unlocked, owed, sent>>

\* A write is shielded: its task keeps the chat's lock until the worker ends.
Cancel(t) ==
  /\ tasks[t].stage # "idle"
  /\ IF tasks[t].stage = "writing"
       THEN /\ ~tasks[t].cancelled
            /\ tasks' = [tasks EXCEPT ![t].cancelled = TRUE]
            /\ UNCHANGED sends
       ELSE Raise(t)
  /\ UNCHANGED <<chats, disk, cache, leases, unlocked, owed, sent>>

-----------------------------------------------------------------------------
\* The rest of a send.

\* reserve_turn consumes the revision it sends, and leaves a tombstone.
Reserve(c) ==
  /\ sends[c].stage = "saved"
  /\ sends[c].current
  /\ LET consumes == disk[c].revision = sends[c].draft.revision
     IN /\ disk' = IF consumes THEN [disk EXCEPT ![c].text = Blank] ELSE disk
        /\ sends' = [sends EXCEPT ![c].stage = "reserved", 
                                         ![c].backup = IF consumes THEN disk[c].text ELSE Blank]
  /\ UNCHANGED <<chats, cache, leases, tasks, unlocked, owed, sent>>

\* on_reserved, acknowledge_reserved.  It is skipped when the workspace is gone.
AcknowledgeReserved(c) ==
  LET matches == cache[c].held /\ cache[c].draft = sends[c].draft
  IN /\ sends[c].stage = "reserved"
     /\ sends[c].current
     /\ ~sends[c].told
     /\ sends' = [sends EXCEPT ![c].told = TRUE, ![c].cleared = matches]
     /\ cache' = IF matches THEN [cache EXCEPT ![c].dirty = FALSE, ![c].draft.text = Blank]
                           ELSE cache
     /\ UNCHANGED <<chats, disk, leases, tasks, unlocked, owed, sent>>

\* The request leaves.
Dispatch(c) ==
  /\ sends[c].stage = "reserved"
  /\ sends[c].current
  /\ sent' = [sent EXCEPT ![c] = [draft |-> sends[c].draft, cleared |-> sends[c].cleared]]
  /\ sends' = [sends EXCEPT ![c] = NoSend]
  /\ UNCHANGED <<chats, disk, cache, leases, tasks, unlocked, owed>>

\* The send fails before its reservation, or its reservation is released unsent.
Refuse(c) ==
  /\ \/ sends[c].stage = "saved" /\ sends' = [sends EXCEPT ![c] = NoSend]
     \/ sends[c].stage = "reserved" /\ sends' = [sends EXCEPT ![c].stage = "refused"]
  /\ UNCHANGED <<chats, disk, cache, leases, tasks, unlocked, owed, sent>>

Restored(c) == [revision |-> sends[c].draft.revision, text |-> sends[c].backup]

\* Mutant: whatever draft the chat has by now is overwritten.
RestorableMutant(c) == sends[c].backup # Blank

\* The compare-and-set of restore_unsent_draft.
Restorable(c) ==
  /\ sends[c].backup # Blank
  /\ disk[c] = [revision |-> sends[c].draft.revision, text |-> Blank]

\* restore_unsent_draft, under the send's lease; it may also fail.
RestoreUnsentDraft(c) ==
  /\ sends[c].stage = "refused"
  /\ sends' = [sends EXCEPT ![c] = NoSend]
  /\ \/ Restorable(c) /\ disk' = [disk EXCEPT ![c] = Restored(c)]
     \/ UNCHANGED disk
  /\ UNCHANGED <<chats, cache, leases, tasks, unlocked, owed, sent>>

-----------------------------------------------------------------------------
\* forget, as far as loads are concerned: _invalidations moves on.
Invalidated(task, S) ==
  IF task.stage = "reading" /\ task.chat \in S THEN [task EXCEPT !.valid = FALSE] ELSE task

\* A chat is deleted while no send is at work on it ...
DeleteChat(c) ==
  /\ unlocked
  /\ c \in chats
  /\ sends[c] = NoSend
  /\ chats' = chats \ {c}
  /\ disk' = [disk EXCEPT ![c] = NoDraft]
  /\ UNCHANGED <<cache, leases, tasks, sends, unlocked, owed, sent>>

\* ... and its draft is forgotten when the dialog learns of it.
ForgetDeleted(c) ==
  /\ unlocked
  /\ c \notin chats
  /\ cache' = [cache EXCEPT ![c] = NoEntry]
  /\ leases' = [leases EXCEPT ![c] = 0]
  /\ tasks' = [t \in Tasks |-> Invalidated(tasks[t], {c})]
  /\ UNCHANGED <<chats, disk, sends, unlocked, owed, sent>>

\* The cache, with the last edit of the editor if one is open (capture_editor).
Captured ==
  {cache} \cup
  UNION {{[cache EXCEPT ![c] = Edited(@, text)] :
            text \in {x \in room.texts \cup {Blank} : CanEdit(c, x)}} : c \in Chats}

\* Mutant: the lock keeps no edit.
KeptMutant(entries) == [c \in Chats |-> NoEntry]

\* prepare_lock keeps what is unsaved ...
Kept(entries) == [c \in Chats |-> IF entries[c].dirty THEN entries[c] ELSE NoEntry]

\* ... with a lease to write it, unless one is there already.
LockLeases(entries) ==
  [c \in Chats |-> IF ~entries[c].dirty THEN 0
                   ELSE IF leases[c] # 0 THEN leases[c]
                   ELSE entries[c].draft.revision]

\* begin_lock: capture_editor, prepare_lock, DataAccess.lock.
BeginLock ==
  /\ unlocked
  /\ unlocked' = FALSE
  /\ \E entries \in Captured :
       LET forgotten == {c \in Chats : entries[c].held /\ ~entries[c].dirty}
       IN /\ cache' = Kept(entries)
          /\ leases' = LockLeases(entries)
          /\ tasks' = [t \in Tasks |->
               [Invalidated(tasks[t], forgotten) EXCEPT !.current = FALSE]]
  /\ owed' = \E c \in Chats : cache'[c].held
  /\ sends' = [c \in Chats |-> [sends[c] EXCEPT !.current = FALSE]]
  /\ UNCHANGED <<chats, disk, sent>>

\* By the time a PIN has been typed the flush that follows the lock has begun.
Unlock ==
  /\ ~unlocked
  /\ ~owed
  /\ unlocked' = TRUE
  /\ UNCHANGED <<chats, disk, cache, leases, tasks, sends, owed, sent>>

\* The process dies and another one starts.
Crash ==
  /\ cache' = [c \in Chats |-> NoEntry]
  /\ leases' = [c \in Chats |-> 0]
  /\ tasks' = [t \in Tasks |-> NoTask]
  /\ sends' = [c \in Chats |-> NoSend]
  /\ unlocked' = FALSE
  /\ owed' = FALSE
  /\ UNCHANGED <<chats, disk, sent>>

-----------------------------------------------------------------------------
Init ==
  /\ room \in Rooms
  /\ chats = room.chats
  /\ disk = [c \in Chats |-> NoDraft]
  /\ cache = [c \in Chats |-> NoEntry]
  /\ leases = [c \in Chats |-> 0]
  /\ tasks = [t \in Tasks |-> NoTask]
  /\ sends = [c \in Chats |-> NoSend]
  /\ unlocked = FALSE
  /\ owed = FALSE
  /\ sent = [c \in Chats |-> [draft |-> NoDraft, cleared |-> FALSE]]

UserStep ==
  \E t \in Tasks :
    \/ FlushAll(t)
    \/ \E c \in room.chats :
         \/ Load(t, c)
         \/ \E text \in room.texts \cup {Blank} : UpdateDraft(t, c, text) \/ SubmitMessage(t, c, text)

TaskStep ==
  \E t \in Tasks :
    \/ BeginFlush(t) \/ SaveDraft(t) \/ AfterWrite(t)
    \/ BeginLoad(t) \/ GetDraft(t) \/ FinishLoad(t)
    \/ Cancel(t)

SendStep ==
  \E c \in room.chats : \/ Reserve(c) \/ AcknowledgeReserved(c) \/ Dispatch(c)
                   \/ Refuse(c) \/ RestoreUnsentDraft(c)

\* Nothing else runs before a call has the lock or waits for it.
Called == {t \in Tasks : tasks[t].stage = "called"}

Next ==
  /\ \/ \E t \in Called : BeginFlush(t) \/ BeginLoad(t) \/ Wait(t)
     \/ Called = {} /\ UserStep
     \/ Called = {} /\ TaskStep
     \/ Called = {} /\ SendStep
     \/ Called = {} /\ \E c \in room.chats : DeleteChat(c) \/ ForgetDeleted(c)
     \/ Called = {} /\ (BeginLock \/ Unlock \/ Crash)
  /\ UNCHANGED room

Spec == Init /\ [][Next]_vars

-----------------------------------------------------------------------------
\* Properties.

\* Every variable has its type, and a lock lease belongs to a cached draft.
TypeOK ==
  /\ chats \subseteq Chats
  /\ disk \in [Chats -> Draft]
  /\ cache \in [Chats -> Entry]
  /\ leases \in [Chats -> Revision]
  /\ tasks \in [Tasks -> Task]
  /\ sends \in [Chats -> Send]
  /\ unlocked \in BOOLEAN /\ owed \in BOOLEAN
  /\ sent \in [Chats -> [draft : Draft, cleared : BOOLEAN]]
  /\ \A c \in Chats : leases[c] # 0 => cache[c].held

\* Clean means saved: a cached draft that is not dirty is the revision on disk,
\* and nothing on disk is newer than a dirty one, whatever was typed during a
\* write, reserved, restored, or read late.
CleanIsSaved ==
  \A c \in chats : cache[c].held =>
    IF cache[c].dirty THEN disk[c].revision <= cache[c].draft.revision
                      ELSE disk[c].revision = cache[c].draft.revision

\* The cache is what it says about itself.
CacheSound == TypeOK /\ CleanIsSaved

\* No unsaved edit leaves the memory of a live process before its revision is on
\* disk, or the user replaces it, or its chat is deleted.
UnsavedKept ==
  [][\A c \in Chats : cache[c].dirty =>
       \/ cache'[c].dirty /\ cache'[c].draft.revision >= cache[c].draft.revision
       \/ disk[c].revision >= cache[c].draft.revision
       \/ c \notin chats
       \/ Crash]_vars

\* A saved text gives way only to a later revision, to the send that is sending
\* exactly it, or to the deletion of its chat; and only the send that consumed a
\* text puts it back.
SavedTextKept ==
  [][\A c \in chats : disk'[c] # disk[c] =>
       \/ c \notin chats'
       \/ disk'[c].revision > disk[c].revision
       \/ disk[c] = sends[c].draft /\ disk'[c] = [disk[c] EXCEPT !.text = Blank]
       \/ disk'[c] = sends[c].draft /\ disk[c] = [disk'[c] EXCEPT !.text = Blank]]_vars

\* A text that was sent does not come back as a draft: no late save, read or
\* restoration puts it on disk again, or in the cache entry that was cleared of it.
SentStaysGone ==
  \A c \in Chats : sent[c].draft # NoDraft =>
    /\ disk[c] # sent[c].draft
    /\ sent[c].cleared => ~(cache[c].held /\ cache[c].draft = sent[c].draft)

\* A lock keeps the permission to write each edit it keeps.
LockKeepsPermission ==
  [][BeginLock => \A c \in Chats : cache'[c].dirty => leases'[c] = cache'[c].draft.revision]_vars
=============================================================================
