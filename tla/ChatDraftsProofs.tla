--------------------------- MODULE ChatDraftsProofs ---------------------------
(***************************************************************************)
(* Theorems about ChatDrafts, for any chats, calls, texts and revisions:   *)
(* the cache is what it says about itself, nothing that was typed or saved *)
(* is lost, and a text that was sent does not come back.                   *)
(*                                                                         *)
(* The argument is about the copies of a draft that are in memory at once: *)
(* the row, the cache entry, the draft of the send, what a write carries   *)
(* and what a read brought.  Their revisions are in order, and copies of   *)
(* one revision have one text, unless one of them was cleared of it.  The  *)
(* text that was sent is behind all of them, the answer of a read that     *)
(* began before it included, or that answer is not believed.               *)
(***************************************************************************)
EXTENDS ChatDrafts, TLAPS

-----------------------------------------------------------------------------
\* The inductive invariant.

\* Copies of one revision have one text; either may be cleared.
Agree(a, b) == a.revision = b.revision => a.text = b.text \/ a.text = Blank \/ b.text = Blank

\* d has the text of s if it is that revision, or was cleared.
Of(d, s) == d.revision = s.revision => d.text \in {s.text, Blank}
\* d is as late as s, and has its text if it is that revision.
Follows(d, s) == d.revision >= s.revision /\ Of(d, s)

\* s is gone from d: a later revision took its place, or it was cleared.
Past(d, s) == d.revision > s.revision \/ (d.revision = s.revision /\ d.text = Blank)

\* The row d and the entry e of chat c, whose send is s.
EntrySound(c, existing, d, e, s) ==
  /\ e.dirty => e.held
  /\ c \in existing /\ e.held => IF e.dirty THEN d.revision <= e.draft.revision
                                            ELSE d.revision = e.draft.revision
  /\ e.held => Agree(d, e.draft)
  /\ c \notin existing => d = NoDraft /\ s = NoSend

\* The draft of a send is that of the entry or an earlier one, it was saved
\* before it is reserved, and reserving it cleared the row.
SendSound(d, e, s) ==
  s.stage # "none" =>
    /\ s.draft.text \in Texts
    /\ e.held => Follows(e.draft, s.draft)
    /\ ~e.held \/ s.stage # "saving" => d.revision >= s.draft.revision
    /\ Of(d, s.draft)
    /\ s.backup \in {s.draft.text, Blank}
    /\ s.stage \in {"reserved", "refused"} => Past(d, s.draft)
    /\ s.stage \in {"saving", "saved"} => s.backup = Blank /\ ~s.cleared
    /\ s.cleared /\ e.held => Past(e.draft, s.draft)

\* The draft z that was sent is gone from the row, from the entry if that was
\* cleared of it, and no send may restore it.
SentSound(c, existing, d, e, s, z) ==
  z.draft # NoDraft =>
    /\ z.draft.text \in Texts
    /\ c \in existing => Past(d, z.draft)
    /\ z.cleared /\ e.held => Past(e.draft, z.draft)
    /\ s.stage # "none" /\ s.backup # Blank => s.draft.revision > z.draft.revision

\* All that is known of the copies of one chat.
ChatSound(c, existing, d, e, s, z) ==
  /\ EntrySound(c, existing, d, e, s)
  /\ SendSound(d, e, s)
  /\ SentSound(c, existing, d, e, s, z)

\* What the write of call k carries.
WriteSound(c, existing, d, e, s, k) ==
  k.stage = "writing" =>
    /\ e.held => k.draft.revision <= e.draft.revision /\ Agree(k.draft, e.draft)
    /\ s.stage # "none" => Of(k.draft, s.draft)
    /\ k.result = "ok" /\ c \in existing => d.revision >= k.stored.revision

\* The answer of read k may replace entry e.
Replaces(e, k) == k.valid /\ (e.held => e.draft = k.draft)

\* What the read of call k brought: its answer is behind what the chat holds now, or will not be believed.
ReadSound(c, existing, d, e, s, z, k) ==
  k.stage = "reading" =>
    /\ e.held => Follows(e.draft, k.draft)
    /\ k.result = "ok" =>
         /\ c \in existing => k.stored.revision = d.revision /\ Agree(k.stored, d)
         /\ e.held => k.stored.revision <= e.draft.revision /\ Agree(k.stored, e.draft)
         /\ s.stage # "none" => Of(k.stored, s.draft)
         /\ Replaces(e, k) =>
              /\ z.draft # NoDraft /\ z.cleared => Past(k.stored, z.draft)
              /\ s.stage # "none" /\ s.cleared => Past(k.stored, s.draft)

\* What a call with the lock of its chat carries.
CallSound(c, existing, d, e, s, z, k) ==
  WriteSound(c, existing, d, e, s, k) /\ ReadSound(c, existing, d, e, s, z, k)

\* The same of the variables, for a chat and for a call.
ChatOK(c) == ChatSound(c, chats, disk[c], cache[c], sends[c], sent[c])
HoldOK(c, k) == CallSound(c, chats, disk[c], cache[c], sends[c], sent[c], k)

\* The stages in which a call holds the lock of its chat.
Holds(k) == k.stage \in {"writing", "reading"}

\* A call has a chat, and no result before it has the lock; one that submits has
\* a send to save for.
TaskOK(k) ==
  /\ k.stage # "idle" => k.chat \in Chats
  /\ ~Holds(k) => k.result = "none"
  /\ k.kind = "submit" => /\ k.stage # "idle" /\ k.rest = {}
                          /\ sends[k.chat].stage = "saving"

\* The asyncio.Lock of a chat, and its one send.
Apart(k, m) ==
  k.chat = m.chat => ~(Holds(k) /\ Holds(m)) /\ ~(k.kind = "submit" /\ m.kind = "submit")
\* Apart, for every two calls.
Alone == \A t, u \in Tasks : t # u => Apart(tasks[t], tasks[u])

\* The inductive invariant.
DraftInv ==
  /\ TypeOK
  /\ \A c \in Chats : ChatOK(c)
  /\ \A t \in Tasks : TaskOK(tasks[t])
  /\ \A t \in Tasks : Holds(tasks[t]) => HoldOK(tasks[t].chat, tasks[t])
  /\ Alone

\* What a draft that was sent left behind.
SentRow == [draft : Draft, cleared : BOOLEAN]

-----------------------------------------------------------------------------
\* What an edit, a submitted message and a forgotten entry mean for one chat.

\* An edit is the same draft or a later one, not yet saved.
LEMMA EditedIs ==
  ASSUME NEW e \in Entry, NEW text \in Texts \cup {Blank}
  PROVE  /\ Edited(e, text) \in Entry /\ Edited(e, text).held = e.held
         /\ Edited(e, text).draft.text = text
         /\ text = e.draft.text => Edited(e, text) = e
         /\ text # e.draft.text => /\ Edited(e, text).dirty = TRUE
                                   /\ Edited(e, text).draft.revision = e.draft.revision + 1
<1> DEFINE d == [revision |-> e.draft.revision + 1, text |-> text]
           f == [e EXCEPT !.dirty = TRUE]
           g == [f EXCEPT !.draft = d]
<1>1. d \in Draft /\ e.draft \in Draft
  BY DEF Entry, Draft, Revision
<1>2. f \in Entry /\ f.held = e.held /\ f.dirty = TRUE
  BY DEF Entry
<1>3. d.revision = e.draft.revision + 1 /\ d.text = text
  OBVIOUS
<1>4. Edited(e, text) = IF text = e.draft.text THEN e ELSE g
  BY DEF Edited, Entry
<1> HIDE DEF f, d
<1>5. g \in Entry /\ g.held = f.held /\ g.dirty = f.dirty /\ g.draft = d
  BY <1>1, <1>2 DEF Entry
<1> HIDE DEF g
<1> QED
  BY <1>2, <1>3, <1>4, <1>5

\* An edit leaves the chat and its calls in order.
LEMMA EditSound ==
  ASSUME NEW c, NEW existing, NEW d \in Draft, NEW e \in Entry, NEW s \in Send, NEW z \in SentRow,
         ChatSound(c, existing, d, e, s, z), e.held, NEW text \in Texts \cup {Blank}
  PROVE  /\ ChatSound(c, existing, d, Edited(e, text), s, z)
         /\ \A k \in Task : CallSound(c, existing, d, e, s, z, k)
              => CallSound(c, existing, d, Edited(e, text), s, z, k)
<1> DEFINE f == Edited(e, text)
<1>1. /\ f \in Entry /\ f.held = e.held
      /\ text = e.draft.text => f = e
      /\ text # e.draft.text => f.dirty = TRUE /\ f.draft.revision = e.draft.revision + 1
  BY EditedIs
<1> HIDE DEF f
<1>2. CASE text = e.draft.text
  BY <1>1, <1>2 DEF f
<1>3. CASE text # e.draft.text
  <2>1. /\ e.draft.revision \in Nat /\ d.revision \in Nat /\ s.draft.revision \in Nat
        /\ z.draft.revision \in Nat
        /\ f.draft.revision = e.draft.revision + 1 /\ f.dirty = TRUE /\ f.held
    BY <1>1, <1>3 DEF Entry, Draft, Send, SentRow, Revision
  <2>2. c \in existing => d.revision <= e.draft.revision
    BY <2>1 DEF ChatSound, EntrySound
  <2>3. d.revision = f.draft.revision => d.text = Blank
    <3>1. c \notin existing => d.text = Blank
      BY DEF ChatSound, EntrySound, NoDraft
    <3> QED
      BY <2>1, <2>2, <3>1
  <2>4. EntrySound(c, existing, d, f, s)
    BY <2>1, <2>2, <2>3 DEF ChatSound, EntrySound, Agree
  <2>5. SendSound(d, f, s)
    BY <2>1 DEF ChatSound, SendSound, Follows, Of, Past
  <2>6. SentSound(c, existing, d, f, s, z)
    BY <2>1 DEF ChatSound, SentSound, Past
  <2>7. ASSUME NEW k \in Task, CallSound(c, existing, d, e, s, z, k)
        PROVE  CallSound(c, existing, d, f, s, z, k)
    <3>1. k.draft.revision \in Nat /\ k.stored.revision \in Nat
      BY DEF Task, Draft, Revision
    <3>2. WriteSound(c, existing, d, f, s, k)
      BY <2>1, <2>7, <3>1 DEF CallSound, WriteSound, Agree
    <3>3. k.stage = "reading" => ~Replaces(f, k)
      BY <2>1, <2>7, <3>1 DEF CallSound, ReadSound, Replaces, Follows
    <3>4. ReadSound(c, existing, d, f, s, z, k)
      BY <2>1, <2>7, <3>1, <3>3 DEF CallSound, ReadSound, Follows, Of, Agree
    <3> QED
      BY <3>2, <3>4 DEF CallSound
  <2> QED
    BY <2>4, <2>5, <2>6, <2>7 DEF ChatSound, f
<1> QED
  BY <1>2, <1>3

\* The send of a draft that was just edited.
Submitted(e) == [NoSend EXCEPT !.stage = "saving", !.draft = e.draft, !.current = TRUE]

\* A submitted message leaves the chat and its calls in order.
LEMMA SubmitSound ==
  ASSUME NEW c, NEW existing, NEW d \in Draft, NEW e \in Entry, NEW z \in SentRow,
         c \in existing, ChatSound(c, existing, d, e, NoSend, z), e.held, NEW text \in Texts,
         DraftsAssumption
  PROVE  LET f == Edited(e, text) IN
         /\ Submitted(f) \in Send /\ Submitted(f).stage = "saving"
         /\ ChatSound(c, existing, d, f, Submitted(f), z)
         /\ \A k \in Task : CallSound(c, existing, d, e, NoSend, z, k)
              => CallSound(c, existing, d, f, Submitted(f), z, k)
<1> DEFINE f == Edited(e, text)
           s == Submitted(f)
<1>1. /\ f \in Entry /\ f.held = e.held /\ f.draft.text = text
      /\ text = e.draft.text => f = e
      /\ text # e.draft.text => f.dirty = TRUE /\ f.draft.revision = e.draft.revision + 1
  BY EditedIs
<1>2. text # Blank
  BY DEF DraftsAssumption
<1>3. NoSend \in Send /\ NoSend.stage = "none"
  BY DEF NoSend, Send, NoDraft, Draft, Revision
<1>4. /\ ChatSound(c, existing, d, f, NoSend, z)
      /\ \A k \in Task : CallSound(c, existing, d, e, NoSend, z, k)
           => CallSound(c, existing, d, f, NoSend, z, k)
  BY <1>3, EditSound
<1> HIDE DEF f
<1>5. /\ s \in Send /\ s.stage = "saving" /\ s.draft = f.draft /\ s.backup = Blank
      /\ s.cleared = FALSE
  BY <1>1, <1>3 DEF Submitted, NoSend, Send, Entry
<1> HIDE DEF s
<1>6. /\ f.draft.revision \in Nat /\ d.revision \in Nat
  BY <1>1 DEF Entry, Draft, Revision
<1>7. Agree(d, f.draft)
  BY <1>1, <1>4 DEF ChatSound, EntrySound
<1>8. ChatSound(c, existing, d, f, s, z)
  <2>1. EntrySound(c, existing, d, f, s)
    BY <1>4 DEF ChatSound, EntrySound
  <2>2. SendSound(d, f, s)
    BY <1>1, <1>2, <1>5, <1>6, <1>7 DEF SendSound, Follows, Of, Agree
  <2>3. SentSound(c, existing, d, f, s, z)
    BY <1>4, <1>5 DEF ChatSound, SentSound
  <2> QED
    BY <2>1, <2>2, <2>3 DEF ChatSound
<1>9. ASSUME NEW k \in Task, CallSound(c, existing, d, f, NoSend, z, k)
      PROVE  CallSound(c, existing, d, f, s, z, k)
  <2>1. WriteSound(c, existing, d, f, s, k)
    BY <1>1, <1>2, <1>5, <1>9 DEF CallSound, WriteSound, Of, Agree
  <2>2. ReadSound(c, existing, d, f, s, z, k)
    BY <1>1, <1>2, <1>5, <1>9 DEF CallSound, ReadSound, Of, Agree
  <2> QED
    BY <2>1, <2>2 DEF CallSound
<1> QED
  BY <1>4, <1>5, <1>8, <1>9 DEF f, s

\* An entry that is saved may be forgotten, and so may that of a deleted chat.
LEMMA ForgetSound ==
  ASSUME NEW c, NEW existing, NEW d \in Draft, NEW e \in Entry, NEW s \in Send, NEW z \in SentRow,
         ChatSound(c, existing, d, e, s, z), ~e.dirty \/ c \notin existing
  PROVE  /\ ChatSound(c, existing, d, NoEntry, s, z)
         /\ \A k \in Task : CallSound(c, existing, d, e, s, z, k)
              /\ (k.stage = "reading" /\ e.held => ~k.valid)
              => CallSound(c, existing, d, NoEntry, s, z, k)
<1>1. NoEntry.held = FALSE /\ NoEntry.dirty = FALSE
  BY DEF NoEntry
<1>2. /\ e.draft.revision \in Nat /\ d.revision \in Nat /\ s.draft.revision \in Nat
  BY DEF Entry, Draft, Send, Revision
<1>3. EntrySound(c, existing, d, NoEntry, s)
  BY <1>1 DEF ChatSound, EntrySound
<1>4. SendSound(d, NoEntry, s)
  <2>1. s.stage # "none" => c \in existing
    BY DEF ChatSound, EntrySound, NoSend
  <2>2. s.stage # "none" => d.revision >= s.draft.revision
    BY <1>2, <2>1 DEF ChatSound, EntrySound, SendSound, Follows
  <2> QED
    BY <1>1, <2>2 DEF ChatSound, SendSound
<1>5. SentSound(c, existing, d, NoEntry, s, z)
  BY <1>1 DEF ChatSound, SentSound
<1>6. ASSUME NEW k \in Task, CallSound(c, existing, d, e, s, z, k),
             k.stage = "reading" /\ e.held => ~k.valid
      PROVE  CallSound(c, existing, d, NoEntry, s, z, k)
  BY <1>1, <1>6 DEF CallSound, WriteSound, ReadSound, Replaces
<1> QED
  BY <1>3, <1>4, <1>5, <1>6 DEF ChatSound

\* A call as it was, but for its flags: it may have been cancelled, lost its
\* session, or its chat may have been forgotten.
Flagged(k, m) ==
  /\ m.stage = k.stage /\ m.kind = k.kind /\ m.chat = k.chat /\ m.rest = k.rest
  /\ m.draft = k.draft /\ m.result = k.result /\ m.stored = k.stored
  /\ m.valid => k.valid

\* What a call carries does not depend on its flags.
LEMMA FlaggedSound ==
  ASSUME NEW c, NEW existing, NEW d, NEW e, NEW s, NEW z, NEW k, NEW m, Flagged(k, m),
         CallSound(c, existing, d, e, s, z, k)
  PROVE  CallSound(c, existing, d, e, s, z, m)
  BY DEF Flagged, CallSound, WriteSound, ReadSound, Replaces

-----------------------------------------------------------------------------
\* Steps of one call, and steps that stop none.

\* How a call stands after the step with what its chat then holds.
NowSound(c, k) == CallSound(c, chats', disk'[c], cache'[c], sends'[c], sent'[c], k)

\* Nothing is different in the other chats; the other calls stand.
Elsewhere(c) ==
  \A b \in Chats \ {c} :
    /\ b \in chats' <=> b \in chats
    /\ disk'[b] = disk[b] /\ cache'[b] = cache[b] /\ sends'[b] = sends[b] /\ sent'[b] = sent[b]
\* The other calls are as they were.
OthersStand(t) == \A u \in Tasks \ {t} : tasks'[u] = tasks[u]

\* A chat where nothing is different stays in order.
LEMMA ElsewhereKept ==
  ASSUME DraftInv, NEW c \in Chats, Elsewhere(c), NEW b \in Chats \ {c}
  PROVE  ChatOK(b)' /\ \A k : HoldOK(b, k) => NowSound(b, k)
<1>1. /\ b \in chats' <=> b \in chats
      /\ disk'[b] = disk[b] /\ cache'[b] = cache[b] /\ sends'[b] = sends[b] /\ sent'[b] = sent[b]
  BY DEF Elsewhere
<1>2. ChatOK(b)
  BY DEF DraftInv
<1>3. ChatOK(b)'
  BY <1>1, <1>2 DEF ChatOK, ChatSound, EntrySound, SendSound, SentSound
<1>4. ASSUME NEW k, HoldOK(b, k) PROVE NowSound(b, k)
  BY <1>1, <1>4 DEF HoldOK, NowSound, CallSound, WriteSound, ReadSound, Replaces
<1> QED
  BY <1>3, <1>4

\* Call t moves; what it changes is in chat c.
LEMMA CallStep ==
  ASSUME DraftInv, TypeOK', NEW t \in Tasks, NEW c \in Chats,
         Elsewhere(c), OthersStand(t), ChatOK(c)',
         tasks'[t].stage # "idle" => tasks'[t].chat \in Chats,
         Holds(tasks'[t]) \/ tasks'[t].result = "none",
         tasks'[t].kind = "submit" =>
           /\ tasks'[t].stage # "idle" /\ tasks'[t].rest = {}
           /\ tasks'[t].chat = c /\ sends'[c].stage = "saving"
           /\ \A u \in Tasks \ {t} : tasks[u].kind = "submit" => tasks[u].chat # c,
         Holds(tasks'[t]) =>
           /\ tasks'[t].chat = c /\ NowSound(c, tasks'[t])
           /\ \A u \in Tasks \ {t} : Holds(tasks[u]) => tasks[u].chat # c,
         \A u \in Tasks \ {t} : tasks[u].chat = c =>
           /\ Holds(tasks[u]) => NowSound(c, tasks[u])
           /\ tasks[u].kind = "submit" => sends'[c].stage = "saving"
  PROVE  DraftInv'
<1>1. \A b \in Chats : ChatOK(b)'
  BY ElsewhereKept
<1>2. ASSUME NEW u \in Tasks PROVE TaskOK(tasks[u])'
  <2>1. CASE u = t
    BY <2>1 DEF TaskOK, Holds
  <2>2. CASE u # t
    <3>1. tasks'[u] = tasks[u] /\ TaskOK(tasks[u])
      BY <2>2 DEF OthersStand, DraftInv
    <3>2. tasks[u].kind = "submit" => sends'[tasks[u].chat].stage = "saving"
      BY <2>2, <3>1 DEF TaskOK, Elsewhere
    <3> QED
      BY <3>1, <3>2 DEF TaskOK, Holds
  <2> QED
    BY <2>1, <2>2
<1>3. ASSUME NEW u \in Tasks, Holds(tasks[u])' PROVE HoldOK(tasks[u].chat, tasks[u])'
  <2>1. NowSound(tasks'[u].chat, tasks'[u]) => HoldOK(tasks[u].chat, tasks[u])'
    BY DEF NowSound, HoldOK
  <2>2. CASE u = t
    BY <1>3, <2>1, <2>2 DEF Holds
  <2>3. CASE u # t
    <3>1. tasks'[u] = tasks[u] /\ Holds(tasks[u]) /\ tasks[u].chat \in Chats
      BY <1>3, <2>3 DEF OthersStand, DraftInv, TaskOK, Holds
    <3>2. HoldOK(tasks[u].chat, tasks[u])
      BY <3>1 DEF DraftInv
    <3>3. NowSound(tasks[u].chat, tasks[u])
      BY <2>3, <3>1, <3>2, ElsewhereKept
    <3> QED
      BY <2>1, <3>1, <3>3
  <2> QED
    BY <2>2, <2>3
<1>4. Alone'
  <2> SUFFICES ASSUME NEW u \in Tasks, NEW v \in Tasks, u # v PROVE Apart(tasks[u], tasks[v])'
    BY DEF Alone
  <2>1. Apart(tasks[u], tasks[v])
    BY DEF DraftInv, Alone
  <2>2. u # t => tasks'[u] = tasks[u]
    BY DEF OthersStand
  <2>3. v # t => tasks'[v] = tasks[v]
    BY DEF OthersStand
  <2>4. CASE u # t /\ v # t
    BY <2>1, <2>2, <2>3, <2>4 DEF Apart, Holds
  <2>5. CASE u = t
    BY <2>3, <2>5 DEF Apart, Holds
  <2>6. CASE v = t
    BY <2>2, <2>6 DEF Apart, Holds
  <2> QED
    BY <2>4, <2>5, <2>6
<1> QED
  BY <1>1, <1>2, <1>3, <1>4 DEF DraftInv

\* Every call goes on as it was, but for its flags.
LEMMA FlagStep ==
  ASSUME DraftInv, TypeOK', \A u \in Tasks : Flagged(tasks[u], tasks'[u]),
         \A b \in Chats : ChatOK(b)',
         \A u \in Tasks : Holds(tasks[u]) => NowSound(tasks[u].chat, tasks'[u]),
         \A u \in Tasks : tasks[u].kind = "submit" => sends'[tasks[u].chat].stage = "saving"
  PROVE  DraftInv'
<1>1. ASSUME NEW u \in Tasks PROVE TaskOK(tasks[u])'
  BY DEF DraftInv, TaskOK, Flagged, Holds
<1>2. ASSUME NEW u \in Tasks, Holds(tasks[u])' PROVE HoldOK(tasks[u].chat, tasks[u])'
  <2>1. Flagged(tasks[u], tasks'[u])
    OBVIOUS
  <2>2. Holds(tasks[u]) /\ tasks'[u].chat = tasks[u].chat
    BY <1>2, <2>1 DEF Flagged, Holds
  <2>3. NowSound(tasks'[u].chat, tasks'[u])
    BY <2>2
  <2> QED
    BY <2>3 DEF NowSound, HoldOK
<1>3. Alone'
  <2> SUFFICES ASSUME NEW u \in Tasks, NEW v \in Tasks, u # v PROVE Apart(tasks[u], tasks[v])'
    BY DEF Alone
  <2>1. Apart(tasks[u], tasks[v]) /\ Flagged(tasks[u], tasks'[u]) /\ Flagged(tasks[v], tasks'[v])
    BY DEF DraftInv, Alone
  <2> QED
    BY <2>1 DEF Apart, Holds, Flagged
<1> QED
  BY <1>1, <1>2, <1>3 DEF DraftInv

\* The calls stand still, and what changes is in chat c.
LEMMA ChatStep ==
  ASSUME DraftInv, TypeOK', NEW c \in Chats, tasks' = tasks, Elsewhere(c), ChatOK(c)',
         \A u \in Tasks : tasks[u].chat = c =>
           /\ Holds(tasks[u]) => NowSound(c, tasks[u])
           /\ tasks[u].kind = "submit" => sends'[c].stage = "saving"
  PROVE  DraftInv'
<1>1. \A u \in Tasks : Flagged(tasks[u], tasks'[u])
  BY DEF Flagged
<1>2. \A b \in Chats : ChatOK(b)'
  BY ElsewhereKept
<1>3. ASSUME NEW u \in Tasks, Holds(tasks[u]) PROVE NowSound(tasks[u].chat, tasks'[u])
  <2>1. tasks[u].chat \in Chats /\ HoldOK(tasks[u].chat, tasks[u])
    BY <1>3 DEF DraftInv, TaskOK, Holds
  <2> QED
    BY <1>3, <2>1, ElsewhereKept
<1>4. ASSUME NEW u \in Tasks, tasks[u].kind = "submit"
      PROVE  sends'[tasks[u].chat].stage = "saving"
  <2>1. tasks[u].chat \in Chats /\ sends[tasks[u].chat].stage = "saving"
    BY <1>4 DEF DraftInv, TaskOK
  <2> QED
    BY <1>4, <2>1 DEF Elsewhere
<1> QED
  BY <1>1, <1>2, <1>3, <1>4, FlagStep

-----------------------------------------------------------------------------
\* A call leaves its chat: it raises or returns.

\* A send that is given up, and one whose draft is saved.
LEMMA DroppedSound ==
  ASSUME NEW c, NEW existing, NEW d \in Draft, NEW e \in Entry, NEW s \in Send, NEW z \in SentRow,
         ChatSound(c, existing, d, e, s, z)
  PROVE  /\ NoSend \in Send /\ NoSend.stage = "none"
         /\ ChatSound(c, existing, d, e, NoSend, z)
         /\ \A k : CallSound(c, existing, d, e, s, z, k)
              => CallSound(c, existing, d, e, NoSend, z, k)
<1>1. NoSend \in Send /\ NoSend.stage = "none"
  BY DEF NoSend, Send, NoDraft, Draft, Revision
<1>2. ChatSound(c, existing, d, e, NoSend, z)
  BY <1>1 DEF ChatSound, EntrySound, SendSound, SentSound
<1>3. ASSUME NEW k, CallSound(c, existing, d, e, s, z, k)
      PROVE  CallSound(c, existing, d, e, NoSend, z, k)
  BY <1>1, <1>3 DEF CallSound, WriteSound, ReadSound
<1> QED
  BY <1>1, <1>2, <1>3

\* A send whose draft is on disk may go on.
LEMMA SavedSound ==
  ASSUME NEW c, NEW existing, NEW d \in Draft, NEW e \in Entry, NEW s \in Send, NEW z \in SentRow,
         ChatSound(c, existing, d, e, s, z), s.stage = "saving",
         d.revision >= s.draft.revision
  PROVE  LET n == [s EXCEPT !.stage = "saved"] IN
         /\ n \in Send /\ n.stage = "saved"
         /\ ChatSound(c, existing, d, e, n, z)
         /\ \A k : CallSound(c, existing, d, e, s, z, k)
              => CallSound(c, existing, d, e, n, z, k)
<1> DEFINE n == [s EXCEPT !.stage = "saved"]
<1>1. /\ n \in Send /\ n.stage = "saved" /\ n.draft = s.draft /\ n.backup = s.backup
      /\ n.cleared = s.cleared
  BY DEF Send
<1> HIDE DEF n
<1>2. s # NoSend
  BY DEF NoSend
<1>3. ChatSound(c, existing, d, e, n, z)
  <2>1. EntrySound(c, existing, d, e, n)
    BY <1>2 DEF ChatSound, EntrySound
  <2>2. SendSound(d, e, n)
    BY <1>1 DEF ChatSound, SendSound
  <2>3. SentSound(c, existing, d, e, n, z)
    BY <1>1 DEF ChatSound, SentSound
  <2> QED
    BY <2>1, <2>2, <2>3 DEF ChatSound
<1>4. ASSUME NEW k, CallSound(c, existing, d, e, s, z, k)
      PROVE  CallSound(c, existing, d, e, n, z, k)
  BY <1>1, <1>4 DEF CallSound, WriteSound, ReadSound
<1> QED
  BY <1>1, <1>3, <1>4 DEF n

\* A call that raises, or returns with the draft of its send saved, whatever it
\* made of the entry.
LEMMA LeaveSafe ==
  ASSUME DraftInv, NEW t \in Tasks, NEW c \in Chats, tasks[t].chat = c, tasks[t].stage # "idle",
         Raise(t) \/ (/\ Return(t)
                      /\ sends[c].stage = "saving" => disk[c].revision >= sends[c].draft.revision),
         UNCHANGED <<chats, disk, unlocked, owed, sent>>,
         cache' \in [Chats -> Entry], leases' \in [Chats -> Revision],
         \A b \in Chats : leases'[b] # 0 => cache'[b].held,
         \A b \in Chats \ {c} : cache'[b] = cache[b],
         ChatSound(c, chats, disk[c], cache'[c], sends[c], sent[c]),
         \A u \in Tasks \ {t} : Holds(tasks[u]) /\ tasks[u].chat = c =>
           CallSound(c, chats, disk[c], cache'[c], sends[c], sent[c], tasks[u])
  PROVE  DraftInv'
<1>1. /\ tasks[t] \in Task /\ tasks[t].rest \subseteq Chats /\ tasks \in [Tasks -> Task]
      /\ sends \in [Chats -> Send] /\ sends[c] \in Send
      /\ disk[c] \in Draft /\ sent[c] \in SentRow /\ cache'[c] \in Entry
      /\ TaskOK(tasks[t])
  BY DEF DraftInv, TypeOK, Task, SentRow
<1>2. /\ NoTask \in Task /\ NoTask.stage = "idle" /\ NoTask.kind = "flush" /\ ~Holds(NoTask)
      /\ NoTask.result = "none"
  BY DEF NoTask, Task, Holds, NoDraft, Draft, Revision
<1>3. \A u \in Tasks \ {t} : tasks[t].kind = "submit" /\ tasks[u].kind = "submit"
        => tasks[u].chat # c
  BY DEF DraftInv, Alone, Apart
<1>4. \/ /\ tasks' = [tasks EXCEPT ![t] = NoTask]
         /\ \/ tasks[t].kind # "submit" /\ sends' = sends
            \/ tasks[t].kind = "submit" /\ sends' = [sends EXCEPT ![c] = NoSend]
            \/ /\ tasks[t].kind = "submit" /\ sends' = [sends EXCEPT ![c].stage = "saved"]
               /\ disk[c].revision >= sends[c].draft.revision
      \/ /\ tasks[t].kind # "submit" /\ sends' = sends
         /\ \E b \in tasks[t].rest :
              tasks' = [tasks EXCEPT ![t].stage = "called", ![t].chat = b,
                                     ![t].rest = @ \ {b}, ![t].result = "none"]
  <2>1. tasks[t].kind = "submit" => tasks[t].rest = {} /\ sends[c].stage = "saving"
    BY <1>1 DEF TaskOK
  <2>2. CASE Raise(t)
    BY <1>1, <2>2 DEF Raise
  <2>3. CASE /\ Return(t)
             /\ sends[c].stage = "saving" => disk[c].revision >= sends[c].draft.revision
    <3>1. CASE tasks[t].kind # "submit"
      BY <1>1, <2>3, <3>1 DEF Return
    <3>2. CASE tasks[t].kind = "submit"
      <4>1. /\ tasks' = [tasks EXCEPT ![t] = NoTask]
            /\ sends' = [sends EXCEPT ![c] = IF sends[c].current THEN [sends[c] EXCEPT !.stage = "saved"]
                                                                 ELSE NoSend]
        BY <1>1, <2>1, <2>3, <3>2 DEF Return
      <4>2. sends[c].current =>
              sends' = [sends EXCEPT ![c].stage = "saved"]
        BY <1>1, <4>1
      <4> QED
        BY <2>1, <2>3, <3>2, <4>1, <4>2
    <3> QED
      BY <3>1, <3>2
  <2> QED
    BY <2>2, <2>3
<1>5. /\ sends' \in [Chats -> Send] /\ \A b \in Chats \ {c} : sends'[b] = sends[b]
      /\ ChatSound(c, chats, disk[c], cache'[c], sends'[c], sent[c])
      /\ \A k : CallSound(c, chats, disk[c], cache'[c], sends[c], sent[c], k)
           => CallSound(c, chats, disk[c], cache'[c], sends'[c], sent[c], k)
  <2>1. CASE sends' = sends
    BY <1>1, <2>1
  <2>2. CASE sends' = [sends EXCEPT ![c] = NoSend]
    BY <1>1, <2>2, DroppedSound
  <2>3. CASE /\ sends' = [sends EXCEPT ![c].stage = "saved"] /\ tasks[t].kind = "submit"
             /\ disk[c].revision >= sends[c].draft.revision
    <3>1. sends[c].stage = "saving"
      BY <1>1, <2>3 DEF TaskOK
    <3>2. sends'[c] = [sends[c] EXCEPT !.stage = "saved"]
      BY <1>1, <2>3
    <3> QED
      BY <1>1, <2>3, <3>1, <3>2, SavedSound
  <2> QED
    BY <1>4, <2>1, <2>2, <2>3
<1>6. /\ OthersStand(t) /\ tasks' \in [Tasks -> Task] /\ ~Holds(tasks'[t])
      /\ tasks'[t].stage # "idle" => tasks'[t].chat \in Chats
      /\ tasks'[t].kind # "submit" /\ tasks'[t].result = "none"
  <2>1. CASE tasks' = [tasks EXCEPT ![t] = NoTask]
    BY <1>1, <1>2, <2>1 DEF OthersStand
  <2>2. CASE /\ tasks[t].kind # "submit"
             /\ \E b \in tasks[t].rest :
                  tasks' = [tasks EXCEPT ![t].stage = "called", ![t].chat = b,
                                         ![t].rest = @ \ {b}, ![t].result = "none"]
    <3>1. PICK b \in tasks[t].rest :
            tasks' = [tasks EXCEPT ![t].stage = "called", ![t].chat = b,
                                   ![t].rest = @ \ {b}, ![t].result = "none"]
      BY <2>2
    <3>2. b \in Chats
      BY <1>1
    <3>3. /\ tasks' \in [Tasks -> Task] /\ tasks'[t].stage = "called" /\ tasks'[t].chat = b
          /\ tasks'[t].result = "none"
          /\ tasks'[t].kind = tasks[t].kind /\ \A u \in Tasks \ {t} : tasks'[u] = tasks[u]
      BY <1>1, <3>1, <3>2 DEF Task
    <3> QED
      BY <2>2, <3>2, <3>3 DEF OthersStand, Holds
  <2> QED
    BY <1>4, <2>1, <2>2
<1>7. TypeOK'
  BY <1>5, <1>6 DEF DraftInv, TypeOK
<1>8. Elsewhere(c) /\ ChatOK(c)'
  BY <1>5 DEF Elsewhere, ChatOK
<1>9. ASSUME NEW u \in Tasks \ {t}, tasks[u].chat = c
      PROVE  /\ Holds(tasks[u]) => NowSound(c, tasks[u])
             /\ tasks[u].kind = "submit" => sends'[c].stage = "saving"
  <2>1. Holds(tasks[u]) => NowSound(c, tasks[u])
    BY <1>5, <1>9 DEF NowSound
  <2>2. ASSUME tasks[u].kind = "submit" PROVE sends'[c].stage = "saving"
    <3>1. tasks[t].kind # "submit"
      BY <1>3, <1>9, <2>2
    <3>2. sends' = sends
      BY <1>4, <3>1
    <3> QED
      BY <1>9, <2>2, <3>2 DEF DraftInv, TaskOK
  <2> QED
    BY <2>1, <2>2
<1> QED
  BY <1>6, <1>7, <1>8, <1>9, CallStep

-----------------------------------------------------------------------------
\* The loop of a flush.

\* The call has the chat to itself: it holds its lock, or finds it free.
Admitted(t) == \A u \in Tasks \ {t} : Holds(tasks[u]) => tasks[u].chat # tasks[t].chat

\* Whatever the head of the loop decides: return, write or raise.
LEMMA LoopSafe ==
  ASSUME DraftInv, NEW t \in Tasks, NEW c \in Chats, tasks[t].chat = c,
         tasks[t].stage # "idle", Admitted(t), Loop(t),
         UNCHANGED <<chats, disk, cache, unlocked, owed, sent>>
  PROVE  DraftInv'
<1>1. /\ tasks[t] \in Task /\ TaskOK(tasks[t])
      /\ tasks \in [Tasks -> Task]
      /\ cache[c] \in Entry /\ disk[c] \in Draft /\ sends[c] \in Send
      /\ leases \in [Chats -> Revision] /\ cache \in [Chats -> Entry]
      /\ \A b \in Chats : leases[b] # 0 => cache[b].held
  BY DEF DraftInv, TypeOK, TaskOK
<1>2. ChatSound(c, chats, disk[c], cache[c], sends[c], sent[c])
  BY <1>1 DEF DraftInv, ChatOK
<1>3. \A u \in Tasks \ {t} : Holds(tasks[u]) /\ tasks[u].chat = c =>
        CallSound(c, chats, disk[c], cache[c], sends[c], sent[c], tasks[u])
  BY DEF DraftInv, HoldOK
<1>4. ASSUME UNCHANGED leases,
             Raise(t) \/ (/\ Return(t)
                          /\ sends[c].stage = "saving" => disk[c].revision >= sends[c].draft.revision)
      PROVE  DraftInv'
  <2>1. cache' = cache /\ leases' = leases
    BY <1>4
  <2> QED
    BY <1>1, <1>2, <1>3, <1>4, <2>1, LeaveSafe
<1>5. ASSUME ~cache[c].dirty, Return(t), UNCHANGED leases PROVE DraftInv'
  <2>1. sends[c].stage = "saving" => c \in chats
    BY <1>2 DEF ChatSound, EntrySound, NoSend
  <2>2. /\ disk[c].revision \in Nat /\ cache[c].draft.revision \in Nat
        /\ sends[c].draft.revision \in Nat
    BY <1>1 DEF Draft, Entry, Send, Revision
  <2>3. sends[c].stage = "saving" => disk[c].revision >= sends[c].draft.revision
    BY <1>2, <1>5, <2>1, <2>2 DEF ChatSound, EntrySound, SendSound, Follows
  <2> QED
    BY <1>4, <1>5, <2>3
<1>6. ASSUME cache[c].dirty, NEW lease \in Revision, UNCHANGED sends,
             leases' \in [Chats -> Revision], \A b \in Chats : leases'[b] # 0 => leases[b] # 0,
             tasks' = [tasks EXCEPT ![t].stage = "writing", ![t].draft = cache[c].draft,
                                    ![t].lease = lease, ![t].result = "none"]
      PROVE  DraftInv'
  <2>1. /\ tasks' \in [Tasks -> Task] /\ OthersStand(t)
        /\ tasks'[t].stage = "writing" /\ tasks'[t].draft = cache[c].draft
        /\ tasks'[t].result = "none" /\ tasks'[t].chat = c
        /\ tasks'[t].kind = tasks[t].kind /\ tasks'[t].rest = tasks[t].rest
    BY <1>1, <1>6 DEF Task, OthersStand, Entry
  <2>2. TypeOK'
    BY <1>1, <1>6, <2>1 DEF DraftInv, TypeOK
  <2>3. Elsewhere(c) /\ ChatOK(c)'
    BY <1>2, <1>6 DEF Elsewhere, ChatOK
  <2>4. NowSound(c, tasks'[t])
    <3>1. cache[c].draft.revision \in Nat
      BY <1>1 DEF Entry, Draft, Revision
    <3>2. cache[c].held
      BY <1>2, <1>6 DEF ChatSound, EntrySound
    <3>3. sends[c].stage # "none" => Of(cache[c].draft, sends[c].draft)
      BY <1>2, <3>2 DEF ChatSound, SendSound, Follows
    <3>4. /\ disk'[c] = disk[c] /\ cache'[c] = cache[c] /\ sends'[c] = sends[c]
      BY <1>6
    <3> QED
      BY <2>1, <3>1, <3>3, <3>4 DEF NowSound, CallSound, WriteSound, ReadSound, Agree
  <2>5. \A u \in Tasks \ {t} : tasks[u].chat = c =>
          /\ ~Holds(tasks[u])
          /\ tasks[u].kind = "submit" => sends'[c].stage = "saving"
    BY <1>6 DEF Admitted, DraftInv, TaskOK
  <2>6. tasks'[t].kind = "submit" =>
          /\ tasks'[t].rest = {} /\ sends'[c].stage = "saving"
          /\ \A u \in Tasks \ {t} : tasks[u].kind = "submit" => tasks[u].chat # c
    BY <1>1, <1>6, <2>1 DEF TaskOK, DraftInv, Alone, Apart
  <2>7. \A u \in Tasks \ {t} : Holds(tasks[u]) => tasks[u].chat # c
    BY DEF Admitted
  <2> QED
    BY <1>1, <2>1, <2>2, <2>3, <2>4, <2>5, <2>6, <2>7, CallStep DEF Holds
<1>7. cache[c].draft.revision \in Revision /\ leases[c] \in Revision
  BY <1>1 DEF Entry, Draft
<1>8. CASE ~cache[c].dirty /\ Return(t) /\ UNCHANGED leases
  BY <1>5, <1>8
<1>9. CASE Raise(t) /\ UNCHANGED leases
  BY <1>4, <1>9
<1>10. CASE /\ cache[c].dirty /\ leases' = [leases EXCEPT ![c] = 0] /\ UNCHANGED sends
            /\ tasks' = [tasks EXCEPT ![t].stage = "writing", ![t].draft = cache[c].draft,
                                      ![t].lease = leases[c], ![t].result = "none"]
  <2>1. leases' \in [Chats -> Revision] /\ \A b \in Chats : leases'[b] # 0 => leases[b] # 0
    BY <1>1, <1>10 DEF Revision
  <2> QED
    BY <1>6, <1>7, <1>10, <2>1
<1>11. CASE /\ cache[c].dirty /\ UNCHANGED <<leases, sends>>
            /\ tasks' = [tasks EXCEPT ![t].stage = "writing", ![t].draft = cache[c].draft,
                                      ![t].lease = cache[c].draft.revision, ![t].result = "none"]
  BY <1>1, <1>6, <1>7, <1>11
<1> QED
  BY <1>8, <1>9, <1>10, <1>11 DEF Loop

-----------------------------------------------------------------------------
\* The calls that begin.

\* What each step starts from: the types of one chat and of one call.
LEMMA Parts ==
  ASSUME DraftInv
  PROVE  /\ chats \subseteq Chats /\ disk \in [Chats -> Draft] /\ cache \in [Chats -> Entry]
         /\ leases \in [Chats -> Revision] /\ tasks \in [Tasks -> Task]
         /\ sends \in [Chats -> Send] /\ sent \in [Chats -> SentRow]
         /\ unlocked \in BOOLEAN /\ owed \in BOOLEAN
         /\ \A c \in Chats : leases[c] # 0 => cache[c].held
         /\ \A c \in Chats : ChatSound(c, chats, disk[c], cache[c], sends[c], sent[c])
         /\ \A t \in Tasks : TaskOK(tasks[t])
         /\ \A t \in Tasks : Holds(tasks[t]) =>
              CallSound(tasks[t].chat, chats, disk[tasks[t].chat], cache[tasks[t].chat],
                        sends[tasks[t].chat], sent[tasks[t].chat], tasks[t])
  BY DEF DraftInv, TypeOK, SentRow, ChatOK, HoldOK

\* A call that begins has a chat, no lock and no result.
LEMMA CalledIs ==
  ASSUME DraftInv, NEW t \in Tasks, NEW kind \in {"flush", "submit", "load"}, NEW c \in Chats,
         NEW rest \in SUBSET Chats, Call(t, kind, c, rest)
  PROVE  /\ tasks' \in [Tasks -> Task] /\ OthersStand(t) /\ ~Holds(tasks'[t])
         /\ tasks'[t].stage = "called" /\ tasks'[t].kind = kind /\ tasks'[t].chat = c
         /\ tasks'[t].rest = rest /\ tasks'[t].result = "none"
<1> DEFINE k == [NoTask EXCEPT !.stage = "called", !.kind = kind, !.chat = c,
                               !.rest = rest, !.current = unlocked]
<1>1. NoTask \in Task
  BY DEF NoTask, Task, NoDraft, Draft, Revision
<1>2. /\ k \in Task /\ k.stage = "called" /\ k.kind = kind /\ k.chat = c /\ k.rest = rest
      /\ k.result = "none"
  BY <1>1, Parts DEF Task, NoTask
<1>3. tasks' = [tasks EXCEPT ![t] = k]
  BY DEF Call
<1> HIDE DEF k
<1> QED
  BY <1>2, <1>3, Parts DEF OthersStand, Holds

\* The entry of c is another, and everything about c still fits.
Renewed(c) ==
  /\ cache' \in [Chats -> Entry] /\ \A b \in Chats \ {c} : cache'[b] = cache[b]
  /\ \A b \in Chats : leases[b] # 0 => cache'[b].held
  /\ ChatSound(c, chats, disk[c], cache'[c], sends[c], sent[c])
  /\ \A k \in Task : CallSound(c, chats, disk[c], cache[c], sends[c], sent[c], k)
       => CallSound(c, chats, disk[c], cache'[c], sends[c], sent[c], k)

\* An edit of one entry, or none.
LEMMA EditRenews ==
  ASSUME DraftInv, NEW c \in Chats,
         \/ cache' = cache
         \/ \E text \in Texts \cup {Blank} :
              cache[c].held /\ cache' = [cache EXCEPT ![c] = Edited(@, text)]
  PROVE  Renewed(c)
<1>1. CASE cache' = cache
  BY <1>1, Parts DEF Renewed
<1>2. ASSUME NEW text \in Texts \cup {Blank}, cache[c].held,
             cache' = [cache EXCEPT ![c] = Edited(@, text)]
      PROVE  Renewed(c)
  <2>1. cache[c] \in Entry /\ disk[c] \in Draft /\ sends[c] \in Send /\ sent[c] \in SentRow
    BY Parts
  <2>2. Edited(cache[c], text) \in Entry /\ Edited(cache[c], text).held = cache[c].held
    BY <2>1, EditedIs
  <2>3. /\ cache' \in [Chats -> Entry] /\ \A b \in Chats \ {c} : cache'[b] = cache[b]
        /\ cache'[c] = Edited(cache[c], text)
    BY <1>2, <2>2, Parts
  <2>4. ChatSound(c, chats, disk[c], cache[c], sends[c], sent[c])
    BY Parts
  <2>5. /\ ChatSound(c, chats, disk[c], Edited(cache[c], text), sends[c], sent[c])
        /\ \A k \in Task : CallSound(c, chats, disk[c], cache[c], sends[c], sent[c], k)
             => CallSound(c, chats, disk[c], Edited(cache[c], text), sends[c], sent[c], k)
    BY <1>2, <2>1, <2>4, EditSound
  <2> QED
    BY <1>2, <2>2, <2>3, <2>5, Parts DEF Renewed
<1> QED
  BY <1>1, <1>2

\* A call of flush or load that begins, with the entry edited or as it was.
LEMMA BegunSafe ==
  ASSUME DraftInv, NEW t \in Tasks, NEW kind \in {"flush", "load"}, NEW c \in Chats,
         NEW rest \in SUBSET Chats, Call(t, kind, c, rest), Renewed(c),
         UNCHANGED <<chats, disk, leases, sends, unlocked, sent>>, owed' \in BOOLEAN
  PROVE  DraftInv'
<1>1. /\ tasks' \in [Tasks -> Task] /\ OthersStand(t) /\ ~Holds(tasks'[t])
      /\ tasks'[t].stage = "called" /\ tasks'[t].kind = kind /\ tasks'[t].chat = c
      /\ tasks'[t].result = "none"
  BY CalledIs
<1>2. TypeOK'
  BY <1>1 DEF DraftInv, TypeOK, Renewed
<1>3. Elsewhere(c) /\ ChatOK(c)'
  BY DEF Elsewhere, ChatOK, Renewed
<1>4. ASSUME NEW u \in Tasks \ {t}, tasks[u].chat = c
      PROVE  /\ Holds(tasks[u]) => NowSound(c, tasks[u])
             /\ tasks[u].kind = "submit" => sends'[c].stage = "saving"
  <2>1. tasks[u] \in Task
    BY Parts
  <2>2. Holds(tasks[u]) => NowSound(c, tasks[u])
    BY <1>4, <2>1, Parts DEF Renewed, NowSound
  <2> QED
    BY <1>4, <2>2, Parts DEF TaskOK
<1> QED
  BY <1>1, <1>2, <1>3, <1>4, CallStep

\* update_draft.
LEMMA UpdateDraftSafe ==
  ASSUME DraftInv, NEW t \in Tasks, NEW c \in Chats, NEW text \in Texts \cup {Blank},
         UpdateDraft(t, c, text)
  PROVE  DraftInv'
<1>1. Renewed(c)
  BY EditRenews DEF UpdateDraft, CanEdit
<1>2. owed' \in BOOLEAN
  BY Parts DEF UpdateDraft
<1> QED
  BY <1>1, <1>2, BegunSafe DEF UpdateDraft

\* flush_all.
LEMMA FlushAllSafe ==
  ASSUME DraftInv, NEW t \in Tasks, FlushAll(t)
  PROVE  DraftInv'
<1> DEFINE keys == {c \in Chats : cache[c].held}
<1>1. PICK c \in keys : Call(t, "flush", c, keys \ {c})
  BY DEF FlushAll
<1>2. Renewed(c)
  BY EditRenews DEF FlushAll
<1>3. keys \ {c} \in SUBSET Chats
  OBVIOUS
<1> QED
  BY <1>1, <1>2, <1>3, BegunSafe DEF FlushAll

\* load, until it asks for the lock.
LEMMA LoadSafe ==
  ASSUME DraftInv, NEW t \in Tasks, NEW c \in Chats, Load(t, c)
  PROVE  DraftInv'
<1>1. Renewed(c) /\ owed' \in BOOLEAN
  BY EditRenews, Parts DEF Load
<1> QED
  BY <1>1, BegunSafe DEF Load

\* submit_message, until its flush.
LEMMA SubmitMessageSafe ==
  ASSUME DraftInv, DraftsAssumption, NEW t \in Tasks, NEW c \in Chats, NEW text \in Texts,
         SubmitMessage(t, c, text)
  PROVE  DraftInv'
<1> DEFINE e == Edited(cache[c], text)
           s == Submitted(e)
<1>1. cache[c] \in Entry /\ disk[c] \in Draft /\ sends[c] = NoSend /\ sent[c] \in SentRow
  BY Parts DEF SubmitMessage
<1>2. /\ cache' = [cache EXCEPT ![c] = e] /\ sends' = [sends EXCEPT ![c] = s]
      /\ cache[c].held /\ c \in chats /\ Call(t, "submit", c, {})
  BY Parts DEF SubmitMessage, CanEdit, Submitted
<1>3. e \in Entry /\ e.held = cache[c].held
  BY <1>1, EditedIs
<1>4. /\ s \in Send /\ s.stage = "saving"
      /\ ChatSound(c, chats, disk[c], e, s, sent[c])
      /\ \A k \in Task : CallSound(c, chats, disk[c], cache[c], sends[c], sent[c], k)
           => CallSound(c, chats, disk[c], e, s, sent[c], k)
  <2>1. ChatSound(c, chats, disk[c], cache[c], sends[c], sent[c])
    BY Parts
  <2> QED
    BY <1>1, <1>2, <2>1, SubmitSound
<1> HIDE DEF e, s
<1>5. /\ tasks' \in [Tasks -> Task] /\ OthersStand(t) /\ ~Holds(tasks'[t])
      /\ tasks'[t].stage = "called" /\ tasks'[t].kind = "submit" /\ tasks'[t].chat = c
      /\ tasks'[t].rest = {} /\ tasks'[t].result = "none"
  BY <1>2, CalledIs
<1>6. /\ cache'[c] = e /\ sends'[c] = s
      /\ cache' \in [Chats -> Entry] /\ sends' \in [Chats -> Send]
      /\ \A b \in Chats \ {c} : cache'[b] = cache[b] /\ sends'[b] = sends[b]
      /\ \A b \in Chats : cache'[b].held = cache[b].held
  BY <1>2, <1>3, <1>4, Parts
<1>7. UNCHANGED <<chats, disk, leases, unlocked, owed, sent>>
  BY DEF SubmitMessage
<1>8. TypeOK'
  BY <1>5, <1>6, <1>7 DEF DraftInv, TypeOK
<1>9. Elsewhere(c) /\ ChatOK(c)'
  BY <1>4, <1>6, <1>7 DEF Elsewhere, ChatOK
<1>10. \A u \in Tasks : ~(tasks[u].kind = "submit" /\ tasks[u].chat = c)
  <2>1. NoSend.stage # "saving"
    BY DEF NoSend
  <2> QED
    BY <1>1, <2>1, Parts DEF TaskOK
<1>11. \A u \in Tasks : tasks[u].chat = c /\ Holds(tasks[u]) => NowSound(c, tasks[u])
  BY <1>4, <1>6, <1>7, Parts DEF NowSound
<1> QED
  BY <1>4, <1>5, <1>6, <1>8, <1>9, <1>10, <1>11, CallStep

-----------------------------------------------------------------------------
\* The steps of a flush.

\* Call t, which stays what it was, is at another point of its own chat, which
\* is as it was but for the row, the entry and the flags of t.
LEMMA PointStep ==
  ASSUME DraftInv, NEW t \in Tasks, NEW c \in Chats, tasks[t].chat = c, tasks[t].stage # "idle",
         tasks' \in [Tasks -> Task], OthersStand(t),
         tasks'[t].stage # "idle", tasks'[t].chat = c,
         tasks'[t].kind = tasks[t].kind, tasks'[t].rest = tasks[t].rest,
         UNCHANGED <<chats, leases, sends, unlocked, owed, sent>>,
         disk' \in [Chats -> Draft], \A b \in Chats \ {c} : disk'[b] = disk[b], cache' = cache,
         ChatSound(c, chats, disk'[c], cache[c], sends[c], sent[c]),
         IF Holds(tasks'[t]) THEN Admitted(t) /\ NowSound(c, tasks'[t])
                             ELSE tasks'[t].result = "none",
         disk' # disk => Admitted(t)
  PROVE  DraftInv'
<1>1. TypeOK'
  BY DEF DraftInv, TypeOK
<1>2. Elsewhere(c) /\ ChatOK(c)'
  BY DEF Elsewhere, ChatOK
<1>3. ASSUME NEW u \in Tasks \ {t}, tasks[u].chat = c
      PROVE  /\ Holds(tasks[u]) => NowSound(c, tasks[u])
             /\ tasks[u].kind = "submit" => sends'[c].stage = "saving"
  BY <1>3, Parts DEF NowSound, Admitted, TaskOK
<1>4. tasks'[t].kind = "submit" =>
        /\ tasks'[t].rest = {} /\ sends'[c].stage = "saving"
        /\ \A u \in Tasks \ {t} : tasks[u].kind = "submit" => tasks[u].chat # c
  BY DEF DraftInv, TaskOK, Alone, Apart
<1>5. Holds(tasks'[t]) => \A u \in Tasks \ {t} : Holds(tasks[u]) => tasks[u].chat # c
  BY DEF Admitted
<1> QED
  BY <1>1, <1>2, <1>3, <1>4, <1>5, CallStep

\* A call that has to wait for the lock.
LEMMA WaitSafe ==
  ASSUME DraftInv, NEW t \in Tasks, Wait(t)
  PROVE  DraftInv'
<1>1. tasks[t].chat \in Chats /\ tasks[t].stage = "called"
  BY Parts DEF Wait, TaskOK
<1>2. PICK c \in Chats : tasks[t].chat = c
  BY <1>1
<1>3. /\ tasks' \in [Tasks -> Task] /\ OthersStand(t) /\ tasks'[t].stage = "waiting"
      /\ tasks'[t].chat = c /\ tasks'[t].kind = tasks[t].kind /\ tasks'[t].rest = tasks[t].rest
      /\ tasks'[t].result = tasks[t].result
  BY <1>2, Parts DEF Wait, Task, OthersStand
<1>4. ~Holds(tasks'[t]) /\ tasks'[t].result = "none"
  BY <1>1, <1>3, Parts DEF Holds, TaskOK
<1>5. UNCHANGED <<chats, disk, cache, leases, sends, unlocked, owed, sent>>
  BY DEF Wait
<1>6. disk' \in [Chats -> Draft] /\ ChatSound(c, chats, disk'[c], cache[c], sends[c], sent[c])
  BY <1>5, Parts
<1> QED
  BY <1>1, <1>2, <1>3, <1>4, <1>5, <1>6, PointStep

\* A chat that is free admits whoever comes.
LEMMA FreeAdmits ==
  ASSUME NEW t \in Tasks, LockFree(tasks[t].chat)
  PROVE  Admitted(t)
  BY DEF LockFree, Admitted, Holds

\* The call that holds the lock is alone.
LEMMA HolderAlone ==
  ASSUME DraftInv, NEW t \in Tasks, Holds(tasks[t])
  PROVE  Admitted(t)
  BY DEF DraftInv, Alone, Apart, Admitted

\* A flush that has the lock.
LEMMA BeginFlushSafe ==
  ASSUME DraftInv, NEW t \in Tasks, BeginFlush(t)
  PROVE  DraftInv'
<1>1. tasks[t].stage # "idle" /\ tasks[t].chat \in Chats
  BY Parts DEF BeginFlush, TaskOK
<1> QED
  BY <1>1, FreeAdmits, LoopSafe DEF BeginFlush

\* What a worker reports.
LEMMA WorkerEndsIs ==
  ASSUME DraftInv, NEW t \in Tasks, NEW result \in {"ok", "failed"}, NEW stored \in Draft,
         WorkerEnds(t, result, stored)
  PROVE  /\ tasks' \in [Tasks -> Task] /\ OthersStand(t)
         /\ tasks'[t].stage = tasks[t].stage /\ tasks'[t].chat = tasks[t].chat
         /\ tasks'[t].kind = tasks[t].kind /\ tasks'[t].rest = tasks[t].rest
         /\ tasks'[t].draft = tasks[t].draft /\ tasks'[t].valid = tasks[t].valid
         /\ tasks'[t].result = result /\ tasks'[t].stored = stored
         /\ UNCHANGED <<chats, cache, leases, sends, unlocked, owed, sent>>
<1> DEFINE k == [tasks[t] EXCEPT !.result = result, !.stored = stored]
<1>1. tasks \in [Tasks -> Task] /\ tasks[t] \in Task
  BY Parts
<1>2. /\ k \in Task /\ k.stage = tasks[t].stage /\ k.chat = tasks[t].chat
      /\ k.kind = tasks[t].kind /\ k.rest = tasks[t].rest /\ k.draft = tasks[t].draft
      /\ k.valid = tasks[t].valid /\ k.result = result /\ k.stored = stored
  BY <1>1 DEF Task
<1>3. tasks' = [tasks EXCEPT ![t] = k]
  BY <1>1 DEF WorkerEnds
<1> HIDE DEF k
<1> QED
  BY <1>1, <1>2, <1>3 DEF WorkerEnds, OthersStand

\* A row that a write replaces is older, and has the text the entry had.
LEMMA SavedRowSound ==
  ASSUME NEW c, NEW existing, NEW d \in Draft, NEW e \in Entry, NEW s \in Send, NEW z \in SentRow,
         NEW k \in Task, ChatSound(c, existing, d, e, s, z), c \in existing,
         k.stage = "writing", CallSound(c, existing, d, e, s, z, k),
         k.draft.revision > d.revision
  PROVE  ChatSound(c, existing, k.draft, e, s, z)
<1>1. /\ k.draft.revision \in Nat /\ d.revision \in Nat /\ e.draft.revision \in Nat
      /\ s.draft.revision \in Nat /\ z.draft.revision \in Nat
  BY DEF Task, Draft, Entry, Send, SentRow, Revision
<1>2. e.held => k.draft.revision <= e.draft.revision /\ Agree(k.draft, e.draft)
  BY DEF CallSound, WriteSound
<1>3. EntrySound(c, existing, k.draft, e, s)
  BY <1>1, <1>2 DEF ChatSound, EntrySound
<1>4. SendSound(k.draft, e, s)
  BY <1>1 DEF ChatSound, SendSound, CallSound, WriteSound, Past
<1>5. SentSound(c, existing, k.draft, e, s, z)
  BY <1>1 DEF ChatSound, SentSound, Past
<1> QED
  BY <1>3, <1>4, <1>5 DEF ChatSound

\* The transaction of save_draft, whether it writes, loses to a newer row or fails.
LEMMA SaveDraftSafe ==
  ASSUME DraftInv, NEW t \in Tasks, SaveDraft(t)
  PROVE  DraftInv'
<1>1. tasks[t].stage = "writing" /\ Holds(tasks[t]) /\ tasks[t].chat \in Chats /\ tasks[t] \in Task
  BY Parts DEF SaveDraft, TaskOK, Holds
<1>2. PICK c \in Chats : tasks[t].chat = c
  BY <1>1
<1>3. /\ Admitted(t)
      /\ CallSound(c, chats, disk[c], cache[c], sends[c], sent[c], tasks[t])
      /\ ChatSound(c, chats, disk[c], cache[c], sends[c], sent[c])
      /\ disk[c] \in Draft /\ cache[c] \in Entry /\ sends[c] \in Send /\ sent[c] \in SentRow
      /\ tasks[t].draft \in Draft
  BY <1>1, <1>2, HolderAlone, Parts DEF Task
<1> DEFINE row == IF tasks[t].draft.revision > disk[c].revision THEN tasks[t].draft ELSE disk[c]
<1>4. ASSUME c \in chats, disk' = [disk EXCEPT ![c] = row], WorkerEnds(t, "ok", row)
      PROVE  DraftInv'
  <2>1. row \in Draft
    BY <1>3
  <2>2. /\ tasks' \in [Tasks -> Task] /\ OthersStand(t)
        /\ tasks'[t].stage = "writing" /\ tasks'[t].chat = c
        /\ tasks'[t].kind = tasks[t].kind /\ tasks'[t].rest = tasks[t].rest
        /\ tasks'[t].draft = tasks[t].draft
        /\ tasks'[t].result = "ok" /\ tasks'[t].stored = row
        /\ UNCHANGED <<chats, cache, leases, sends, unlocked, owed, sent>>
    BY <1>1, <1>2, <1>4, <2>1, WorkerEndsIs
  <2>3. disk' \in [Chats -> Draft] /\ disk'[c] = row /\ \A b \in Chats \ {c} : disk'[b] = disk[b]
    BY <1>4, <2>1, Parts
  <2>4. ChatSound(c, chats, row, cache[c], sends[c], sent[c])
    BY <1>1, <1>3, <1>4, SavedRowSound
  <2>5. NowSound(c, tasks'[t])
    <3>1. row.revision \in Nat
      BY <2>1 DEF Draft, Revision
    <3> HIDE DEF row
    <3> QED
      BY <1>1, <1>3, <2>2, <2>3, <3>1 DEF NowSound, CallSound, WriteSound, ReadSound
  <2> QED
    BY <1>1, <1>2, <1>3, <2>2, <2>3, <2>4, <2>5, PointStep DEF Holds
<1>5. ASSUME UNCHANGED disk, WorkerEnds(t, "failed", NoDraft)
      PROVE  DraftInv'
  <2>1. NoDraft \in Draft
    BY DEF NoDraft, Draft, Revision
  <2>2. /\ tasks' \in [Tasks -> Task] /\ OthersStand(t)
        /\ tasks'[t].stage = "writing" /\ tasks'[t].chat = c
        /\ tasks'[t].kind = tasks[t].kind /\ tasks'[t].rest = tasks[t].rest
        /\ tasks'[t].draft = tasks[t].draft
        /\ tasks'[t].result = "failed"
        /\ UNCHANGED <<chats, cache, leases, sends, unlocked, owed, sent>>
    BY <1>1, <1>2, <1>5, <2>1, WorkerEndsIs
  <2>3. NowSound(c, tasks'[t])
    BY <1>1, <1>3, <1>5, <2>2 DEF NowSound, CallSound, WriteSound, ReadSound
  <2>4. disk' \in [Chats -> Draft] /\ \A b \in Chats \ {c} : disk'[b] = disk[b]
    BY <1>5, Parts
  <2>5. ChatSound(c, chats, disk'[c], cache[c], sends[c], sent[c])
    BY <1>3, <1>5
  <2> QED
    BY <1>1, <1>2, <1>3, <1>5, <2>2, <2>3, <2>4, <2>5, PointStep DEF Holds
<1> QED
  BY <1>2, <1>4, <1>5 DEF SaveDraft

\* What a write that found the entry unchanged makes of it.
LEMMA WrittenSound ==
  ASSUME NEW c, NEW existing, NEW d \in Draft, NEW e \in Entry, NEW s \in Send, NEW z \in SentRow,
         ChatSound(c, existing, d, e, s, z), e.held,
         c \in existing => d.revision >= e.draft.revision
  PROVE  LET f == [e EXCEPT !.dirty = FALSE] IN
         /\ f \in Entry /\ f.held
         /\ ChatSound(c, existing, d, f, s, z)
         /\ s.stage # "none" => d.revision >= s.draft.revision
<1> DEFINE f == [e EXCEPT !.dirty = FALSE]
<1>1. f \in Entry /\ f.held = e.held /\ f.draft = e.draft /\ f.dirty = FALSE
  BY DEF Entry
<1>2. d.revision \in Nat /\ e.draft.revision \in Nat /\ s.draft.revision \in Nat
  BY DEF Entry, Draft, Send, Revision
<1> HIDE DEF f
<1>3. c \in existing => d.revision = e.draft.revision
  BY <1>2 DEF ChatSound, EntrySound
<1>4. EntrySound(c, existing, d, f, s)
  BY <1>1, <1>3 DEF ChatSound, EntrySound
<1>5. SendSound(d, f, s)
  BY <1>1 DEF ChatSound, SendSound
<1>6. SentSound(c, existing, d, f, s, z)
  BY <1>1 DEF ChatSound, SentSound
<1>7. s.stage # "none" => c \in existing
  BY DEF ChatSound, EntrySound, NoSend
<1>8. s.stage # "none" => d.revision >= s.draft.revision
  BY <1>2, <1>3, <1>7 DEF ChatSound, SendSound, Follows
<1> QED
  BY <1>1, <1>4, <1>5, <1>6, <1>8 DEF ChatSound, f

\* What the loop makes of the answer of save_draft.
LEMMA AfterWriteSafe ==
  ASSUME DraftInv, NEW t \in Tasks, AfterWrite(t)
  PROVE  DraftInv'
<1>1. tasks[t].stage = "writing" /\ Holds(tasks[t]) /\ tasks[t].chat \in Chats /\ tasks[t] \in Task
  BY Parts DEF AfterWrite, TaskOK, Holds
<1>2. PICK c \in Chats : tasks[t].chat = c
  BY <1>1
<1>3. /\ Admitted(t)
      /\ CallSound(c, chats, disk[c], cache[c], sends[c], sent[c], tasks[t])
      /\ ChatSound(c, chats, disk[c], cache[c], sends[c], sent[c])
      /\ disk[c] \in Draft /\ cache[c] \in Entry /\ sends[c] \in Send /\ sent[c] \in SentRow
  BY <1>1, <1>2, HolderAlone, Parts
<1>4. UNCHANGED <<chats, disk, unlocked, owed, sent>> /\ tasks[t].result # "none"
  BY DEF AfterWrite
<1>5. \A u \in Tasks \ {t} : ~(Holds(tasks[u]) /\ tasks[u].chat = c)
  BY <1>2, <1>3 DEF Admitted
<1>6. ASSUME Raise(t), UNCHANGED <<cache, leases>> PROVE DraftInv'
  BY <1>1, <1>2, <1>3, <1>4, <1>5, <1>6, Parts, LeaveSafe
<1>7. ASSUME Unchanged(t), tasks[t].result = "ok", tasks[t].stored = tasks[t].draft,
             cache' = [cache EXCEPT ![c] = IF unlocked THEN [@ EXCEPT !.dirty = FALSE] ELSE NoEntry],
             leases' = IF unlocked THEN leases ELSE [leases EXCEPT ![c] = 0],
             Raise(t) \/ Return(t)
      PROVE  DraftInv'
  <2> DEFINE f == [cache[c] EXCEPT !.dirty = FALSE]
  <2>1. cache[c].held /\ cache[c].draft = tasks[t].draft
    BY <1>2, <1>7 DEF Unchanged
  <2>2. c \in chats => disk[c].revision >= cache[c].draft.revision
    BY <1>1, <1>3, <1>7, <2>1 DEF CallSound, WriteSound
  <2>3. /\ f \in Entry /\ f.held
        /\ ChatSound(c, chats, disk[c], f, sends[c], sent[c])
        /\ sends[c].stage # "none" => disk[c].revision >= sends[c].draft.revision
    BY <1>3, <2>1, <2>2, WrittenSound
  <2>4. f.dirty = FALSE
    BY <1>3 DEF Entry
  <2> HIDE DEF f
  <2>5. ChatSound(c, chats, disk[c], NoEntry, sends[c], sent[c])
    BY <1>3, <2>3, <2>4, ForgetSound
  <2>6. NoEntry \in Entry
    BY DEF NoEntry, Entry, NoDraft, Draft, Revision
  <2>7. cache' = [cache EXCEPT ![c] = IF unlocked THEN f ELSE NoEntry]
    BY <1>7, Parts DEF f
  <2>8. /\ cache' \in [Chats -> Entry] /\ \A b \in Chats \ {c} : cache'[b] = cache[b]
        /\ cache'[c] = IF unlocked THEN f ELSE NoEntry
        /\ ChatSound(c, chats, disk[c], cache'[c], sends[c], sent[c])
    BY <2>3, <2>5, <2>6, <2>7, Parts
  <2>9. leases' \in [Chats -> Revision] /\ \A b \in Chats : leases'[b] # 0 => cache'[b].held
    BY <1>7, <2>3, <2>8, Parts DEF Revision
  <2>10. Raise(t) \/ (/\ Return(t)
                      /\ sends[c].stage = "saving" => disk[c].revision >= sends[c].draft.revision)
    BY <1>7, <2>3
  <2>11. \A u \in Tasks \ {t} : Holds(tasks[u]) /\ tasks[u].chat = c =>
           CallSound(c, chats, disk[c], cache'[c], sends[c], sent[c], tasks[u])
    BY <1>5
  <2>12. tasks[t].stage # "idle"
    BY <1>1
  <2> QED
    BY <1>2, <1>4, <2>8, <2>9, <2>10, <2>11, <2>12, LeaveSafe
<1>8. ASSUME Loop(t), UNCHANGED cache PROVE DraftInv'
  <2>1. UNCHANGED <<chats, disk, cache, unlocked, owed, sent>>
    BY <1>4, <1>8
  <2> QED
    BY <1>1, <1>2, <1>3, <1>8, <2>1, LoopSafe
<1>9. tasks[t].result \in {"none", "ok", "failed"}
  BY <1>1 DEF Task
<1> QED
  BY <1>2, <1>4, <1>6, <1>7, <1>8, <1>9 DEF AfterWrite

-----------------------------------------------------------------------------
\* The steps of a load.

\* A load that has the lock remembers the entry.
LEMMA BeginLoadSafe ==
  ASSUME DraftInv, NEW t \in Tasks, BeginLoad(t)
  PROVE  DraftInv'
<1>1. /\ tasks[t].stage \in {"called", "waiting"} /\ tasks[t].chat \in Chats /\ tasks[t] \in Task
      /\ tasks[t].result = "none"
  BY Parts DEF BeginLoad, TaskOK, Holds
<1>2. PICK c \in Chats : tasks[t].chat = c
  BY <1>1
<1>3. /\ Admitted(t)
      /\ ChatSound(c, chats, disk[c], cache[c], sends[c], sent[c])
      /\ disk[c] \in Draft /\ cache[c] \in Entry /\ sends[c] \in Send /\ sent[c] \in SentRow
  BY <1>2, FreeAdmits, Parts DEF BeginLoad
<1>4. UNCHANGED <<chats, disk, cache, leases, sends, unlocked, owed, sent>>
  BY DEF BeginLoad
<1>5. /\ tasks' \in [Tasks -> Task] /\ OthersStand(t)
      /\ tasks'[t].stage = "reading" /\ tasks'[t].chat = c
      /\ tasks'[t].kind = tasks[t].kind /\ tasks'[t].rest = tasks[t].rest
      /\ tasks'[t].draft = cache[c].draft /\ tasks'[t].result = "none"
  <2> DEFINE k == [tasks[t] EXCEPT !.stage = "reading", !.draft = cache[c].draft]
  <2>1. cache[c].draft \in Draft
    BY <1>3 DEF Entry
  <2>2. /\ k \in Task /\ k.stage = "reading" /\ k.draft = cache[c].draft
        /\ k.kind = tasks[t].kind /\ k.rest = tasks[t].rest /\ k.chat = c /\ k.result = "none"
    BY <1>1, <1>2, <2>1 DEF Task
  <2>3. tasks' = [tasks EXCEPT ![t] = k]
    BY <1>2, Parts DEF BeginLoad
  <2> HIDE DEF k
  <2> QED
    BY <2>2, <2>3, Parts DEF OthersStand
<1>6. NowSound(c, tasks'[t])
  <2>1. cache[c].draft.revision \in Nat
    BY <1>3 DEF Entry, Draft, Revision
  <2> QED
    BY <1>4, <1>5, <2>1 DEF NowSound, CallSound, WriteSound, ReadSound, Follows, Of
<1>7. disk' \in [Chats -> Draft] /\ ChatSound(c, chats, disk'[c], cache[c], sends[c], sent[c])
  BY <1>3, <1>4, Parts
<1>8. tasks[t].stage # "idle" /\ tasks'[t].stage # "idle" /\ Holds(tasks'[t])
  BY <1>1, <1>5 DEF Holds
<1> QED
  BY <1>2, <1>3, <1>4, <1>5, <1>6, <1>7, <1>8, PointStep

\* The transaction of get_draft.
LEMMA GetDraftSafe ==
  ASSUME DraftInv, NEW t \in Tasks, GetDraft(t)
  PROVE  DraftInv'
<1>1. tasks[t].stage = "reading" /\ Holds(tasks[t]) /\ tasks[t].chat \in Chats /\ tasks[t] \in Task
  BY Parts DEF GetDraft, TaskOK, Holds
<1>2. PICK c \in Chats : tasks[t].chat = c
  BY <1>1
<1>3. /\ Admitted(t)
      /\ CallSound(c, chats, disk[c], cache[c], sends[c], sent[c], tasks[t])
      /\ ChatSound(c, chats, disk[c], cache[c], sends[c], sent[c])
      /\ disk[c] \in Draft /\ cache[c] \in Entry /\ sends[c] \in Send /\ sent[c] \in SentRow
  BY <1>1, <1>2, HolderAlone, Parts
<1>4. /\ disk' = disk
      /\ \/ c \in chats /\ WorkerEnds(t, "ok", disk[c])
         \/ WorkerEnds(t, "failed", NoDraft)
  BY <1>2 DEF GetDraft
<1>5. NoDraft \in Draft
  BY DEF NoDraft, Draft, Revision
<1>6. PICK result \in {"ok", "failed"}, stored \in Draft :
        /\ WorkerEnds(t, result, stored)
        /\ result = "ok" => c \in chats /\ stored = disk[c]
  BY <1>3, <1>4, <1>5
<1>7. /\ tasks' \in [Tasks -> Task] /\ OthersStand(t)
      /\ tasks'[t].stage = "reading" /\ tasks'[t].chat = c
      /\ tasks'[t].kind = tasks[t].kind /\ tasks'[t].rest = tasks[t].rest
      /\ tasks'[t].draft = tasks[t].draft /\ tasks'[t].valid = tasks[t].valid
      /\ tasks'[t].result = result /\ tasks'[t].stored = stored
      /\ UNCHANGED <<chats, cache, leases, sends, unlocked, owed, sent>>
  BY <1>1, <1>2, <1>6, WorkerEndsIs
<1>8. ASSUME c \in chats
      PROVE  /\ cache[c].held => disk[c].revision <= cache[c].draft.revision
                                 /\ Agree(disk[c], cache[c].draft)
             /\ sends[c].stage # "none" => Of(disk[c], sends[c].draft)
             /\ sent[c].draft # NoDraft => Past(disk[c], sent[c].draft)
             /\ sends[c].stage # "none" /\ sends[c].cleared => Past(disk[c], sends[c].draft)
  <2>1. disk[c].revision \in Nat /\ cache[c].draft.revision \in Nat
    BY <1>3 DEF Entry, Draft, Revision
  <2>2. sends[c].stage \in {"none", "saving", "saved", "reserved", "refused"}
    BY <1>3 DEF Send
  <2> QED
    BY <1>3, <1>8, <2>1, <2>2 DEF ChatSound, EntrySound, SendSound, SentSound
<1>9. NowSound(c, tasks'[t])
  <2>1. WriteSound(c, chats, disk[c], cache[c], sends[c], tasks'[t])
    BY <1>7 DEF WriteSound
  <2>2. cache[c].held => Follows(cache[c].draft, tasks[t].draft)
    BY <1>1, <1>3 DEF CallSound, ReadSound
  <2>3. disk[c].revision \in Nat
    BY <1>3 DEF Draft, Revision
  <2>4. ReadSound(c, chats, disk[c], cache[c], sends[c], sent[c], tasks'[t])
    BY <1>6, <1>7, <1>8, <2>2, <2>3 DEF ReadSound, Agree
  <2> QED
    BY <1>4, <1>7, <2>1, <2>4 DEF NowSound, CallSound
<1>10. /\ disk' \in [Chats -> Draft]
       /\ ChatSound(c, chats, disk'[c], cache[c], sends[c], sent[c])
  BY <1>3, <1>4, Parts
<1>11. tasks[t].stage # "idle" /\ tasks'[t].stage # "idle" /\ Holds(tasks'[t])
  BY <1>1, <1>7 DEF Holds
<1> QED
  BY <1>2, <1>3, <1>4, <1>7, <1>9, <1>10, <1>11, PointStep

\* The entry that a read brought.
LEMMA ReadEntrySound ==
  ASSUME NEW c, NEW existing, NEW d \in Draft, NEW e \in Entry, NEW s \in Send, NEW z \in SentRow,
         NEW k \in Task, ChatSound(c, existing, d, e, s, z),
         k.stage = "reading", k.result = "ok", k.valid, CallSound(c, existing, d, e, s, z, k),
         e.held => /\ ~e.dirty /\ e.draft = k.draft
                   /\ k.stored.revision >= e.draft.revision
  PROVE  LET f == [held |-> TRUE, dirty |-> FALSE, draft |-> k.stored]
         IN  f \in Entry /\ ChatSound(c, existing, d, f, s, z)
<1> DEFINE f == [held |-> TRUE, dirty |-> FALSE, draft |-> k.stored]
<1>1. f \in Entry /\ f.held = TRUE /\ f.dirty = FALSE /\ f.draft = k.stored
  BY DEF Entry, Task
<1> HIDE DEF f
<1>2. /\ k.stored.revision \in Nat /\ d.revision \in Nat /\ e.draft.revision \in Nat
      /\ s.draft.revision \in Nat /\ z.draft.revision \in Nat
  BY DEF Task, Entry, Draft, Send, SentRow, Revision
<1>3. /\ c \in existing => k.stored.revision = d.revision /\ Agree(k.stored, d)
      /\ e.held => k.stored.revision <= e.draft.revision /\ Agree(k.stored, e.draft)
      /\ s.stage # "none" => Of(k.stored, s.draft)
      /\ z.draft # NoDraft /\ z.cleared => Past(k.stored, z.draft)
      /\ s.stage # "none" /\ s.cleared => Past(k.stored, s.draft)
  BY DEF CallSound, ReadSound, Replaces
<1>4. c \notin existing => d.text = Blank
  BY DEF ChatSound, EntrySound, NoDraft
<1>5. EntrySound(c, existing, d, f, s)
  BY <1>1, <1>3, <1>4 DEF ChatSound, EntrySound, Agree
<1>6. SendSound(d, f, s)
  <2>1. s.stage # "none" => c \in existing
    BY DEF ChatSound, EntrySound, NoSend
  <2>2. s.stage # "none" => k.stored.revision >= s.draft.revision
    BY <1>2, <1>3, <2>1 DEF ChatSound, SendSound, Follows
  <2>3. s.stage # "none" => d.revision >= s.draft.revision
    BY <1>2, <1>3, <2>1, <2>2
  <2> QED
    BY <1>1, <1>3, <2>2, <2>3 DEF ChatSound, SendSound, Follows
<1>7. SentSound(c, existing, d, f, s, z)
  BY <1>1, <1>3 DEF ChatSound, SentSound
<1> QED
  BY <1>1, <1>5, <1>6, <1>7 DEF ChatSound, f

\* The end of a load, whether its answer is believed or not.
LEMMA FinishLoadSafe ==
  ASSUME DraftInv, NEW t \in Tasks, FinishLoad(t)
  PROVE  DraftInv'
<1>1. tasks[t].stage = "reading" /\ Holds(tasks[t]) /\ tasks[t].chat \in Chats /\ tasks[t] \in Task
  BY Parts DEF FinishLoad, TaskOK, Holds
<1>2. PICK c \in Chats : tasks[t].chat = c
  BY <1>1
<1>3. /\ Admitted(t)
      /\ CallSound(c, chats, disk[c], cache[c], sends[c], sent[c], tasks[t])
      /\ ChatSound(c, chats, disk[c], cache[c], sends[c], sent[c])
      /\ disk[c] \in Draft /\ cache[c] \in Entry /\ sends[c] \in Send /\ sent[c] \in SentRow
  BY <1>1, <1>2, HolderAlone, Parts
<1> DEFINE f == [held |-> TRUE, dirty |-> FALSE, draft |-> tasks[t].stored]
<1>4. /\ cache' \in [Chats -> Entry] /\ \A b \in Chats \ {c} : cache'[b] = cache[b]
      /\ ChatSound(c, chats, disk[c], cache'[c], sends[c], sent[c])
      /\ \A b \in Chats : leases[b] # 0 => cache'[b].held
  <2>1. CASE tasks[t].result = "ok" /\ tasks[t].valid /\ MayReplace(t)
    <3>1. cache' = [cache EXCEPT ![c] = f]
      BY <1>2, <2>1 DEF FinishLoad
    <3>2. cache[c].held => /\ ~cache[c].dirty /\ cache[c].draft = tasks[t].draft
                           /\ tasks[t].stored.revision >= cache[c].draft.revision
      BY <1>2, <2>1 DEF MayReplace
    <3>3. f \in Entry /\ ChatSound(c, chats, disk[c], f, sends[c], sent[c])
      BY <1>1, <1>3, <2>1, <3>2, ReadEntrySound
    <3>4. f.held
      OBVIOUS
    <3> HIDE DEF f
    <3> QED
      BY <3>1, <3>3, <3>4, Parts
  <2>2. CASE ~(tasks[t].result = "ok" /\ tasks[t].valid /\ MayReplace(t))
    <3>1. cache' = cache
      BY <2>2 DEF FinishLoad
    <3> QED
      BY <1>3, <3>1, Parts
  <2> QED
    BY <2>1, <2>2
<1> HIDE DEF f
<1>5. NoTask \in Task /\ NoTask.stage = "idle" /\ NoTask.kind = "flush" /\ NoTask.result = "none"
  BY DEF NoTask, Task, NoDraft, Draft, Revision
<1>6. tasks' = [tasks EXCEPT ![t] = NoTask]
  BY DEF FinishLoad
<1>7. /\ tasks' \in [Tasks -> Task] /\ tasks'[t] = NoTask /\ OthersStand(t)
  BY <1>5, <1>6, Parts DEF OthersStand
<1>8. UNCHANGED <<chats, disk, leases, sends, unlocked, owed, sent>>
  BY DEF FinishLoad
<1>9. TypeOK'
  BY <1>4, <1>7, <1>8 DEF DraftInv, TypeOK
<1>10. Elsewhere(c) /\ ChatOK(c)'
  BY <1>4, <1>8 DEF Elsewhere, ChatOK
<1>11. ASSUME NEW u \in Tasks \ {t}, tasks[u].chat = c
       PROVE  /\ ~Holds(tasks[u])
              /\ tasks[u].kind = "submit" => sends'[c].stage = "saving"
  BY <1>2, <1>3, <1>8, <1>11, Parts DEF Admitted, TaskOK
<1> QED
  BY <1>5, <1>7, <1>9, <1>10, <1>11, CallStep DEF Holds

\* A cancelled call is over, unless its write is under way.
LEMMA CancelSafe ==
  ASSUME DraftInv, NEW t \in Tasks, Cancel(t)
  PROVE  DraftInv'
<1>1. tasks[t].stage # "idle" /\ tasks[t].chat \in Chats /\ tasks[t] \in Task
  BY Parts DEF Cancel, TaskOK
<1>2. PICK c \in Chats : tasks[t].chat = c
  BY <1>1
<1>3. UNCHANGED <<chats, disk, cache, leases, unlocked, owed, sent>>
  BY DEF Cancel
<1>4. ChatSound(c, chats, disk[c], cache'[c], sends[c], sent[c])
  BY <1>3, Parts
<1>5. \A u \in Tasks \ {t} : Holds(tasks[u]) /\ tasks[u].chat = c =>
        CallSound(c, chats, disk[c], cache'[c], sends[c], sent[c], tasks[u])
  BY <1>3, Parts
<1>6. CASE tasks[t].stage = "writing"
  <2>1. tasks' = [tasks EXCEPT ![t].cancelled = TRUE] /\ sends' = sends
    BY <1>6 DEF Cancel
  <2>2. /\ tasks' \in [Tasks -> Task] /\ \A u \in Tasks : Flagged(tasks[u], tasks'[u])
    <3> DEFINE k == [tasks[t] EXCEPT !.cancelled = TRUE]
    <3>1. k \in Task /\ Flagged(tasks[t], k)
      BY <1>1 DEF Task, Flagged
    <3>2. tasks' = [tasks EXCEPT ![t] = k]
      BY <2>1, Parts
    <3> HIDE DEF k
    <3>3. tasks' \in [Tasks -> Task] /\ \A u \in Tasks : u # t => tasks'[u] = tasks[u]
      BY <3>1, <3>2, Parts
    <3>4. \A u \in Tasks : Flagged(tasks[u], tasks[u])
      BY DEF Flagged
    <3> QED
      BY <3>1, <3>2, <3>3, <3>4, Parts
  <2>3. TypeOK'
    BY <1>3, <2>1, <2>2 DEF DraftInv, TypeOK
  <2>4. \A b \in Chats : ChatOK(b)'
    BY <1>3, <2>1, Parts DEF ChatOK
  <2>5. ASSUME NEW u \in Tasks, Holds(tasks[u]) PROVE NowSound(tasks[u].chat, tasks'[u])
    <3>1. PICK b \in Chats : tasks[u].chat = b
      BY <2>5, Parts DEF TaskOK, Holds
    <3>2. CallSound(b, chats, disk[b], cache[b], sends[b], sent[b], tasks[u])
      BY <2>5, <3>1, Parts
    <3>3. CallSound(b, chats, disk[b], cache[b], sends[b], sent[b], tasks'[u])
      BY <2>2, <3>2, FlaggedSound
    <3> QED
      BY <1>3, <2>1, <3>1, <3>3 DEF NowSound
  <2>6. \A u \in Tasks : tasks[u].kind = "submit" => sends'[tasks[u].chat].stage = "saving"
    BY <2>1, Parts DEF TaskOK
  <2> QED
    BY <2>2, <2>3, <2>4, <2>5, <2>6, FlagStep
<1>7. CASE tasks[t].stage # "writing"
  <2>1. Raise(t)
    BY <1>7 DEF Cancel
  <2>2. /\ cache' \in [Chats -> Entry] /\ leases' \in [Chats -> Revision]
        /\ \A b \in Chats : leases'[b] # 0 => cache'[b].held
        /\ \A b \in Chats \ {c} : cache'[b] = cache[b]
    BY <1>3, Parts
  <2> QED
    BY <1>1, <1>2, <1>3, <1>4, <1>5, <2>1, <2>2, LeaveSafe
<1> QED
  BY <1>6, <1>7

-----------------------------------------------------------------------------
\* The steps of a send.

\* Only the row, the entry, the send and the draft that was sent of chat c are
\* different, and the send is not being saved for.
LEMMA SendStepSafe ==
  ASSUME DraftInv, NEW c \in Chats, sends[c].stage # "saving",
         UNCHANGED <<chats, leases, tasks, unlocked, owed>>,
         disk' \in [Chats -> Draft], cache' \in [Chats -> Entry], sends' \in [Chats -> Send],
         sent' \in [Chats -> SentRow],
         \A b \in Chats \ {c} : /\ disk'[b] = disk[b] /\ cache'[b] = cache[b]
                                /\ sends'[b] = sends[b] /\ sent'[b] = sent[b],
         cache'[c].held = cache[c].held,
         ChatSound(c, chats, disk'[c], cache'[c], sends'[c], sent'[c]),
         \A k \in Task : CallSound(c, chats, disk[c], cache[c], sends[c], sent[c], k)
           => CallSound(c, chats, disk'[c], cache'[c], sends'[c], sent'[c], k)
  PROVE  DraftInv'
<1>1. \A b \in Chats : leases'[b] # 0 => cache'[b].held
  BY Parts
<1>2. TypeOK'
  BY <1>1 DEF DraftInv, TypeOK, SentRow
<1>3. Elsewhere(c) /\ ChatOK(c)'
  BY DEF Elsewhere, ChatOK
<1>4. ASSUME NEW u \in Tasks, tasks[u].chat = c
      PROVE  /\ Holds(tasks[u]) => NowSound(c, tasks[u])
             /\ tasks[u].kind # "submit"
  BY <1>4, Parts DEF NowSound, TaskOK
<1> QED
  BY <1>2, <1>3, <1>4, ChatStep

\* What the parts of a chat are typed by.
LEMMA Revisions ==
  ASSUME NEW d \in Draft, NEW e \in Entry, NEW s \in Send, NEW z \in SentRow
  PROVE  /\ d.revision \in Nat /\ e.draft.revision \in Nat /\ s.draft.revision \in Nat
         /\ z.draft.revision \in Nat
         /\ s.stage \in {"none", "saving", "saved", "reserved", "refused"}
  BY DEF Draft, Entry, Send, SentRow, Revision

\* The revision that is sent is consumed: its row is cleared, and the text kept
\* for a restoration.
LEMMA ConsumedSound ==
  ASSUME NEW c, NEW existing, NEW d \in Draft, NEW e \in Entry, NEW s \in Send, NEW z \in SentRow,
         ChatSound(c, existing, d, e, s, z), s.stage = "saved"
  PROVE  LET consumes == d.revision = s.draft.revision
             row == IF consumes THEN [d EXCEPT !.text = Blank] ELSE d
             n == [s EXCEPT !.stage = "reserved", !.backup = IF consumes THEN d.text ELSE Blank]
         IN  /\ row \in Draft /\ n \in Send
             /\ ChatSound(c, existing, row, e, n, z)
             /\ \A k \in Task : CallSound(c, existing, d, e, s, z, k)
                  => CallSound(c, existing, row, e, n, z, k)
<1> DEFINE consumes == d.revision = s.draft.revision
           backup == IF consumes THEN d.text ELSE Blank
           row == IF consumes THEN [d EXCEPT !.text = Blank] ELSE d
           m == [s EXCEPT !.stage = "reserved"]
           n == [m EXCEPT !.backup = backup]
<1>1. /\ d.revision \in Nat /\ e.draft.revision \in Nat /\ s.draft.revision \in Nat
      /\ z.draft.revision \in Nat
  BY Revisions
<1>2. s # NoSend /\ d.text \in Texts \cup {Blank}
  BY DEF NoSend, Draft
<1>3. /\ s.draft.text \in Texts
      /\ e.held => Follows(e.draft, s.draft)
      /\ d.revision >= s.draft.revision
      /\ Of(d, s.draft)
      /\ s.backup = Blank /\ ~s.cleared
  BY DEF ChatSound, SendSound
<1>4. backup \in {s.draft.text, Blank} /\ (backup # Blank => consumes /\ d.text # Blank)
  BY <1>3 DEF Of
<1>5. /\ row \in Draft /\ row.revision = d.revision
      /\ consumes => row.text = Blank
      /\ ~consumes => row = d
  BY <1>1 DEF Draft
<1>6. /\ n \in Send /\ n.stage = "reserved" /\ n.backup = backup /\ n.draft = s.draft
      /\ n.cleared = s.cleared
  <2>1. backup \in Texts \cup {Blank}
    BY <1>2
  <2> HIDE DEF backup
  <2>2. /\ m \in Send /\ m.stage = "reserved" /\ m.draft = s.draft /\ m.cleared = s.cleared
    BY DEF Send
  <2> HIDE DEF m
  <2> QED
    BY <2>1, <2>2 DEF Send
<1>7. n = [s EXCEPT !.stage = "reserved", !.backup = backup]
  BY DEF Send
<1> HIDE DEF row, n, backup
<1>8. c \in existing
  BY <1>2 DEF ChatSound, EntrySound
<1>9. EntrySound(c, existing, row, e, n)
  BY <1>1, <1>5, <1>8 DEF ChatSound, EntrySound, Agree
<1>10. SendSound(row, e, n)
  BY <1>1, <1>3, <1>4, <1>5, <1>6 DEF SendSound, Of, Past
<1>11. SentSound(c, existing, row, e, n, z)
  BY <1>1, <1>4, <1>5, <1>6, <1>8 DEF ChatSound, SentSound, Past
<1>12. ASSUME NEW k \in Task, CallSound(c, existing, d, e, s, z, k)
       PROVE  CallSound(c, existing, row, e, n, z, k)
  <2>1. WriteSound(c, existing, row, e, n, k)
    BY <1>5, <1>6, <1>12 DEF CallSound, WriteSound
  <2>2. ReadSound(c, existing, row, e, n, z, k)
    BY <1>3, <1>5, <1>6, <1>12 DEF CallSound, ReadSound, Agree
  <2> QED
    BY <2>1, <2>2 DEF CallSound
<1> QED
  BY <1>5, <1>6, <1>7, <1>9, <1>10, <1>11, <1>12 DEF ChatSound, row, backup

\* reserve_turn, as far as the draft is concerned.
LEMMA ReserveSafe ==
  ASSUME DraftInv, NEW c \in Chats, Reserve(c)
  PROVE  DraftInv'
<1> DEFINE consumes == disk[c].revision = sends[c].draft.revision
           row == IF consumes THEN [disk[c] EXCEPT !.text = Blank] ELSE disk[c]
           n == [sends[c] EXCEPT !.stage = "reserved",
                                 !.backup = IF consumes THEN disk[c].text ELSE Blank]
<1>1. /\ disk[c] \in Draft /\ cache[c] \in Entry /\ sends[c] \in Send /\ sent[c] \in SentRow
      /\ ChatSound(c, chats, disk[c], cache[c], sends[c], sent[c])
  BY Parts
<1>2. sends[c].stage = "saved"
  BY DEF Reserve
<1>3. /\ row \in Draft /\ n \in Send
      /\ ChatSound(c, chats, row, cache[c], n, sent[c])
      /\ \A k \in Task : CallSound(c, chats, disk[c], cache[c], sends[c], sent[c], k)
           => CallSound(c, chats, row, cache[c], n, sent[c], k)
  BY <1>1, <1>2, ConsumedSound
<1>4. disk' = [disk EXCEPT ![c] = row]
  BY Parts DEF Reserve
<1>5. sends' = [sends EXCEPT ![c] = n]
  BY Parts DEF Reserve
<1>6. UNCHANGED <<chats, cache, leases, tasks, unlocked, owed, sent>>
  BY DEF Reserve
<1> HIDE DEF row, n
<1>7. /\ disk' \in [Chats -> Draft] /\ disk'[c] = row /\ sends' \in [Chats -> Send] /\ sends'[c] = n
      /\ cache' \in [Chats -> Entry] /\ sent' \in [Chats -> SentRow]
      /\ cache'[c] = cache[c] /\ sent'[c] = sent[c]
      /\ \A b \in Chats \ {c} : /\ disk'[b] = disk[b] /\ cache'[b] = cache[b]
                                /\ sends'[b] = sends[b] /\ sent'[b] = sent[b]
  BY <1>3, <1>4, <1>5, <1>6, Parts
<1> QED
  BY <1>2, <1>3, <1>6, <1>7, SendStepSafe

\* The entry is told: it is cleared if it still holds the draft that is sent.
LEMMA ToldSound ==
  ASSUME NEW c, NEW existing, NEW d \in Draft, NEW e \in Entry, NEW s \in Send, NEW z \in SentRow,
         DraftsAssumption, ChatSound(c, existing, d, e, s, z), s.stage = "reserved"
  PROVE  LET matches == e.held /\ e.draft = s.draft
             f == IF matches THEN [e EXCEPT !.dirty = FALSE, !.draft.text = Blank] ELSE e
             n == [s EXCEPT !.told = TRUE, !.cleared = matches]
         IN  /\ f \in Entry /\ n \in Send /\ f.held = e.held
             /\ ChatSound(c, existing, d, f, n, z)
             /\ \A k \in Task : CallSound(c, existing, d, e, s, z, k)
                  => CallSound(c, existing, d, f, n, z, k)
<1> DEFINE matches == e.held /\ e.draft = s.draft
           blank == [e.draft EXCEPT !.text = Blank]
           g == [e EXCEPT !.dirty = FALSE]
           h == [g EXCEPT !.draft = blank]
           f == IF matches THEN h ELSE e
           m == [s EXCEPT !.told = TRUE]
           n == [m EXCEPT !.cleared = matches]
<1>1. /\ d.revision \in Nat /\ e.draft.revision \in Nat /\ s.draft.revision \in Nat
      /\ z.draft.revision \in Nat
  BY Revisions
<1>2. /\ blank \in Draft /\ blank.revision = e.draft.revision /\ blank.text = Blank
  BY DEF Entry, Draft
<1>3. /\ h \in Entry /\ h.held = e.held /\ h.dirty = FALSE /\ h.draft = blank
  <2>1. g \in Entry /\ g.held = e.held /\ g.dirty = FALSE
    BY DEF Entry
  <2> HIDE DEF g, blank
  <2> QED
    BY <1>2, <2>1 DEF Entry
<1>4. h = [e EXCEPT !.dirty = FALSE, !.draft.text = Blank]
  BY DEF Entry
<1>5. /\ n \in Send /\ n.stage = "reserved" /\ n.draft = s.draft /\ n.backup = s.backup
      /\ n.cleared = matches
  <2>1. /\ m \in Send /\ m.stage = s.stage /\ m.draft = s.draft /\ m.backup = s.backup
    BY DEF Send
  <2>2. matches \in BOOLEAN
    BY DEF Entry
  <2> HIDE DEF m, matches
  <2> QED
    BY <2>1, <2>2 DEF Send
<1>6. n = [s EXCEPT !.told = TRUE, !.cleared = matches]
  BY DEF Send
<1>7. s.draft.text \in Texts /\ s.draft.text # Blank /\ Past(d, s.draft) /\ s # NoSend
  BY DEF ChatSound, SendSound, DraftsAssumption, NoSend
<1> HIDE DEF h, n, blank
<1>8. CASE ~matches
  <2>1. f = e /\ n.cleared = FALSE
    BY <1>5, <1>8
  <2>2. EntrySound(c, existing, d, f, n)
    BY <1>7, <2>1 DEF ChatSound, EntrySound
  <2>3. SendSound(d, f, n)
    BY <1>5, <2>1 DEF ChatSound, SendSound
  <2>4. SentSound(c, existing, d, f, n, z)
    BY <1>5, <2>1 DEF ChatSound, SentSound
  <2>5. ASSUME NEW k \in Task, CallSound(c, existing, d, e, s, z, k)
        PROVE  CallSound(c, existing, d, f, n, z, k)
    BY <1>5, <2>1, <2>5 DEF CallSound, WriteSound, ReadSound
  <2> QED
    BY <1>5, <1>6, <2>1, <2>2, <2>3, <2>4, <2>5 DEF ChatSound
<1>9. CASE matches
  <2>1. /\ f = h /\ e.held /\ e.draft = s.draft /\ n.cleared = TRUE
        /\ f.draft.revision = e.draft.revision /\ f.draft.text = Blank
        /\ f.held /\ f.dirty = FALSE
    BY <1>2, <1>3, <1>5, <1>9
  <2>2. c \in existing => d.revision = e.draft.revision
    <3>1. d.revision >= s.draft.revision
      BY DEF ChatSound, SendSound
    <3> QED
      BY <1>1, <2>1, <3>1 DEF ChatSound, EntrySound
  <2> HIDE DEF f
  <2>3. EntrySound(c, existing, d, f, n)
    BY <1>7, <2>1, <2>2 DEF ChatSound, EntrySound, Agree
  <2>4. SendSound(d, f, n)
    BY <1>1, <1>5, <2>1 DEF ChatSound, SendSound, Follows, Of, Past
  <2>5. SentSound(c, existing, d, f, n, z)
    BY <1>1, <1>5, <2>1 DEF ChatSound, SentSound, Past
  <2>6. ASSUME NEW k \in Task, CallSound(c, existing, d, e, s, z, k)
        PROVE  CallSound(c, existing, d, f, n, z, k)
    <3>1. WriteSound(c, existing, d, f, n, k)
      BY <1>5, <2>1, <2>6 DEF CallSound, WriteSound, Agree
    <3>2. k.stage = "reading" => ~Replaces(f, k)
      BY <1>7, <2>1, <2>6 DEF CallSound, ReadSound, Replaces, Follows, Of
    <3>3. ReadSound(c, existing, d, f, n, z, k)
      BY <1>5, <2>1, <2>6, <3>2 DEF CallSound, ReadSound, Follows, Of, Agree
    <3> QED
      BY <3>1, <3>3 DEF CallSound
  <2> QED
    BY <1>3, <1>4, <1>5, <1>6, <2>1, <2>3, <2>4, <2>5, <2>6 DEF ChatSound, f
<1> QED
  BY <1>8, <1>9

\* acknowledge_reserved.
LEMMA AcknowledgeSafe ==
  ASSUME DraftInv, DraftsAssumption, NEW c \in Chats, AcknowledgeReserved(c)
  PROVE  DraftInv'
<1> DEFINE matches == cache[c].held /\ cache[c].draft = sends[c].draft
           f == IF matches THEN [cache[c] EXCEPT !.dirty = FALSE, !.draft.text = Blank]
                           ELSE cache[c]
           n == [sends[c] EXCEPT !.told = TRUE, !.cleared = matches]
<1>1. /\ disk[c] \in Draft /\ cache[c] \in Entry /\ sends[c] \in Send /\ sent[c] \in SentRow
      /\ ChatSound(c, chats, disk[c], cache[c], sends[c], sent[c])
  BY Parts
<1>2. sends[c].stage = "reserved"
  BY DEF AcknowledgeReserved
<1>3. /\ f \in Entry /\ n \in Send /\ f.held = cache[c].held
      /\ ChatSound(c, chats, disk[c], f, n, sent[c])
      /\ \A k \in Task : CallSound(c, chats, disk[c], cache[c], sends[c], sent[c], k)
           => CallSound(c, chats, disk[c], f, n, sent[c], k)
  BY <1>1, <1>2, ToldSound
<1>4. cache' = [cache EXCEPT ![c] = f]
  <2>1. CASE matches
    <3>1. cache' = [cache EXCEPT ![c].dirty = FALSE, ![c].draft.text = Blank]
      BY <2>1 DEF AcknowledgeReserved
    <3>2. f = [cache[c] EXCEPT !.dirty = FALSE, !.draft.text = Blank]
      BY <2>1
    <3>3. cache \in [Chats -> Entry] /\ cache[c] \in [held : BOOLEAN, dirty : BOOLEAN, draft : Draft]
      BY <1>1, Parts DEF Entry
    <3> DEFINE g == [cache[c] EXCEPT !.dirty = FALSE]
               one == [cache EXCEPT ![c] = g]
               blank == [g.draft EXCEPT !.text = Blank]
               h == [g EXCEPT !.draft = blank]
    <3>4. [cache EXCEPT ![c].dirty = FALSE] = one
      BY <3>3
    <3>5. [cache EXCEPT ![c].dirty = FALSE, ![c].draft.text = Blank] = [one EXCEPT ![c] = h]
      BY <3>3, <3>4
    <3>6. f = h
      BY <3>2, <3>3
    <3> HIDE DEF f, g, h
    <3>7. [one EXCEPT ![c] = h] = [cache EXCEPT ![c] = h]
      BY <3>3
    <3> QED
      BY <3>1, <3>5, <3>6, <3>7
  <2>2. CASE ~matches
    BY <2>2, Parts DEF AcknowledgeReserved
  <2> QED
    BY <2>1, <2>2
<1>5. sends' = [sends EXCEPT ![c] = n]
  BY Parts DEF AcknowledgeReserved
<1>6. UNCHANGED <<chats, disk, leases, tasks, unlocked, owed, sent>>
  BY DEF AcknowledgeReserved
<1> HIDE DEF f, n
<1>7. /\ cache' \in [Chats -> Entry] /\ cache'[c] = f /\ sends' \in [Chats -> Send] /\ sends'[c] = n
      /\ disk' \in [Chats -> Draft] /\ sent' \in [Chats -> SentRow]
      /\ disk'[c] = disk[c] /\ sent'[c] = sent[c]
      /\ \A b \in Chats \ {c} : /\ disk'[b] = disk[b] /\ cache'[b] = cache[b]
                                /\ sends'[b] = sends[b] /\ sent'[b] = sent[b]
  BY <1>3, <1>4, <1>5, <1>6, Parts
<1> QED
  BY <1>2, <1>3, <1>6, <1>7, SendStepSafe

\* The request leaves: the draft that was sent is the one of the send.
LEMMA DispatchSafe ==
  ASSUME DraftInv, NEW c \in Chats, Dispatch(c)
  PROVE  DraftInv'
<1> DEFINE z == [draft |-> sends[c].draft, cleared |-> sends[c].cleared]
<1>1. /\ disk[c] \in Draft /\ cache[c] \in Entry /\ sends[c] \in Send /\ sent[c] \in SentRow
      /\ ChatSound(c, chats, disk[c], cache[c], sends[c], sent[c])
  BY Parts
<1>2. /\ sends[c].stage = "reserved" /\ sent' = [sent EXCEPT ![c] = z]
      /\ sends' = [sends EXCEPT ![c] = NoSend]
      /\ UNCHANGED <<chats, disk, cache, leases, tasks, unlocked, owed>>
  BY DEF Dispatch
<1>3. z \in SentRow /\ z.draft = sends[c].draft /\ z.cleared = sends[c].cleared
  BY <1>1 DEF SentRow, Send
<1> HIDE DEF z
<1>4. NoSend \in Send /\ NoSend.stage = "none"
  BY <1>1, DroppedSound
<1>5. ChatSound(c, chats, disk[c], cache[c], NoSend, z)
  <2>1. EntrySound(c, chats, disk[c], cache[c], NoSend)
    BY <1>1 DEF ChatSound, EntrySound
  <2>2. SendSound(disk[c], cache[c], NoSend)
    BY <1>4 DEF SendSound
  <2>3. SentSound(c, chats, disk[c], cache[c], NoSend, z)
    BY <1>1, <1>2, <1>3, <1>4 DEF ChatSound, SendSound, SentSound
  <2> QED
    BY <2>1, <2>2, <2>3 DEF ChatSound
<1>6. ASSUME NEW k \in Task, CallSound(c, chats, disk[c], cache[c], sends[c], sent[c], k)
      PROVE  CallSound(c, chats, disk[c], cache[c], NoSend, z, k)
  BY <1>2, <1>3, <1>4, <1>6 DEF CallSound, WriteSound, ReadSound
<1>7. /\ sent' \in [Chats -> SentRow] /\ sent'[c] = z /\ sends' \in [Chats -> Send] /\ sends'[c] = NoSend
      /\ disk' \in [Chats -> Draft] /\ cache' \in [Chats -> Entry]
      /\ disk'[c] = disk[c] /\ cache'[c] = cache[c]
      /\ \A b \in Chats \ {c} : /\ disk'[b] = disk[b] /\ cache'[b] = cache[b]
                                /\ sends'[b] = sends[b] /\ sent'[b] = sent[b]
  BY <1>2, <1>3, <1>4, Parts
<1>8. UNCHANGED <<chats, leases, tasks, unlocked, owed>> /\ sends[c].stage # "saving"
  BY <1>2
<1>9. /\ ChatSound(c, chats, disk'[c], cache'[c], sends'[c], sent'[c])
      /\ \A k \in Task : CallSound(c, chats, disk[c], cache[c], sends[c], sent[c], k)
           => CallSound(c, chats, disk'[c], cache'[c], sends'[c], sent'[c], k)
  BY <1>5, <1>6, <1>7
<1> QED
  BY <1>7, <1>8, <1>9, SendStepSafe

\* A send whose reservation was released.
LEMMA RefusedSound ==
  ASSUME NEW c, NEW existing, NEW d \in Draft, NEW e \in Entry, NEW s \in Send, NEW z \in SentRow,
         ChatSound(c, existing, d, e, s, z), s.stage = "reserved"
  PROVE  LET n == [s EXCEPT !.stage = "refused"] IN
         /\ n \in Send
         /\ ChatSound(c, existing, d, e, n, z)
         /\ \A k : CallSound(c, existing, d, e, s, z, k)
              => CallSound(c, existing, d, e, n, z, k)
<1> DEFINE n == [s EXCEPT !.stage = "refused"]
<1>1. /\ n \in Send /\ n.stage = "refused" /\ n.draft = s.draft /\ n.backup = s.backup
      /\ n.cleared = s.cleared
  BY DEF Send
<1> HIDE DEF n
<1>2. s # NoSend
  BY DEF NoSend
<1>3. EntrySound(c, existing, d, e, n)
  BY <1>2 DEF ChatSound, EntrySound
<1>4. SendSound(d, e, n)
  BY <1>1 DEF ChatSound, SendSound
<1>5. SentSound(c, existing, d, e, n, z)
  BY <1>1 DEF ChatSound, SentSound
<1>6. ASSUME NEW k, CallSound(c, existing, d, e, s, z, k)
      PROVE  CallSound(c, existing, d, e, n, z, k)
  BY <1>1, <1>6 DEF CallSound, WriteSound, ReadSound
<1> QED
  BY <1>1, <1>3, <1>4, <1>5, <1>6 DEF ChatSound, n

\* A send that fails or is released.
LEMMA RefuseSafe ==
  ASSUME DraftInv, NEW c \in Chats, Refuse(c)
  PROVE  DraftInv'
<1>1. /\ disk[c] \in Draft /\ cache[c] \in Entry /\ sends[c] \in Send /\ sent[c] \in SentRow
      /\ ChatSound(c, chats, disk[c], cache[c], sends[c], sent[c])
  BY Parts
<1>2. UNCHANGED <<chats, disk, cache, leases, tasks, unlocked, owed, sent>>
  BY DEF Refuse
<1>3. sends[c].stage # "saving"
  BY DEF Refuse
<1>4. PICK n \in Send :
        /\ sends' = [sends EXCEPT ![c] = n]
        /\ ChatSound(c, chats, disk[c], cache[c], n, sent[c])
        /\ \A k \in Task : CallSound(c, chats, disk[c], cache[c], sends[c], sent[c], k)
             => CallSound(c, chats, disk[c], cache[c], n, sent[c], k)
  <2>1. CASE sends' = [sends EXCEPT ![c] = NoSend]
    BY <1>1, <2>1, DroppedSound
  <2>2. CASE sends[c].stage = "reserved" /\ sends' = [sends EXCEPT ![c].stage = "refused"]
    <3> DEFINE m == [sends[c] EXCEPT !.stage = "refused"]
    <3>1. /\ m \in Send /\ ChatSound(c, chats, disk[c], cache[c], m, sent[c])
          /\ \A k \in Task : CallSound(c, chats, disk[c], cache[c], sends[c], sent[c], k)
               => CallSound(c, chats, disk[c], cache[c], m, sent[c], k)
      BY <1>1, <2>2, RefusedSound
    <3>2. sends' = [sends EXCEPT ![c] = m]
      BY <2>2, Parts
    <3> HIDE DEF m
    <3> QED
      BY <3>1, <3>2
  <2> QED
    BY <2>1, <2>2 DEF Refuse
<1>5. /\ sends' \in [Chats -> Send] /\ sends'[c] = n
      /\ disk' \in [Chats -> Draft] /\ cache' \in [Chats -> Entry] /\ sent' \in [Chats -> SentRow]
      /\ disk'[c] = disk[c] /\ cache'[c] = cache[c] /\ sent'[c] = sent[c]
      /\ \A b \in Chats \ {c} : /\ disk'[b] = disk[b] /\ cache'[b] = cache[b]
                                /\ sends'[b] = sends[b] /\ sent'[b] = sent[b]
  BY <1>2, <1>4, Parts
<1> QED
  BY <1>2, <1>3, <1>4, <1>5, SendStepSafe

\* The text of a send that was refused is back in the row it was consumed from.
LEMMA RestoredSound ==
  ASSUME NEW c, NEW existing, NEW d \in Draft, NEW e \in Entry, NEW s \in Send, NEW z \in SentRow,
         ChatSound(c, existing, d, e, s, z), s.stage = "refused", s.backup # Blank,
         d = [revision |-> s.draft.revision, text |-> Blank]
  PROVE  LET row == [revision |-> s.draft.revision, text |-> s.backup] IN
         /\ row \in Draft
         /\ ChatSound(c, existing, row, e, NoSend, z)
         /\ \A k \in Task : CallSound(c, existing, d, e, s, z, k)
              => CallSound(c, existing, row, e, NoSend, z, k)
<1> DEFINE row == [revision |-> s.draft.revision, text |-> s.backup]
<1>1. /\ s.draft.revision \in Nat /\ e.draft.revision \in Nat /\ z.draft.revision \in Nat
      /\ d.revision = s.draft.revision
  BY Revisions
<1>2. /\ s.draft.text \in Texts /\ s.backup = s.draft.text /\ s # NoSend
      /\ e.held => Follows(e.draft, s.draft)
  BY DEF ChatSound, SendSound, NoSend
<1>3. row \in Draft /\ row.revision = d.revision /\ row.text = s.draft.text
  BY <1>1, <1>2 DEF Draft, Revision
<1> HIDE DEF row
<1>4. NoSend.stage = "none" /\ c \in existing
  BY <1>2 DEF NoSend, ChatSound, EntrySound
<1>5. EntrySound(c, existing, row, e, NoSend)
  BY <1>1, <1>2, <1>3, <1>4 DEF ChatSound, EntrySound, Agree, Follows, Of
<1>6. SendSound(row, e, NoSend)
  BY <1>4 DEF SendSound
<1>7. SentSound(c, existing, row, e, NoSend, z)
  BY <1>1, <1>3, <1>4 DEF ChatSound, SentSound, Past
<1>8. ASSUME NEW k \in Task, CallSound(c, existing, d, e, s, z, k)
      PROVE  CallSound(c, existing, row, e, NoSend, z, k)
  <2>1. WriteSound(c, existing, row, e, NoSend, k)
    BY <1>3, <1>4, <1>8 DEF CallSound, WriteSound
  <2>2. ReadSound(c, existing, row, e, NoSend, z, k)
    BY <1>1, <1>3, <1>4, <1>8 DEF CallSound, ReadSound, Agree, Of
  <2> QED
    BY <2>1, <2>2 DEF CallSound
<1> QED
  BY <1>3, <1>5, <1>6, <1>7, <1>8 DEF ChatSound, row

\* restore_unsent_draft, whether it puts the text back or not.
LEMMA RestoreUnsentDraftSafe ==
  ASSUME DraftInv, NEW c \in Chats, RestoreUnsentDraft(c)
  PROVE  DraftInv'
<1>1. /\ disk[c] \in Draft /\ cache[c] \in Entry /\ sends[c] \in Send /\ sent[c] \in SentRow
      /\ ChatSound(c, chats, disk[c], cache[c], sends[c], sent[c])
  BY Parts
<1>2. /\ sends[c].stage = "refused" /\ sends' = [sends EXCEPT ![c] = NoSend]
      /\ UNCHANGED <<chats, cache, leases, tasks, unlocked, owed, sent>>
  BY DEF RestoreUnsentDraft
<1>3. PICK row \in Draft :
        /\ disk' = [disk EXCEPT ![c] = row]
        /\ ChatSound(c, chats, row, cache[c], NoSend, sent[c])
        /\ \A k \in Task : CallSound(c, chats, disk[c], cache[c], sends[c], sent[c], k)
             => CallSound(c, chats, row, cache[c], NoSend, sent[c], k)
  <2>1. CASE Restorable(c) /\ disk' = [disk EXCEPT ![c] = Restored(c)]
    <3>1. /\ sends[c].backup # Blank
          /\ disk[c] = [revision |-> sends[c].draft.revision, text |-> Blank]
      BY <2>1 DEF Restorable
    <3>2. /\ Restored(c) \in Draft
          /\ ChatSound(c, chats, Restored(c), cache[c], NoSend, sent[c])
          /\ \A k \in Task : CallSound(c, chats, disk[c], cache[c], sends[c], sent[c], k)
               => CallSound(c, chats, Restored(c), cache[c], NoSend, sent[c], k)
      BY <1>1, <1>2, <3>1, RestoredSound DEF Restored
    <3> QED
      BY <2>1, <3>2
  <2>2. CASE UNCHANGED disk
    <3>1. disk' = [disk EXCEPT ![c] = disk[c]]
      BY <2>2, Parts
    <3> QED
      BY <1>1, <3>1, DroppedSound
  <2> QED
    BY <2>1, <2>2 DEF RestoreUnsentDraft
<1>4. NoSend \in Send
  BY <1>1, DroppedSound
<1>5. /\ disk' \in [Chats -> Draft] /\ disk'[c] = row /\ sends' \in [Chats -> Send]
      /\ sends'[c] = NoSend
      /\ cache' \in [Chats -> Entry] /\ sent' \in [Chats -> SentRow]
      /\ cache'[c] = cache[c] /\ sent'[c] = sent[c]
      /\ \A b \in Chats \ {c} : /\ disk'[b] = disk[b] /\ cache'[b] = cache[b]
                                /\ sends'[b] = sends[b] /\ sent'[b] = sent[b]
  BY <1>2, <1>3, <1>4, Parts
<1> QED
  BY <1>2, <1>3, <1>5, SendStepSafe

-----------------------------------------------------------------------------
\* Chats that are deleted, the lock, and a crash.

\* A deleted chat has no row; what was read of it or written to it is nothing.
LEMMA DeleteChatSafe ==
  ASSUME DraftInv, NEW c \in Chats, DeleteChat(c)
  PROVE  DraftInv'
<1>1. /\ chats' = chats \ {c} /\ disk' = [disk EXCEPT ![c] = NoDraft] /\ sends[c] = NoSend
      /\ UNCHANGED <<cache, leases, tasks, sends, unlocked, owed, sent>>
  BY DEF DeleteChat
<1>2. NoDraft \in Draft /\ NoDraft.revision = 0 /\ NoDraft.text = Blank /\ NoSend.stage = "none"
  BY DEF NoDraft, Draft, Revision, NoSend
<1>3. TypeOK'
  BY <1>1, <1>2 DEF DraftInv, TypeOK
<1>4. /\ disk'[c] = NoDraft /\ cache'[c] = cache[c] /\ sends'[c] = NoSend /\ sent'[c] = sent[c]
      /\ c \notin chats' /\ Elsewhere(c)
  BY <1>1, Parts DEF Elsewhere
<1>5. ChatSound(c, chats, disk[c], cache[c], NoSend, sent[c])
  BY <1>1, Parts
<1>6. ChatOK(c)'
  <2>1. EntrySound(c, chats', NoDraft, cache[c], NoSend)
    BY <1>2, <1>4, <1>5 DEF ChatSound, EntrySound, Agree
  <2>2. SendSound(NoDraft, cache[c], NoSend)
    BY <1>2 DEF SendSound
  <2>3. SentSound(c, chats', NoDraft, cache[c], NoSend, sent[c])
    BY <1>2, <1>4, <1>5 DEF ChatSound, SentSound
  <2> QED
    BY <1>4, <2>1, <2>2, <2>3 DEF ChatOK, ChatSound
<1>7. ASSUME NEW u \in Tasks, tasks[u].chat = c
      PROVE  /\ Holds(tasks[u]) => NowSound(c, tasks[u])
             /\ tasks[u].kind # "submit"
  <2>1. Holds(tasks[u]) => CallSound(c, chats, disk[c], cache[c], NoSend, sent[c], tasks[u])
    BY <1>1, <1>7, Parts
  <2>2. Holds(tasks[u]) => NowSound(c, tasks[u])
    BY <1>2, <1>4, <2>1 DEF NowSound, CallSound, WriteSound, ReadSound
  <2> QED
    BY <1>1, <1>2, <1>7, <2>2, Parts DEF TaskOK
<1>8. tasks' = tasks
  BY <1>1
<1> QED
  BY <1>3, <1>4, <1>6, <1>7, <1>8, ChatStep

\* A load whose chat is forgotten brings nothing.
LEMMA InvalidatedIs ==
  ASSUME NEW k \in Task, NEW S
  PROVE  /\ Invalidated(k, S) \in Task /\ Flagged(k, Invalidated(k, S))
         /\ Invalidated(k, S).stage = "reading" /\ k.chat \in S => ~Invalidated(k, S).valid
  BY DEF Invalidated, Task, Flagged

\* The entry of a deleted chat is forgotten.
LEMMA ForgetDeletedSafe ==
  ASSUME DraftInv, NEW c \in Chats, ForgetDeleted(c)
  PROVE  DraftInv'
<1>1. /\ c \notin chats /\ cache' = [cache EXCEPT ![c] = NoEntry]
      /\ leases' = [leases EXCEPT ![c] = 0]
      /\ tasks' = [t \in Tasks |-> Invalidated(tasks[t], {c})]
      /\ UNCHANGED <<chats, disk, sends, unlocked, owed, sent>>
  BY DEF ForgetDeleted
<1>2. NoEntry \in Entry /\ NoEntry.held = FALSE
  BY DEF NoEntry, Entry, NoDraft, Draft, Revision
<1>3. \A u \in Tasks : /\ tasks[u] \in Task /\ tasks'[u] \in Task /\ Flagged(tasks[u], tasks'[u])
                       /\ tasks'[u].stage = "reading" /\ tasks[u].chat = c => ~tasks'[u].valid
  BY <1>1, Parts, InvalidatedIs
<1>4. TypeOK'
  <2>1. tasks' \in [Tasks -> Task]
    BY <1>1, <1>3
  <2>2. leases' \in [Chats -> Revision]
    BY <1>1, Parts DEF Revision
  <2>3. cache' \in [Chats -> Entry] /\ \A b \in Chats : leases'[b] # 0 => cache'[b].held
    BY <1>1, <1>2, Parts
  <2> QED
    BY <1>1, <2>1, <2>2, <2>3 DEF DraftInv, TypeOK
<1>5. /\ disk[c] \in Draft /\ cache[c] \in Entry /\ sends[c] \in Send /\ sent[c] \in SentRow
      /\ ChatSound(c, chats, disk[c], cache[c], sends[c], sent[c])
  BY Parts
<1>6. /\ ChatSound(c, chats, disk[c], NoEntry, sends[c], sent[c])
      /\ \A k \in Task : CallSound(c, chats, disk[c], cache[c], sends[c], sent[c], k)
           /\ (k.stage = "reading" /\ cache[c].held => ~k.valid)
           => CallSound(c, chats, disk[c], NoEntry, sends[c], sent[c], k)
  BY <1>1, <1>5, ForgetSound
<1>7. /\ cache'[c] = NoEntry /\ \A b \in Chats \ {c} : cache'[b] = cache[b]
  BY <1>1, Parts
<1>8. ASSUME NEW b \in Chats PROVE ChatOK(b)'
  BY <1>1, <1>6, <1>7, Parts DEF ChatOK
<1>9. ASSUME NEW u \in Tasks, Holds(tasks[u]) PROVE NowSound(tasks[u].chat, tasks'[u])
  <2>1. PICK b \in Chats : tasks[u].chat = b
    BY <1>9, Parts DEF TaskOK, Holds
  <2>2. CallSound(b, chats, disk[b], cache[b], sends[b], sent[b], tasks[u])
    BY <1>9, <2>1, Parts
  <2>3. CallSound(b, chats, disk[b], cache[b], sends[b], sent[b], tasks'[u])
    BY <1>3, <2>2, FlaggedSound
  <2>4. CallSound(b, chats, disk[b], cache'[b], sends[b], sent[b], tasks'[u])
    <3>1. CASE b = c
      BY <1>3, <1>6, <1>7, <2>1, <2>3, <3>1
    <3>2. CASE b # c
      BY <1>7, <2>3, <3>2
    <3> QED
      BY <3>1, <3>2
  <2> QED
    BY <1>1, <2>1, <2>4 DEF NowSound
<1>10. \A u \in Tasks : tasks[u].kind = "submit" => sends'[tasks[u].chat].stage = "saving"
  BY <1>1, Parts DEF TaskOK
<1> QED
  BY <1>3, <1>4, <1>8, <1>9, <1>10, FlagStep

\* What a lock captures: each entry as it was, or with the last edit.
LEMMA CapturedIs ==
  ASSUME DraftInv, DraftsAssumption, room \in Rooms, NEW entries \in Captured, NEW b \in Chats
  PROVE  /\ entries[b] \in Entry
         /\ ChatSound(b, chats, disk[b], entries[b], sends[b], sent[b])
         /\ \A k \in Task : CallSound(b, chats, disk[b], cache[b], sends[b], sent[b], k)
              => CallSound(b, chats, disk[b], entries[b], sends[b], sent[b], k)
         /\ entries[b].held = cache[b].held
<1>1. /\ disk[b] \in Draft /\ cache[b] \in Entry /\ sends[b] \in Send /\ sent[b] \in SentRow
      /\ ChatSound(b, chats, disk[b], cache[b], sends[b], sent[b])
  BY Parts
<1>2. CASE entries[b] = cache[b]
  BY <1>1, <1>2
<1>3. ASSUME NEW text \in Texts \cup {Blank}, cache[b].held, entries[b] = Edited(cache[b], text)
      PROVE  /\ entries[b] \in Entry
             /\ ChatSound(b, chats, disk[b], entries[b], sends[b], sent[b])
             /\ \A k \in Task : CallSound(b, chats, disk[b], cache[b], sends[b], sent[b], k)
                  => CallSound(b, chats, disk[b], entries[b], sends[b], sent[b], k)
             /\ entries[b].held = cache[b].held
  <2>1. Edited(cache[b], text) \in Entry /\ Edited(cache[b], text).held = cache[b].held
    BY <1>1, EditedIs
  <2>2. /\ ChatSound(b, chats, disk[b], Edited(cache[b], text), sends[b], sent[b])
        /\ \A k \in Task : CallSound(b, chats, disk[b], cache[b], sends[b], sent[b], k)
             => CallSound(b, chats, disk[b], Edited(cache[b], text), sends[b], sent[b], k)
    BY <1>1, <1>3, EditSound
  <2> QED
    BY <1>3, <2>1, <2>2
<1>4. room.texts \subseteq Texts
  BY DEF DraftsAssumption
<1>5. entries[b] = cache[b] \/ \E text \in Texts \cup {Blank} :
        cache[b].held /\ entries[b] = Edited(cache[b], text)
  <2>1. CASE entries = cache
    BY <2>1
  <2>2. ASSUME NEW c \in Chats, NEW text \in room.texts \cup {Blank}, CanEdit(c, text),
               entries = [cache EXCEPT ![c] = Edited(@, text)]
        PROVE  entries[b] = cache[b] \/ (cache[b].held /\ entries[b] = Edited(cache[b], text))
    BY <2>2, Parts DEF CanEdit
  <2> QED
    BY <1>4, <2>1, <2>2 DEF Captured
<1> QED
  BY <1>2, <1>3, <1>5

\* A send whose session is over is the same send.
LEMMA EndedSound ==
  ASSUME NEW c, NEW existing, NEW d, NEW e, NEW s \in Send, NEW z,
         ChatSound(c, existing, d, e, s, z)
  PROVE  LET n == [s EXCEPT !.current = FALSE] IN
         /\ n \in Send /\ n.stage = s.stage
         /\ ChatSound(c, existing, d, e, n, z)
         /\ \A k : CallSound(c, existing, d, e, s, z, k)
              => CallSound(c, existing, d, e, n, z, k)
<1> DEFINE n == [s EXCEPT !.current = FALSE]
<1>1. /\ n \in Send /\ n.stage = s.stage /\ n.draft = s.draft /\ n.backup = s.backup
      /\ n.cleared = s.cleared
  BY DEF Send
<1>2. s = NoSend => n = NoSend
  <2>1. s = NoSend => s.current = FALSE
    BY DEF NoSend
  <2>2. s.current = FALSE => n = s
    BY DEF Send
  <2> QED
    BY <2>1, <2>2
<1> HIDE DEF n
<1>3. EntrySound(c, existing, d, e, n)
  BY <1>2 DEF ChatSound, EntrySound
<1>4. SendSound(d, e, n)
  BY <1>1 DEF ChatSound, SendSound
<1>5. SentSound(c, existing, d, e, n, z)
  BY <1>1 DEF ChatSound, SentSound
<1>6. ASSUME NEW k, CallSound(c, existing, d, e, s, z, k)
      PROVE  CallSound(c, existing, d, e, n, z, k)
  BY <1>1, <1>6 DEF CallSound, WriteSound, ReadSound
<1> QED
  BY <1>1, <1>3, <1>4, <1>5, <1>6 DEF ChatSound, n

\* A call at work when the application locks is of a session that is over.
LEMMA EndedCall ==
  ASSUME NEW k \in Task, NEW S
  PROVE  LET m == [Invalidated(k, S) EXCEPT !.current = FALSE] IN
         /\ m \in Task /\ Flagged(k, m)
         /\ m.stage = "reading" /\ k.chat \in S => ~m.valid
<1> DEFINE i == Invalidated(k, S)
           m == [i EXCEPT !.current = FALSE]
<1>1. /\ i \in Task /\ Flagged(k, i)
      /\ i.stage = "reading" /\ k.chat \in S => ~i.valid
  BY InvalidatedIs
<1> HIDE DEF i
<1>2. m \in Task /\ Flagged(i, m) /\ m.valid = i.valid /\ m.stage = i.stage
  BY <1>1 DEF Task, Flagged
<1> HIDE DEF m
<1>3. Flagged(k, m)
  BY <1>1, <1>2 DEF Flagged
<1> QED
  BY <1>1, <1>2, <1>3 DEF m, i

\* begin_lock: the unsaved entries stay, the saved ones go, and no call believes
\* what it reads of them.
LEMMA BeginLockSafe ==
  ASSUME DraftInv, DraftsAssumption, room \in Rooms, BeginLock
  PROVE  DraftInv'
<1>1. PICK entries \in Captured :
        LET forgotten == {c \in Chats : entries[c].held /\ ~entries[c].dirty}
        IN /\ cache' = Kept(entries)
           /\ leases' = LockLeases(entries)
           /\ tasks' = [t \in Tasks |->
                [Invalidated(tasks[t], forgotten) EXCEPT !.current = FALSE]]
  BY DEF BeginLock
<1> DEFINE forgotten == {c \in Chats : entries[c].held /\ ~entries[c].dirty}
<1>2. /\ unlocked' = FALSE
      /\ owed' = \E c \in Chats : cache'[c].held
      /\ sends' = [c \in Chats |-> [sends[c] EXCEPT !.current = FALSE]]
      /\ UNCHANGED <<chats, disk, sent>>
  BY DEF BeginLock
<1>3. NoEntry \in Entry /\ NoEntry.held = FALSE
  BY DEF NoEntry, Entry, NoDraft, Draft, Revision
<1>4. ASSUME NEW b \in Chats
      PROVE  /\ entries[b] \in Entry
             /\ ChatSound(b, chats, disk[b], entries[b], sends[b], sent[b])
             /\ \A k \in Task : CallSound(b, chats, disk[b], cache[b], sends[b], sent[b], k)
                  => CallSound(b, chats, disk[b], entries[b], sends[b], sent[b], k)
  BY CapturedIs
<1>5. ASSUME NEW b \in Chats
      PROVE  /\ cache'[b] \in Entry
             /\ ChatSound(b, chats, disk[b], cache'[b], sends[b], sent[b])
             /\ \A k \in Task : CallSound(b, chats, disk[b], cache[b], sends[b], sent[b], k)
                  /\ (k.stage = "reading" /\ b \in forgotten => ~k.valid)
                  => CallSound(b, chats, disk[b], cache'[b], sends[b], sent[b], k)
             /\ entries[b].dirty => cache'[b].held
  <2>1. cache'[b] = IF entries[b].dirty THEN entries[b] ELSE NoEntry
    BY <1>1 DEF Kept
  <2>2. disk[b] \in Draft /\ sends[b] \in Send /\ sent[b] \in SentRow
    BY Parts
  <2>3. CASE entries[b].dirty
    BY <1>4, <2>1, <2>3 DEF ChatSound, EntrySound
  <2>4. CASE ~entries[b].dirty
    <3>1. /\ ChatSound(b, chats, disk[b], NoEntry, sends[b], sent[b])
          /\ \A k \in Task : CallSound(b, chats, disk[b], entries[b], sends[b], sent[b], k)
               /\ (k.stage = "reading" /\ entries[b].held => ~k.valid)
               => CallSound(b, chats, disk[b], NoEntry, sends[b], sent[b], k)
      BY <1>4, <2>2, <2>4, ForgetSound
    <3>2. cache'[b] = NoEntry
      BY <2>1, <2>4
    <3>3. entries[b].held => b \in forgotten
      BY <2>4
    <3> HIDE DEF forgotten
    <3> QED
      BY <1>3, <1>4, <2>4, <3>1, <3>2, <3>3
  <2> QED
    BY <2>3, <2>4
<1>6. ASSUME NEW b \in Chats
      PROVE  /\ sends'[b] \in Send /\ sends'[b].stage = sends[b].stage
             /\ ChatSound(b, chats, disk[b], cache'[b], sends'[b], sent[b])
             /\ \A k : CallSound(b, chats, disk[b], cache'[b], sends[b], sent[b], k)
                  => CallSound(b, chats, disk[b], cache'[b], sends'[b], sent[b], k)
  <2>1. sends'[b] = [sends[b] EXCEPT !.current = FALSE]
    BY <1>2
  <2>2. sends[b] \in Send /\ ChatSound(b, chats, disk[b], cache'[b], sends[b], sent[b])
    BY <1>5, Parts
  <2> QED
    BY <2>1, <2>2, EndedSound
<1>7. ASSUME NEW u \in Tasks
      PROVE  /\ tasks[u] \in Task /\ tasks'[u] \in Task /\ Flagged(tasks[u], tasks'[u])
             /\ tasks'[u].stage = "reading" /\ tasks[u].chat \in forgotten => ~tasks'[u].valid
  <2>1. tasks'[u] = [Invalidated(tasks[u], forgotten) EXCEPT !.current = FALSE]
    BY <1>1
  <2>2. tasks[u] \in Task
    BY Parts
  <2> HIDE DEF forgotten
  <2> QED
    BY <2>1, <2>2, EndedCall
<1> HIDE DEF forgotten
<1>8. TypeOK'
  <2>1. tasks' \in [Tasks -> Task]
    BY <1>1, <1>7
  <2>2. cache' \in [Chats -> Entry] /\ sends' \in [Chats -> Send]
    BY <1>1, <1>2, <1>5, <1>6 DEF Kept
  <2>3. leases' \in [Chats -> Revision] /\ \A b \in Chats : leases'[b] # 0 => cache'[b].held
    <3>1. leases' = [c \in Chats |-> IF ~entries[c].dirty THEN 0
                                     ELSE IF leases[c] # 0 THEN leases[c]
                                     ELSE entries[c].draft.revision]
      BY <1>1 DEF LockLeases
    <3>2. \A b \in Chats : entries[b].draft.revision \in Revision /\ leases[b] \in Revision
      BY <1>4, Parts DEF Entry, Draft
    <3> QED
      BY <1>5, <3>1, <3>2 DEF Revision
  <2>4. unlocked' \in BOOLEAN /\ owed' \in BOOLEAN
    BY <1>2
  <2> QED
    BY <1>2, <2>1, <2>2, <2>3, <2>4 DEF DraftInv, TypeOK
<1>9. ASSUME NEW b \in Chats PROVE ChatOK(b)'
  BY <1>2, <1>6 DEF ChatOK
<1>10. ASSUME NEW u \in Tasks, Holds(tasks[u]) PROVE NowSound(tasks[u].chat, tasks'[u])
  <2>1. PICK b \in Chats : tasks[u].chat = b
    BY <1>10, Parts DEF TaskOK, Holds
  <2>2. CallSound(b, chats, disk[b], cache[b], sends[b], sent[b], tasks[u])
    BY <1>10, <2>1, Parts
  <2>3. CallSound(b, chats, disk[b], cache[b], sends[b], sent[b], tasks'[u])
    BY <1>7, <2>2, FlaggedSound
  <2>4. CallSound(b, chats, disk[b], cache'[b], sends'[b], sent[b], tasks'[u])
    BY <1>5, <1>6, <1>7, <2>1, <2>3
  <2> QED
    BY <1>2, <2>1, <2>4 DEF NowSound
<1>11. \A u \in Tasks : tasks[u].kind = "submit" => sends'[tasks[u].chat].stage = "saving"
  BY <1>6, Parts DEF TaskOK
<1> QED
  BY <1>7, <1>8, <1>9, <1>10, <1>11, FlagStep

\* An unlock reads and writes no draft.
LEMMA UnlockSafe ==
  ASSUME DraftInv, Unlock
  PROVE  DraftInv'
<1>1. /\ unlocked' = TRUE
      /\ UNCHANGED <<chats, disk, cache, leases, tasks, sends, owed, sent>>
  BY DEF Unlock
<1> QED
  BY <1>1 DEF DraftInv, TypeOK, ChatOK, TaskOK, HoldOK, Alone

\* The calls, the entries and the sends are gone; what is on disk is as it was.
LEMMA FreshSound ==
  ASSUME NEW c, NEW existing, NEW d, NEW e, NEW s, NEW z,
         ChatSound(c, existing, d, e, s, z)
  PROVE  ChatSound(c, existing, d, NoEntry, NoSend, z)
<1>1. NoEntry.held = FALSE /\ NoEntry.dirty = FALSE /\ NoSend.stage = "none"
  BY DEF NoEntry, NoSend
<1> QED
  BY <1>1 DEF ChatSound, EntrySound, SendSound, SentSound

\* What idle calls, empty entries and absent sends are.
LEMMA IdleIs ==
  /\ NoTask \in Task /\ NoTask.stage = "idle" /\ NoTask.kind = "flush" /\ ~Holds(NoTask)
  /\ NoTask.result = "none"
  /\ NoDraft \in Draft /\ NoEntry \in Entry /\ NoSend \in Send
  BY DEF NoTask, Task, Holds, NoDraft, NoEntry, Entry, NoSend, Send, Draft, Revision

\* A restart finds what is on disk.
LEMMA CrashSafe ==
  ASSUME DraftInv, Crash
  PROVE  DraftInv'
<1>1. /\ cache' = [c \in Chats |-> NoEntry] /\ leases' = [c \in Chats |-> 0]
      /\ tasks' = [t \in Tasks |-> NoTask] /\ sends' = [c \in Chats |-> NoSend]
      /\ unlocked' = FALSE /\ owed' = FALSE /\ UNCHANGED <<chats, disk, sent>>
  BY DEF Crash
<1>2. TypeOK'
  BY <1>1, IdleIs DEF DraftInv, TypeOK, Revision
<1>3. \A c \in Chats : ChatOK(c)'
  BY <1>1, FreshSound, Parts DEF ChatOK
<1>4. \A t \in Tasks : TaskOK(tasks[t])' /\ ~Holds(tasks[t])'
  BY <1>1, IdleIs DEF TaskOK, Holds
<1>5. Alone'
  BY <1>1, <1>4, IdleIs DEF Alone, Apart, Holds
<1> QED
  BY <1>2, <1>3, <1>4, <1>5 DEF DraftInv

-----------------------------------------------------------------------------
\* Every state of every behaviour.

\* The bounds of a behaviour are chosen once.
RoomInv == room \in Rooms /\ DraftInv

\* The invariant holds at the start.
LEMMA InitRoomInv ==
  ASSUME DraftsAssumption, Init
  PROVE  RoomInv
<1>1. /\ room \in Rooms /\ chats = room.chats
      /\ disk = [c \in Chats |-> NoDraft] /\ cache = [c \in Chats |-> NoEntry]
      /\ leases = [c \in Chats |-> 0] /\ tasks = [t \in Tasks |-> NoTask]
      /\ sends = [c \in Chats |-> NoSend] /\ unlocked = FALSE /\ owed = FALSE
      /\ sent = [c \in Chats |-> [draft |-> NoDraft, cleared |-> FALSE]]
  BY DEF Init
<1>2. TypeOK
  <2>1. chats \subseteq Chats
    BY <1>1 DEF DraftsAssumption
  <2>2. [draft |-> NoDraft, cleared |-> FALSE] \in [draft : Draft, cleared : BOOLEAN]
    BY IdleIs
  <2> QED
    BY <1>1, <2>1, <2>2, IdleIs DEF TypeOK, Revision
<1>3. ASSUME NEW c \in Chats PROVE ChatOK(c)
  <2>1. /\ disk[c] = NoDraft /\ cache[c] = NoEntry /\ sends[c] = NoSend
        /\ sent[c].draft = NoDraft
    BY <1>1
  <2>2. NoEntry.held = FALSE /\ NoEntry.dirty = FALSE /\ NoSend.stage = "none"
    BY DEF NoEntry, NoSend
  <2> QED
    BY <2>1, <2>2 DEF ChatOK, ChatSound, EntrySound, SendSound, SentSound
<1>4. \A t \in Tasks : TaskOK(tasks[t]) /\ ~Holds(tasks[t])
  BY <1>1, IdleIs DEF TaskOK, Holds
<1>5. Alone
  BY <1>1, <1>4, IdleIs DEF Alone, Apart, Holds
<1> QED
  BY <1>1, <1>2, <1>3, <1>4, <1>5 DEF RoomInv, DraftInv

\* Every step keeps the invariant.
LEMMA NextRoomInv ==
  ASSUME DraftsAssumption, RoomInv, [Next]_vars
  PROVE  RoomInv'
<1>1. CASE UNCHANGED vars
  BY <1>1 DEF vars, RoomInv, DraftInv, TypeOK, ChatOK, TaskOK, HoldOK, Alone
<1>2. CASE Next
  <2>1. room' = room /\ room \in Rooms /\ DraftInv
    BY <1>2 DEF Next, RoomInv
  <2>2. room.chats \subseteq Chats /\ room.texts \subseteq Texts
    BY <2>1 DEF DraftsAssumption
  <2>3. CASE \E t \in Called : BeginFlush(t) \/ BeginLoad(t) \/ Wait(t)
    BY <2>1, <2>3, BeginFlushSafe, BeginLoadSafe, WaitSafe DEF Called, RoomInv
  <2>4. CASE UserStep
    <3>1. ASSUME NEW t \in Tasks, FlushAll(t) PROVE DraftInv'
      BY <2>1, <3>1, FlushAllSafe
    <3>2. ASSUME NEW t \in Tasks, NEW c \in room.chats, Load(t, c) PROVE DraftInv'
      BY <2>1, <2>2, <3>2, LoadSafe
    <3>3. ASSUME NEW t \in Tasks, NEW c \in room.chats, NEW text \in room.texts \cup {Blank},
                 UpdateDraft(t, c, text)
          PROVE  DraftInv'
      BY <2>1, <2>2, <3>3, UpdateDraftSafe
    <3>4. ASSUME NEW t \in Tasks, NEW c \in room.chats, NEW text \in room.texts \cup {Blank},
                 SubmitMessage(t, c, text)
          PROVE  DraftInv'
      <4>1. text \in Texts
        BY <2>2, <3>4 DEF SubmitMessage
      <4> QED
        BY <2>1, <2>2, <3>4, <4>1, SubmitMessageSafe
    <3> QED
      BY <2>1, <2>4, <3>1, <3>2, <3>3, <3>4 DEF UserStep, RoomInv
  <2>5. CASE TaskStep
    BY <2>1, <2>5, BeginFlushSafe, SaveDraftSafe, AfterWriteSafe, BeginLoadSafe, GetDraftSafe,
       FinishLoadSafe, CancelSafe DEF TaskStep, RoomInv
  <2>6. CASE SendStep
    BY <2>1, <2>2, <2>6, ReserveSafe, AcknowledgeSafe, DispatchSafe, RefuseSafe,
       RestoreUnsentDraftSafe DEF SendStep, RoomInv
  <2>7. CASE \E c \in room.chats : DeleteChat(c) \/ ForgetDeleted(c)
    BY <2>1, <2>2, <2>7, DeleteChatSafe, ForgetDeletedSafe DEF RoomInv
  <2>8. CASE BeginLock \/ Unlock \/ Crash
    BY <2>1, <2>8, BeginLockSafe, UnlockSafe, CrashSafe DEF RoomInv
  <2> QED
    BY <1>2, <2>3, <2>4, <2>5, <2>6, <2>7, <2>8 DEF Next
<1> QED
  BY <1>1, <1>2

\* The invariant holds in every state.
LEMMA RoomAlways == Spec => []RoomInv
<1>1. Init => RoomInv
  BY InitRoomInv, DraftsAssumption
<1>2. RoomInv /\ [Next]_vars => RoomInv'
  BY NextRoomInv, DraftsAssumption
<1> QED
  BY <1>1, <1>2, PTL DEF Spec

-----------------------------------------------------------------------------
\* Which steps write the rows and the entries.

\* Only a save, a reservation, a restoration and a deletion write to disk.
LEMMA DiskWrites ==
  ASSUME [Next]_vars
  PROVE  \/ UNCHANGED disk
         \/ \E t \in Tasks : SaveDraft(t)
         \/ \E c \in room.chats : Reserve(c) \/ RestoreUnsentDraft(c) \/ DeleteChat(c)
<1>1. CASE UNCHANGED vars
  BY <1>1 DEF vars
<1>2. CASE \E t \in Called : BeginFlush(t) \/ BeginLoad(t) \/ Wait(t)
  BY <1>2 DEF BeginFlush, BeginLoad, Wait
<1>3. CASE UserStep
  BY <1>3 DEF UserStep, FlushAll, Load, UpdateDraft, SubmitMessage
<1>4. CASE TaskStep
  BY <1>4 DEF TaskStep, BeginFlush, AfterWrite, BeginLoad, GetDraft, FinishLoad, Cancel
<1>5. CASE SendStep
  BY <1>5 DEF SendStep, AcknowledgeReserved, Dispatch, Refuse
<1>6. CASE \E c \in room.chats : DeleteChat(c) \/ ForgetDeleted(c)
  BY <1>6 DEF ForgetDeleted
<1>7. CASE BeginLock \/ Unlock \/ Crash
  BY <1>7 DEF BeginLock, Unlock, Crash
<1> QED
  BY <1>1, <1>2, <1>3, <1>4, <1>5, <1>6, <1>7 DEF Next

\* Only an edit, a write or a read that ends, a reservation that is told, a
\* deletion, a lock and a crash touch the entries.
LEMMA CacheWrites ==
  ASSUME [Next]_vars, DraftsAssumption, room \in Rooms
  PROVE  \/ UNCHANGED cache
         \/ \E c \in Chats, text \in Texts \cup {Blank} :
              cache[c].held /\ cache' = [cache EXCEPT ![c] = Edited(@, text)]
         \/ \E t \in Tasks : AfterWrite(t) \/ FinishLoad(t)
         \/ \E c \in room.chats : AcknowledgeReserved(c) \/ ForgetDeleted(c)
         \/ BeginLock \/ Crash
<1>1. CASE UNCHANGED vars
  BY <1>1 DEF vars
<1>2. CASE \E t \in Called : BeginFlush(t) \/ BeginLoad(t) \/ Wait(t)
  BY <1>2 DEF BeginFlush, BeginLoad, Wait
<1>3. CASE UserStep
  <2>1. room.chats \subseteq Chats /\ room.texts \subseteq Texts
    BY DEF DraftsAssumption
  <2> QED
    BY <1>3, <2>1 DEF UserStep, FlushAll, Load, UpdateDraft, SubmitMessage, CanEdit
<1>4. CASE TaskStep
  BY <1>4 DEF TaskStep, BeginFlush, SaveDraft, WorkerEnds, BeginLoad, GetDraft, Cancel
<1>5. CASE SendStep
  BY <1>5 DEF SendStep, Reserve, Dispatch, Refuse, RestoreUnsentDraft
<1>6. CASE \E c \in room.chats : DeleteChat(c) \/ ForgetDeleted(c)
  BY <1>6 DEF DeleteChat
<1>7. CASE BeginLock \/ Unlock \/ Crash
  BY <1>7 DEF Unlock
<1> QED
  BY <1>1, <1>2, <1>3, <1>4, <1>5, <1>6, <1>7 DEF Next

\* A row with its text taken away.
LEMMA ClearedIs ==
  ASSUME NEW d \in Draft
  PROVE  /\ d = [revision |-> d.revision, text |-> d.text]
         /\ [d EXCEPT !.text = Blank] = [revision |-> d.revision, text |-> Blank]
  BY DEF Draft

\* A row changes for a later revision, for the send of exactly its text, or back.
LEMMA RowKept ==
  ASSUME DraftInv, DraftsAssumption, room \in Rooms, [Next]_vars, NEW c \in chats,
         disk'[c] # disk[c]
  PROVE  \/ c \notin chats'
         \/ disk'[c].revision > disk[c].revision
         \/ disk[c] = sends[c].draft /\ disk'[c] = [disk[c] EXCEPT !.text = Blank]
         \/ disk'[c] = sends[c].draft /\ disk[c] = [disk'[c] EXCEPT !.text = Blank]
<1>1. /\ c \in Chats /\ disk[c] \in Draft /\ sends[c] \in Send /\ sends[c].draft \in Draft
      /\ ChatSound(c, chats, disk[c], cache[c], sends[c], sent[c])
      /\ disk \in [Chats -> Draft]
  BY Parts DEF Send
<1>2. ASSUME NEW t \in Tasks, SaveDraft(t) PROVE disk'[c].revision > disk[c].revision
  <2>1. /\ tasks[t].chat = c
        /\ tasks[t].draft.revision > disk[c].revision
        /\ disk'[c] = tasks[t].draft
    BY <1>1, <1>2 DEF SaveDraft
  <2> QED
    BY <2>1
<1>3. ASSUME NEW b \in Chats, Reserve(b)
      PROVE  disk[c] = sends[c].draft /\ disk'[c] = [disk[c] EXCEPT !.text = Blank]
  <2>1. /\ b = c /\ sends[c].stage = "saved"
        /\ disk[c].revision = sends[c].draft.revision
        /\ disk'[c] = [disk[c] EXCEPT !.text = Blank]
    BY <1>1, <1>3 DEF Reserve
  <2>2. disk[c].text # Blank
    BY <1>1, <2>1, ClearedIs
  <2>3. disk[c].text = sends[c].draft.text
    BY <1>1, <2>1, <2>2 DEF ChatSound, SendSound, Of
  <2> QED
    BY <1>1, <2>1, <2>3, ClearedIs
<1>4. ASSUME NEW b \in Chats, RestoreUnsentDraft(b)
      PROVE  disk'[c] = sends[c].draft /\ disk[c] = [disk'[c] EXCEPT !.text = Blank]
  <2>1. b = c /\ sends[c].stage = "refused" /\ Restorable(c) /\ disk'[c] = Restored(c)
    BY <1>1, <1>4 DEF RestoreUnsentDraft
  <2>2. sends[c].backup = sends[c].draft.text
    BY <1>1, <2>1 DEF Restorable, ChatSound, SendSound
  <2>3. disk'[c] = sends[c].draft
    BY <1>1, <2>1, <2>2, ClearedIs DEF Restored
  <2> QED
    BY <1>1, <2>1, <2>3, ClearedIs DEF Restorable
<1>5. ASSUME NEW b \in Chats, DeleteChat(b) PROVE c \notin chats'
  BY <1>1, <1>5 DEF DeleteChat
<1>6. room.chats \subseteq Chats
  BY DEF DraftsAssumption
<1> QED
  BY <1>2, <1>3, <1>4, <1>5, <1>6, DiskWrites

\* An edit of an unsaved entry leaves it unsaved.
LEMMA EditKeeps ==
  ASSUME NEW e \in Entry, e.dirty, NEW text \in Texts \cup {Blank}
  PROVE  Edited(e, text).dirty /\ Edited(e, text).draft.revision >= e.draft.revision
<1> DEFINE f == Edited(e, text)
<1>1. /\ text = e.draft.text => f = e
      /\ text # e.draft.text => f.dirty = TRUE /\ f.draft.revision = e.draft.revision + 1
  BY EditedIs
<1>2. e.draft.revision \in Nat
  BY DEF Entry, Draft, Revision
<1> HIDE DEF f
<1>3. f.dirty /\ f.draft.revision >= e.draft.revision
  BY <1>1, <1>2
<1> QED
  BY <1>3 DEF f

\* An unsaved entry stays, unless its revision is on disk or its chat is gone.
LEMMA EntryKept ==
  ASSUME DraftInv, DraftsAssumption, room \in Rooms, [Next]_vars, NEW c \in Chats,
         cache[c].dirty
  PROVE  \/ cache'[c].dirty /\ cache'[c].draft.revision >= cache[c].draft.revision
         \/ disk[c].revision >= cache[c].draft.revision
         \/ c \notin chats
         \/ Crash
<1>1. /\ disk[c] \in Draft /\ cache[c] \in Entry /\ sends[c] \in Send /\ sent[c] \in SentRow
      /\ ChatSound(c, chats, disk[c], cache[c], sends[c], sent[c])
      /\ cache \in [Chats -> Entry]
  BY Parts
<1>2. /\ disk[c].revision \in Nat /\ cache[c].draft.revision \in Nat
      /\ sends[c].draft.revision \in Nat
      /\ cache[c].held
  BY <1>1, Revisions DEF ChatSound, EntrySound
<1>3. CASE cache'[c] = cache[c]
  BY <1>2, <1>3
<1>4. ASSUME NEW text \in Texts \cup {Blank}, cache'[c] = Edited(cache[c], text)
      PROVE  cache'[c].dirty /\ cache'[c].draft.revision >= cache[c].draft.revision
  BY <1>1, <1>4, EditKeeps
<1>5. ASSUME NEW b \in Chats, NEW text \in Texts \cup {Blank},
             cache' = [cache EXCEPT ![b] = Edited(@, text)]
      PROVE  cache'[c].dirty /\ cache'[c].draft.revision >= cache[c].draft.revision
  <2>1. CASE b = c
    <3>1. cache'[c] = Edited(cache[c], text)
      BY <1>1, <1>5, <2>1
    <3> QED
      BY <1>4, <3>1
  <2>2. CASE b # c
    <3>1. cache'[c] = cache[c]
      BY <1>1, <1>5, <2>2
    <3> QED
      BY <1>2, <3>1
  <2> QED
    BY <2>1, <2>2
<1>6. ASSUME NEW t \in Tasks, AfterWrite(t), cache'[c] # cache[c]
      PROVE  disk[c].revision >= cache[c].draft.revision \/ c \notin chats
  <2>1. /\ tasks[t].chat = c /\ tasks[t].stage = "writing" /\ Unchanged(t)
        /\ tasks[t].result # "none" /\ tasks[t].result # "failed"
        /\ tasks[t].stored = tasks[t].draft
    BY <1>1, <1>6 DEF AfterWrite
  <2>2. tasks[t] \in Task /\ tasks[t].result = "ok"
    BY <2>1, Parts DEF Task
  <2>3. CallSound(c, chats, disk[c], cache[c], sends[c], sent[c], tasks[t])
    BY <2>1, Parts DEF Holds
  <2> QED
    BY <2>1, <2>2, <2>3 DEF CallSound, WriteSound, Unchanged
<1>7. ASSUME NEW t \in Tasks, FinishLoad(t) PROVE cache'[c] = cache[c]
  BY <1>1, <1>2, <1>7 DEF FinishLoad, MayReplace
<1>8. ASSUME NEW b \in Chats, AcknowledgeReserved(b), cache'[c] # cache[c]
      PROVE  disk[c].revision >= cache[c].draft.revision
  <2>1. /\ b = c /\ sends[c].stage = "reserved" /\ cache[c].draft = sends[c].draft
    BY <1>1, <1>8 DEF AcknowledgeReserved
  <2> QED
    BY <1>1, <1>2, <2>1 DEF ChatSound, SendSound
<1>9. ASSUME NEW b \in Chats, ForgetDeleted(b), cache'[c] # cache[c] PROVE c \notin chats
  BY <1>1, <1>9 DEF ForgetDeleted
<1>10. ASSUME BeginLock
       PROVE  cache'[c].dirty /\ cache'[c].draft.revision >= cache[c].draft.revision
  <2>1. PICK entries \in Captured : cache' = Kept(entries)
    BY <1>10 DEF BeginLock
  <2>2. room.texts \subseteq Texts
    BY DEF DraftsAssumption
  <2>3. entries[c] = cache[c] \/ \E text \in Texts \cup {Blank} : entries[c] = Edited(cache[c], text)
    BY <1>1, <2>2 DEF Captured
  <2>4. entries[c].dirty /\ entries[c].draft.revision >= cache[c].draft.revision
    BY <1>1, <1>2, <2>3, EditKeeps
  <2> QED
    BY <2>1, <2>4 DEF Kept
<1>11. room.chats \subseteq Chats
  BY DEF DraftsAssumption
<1> QED
  BY <1>3, <1>5, <1>6, <1>7, <1>8, <1>9, <1>10, <1>11, CacheWrites

-----------------------------------------------------------------------------
\* The theorems.

\* In every state the variables have their types, and a cached draft that is not
\* dirty is the revision on disk, no row being newer than a dirty one, whatever
\* was typed, reserved, restored or read while a write or a read was under way.
THEOREM CacheAlwaysSound == Spec => []CacheSound
<1>1. RoomInv => CacheSound
  <2> SUFFICES ASSUME RoomInv PROVE CacheSound
    OBVIOUS
  <2>1. TypeOK
    BY DEF RoomInv, DraftInv
  <2>2. CleanIsSaved
    BY Parts DEF RoomInv, CleanIsSaved, ChatSound, EntrySound, TypeOK
  <2> QED
    BY <2>1, <2>2 DEF CacheSound
<1> QED
  BY <1>1, RoomAlways, PTL

\* In no state is a text that went to the provider the draft of its chat again,
\* on disk or in the entry that was cleared of it.
THEOREM SentAlwaysStaysGone == Spec => []SentStaysGone
<1>1. RoomInv => SentStaysGone
  <2> SUFFICES ASSUME RoomInv, NEW c \in Chats, sent[c].draft # NoDraft
               PROVE  /\ disk[c] # sent[c].draft
                      /\ sent[c].cleared => ~(cache[c].held /\ cache[c].draft = sent[c].draft)
    BY DEF SentStaysGone
  <2>1. /\ disk[c] \in Draft /\ cache[c] \in Entry /\ sends[c] \in Send /\ sent[c] \in SentRow
        /\ ChatSound(c, chats, disk[c], cache[c], sends[c], sent[c])
    BY Parts DEF RoomInv
  <2>2. \A d : Past(d, sent[c].draft) => d # sent[c].draft
    <3>1. sent[c].draft.text # Blank /\ sent[c].draft.revision \in Nat
      BY <2>1, Revisions, DraftsAssumption DEF ChatSound, SentSound, DraftsAssumption
    <3> QED
      BY <3>1 DEF Past
  <2>3. c \notin chats => disk[c] = NoDraft
    BY <2>1 DEF ChatSound, EntrySound
  <2> QED
    BY <2>1, <2>2, <2>3 DEF ChatSound, SentSound
<1> QED
  BY <1>1, RoomAlways, PTL

\* No step replaces a saved text but with a later revision, unless it is the
\* reservation that sends it, the restoration of that send, or a deletion.
THEOREM SavedTextAlwaysKept == Spec => SavedTextKept
<1>1. RoomInv /\ [Next]_vars =>
        [\A c \in chats : disk'[c] # disk[c] =>
          \/ c \notin chats'
          \/ disk'[c].revision > disk[c].revision
          \/ disk[c] = sends[c].draft /\ disk'[c] = [disk[c] EXCEPT !.text = Blank]
          \/ disk'[c] = sends[c].draft /\ disk[c] = [disk'[c] EXCEPT !.text = Blank]]_vars
  BY RowKept, DraftsAssumption DEF RoomInv
<1> QED
  BY <1>1, RoomAlways, PTL DEF Spec, SavedTextKept

\* No step of a live process drops an unsaved edit whose revision is not on disk,
\* unless its chat is deleted.
THEOREM UnsavedAlwaysKept == Spec => UnsavedKept
<1>1. RoomInv /\ [Next]_vars =>
        [\A c \in Chats : cache[c].dirty =>
          \/ cache'[c].dirty /\ cache'[c].draft.revision >= cache[c].draft.revision
          \/ disk[c].revision >= cache[c].draft.revision
          \/ c \notin chats
          \/ Crash]_vars
  BY EntryKept, DraftsAssumption DEF RoomInv
<1> QED
  BY <1>1, RoomAlways, PTL DEF Spec, UnsavedKept
===============================================================================
