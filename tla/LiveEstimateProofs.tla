-------------------------- MODULE LiveEstimateProofs --------------------------
(***************************************************************************)
(* Theorems about LiveEstimate, for any chats, texts, versions, metadata   *)
(* and number of steps: the line under the editor is about what is on the  *)
(* screen, no late answer is published, and whenever the line is not the   *)
(* estimate of what is known now, the worker holds the request that will   *)
(* make it so.                                                             *)
(*                                                                         *)
(* The revision of a request is compared where its answer is delivered.    *)
(* RequestOK says what a revision that is equal then vouches for: the same *)
(* context means the same snapshot, the same draft means the same text,    *)
(* unless a send emptied the draft at its revision.  AnswerOK is the rest  *)
(* of the argument: once nothing is suspended, the last request submitted  *)
(* is about what is on the screen.                                         *)
(***************************************************************************)
EXTENDS LiveEstimate, TLAPS

-----------------------------------------------------------------------------
(* The inductive invariant.                                                *)

\* What an open workspace has, and that one is shown only in a session.
Presented ==
    /\ pane.open => active /\ shown # Nothing /\ snapshot = SnapshotOf(shown, meta)
    /\ show => active

\* The editor and the draft agree, except that a send which navigation has
\* overtaken may have taken the draft away from under the editor.
EditorOK ==
    /\ send # Nothing => send.draft.text # Nothing
    /\ pane.open /\ pane.editor # drafts[shown.chat].text =>
          send # Nothing /\ send.reserved /\ drafts[shown.chat].text = Nothing

\* What the revision of a request vouches for where it is still current.
RequestOK(rq) ==
    rq # Nothing =>
      /\ rq.revision.at.context <= revs.context
      /\ rq.revision.at.context = revs.context => rq.snapshot = snapshot
      /\ rq.revision.draft <= drafts[rq.revision.chat].revision
      /\ rq.revision.draft = drafts[rq.revision.chat].revision =>
            \/ rq.text = drafts[rq.revision.chat].text
            \/ /\ drafts[rq.revision.chat].text = Nothing
               /\ pane.open /\ shown.chat = rq.revision.chat => pane.editor \in {Nothing, rq.text}
\* RequestOK, of the request that waits and of the one in the thread.
RequestsOK == RequestOK(worker.pending) /\ RequestOK(worker.running)

\* An estimate on the line is about the chat on the screen and its editor.
LineOK ==
    pane.open /\ pane.line.kind = "estimate" =>
      pane.line.of.chat = shown.chat /\ pane.editor \in {pane.line.text, Nothing}

\* The answer to this request would be published.
Answers(rq) == rq # Nothing /\ rq.revision = worker.latest /\ Current(rq.revision)
\* Once nothing is suspended, the line is right or will be, and no answer that
\* is still to come makes it wrong for good.
AnswerOK ==
    Settled =>
      /\ pane.line = Estimate(snapshot, pane.editor) \/ Coming
      /\ Answers(worker.pending) => Live(worker.pending)
      /\ Answers(worker.running) => Live(worker.running) \/ Live(worker.pending)

\* The inductive invariant.
LineInv == LiveTypeOK /\ Presented /\ EditorOK /\ RequestsOK /\ LineOK /\ AnswerOK

-----------------------------------------------------------------------------
(* What the operators of the module return.                                *)

\* A request is handed to the worker (_request_estimate, submit).
LEMMA RequestIs ==
  ASSUME NEW w \in Workers, NEW r \in Revs, NEW s \in Snaps \union {Nothing},
         NEW c \in Chats, NEW d \in [Chats -> Drafts],
         (w.task = "computing") = (w.running # Nothing)
  PROVE  /\ Request(w, r, s, c, d) \in Workers
         /\ (Request(w, r, s, c, d).task = "computing") = (Request(w, r, s, c, d).running # Nothing)
         /\ Request(w, r, s, c, d).running = w.running
         /\ s = Nothing => Request(w, r, s, c, d) = w
         /\ s # Nothing =>
              /\ Request(w, r, s, c, d).pending =
                   [revision |-> Revision(r, c, d), snapshot |-> s, text |-> d[c].text]
              /\ Request(w, r, s, c, d).pending \in Requests
              /\ Request(w, r, s, c, d).latest = Revision(r, c, d)
<1>1. CASE s = Nothing
  BY <1>1 DEF Request
<1>2. CASE s # Nothing
  <2> DEFINE rq == [revision |-> Revision(r, c, d), snapshot |-> s, text |-> d[c].text]
  <2>1. Revision(r, c, d) \in Revisions /\ d[c].text \in Texts
    BY DEF Revision, Revisions, Drafts
  <2>2. rq \in Requests /\ rq.revision = Revision(r, c, d)
    BY <2>1, <1>2 DEF Requests
  <2>3. Request(w, r, s, c, d) = [w EXCEPT !.latest = rq.revision, !.pending = rq,
                                           !.task = IF @ = "none" THEN "ready" ELSE @]
    BY <1>2 DEF Request, Submitted
  <2> HIDE DEF rq
  <2>4. /\ Request(w, r, s, c, d) \in Workers
        /\ Request(w, r, s, c, d).latest = rq.revision /\ Request(w, r, s, c, d).pending = rq
        /\ Request(w, r, s, c, d).running = w.running
        /\ Request(w, r, s, c, d).task = IF w.task = "none" THEN "ready" ELSE w.task
    BY <2>1, <2>2, <2>3 DEF Workers
  <2> QED
    BY <1>2, <2>2, <2>4 DEF rq
<1> QED
  BY <1>1, <1>2

\* The text of a chat is recorded (record_edit).
LEMMA RecordedIs ==
  ASSUME LiveTypeOK, NEW c \in Chats, NEW t \in Texts
  PROVE  /\ Recorded(c, t) \in [Chats -> Drafts]
         /\ Recorded(c, t)[c].text = t
         /\ drafts[c].text = t => Recorded(c, t) = drafts
         /\ drafts[c].text # t => Recorded(c, t)[c].revision = drafts[c].revision + 1
         /\ \A x \in Chats : x # c => Recorded(c, t)[x] = drafts[x]
  BY DEF LiveTypeOK, Recorded, Drafts

\* The text of the editor is recorded (capture_editor).
LEMMA CapturedIs ==
  ASSUME LiveTypeOK, Presented
  PROVE  /\ Captured \in [Chats -> Drafts]
         /\ pane.open => Captured[shown.chat].text = pane.editor
         /\ ~pane.open => Captured = drafts
         /\ \A x \in Chats :
              \/ Captured[x] = drafts[x]
              \/ Captured[x].revision = drafts[x].revision + 1
<1>1. CASE Open
  <2>1. shown.chat \in Chats /\ pane.editor \in Texts /\ Captured = Recorded(shown.chat, pane.editor)
    BY <1>1 DEF LiveTypeOK, ShownStates, Open, Captured
  <2> QED
    BY <2>1, <1>1, RecordedIs DEF Open
<1>2. CASE ~Open
  BY <1>2 DEF LiveTypeOK, Presented, Open, Captured
<1> QED
  BY <1>1, <1>2

-----------------------------------------------------------------------------
(* What a step leaves of the requests and of the answers.                  *)

\* A draft is edited, stays under the same editor, or is taken by a send.
DraftStep(c) ==
    \/ drafts'[c].revision > drafts[c].revision
    \/ /\ drafts'[c] = drafts[c]
       /\ drafts[c].text = Nothing /\ pane'.open /\ shown'.chat = c =>
            \/ pane'.editor = Nothing
            \/ pane.open /\ shown.chat = c /\ pane'.editor = pane.editor
    \/ /\ drafts'[c].revision = drafts[c].revision
       /\ drafts'[c].text = Nothing /\ drafts[c].text # Nothing
       /\ pane'.open /\ shown'.chat = c => pane'.editor \in {Nothing, drafts[c].text}

\* The context stays, or it is replaced under a new revision.
ContextStep ==
    \/ revs'.context = revs.context /\ snapshot' = snapshot
    \/ revs'.context = revs.context + 1

\* A request the worker keeps vouches for the same after the step.
LEMMA RequestKept ==
  ASSUME LiveTypeOK, LiveTypeOK', ContextStep, \A c \in Chats : DraftStep(c),
         NEW rq \in Requests \union {Nothing}, RequestOK(rq)
  PROVE  RequestOK(rq)'
<1> SUFFICES ASSUME rq # Nothing
             PROVE  RequestOK(rq)'
  BY DEF RequestOK
<1> DEFINE c == rq.revision.chat
<1>1. /\ c \in Chats /\ rq.revision.draft \in Nat /\ rq.revision.at.context \in Nat
      /\ rq.text \in Texts
  BY DEF Requests, Revisions, Revs
<1>2. /\ drafts[c].revision \in Nat /\ drafts'[c].revision \in Nat
      /\ revs.context \in Nat /\ revs'.context \in Nat
  BY <1>1 DEF LiveTypeOK, Drafts, Revs
<1>3. /\ rq.revision.at.context <= revs'.context
      /\ rq.revision.at.context = revs'.context => rq.snapshot = snapshot'
  BY <1>1, <1>2 DEF RequestOK, ContextStep
<1>4. /\ rq.revision.draft <= drafts'[c].revision
      /\ rq.revision.draft = drafts'[c].revision =>
            \/ rq.text = drafts'[c].text
            \/ /\ drafts'[c].text = Nothing
               /\ pane'.open /\ shown'.chat = c => pane'.editor \in {Nothing, rq.text}
  <2>1. DraftStep(c)
    BY <1>1
  <2> QED
    BY <2>1, <1>1, <1>2 DEF RequestOK, DraftStep
<1> QED
  BY <1>3, <1>4 DEF RequestOK

\* RequestKept, of both requests of the worker.
LEMMA RequestsKept ==
  ASSUME LineInv, LiveTypeOK', ContextStep, \A c \in Chats : DraftStep(c),
         \A rq \in {worker'.pending, worker'.running} :
            rq \in {Nothing, worker.pending, worker.running} \/ RequestOK(rq)'
  PROVE  RequestsOK'
<1>1. ASSUME NEW rq \in {worker'.pending, worker'.running}
      PROVE  RequestOK(rq)'
  <2>1. CASE rq \in {Nothing, worker.pending, worker.running}
    <3>1. rq \in Requests \union {Nothing}
      BY <2>1 DEF LineInv, LiveTypeOK, Workers
    <3>2. RequestOK(rq)
      BY <2>1 DEF LineInv, RequestsOK, RequestOK
    <3> QED
      BY <3>1, <3>2, RequestKept DEF LineInv
  <2> QED
    BY <1>1, <2>1
<1>2. RequestOK(worker.pending)'
  BY <1>1 DEF RequestOK
<1>3. RequestOK(worker.running)'
  BY <1>1 DEF RequestOK
<1> QED
  BY <1>2, <1>3 DEF RequestsOK

\* A request that was just made vouches for all of it.
LEMMA RequestMade ==
  ASSUME LiveTypeOK', snapshot' \in Snaps, NEW c \in Chats,
         NEW rq, rq = [revision |-> Revision(revs', c, drafts'), snapshot |-> snapshot',
                       text |-> drafts'[c].text]
  PROVE  RequestOK(rq)'
  BY DEF RequestOK, Revision, LiveTypeOK, Revs, Drafts

\* So does one that was made before the drafts moved.
LEMMA RequestMadeBefore ==
  ASSUME LiveTypeOK, LiveTypeOK', snapshot' \in Snaps, NEW c \in Chats, DraftStep(c),
         NEW rq, rq = [revision |-> Revision(revs', c, drafts), snapshot |-> snapshot',
                       text |-> drafts[c].text]
  PROVE  RequestOK(rq)'
<1>1. /\ drafts[c].revision \in Nat /\ drafts'[c].revision \in Nat /\ revs'.context \in Nat
  BY DEF LiveTypeOK, Revs, Drafts
<1>2. /\ rq.revision.chat = c /\ rq.revision.draft = drafts[c].revision
      /\ rq.revision.at = revs' /\ rq.snapshot = snapshot' /\ rq.text = drafts[c].text
  BY DEF Revision
<1> QED
  BY <1>1, <1>2 DEF RequestOK, DraftStep

\* The last request submitted is about what is on the screen.
LEMMA AnswerMade ==
  ASSUME LiveTypeOK, LiveTypeOK', Presented', snapshot' # Nothing,
         worker' = Request(worker, revs', snapshot', shown'.chat, drafts')
  PROVE  AnswerOK'
<1> SUFFICES ASSUME Settled'
             PROVE  Live(worker.pending)'
  BY DEF AnswerOK, Coming
<1>1. /\ worker \in Workers /\ (worker.task = "computing") = (worker.running # Nothing)
      /\ revs' \in Revs /\ snapshot' \in Snaps \union {Nothing} /\ drafts' \in [Chats -> Drafts]
      /\ shown' \in ShownStates \union {Nothing}
  BY DEF LiveTypeOK
<1>2. shown'.chat \in Chats /\ Open'
  BY <1>1 DEF Settled, Open, ShownStates
<1>3. /\ worker'.pending = [revision |-> Revision(revs', shown'.chat, drafts'),
                            snapshot |-> snapshot', text |-> drafts'[shown'.chat].text]
      /\ worker'.pending \in Requests
      /\ worker'.latest = Revision(revs', shown'.chat, drafts')
  BY <1>1, <1>2, RequestIs
<1>4. worker'.pending # Nothing
  BY <1>3, LiveAssumption DEF LiveAssumption
<1>5. pane'.editor = drafts'[shown'.chat].text
  BY DEF Settled
<1> QED
  BY <1>2, <1>3, <1>4, <1>5 DEF Live, Current, Revision

\* What leaves the screen and the worker alone leaves the answers alone.
LEMMA AnswerKept ==
  ASSUME AnswerOK, Settled' => Settled,
         UNCHANGED <<active, revs, shown, meta, snapshot, pane, worker>>,
         Open => drafts'[shown.chat] = drafts[shown.chat]
  PROVE  AnswerOK'
<1> SUFFICES ASSUME Settled'
             PROVE  AnswerOK'
  BY DEF AnswerOK
<1>1. Settled /\ Open /\ drafts'[shown.chat] = drafts[shown.chat]
  BY DEF Settled
<1>2. \A rev : Current(rev)' = Current(rev)
  BY <1>1 DEF Current, Open
<1>3. \A rq : Live(rq)' = Live(rq) /\ Answers(rq)' = Answers(rq)
  BY <1>2 DEF Live, Answers
<1> QED
  BY <1>1, <1>3 DEF AnswerOK, Coming, Estimate

-----------------------------------------------------------------------------
(* The steps.                                                              *)

\* Nothing is known of the start but that nothing is open.
LEMMA InitSafe == Init => LineInv
<1> SUFFICES ASSUME Init
             PROVE  LineInv
  OBVIOUS
<1>1. LiveTypeOK
  <2>1. Nothing \in Texts /\ MaxSteps \in Nat
    BY LiveAssumption DEF LiveAssumption
  <2>2. drafts \in [Chats -> Drafts] /\ revs \in Revs /\ worker \in Workers
    BY <2>1 DEF Init, Drafts, Revs, Workers, NewWorker
  <2>3. Blank \in Lines
    BY DEF Lines
  <2>4. pane \in [open : BOOLEAN, editor : Texts, line : Lines]
    BY <2>1, <2>3 DEF Init
  <2>5. (worker.task = "computing") = (worker.running # Nothing)
    BY DEF Init, NewWorker
  <2>6. steps \in 0..MaxSteps
    BY <2>1 DEF Init
  <2> QED
    BY <2>2, <2>4, <2>5, <2>6 DEF Init, LiveTypeOK
<1>2. Presented /\ EditorOK /\ LineOK /\ RequestsOK /\ AnswerOK
  BY DEF Init, Presented, EditorOK, LineOK, RequestsOK, RequestOK, NewWorker, AnswerOK, Settled, Open
<1> QED
  BY <1>1, <1>2 DEF LineInv

\* A step of no variable.
LEMMA StutterSafe ==
  ASSUME LineInv, UNCHANGED vars
  PROVE  LineInv'
<1> USE DEF vars
<1>1. LiveTypeOK' /\ Presented' /\ EditorOK' /\ LineOK'
  BY DEF LineInv, LiveTypeOK, Presented, EditorOK, LineOK
<1>2. RequestsOK'
  BY DEF LineInv, RequestsOK, RequestOK
<1>3. AnswerOK'
  BY AnswerKept DEF LineInv, Settled, Open, Matches
<1> QED
  BY <1>1, <1>2, <1>3 DEF LineInv

\* The worker takes the next request, or its task ends.
LEMMA IterateIs ==
  ASSUME NEW w \in Workers
  PROVE  /\ Iterate(w) \in Workers
         /\ Iterate(w).latest = w.latest /\ Iterate(w).pending = Nothing
         /\ Iterate(w).running = w.pending
         /\ (Iterate(w).task = "computing") = (w.pending # Nothing)
  BY DEF Iterate, Workers

\* _run takes a request.
LEMMA TakeSafe ==
  ASSUME LineInv, Take
  PROVE  LineInv'
<1>1. /\ worker \in Workers /\ worker' = Iterate(worker) /\ worker.task = "ready"
      /\ (worker.task = "computing") = (worker.running # Nothing)
  BY DEF LineInv, LiveTypeOK, Take
<1>2. UNCHANGED <<active, revs, shown, meta, snapshot, drafts, pane, target, show, paid, send,
                  stuck, steps>>
  BY DEF Take
<1>3. LiveTypeOK'
  BY <1>1, <1>2, IterateIs DEF LineInv, LiveTypeOK
<1>4. Presented' /\ EditorOK' /\ LineOK'
  BY <1>2 DEF LineInv, Presented, EditorOK, LineOK
<1>5. RequestsOK'
  <2>1. ContextStep /\ \A c \in Chats : DraftStep(c)
    BY <1>2 DEF ContextStep, DraftStep
  <2> QED
    BY <1>1, <1>3, <2>1, IterateIs, RequestsKept
<1>6. AnswerOK'
  <2>1. \A rev : Current(rev)' = Current(rev)
    BY <1>2 DEF Current, Open
  <2>2. Settled' = Settled
    BY <1>2 DEF Settled, Open, Matches
  <2> QED
    BY <1>1, <1>2, <2>1, <2>2, IterateIs DEF LineInv, AnswerOK, Answers, Coming, Live, Estimate
<1> QED
  BY <1>3, <1>4, <1>5, <1>6 DEF LineInv

\* _deliver shows what the thread brings, if it is still current.
LEMMA ComputedSafe ==
  ASSUME LineInv, Computed
  PROVE  LineInv'
<1> DEFINE rq == worker.running
<1>1. /\ worker \in Workers /\ worker' = Iterate(worker)
      /\ rq \in Requests /\ rq # Nothing /\ RequestOK(rq)
  BY DEF LineInv, LiveTypeOK, Computed, RequestsOK, Workers
<1>2. UNCHANGED <<active, revs, shown, meta, snapshot, drafts, target, show, paid, send, stuck,
                  steps>>
  BY DEF Computed
<1>3. pane' = IF rq.revision = worker.latest /\ Current(rq.revision)
              THEN [pane EXCEPT !.line = Estimate(rq.snapshot, rq.text)] ELSE pane
  BY DEF Computed, Deliver
<1>4. rq.snapshot \in Snaps /\ rq.text \in Texts
  BY <1>1 DEF Requests
<1>5. pane \in [open : BOOLEAN, editor : Texts, line : Lines]
  BY DEF LineInv, LiveTypeOK
<1>6. Estimate(rq.snapshot, rq.text) \in Lines
  BY <1>4 DEF Estimate, Lines
<1>7. /\ pane' \in [open : BOOLEAN, editor : Texts, line : Lines]
      /\ pane'.open = pane.open /\ pane'.editor = pane.editor
      /\ pane'.line = IF rq.revision = worker.latest /\ Current(rq.revision)
                      THEN Estimate(rq.snapshot, rq.text) ELSE pane.line
  BY <1>3, <1>5, <1>6
<1>8. LiveTypeOK'
  BY <1>1, <1>2, <1>7, IterateIs DEF LineInv, LiveTypeOK
<1>9. Presented' /\ EditorOK'
  BY <1>2, <1>7 DEF LineInv, Presented, EditorOK
<1>10. RequestsOK'
  <2>1. ContextStep /\ \A c \in Chats : DraftStep(c)
    BY <1>2, <1>7 DEF ContextStep, DraftStep
  <2> QED
    BY <1>1, <1>8, <2>1, IterateIs, RequestsKept
<1>11. Current(rq.revision) =>
         /\ rq.revision.chat = shown.chat /\ pane.open /\ shown # Nothing
         /\ rq.snapshot = snapshot /\ snapshot = SnapshotOf(shown, meta)
         /\ rq.text \in {pane.editor, Nothing} \/ pane.editor = Nothing
         /\ pane.editor = drafts[shown.chat].text =>
              rq.text = pane.editor \/ pane.editor = Nothing
  <2> SUFFICES ASSUME Current(rq.revision)
               PROVE  /\ rq.revision.chat = shown.chat /\ pane.open /\ shown # Nothing
                      /\ rq.snapshot = snapshot /\ snapshot = SnapshotOf(shown, meta)
                      /\ rq.text \in {pane.editor, Nothing} \/ pane.editor = Nothing
                      /\ pane.editor = drafts[shown.chat].text =>
                           rq.text = pane.editor \/ pane.editor = Nothing
    OBVIOUS
  <2>1. /\ rq.revision.chat = shown.chat /\ pane.open /\ shown # Nothing
        /\ rq.revision.at = revs /\ rq.revision.draft = drafts[shown.chat].revision
    BY DEF Current, Open
  <2>2. rq.snapshot = snapshot /\ snapshot = SnapshotOf(shown, meta)
    BY <1>1, <2>1 DEF RequestOK, LineInv, Presented
  <2>3. \/ rq.text = drafts[shown.chat].text
        \/ pane.editor \in {Nothing, rq.text}
    BY <1>1, <2>1 DEF RequestOK
  <2>4. pane.editor = drafts[shown.chat].text \/ drafts[shown.chat].text = Nothing
    BY <2>1 DEF LineInv, EditorOK
  <2> QED
    BY <2>1, <2>2, <2>3, <2>4
<1>12. LineOK'
  <2>1. CASE rq.revision = worker.latest /\ Current(rq.revision)
    BY <2>1, <1>2, <1>7, <1>11 DEF LineOK, Estimate, Blank, SnapshotOf
  <2>2. CASE ~(rq.revision = worker.latest /\ Current(rq.revision))
    BY <2>2, <1>2, <1>7 DEF LineInv, LineOK
  <2> QED
    BY <2>1, <2>2
<1>13. AnswerOK'
  <2> SUFFICES ASSUME Settled'
               PROVE  AnswerOK'
    BY DEF AnswerOK
  <2>1. Settled
    BY <1>2, <1>7 DEF Settled, Open, Matches
  <2>2. \A rev : Current(rev)' = Current(rev)
    BY <1>2, <1>7 DEF Current, Open
  <2>3. /\ worker'.latest = worker.latest /\ worker'.pending = Nothing
        /\ worker'.running = worker.pending
        /\ (worker'.task = "computing") = (worker.pending # Nothing)
    BY <1>1, IterateIs
  <2>4. CASE Live(worker.pending)
    <3>1. worker'.task = "computing" /\ Live(worker.running)'
      BY <2>2, <2>3, <2>4, <1>2, <1>7 DEF Live
    <3> QED
      BY <3>1, <2>3 DEF AnswerOK, Coming, Answers
  <2>5. CASE ~Live(worker.pending)
    <3>1. pane'.line = Estimate(snapshot, pane.editor)
      <4>1. CASE Answers(rq)
        BY <4>1, <2>1, <2>5, <1>7 DEF LineInv, AnswerOK, Answers, Live
      <4>2. CASE ~Answers(rq)
        BY <4>2, <2>1, <2>5, <1>1, <1>7 DEF LineInv, AnswerOK, Answers, Live, Coming
      <4> QED
        BY <4>1, <4>2
    <3>2. ~Answers(worker.pending)
      BY <2>1, <2>5 DEF LineInv, AnswerOK
    <3>3. ~Answers(worker.running)'
      BY <3>2, <2>2, <2>3 DEF Answers
    <3>4. ~Answers(worker.pending)'
      BY <2>3 DEF Answers
    <3> QED
      BY <3>1, <3>3, <3>4, <1>2, <1>7 DEF AnswerOK, Estimate
  <2> QED
    BY <2>4, <2>5
<1> QED
  BY <1>8, <1>9, <1>10, <1>12, <1>13 DEF LineInv

\* What a refresh of an open workspace sets (_refresh_local_estimate).
LEMMA RefreshIs ==
  ASSUME LiveTypeOK, NEW st \in ShownStates, NEW m \in Catalogs \union {Nothing}, NEW r \in Revs,
         r.context = revs.context, Refresh(st, m, r, drafts)
  PROVE  /\ shown' = st /\ shown' # Nothing /\ meta' = m /\ stuck' = FALSE
         /\ snapshot' = SnapshotOf(st, m) /\ snapshot' \in Snaps /\ snapshot' # Nothing
         /\ revs' \in Revs /\ ContextStep
         /\ worker' = Request(worker, revs', snapshot', st.chat, drafts)
         /\ worker' \in Workers /\ (worker'.task = "computing") = (worker'.running # Nothing)
         /\ worker'.running = worker.running
         /\ worker'.pending = [revision |-> Revision(revs', st.chat, drafts),
                               snapshot |-> snapshot', text |-> drafts[st.chat].text]
<1>1. /\ worker \in Workers /\ (worker.task = "computing") = (worker.running # Nothing)
      /\ drafts \in [Chats -> Drafts] /\ st.chat \in Chats
  BY DEF LiveTypeOK, ShownStates
<1>2. /\ shown' = st /\ meta' = m /\ stuck' = FALSE /\ snapshot' = SnapshotOf(st, m)
      /\ revs' = [r EXCEPT !.context = @ + 1]
      /\ worker' = Request(worker, revs', snapshot', st.chat, drafts)
  BY DEF Refresh
<1>3. snapshot' \in Snaps /\ snapshot' # Nothing /\ shown' # Nothing
  BY <1>2, LiveAssumption DEF SnapshotOf, ShownStates, Snaps, LiveAssumption
<1>4. revs' \in Revs /\ revs'.context = revs.context + 1
  BY <1>2 DEF Revs
<1>5. snapshot' \in Snaps \union {Nothing}
  BY <1>3
<1>6. /\ worker' \in Workers /\ (worker'.task = "computing") = (worker'.running # Nothing)
      /\ worker'.running = worker.running
      /\ worker'.pending = [revision |-> Revision(revs', st.chat, drafts),
                            snapshot |-> snapshot', text |-> drafts[st.chat].text]
  BY <1>1, <1>2, <1>3, <1>4, <1>5, RequestIs
<1> QED
  BY <1>2, <1>3, <1>4, <1>6 DEF ContextStep

\* Where the drafts and the editor stay, the drafts step as they should.
LEMMA DraftsStay ==
  ASSUME drafts' = drafts, pane'.open => pane.open /\ shown'.chat = shown.chat,
         pane'.open => pane'.editor = pane.editor
  PROVE  \A c \in Chats : DraftStep(c)
  BY DEF DraftStep

\* Where the editor is captured, too.
LEMMA DraftsCaptured ==
  ASSUME LiveTypeOK, Presented, drafts' = Captured,
         pane'.open => pane.open /\ shown'.chat = shown.chat /\ pane'.editor = pane.editor
  PROVE  \A c \in Chats : DraftStep(c)
<1> TAKE c \in Chats
<1>1. Captured[c] = drafts[c] \/ Captured[c].revision = drafts[c].revision + 1
  BY CapturedIs
<1>2. drafts[c].revision \in Nat
  BY DEF LiveTypeOK, Drafts
<1> QED
  BY <1>1, <1>2 DEF DraftStep

\* The requests after a refresh.
LEMMA RefreshRequests ==
  ASSUME LineInv, LiveTypeOK', NEW st \in ShownStates, ContextStep, \A c \in Chats : DraftStep(c),
         snapshot' \in Snaps, worker'.running = worker.running,
         worker'.pending = [revision |-> Revision(revs', st.chat, drafts),
                            snapshot |-> snapshot', text |-> drafts[st.chat].text]
  PROVE  RequestsOK'
<1>1. st.chat \in Chats
  BY DEF ShownStates
<1>2. \A rq : rq = worker'.pending => RequestOK(rq)'
  BY <1>1, RequestMadeBefore DEF LineInv
<1> QED
  BY <1>2, RequestsKept

\* _set_state by an operation that still matches.
LEMMA StateArrivesSafe ==
  ASSUME LineInv, NEW version \in Versions, StateArrives(version)
  PROVE  LineInv'
<1> DEFINE st == [shown EXCEPT !.version = version]
<1>1. Open /\ Refresh(st, meta, revs, drafts)
  BY DEF StateArrives
<1>2. UNCHANGED <<active, drafts, pane, target, show, paid, send>>
  BY DEF StateArrives
<1>3. st \in ShownStates /\ st.chat = shown.chat /\ shown \in ShownStates
  BY <1>1 DEF LineInv, LiveTypeOK, Open, ShownStates
<1>4. revs \in Revs /\ meta \in Catalogs \union {Nothing}
  BY DEF LineInv, LiveTypeOK
<1> HIDE DEF st
<1> USE <1>1, <1>2, <1>3, <1>4, RefreshIs DEF LineInv
<1>5. steps' \in 0..MaxSteps
  BY LiveAssumption DEF StateArrives, Step, LiveTypeOK, LiveAssumption
<1>6. LiveTypeOK'
  BY <1>5 DEF LiveTypeOK
<1>7. Presented' /\ EditorOK' /\ LineOK'
  BY DEF Presented, EditorOK, LineOK
<1>8. \A c \in Chats : DraftStep(c)
  BY DraftsStay
<1>9. RequestsOK'
  BY <1>6, <1>8, RefreshRequests
<1>10. AnswerOK'
  BY <1>6, <1>7, AnswerMade
<1> QED
  BY <1>6, <1>7, <1>9, <1>10 DEF LineInv

\* set_estimate_metadata.
LEMMA MetadataSafe ==
  ASSUME LineInv, NEW m \in Catalogs \union {Nothing}, Metadata(m)
  PROVE  LineInv'
<1>1. Open /\ Refresh(shown, m, revs, drafts)
  BY DEF Metadata
<1>2. UNCHANGED <<active, drafts, pane, target, show, paid, send>>
  BY DEF Metadata
<1>3. shown \in ShownStates /\ revs \in Revs
  BY <1>1 DEF LineInv, LiveTypeOK, Open
<1> USE <1>1, <1>2, <1>3, RefreshIs DEF LineInv
<1>5. steps' \in 0..MaxSteps
  BY LiveAssumption DEF Metadata, Step, LiveTypeOK, LiveAssumption
<1>6. LiveTypeOK'
  BY <1>5 DEF LiveTypeOK
<1>7. Presented' /\ EditorOK' /\ LineOK'
  BY DEF Presented, EditorOK, LineOK
<1>8. \A c \in Chats : DraftStep(c)
  BY DraftsStay
<1>9. RequestsOK'
  BY <1>6, <1>8, RefreshRequests
<1>10. AnswerOK'
  BY <1>6, <1>7, AnswerMade
<1> QED
  BY <1>6, <1>7, <1>9, <1>10 DEF LineInv

\* The workspace of the chosen chat is shown (_show_workspace).
LEMMA BindSafe ==
  ASSUME LineInv, NEW version \in Versions, NEW m \in Catalogs \union {Nothing}, Bind(version, m)
  PROVE  LineInv'
<1> DEFINE st == [chat |-> target, version |-> version]
           other == shown = Nothing \/ shown.chat # target
           r == [revs EXCEPT !.workspace = IF other THEN @ + 1 ELSE @,
                             !.view = IF pane.open THEN @ ELSE @ + 1]
           text == drafts[target].text
           same == pane.open /\ shown # Nothing /\ shown.chat = target
           before == IF same THEN pane ELSE [open |-> TRUE, editor |-> Nothing, line |-> Blank]
<1>1. /\ show /\ show' = FALSE
      /\ pane' = [before EXCEPT !.editor = text,
                                !.line = IF text = before.editor THEN @
                                         ELSE IF text = Nothing THEN Blank ELSE Calculating]
      /\ Refresh(st, m, r, drafts)
      /\ UNCHANGED <<active, drafts, target, paid, send, steps>>
  BY DEF Bind, Restored
<1>2. target \in Chats /\ revs \in Revs /\ text \in Texts
  BY DEF LineInv, LiveTypeOK, Drafts
<1>3. st \in ShownStates /\ st.chat = target
  BY <1>2 DEF ShownStates
<1>4. r \in Revs /\ r.context = revs.context
  <2> DEFINE workspace == IF other THEN revs.workspace + 1 ELSE revs.workspace
             view == IF pane.open THEN revs.view ELSE revs.view + 1
  <2>1. workspace \in Nat /\ view \in Nat
    BY <1>2 DEF Revs
  <2>2. r = [revs EXCEPT !.workspace = workspace, !.view = view]
    BY <1>2 DEF Revs
  <2> HIDE DEF workspace, view, r
  <2> QED
    BY <2>1, <2>2, <1>2 DEF Revs
<1>5. /\ before \in [open : BOOLEAN, editor : Texts, line : Lines] /\ before.open = TRUE
      /\ Blank \in Lines /\ Calculating \in Lines
  BY LiveAssumption DEF LineInv, LiveTypeOK, Lines, LiveAssumption
<1>6. /\ pane' \in [open : BOOLEAN, editor : Texts, line : Lines]
      /\ pane'.open = TRUE /\ pane'.editor = text
      /\ pane'.line = IF text = before.editor THEN before.line
                      ELSE IF text = Nothing THEN Blank ELSE Calculating
  BY <1>1, <1>2, <1>5
<1> HIDE DEF st, r
<1>7. LiveTypeOK'
  BY <1>1, <1>2, <1>3, <1>4, <1>6, RefreshIs DEF LineInv, LiveTypeOK
<1>8. Presented'
  BY <1>1, <1>3, <1>4, RefreshIs DEF LineInv, Presented
<1>9. EditorOK'
  BY <1>1, <1>3, <1>4, <1>6, RefreshIs DEF LineInv, EditorOK
<1>10. LineOK'
  <2>1. CASE same
    BY <2>1, <1>1, <1>3, <1>4, <1>6, RefreshIs DEF LineInv, LineOK, Blank, Calculating
  <2>2. CASE ~same
    BY <2>2, <1>6 DEF LineOK, Blank, Calculating
  <2> QED
    BY <2>1, <2>2
<1>11. \A c \in Chats : DraftStep(c)
  BY <1>1, <1>3, <1>4, <1>6, RefreshIs DEF DraftStep, LineInv
<1>12. RequestsOK'
  BY <1>3, <1>4, <1>1, <1>7, <1>11, RefreshIs, RefreshRequests DEF LineInv
<1>13. AnswerOK'
  BY <1>1, <1>3, <1>4, <1>7, <1>8, RefreshIs, AnswerMade DEF LineInv
<1> QED
  BY <1>7, <1>8, <1>9, <1>10, <1>12, <1>13 DEF LineInv

\* update_draft, up to the write of the draft.
LEMMA TypeSafe ==
  ASSUME LineInv, NEW text \in Texts, Type(text)
  PROVE  LineInv'
<1>1. /\ Open /\ drafts' = Recorded(shown.chat, text)
      /\ pane' = [pane EXCEPT !.editor = text,
                              !.line = IF text = Nothing THEN Blank ELSE Calculating]
      /\ worker' = Request(worker, revs, snapshot, shown.chat, drafts')
      /\ stuck' = FALSE
      /\ UNCHANGED <<active, revs, shown, meta, snapshot, target, show, paid, send>>
  BY DEF Type
<1>2. /\ shown.chat \in Chats /\ shown # Nothing /\ pane.open
      /\ snapshot = SnapshotOf(shown, meta)
  BY <1>1 DEF Open, LineInv, LiveTypeOK, ShownStates, Presented
<1>3. snapshot \in Snaps /\ snapshot # Nothing
  BY <1>2, LiveAssumption DEF LineInv, LiveTypeOK, SnapshotOf, ShownStates, Snaps, LiveAssumption
<1>4. /\ drafts' \in [Chats -> Drafts] /\ drafts'[shown.chat].text = text
      /\ drafts[shown.chat].text = text => drafts' = drafts
      /\ drafts[shown.chat].text # text =>
            drafts'[shown.chat].revision = drafts[shown.chat].revision + 1
      /\ \A x \in Chats : x # shown.chat => drafts'[x] = drafts[x]
  BY <1>1, <1>2, RecordedIs DEF LineInv
<1>5. /\ worker \in Workers /\ (worker.task = "computing") = (worker.running # Nothing)
      /\ revs \in Revs /\ snapshot \in Snaps \union {Nothing}
  BY DEF LineInv, LiveTypeOK
<1>6. /\ worker' \in Workers /\ (worker'.task = "computing") = (worker'.running # Nothing)
      /\ worker'.running = worker.running
      /\ worker'.pending = [revision |-> Revision(revs', shown.chat, drafts'),
                            snapshot |-> snapshot', text |-> drafts'[shown.chat].text]
  BY <1>1, <1>2, <1>3, <1>4, <1>5, RequestIs
<1>7. /\ pane' \in [open : BOOLEAN, editor : Texts, line : Lines]
      /\ pane'.open = pane.open /\ pane'.editor = text
      /\ pane'.line = IF text = Nothing THEN Blank ELSE Calculating
  BY <1>1 DEF LineInv, LiveTypeOK, Lines
<1>8. steps' \in 0..MaxSteps
  BY LiveAssumption DEF Type, Step, LiveTypeOK, LiveAssumption, LineInv
<1>9. LiveTypeOK'
  BY <1>1, <1>4, <1>6, <1>7, <1>8 DEF LineInv, LiveTypeOK
<1>10. Presented' /\ EditorOK' /\ LineOK'
  BY <1>1, <1>4, <1>7 DEF LineInv, Presented, EditorOK, LineOK, Blank, Calculating
<1>11. RequestsOK'
  <2>1. ASSUME NEW c \in Chats
        PROVE  DraftStep(c)
    <3>1. drafts[c].revision \in Nat
      BY DEF LineInv, LiveTypeOK, Drafts
    <3>2. CASE c = shown.chat
      BY <3>1, <3>2, <1>1, <1>4, <1>7 DEF DraftStep
    <3>3. CASE c # shown.chat
      BY <3>3, <1>1, <1>4 DEF DraftStep
    <3> QED
      BY <3>2, <3>3
  <2>2. ContextStep
    BY <1>1 DEF ContextStep
  <2>3. \A rq : rq = worker'.pending => RequestOK(rq)'
    BY <1>1, <1>2, <1>3, <1>6, <1>9, RequestMade
  <2> QED
    BY <2>1, <2>2, <2>3, <1>6, <1>9, RequestsKept
<1>12. AnswerOK'
  BY <1>1, <1>3, <1>9, <1>10, AnswerMade DEF LineInv
<1> QED
  BY <1>9, <1>10, <1>11, <1>12 DEF LineInv

\* A step that leaves the worker, the line and what an estimate is made of alone,
\* and that shows nothing new, keeps the requests.
LEMMA QuietRequests ==
  ASSUME LineInv, LiveTypeOK', \A c \in Chats : DraftStep(c),
         revs'.context = revs.context, snapshot' = snapshot,
         worker'.running = worker.running, worker'.pending \in {Nothing, worker.pending}
  PROVE  RequestsOK'
  BY RequestsKept DEF ContextStep

\* A worker whose last request was taken back (invalidate).
LEMMA InvalidatedIs ==
  ASSUME NEW w \in Workers
  PROVE  /\ Invalidated(w) \in Workers /\ Invalidated(w).running = w.running
         /\ Invalidated(w).task = w.task /\ Invalidated(w).pending = Nothing
  BY DEF Invalidated, Workers

\* select_chat and begin_navigation.
LEMMA SelectSafe ==
  ASSUME LineInv, NEW c \in Chats, Select(c)
  PROVE  LineInv'
<1>1. /\ Open /\ drafts' = Captured /\ target' = c /\ show' = TRUE
      /\ UNCHANGED <<active, shown, meta, snapshot, pane, paid, send, stuck>>
  BY DEF Select
<1>2. steps' \in 0..MaxSteps
  BY LiveAssumption DEF Select, Step, LiveTypeOK, LiveAssumption, LineInv
<1>3. /\ drafts' \in [Chats -> Drafts] /\ drafts'[shown.chat].text = pane.editor
  BY <1>1, CapturedIs DEF LineInv, Open
<1>4. revs \in Revs /\ worker \in Workers
  BY DEF LineInv, LiveTypeOK
<1>5. /\ revs' \in Revs /\ revs'.context = revs.context
      /\ worker' \in Workers /\ worker'.running = worker.running /\ worker'.task = worker.task
      /\ worker'.pending \in {Nothing, worker.pending}
  <2>1. CASE c = shown.chat
    BY <2>1, <1>4 DEF Select
  <2>2. CASE c # shown.chat
    <3>1. revs' = [revs EXCEPT !.workspace = @ + 1] /\ worker' = Invalidated(worker)
      BY <2>2 DEF Select
    <3> QED
      BY <3>1, <1>4, InvalidatedIs DEF Revs
  <2> QED
    BY <2>1, <2>2
<1>6. LiveTypeOK'
  BY <1>1, <1>2, <1>3, <1>5 DEF LineInv, LiveTypeOK
<1>7. Presented' /\ EditorOK' /\ LineOK'
  BY <1>1, <1>3 DEF LineInv, Presented, EditorOK, LineOK, Open
<1>8. RequestsOK'
  BY <1>1, <1>5, <1>6, DraftsCaptured, QuietRequests DEF LineInv
<1>9. AnswerOK'
  BY <1>1 DEF AnswerOK, Settled
<1> QED
  BY <1>6, <1>7, <1>8, <1>9 DEF LineInv

\* _show_workspace returns without a workspace.
LEMMA ShowFailsSafe ==
  ASSUME LineInv, ShowFails
  PROVE  LineInv'
<1>1. /\ show' = FALSE /\ stuck' = TRUE
      /\ UNCHANGED <<active, revs, shown, meta, snapshot, drafts, pane, worker, target, paid, send>>
  BY DEF ShowFails
<1>2. steps' \in 0..MaxSteps
  BY LiveAssumption DEF ShowFails, Step, LiveTypeOK, LiveAssumption, LineInv
<1>3. LiveTypeOK'
  BY <1>1, <1>2 DEF LineInv, LiveTypeOK
<1>4. Presented' /\ EditorOK' /\ LineOK'
  BY <1>1 DEF LineInv, Presented, EditorOK, LineOK
<1>5. RequestsOK'
  BY <1>1, <1>3, DraftsStay, QuietRequests
<1>6. AnswerOK'
  BY <1>1 DEF AnswerOK, Settled
<1> QED
  BY <1>3, <1>4, <1>5, <1>6 DEF LineInv

\* The operation of an open workspace.
LEMMA OperationIs ==
  ASSUME LiveTypeOK, Open, NEW r \in Revs
  PROVE  Operation(r) \in Operations /\ Operation(r) # Nothing /\ shown.chat \in Chats
  BY LiveAssumption DEF LiveTypeOK, Open, Operation, Operations, ShownStates, Revs, LiveAssumption

\* _save_paid_without_confirmation, up to its await.
LEMMA SavePaidSafe ==
  ASSUME LineInv, SavePaid
  PROVE  LineInv'
<1>1. /\ Open /\ drafts' = Captured
      /\ revs' = [revs EXCEPT !.workspace = @ + 1] /\ paid' = Operation(revs')
      /\ UNCHANGED <<active, shown, meta, snapshot, pane, worker, target, show, send, stuck>>
  BY DEF SavePaid
<1>2. steps' \in 0..MaxSteps
  BY LiveAssumption DEF SavePaid, Step, LiveTypeOK, LiveAssumption, LineInv
<1>3. /\ drafts' \in [Chats -> Drafts] /\ drafts'[shown.chat].text = pane.editor
  BY <1>1, CapturedIs DEF LineInv, Open
<1>4. revs' \in Revs /\ revs'.context = revs.context
  BY <1>1 DEF LineInv, LiveTypeOK, Revs
<1>5. paid' \in Operations /\ paid' # Nothing
  BY <1>1, <1>4, OperationIs DEF LineInv
<1>6. LiveTypeOK'
  BY <1>1, <1>2, <1>3, <1>4, <1>5 DEF LineInv, LiveTypeOK
<1>7. Presented' /\ EditorOK' /\ LineOK'
  BY <1>1, <1>3 DEF LineInv, Presented, EditorOK, LineOK, Open
<1>8. RequestsOK'
  BY <1>1, <1>4, <1>6, DraftsCaptured, QuietRequests DEF LineInv
<1>9. AnswerOK'
  <2>1. Matches(paid)'
    BY <1>1 DEF Matches, Operation, Open
  <2> QED
    BY <2>1, <1>5 DEF AnswerOK, Settled
<1> QED
  BY <1>6, <1>7, <1>8, <1>9 DEF LineInv

\* _save_paid_without_confirmation, saved or read again.
LEMMA PaidSavedSafe ==
  ASSUME LineInv, NEW version \in Versions, PaidSaved(version)
  PROVE  LineInv'
<1>1. /\ paid # Nothing /\ paid' = Nothing /\ UNCHANGED <<active, pane, target, send, steps>>
  BY DEF PaidSaved
<1>2. CASE Matches(paid)
  <2> DEFINE st == [shown EXCEPT !.version = version]
  <2>1. /\ Open /\ Refresh(st, meta, revs, drafts) /\ show' = TRUE /\ drafts' = Captured
    BY <1>2 DEF PaidSaved, Matches
  <2>2. st \in ShownStates /\ st.chat = shown.chat /\ shown \in ShownStates
    BY <2>1 DEF LineInv, LiveTypeOK, Open, ShownStates
  <2>3. revs \in Revs /\ meta \in Catalogs \union {Nothing}
    BY DEF LineInv, LiveTypeOK
  <2>4. drafts' \in [Chats -> Drafts] /\ drafts'[shown.chat].text = pane.editor
    BY <2>1, CapturedIs DEF LineInv, Open
  <2> HIDE DEF st
  <2> USE <1>1, <2>1, <2>2, <2>3, <2>4, RefreshIs DEF LineInv
  <2>5. LiveTypeOK'
    BY DEF LiveTypeOK
  <2>6. Presented' /\ EditorOK' /\ LineOK'
    BY DEF Presented, EditorOK, LineOK, Open
  <2>7. \A c \in Chats : DraftStep(c)
    BY DraftsCaptured
  <2>8. RequestsOK'
    BY <2>5, <2>7, RefreshRequests
  <2>9. AnswerOK'
    BY <2>1 DEF AnswerOK, Settled
  <2> QED
    BY <2>5, <2>6, <2>8, <2>9
<1>3. CASE ~Matches(paid)
  <2>1. UNCHANGED <<shown, meta, snapshot, revs, drafts, worker, show, stuck>>
    BY <1>3 DEF PaidSaved
  <2>2. LiveTypeOK' /\ Presented' /\ EditorOK' /\ LineOK'
    BY <1>1, <2>1 DEF LineInv, LiveTypeOK, Presented, EditorOK, LineOK
  <2>3. RequestsOK'
    BY <1>1, <2>1, <2>2, DraftsStay, QuietRequests
  <2>4. Settled' => Settled
    BY <1>1, <1>3, <2>1 DEF Settled, Open
  <2>5. AnswerOK'
    BY <1>1, <2>1, <2>4, AnswerKept DEF LineInv
  <2> QED
    BY <2>2, <2>3, <2>5 DEF LineInv
<1> QED
  BY <1>2, <1>3

\* _save_paid_without_confirmation returns with a message.
LEMMA PaidFailsSafe ==
  ASSUME LineInv, PaidFails
  PROVE  LineInv'
<1>1. /\ paid # Nothing /\ paid' = Nothing /\ stuck' = (stuck \/ Matches(paid))
      /\ UNCHANGED <<active, revs, shown, meta, snapshot, drafts, pane, worker, target, show, send>>
  BY DEF PaidFails
<1>2. steps' \in 0..MaxSteps
  BY LiveAssumption DEF PaidFails, Step, LiveTypeOK, LiveAssumption, LineInv
<1>3. Matches(paid) \in BOOLEAN
  BY DEF Matches, Open, LineInv, LiveTypeOK
<1>4. LiveTypeOK'
  BY <1>1, <1>2, <1>3 DEF LineInv, LiveTypeOK
<1>5. Presented' /\ EditorOK' /\ LineOK'
  BY <1>1 DEF LineInv, Presented, EditorOK, LineOK
<1>6. RequestsOK'
  BY <1>1, <1>4, DraftsStay, QuietRequests
<1>7. Settled' => Settled
  BY <1>1 DEF Settled, Open
<1>8. AnswerOK'
  BY <1>1, <1>7, AnswerKept DEF LineInv
<1> QED
  BY <1>4, <1>5, <1>6, <1>8 DEF LineInv

\* submit_message, up to the request.
LEMMA SubmitSafe ==
  ASSUME LineInv, Submit
  PROVE  LineInv'
<1>1. /\ Open /\ send = Nothing /\ pane.editor # Nothing /\ drafts' = Captured
      /\ send' = [op |-> Operation(revs), draft |-> drafts'[shown.chat], reserved |-> FALSE]
      /\ UNCHANGED <<active, revs, shown, meta, snapshot, pane, worker, target, show, paid, stuck>>
  BY DEF Submit
<1>2. steps' \in 0..MaxSteps
  BY LiveAssumption DEF Submit, Step, LiveTypeOK, LiveAssumption, LineInv
<1>3. drafts' \in [Chats -> Drafts] /\ drafts'[shown.chat].text = pane.editor
  BY <1>1, CapturedIs DEF LineInv, Open
<1>4. shown.chat \in Chats /\ Operation(revs) \in Operations
  BY <1>1, OperationIs DEF LineInv, LiveTypeOK
<1>5. send' \in Sends /\ send'.draft = drafts'[shown.chat]
  BY <1>1, <1>3, <1>4 DEF Sends
<1>6. drafts' = drafts
  <2>1. pane.editor = drafts[shown.chat].text
    BY <1>1 DEF LineInv, EditorOK, Open
  <2>2. Captured = Recorded(shown.chat, pane.editor) /\ pane.editor \in Texts
    BY <1>1 DEF Captured, LineInv, LiveTypeOK
  <2> QED
    BY <1>1, <1>4, <2>1, <2>2, RecordedIs DEF LineInv
<1>7. LiveTypeOK'
  BY <1>1, <1>2, <1>3, <1>5 DEF LineInv, LiveTypeOK
<1>8. Presented' /\ EditorOK' /\ LineOK'
  BY <1>1, <1>3, <1>5 DEF LineInv, Presented, EditorOK, LineOK
<1>9. RequestsOK'
  BY <1>1, <1>6, <1>7, DraftsStay, QuietRequests
<1>10. Settled' => Settled
  BY <1>1, <1>6 DEF Settled, Open, Matches
<1>11. AnswerOK'
  BY <1>1, <1>6, <1>10, AnswerKept DEF LineInv
<1> QED
  BY <1>7, <1>8, <1>9, <1>11 DEF LineInv

\* on_reserved takes the draft of the message.
LEMMA ReservedSafe ==
  ASSUME LineInv, Reserved
  PROVE  LineInv'
<1> DEFINE c == send.op.chat
           taken == drafts[c] = send.draft
           cleared == taken /\ pane.editor = send.draft.text
<1>1. /\ send # Nothing /\ ~send.reserved /\ send' = [send EXCEPT !.reserved = TRUE]
      /\ drafts' = IF taken THEN [drafts EXCEPT ![c].text = Nothing] ELSE drafts
      /\ UNCHANGED <<active, revs, shown, meta, snapshot, worker, target, paid, stuck, steps>>
  BY DEF Reserved
<1>2. /\ send \in Sends /\ c \in Chats /\ send.draft \in Drafts /\ send.draft.text # Nothing
      /\ drafts \in [Chats -> Drafts]
  BY <1>1 DEF LineInv, LiveTypeOK, EditorOK, Sends, Operations
<1>3. send' \in Sends /\ send'.reserved = TRUE /\ send'.draft = send.draft /\ send' # Nothing
  BY <1>1, <1>2, LiveAssumption DEF Sends, LiveAssumption
<1>4. /\ drafts' \in [Chats -> Drafts]
      /\ \A x \in Chats : x # c => drafts'[x] = drafts[x]
      /\ ~taken => drafts' = drafts
      /\ taken => drafts'[c].revision = drafts[c].revision /\ drafts'[c].text = Nothing
                  /\ drafts[c].text # Nothing
  BY <1>1, <1>2, LiveAssumption DEF Drafts, LiveAssumption
<1>5. pane.open => pane.editor = drafts[shown.chat].text
  BY <1>1 DEF LineInv, EditorOK
<1>6. /\ pane' \in [open : BOOLEAN, editor : Texts, line : Lines]
      /\ pane'.open = pane.open
      /\ \/ pane' = pane
         \/ cleared /\ Matches(send.op) /\ pane'.editor = Nothing /\ pane'.line = Blank
      /\ show' \in BOOLEAN /\ (show' => active)
      /\ Matches(send.op) => show' = TRUE
      /\ ~Matches(send.op) => show' = show /\ pane' = pane
  <2>1. pane \in [open : BOOLEAN, editor : Texts, line : Lines] /\ show \in BOOLEAN
    BY DEF LineInv, LiveTypeOK
  <2>2. CASE Matches(send.op)
    <3>1. pane' = IF cleared THEN [pane EXCEPT !.editor = Nothing, !.line = Blank] ELSE pane
      BY <2>2 DEF Reserved
    <3>2. show' = TRUE /\ active
      BY <2>2 DEF Reserved, Matches, Open
    <3>3. Nothing \in Texts /\ Blank \in Lines
      BY LiveAssumption DEF LiveAssumption, Lines
    <3> HIDE DEF cleared
    <3> QED
      BY <2>1, <2>2, <3>1, <3>2, <3>3
  <2>3. CASE ~Matches(send.op)
    <3>1. pane' = pane /\ show' = show
      BY <2>3 DEF Reserved
    <3> QED
      BY <2>1, <2>3, <3>1 DEF LineInv, Presented
  <2> QED
    BY <2>2, <2>3
<1>7. Matches(send.op) => shown.chat = c /\ pane.open /\ shown # Nothing
  BY DEF Matches, Open
<1> HIDE DEF c
<1>8. LiveTypeOK'
  BY <1>1, <1>3, <1>4, <1>6 DEF LineInv, LiveTypeOK
<1>9. Presented'
  BY <1>1, <1>6 DEF LineInv, Presented
<1>10. EditorOK'
  <2>1. ASSUME pane'.open, pane'.editor # drafts'[shown'.chat].text
        PROVE  drafts'[shown'.chat].text = Nothing
    <3>1. shown.chat \in Chats /\ shown' = shown
      BY <2>1, <1>1, <1>6 DEF LineInv, LiveTypeOK, Presented, ShownStates
    <3> QED
      BY <2>1, <3>1, <1>4, <1>5, <1>6, <1>7
  <2> QED
    BY <2>1, <1>2, <1>3 DEF EditorOK
<1>11. LineOK'
  BY <1>1, <1>6 DEF LineInv, LineOK, Blank
<1>12. RequestsOK'
  <2>1. ASSUME NEW x \in Chats
        PROVE  DraftStep(x)
    <3>1. CASE x = c /\ taken
      BY <3>1, <1>1, <1>4, <1>5, <1>6 DEF DraftStep
    <3>2. CASE x # c \/ ~taken
      BY <3>2, <1>1, <1>4, <1>6 DEF DraftStep
    <3> QED
      BY <3>1, <3>2
  <2> QED
    BY <2>1, <1>1, <1>8, QuietRequests
<1>13. AnswerOK'
  <2>1. CASE Matches(send.op)
    BY <2>1, <1>6 DEF AnswerOK, Settled
  <2>2. CASE ~Matches(send.op)
    <3> SUFFICES ASSUME Settled'
                 PROVE  AnswerOK'
      BY DEF AnswerOK
    <3>1. pane' = pane /\ show' = show /\ pane.open /\ shown # Nothing
      BY <2>2, <1>1, <1>6 DEF Settled, Open
    <3>2. shown.chat \in Chats /\ pane.editor = drafts'[shown.chat].text
      BY <3>1, <1>1 DEF Settled, LineInv, LiveTypeOK, ShownStates
    <3>3. drafts'[shown.chat] = drafts[shown.chat]
      BY <3>1, <3>2, <1>4, <1>5
    <3>4. Settled
      BY <3>1, <3>3, <1>1 DEF Settled, Open, Matches
    <3> QED
      BY <3>1, <3>3, <3>4, <1>1, AnswerKept DEF LineInv
  <2> QED
    BY <2>1, <2>2
<1> QED
  BY <1>8, <1>9, <1>10, <1>11, <1>12, <1>13 DEF LineInv

\* _finish_send.
LEMMA FinishedSafe ==
  ASSUME LineInv, NEW version \in Versions, Finished(version)
  PROVE  LineInv'
<1>1. /\ send' = Nothing /\ show' = (show \/ pane.open) /\ drafts' = Captured
      /\ UNCHANGED <<active, pane, target, paid, steps>>
  BY DEF Finished
<1>2. drafts' \in [Chats -> Drafts] /\ (pane.open => drafts'[shown.chat].text = pane.editor)
  BY <1>1, CapturedIs DEF LineInv
<1>3. show' \in BOOLEAN /\ (show' => active)
  BY <1>1 DEF LineInv, LiveTypeOK, Presented
<1>4. AnswerOK'
  BY <1>1 DEF AnswerOK, Settled, Open
<1>5. CASE Matches(send.op)
  <2> DEFINE st == [shown EXCEPT !.version = version]
  <2>1. Open /\ Refresh(st, meta, revs, drafts)
    BY <1>5 DEF Finished, Matches
  <2>2. st \in ShownStates /\ st.chat = shown.chat /\ shown \in ShownStates
    BY <2>1 DEF LineInv, LiveTypeOK, Open, ShownStates
  <2>3. revs \in Revs /\ meta \in Catalogs \union {Nothing}
    BY DEF LineInv, LiveTypeOK
  <2> HIDE DEF st
  <2> USE <1>1, <1>2, <1>3, <2>1, <2>2, <2>3, RefreshIs DEF LineInv
  <2>4. LiveTypeOK'
    BY DEF LiveTypeOK
  <2>5. Presented' /\ EditorOK' /\ LineOK'
    BY DEF Presented, EditorOK, LineOK, Open
  <2>6. \A c \in Chats : DraftStep(c)
    BY DraftsCaptured
  <2>7. RequestsOK'
    BY <2>4, <2>6, RefreshRequests
  <2> QED
    BY <1>4, <2>4, <2>5, <2>7
<1>6. CASE ~Matches(send.op)
  <2>1. UNCHANGED <<shown, meta, snapshot, revs, worker, stuck>>
    BY <1>6 DEF Finished
  <2>2. LiveTypeOK'
    BY <1>1, <1>2, <1>3, <2>1 DEF LineInv, LiveTypeOK
  <2>3. Presented' /\ EditorOK' /\ LineOK'
    BY <1>1, <1>2, <1>3, <2>1 DEF LineInv, Presented, EditorOK, LineOK
  <2>4. RequestsOK'
    BY <1>1, <2>1, <2>2, DraftsCaptured, QuietRequests DEF LineInv
  <2> QED
    BY <1>4, <2>2, <2>3, <2>4 DEF LineInv
<1> QED
  BY <1>5, <1>6

\* A workspace that is not open owes nothing; its worker has no request that
\* waits, and the context is another (_clear_estimate_context).
LEMMA ClearedSafe ==
  ASSUME LineInv, NEW r \in Revs, r.context = revs.context, ClearContext(r),
         ~pane'.open, pane' \in [open : BOOLEAN, editor : Texts, line : Lines],
         drafts' \in {drafts, Captured},
         active' \in BOOLEAN, show' \in BOOLEAN, show' => active',
         shown' \in ShownStates \union {Nothing}, target' \in Chats, steps' \in 0..MaxSteps,
         paid' \in {paid, Nothing}, send' \in {send, Nothing}
  PROVE  LineInv'
<1>1. /\ revs' = [r EXCEPT !.context = @ + 1] /\ worker' = Invalidated(worker)
      /\ snapshot' = Nothing /\ meta' = Nothing /\ stuck' = FALSE
  BY DEF ClearContext
<1>2. worker \in Workers /\ (worker.task = "computing") = (worker.running # Nothing)
  BY DEF LineInv, LiveTypeOK
<1>3. revs' \in Revs /\ revs'.context = revs.context + 1
  BY <1>1 DEF Revs
<1>4. drafts' \in [Chats -> Drafts]
  BY CapturedIs DEF LineInv, LiveTypeOK
<1>5. LiveTypeOK'
  BY <1>1, <1>2, <1>3, <1>4, InvalidatedIs DEF LineInv, LiveTypeOK
<1>6. Presented' /\ LineOK' /\ AnswerOK'
  BY DEF Presented, LineOK, AnswerOK, Settled, Open
<1>7. EditorOK'
  BY DEF LineInv, EditorOK
<1>8. RequestsOK'
  <2>1. ASSUME NEW c \in Chats
        PROVE  DraftStep(c)
    <3>1. drafts'[c] = drafts[c] \/ drafts'[c].revision = drafts[c].revision + 1
      BY CapturedIs DEF LineInv
    <3>2. drafts[c].revision \in Nat
      BY DEF LineInv, LiveTypeOK, Drafts
    <3> QED
      BY <3>1, <3>2 DEF DraftStep
  <2>2. ContextStep
    BY <1>3 DEF ContextStep
  <2> QED
    BY <2>1, <2>2, <1>1, <1>2, <1>5, InvalidatedIs, RequestsKept
<1> QED
  BY <1>5, <1>6, <1>7, <1>8 DEF LineInv

\* The pane without a view.
LEMMA ClosedIs == Closed \in [open : BOOLEAN, editor : Texts, line : Lines] /\ ~Closed.open
<1>1. Nothing \in Texts /\ Blank \in Lines
  BY LiveAssumption DEF LiveAssumption, Lines
<1> QED
  BY <1>1 DEF Closed

\* Another screen takes the place of the workspace.
LEMMA LeaveSafe ==
  ASSUME LineInv, Leave
  PROVE  LineInv'
<1>1. /\ drafts' = Captured /\ pane' = Closed /\ ClearContext(revs)
      /\ UNCHANGED <<active, shown, target, show, paid, send>>
  BY DEF Leave
<1>2. steps' \in 0..MaxSteps
  BY LiveAssumption DEF Leave, Step, LiveTypeOK, LiveAssumption, LineInv
<1>3. /\ revs \in Revs /\ active \in BOOLEAN /\ show \in BOOLEAN /\ target \in Chats
      /\ shown \in ShownStates \union {Nothing} /\ (show => active)
  BY DEF LineInv, LiveTypeOK, Presented
<1> QED
  BY <1>1, <1>2, <1>3, ClosedIs, ClearedSafe

\* The user comes back to the chats.
LEMMA ReturnSafe ==
  ASSUME LineInv, Return
  PROVE  LineInv'
<1>1. /\ active /\ ~pane.open /\ show' = TRUE
      /\ UNCHANGED <<active, revs, shown, meta, snapshot, drafts, pane, worker, target, paid, send,
                     stuck, steps>>
  BY DEF Return
<1>2. LiveTypeOK' /\ Presented' /\ EditorOK' /\ LineOK'
  BY <1>1 DEF LineInv, LiveTypeOK, Presented, EditorOK, LineOK
<1>3. RequestsOK'
  BY <1>1, <1>2, DraftsStay, QuietRequests
<1>4. AnswerOK'
  BY <1>1 DEF AnswerOK, Settled
<1> QED
  BY <1>2, <1>3, <1>4 DEF LineInv

\* A new session and a new workspace.
LEMMA SessionIs ==
  ASSUME LiveTypeOK
  PROVE  /\ [revs EXCEPT !.session = @ + 1, !.workspace = @ + 1] \in Revs
         /\ [revs EXCEPT !.session = @ + 1, !.workspace = @ + 1].context = revs.context
<1> DEFINE session == revs.session + 1
           workspace == revs.workspace + 1
<1>1. revs \in Revs /\ session \in Nat /\ workspace \in Nat
  BY DEF LiveTypeOK, Revs
<1> HIDE DEF session, workspace
<1>2. /\ [revs EXCEPT !.session = session, !.workspace = workspace] \in Revs
      /\ [revs EXCEPT !.session = session, !.workspace = workspace].context = revs.context
  BY <1>1 DEF Revs
<1> QED
  BY <1>2 DEF session, workspace

\* begin_lock and deactivate.
LEMMA LockSafe ==
  ASSUME LineInv, Lock
  PROVE  LineInv'
<1>1. /\ active' = FALSE /\ shown' = Nothing /\ show' = FALSE
      /\ drafts' = Captured /\ pane' = Closed
      /\ ClearContext([revs EXCEPT !.session = @ + 1, !.workspace = @ + 1])
      /\ paid' = Nothing /\ send' = Nothing /\ UNCHANGED target
  BY DEF Lock
<1>2. steps' \in 0..MaxSteps /\ target \in Chats
  BY LiveAssumption DEF Lock, Step, LiveTypeOK, LiveAssumption, LineInv
<1> QED
  BY <1>1, <1>2, SessionIs, ClosedIs, ClearedSafe DEF LineInv

\* activate and present_workspace.
LEMMA UnlockSafe ==
  ASSUME LineInv, Unlock
  PROVE  LineInv'
<1>1. /\ ~active /\ active' = TRUE /\ shown' = Nothing /\ show' = TRUE
      /\ ClearContext([revs EXCEPT !.session = @ + 1, !.workspace = @ + 1])
      /\ UNCHANGED <<drafts, pane, target, paid, send, steps>>
  BY DEF Unlock
<1>2. /\ ~pane.open /\ pane \in [open : BOOLEAN, editor : Texts, line : Lines]
      /\ target \in Chats /\ steps \in 0..MaxSteps
  BY <1>1 DEF LineInv, LiveTypeOK, Presented
<1> QED
  BY <1>1, <1>2, SessionIs, ClearedSafe DEF LineInv

-----------------------------------------------------------------------------
(* The theorems.                                                           *)

\* Every step keeps the invariant.
LEMMA StepSafe ==
  ASSUME LineInv, [Next]_vars
  PROVE  LineInv'
<1>1. CASE Take
  BY <1>1, TakeSafe
<1>2. CASE Computed
  BY <1>2, ComputedSafe
<1>3. CASE \E t \in Texts : Type(t)
  BY <1>3, TypeSafe
<1>4. CASE \E c \in Chats : Select(c)
  BY <1>4, SelectSafe
<1>5. CASE \E v \in Versions, m \in Catalogs \union {Nothing} : Bind(v, m)
  BY <1>5, BindSafe
<1>6. CASE ShowFails
  BY <1>6, ShowFailsSafe
<1>7. CASE \E v \in Versions : StateArrives(v)
  BY <1>7, StateArrivesSafe
<1>8. CASE \E m \in Catalogs \union {Nothing} : Metadata(m)
  BY <1>8, MetadataSafe
<1>9. CASE SavePaid
  BY <1>9, SavePaidSafe
<1>10. CASE \E v \in Versions : PaidSaved(v)
  BY <1>10, PaidSavedSafe
<1>11. CASE PaidFails
  BY <1>11, PaidFailsSafe
<1>12. CASE Submit
  BY <1>12, SubmitSafe
<1>13. CASE Reserved
  BY <1>13, ReservedSafe
<1>14. CASE \E v \in Versions : Finished(v)
  BY <1>14, FinishedSafe
<1>15. CASE Leave
  BY <1>15, LeaveSafe
<1>16. CASE Return
  BY <1>16, ReturnSafe
<1>17. CASE Lock
  BY <1>17, LockSafe
<1>18. CASE Unlock
  BY <1>18, UnlockSafe
<1>19. CASE UNCHANGED vars
  BY <1>19, StutterSafe
<1> QED
  BY <1>1, <1>2, <1>3, <1>4, <1>5, <1>6, <1>7, <1>8, <1>9, <1>10, <1>11, <1>12, <1>13, <1>14,
     <1>15, <1>16, <1>17, <1>18, <1>19 DEF Next

\* The inductive invariant of the line under the editor: what the revision of
\* each request vouches for, and that the last request is about what is on the
\* screen once nothing is suspended, after any number of steps.
THEOREM LineInvariant == Spec => []LineInv
<1>1. LineInv /\ [Next]_vars => LineInv'
  BY StepSafe
<1> QED
  BY <1>1, InitSafe, PTL DEF Spec

\* The line under the editor is about the chat on the screen and the text in the
\* editor, and it is the estimate of what is known now or the worker holds the
\* request for it (LiveEstimateWorker, _request_estimate).
LEMMA LineAlwaysTells == Spec => []LineTells
<1>1. LineInv => LineTells
  <2> SUFFICES ASSUME LineInv
               PROVE  LineTells
    OBVIOUS
  <2>1. (Open /\ pane.line.kind = "estimate") =>
          pane.line.of.chat = shown.chat /\ pane.editor \in {pane.line.text, Nothing}
    BY DEF LineInv, LineOK, Open
  <2>2. Settled => /\ snapshot = SnapshotOf(shown, meta)
                   /\ pane.line = Estimate(snapshot, pane.editor) \/ Coming
    BY DEF LineInv, Presented, AnswerOK, Settled, Open
  <2> QED
    BY <2>1, <2>2 DEF LineInv, LineTells
<1> QED
  BY <1>1, LineInvariant, PTL

\* No estimate of an older context is ever published (_deliver,
\* _estimate_is_current).
LEMMA PublishedAlwaysCurrent == Spec => PublishedIsCurrent
<1>1. LineInv /\ Computed =>
        (pane' # pane => (pane'.line = Blank \/ pane'.line.of = snapshot))
  <2> SUFFICES ASSUME LineInv, Computed, pane' # pane
               PROVE  pane'.line = Blank \/ pane'.line.of = snapshot
    OBVIOUS
  <2> DEFINE rq == worker.running
  <2>1. /\ Current(rq.revision)
        /\ pane' = [pane EXCEPT !.line = Estimate(rq.snapshot, rq.text)]
    BY DEF Computed, Deliver
  <2>2. rq # Nothing /\ RequestOK(rq) /\ pane \in [open : BOOLEAN, editor : Texts, line : Lines]
    BY DEF LineInv, RequestsOK, LiveTypeOK, Computed
  <2>3. rq.snapshot = snapshot
    <3>1. revs.context \in Nat /\ rq.revision.at = revs
      BY <2>1 DEF LineInv, LiveTypeOK, Revs, Current
    <3> QED
      BY <2>2, <3>1 DEF RequestOK
  <2>4. pane'.line = Estimate(rq.snapshot, rq.text)
    BY <2>1, <2>2
  <2> QED
    BY <2>3, <2>4 DEF Estimate
<1>2. LineInv /\ [Next]_vars =>
        [(Computed /\ pane' # pane) => (pane'.line = Blank \/ pane'.line.of = snapshot)]_vars
  BY <1>1
<1> QED
  BY <1>2, LineInvariant, PTL DEF Spec, PublishedIsCurrent

\* The estimate line is sound: both hold of every behaviour of the workspace.
THEOREM LineAlwaysSound == Spec => LineSound
  BY LineAlwaysTells, PublishedAlwaysCurrent, PTL DEF LineSound
==============================================================================
