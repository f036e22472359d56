------------------------------ MODULE LiveEstimate ------------------------------
(***************************************************************************)
(* The line under the editor: one worker that estimates the draft of the    *)
(* open chat (src/chat/live_estimate.py), the workspace that hands it every *)
(* edit and every change of what an estimate is made of                     *)
(* (src/chat_workspace_controller.py, src/chat_controller.py) and the        *)
(* editor that shows the result (src/ui/message_composer.py).               *)
(*                                                                         *)
(* A calculation runs in a thread and comes back to an event loop that has   *)
(* gone on.  It is published only if the revision it was asked for is still  *)
(* the latest and still current: of the session, the workspace, the view,    *)
(* the context and the draft.                                               *)
(*                                                                         *)
(* One step is what runs between two awaits.  Where a step refreshes twice   *)
(* in a row (bind, then the metadata), the model refreshes once: the worker   *)
(* keeps only the last request.  What is calculated is module RequestPlan;    *)
(* here an estimate is what it was made of.                                  *)
(***************************************************************************)
EXTENDS Integers, FiniteSets

CONSTANTS
    Chats,
    Texts,         \* of drafts
    Versions,      \* of what is stored of a chat: its settings, budget and messages
    Catalogs,      \* metadata an estimate may use
    Nothing,       \* None; also the empty text
    MaxSteps       \* bound: steps of the user and the network

Drafts == [revision : Nat, text : Texts]
Revs == [session : Nat, workspace : Nat, view : Nat, context : Nat]
Revisions == [at : Revs, chat : Chats, draft : Nat]
ShownStates == [chat : Chats, version : Versions]
Snaps == [chat : Chats, version : Versions, meta : Catalogs \union {Nothing}]
Requests == [revision : Revisions, snapshot : Snaps, text : Texts]
Workers == [latest : Revisions \union {Nothing}, pending : Requests \union {Nothing},
            task : {"none", "ready", "computing"}, running : Requests \union {Nothing}]
Operations == [session : Nat, workspace : Nat, chat : Chats]
Sends == [op : Operations, draft : Drafts, reserved : BOOLEAN]

ASSUME LiveAssumption ==
    /\ Nothing \notin ShownStates /\ Nothing \notin Snaps /\ Nothing \notin Revisions
    /\ Nothing \notin Requests /\ Nothing \notin Operations /\ Nothing \notin Sends
    /\ Nothing \in Texts /\ MaxSteps \in Nat

VARIABLES
    active,     \* _active
    revs,       \* the revisions: [session, workspace, view, context]
    shown,      \* _state: [chat, version] or Nothing
    meta,       \* _estimate_model, _estimate_key_limit
    snapshot,   \* _estimate_snapshot
    drafts,     \* the cache of ChatDraftService: [revision, text] of each chat
    pane,       \* the view: [open, editor, line]
    worker,     \* [latest, pending, task, running]
    target,     \* _selected_chat_id
    show,       \* a _show_workspace is suspended; the latest wins
    paid,       \* a suspended save of the paid setting: its operation
    send,       \* a suspended send: its operation and draft
    stuck,      \* a failure left the line as it was
    steps

vars == <<active, revs, shown, meta, snapshot, drafts, pane, worker, target, show, paid,
          send, stuck, steps>>

Calculating == [kind |-> "calculating"]
Blank == [kind |-> "empty"]
Estimate(s, text) ==
    IF text = Nothing THEN Blank ELSE [kind |-> "estimate", of |-> s, text |-> text]
Lines == {Calculating, Blank} \union [kind : {"estimate"}, of : Snaps, text : Texts]

-----------------------------------------------------------------------------
(* The worker.                                                             *)

NewWorker == [latest |-> Nothing, pending |-> Nothing, task |-> "none", running |-> Nothing]

(* Mutant: a busy worker is given no new request. *)
SubmittedMutant(w, rq) ==
    IF w.task = "none" THEN [w EXCEPT !.latest = rq.revision, !.pending = rq, !.task = "ready"]
    ELSE [w EXCEPT !.latest = rq.revision]
Submitted(w, rq) ==
    [w EXCEPT !.latest = rq.revision, !.pending = rq,
              !.task = IF @ = "none" THEN "ready" ELSE @]

Invalidated(w) == [w EXCEPT !.latest = Nothing, !.pending = Nothing]

\* The loop of _run, at its head: the next request, or the end of the task.
Iterate(w) ==
    IF w.pending = Nothing THEN [w EXCEPT !.task = "none", !.running = Nothing]
    ELSE [w EXCEPT !.task = "computing", !.running = w.pending, !.pending = Nothing]

-----------------------------------------------------------------------------
(* The workspace.                                                          *)

Open == active /\ pane.open /\ shown # Nothing

Revision(r, chat, d) == [at |-> r, chat |-> chat, draft |-> d[chat].revision]

\* _estimate_is_current
Current(rev) ==
    /\ Open
    /\ rev.at = revs /\ rev.chat = shown.chat
    /\ rev.draft = drafts[rev.chat].revision

\* _request_estimate, with revisions r and drafts d
Request(w, r, s, chat, d) ==
    IF s = Nothing THEN w
    ELSE Submitted(w, [revision |-> Revision(r, chat, d), snapshot |-> s, text |-> d[chat].text])

SnapshotOf(st, m) == [chat |-> st.chat, version |-> st.version, meta |-> m]

(* Mutant: a refresh keeps the revision of the context. *)
RefreshMutant(st, m, r, d) ==
    /\ shown' = st /\ meta' = m /\ revs' = r
    /\ snapshot' = SnapshotOf(st, m)
    /\ worker' = Request(worker, r, SnapshotOf(st, m), st.chat, d)
    /\ stuck' = FALSE
\* _refresh_local_estimate, of an open workspace; d, the drafts as they are then
Refresh(st, m, r, d) ==
    LET next == [r EXCEPT !.context = @ + 1]
    IN  /\ shown' = st /\ meta' = m /\ revs' = next
        /\ snapshot' = SnapshotOf(st, m)
        /\ worker' = Request(worker, next, SnapshotOf(st, m), st.chat, d)
        /\ stuck' = FALSE

\* _clear_estimate_context
ClearContext(r) ==
    /\ revs' = [r EXCEPT !.context = @ + 1]
    /\ worker' = Invalidated(worker)
    /\ snapshot' = Nothing /\ meta' = Nothing /\ stuck' = FALSE

\* record_edit: the same text keeps its revision.
Recorded(chat, text) ==
    IF drafts[chat].text = text THEN drafts
    ELSE [drafts EXCEPT ![chat] = [revision |-> @.revision + 1, text |-> text]]
Captured == IF Open THEN Recorded(shown.chat, pane.editor) ELSE drafts

Operation(r) == [session |-> r.session, workspace |-> r.workspace, chat |-> shown.chat]
Matches(op) ==
    /\ Open /\ op.session = revs.session /\ op.workspace = revs.workspace
    /\ op.chat = shown.chat

LiveTypeOK ==
    /\ active \in BOOLEAN /\ show \in BOOLEAN /\ stuck \in BOOLEAN
    /\ revs \in Revs /\ target \in Chats /\ steps \in 0..MaxSteps
    /\ shown \in ShownStates \union {Nothing} /\ snapshot \in Snaps \union {Nothing}
    /\ meta \in Catalogs \union {Nothing}
    /\ drafts \in [Chats -> Drafts]
    /\ pane \in [open : BOOLEAN, editor : Texts, line : Lines]
    /\ worker \in Workers /\ (worker.task = "computing") = (worker.running # Nothing)
    /\ paid \in Operations \union {Nothing} /\ send \in Sends \union {Nothing}

Init ==
    /\ active = FALSE /\ show = FALSE /\ stuck = FALSE /\ steps = 0
    /\ revs = [session |-> 0, workspace |-> 0, view |-> 0, context |-> 0]
    /\ shown = Nothing /\ meta = Nothing /\ snapshot = Nothing
    /\ drafts = [c \in Chats |-> [revision |-> 0, text |-> Nothing]]
    /\ pane = [open |-> FALSE, editor |-> Nothing, line |-> Blank]
    /\ worker = NewWorker
    /\ target \in Chats
    /\ paid = Nothing /\ send = Nothing

Step == steps < MaxSteps /\ steps' = steps + 1

-----------------------------------------------------------------------------
(* The worker's task.                                                      *)

Take ==
    /\ worker.task = "ready"
    /\ worker' = Iterate(worker)
    /\ UNCHANGED <<active, revs, shown, meta, snapshot, drafts, pane, target, show, paid, send,
                   stuck, steps>>

(* Mutant: the result is shown whatever has become of its revision. *)
DeliverMutant(rq) == pane' = [pane EXCEPT !.line = Estimate(rq.snapshot, rq.text)]
\* _deliver and _publish_estimate
Deliver(rq) ==
    pane' = IF rq.revision = worker.latest /\ Current(rq.revision)
            THEN [pane EXCEPT !.line = Estimate(rq.snapshot, rq.text)] ELSE pane

Computed ==
    /\ worker.task = "computing"
    /\ Deliver(worker.running)
    /\ worker' = Iterate(worker)
    /\ UNCHANGED <<active, revs, shown, meta, snapshot, drafts, target, show, paid, send, stuck,
                   steps>>

-----------------------------------------------------------------------------
(* The editor and the workspace.                                           *)

\* _handle_change and update_draft, up to the write of the draft
Type(text) ==
    /\ Open /\ Step
    /\ drafts' = Recorded(shown.chat, text)
    /\ pane' = [pane EXCEPT !.editor = text,
                            !.line = IF text = Nothing THEN Blank ELSE Calculating]
    /\ worker' = Request(worker, revs, snapshot, shown.chat, drafts')
    /\ stuck' = FALSE
    /\ UNCHANGED <<active, revs, shown, meta, snapshot, target, show, paid, send>>

\* select_chat after its draft was written; begin_navigation
Select(c) ==
    /\ Open /\ Step
    /\ drafts' = Captured
    /\ IF c = shown.chat THEN UNCHANGED <<revs, worker>>
       ELSE /\ revs' = [revs EXCEPT !.workspace = @ + 1]
            /\ worker' = Invalidated(worker)
    /\ target' = c /\ show' = TRUE
    /\ UNCHANGED <<active, shown, meta, snapshot, pane, paid, send, stuck>>

(* Mutant: the editor of the chat that was left stays. *)
RestoredMutant(st, d) ==
    [pane EXCEPT !.open = TRUE, !.editor = d[st.chat].text]
\* restore_editor, of a new composer where the view or the chat is another
Restored(st, d) ==
    LET text == d[st.chat].text
        same == pane.open /\ shown # Nothing /\ shown.chat = st.chat
        before == IF same THEN pane ELSE [open |-> TRUE, editor |-> Nothing, line |-> Blank]
    IN  [before EXCEPT !.editor = text,
                       !.line = IF text = before.editor THEN @
                                ELSE IF text = Nothing THEN Blank ELSE Calculating]

\* The end of _show_workspace: update_workspace, bind and the metadata.
Bind(version, m) ==
    LET st == [chat |-> target, version |-> version]
        other == shown = Nothing \/ shown.chat # target
        r == [revs EXCEPT !.workspace = IF other THEN @ + 1 ELSE @,
                          !.view = IF pane.open THEN @ ELSE @ + 1]
    IN  /\ show /\ show' = FALSE
        /\ pane' = Restored(st, drafts)
        /\ Refresh(st, m, r, drafts)
        /\ UNCHANGED <<active, drafts, target, paid, send, steps>>

\* A draft cannot be written or read: _show_workspace returns.
ShowFails ==
    /\ show /\ Step
    /\ show' = FALSE /\ stuck' = TRUE
    /\ UNCHANGED <<active, revs, shown, meta, snapshot, drafts, pane, worker, target, paid, send>>

\* _set_state by an operation that still matches: limits, a released turn.
StateArrives(version) ==
    /\ Open /\ Step
    /\ Refresh([shown EXCEPT !.version = version], meta, revs, drafts)
    /\ UNCHANGED <<active, drafts, pane, target, show, paid, send>>

\* set_estimate_metadata: a catalog, an expiry, a checked key
Metadata(m) ==
    /\ Open /\ Step
    /\ Refresh(shown, m, revs, drafts)
    /\ UNCHANGED <<active, drafts, pane, target, show, paid, send>>

\* _save_paid_without_confirmation up to its await, one at a time
SavePaid ==
    /\ Open /\ Step
    /\ paid = Nothing /\ send = Nothing
    /\ drafts' = Captured
    /\ revs' = [revs EXCEPT !.workspace = @ + 1]
    /\ paid' = Operation(revs')
    /\ UNCHANGED <<active, shown, meta, snapshot, pane, worker, target, show, send, stuck>>

\* saved, or failed and read again
PaidSaved(version) ==
    /\ paid # Nothing /\ paid' = Nothing
    /\ IF Matches(paid)
       THEN /\ Refresh([shown EXCEPT !.version = version], meta, revs, drafts)
            /\ show' = TRUE /\ drafts' = Captured
       ELSE UNCHANGED <<shown, meta, snapshot, revs, drafts, worker, show, stuck>>
    /\ UNCHANGED <<active, pane, target, send, steps>>

\* neither: _save_paid_without_confirmation returns with a message
PaidFails ==
    /\ paid # Nothing /\ paid' = Nothing /\ Step
    /\ stuck' = (stuck \/ Matches(paid))
    /\ UNCHANGED <<active, revs, shown, meta, snapshot, drafts, pane, worker, target, show, send>>

\* submit_message up to the request
Submit ==
    /\ Open /\ Step
    /\ send = Nothing /\ pane.editor # Nothing
    /\ paid # Nothing => paid.chat # shown.chat
    /\ drafts' = Captured
    /\ send' = [op |-> Operation(revs), draft |-> drafts'[shown.chat], reserved |-> FALSE]
    /\ UNCHANGED <<active, revs, shown, meta, snapshot, pane, worker, target, show, paid, stuck>>

\* on_reserved: the draft of the message is gone, at its revision.
Reserved ==
    LET c == send.op.chat
        taken == drafts[c] = send.draft
    IN  /\ send # Nothing /\ ~send.reserved
        /\ send' = [send EXCEPT !.reserved = TRUE]
        /\ drafts' = IF taken THEN [drafts EXCEPT ![c].text = Nothing] ELSE drafts
        /\ IF Matches(send.op)
           THEN /\ pane' = IF taken /\ pane.editor = send.draft.text
                           THEN [pane EXCEPT !.editor = Nothing, !.line = Blank] ELSE pane
                /\ show' = TRUE
           ELSE UNCHANGED <<pane, show>>
        /\ UNCHANGED <<active, revs, shown, meta, snapshot, worker, target, paid, stuck, steps>>

\* _finish_send, of a turn that ended or was never reserved
Finished(version) ==
    /\ send # Nothing /\ send' = Nothing
    /\ show' = (show \/ pane.open)
    /\ drafts' = Captured
    /\ IF Matches(send.op)
       THEN Refresh([shown EXCEPT !.version = version], meta, revs, drafts)
       ELSE UNCHANGED <<shown, meta, snapshot, revs, worker, stuck>>
    /\ UNCHANGED <<active, pane, target, paid, steps>>

-----------------------------------------------------------------------------
(* Other screens and the lock.                                             *)

Closed == [open |-> FALSE, editor |-> Nothing, line |-> Blank]

\* Another screen of the session takes the place of the workspace: _clear_workspace.
Leave ==
    /\ Open /\ Step
    /\ send = Nothing /\ paid = Nothing
    /\ drafts' = Captured
    /\ pane' = Closed /\ ClearContext(revs)
    /\ UNCHANGED <<active, shown, target, show, paid, send>>

Return ==
    /\ active /\ ~pane.open
    /\ show' = TRUE
    /\ UNCHANGED <<active, revs, shown, meta, snapshot, drafts, pane, worker, target, paid, send,
                   stuck, steps>>

\* begin_lock and deactivate; what is suspended finds its session gone.
Lock ==
    /\ active /\ Step
    /\ active' = FALSE /\ shown' = Nothing /\ show' = FALSE
    /\ drafts' = Captured
    /\ pane' = Closed
    /\ ClearContext([revs EXCEPT !.session = @ + 1, !.workspace = @ + 1])
    /\ paid' = Nothing /\ send' = Nothing
    /\ UNCHANGED target

\* activate and present_workspace
Unlock ==
    /\ ~active
    /\ active' = TRUE /\ shown' = Nothing /\ show' = TRUE
    /\ ClearContext([revs EXCEPT !.session = @ + 1, !.workspace = @ + 1])
    /\ UNCHANGED <<drafts, pane, target, paid, send, steps>>

-----------------------------------------------------------------------------
Next ==
    \/ Take \/ Computed
    \/ \E t \in Texts : Type(t)
    \/ \E c \in Chats : Select(c)
    \/ \E v \in Versions, m \in Catalogs \union {Nothing} : Bind(v, m)
    \/ ShowFails
    \/ \E v \in Versions : StateArrives(v)
    \/ \E m \in Catalogs \union {Nothing} : Metadata(m)
    \/ SavePaid \/ (\E v \in Versions : PaidSaved(v)) \/ PaidFails
    \/ Submit \/ Reserved \/ (\E v \in Versions : Finished(v))
    \/ Leave \/ Return \/ Lock \/ Unlock

\* The event loop runs what is ready, threads end, storage and network answer.
Fairness ==
    /\ WF_vars(Take) /\ WF_vars(Computed)
    /\ WF_vars(\E v \in Versions, m \in Catalogs \union {Nothing} : Bind(v, m))
    /\ WF_vars(\E v \in Versions : PaidSaved(v))
    /\ WF_vars(\E v \in Versions : Finished(v))

Spec == Init /\ [][Next]_vars /\ Fairness

-----------------------------------------------------------------------------
(* Properties.                                                             *)

\* Nothing that ends in a refresh is suspended, and no failure left the line as it was.
Settled ==
    /\ Open /\ ~show /\ ~stuck
    /\ paid # Nothing => ~Matches(paid)
    /\ pane.editor = drafts[shown.chat].text

Live(rq) ==
    /\ rq # Nothing /\ rq.revision = worker.latest /\ Current(rq.revision)
    /\ rq.snapshot = snapshot /\ rq.text = pane.editor
Coming == Live(worker.pending) \/ (worker.task = "computing" /\ Live(worker.running))

\* An estimate on the line is about the chat on the screen and the text in the editor, or the
\* editor was emptied under it; and the line is the estimate of what is known now, or the worker
\* holds the request whose answer will be shown (LiveEstimateWorker.submit and _deliver,
\* _request_estimate, _refresh_local_estimate).
LineTells ==
    /\ LiveTypeOK
    /\ (Open /\ pane.line.kind = "estimate") =>
          pane.line.of.chat = shown.chat /\ pane.editor \in {pane.line.text, Nothing}
    /\ Settled =>
          /\ snapshot = SnapshotOf(shown, meta)
          /\ pane.line = Estimate(snapshot, pane.editor) \/ Coming

\* No estimate of an older context is published, however late a thread ends (_deliver,
\* _estimate_is_current).
PublishedIsCurrent ==
    [][(Computed /\ pane' # pane) => (pane'.line = Blank \/ pane'.line.of = snapshot)]_vars

\* What the line says is true of the workspace at any moment, and was true of the snapshot when
\* it was published.
LineSound == []LineTells /\ PublishedIsCurrent

\* Once the user and the network are quiet an open workspace comes to show the estimate of its
\* draft (_run, _estimate_is_current: a request that is dropped has another one behind it).
EstimatesCurrent == <>[](Open /\ ~stuck => pane.line = Estimate(snapshot, pane.editor))

\* What is published is about the text in the editor (violated, see README: the draft of a message
\* that was sent is emptied at its revision).
PublishedIsTyped ==
    [][(Computed /\ pane' # pane /\ pane'.line.kind = "estimate")
          => pane'.line.text = pane.editor]_vars
=============================================================================
