------------------------------ MODULE ChatSession ------------------------------
(***************************************************************************)
(* The session of the chats between sign-in and lock                        *)
(* (src/chat_controller.py, src/chat_workspace_controller.py): the screens  *)
(* of the workspace and of a new chat, the dialogs, the security settings   *)
(* and the check of the key, each handler a coroutine of one thread that    *)
(* others overtake at its awaits.                                           *)
(*                                                                         *)
(* What a coroutine captured before an await and compares after it (a       *)
(* generation, a request number, a view) is a token it holds; replacing     *)
(* the captured thing takes the token from everyone.  Messages are free or  *)
(* consented, so that a send needs no confirmation.                         *)
(***************************************************************************)
EXTENDS Integers, Sequences, FiniteSets

CONSTANTS
    Chats,      \* chats the database ever holds
    Stored,     \* those it holds at first
    Slots,      \* numbers of the coroutines in flight at once
    None,       \* no chat, no coroutine
    Budgets     \* bounds of one behaviour: "logins" and "clicks" of the user (choosing
                \* a mode and a model is free), "fails" of the storage, and "keys",
                \* what the check of the key may have said at a login

ASSUME SlotsAssumption == Slots \subseteq Nat /\ None \notin Slots \cup Chats /\ Stored \subseteq Chats

VARIABLES
    ui,       \* the controllers, the page and the coroutines
    stored,   \* the chats in the database
    left      \* what is left of the budget

vars == <<ui, stored, left>>

Idle == [do |-> "none", at |-> "none", chat |-> None, holds |-> {},
         shows |-> None, list |-> {}, sending |-> FALSE]
NoDialog == [kind |-> "none", chat |-> None, holds |-> {}, busy |-> FALSE]

Init ==
    /\ left \in Budgets
    /\ stored = Stored
    /\ ui = [open |-> FALSE, key |-> "UNKNOWN", checking |-> None,
             screen |-> "WORKSPACE", page |-> "login",
             view |-> FALSE, listed |-> {}, sending |-> FALSE, selected |-> None,
             active |-> FALSE, shown |-> None, pending |-> None, busy |-> None,
             conversing |-> None, wanted |-> None, limits |-> "none", limited |-> None,
             loading |-> None, catalog |-> FALSE, mode |-> "none", model |-> FALSE,
             form |-> "none", dialog |-> NoDialog, asking |-> FALSE,
             operation |-> None, queue |-> <<>>, flawless |-> TRUE, jobs |-> [j \in Slots |-> Idle]]

-----------------------------------------------------------------------------
(* Tokens, coroutines and the queue of the editor.                         *)

Holds(u, j, tokens) == tokens \subseteq u.jobs[j].holds
Give(u, j, tokens) == [u EXCEPT !.jobs[j].holds = @ \cup tokens]
Void(u, tokens) ==
    [u EXCEPT !.jobs = [j \in Slots |-> [u.jobs[j] EXCEPT !.holds = @ \ tokens]],
              !.dialog.holds = @ \ tokens]

IsNext(j) == ui.jobs[j] = Idle /\ \A k \in Slots : ui.jobs[k] = Idle => j <= k
Spawn(u, j, do, chat, tokens) ==
    [u EXCEPT !.jobs[j] = [Idle EXCEPT !.do = do, !.chat = chat, !.holds = tokens]]
At(j, at) == ui.jobs[j].at = at
Goes(u, j, at) == [u EXCEPT !.jobs[j].at = at]
Released(lock, j) == IF lock = j THEN None ELSE lock
End(u, j) ==
    [u EXCEPT !.jobs[j] = Idle, !.operation = Released(@, j), !.busy = Released(@, j)]

(* A send that refreshes the workspace goes on and keeps what it captured.   *)
GoesOn(u, j) == u.jobs[j].do \in {"sending", "refused"}

(* flush_editor: nothing to save without a bound editor; otherwise the      *)
(* writes of one chat happen in the order they were asked for.              *)
CanFlush(u) == u.active /\ u.shown # None /\ u.view
Flush(u, j, at) ==
    [Give(Goes(u, j, at), j, {"editor"}) EXCEPT !.queue = Append(@, [job |-> j, chat |-> u.shown])]
(* Mutant: the writes of a chat end in any order. *)
TurnOfAny(j) == \E i \in DOMAIN ui.queue : ui.queue[i].job = j
Turn(j) ==
    \E i \in DOMAIN ui.queue :
        ui.queue[i].job = j /\ \A k \in 1..(i - 1) : ui.queue[k].chat # ui.queue[i].chat
Left(u, j) == [u EXCEPT !.queue = SelectSeq(@, LAMBDA e : e.job # j)]
Spent(u, j) ==
    IF GoesOn(u, j) THEN u ELSE [u EXCEPT !.jobs[j].holds = @ \ {"editor"}]
EditorKept(u, j) == u.active /\ Holds(u, j, {"editor"})

Spends(what) == left[what] > 0 /\ left' = [left EXCEPT ![what] = @ - 1]
Works == left' = left

-----------------------------------------------------------------------------
(* What the handlers do between two awaits.                                *)

ClearWorkspace(u) == [Void(u, {"view"}) EXCEPT !.view = FALSE]
DismissDialog(u) == [Void(u, {"ask"}) EXCEPT !.dialog = NoDialog, !.asking = FALSE]
NoForm(u) == [Void(u, {"form"}) EXCEPT !.form = "none"]

(* _invalidate_catalog_request: the task that waits for the catalog ends.   *)
Invalidate(u) ==
    LET v == Void(u, {"catalog"}) IN
    IF v.loading = None THEN v ELSE [End(v, v.loading) EXCEPT !.loading = None]
DropCatalog(u) == [Invalidate(u) EXCEPT !.catalog = FALSE, !.mode = "none"]

(* The controller of the workspace loses its chat and its dialogs.          *)
Deactivate(u) ==
    [Void(u, {"editor", "op", "limits"}) EXCEPT
        !.active = FALSE, !.pending = None, !.shown = None, !.limits = "none"]
ActivateWorkspace(u) == [Void(u, {"editor", "op"}) EXCEPT !.active = TRUE, !.shown = None]

CancelCheck(u) ==
    IF u.checking = None THEN u ELSE [End(u, u.checking) EXCEPT !.checking = None]

(* deactivate *)
EndSession(u) ==
    LET v == Void(Deactivate(u), {"session", "request", "active"})
        w == NoForm(DropCatalog(CancelCheck(v)))
    IN  [ClearWorkspace(DismissDialog(w)) EXCEPT
            !.open = FALSE, !.key = "UNKNOWN", !.conversing = None, !.wanted = None, !.model = FALSE,
            !.screen = "WORKSPACE"]
StorageError(u) == [EndSession(u) EXCEPT !.page = "error"]

ModeSelection(u) ==
    IF ~u.catalog THEN u
    ELSE [ClearWorkspace(u) EXCEPT !.screen = "MODE", !.page = "mode"]
CatalogLoading(u, j) ==
    LET v == Give(Goes(Void(u, {"catalog"}), j, "catalog"), j, {"catalog"})
    IN  [ClearWorkspace(v) EXCEPT !.loading = j, !.screen = "LOADING", !.page = "loading"]

StartCheck(u, j) ==
    [Goes(Spawn(u, j, "check", None, {"session"}), j, "key") EXCEPT !.checking = j]

Operates(u, j) ==
    u.active /\ u.view /\ u.shown = u.jobs[j].chat /\ Holds(u, j, {"editor", "op"})

(* What follows _show_workspace in the coroutine that called it.            *)
After(u, j) ==
    CASE u.jobs[j].do = "enter" ->
            IF u.open /\ Holds(u, j, {"session"}) /\ u.key = "UNKNOWN" /\ u.checking = None
            THEN StartCheck(End(u, j), j) ELSE End(u, j)
      [] u.jobs[j].do = "sending" -> [Goes(u, j, "answer") EXCEPT !.jobs[j] =
                                        [@ EXCEPT !.shows = None, !.list = {}, !.sending = FALSE]]
      [] u.jobs[j].do = "refused" -> End(IF Operates(u, j) THEN [u EXCEPT !.sending = FALSE] ELSE u, j)
      [] OTHER -> End(u, j)

(* _show_workspace up to its first await. *)
Kept(u, j) ==
    IF GoesOn(u, j) THEN u ELSE [u EXCEPT !.jobs[j].chat = None, !.jobs[j].holds = {}]
Show(u, j) ==
    IF u.screen = "SECURITY" \/ ~u.open \/ ~Holds(u, j, {"session"}) THEN After(u, j)
    ELSE LET v == Give(Kept(Void(u, {"request"}), j), j, {"session", "request"})
         IN  IF CanFlush(v) THEN Flush(v, j, "show") ELSE Goes(v, j, "list")
(* Mutant: only the screen is looked at after the awaits. *)
ShowIsWanted(u, j) == u.screen # "SECURITY"
ShowIsCurrent(u, j) ==
    u.open /\ u.screen # "SECURITY" /\ Holds(u, j, {"session", "request"})
(* _refresh_workspace_from_interaction *)
Refresh(u, j) ==
    IF u.screen # "WORKSPACE" \/ ~u.open THEN After(u, j) ELSE Show(Give(u, j, {"session"}), j)

(* _show_workspace after its last await: the view is updated or replaced    *)
(* and bound to the state that was read.                                    *)
Present(u, j) ==
    LET job == u.jobs[j]
        v == IF u.view /\ u.screen = "WORKSPACE" THEN u
             ELSE [ClearWorkspace(u) EXCEPT !.page = "workspace"]
        w == IF v.shown # job.shows THEN Void(v, {"op"}) ELSE v
    IN  After([w EXCEPT !.view = TRUE, !.listed = job.list, !.sending = job.sending,
                        !.shown = job.shows, !.screen = "WORKSPACE"], j)

(* The messages of another chat: whatever was captured for the last is stale. *)
Converse(u, c) == [Void(u, {"active"}) EXCEPT !.conversing = c]

(* _apply_interaction_key_state *)
ApplyKey(u, key) ==
    LET v == [u EXCEPT !.key = key]
    IN  IF key = "INVALID" THEN [DropCatalog(v) EXCEPT !.model = FALSE] ELSE v

(* _refresh_after_key_validation *)
AfterCheck(u, j) ==
    LET denied == u.mode = "PAID" /\ u.key # "VALID"
        back == ModeSelection([u EXCEPT !.mode = "none"])
    IN  CASE u.screen = "SECURITY" -> End(u, j)
          [] u.screen # "SECURITY" /\ u.key = "INVALID" -> Show(DropCatalog(u), j)
          [] u.key # "INVALID" /\ u.screen = "LOADING" -> End(u, j)
          [] u.key # "INVALID" /\ u.screen = "MODE" -> End(ModeSelection(u), j)
          [] u.key # "INVALID" /\ u.screen = "MODEL" -> End(IF denied THEN back ELSE u, j)
          [] u.key # "INVALID" /\ u.screen = "LIMITS" ->
                End(IF denied THEN NoForm([back EXCEPT !.model = FALSE]) ELSE u, j)
          [] OTHER -> Show(u, j)

-----------------------------------------------------------------------------
(* Shapes shared by the handlers.                                          *)

Uncovered == ui.dialog = NoDialog /\ ui.limits = "none"
Clickable == ui.page = "workspace" /\ ui.view /\ Uncovered
Clicks(u) == Spends("clicks") /\ ui' = u /\ UNCHANGED stored
Continues(u) == Works /\ ui' = u /\ UNCHANGED stored
Fails(u) == Spends("fails") /\ ui' = [u EXCEPT !.flawless = FALSE] /\ UNCHANGED stored

(* The editor is saved before the handler goes on, at once if it is clean.  *)
FlushFirst(u, j, at, Then(_)) == IF CanFlush(u) THEN Flush(u, j, at) ELSE Then(u)
Flushed(j, at, Then(_), Else(_)) ==
    /\ At(j, at) /\ Turn(j)
    /\ LET u == Left(ui, j) IN
       \/ Continues(IF EditorKept(u, j) THEN Then(Spent(u, j)) ELSE Else(u))
       \/ Fails(Else(u))

-----------------------------------------------------------------------------
(* Sign-in and lock.                                                       *)

Activate(j) ==
    /\ ~ui.open /\ IsNext(j)
    /\ \E key \in left.keys :
         LET u == Void(ActivateWorkspace(EndSession(ui)), {"active"})
         IN  /\ Spends("logins")
             /\ ui' = Show(Spawn([u EXCEPT !.open = TRUE, !.key = key], j, "enter", None, {"session"}), j)
    /\ UNCHANGED stored

(* The user or a seal; what runs goes on without its tokens. *)
Lock == ui.open /\ Continues([EndSession(ui) EXCEPT !.page = "login"])

ShowFlushed(j) ==
    Flushed(j, "show", LAMBDA u : IF ShowIsCurrent(u, j) THEN Goes(u, j, "list") ELSE After(u, j),
                       LAMBDA u : After(u, j))

ShowListed(j) ==
    /\ At(j, "list")
    /\ \/ Holds(ui, j, {"session"}) /\ Fails(StorageError(End(ui, j)))
       \/ ~Holds(ui, j, {"session"}) /\ Fails(After(ui, j))
       \/ /\ ~(ui.open /\ Holds(ui, j, {"session", "request"}))
          /\ Continues(After(ui, j))
       \/ /\ ui.open /\ Holds(ui, j, {"session", "request"})
          /\ LET chosen == IF ui.selected \in stored THEN {ui.selected} ELSE stored
             IN  \/ /\ chosen = {}
                    /\ Continues(Present([ui EXCEPT !.selected = None], j))
                 \/ \E c \in chosen :
                      LET u == [Goes(ui, j, "load") EXCEPT
                                    !.selected = c, !.jobs[j].shows = c, !.jobs[j].list = stored]
                      IN  Continues(IF u.conversing = c THEN u ELSE Converse(u, c))

(* The state of the chat says whether a request is under way as it is read. *)
ShowLoaded(j) ==
    /\ At(j, "load")
    /\ LET failed == IF Holds(ui, j, {"session"}) THEN StorageError(End(ui, j)) ELSE After(ui, j)
       IN  \/ Fails(failed)
           \/ ui.jobs[j].shows \notin stored /\ Continues(failed)
           \/ /\ ui.jobs[j].shows \in stored
              /\ Continues(IF ShowIsCurrent(ui, j)
                           THEN [Goes(ui, j, "draft") EXCEPT !.jobs[j].sending = ui.busy # None]
                           ELSE After(ui, j))

ShowDrafted(j) ==
    /\ At(j, "draft")
    /\ \/ Continues(IF ShowIsCurrent(ui, j) THEN Present(ui, j) ELSE After(ui, j))
       \/ Fails(IF ShowIsCurrent(ui, j) /\ ~ui.view THEN StorageError(End(ui, j)) ELSE After(ui, j))

(* request_key_revalidation; _run_key_validation *)
Revalidate(j) ==
    /\ Clickable /\ ui.open /\ ui.checking = None /\ ui.screen # "SECURITY" /\ IsNext(j)
    /\ \E k \in Slots \ {j} :
         /\ ui.jobs[k] = Idle
         /\ Clicks(Show(Spawn(StartCheck(ui, j), k, "refresh", None, {"session"}), k))
KeyAnswers(j) ==
    /\ At(j, "key") /\ ui.checking = j
    /\ \E key \in {"UNKNOWN", "VALID", "INVALID"} :
         LET u == [ui EXCEPT !.checking = None, !.key = key]
         IN  Continues(AfterCheck(IF key = "INVALID" THEN DropCatalog(u) ELSE u, j))

-----------------------------------------------------------------------------
(* The chat asked for last, for the properties: none if an earlier choice   *)
(* still waits for a draft that need not be saved before "chat" is, since   *)
(* such a choice is carried out whenever its draft is saved.                *)
Wanted(c, chat) ==
    IF \E i \in DOMAIN ui.queue :
        ui.jobs[ui.queue[i].job].do = "select" /\ ui.queue[i].chat # chat
    THEN None ELSE c

(* A new chat.                                                             *)

NewGo(u, j) ==
    IF u.open /\ Holds(u, j, {"session"}) THEN CatalogLoading(u, j) ELSE End(u, j)
RequestNewChat(j) ==
    /\ Clickable /\ ui.open /\ ui.screen # "SECURITY" /\ IsNext(j)
    /\ ui.loading = None /\ ui.key # "INVALID" /\ ui.busy = None
    /\ Clicks(FlushFirst(Spawn(ui, j, "new", None, {"session"}), j, "new", LAMBDA u : NewGo(u, j)))
NewFlushed(j) == Flushed(j, "new", LAMBDA u : NewGo(u, j), LAMBDA u : End(u, j))

CatalogArrives(j) ==
    /\ At(j, "catalog")
    /\ LET u == [End(ui, j) EXCEPT !.loading = Released(@, j)]
       IN  Continues(IF ui.open /\ Holds(ui, j, {"session", "catalog"})
                     THEN ModeSelection([u EXCEPT !.catalog = TRUE, !.mode = "none"]) ELSE u)

CancelNewChat(j) ==
    /\ Uncovered /\ ui.page \in {"loading", "mode"} /\ IsNext(j)
    /\ LET u == NoForm([DropCatalog(ui) EXCEPT !.model = FALSE])
       IN  Clicks(Show(Spawn(u, j, "refresh", None, {"session"}), j))

ModelPage(u) == [u EXCEPT !.screen = "MODEL", !.page = "model", !.model = FALSE]
SelectMode ==
    /\ Uncovered /\ ui.page = "mode" /\ ui.catalog /\ ui.open
    /\ \E mode \in {"FREE", "PAID"} :
         /\ mode = "FREE" => ui.key # "INVALID"
         /\ mode = "PAID" => ui.key = "VALID"
         /\ Continues(ModelPage([ui EXCEPT !.mode = mode]))
BackToMode ==
    /\ Uncovered /\ ui.page = "model" /\ ui.catalog /\ ui.open
    /\ Clicks(ModeSelection([ui EXCEPT !.mode = "none", !.model = FALSE]))
SelectModel ==
    /\ Uncovered /\ ui.page = "model" /\ ui.catalog /\ ui.mode # "none" /\ ui.open
    /\ Continues([NoForm(ui) EXCEPT !.model = TRUE, !.form = "ready", !.screen = "LIMITS", !.page = "limits"])
BackToModel ==
    /\ Uncovered /\ ui.page = "limits" /\ ui.mode # "none" /\ ui.catalog /\ ui.open
    /\ Clicks(ModelPage(NoForm(ui)))

(* A transaction of a closed session commits before the next PIN check is   *)
(* over, or its access is refused.                                          *)
Commits(j) == Holds(ui, j, {"session"}) \/ ~ui.open
SubmitNewChat(j) ==
    /\ Uncovered /\ ui.page = "limits" /\ ui.form = "ready" /\ ui.mode # "none" /\ ui.model /\ ui.catalog
    /\ ui.open /\ ui.operation = None /\ IsNext(j)
    /\ LET u == Spawn([ui EXCEPT !.form = "busy", !.operation = j], j, "create", None, {"session", "form"})
       IN  Clicks(Goes(u, j, "create"))
ChatCreated(j) ==
    /\ At(j, "create")
    /\ \/ /\ Commits(j)
          /\ \E c \in Chats \ stored :
               /\ stored' = stored \cup {c}
               /\ LET u == [NoForm([ui EXCEPT !.catalog = FALSE, !.mode = "none", !.model = FALSE])
                                EXCEPT !.selected = c, !.wanted = Wanted(c, None), !.operation = None]
                  IN  ui' = IF Holds(ui, j, {"session"}) THEN Show(u, j) ELSE End(ui, j)
          /\ Works
       \/ ~Commits(j) /\ Continues(End(ui, j))
       \/ Fails(IF Holds(ui, j, {"session", "form"}) /\ ui.form # "none"
                THEN End([ui EXCEPT !.form = "ready"], j) ELSE End(ui, j))

-----------------------------------------------------------------------------
(* Choosing a chat, and the dialogs that delete or rename the chosen one.   *)

BeginNavigation(u, c) == IF u.shown \notin {None, c} THEN Void(u, {"op"}) ELSE u
SelectGo(u, j) ==
    LET c == u.jobs[j].chat
        v == BeginNavigation(DismissDialog(u), c)
    IN  IF u.open /\ Holds(u, j, {"session"}) THEN Show([v EXCEPT !.selected = c], j) ELSE End(u, j)
SelectChat(j) ==
    /\ Clickable /\ ui.open /\ ui.screen # "SECURITY" /\ IsNext(j)
    /\ \E c \in ui.listed :
         LET u == [ui EXCEPT !.wanted = Wanted(c, ui.shown)]
         IN  Clicks(FlushFirst(Spawn(u, j, "select", c, {"session"}), j, "select",
                               LAMBDA v : SelectGo(v, j)))
SelectFlushed(j) == Flushed(j, "select", LAMBDA u : SelectGo(u, j),
                              LAMBDA u : End([u EXCEPT !.wanted = None], j))

(* _chat_action_matches *)
Matches(u, context) ==
    /\ u.open /\ u.screen = "WORKSPACE" /\ context.chat = u.selected
    /\ {"session", "ask", "view"} \subseteq context.holds

(* _load_chat_action *)
RequestAction(j) ==
    /\ Clickable /\ ui.open /\ ~ui.sending /\ ~ui.asking /\ ui.busy = None /\ IsNext(j)
    /\ ui.selected = ui.shown /\ ui.shown # None
    /\ \E kind \in {"delete", "rename"} :
         LET u == [Void(ui, {"ask"}) EXCEPT !.asking = TRUE]
         IN  Clicks(Goes(Spawn(u, j, kind, ui.shown, {"session", "ask", "view"}), j, "get"))
ActionLoaded(j) ==
    /\ At(j, "get")
    /\ LET job == ui.jobs[j]
           u == End([ui EXCEPT !.asking = @ /\ ~Holds(ui, j, {"ask"})], j)
           opens == job.chat \in stored /\ Matches(ui, job) /\ ui.busy = None /\ ui.limits = "none"
       IN  \/ Fails(u)
           \/ Continues(IF ~opens THEN u
                        ELSE [u EXCEPT !.dialog = [kind |-> job.do, chat |-> job.chat,
                                                   holds |-> job.holds, busy |-> FALSE]])

CancelAction ==
    /\ ui.page # "error" /\ ui.dialog.kind # "none" /\ ui.limits = "none" /\ ~ui.dialog.busy
    /\ Matches(ui, ui.dialog)
    /\ Clicks(DismissDialog(ui))

DeleteGo(u, j) ==
    IF Matches(u, u.jobs[j]) THEN Goes([u EXCEPT !.dialog.busy = TRUE], j, "delete") ELSE End(u, j)
RenameGo(u, j) == IF Matches(u, u.jobs[j]) THEN Goes(u, j, "rename") ELSE End(u, j)
ConfirmAction(j) ==
    /\ ui.dialog.kind # "none" /\ ui.limits = "none" /\ ~ui.dialog.busy
    /\ Matches(ui, ui.dialog) /\ ui.operation = None /\ ui.busy = None /\ IsNext(j)
    /\ LET kind == ui.dialog.kind
           u == [Spawn(ui, j, kind, ui.dialog.chat, ui.dialog.holds) EXCEPT
                    !.operation = j, !.dialog.busy = kind = "rename"]
       IN  Clicks(IF kind = "delete" THEN FlushFirst(u, j, "deleting", LAMBDA v : DeleteGo(v, j))
                  ELSE FlushFirst(u, j, "renaming", LAMBDA v : RenameGo(v, j)))
DeleteFlushed(j) == Flushed(j, "deleting", LAMBDA u : DeleteGo(u, j), LAMBDA u : End(u, j))
Offered(u, j) == IF Matches(u, u.jobs[j]) THEN [u EXCEPT !.dialog.busy = FALSE] ELSE u
RenameFlushed(j) ==
    Flushed(j, "renaming", LAMBDA u : RenameGo(u, j), LAMBDA u : End(Offered(u, j), j))

ChatDeleted(j) ==
    /\ At(j, "delete")
    /\ LET job == ui.jobs[j]
           u == [ClearWorkspace(DismissDialog(ui)) EXCEPT !.selected = None]
       IN  \/ Fails(IF Matches(ui, job) THEN End(DismissDialog(ui), j) ELSE End(ui, j))
           \/ ~Commits(j) /\ Continues(End(ui, j))
           \/ /\ Works /\ Commits(j)
              /\ stored' = stored \ {job.chat}
              /\ ui' = IF ~Matches(ui, job) THEN End(ui, j)
                       ELSE IF job.chat \in stored THEN Show(u, j) ELSE End(DismissDialog(ui), j)
ChatRenamed(j) ==
    /\ At(j, "rename")
    /\ \/ Fails(End(Offered(ui, j), j))
       \/ Continues(IF Matches(ui, ui.jobs[j]) THEN Show(DismissDialog(ui), j) ELSE End(ui, j))

-----------------------------------------------------------------------------
(* The limits of the shown chat.                                           *)

Operating == {"editor", "op", "active"}

OpenLimits(j) ==
    /\ Clickable /\ ~ui.sending /\ ui.busy = None /\ ui.active /\ ui.shown # None /\ IsNext(j)
    /\ Clicks(Goes(Spawn(ui, j, "limits", ui.shown, Operating \cup {"view"}), j, "budget"))
LimitsLoaded(j) ==
    /\ At(j, "budget")
    /\ LET u == End(ui, j)
           opens == Operates(ui, j) /\ Holds(ui, j, {"view"}) /\ ui.busy = None /\ ui.limits = "none"
       IN  \/ Fails(u)
           \/ Continues(IF ui.jobs[j].chat \in stored /\ opens THEN [u EXCEPT !.limits = "open", !.limited = ui.jobs[j].chat] ELSE u)
CancelLimits ==
    /\ ui.limits \in {"open", "saving"}
    /\ Clicks([Void(ui, {"limits"}) EXCEPT !.limits = "none"])

(* A raised cost limit is asked about first; the answer finds the limits    *)
(* dialog as the navigation of others left it.                              *)
Saving(u, j) ==
    LET v == Spawn([u EXCEPT !.limits = "saving", !.busy = j], j, "limits", u.limited,
                   Operating \cup {"limits"})
    IN  Clicks(Goes(v, j, "save"))
SubmitLimits(j) ==
    /\ ui.limits = "open" /\ ui.shown = ui.limited /\ ui.busy = None /\ IsNext(j)
    /\ Clicks([ui EXCEPT !.limits = "asked"]) \/ (ui.active /\ ui.view /\ Saving(ui, j))
ConfirmCost(j) ==
    /\ ui.limits = "asked" /\ IsNext(j)
    /\ IF ~(ui.active /\ ui.view /\ ui.shown = ui.limited)
       THEN Clicks([ui EXCEPT !.limits = "saving"])
       ELSE IF ui.busy # None THEN Clicks([ui EXCEPT !.limits = "open"])
       ELSE Saving(ui, j)
CancelCost == ui.limits = "asked" /\ Clicks([ui EXCEPT !.limits = "open"])
LimitsSaved(j) ==
    /\ At(j, "save")
    /\ LET u == [ui EXCEPT !.busy = None]
           mine == Operates(u, j) /\ Holds(u, j, {"limits"})
           offered == IF mine THEN [u EXCEPT !.limits = "open"] ELSE u
       IN  \/ Fails(End(offered, j))
           \/ Continues(IF ~Holds(u, j, {"active"}) THEN End(offered, j)
                        ELSE IF mine THEN Refresh([u EXCEPT !.limits = "none"], j) ELSE End(u, j))

-----------------------------------------------------------------------------
(* The security settings over the workspace.                               *)

SuspendGo(u, j) == Flush(u, j, "all")
OpenSecurity(j) ==
    /\ Clickable /\ ui.open /\ ui.screen = "WORKSPACE" /\ ~ui.sending /\ ui.busy = None
    /\ ~ui.asking /\ ui.operation = None /\ IsNext(j)
    /\ \A k \in Slots : ui.jobs[k].do # "secure"
    /\ LET u == Spawn([Void(ui, {"request", "ask"}) EXCEPT !.screen = "SECURITY"],
                      j, "secure", None, {"session"})
       IN  Clicks(FlushFirst(u, j, "secure", LAMBDA v : SuspendGo(v, j)))
Unsuspended(u, j) ==
    End(IF u.open /\ Holds(u, j, {"session"}) THEN [u EXCEPT !.screen = "WORKSPACE"] ELSE u, j)
SecurityFlushed(j) ==
    Flushed(j, "secure", LAMBDA u : SuspendGo(u, j), LAMBDA u : Unsuspended(u, j))
SecurityOpens(j) ==
    /\ At(j, "all") /\ Turn(j)
    /\ LET u == Left(ui, j) IN
       \/ Continues(IF u.open /\ Holds(u, j, {"session"})
                    THEN End([ClearWorkspace(Deactivate(u)) EXCEPT !.page = "security"], j)
                    ELSE End(u, j))
       \/ Fails(Unsuspended(u, j))

(* resume_after_security *)
CloseSecurity(j) ==
    /\ Uncovered /\ ui.page = "security" /\ ui.open /\ ui.screen = "SECURITY" /\ IsNext(j)
    /\ Clicks(Show(Spawn(ActivateWorkspace([ui EXCEPT !.screen = "WORKSPACE"]),
                         j, "refresh", None, {"session"}), j))

-----------------------------------------------------------------------------
(* A message of the shown chat, from the button to its result.             *)

SubmitMessage(j) ==
    /\ Clickable /\ ui.active /\ ui.shown # None /\ ~ui.sending
    /\ ui.pending = None /\ ui.busy = None /\ ui.key # "INVALID" /\ IsNext(j)
    /\ Clicks(Flush([Spawn(ui, j, "sent", ui.shown, {"op"}) EXCEPT !.pending = j, !.sending = TRUE],
                    j, "send"))
(* Mutant: the pending send is forgotten only while its chat is still shown. *)
NotPendingHere(u, j) == IF Operates(u, j) THEN [u EXCEPT !.pending = Released(@, j)] ELSE u
(* Navigation takes the result from the screen, not the wait from its owner. *)
NotPending(u, j) == [u EXCEPT !.pending = Released(@, j)]
NotSent(u, j) == End([NotPending(u, j) EXCEPT !.sending = FALSE], j)

(* What was awaited before the send answers "next" if nothing intervened. *)
Proceeds(u, j, next, failed) ==
    LET own == u.pending = j /\ u.active /\ Holds(u, j, {"editor"})
        lost == IF own THEN Refresh(NotPending(u, j), j) ELSE End(u, j)
    IN  IF own /\ Operates(u, j) THEN Continues(next) \/ Fails(failed)
        ELSE Continues(lost) \/ Fails(lost)
Execute(u, j) ==
    IF u.busy # None THEN Refresh(NotPending(u, j), j)
    ELSE [Give(Goes(u, j, "reserve"), j, {"active"}) EXCEPT !.busy = j, !.jobs[j].do = "sending"]
SendFlushed(j) ==
    /\ At(j, "send") /\ Turn(j)
    /\ LET u == Left(ui, j) IN Proceeds(u, j, Execute(u, j), NotSent(u, j))

(* A failed turn is sent again after a preview, which the key may refuse;   *)
(* the button of a turn does not look at a send that is under way.          *)
RequestRetry(j) ==
    /\ Clickable /\ ui.active /\ ui.shown # None /\ ui.pending = None /\ ui.busy = None /\ IsNext(j)
    /\ Clicks(Goes([Spawn(ui, j, "sent", ui.shown, Operating) EXCEPT
                        !.pending = j, !.sending = TRUE, !.busy = j], j, "preview"))
Refuse(u, j) == Refresh([NotPending(u, j) EXCEPT !.jobs[j].do = "refused"], j)
RetryPreviewed(j) ==
    /\ At(j, "preview")
    /\ LET u == [ui EXCEPT !.busy = None]
           fresh == Holds(u, j, {"active"}) /\ u.conversing = u.jobs[j].chat
       IN  \/ fresh /\ u.key # "INVALID" /\ Proceeds(u, j, Execute(u, j), NotSent(u, j))
           \/ fresh /\ \E key \in {u.key, "INVALID"} :
                LET v == ApplyKey(u, key) IN Proceeds(v, j, Refuse(v, j), NotSent(u, j))
           \/ ~fresh /\ Proceeds(u, j, Refuse(u, j), NotSent(u, j))

(* on_reserved refreshes the workspace before the request goes out. *)
Reserved(j) ==
    /\ At(j, "reserve")
    /\ Continues(IF ui.pending = j /\ Operates(ui, j) THEN Refresh(ui, j) ELSE Goes(ui, j, "answer"))
(* The result, or a refusal before the reservation. *)
Answered(j) ==
    /\ ui.jobs[j].at \in {"reserve", "answer"}
    /\ \E key \in {ui.key, "INVALID"} :
         LET u == [ui EXCEPT !.busy = None, !.jobs[j].do = "sent", !.jobs[j].at = "outcome"]
             applies == Holds(u, j, {"active"}) /\ u.open /\ u.conversing = u.jobs[j].chat
         IN  Continues(IF applies THEN ApplyKey(u, key) ELSE u)
Finished(j) ==
    /\ At(j, "outcome")
    /\ LET u == NotPending(ui, j)
           current == ui.active /\ Holds(ui, j, {"editor"})
       IN  \/ Continues(IF ~current \/ (ui.busy # None /\ ~Holds(ui, j, {"op"}))
                        THEN End(IF current THEN u ELSE ui, j) ELSE Refresh(u, j))
           \/ Holds(ui, j, {"active"}) /\ Fails(End(ui, j))

-----------------------------------------------------------------------------
Click(j) ==
    \/ Activate(j) \/ Revalidate(j) \/ RequestNewChat(j) \/ CancelNewChat(j) \/ SubmitNewChat(j)
    \/ SelectChat(j) \/ RequestAction(j) \/ ConfirmAction(j) \/ OpenLimits(j) \/ SubmitLimits(j) \/ ConfirmCost(j)
    \/ OpenSecurity(j) \/ CloseSecurity(j) \/ SubmitMessage(j) \/ RequestRetry(j)
Resumes(j) ==
    \/ ShowFlushed(j) \/ ShowListed(j) \/ ShowLoaded(j) \/ ShowDrafted(j)
    \/ KeyAnswers(j) \/ NewFlushed(j) \/ CatalogArrives(j) \/ ChatCreated(j)
    \/ SelectFlushed(j) \/ ActionLoaded(j) \/ DeleteFlushed(j) \/ RenameFlushed(j)
    \/ ChatDeleted(j) \/ ChatRenamed(j) \/ LimitsLoaded(j) \/ LimitsSaved(j)
    \/ SecurityFlushed(j) \/ SecurityOpens(j)
    \/ SendFlushed(j) \/ RetryPreviewed(j) \/ Reserved(j) \/ Answered(j) \/ Finished(j)
Next ==
    \/ Lock \/ SelectMode \/ BackToMode \/ SelectModel \/ BackToModel
    \/ CancelAction \/ CancelLimits \/ CancelCost
    \/ \E j \in Slots : Click(j) \/ Resumes(j)

Spec == Init /\ [][Next]_vars
-----------------------------------------------------------------------------
Rests == \A j \in Slots : ui.jobs[j] = Idle

(* Nothing of a closed session shows up, neither while it is closed nor in   *)
(* the next one: no page, dialog, catalog or wait of it, whichever of its    *)
(* coroutines resume after the lock.                                         *)
SessionsApart ==
    /\ ~ui.open => /\ ui.page \in {"login", "error"} /\ ~ui.view /\ ~ui.catalog
                   /\ ui.dialog = NoDialog /\ ui.limits = "none"
    /\ ui.dialog # NoDialog => "session" \in ui.dialog.holds
    /\ \A j \in {ui.loading, ui.checking} \ {None} : Holds(ui, j, {"session"})

(* Once everything has settled without a failure of the storage, the        *)
(* workspace lists every chat of the database, perhaps a deleted one too    *)
(* (see README), and shows the one the user asked for last, whatever        *)
(* overtook it.                                                             *)
SettledShowsStored ==
    Rests /\ ui.flawless /\ ui.page = "workspace" =>
        /\ stored \subseteq ui.listed
        /\ ui.shown = ui.selected
        /\ ui.wanted \in stored => ui.shown = ui.wanted

(* A message is pending only as long as its handler is at work, so that one *)
(* message never blocks those that follow.                                  *)
PendingIsAlive ==
    ui.flawless /\ ui.pending # None => ui.jobs[ui.pending].do \in {"sent", "sending"}

(* What the workspace shows and waits for is what the database and its      *)
(* handlers have.                                                           *)
WorkspaceHonest == SettledShowsStored /\ PendingIsAlive

(* A dialog that stays open answers: its buttons still belong to the chat,  *)
(* the view and the session it was opened for.                              *)
DialogAnswers == Rests /\ ui.dialog # NoDialog => Matches(ui, ui.dialog)
=============================================================================
