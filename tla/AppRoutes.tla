------------------------------ MODULE AppRoutes ------------------------------
(***************************************************************************)
(* The application controller (src/app.py) with the session of the chats   *)
(* (src/chat_controller.py) and the authentication service behind it: the  *)
(* screens before and after the PIN, the operations started from them and  *)
(* the seal that the desktop, the lifecycle or a change of language may    *)
(* begin between any two steps of an operation.                            *)
(*                                                                         *)
(* One operation holds _operation_lock; outside it run the end of a seal,  *)
(* the manual lock and the return to the chats.  What a suspended          *)
(* coroutine captured and compares when it resumes (a view, the epoch, the *)
(* generation of the session or of the access) is a pair of "fresh", which *)
(* goes away when the captured thing is replaced.                          *)
(***************************************************************************)
EXTENDS Integers, FiniteSets

CONSTANT Budgets    \* bounds of one behaviour: operations of the user ("ops"),
                    \* seals ("seals") and failing answers ("fails")

ASSUME BudgetsAssumption == Budgets \subseteq [{"ops", "seals", "fails"} -> Nat]

VARIABLES
    app,     \* the controller, the session of the chats and the service
    task,    \* the suspended coroutines
    left     \* what is left of the budget

vars == <<app, task, left>>

Views == {"key", "pin", "setup", "sysrec", "entry", "codepin", "codeshow", "step"}
Pages == Views \cup {"blank", "newpin", "chats", "error"}
Tasks == {"op", "seal", "lock", "side"}
Idle == [kind |-> "none", pc |-> "idle"]
At(t, kind, pc) == task[t] = [kind |-> kind, pc |-> pc]

Still(a, t, what) == <<t, what>> \in a.fresh
Capture(a, t, whats) == [a EXCEPT !.fresh = @ \cup ({t} \X whats)]
Moved(a, what) == [a EXCEPT !.fresh = {f \in @ : f[2] # what}]
Forget(a, t) == [a EXCEPT !.fresh = {f \in @ : f[1] # t}]

Init ==
    /\ left \in Budgets
    /\ \E linux, known, unchecked \in BOOLEAN :
         app = [linux |-> linux, registered |-> known,
                onboarding |-> linux /\ unchecked, handled |-> FALSE,
                suspending |-> FALSE, background |-> FALSE, closing |-> FALSE,
                page |-> "blank", views |-> {}, token |-> "none", source |-> "system",
                dialog |-> FALSE,
                session |-> FALSE, security |-> FALSE, deferred |-> FALSE, chats |-> FALSE,
                open |-> FALSE, loose |-> FALSE, relocked |-> FALSE, pending |-> FALSE, replacing |-> FALSE,
                grant |-> FALSE, issue |-> FALSE, prompt |-> "none",
                fresh |-> {"op"} \X {"epoch", "seal"}]
    /\ task = [[t \in Tasks |-> Idle] EXCEPT !["op"] = [kind |-> "start", pc |-> "ask"]]

-----------------------------------------------------------------------------
(* What the handlers do between two awaits.                                *)

Drop(a, kinds) ==
    [a EXCEPT !.views = @ \ kinds, !.fresh = {f \in @ : f[2] \notin kinds}]
NewView(a, kind) == [Drop(a, {kind}) EXCEPT !.views = @ \cup {kind}]
Replace(a, page) == IF a.closing THEN a ELSE [a EXCEPT !.page = page]

DeactivateInPlace(a) ==
    [a EXCEPT !.session = FALSE, !.security = FALSE, !.deferred = FALSE, !.chats = FALSE]
(* deactivate: the generation of the session moves. *)
Deactivate(a) ==
    [Moved(Moved(a, "gen"), "workspace") EXCEPT
        !.session = FALSE, !.security = FALSE, !.deferred = FALSE, !.chats = FALSE]

(* _clear_secret_controls(cancel_code_issue=FALSE), and the whole of it *)
ClearControls(a) ==
    [Drop(a, {"step", "entry", "codepin", "codeshow", "sysrec"}) EXCEPT !.token = "none"]
ClearSecret(a) == [ClearControls(a) EXCEPT !.issue = FALSE]

CancelPending(a) == [Moved(a, "auth") EXCEPT !.pending = FALSE]
CancelGrant(a) == [Moved(a, "auth") EXCEPT !.grant = FALSE, !.issue = FALSE, !.replacing = FALSE]
LockSetupOnly(a) == CancelPending(a)
LockAccess(a) == [CancelGrant(CancelPending(a)) EXCEPT !.open = FALSE, !.loose = FALSE]

CancelAnswered(a) == CancelGrant(a)
(* provider.cancel reaches the prompt of the system, if one is shown. *)
CancelNative(a) ==
    [CancelGrant(a) EXCEPT !.prompt = IF @ = "shown" THEN "cancelled" ELSE @]

ShowKey(a) ==
    Replace(NewView(Drop(ClearSecret(Deactivate(a)), {"pin", "setup"}), "key"), "key")
ShowSetup(a) ==
    LET b == Drop(ClearSecret(Deactivate(a)), {"key", "pin"})
    IN  Replace(NewView([b EXCEPT !.token = "setup"], "setup"), "setup")
ShowPin(a) ==
    LET b == Drop(ClearSecret(Deactivate([a EXCEPT !.dialog = FALSE])), {"key", "setup"})
    IN  Replace(NewView([b EXCEPT !.relocked = FALSE], "pin"), "pin")
ShowError(a) == Replace(Deactivate(a), "error")
ShowRecovery(a) ==
    LET b == Drop(ClearSecret(Deactivate(a)), {"key", "pin", "setup"})
    IN  Replace(NewView(b, "sysrec"), "sysrec")
ShowEntry(a) ==
    LET b == Drop(ClearSecret(Deactivate(a)), {"key", "pin", "setup"})
    IN  Replace(NewView(b, "entry"), "entry")
ShowNewPin(a, source) ==
    LET b == Drop(ClearSecret(a), {"key", "pin"})
    IN  Replace(NewView([b EXCEPT !.token = "recovery", !.source = source], "setup"), "newpin")
ShowCode(a) == Replace(NewView(ClearControls(a), "codeshow"), "codeshow")
ShowStep(a) == Replace(NewView(a, "step"), "step")

(* _activate_session *)
Activate(a, present) ==
    [Deactivate(Drop(ClearSecret(a), {"key", "setup", "pin"})) EXCEPT
        !.session = TRUE, !.deferred = ~present, !.loose = FALSE]
ActivatePresent(a) == Activate(a, TRUE)
ActivateStep(a) == Activate(a, FALSE)

BeginSealInEpoch(a) ==
    LET b == LockAccess(Deactivate(Moved(a, "seal")))
        c == Drop(ClearSecret([b EXCEPT !.dialog = FALSE]), {"key", "setup", "pin"})
    IN  [c EXCEPT !.suspending = TRUE, !.page = "blank"]
(* _begin_session_seal: access is revoked before the first await. *)
BeginSeal(a) ==
    LET b == LockAccess(Deactivate(Moved(Moved(a, "epoch"), "seal")))
        c == Drop(ClearSecret([b EXCEPT !.dialog = FALSE]), {"key", "setup", "pin"})
    IN  [c EXCEPT !.suspending = TRUE, !.page = "blank"]

Route(a, route) ==
    CASE route = "setup" -> ShowKey(a)
      [] route = "pin" -> ShowPin(a)
      [] OTHER -> ShowError(a)

Free == ~app.closing /\ ~app.suspending /\ ~app.background
Opened == app.session /\ app.open
ChatFree == app.session /\ app.chats /\ ~app.security

-----------------------------------------------------------------------------
(* Steps of the coroutines.                                                *)

Spend(what) == left[what] > 0 /\ left' = [left EXCEPT ![what] = @ - 1]

Sets(t, a, kind, pc) ==
    /\ app' = a
    /\ task' = [task EXCEPT ![t] = [kind |-> kind, pc |-> pc]]
Ends(t, a) == app' = Forget(a, t) /\ task' = [task EXCEPT ![t] = Idle]

(* The service runs one call at a time: a call of an operation is refused  *)
(* at once (BUSY) while the manual lock asks it for the time of the PIN,   *)
(* which in turn waits for a call in progress.                             *)
Busy == task["lock"].pc \in {"ask", "ask_again"}
AuthCall == task["op"].pc \notin {"idle", "prefs", "flush", "show"}

(* An operation begins: guards, then the lock, free or not at all. *)
Begins(kind, pc, a, whats) ==
    /\ Free /\ task["op"] = Idle /\ Spend("ops")
    /\ Sets("op", Capture(a, "op", whats \cup {"seal"}), kind, pc)
(* ... and is over in the same step when the service is busy. *)
BeginsOr(kind, pc, a, whats, refused) ==
    IF Busy THEN /\ Free /\ task["op"] = Idle /\ Spend("ops")
                 /\ app' = refused /\ UNCHANGED task
    ELSE Begins(kind, pc, a, whats)

(* A call answers as it should, or fails while failures are left. *)
Answers == left' = left
Fails == Spend("fails")

(* _show_workspace, up to the reading of the chats *)
Present(t, a, kind) ==
    IF a.session /\ ~a.deferred /\ ~a.security
    THEN Sets(t, Capture(Moved(a, "workspace"), t, {"gen", "workspace"}), kind, "show")
    ELSE Ends(t, a)

(* _offer_code_settings, up to the first await of suspend_for_security; *)
(* after the first-run step it goes on outside the lock.                 *)
Offer(from, to, a, kind) ==
    IF /\ a.linux /\ ~a.closing /\ ~a.suspending /\ ~a.background
       /\ a.session /\ a.chats /\ ~a.security
    THEN /\ app' = Capture(Moved([a EXCEPT !.security = TRUE], "workspace"), to, {"epoch", "gen"})
         /\ task' = [task EXCEPT ![from] = Idle, ![to] = [kind |-> kind, pc |-> "flush"]]
    ELSE Ends(from, a)

OfferFlushed ==
    \E t \in {"op", "side"} :
      /\ task[t].kind \in {"settings", "newpin", "cont"} /\ task[t].pc = "flush"
      /\ LET away == [app EXCEPT !.chats = FALSE] IN
         \/ /\ Answers
            /\ Ends(t, IF ~Still(app, t, "gen") THEN app
                       ELSE IF ~Still(app, t, "epoch") THEN away
                       ELSE Replace(NewView(ClearSecret(away), "codepin"), "codepin"))
         \/ /\ Fails
            /\ Ends(t, IF Still(app, t, "gen") THEN [app EXCEPT !.security = FALSE] ELSE app)

(* The newest request shows the chats; a read that fails, and reading      *)
(* closed data does, closes the session.                                   *)
WorkspaceShown ==
    \E t \in {"op", "side"}, ok \in BOOLEAN :
      /\ task[t].pc = "show"
      /\ IF ok THEN Answers ELSE Fails
      /\ LET a == IF ~Still(app, t, "gen") THEN app
                  ELSE IF ~ok \/ ~app.open THEN ShowError([app EXCEPT !.loose = app.open])
                  ELSE IF Still(app, t, "workspace") THEN [app EXCEPT !.chats = TRUE, !.page = "chats"]
                  ELSE app
         IN  CASE task[t].kind = "newpin" -> Offer("op", "op", a, "newpin")
               [] task[t].kind = "cont" -> Offer("op", "side", Forget(a, "op"), "cont")
               [] OTHER -> Ends(t, a)

(* resume_after_security *)
Resume(t, a, kind) ==
    IF a.session /\ a.security THEN Present(t, [a EXCEPT !.security = FALSE], kind) ELSE Ends(t, a)

(* _resume_protection_setup, in the step that released the lock *)
ResumeSetup(a) ==
    IF ~a.onboarding \/ a.handled \/ a.suspending \/ a.background \/ a.closing \/ ~(a.session /\ a.open)
    THEN Ends("op", a)
    ELSE \/ Ends("op", ShowStep(a))
         \/ Sets("op", Capture(Forget(a, "op"), "op", {"epoch", "seal"}), "resume", "prefs")

(* A result that authenticated opens the session, on the step or the chats. *)
Enter(a, onboarding, kind) ==
    IF onboarding THEN ResumeSetup(ActivateStep(a)) ELSE Present("op", ActivatePresent(a), kind)

Onboarding(a) == a.onboarding /\ ~a.handled

-----------------------------------------------------------------------------
(* start, and the key of a new or of a replaced registration.              *)

Start == app.page = "error" /\ BeginsOr("start", "ask", app, {"epoch"}, ShowError(app))

InitializeAnswers(after) ==
    \/ Answers /\ after = IF app.registered THEN "pin" ELSE "setup"
    \/ Fails /\ after = "error"

StartAnswer ==
    /\ At("op", "start", "ask")
    /\ \E r \in {"pin", "setup", "error"} :
         /\ InitializeAnswers(r)
         /\ Ends("op", IF Still(app, "op", "epoch") THEN Route(app, r) ELSE app)

SubmitKey ==
    /\ "key" \in app.views
    /\ BeginsOr("key", "check", CancelPending(app), {"key", "auth"}, app)

KeyRefused == IF Still(app, "op", "key") THEN app ELSE CancelPending(app)
KeyAnswer ==
    /\ At("op", "key", "check")
    /\ \/ /\ ~Still(app, "op", "auth") \/ ~Still(app, "op", "key")
          /\ Answers /\ Ends("op", KeyRefused)
       \/ /\ Still(app, "op", "auth") /\ Still(app, "op", "key")
          /\ \/ Fails /\ Ends("op", KeyRefused)
             \/ /\ Answers
                /\ IF app.replacing THEN Sets("op", app, "key", "save")
                   ELSE Ends("op", IF app.registered THEN ShowPin(app)
                                   ELSE ShowSetup([app EXCEPT !.pending = TRUE]))

(* replace_api_key was awaited; finish_key_replacement reopens the data. *)
KeySaved ==
    /\ At("op", "key", "save")
    /\ \/ Fails /\ Ends("op", KeyRefused)
       \/ /\ Answers
          /\ LET a == [app EXCEPT !.replacing = FALSE, !.open = TRUE] IN
             IF ~Still(app, "op", "auth") \/ ~app.replacing THEN Ends("op", KeyRefused)
             ELSE IF Still(a, "op", "key") THEN Enter(a, FALSE, "key")
             ELSE Ends("op", CancelPending(a))

CancelSetup ==
    /\ "setup" \in app.views /\ app.token = "setup"
    /\ Free /\ task["op"] = Idle /\ Spend("ops")
    /\ app' = ShowKey(CancelPending(app)) /\ UNCHANGED task

ConfirmSetup ==
    /\ "setup" \in app.views /\ app.token = "setup"
    /\ IF app.linux THEN Begins("setup", "prefs", app, {"setup"})
       ELSE BeginsOr("setup", "hash", app, {"setup", "auth"}, ShowKey(app))

SetupPrefs ==
    /\ At("op", "setup", "prefs")
    /\ \/ Fails /\ Ends("op", app)
       \/ /\ Answers
          /\ LET a == [app EXCEPT !.onboarding = TRUE] IN
             IF ~Still(a, "op", "setup") THEN Ends("op", a)
             ELSE IF Busy THEN Ends("op", ShowKey(a))
             ELSE Sets("op", Capture(a, "op", {"auth"}), "setup", "hash")

(* complete_setup has failed or expired: its finally drops the pending key. *)
SetupRefused(a) ==
    Ends("op", IF Still(a, "op", "setup") THEN ShowKey(CancelPending(a)) ELSE CancelPending(a))

SetupHashed ==
    /\ At("op", "setup", "hash") /\ Answers
    /\ IF app.pending /\ Still(app, "op", "auth") THEN Sets("op", app, "setup", "store")
       ELSE SetupRefused(app)

(* Once begun, both halves of the registration are written or undone. *)
SetupStored ==
    /\ At("op", "setup", "store")
    /\ \/ Fails /\ SetupRefused(app)
       \/ /\ Answers
          /\ LET a == [app EXCEPT !.registered = TRUE] IN
             IF Still(a, "op", "auth") THEN Sets("op", a, "setup", "unlock")
             ELSE SetupRefused(a)

SetupUnlocked ==
    /\ At("op", "setup", "unlock")
    /\ \/ Fails /\ SetupRefused(app)
       \/ /\ Answers
          /\ LET a == [CancelPending(app) EXCEPT !.open = TRUE] IN
             IF ~Still(app, "op", "auth") THEN SetupRefused(LockAccess(app))
             ELSE IF Still(a, "op", "setup") THEN Enter(a, app.linux, "setup")
             ELSE Ends("op", a)

-----------------------------------------------------------------------------
(* The PIN.  _login_checked reads and verifies before the generation of    *)
(* the data is captured; a failure locks the data.                         *)

SubmitPin ==
    /\ "pin" \in app.views
    /\ BeginsOr("login", IF Onboarding(app) THEN "verify_step" ELSE "verify", app, {"pin"}, app)

LoginVerified ==
    /\ task["op"].kind = "login" /\ task["op"].pc \in {"verify", "verify_step"}
    /\ \/ Fails /\ Ends("op", app)
       \/ /\ Answers
          /\ Sets("op", Capture(app, "op", {"auth"}), "login",
                  IF task["op"].pc = "verify" THEN "unlock" ELSE "unlock_step")

LoginUnlocked ==
    /\ task["op"].kind = "login" /\ task["op"].pc \in {"unlock", "unlock_step"}
    /\ \/ Fails /\ Ends("op", CancelGrant([app EXCEPT !.open = FALSE, !.loose = FALSE]))
       \/ /\ Answers
          /\ IF ~Still(app, "op", "auth")
             THEN Ends("op", CancelGrant([app EXCEPT !.open = FALSE, !.loose = FALSE]))
             ELSE Sets("op", [app EXCEPT !.open = TRUE, !.loose = ~Still(app, "op", "seal")], "login",
                       IF task["op"].pc = "unlock" THEN "read" ELSE "read_step")

LoginRead ==
    /\ task["op"].kind = "login" /\ task["op"].pc \in {"read", "read_step"}
    /\ \/ Fails /\ Ends("op", CancelGrant([app EXCEPT !.open = FALSE, !.loose = FALSE]))
       \/ /\ Answers
          /\ IF Still(app, "op", "pin") THEN Enter(app, task["op"].pc = "read_step", "login")
             ELSE Ends("op", app)

ResumeStored ==
    /\ At("op", "resume", "prefs")
    /\ LET show(a) == Ends("op", IF Still(a, "op", "epoch") /\ a.session /\ a.open
                                 THEN ShowStep(a) ELSE a)
       IN  \/ Fails /\ show(app)
           \/ Answers /\ show([app EXCEPT !.onboarding = FALSE])

ContinueSetup ==
    /\ "step" \in app.views /\ Opened
    /\ Begins("cont", "prefs", app, {"epoch", "step"})

ContinueStored ==
    /\ At("op", "cont", "prefs")
    /\ \E saved \in BOOLEAN :
         /\ IF saved THEN Answers ELSE Fails
         /\ LET a == [app EXCEPT !.onboarding = @ /\ ~saved] IN
            IF Still(a, "op", "epoch") /\ Still(a, "op", "step") /\ Opened
            THEN Present("op", [Drop(a, {"step"}) EXCEPT !.handled = TRUE, !.deferred = FALSE], "cont")
            ELSE Ends("op", a)

-----------------------------------------------------------------------------
(* Recovery: the saved code (Linux) or the confirmation of the system.     *)

EntryFailed(a) == ShowError(Drop(ClearSecret(LockAccess(a)), {"key", "pin", "setup"}))

RequestRecovery ==
    /\ app.linux /\ app.views \cap {"pin", "entry"} # {}
    /\ BeginsOr("entry", "ask", Moved(app, "epoch"), {"epoch"}, EntryFailed(Moved(app, "epoch")))

EntryAnswer ==
    /\ task["op"].kind \in {"entry", "newpin"} /\ task["op"].pc = "ask"
    /\ \/ Answers /\ Ends("op", IF Still(app, "op", "epoch") THEN ShowEntry(app) ELSE app)
       \/ /\ Fails
          /\ Ends("op", IF Still(app, "op", "epoch")
                        THEN EntryFailed(app) ELSE app)

SubmitCode ==
    /\ "entry" \in app.views
    /\ BeginsOr("code", "check", CancelGrant(app), {"epoch", "entry", "auth"}, app)

CodeAnswer ==
    /\ At("op", "code", "check")
    /\ \/ Fails /\ Ends("op", app)
       \/ /\ Answers
          /\ LET a == [app EXCEPT !.grant = TRUE] IN
             Ends("op", IF ~Still(app, "op", "auth") THEN app
                        ELSE IF Still(app, "op", "epoch") /\ Still(app, "op", "entry")
                             THEN ShowNewPin(a, "code") ELSE a)

(* On Linux the first press only explains what the system will ask. *)
RequestSystemRecovery ==
    /\ app.views \cap {"pin", "entry", "sysrec"} # {}
    /\ IF app.linux /\ "sysrec" \notin app.views
       THEN /\ Free /\ task["op"] = Idle /\ Spend("ops")
            /\ app' = ShowRecovery(app) /\ UNCHANGED task
       ELSE LET a == ShowRecovery(Moved(app, "epoch")) IN
            BeginsOr("sysrec", "prepare", CancelGrant(a), {"epoch", "sysrec", "auth"}, a)

PromptShown ==
    /\ At("op", "sysrec", "prepare") /\ Answers
    /\ IF Still(app, "op", "auth") THEN Sets("op", [app EXCEPT !.prompt = "shown"], "sysrec", "prompt")
       ELSE Ends("op", app)

(* The user confirms or refuses the prompt of the system, in his own time. *)
PromptConfirmed ==
    /\ At("op", "sysrec", "prompt") /\ app.prompt = "shown" /\ UNCHANGED left
    /\ LET a == [app EXCEPT !.prompt = "none", !.grant = TRUE] IN
       Ends("op", IF ~Still(app, "op", "auth") THEN [app EXCEPT !.prompt = "none"]
                  ELSE IF Still(app, "op", "epoch") /\ Still(app, "op", "sysrec")
                       THEN ShowNewPin(a, "system") ELSE a)
PromptRefused ==
    /\ At("op", "sysrec", "prompt") /\ app.prompt = "shown" /\ UNCHANGED left
    /\ Ends("op", [app EXCEPT !.prompt = "none"])
PromptCancelled ==
    /\ At("op", "sysrec", "prompt") /\ app.prompt = "cancelled" /\ UNCHANGED left
    /\ Ends("op", [app EXCEPT !.prompt = "none"])

CancelRecovery ==
    /\ app.views \cap {"sysrec", "entry"} # {} \/ app.token = "recovery"
    /\ ~(app.token = "recovery" /\ task["op"] # Idle)
    /\ Spend("ops")
    /\ app' = CancelNative(ShowPin(LockAccess(Moved(app, "epoch"))))
    /\ UNCHANGED task

ConfirmRecovery ==
    /\ "setup" \in app.views /\ app.token = "recovery"
    /\ BeginsOr("newpin", "replace", app, {"epoch", "setup", "auth"},
                IF app.source = "code" THEN EntryFailed(app) ELSE ShowRecovery(app))

(* confirm_recovery without a key: back to the code or to the system. *)
RecoveryRefused(a) ==
    IF ~(Still(a, "op", "epoch") /\ Still(a, "op", "setup")) THEN Ends("op", a)
    ELSE IF a.source = "code" THEN Sets("op", a, "newpin", "ask")
    ELSE Ends("op", ShowRecovery(a))

(* replace_pin consumes the grant; only a fresh one opens the data. *)
PinReplaced ==
    /\ At("op", "newpin", "replace")
    /\ \/ Fails /\ RecoveryRefused(LockAccess(app))
       \/ /\ Answers
          /\ IF Still(app, "op", "auth") /\ app.grant
             THEN Sets("op", [app EXCEPT !.grant = FALSE, !.open = TRUE], "newpin", "read")
             ELSE RecoveryRefused(LockAccess(app))

RecoveryRead ==
    /\ At("op", "newpin", "read")
    /\ \/ Fails /\ RecoveryRefused(LockAccess(app))
       \/ /\ Answers
          /\ IF ~Still(app, "op", "auth") THEN RecoveryRefused(LockAccess(app))
             ELSE IF Still(app, "op", "epoch") /\ Still(app, "op", "setup")
                  THEN Enter(app, FALSE, "newpin") ELSE Ends("op", app)

-----------------------------------------------------------------------------
(* The recovery code, shown from an open session and confirmed there.      *)

RequestCodeSettings ==
    /\ app.linux /\ ChatFree /\ Free /\ task["op"] = Idle /\ Spend("ops")
    /\ Offer("op", "op", Capture(Moved(app, "epoch"), "op", {"seal"}), "settings")

BeginCode ==
    /\ "codepin" \in app.views
    /\ BeginsOr("begincode", "check", CancelGrant(app), {"epoch", "codepin", "auth"}, app)

(* A late answer still holds a fresh secret, which is taken back. *)
UnseenKept(a) == a
Unseen(a) == [a EXCEPT !.issue = FALSE]
CodeIssued ==
    /\ At("op", "begincode", "check")
    /\ \/ Fails /\ Ends("op", app)
       \/ /\ Answers
          /\ LET a == [app EXCEPT !.issue = Still(app, "op", "auth") /\ app.open] IN
             Ends("op", IF ~(Still(a, "op", "epoch") /\ Still(a, "op", "codepin")) THEN Unseen(a)
                        ELSE IF a.issue THEN ShowCode(a) ELSE a)

ConfirmCode ==
    /\ "codeshow" \in app.views
    /\ BeginsOr("confirm", "check", app, {"epoch", "codeshow", "auth"}, app)

CodeConfirmed ==
    /\ At("op", "confirm", "check")
    /\ \/ Fails /\ Ends("op", app)
       \/ /\ Answers
          /\ LET ok == Still(app, "op", "auth") /\ app.open /\ app.issue
                 a == [app EXCEPT !.issue = @ /\ ~ok]
             IN  IF ok /\ Still(a, "op", "epoch") /\ Still(a, "op", "codeshow")
                 THEN Resume("op", ClearSecret(a), "confirm") ELSE Ends("op", a)

(* cancel_recovery_code_settings does not wait for the operation. *)
CancelCode ==
    /\ ~app.closing /\ app.views \cap {"codepin", "codeshow"} # {}
    /\ task["side"] = Idle /\ Spend("ops")
    /\ Resume("side", ClearSecret(Moved(app, "epoch")), "cancel")

-----------------------------------------------------------------------------
(* The replacement of the key, from its dialog.                            *)

RequestReset ==
    /\ ChatFree /\ Free /\ task["op"] = Idle /\ ~app.dialog /\ Spend("ops")
    /\ app' = Capture([app EXCEPT !.dialog = TRUE], "dialog", {"epoch", "gen"})
    /\ UNCHANGED task

CancelReset ==
    /\ app.dialog /\ app' = Forget([app EXCEPT !.dialog = FALSE], "dialog")
    /\ UNCHANGED <<task, left>>

ConfirmReset ==
    /\ app.dialog
    /\ Still(app, "dialog", "epoch") /\ Still(app, "dialog", "gen")
    /\ Begins("reset", "flush", Forget([app EXCEPT !.dialog = FALSE], "dialog"), {"epoch", "gen"})

(* A stale context, or an operation in progress, only closes the dialog. *)
(* reset_authentication keeps the key of the data for the new API key. *)
ResetFlushed ==
    /\ At("op", "reset", "flush")
    /\ \/ Fails /\ Ends("op", app)
       \/ /\ Answers
          /\ Ends("op",
                 IF ~(Still(app, "op", "epoch") /\ Still(app, "op", "gen") /\ app.session) THEN app
                 ELSE LET a == CancelPending(Replace(Deactivate(app), "blank")) IN
                      IF a.open
                      THEN ShowKey([CancelGrant(a) EXCEPT !.open = FALSE, !.replacing = TRUE])
                      ELSE ShowError(a))

-----------------------------------------------------------------------------
(* The manual lock.                                                        *)

(* _handle_chat_lock, up to the time of the PIN it asks for *)
AskLock(a, pc) == Sets("lock", Capture(LockAccess(Forget(a, "lock")), "lock", {"epoch", "gen"}), "lock", pc)

ManualLock ==
    /\ app.session /\ app.chats /\ task["lock"] = Idle /\ Spend("ops")
    /\ AskLock(Deactivate([app EXCEPT !.open = FALSE]), "ask")

LockAsked ==
    /\ Busy /\ ~AuthCall
    /\ \E ok \in BOOLEAN :
         /\ IF ok THEN Answers ELSE Fails
         /\ LET a == IF app.closing \/ ~Still(app, "lock", "epoch") \/ ~Still(app, "lock", "gen")
                     THEN app ELSE IF ok THEN ShowPin(app) ELSE ShowError(app)
            IN  IF task["lock"].pc = "ask_again" THEN Ends("lock", a)
                ELSE Sets("lock", Capture(Forget(a, "lock"), "lock", {"gen"}), "lock", "flush")

LockFlushed ==
    /\ task["lock"].pc = "flush"
    /\ \/ Answers /\ Ends("lock", app)
       \/ /\ Fails
          /\ IF Still(app, "lock", "gen") /\ ~app.session
             THEN AskLock([app EXCEPT !.relocked = task["op"].kind = "login"], "ask_again")
             ELSE Ends("lock", app)

-----------------------------------------------------------------------------
(* The seal.                                                               *)

Seals(a) ==
    LET recovery == a.views \cap {"sysrec"} # {} \/ a.token = "recovery" IN
    Sets("seal", Capture(Forget(BeginSeal(a), "dialog"), "seal", {"epoch"}), "seal",
         IF recovery THEN "cancel" ELSE "flush")

(* The desktop locks or sleeps, or the language changes over a secret. *)
SystemLock ==
    /\ ~app.closing /\ ~app.suspending
    /\ \/ app.linux
       \/ app.token = "recovery" \/ app.views \cap {"entry", "codepin", "codeshow"} # {}
       \/ "sysrec" \in app.views /\ task["op"] # Idle
    /\ Spend("seals") /\ Seals(app)

Hide ==
    /\ ~app.linux /\ ~app.closing /\ ~app.background /\ ~app.suspending
    /\ Spend("seals") /\ Seals([app EXCEPT !.background = TRUE])

BackToFront ==
    /\ app.background /\ ~app.closing
    /\ app' = [app EXCEPT !.background = FALSE] /\ UNCHANGED <<task, left>>

SealCancels ==
    /\ task["seal"].pc = "cancel" /\ UNCHANGED left
    /\ Sets("seal", CancelNative(app), "seal", "flush")

SealOver(route) ==
    LET a == IF app.closing \/ ~Still(app, "seal", "epoch") THEN app ELSE Route(app, route)
    IN  Forget([a EXCEPT !.suspending = a.closing], "seal")

(* The drafts are saved or not; then the seal waits for the lock. *)
SealFlushed ==
    /\ task["seal"].pc = "flush" /\ task["op"] = Idle /\ UNCHANGED left
    /\ IF Busy
       THEN app' = SealOver("error") /\ task' = [task EXCEPT !["seal"] = Idle]
       ELSE /\ app' = app
            /\ task' = [task EXCEPT !["seal"].pc = "init", !["op"] = [kind |-> "seal", pc |-> "hold"]]

SealInitialized ==
    /\ task["seal"].pc = "init"
    /\ \E r \in {"pin", "setup", "error"} :
         /\ InitializeAnswers(r)
         /\ app' = SealOver(r)
    /\ task' = [task EXCEPT !["seal"] = Idle, !["op"] = Idle]

(* prepare_close: the same revocation, for good. *)
Close ==
    /\ ~app.closing /\ Spend("seals")
    /\ LET a == Forget(BeginSeal(app), "dialog") IN
       app' = [a EXCEPT !.closing = TRUE, !.background = TRUE]
    /\ UNCHANGED task
-----------------------------------------------------------------------------
(* What the program does by itself, and what the user and the desktop do.  *)

OpMoves ==
    \/ StartAnswer \/ KeyAnswer \/ KeySaved
    \/ SetupPrefs \/ SetupHashed \/ SetupStored \/ SetupUnlocked
    \/ LoginVerified \/ LoginUnlocked \/ LoginRead
    \/ ResumeStored \/ ContinueStored
    \/ EntryAnswer \/ CodeAnswer \/ PromptShown \/ PromptCancelled
    \/ PinReplaced \/ RecoveryRead \/ CodeIssued \/ CodeConfirmed \/ ResetFlushed
    \/ OfferFlushed \/ WorkspaceShown
SealMoves == SealCancels \/ SealFlushed \/ SealInitialized
LockMoves == LockAsked \/ LockFlushed

UserMoves ==
    \/ Start \/ SubmitKey \/ CancelSetup \/ ConfirmSetup \/ SubmitPin \/ ContinueSetup
    \/ RequestRecovery \/ SubmitCode \/ RequestSystemRecovery
    \/ PromptConfirmed \/ PromptRefused \/ CancelRecovery \/ ConfirmRecovery
    \/ RequestCodeSettings \/ BeginCode \/ ConfirmCode \/ CancelCode
    \/ RequestReset \/ CancelReset \/ ConfirmReset \/ ManualLock

Next ==
    \/ OpMoves \/ SealMoves \/ LockMoves \/ UserMoves
    \/ SystemLock \/ Hide \/ BackToFront \/ Close

Spec == Init /\ [][Next]_vars

(* The event loop runs what can run; nobody has to answer the prompt.      *)
Waiting == At("op", "sysrec", "prompt") /\ app.prompt = "shown"
Running == (task["op"] # Idle /\ task["op"].pc # "hold" /\ ~Waiting) \/ task["side"] # Idle
SealRunning == task["seal"] # Idle /\ (task["seal"].pc = "flush" => task["op"] = Idle)
Fairness ==
    /\ []<>~Running \/ []<><<OpMoves>>_vars
    /\ []<>~SealRunning \/ []<><<SealMoves>>_vars
    /\ []<>(task["lock"] = Idle \/ AuthCall) \/ []<><<LockMoves>>_vars
FairSpec == Spec /\ Fairness

-----------------------------------------------------------------------------
(* Properties.                                                             *)

Kinds == {"none", "start", "key", "setup", "login", "resume", "cont", "entry", "code", "sysrec",
          "newpin", "settings", "begincode", "confirm", "cancel", "reset", "lock", "seal"}

TypeOK ==
    /\ app.page \in Pages /\ app.views \subseteq Views
    /\ app.token \in {"none", "setup", "recovery"} /\ app.prompt \in {"none", "shown", "cancelled"}
    /\ app.fresh \subseteq (Tasks \cup {"dialog"}) \X
                            (Views \cup {"epoch", "gen", "auth", "workspace", "seal"})
    /\ \A t \in Tasks : task[t].kind \in Kinds
    /\ left \in [{"ops", "seals", "fails"} -> Nat]

Quiet == ~app.closing /\ \A t \in Tasks : task[t] = Idle
Old(t) == task[t] \notin {Idle, [kind |-> "seal", pc |-> "hold"]} /\ ~Still(app, t, "seal")

(* An operation that was suspended when the desktop locked (or the app was *)
(* hidden or closed) changes neither the page nor the session when it goes *)
(* on, whatever its answer: only the seal decides what is shown next.      *)
OldStaysQuiet ==
    [][Old("op") /\ task'["op"] # task["op"] =>
          app'.page = app.page /\ app'.session = app.session /\ app'.views = app.views]_vars

(* Whenever nothing is in progress, the page shown is one the user can go  *)
(* on from: its view is the controller's current one, and the chats are    *)
(* shown exactly in an open session.  Set apart ("relocked"): the drafts   *)
(* of a manual lock cannot be saved and it locks again over a new login.   *)
PageUsable ==
    Quiet /\ ~app.relocked =>
      /\ app.page # "blank"
      /\ app.page = "newpin" => "setup" \in app.views /\ app.token = "recovery" /\ app.grant
      /\ app.page = "setup" => "setup" \in app.views /\ app.token = "setup" /\ app.pending
      /\ app.page \in Views \ {"setup"} => app.page \in app.views
      /\ app.page = "chats" <=> ChatFree
      /\ app.session => app.page \in {"chats", "step", "codepin", "codeshow"} /\ app.open

(* A right that was not used yet (a recovery grant, an issued code, a      *)
(* validated key) lives only while the screen that uses or cancels it is   *)
(* the current one.                                                        *)
SecretsHaveScreens ==
    task["op"] = Idle =>
      /\ app.grant => app.token = "recovery"
      /\ app.issue => "codeshow" \in app.views
      /\ app.pending => app.token = "setup"
      /\ app.replacing => "key" \in app.views

(* When nothing is in progress, the data are open only for a session.  Two *)
(* cases of the code are set apart ("loose"): a login whose check was      *)
(* overtaken by a seal, and a session closed because the chats could not   *)
(* be read, which leaves the access open behind the page of the error.     *)
OpenForSession == Quiet /\ app.open => app.session \/ app.loose

(* Page, session, access and unused rights belong together at rest.         *)
RoutesSound == TypeOK /\ PageUsable /\ SecretsHaveScreens /\ OpenForSession

(* An operation begun before a seal never opens the data after it.         *)
OldNeverOpens == [][Old("op") /\ app'.open => app.open]_vars

(* A seal always ends, also when the user leaves a prompt of the system    *)
(* unanswered; until then every operation is refused.                      *)
SealEnds == app.suspending ~> (~app.suspending \/ app.closing)
=============================================================================
