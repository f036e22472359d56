-------------------------- MODULE AppRoutesInvariant --------------------------
(***************************************************************************)
(* The inductive invariant of AppRoutes, what the code between two awaits  *)
(* does to the application, and the steps of the operations before and at  *)
(* the PIN.                                                                *)
(*                                                                         *)
(* The invariant says for every coroutine where it may be suspended and    *)
(* which of its captures are still current there.  That decides which page *)
(* the application may be on: at rest it is the page of a current view, or *)
(* the chats of an open session, and on the way it is the page of the      *)
(* coroutine that is about to replace it.                                  *)
(*                                                                         *)
(* The actions of AppRoutes are compositions of a few dozen updates of the *)
(* application.  The effect of each is a lemma (<Update>Is), and a step is *)
(* one lemma (<Step>Safe) for every composition and move of the coroutines *)
(* that some action makes: first the composed effect, field by field, then *)
(* the parts of the invariant.                                             *)
(***************************************************************************)
EXTENDS AppRoutes, TLAPS

-----------------------------------------------------------------------------
(* The inductive invariant.                                                *)

\* What a coroutine may have captured: a view, the epoch of the controller,
\* the generation of the session or of the access, the workspace on show, the
\* seal.
Whats == Views \cup {"epoch", "gen", "auth", "workspace", "seal"}
\* Who captures: a coroutine or the dialog of the reset.
Holders == Tasks \cup {"dialog"}
\* The records app ranges over.
Apps ==
    [linux : BOOLEAN, registered : BOOLEAN, onboarding : BOOLEAN, handled : BOOLEAN,
     suspending : BOOLEAN, background : BOOLEAN, closing : BOOLEAN,
     page : Pages, views : SUBSET Views, token : {"none", "setup", "recovery"},
     source : {"system", "code"}, dialog : BOOLEAN,
     session : BOOLEAN, security : BOOLEAN, deferred : BOOLEAN, chats : BOOLEAN,
     open : BOOLEAN, loose : BOOLEAN, relocked : BOOLEAN, pending : BOOLEAN,
     replacing : BOOLEAN, grant : BOOLEAN, issue : BOOLEAN,
     prompt : {"none", "shown", "cancelled"}, fresh : SUBSET (Holders \X Whats)]
\* The awaits a coroutine may be suspended in.
Pcs == {"idle", "ask", "ask_again", "check", "save", "prefs", "hash", "store", "unlock",
        "verify", "verify_step", "unlock_step", "read", "read_step", "flush", "show",
        "prepare", "prompt", "replace", "hold", "init", "cancel"}
\* The functions task ranges over.
Taskings == [Tasks -> [kind : Kinds, pc : Pcs]]
\* What may be left of a budget.
Lefts == [{"ops", "seals", "fails"} -> Nat]
\* The types.
RoutesType == app \in Apps /\ task \in Taskings /\ left \in Lefts

(* Where each coroutine may stand. *)
In(t, kind, pcs) == task[t].kind = kind /\ task[t].pc \in pcs
\* The operation is one of a kind, suspended in one of some awaits.
Op(kind, pcs) == In("op", kind, pcs)
\* A coroutine that is not running.
Rests(t) == In(t, "none", {"idle"})
\* Which awaits each kind of coroutine has.
InOrder ==
    /\ \/ Op("none", {"idle"}) \/ Op("start", {"ask"}) \/ Op("key", {"check", "save", "show"})
       \/ Op("setup", {"prefs", "hash", "store", "unlock", "show"})
       \/ Op("login", {"verify", "verify_step", "unlock", "unlock_step", "read", "read_step", "show"})
       \/ Op("resume", {"prefs"}) \/ Op("cont", {"prefs", "show"}) \/ Op("entry", {"ask"})
       \/ Op("code", {"check"}) \/ Op("sysrec", {"prepare", "prompt"})
       \/ Op("newpin", {"replace", "read", "ask", "show", "flush"}) \/ Op("settings", {"flush"})
       \/ Op("begincode", {"check"}) \/ Op("confirm", {"check", "show"}) \/ Op("reset", {"flush"})
       \/ Op("seal", {"hold"})
    /\ In("side", "none", {"idle"}) \/ In("side", "cont", {"flush"}) \/ In("side", "cancel", {"show"})
    /\ In("lock", "none", {"idle"}) \/ In("lock", "lock", {"ask", "ask_again", "flush"})
    /\ In("seal", "none", {"idle"}) \/ In("seal", "seal", {"cancel", "flush", "init"})

\* No view is current.
NoView == \A v \in Views : v \notin app.views

(* One view is current at most, and a token belongs to the view of a new PIN. *)
OneView ==
    /\ \A v, x \in app.views : v = x
    /\ "setup" \in app.views <=> app.token # "none"

(* A captured view is current; who is not at work holds nothing. *)
HeldViews == \A t \in Holders, v \in Views : Still(app, t, v) => v \in app.views
\* Who is not at work holds nothing.
HeldAtWork ==
    \A t \in Tasks, x \in Whats :
        Rests(t) \/ In(t, "seal", {"hold"}) => ~Still(app, t, x)
(* What a seal has overtaken holds nothing but, later, a new access. *)
OldHoldNothing ==
    ~Rests("op") /\ ~Op("seal", {"hold"}) /\ ~Still(app, "op", "seal") =>
        \A x \in Whats \ {"auth"} : ~Still(app, "op", x)

(* The session: its flags, its screens and those before it. *)
SessionFlags ==
    /\ app.session => (app.open \/ app.relocked)
    /\ (app.chats \/ app.security \/ app.deferred) => app.session
    /\ app.deferred => (~app.security /\ ~app.chats)
\* Which views go with a session.
SessionViews ==
    /\ app.session => \A v \in {"key", "pin", "setup", "sysrec", "entry"} : v \notin app.views
    /\ "step" \in app.views => app.session /\ app.deferred
    /\ ("codepin" \in app.views \/ "codeshow" \in app.views) => app.session /\ app.security /\ ~app.chats

(* Who holds the generation of the session. *)
Generations ==
    /\ \A t \in {"op", "side", "dialog"} : Still(app, t, "gen") => app.session
    /\ Busy /\ Still(app, "lock", "gen") => ~app.session
    /\ ~(Still(app, "op", "gen") /\ Still(app, "side", "gen"))
    /\ Still(app, "op", "gen") => task["op"].pc \in {"show", "flush"}
    /\ app.session /\ task["op"].pc = "show" => Still(app, "op", "gen")
    /\ Still(app, "dialog", "gen") /\ Still(app, "dialog", "epoch") => app.chats /\ ~app.security
\* A coroutine about to show the chats, for the session it left them in.
Shows(t) == task[t].pc = "show" /\ Still(app, t, "gen")
\* A coroutine about to leave the chats for the offer of a recovery code.
Offers(t) == task[t].pc = "flush" /\ task[t].kind # "reset" /\ Still(app, t, "gen")
\* Such a coroutine holds the workspace or the epoch it compares.
Handovers ==
    /\ \A t \in {"op", "side"} :
         /\ Shows(t) => Still(app, t, "workspace") /\ ~app.chats /\ ~app.security /\ ~app.deferred
         /\ Offers(t) => Still(app, t, "epoch") /\ app.chats /\ app.security
    /\ Op("reset", {"flush"}) /\ Still(app, "op", "gen") => app.chats /\ ~app.security

(* What an open session shows, or which coroutine is about to show it. *)
Resuming == Op("resume", {"prefs"}) /\ Still(app, "op", "epoch")
\* An open session has its screen, or a coroutine on the way to it.
SessionShown ==
    app.session =>
      \/ /\ app.deferred /\ app.open
         /\ ("step" \in app.views /\ app.page = "step") \/ Resuming
      \/ app.deferred /\ ~app.open /\ "step" \notin app.views
      \/ app.security /\ app.chats /\ app.page = "chats" /\ (Offers("op") \/ Offers("side"))
      \/ /\ app.security /\ ~app.chats
         /\ app.page \in {"codepin", "codeshow"} /\ app.page \in app.views
      \/ ~app.deferred /\ ~app.security /\ app.chats /\ app.page = "chats"
      \/ ~app.deferred /\ ~app.security /\ ~app.chats /\ (Shows("op") \/ Shows("side"))

(* The seal. *)
Sealing ==
    /\ ~Rests("seal") => app.suspending
    /\ app.suspending /\ ~app.closing => ~Rests("seal") /\ Still(app, "seal", "epoch")
    /\ task["seal"].pc = "init" <=> task["op"].pc = "hold"
    /\ app.closing => app.suspending /\ app.background
\* While a seal is in progress no session, no view and no capture is left.
Sealed ==
    app.suspending =>
      /\ app.page \in {"blank", "pin", "error"} /\ ~app.session /\ app.views \subseteq {"pin"}
      /\ \A t \in Holders : ~Still(app, t, "seal")
      /\ ~Still(app, "op", "pin") /\ ~Still(app, "op", "epoch") /\ ~Still(app, "side", "epoch")

(* What an operation still holds until a seal overtakes it. *)
Locking == Busy /\ Still(app, "lock", "gen") /\ Still(app, "lock", "epoch")
\* What an operation must still hold when no seal overtook it.
OpHolds ==
    ~app.suspending =>
      /\ Op("key", {"check", "save"}) => Still(app, "op", "key")
      /\ Op("setup", {"hash", "store", "unlock"}) => Still(app, "op", "setup")
      /\ Op("login", Pcs \ {"show"}) => Still(app, "op", "pin")
      /\ Op("newpin", {"replace", "read", "ask"}) =>
            Still(app, "op", "epoch") /\ Still(app, "op", "setup")
      /\ Resuming => app.session /\ app.deferred /\ app.open /\ NoView
      /\ Op("entry", {"ask"}) /\ Still(app, "op", "epoch") =>
            "pin" \in app.views \/ "entry" \in app.views
      /\ Op("start", {"ask"}) =>
            /\ app.session => app.deferred /\ ~app.open
            /\ app.page \in (IF Still(app, "op", "epoch") THEN {"blank", "error"} ELSE {"pin"})
(* Who holds the access holds the screen from which it was asked for. *)
OpAuth ==
    Still(app, "op", "auth") /\ task["op"].pc \notin {"show", "flush"} =>
      /\ Op("key", Pcs) => Still(app, "op", "key")
      /\ Op("setup", Pcs) => Still(app, "op", "setup")
      /\ Op("code", Pcs) => Still(app, "op", "entry") /\ Still(app, "op", "epoch")
      /\ Op("sysrec", Pcs) => Still(app, "op", "sysrec") /\ Still(app, "op", "epoch")
      /\ Op("newpin", Pcs) => Still(app, "op", "setup") /\ Still(app, "op", "epoch")
      /\ task["op"].kind \in {"key", "setup", "login", "code", "sysrec", "newpin", "begincode", "confirm"}
      /\ task["op"].pc \notin {"verify", "verify_step"}
      /\ Busy => task["op"].kind = "login"
\* A view is held only by an operation of the foreground.
OpFront == (\E v \in Views : Still(app, "op", v)) => ~app.background

(* A right lives with its screen, and not while the manual lock asks. *)
Rights ==
    /\ app.grant => app.token = "recovery" /\ ~Busy
    /\ app.issue => "codeshow" \in app.views
    /\ app.pending => app.token = "setup" /\ ~Busy
    /\ app.replacing => "key" \in app.views /\ ~Locking
    /\ task["op"].pc \in {"ask", "read"} => ~app.grant

(* Why the data are open. *)
Entering ==
    \/ Op("login", {"read", "read_step"}) /\ Still(app, "op", "pin")
    \/ Op("newpin", {"read"}) /\ Still(app, "op", "auth")
\* Open data belong to a session, to a login in progress, or are a case set
\* apart.
OpenIs == app.open => app.session \/ app.loose \/ Entering
\* A login about to enter a session has opened the data.
EntersOpen == Entering => app.open \/ (app.relocked /\ Op("login", Pcs))

(* The registration and the first-run step. *)
Registered ==
    /\ app.token = "setup" => ~app.registered \/ Op("setup", {"unlock"})
    /\ Op("setup", {"unlock"}) => app.registered
    /\ ~app.registered =>
         /\ ~app.session /\ ~app.handled /\ ~app.replacing /\ app.token # "recovery"
         /\ app.views \subseteq {"key", "setup"} /\ Rests("lock")
         /\ task["op"].kind \in {"none", "start", "key", "setup", "seal"}
\* The setup of the PIN and the first-run step.
FirstRun ==
    /\ Op("setup", Pcs \ {"show"}) /\ Still(app, "op", "setup") => app.token = "setup"
    /\ Op("newpin", Pcs) /\ Still(app, "op", "setup") => app.token = "recovery"
    /\ Op("setup", {"hash", "store", "unlock"}) => ~app.handled /\ (app.linux => app.onboarding)
    /\ Op("login", {"verify_step", "unlock_step", "read_step"}) => Onboarding(app)

(* What every page rests on. *)
Moving ==
    \/ app.session /\ (Shows("op") \/ Resuming)
    \/ app.session /\ app.deferred /\ ~app.open
\* No right is waiting to be used.
NoRights == ~app.grant /\ ~app.pending /\ ~app.replacing /\ ~app.issue
\* What each page rests on, unless a seal is in progress.
PageIs ==
    ~app.suspending =>
      /\ app.page = "blank" => Op("start", {"ask"}) /\ ~app.session /\ NoRights /\ NoView
      /\ app.page = "newpin" =>
           \/ Moving
           \/ app.token = "recovery" /\ (app.grant \/ Locking \/ Op("newpin", {"replace", "read", "ask"}))
      /\ app.page = "setup" =>
           \/ Moving
           \/ app.token = "setup" /\ (app.pending \/ Locking \/ Op("setup", {"hash", "store", "unlock"}))
      /\ app.page \in {"codepin", "codeshow"} => app.page \in app.views \/ Moving \/ Shows("side")
      /\ app.page \in {"key", "pin", "sysrec", "entry", "step"} => app.page \in app.views \/ Moving
      /\ app.page = "error" => (app.session => Moving) /\ NoRights
      /\ app.page = "chats" => app.session \/ Locking

\* The inductive invariant.
RoutesInv ==
    /\ RoutesType /\ InOrder /\ OneView /\ HeldViews /\ HeldAtWork /\ OldHoldNothing
    /\ SessionFlags /\ SessionViews /\ Generations /\ Handovers /\ SessionShown
    /\ Sealing /\ Sealed /\ OpHolds /\ OpAuth /\ OpFront /\ Rights /\ OpenIs /\ EntersOpen
    /\ Registered /\ FirstRun /\ PageIs

-----------------------------------------------------------------------------
(* The updates of the application and their effects.                       *)

\* A validated key waits for its PIN.
Pends(a) == [a EXCEPT !.pending = TRUE]
\* The replaced key is saved: the right is used and the data are open.
Reopens(a) == [a EXCEPT !.replacing = FALSE, !.open = TRUE]
\* The first-run flag is stored.
Onboards(a) == [a EXCEPT !.onboarding = TRUE]
\* The first-run flag is cleared.
Onboarded(a) == [a EXCEPT !.onboarding = FALSE]
\* The installation is registered.
Registers(a) == [a EXCEPT !.registered = TRUE]
\* The access is opened.
Opens(a) == [a EXCEPT !.open = TRUE]
\* The access is closed, and with it the case set apart.
Shuts(a) == [a EXCEPT !.open = FALSE, !.loose = FALSE]
\* A login opens the access, also when a seal overtook its check.
OpensLogin(a) == [a EXCEPT !.open = TRUE, !.loose = ~Still(a, "op", "seal")]
\* The first-run step is behind the user.
Handles(a) == [a EXCEPT !.handled = TRUE, !.deferred = FALSE]
\* The recovery is granted.
Grants(a) == [a EXCEPT !.grant = TRUE]
\* The prompt of the system is shown.
PromptUp(a) == [a EXCEPT !.prompt = "shown"]
\* The prompt of the system is over.
PromptDown(a) == [a EXCEPT !.prompt = "none"]
\* The prompt of the system is over and the recovery granted.
PromptGives(a) == [a EXCEPT !.prompt = "none", !.grant = TRUE]
\* The grant of a recovery is used up and opens the access.
GrantUsed(a) == [a EXCEPT !.grant = FALSE, !.open = TRUE]
\* The chats give way to the security screens.
Secures(a) == [a EXCEPT !.security = TRUE]
\* The security screens are left.
Unsecures(a) == [a EXCEPT !.security = FALSE]
\* A recovery code is issued, if the access asked for it is the current one.
Issues(a) == [a EXCEPT !.issue = Still(a, "op", "auth") /\ a.open]
\* The issued code is withdrawn.
Unissues(a) == [a EXCEPT !.issue = FALSE]
\* The issued code is confirmed, if the access is the current one.
Consumes(a) == [a EXCEPT !.issue = a.issue /\ ~(Still(a, "op", "auth") /\ a.open /\ a.issue)]
\* The dialog of the reset is shown.
DialogUp(a) == [a EXCEPT !.dialog = TRUE]
\* The dialog of the reset is gone.
DialogDown(a) == [a EXCEPT !.dialog = FALSE]
\* The access is closed and a new key asked for.
Replaces(a) == [a EXCEPT !.open = FALSE, !.replacing = TRUE]
\* The chats are taken from the page.
ChatsAway(a) == [a EXCEPT !.chats = FALSE]
\* The chats are put on the page.
ChatsUp(a) == [a EXCEPT !.chats = TRUE, !.page = "chats"]
\* A session ends before its access.
Loosens(a) == [a EXCEPT !.loose = a.open]
\* The access is closed.
Shut(a) == [a EXCEPT !.open = FALSE]
\* A manual lock that goes on over a login.
Relocks(a) == [a EXCEPT !.relocked = task["op"].kind = "login"]
\* The application is hidden.
Backs(a) == [a EXCEPT !.background = TRUE]
\* The application is back in front.
Fronts(a) == [a EXCEPT !.background = FALSE]
\* A seal that was overtaken ends.
SealEnded(a) == [a EXCEPT !.suspending = a.closing]
\* A seal ends.
Unseals(a) == [a EXCEPT !.suspending = FALSE]
\* The application closes.
ClosesForGood(a) == [a EXCEPT !.closing = TRUE, !.background = TRUE]
\* Two states of the application agree on every field but those of F and the
\* captures.
Kept(b, a, F) ==
    /\ "linux" \in F \/ b.linux = a.linux
    /\ "registered" \in F \/ b.registered = a.registered
    /\ "onboarding" \in F \/ b.onboarding = a.onboarding
    /\ "handled" \in F \/ b.handled = a.handled
    /\ "suspending" \in F \/ b.suspending = a.suspending
    /\ "background" \in F \/ b.background = a.background
    /\ "closing" \in F \/ b.closing = a.closing
    /\ "page" \in F \/ b.page = a.page
    /\ "views" \in F \/ b.views = a.views
    /\ "token" \in F \/ b.token = a.token
    /\ "source" \in F \/ b.source = a.source
    /\ "dialog" \in F \/ b.dialog = a.dialog
    /\ "session" \in F \/ b.session = a.session
    /\ "security" \in F \/ b.security = a.security
    /\ "deferred" \in F \/ b.deferred = a.deferred
    /\ "chats" \in F \/ b.chats = a.chats
    /\ "open" \in F \/ b.open = a.open
    /\ "loose" \in F \/ b.loose = a.loose
    /\ "relocked" \in F \/ b.relocked = a.relocked
    /\ "pending" \in F \/ b.pending = a.pending
    /\ "replacing" \in F \/ b.replacing = a.replacing
    /\ "grant" \in F \/ b.grant = a.grant
    /\ "issue" \in F \/ b.issue = a.issue
    /\ "prompt" \in F \/ b.prompt = a.prompt

\* The effect of Moved: what it sets, what it keeps, and which captures
\* outlive it.
LEMMA MovedIs ==
  ASSUME NEW a \in Apps, NEW w
  PROVE  LET b == Moved(a, w) IN
         /\ b \in Apps
         /\ Kept(b, a, {})
         /\ \A t, x : Still(b, t, x) <=> Still(a, t, x) /\ x # w
  BY DEF Moved, Still, Apps, Kept

\* The effect of Forget: what it sets, what it keeps, and which captures
\* outlive it.
LEMMA ForgetIs ==
  ASSUME NEW a \in Apps, NEW w
  PROVE  LET b == Forget(a, w) IN
         /\ b \in Apps
         /\ Kept(b, a, {})
         /\ \A t, x : Still(b, t, x) <=> Still(a, t, x) /\ t # w
  BY DEF Forget, Still, Apps, Kept

\* The effect of Capture: what it sets, what it keeps, and which captures
\* outlive it.
LEMMA CaptureIs ==
  ASSUME NEW a \in Apps, NEW w \in Holders, NEW X \in SUBSET Whats
  PROVE  LET b == Capture(a, w, X) IN
         /\ b \in Apps
         /\ Kept(b, a, {})
         /\ \A t, x : Still(b, t, x) <=> Still(a, t, x) \/ (t = w /\ x \in X)
  BY DEF Capture, Still, Apps, Kept

\* The effect of Drop: what it sets, what it keeps, and which captures outlive
\* it.
LEMMA DropIs ==
  ASSUME NEW a \in Apps, NEW K
  PROVE  LET b == Drop(a, K) IN
         /\ b \in Apps
         /\ Kept(b, a, {"views"})
         /\ b.views = a.views \ K
         /\ \A t, x : Still(b, t, x) <=> Still(a, t, x) /\ x \notin K
  BY DEF Drop, Still, Apps, Kept

\* The effect of Replace: what it sets, what it keeps, and which captures
\* outlive it.
LEMMA ReplaceIs ==
  ASSUME NEW a \in Apps, NEW p \in Pages
  PROVE  LET b == Replace(a, p) IN
         /\ b \in Apps
         /\ Kept(b, a, {"page"})
         /\ b.page = (IF a.closing THEN a.page ELSE p)
         /\ \A t, x : Still(b, t, x) <=> Still(a, t, x)
  BY DEF Replace, Still, Apps, Kept

\* The effect of NewView: what it sets, what it keeps, and which captures
\* outlive it.
LEMMA NewViewIs ==
  ASSUME NEW a \in Apps, NEW k \in Views
  PROVE  LET b == NewView(a, k) IN
         /\ b \in Apps
         /\ Kept(b, a, {"views"})
         /\ b.views = a.views \cup {k}
         /\ \A t, x : Still(b, t, x) <=> Still(a, t, x) /\ x # k
<1> DEFINE b1 == Drop(a, {k})
           b2 == [b1 EXCEPT !.views = b1.views \cup {k}]
<1>0. NewView(a, k) = b2
  BY DEF NewView, Drop
<1> HIDE DEF b1, b2
<1>1. /\ b1 \in Apps /\ Kept(b1, a, {"views"}) /\ b1.views = a.views \ {k}
      /\ \A t, x : Still(b1, t, x) <=> Still(a, t, x) /\ x # k
  BY DropIs DEF b1
<1>2. /\ b2 \in Apps /\ Kept(b2, b1, {"views"}) /\ b2.views = b1.views \cup {k}
      /\ \A t, x : Still(b2, t, x) <=> Still(b1, t, x)
  BY <1>1 DEF b2, Apps, Kept, Still
<1> QED
  BY <1>0, <1>1, <1>2 DEF Kept

\* The effect of Deactivate: what it sets, what it keeps, and which captures
\* outlive it.
LEMMA DeactivateIs ==
  ASSUME NEW a \in Apps
  PROVE  LET b == Deactivate(a) IN
         /\ b \in Apps
         /\ Kept(b, a, {"session", "security", "deferred", "chats"})
         /\ b.session = FALSE /\ b.security = FALSE /\ b.deferred = FALSE /\ b.chats = FALSE
         /\ \A t, x : Still(b, t, x) <=> Still(a, t, x) /\ x \notin {"gen", "workspace"}
<1> DEFINE b1 == Moved(a, "gen")
           b2 == Moved(b1, "workspace")
           b3 == [b2 EXCEPT !.session = FALSE, !.security = FALSE, !.deferred = FALSE, !.chats = FALSE]
<1>0. Deactivate(a) = b3
  BY DEF Deactivate
<1> HIDE DEF b1, b2, b3
<1>1. /\ b1 \in Apps
      /\ Kept(b1, a, {})
      /\ \A t, x : Still(b1, t, x) <=> Still(a, t, x) /\ x # "gen"
  BY MovedIs DEF b1
<1>2. /\ b2 \in Apps
      /\ Kept(b2, b1, {})
      /\ \A t, x : Still(b2, t, x) <=> Still(b1, t, x) /\ x # "workspace"
  BY <1>1, MovedIs DEF b2
<1>3. /\ b3 \in Apps
      /\ Kept(b3, b2, {"session", "security", "deferred", "chats"})
      /\ b3.session = FALSE /\ b3.security = FALSE /\ b3.deferred = FALSE /\ b3.chats = FALSE
      /\ \A t, x : Still(b3, t, x) <=> Still(b2, t, x)
  BY <1>2, ZenonT(60) DEF b3, Apps, Kept, Still
<1>4. Kept(b3, a, {"session", "security", "deferred", "chats"})
  BY <1>1, <1>2, <1>3 DEF Kept
<1>5. /\ b3.session = FALSE /\ b3.security = FALSE /\ b3.deferred = FALSE /\ b3.chats = FALSE
  BY <1>1, <1>2, <1>3 DEF Kept, Views, Apps
<1>6. \A t, x : Still(b3, t, x) <=> Still(a, t, x) /\ x \notin {"gen", "workspace"}
  BY <1>1, <1>2, <1>3 DEF Views
<1> QED
  BY <1>0, <1>3, <1>4, <1>5, <1>6

\* The effect of ClearControls: what it sets, what it keeps, and which
\* captures outlive it.
LEMMA ClearControlsIs ==
  ASSUME NEW a \in Apps
  PROVE  LET b == ClearControls(a) IN
         /\ b \in Apps
         /\ Kept(b, a, {"views", "token"})
         /\ b.views = a.views \ {"step", "entry", "codepin", "codeshow", "sysrec"}
         /\ b.token = "none"
         /\ \A t, x : Still(b, t, x) <=> Still(a, t, x) /\ x \notin {"step", "entry", "codepin", "codeshow", "sysrec"}
<1> DEFINE b1 == Drop(a, {"step", "entry", "codepin", "codeshow", "sysrec"})
           b2 == [b1 EXCEPT !.token = "none"]
<1>0. ClearControls(a) = b2
  BY DEF ClearControls
<1> HIDE DEF b1, b2
<1>1. /\ b1 \in Apps
      /\ Kept(b1, a, {"views"})
      /\ b1.views = a.views \ {"step", "entry", "codepin", "codeshow", "sysrec"}
      /\ \A t, x : Still(b1, t, x) <=> Still(a, t, x) /\ x \notin {"step", "entry", "codepin", "codeshow", "sysrec"}
  BY DropIs DEF b1
<1>2. /\ b2 \in Apps
      /\ Kept(b2, b1, {"token"})
      /\ b2.token = "none"
      /\ \A t, x : Still(b2, t, x) <=> Still(b1, t, x)
  BY <1>1, ZenonT(60) DEF b2, Apps, Kept, Still
<1>3. Kept(b2, a, {"views", "token"})
  BY <1>1, <1>2 DEF Kept
<1>4. /\ b2.views = a.views \ {"step", "entry", "codepin", "codeshow", "sysrec"}
      /\ b2.token = "none"
  BY <1>1, <1>2 DEF Kept, Views, Apps
<1>5. \A t, x : Still(b2, t, x) <=> Still(a, t, x) /\ x \notin {"step", "entry", "codepin", "codeshow", "sysrec"}
  BY <1>1, <1>2 DEF Views
<1> QED
  BY <1>0, <1>2, <1>3, <1>4, <1>5

\* The effect of ClearSecret: what it sets, what it keeps, and which captures
\* outlive it.
LEMMA ClearSecretIs ==
  ASSUME NEW a \in Apps
  PROVE  LET b == ClearSecret(a) IN
         /\ b \in Apps
         /\ Kept(b, a, {"views", "token", "issue"})
         /\ b.views = a.views \ {"step", "entry", "codepin", "codeshow", "sysrec"}
         /\ b.token = "none" /\ b.issue = FALSE
         /\ \A t, x : Still(b, t, x) <=> Still(a, t, x) /\ x \notin {"step", "entry", "codepin", "codeshow", "sysrec"}
<1> DEFINE b1 == ClearControls(a)
           b2 == [b1 EXCEPT !.issue = FALSE]
<1>0. ClearSecret(a) = b2
  BY DEF ClearSecret
<1> HIDE DEF b1, b2
<1>1. /\ b1 \in Apps
      /\ Kept(b1, a, {"views", "token"})
      /\ b1.views = a.views \ {"step", "entry", "codepin", "codeshow", "sysrec"}
      /\ b1.token = "none"
      /\ \A t, x : Still(b1, t, x) <=> Still(a, t, x) /\ x \notin {"step", "entry", "codepin", "codeshow", "sysrec"}
  BY ClearControlsIs DEF b1
<1>2. /\ b2 \in Apps
      /\ Kept(b2, b1, {"issue"})
      /\ b2.issue = FALSE
      /\ \A t, x : Still(b2, t, x) <=> Still(b1, t, x)
  BY <1>1, ZenonT(60) DEF b2, Apps, Kept, Still
<1>3. Kept(b2, a, {"views", "token", "issue"})
  BY <1>1, <1>2 DEF Kept
<1>4. /\ b2.views = a.views \ {"step", "entry", "codepin", "codeshow", "sysrec"}
      /\ b2.token = "none" /\ b2.issue = FALSE
  BY <1>1, <1>2 DEF Kept, Views, Apps
<1>5. \A t, x : Still(b2, t, x) <=> Still(a, t, x) /\ x \notin {"step", "entry", "codepin", "codeshow", "sysrec"}
  BY <1>1, <1>2 DEF Views
<1> QED
  BY <1>0, <1>2, <1>3, <1>4, <1>5

\* The effect of CancelPending: what it sets, what it keeps, and which
\* captures outlive it.
LEMMA CancelPendingIs ==
  ASSUME NEW a \in Apps
  PROVE  LET b == CancelPending(a) IN
         /\ b \in Apps
         /\ Kept(b, a, {"pending"})
         /\ b.pending = FALSE
         /\ \A t, x : Still(b, t, x) <=> Still(a, t, x) /\ x # "auth"
<1> DEFINE b1 == Moved(a, "auth")
           b2 == [b1 EXCEPT !.pending = FALSE]
<1>0. CancelPending(a) = b2
  BY DEF CancelPending
<1> HIDE DEF b1, b2
<1>1. /\ b1 \in Apps
      /\ Kept(b1, a, {})
      /\ \A t, x : Still(b1, t, x) <=> Still(a, t, x) /\ x # "auth"
  BY MovedIs DEF b1
<1>2. /\ b2 \in Apps
      /\ Kept(b2, b1, {"pending"})
      /\ b2.pending = FALSE
      /\ \A t, x : Still(b2, t, x) <=> Still(b1, t, x)
  BY <1>1, ZenonT(60) DEF b2, Apps, Kept, Still
<1>3. Kept(b2, a, {"pending"})
  BY <1>1, <1>2 DEF Kept
<1>4. /\ b2.pending = FALSE
  BY <1>1, <1>2 DEF Kept, Views, Apps
<1>5. \A t, x : Still(b2, t, x) <=> Still(a, t, x) /\ x # "auth"
  BY <1>1, <1>2 DEF Views
<1> QED
  BY <1>0, <1>2, <1>3, <1>4, <1>5

\* The effect of CancelGrant: what it sets, what it keeps, and which captures
\* outlive it.
LEMMA CancelGrantIs ==
  ASSUME NEW a \in Apps
  PROVE  LET b == CancelGrant(a) IN
         /\ b \in Apps
         /\ Kept(b, a, {"replacing", "grant", "issue"})
         /\ b.replacing = FALSE /\ b.grant = FALSE /\ b.issue = FALSE
         /\ \A t, x : Still(b, t, x) <=> Still(a, t, x) /\ x # "auth"
<1> DEFINE b1 == Moved(a, "auth")
           b2 == [b1 EXCEPT !.grant = FALSE, !.issue = FALSE, !.replacing = FALSE]
<1>0. CancelGrant(a) = b2
  BY DEF CancelGrant
<1> HIDE DEF b1, b2
<1>1. /\ b1 \in Apps
      /\ Kept(b1, a, {})
      /\ \A t, x : Still(b1, t, x) <=> Still(a, t, x) /\ x # "auth"
  BY MovedIs DEF b1
<1>2. /\ b2 \in Apps
      /\ Kept(b2, b1, {"replacing", "grant", "issue"})
      /\ b2.replacing = FALSE /\ b2.grant = FALSE /\ b2.issue = FALSE
      /\ \A t, x : Still(b2, t, x) <=> Still(b1, t, x)
  BY <1>1, ZenonT(60) DEF b2, Apps, Kept, Still
<1>3. Kept(b2, a, {"replacing", "grant", "issue"})
  BY <1>1, <1>2 DEF Kept
<1>4. /\ b2.replacing = FALSE /\ b2.grant = FALSE /\ b2.issue = FALSE
  BY <1>1, <1>2 DEF Kept, Views, Apps
<1>5. \A t, x : Still(b2, t, x) <=> Still(a, t, x) /\ x # "auth"
  BY <1>1, <1>2 DEF Views
<1> QED
  BY <1>0, <1>2, <1>3, <1>4, <1>5

\* The effect of LockAccess: what it sets, what it keeps, and which captures
\* outlive it.
LEMMA LockAccessIs ==
  ASSUME NEW a \in Apps
  PROVE  LET b == LockAccess(a) IN
         /\ b \in Apps
         /\ Kept(b, a, {"open", "loose", "pending", "replacing", "grant", "issue"})
         /\ b.open = FALSE /\ b.loose = FALSE /\ b.pending = FALSE /\ b.replacing = FALSE
         /\ b.grant = FALSE /\ b.issue = FALSE
         /\ \A t, x : Still(b, t, x) <=> Still(a, t, x) /\ x # "auth"
<1> DEFINE b1 == CancelPending(a)
           b2 == CancelGrant(b1)
           b3 == [b2 EXCEPT !.open = FALSE, !.loose = FALSE]
<1>0. LockAccess(a) = b3
  BY DEF LockAccess
<1> HIDE DEF b1, b2, b3
<1>1. /\ b1 \in Apps
      /\ Kept(b1, a, {"pending"})
      /\ b1.pending = FALSE
      /\ \A t, x : Still(b1, t, x) <=> Still(a, t, x) /\ x # "auth"
  BY CancelPendingIs DEF b1
<1>2. /\ b2 \in Apps
      /\ Kept(b2, b1, {"replacing", "grant", "issue"})
      /\ b2.replacing = FALSE /\ b2.grant = FALSE /\ b2.issue = FALSE
      /\ \A t, x : Still(b2, t, x) <=> Still(b1, t, x) /\ x # "auth"
  BY <1>1, CancelGrantIs DEF b2
<1>3. /\ b3 \in Apps
      /\ Kept(b3, b2, {"open", "loose"})
      /\ b3.open = FALSE /\ b3.loose = FALSE
      /\ \A t, x : Still(b3, t, x) <=> Still(b2, t, x)
  BY <1>2, ZenonT(60) DEF b3, Apps, Kept, Still
<1>4. Kept(b3, a, {"open", "loose", "pending", "replacing", "grant", "issue"})
  BY <1>1, <1>2, <1>3 DEF Kept
<1>5. /\ b3.open = FALSE /\ b3.loose = FALSE /\ b3.pending = FALSE /\ b3.replacing = FALSE
      /\ b3.grant = FALSE /\ b3.issue = FALSE
  BY <1>1, <1>2, <1>3 DEF Kept, Views, Apps
<1>6. \A t, x : Still(b3, t, x) <=> Still(a, t, x) /\ x # "auth"
  BY <1>1, <1>2, <1>3 DEF Views
<1> QED
  BY <1>0, <1>3, <1>4, <1>5, <1>6

\* The effect of CancelNative: what it sets, what it keeps, and which captures
\* outlive it.
LEMMA CancelNativeIs ==
  ASSUME NEW a \in Apps
  PROVE  LET b == CancelNative(a) IN
         /\ b \in Apps
         /\ Kept(b, a, {"replacing", "grant", "issue", "prompt"})
         /\ b.replacing = FALSE /\ b.grant = FALSE /\ b.issue = FALSE
         /\ b.prompt = (IF a.prompt = "shown" THEN "cancelled" ELSE a.prompt)
         /\ \A t, x : Still(b, t, x) <=> Still(a, t, x) /\ x # "auth"
<1> DEFINE b1 == CancelGrant(a)
           b2 == [b1 EXCEPT !.prompt = IF @ = "shown" THEN "cancelled" ELSE @]
<1>0. CancelNative(a) = b2
  BY DEF CancelNative
<1> HIDE DEF b1, b2
<1>1. /\ b1 \in Apps
      /\ Kept(b1, a, {"replacing", "grant", "issue"})
      /\ b1.replacing = FALSE /\ b1.grant = FALSE /\ b1.issue = FALSE
      /\ \A t, x : Still(b1, t, x) <=> Still(a, t, x) /\ x # "auth"
  BY CancelGrantIs DEF b1
<1>2. /\ b2 \in Apps
      /\ Kept(b2, b1, {"prompt"})
      /\ b2.prompt = (IF b1.prompt = "shown" THEN "cancelled" ELSE b1.prompt)
      /\ \A t, x : Still(b2, t, x) <=> Still(b1, t, x)
  BY <1>1, ZenonT(60) DEF b2, Apps, Kept, Still
<1>3. Kept(b2, a, {"replacing", "grant", "issue", "prompt"})
  BY <1>1, <1>2 DEF Kept
<1>4. /\ b2.replacing = FALSE /\ b2.grant = FALSE /\ b2.issue = FALSE
      /\ b2.prompt = (IF a.prompt = "shown" THEN "cancelled" ELSE a.prompt)
  BY <1>1, <1>2 DEF Kept, Views, Apps
<1>5. \A t, x : Still(b2, t, x) <=> Still(a, t, x) /\ x # "auth"
  BY <1>1, <1>2 DEF Views
<1> QED
  BY <1>0, <1>2, <1>3, <1>4, <1>5

\* The effect of ShowKey: what it sets, what it keeps, and which captures
\* outlive it.
LEMMA ShowKeyIs ==
  ASSUME NEW a \in Apps
  PROVE  LET b == ShowKey(a) IN
         /\ b \in Apps
         /\ Kept(b, a, {"page", "views", "token", "session", "security", "deferred", "chats", "issue"})
         /\ b.page = (IF a.closing THEN a.page ELSE "key") /\ b.views = {"key"}
         /\ b.token = "none" /\ b.session = FALSE /\ b.security = FALSE /\ b.deferred = FALSE
         /\ b.chats = FALSE /\ b.issue = FALSE
         /\ \A t, x : Still(b, t, x) <=> Still(a, t, x) /\ x \notin Views \cup {"gen", "workspace"}
<1> DEFINE b1 == Deactivate(a)
           b2 == ClearSecret(b1)
           b3 == Drop(b2, {"pin", "setup"})
           b4 == NewView(b3, "key")
           b5 == Replace(b4, "key")
<1>0. ShowKey(a) = b5
  BY DEF ShowKey
<1> HIDE DEF b1, b2, b3, b4, b5
<1>1. /\ b1 \in Apps
      /\ Kept(b1, a, {"session", "security", "deferred", "chats"})
      /\ b1.session = FALSE /\ b1.security = FALSE /\ b1.deferred = FALSE /\ b1.chats = FALSE
      /\ \A t, x : Still(b1, t, x) <=> Still(a, t, x) /\ x \notin {"gen", "workspace"}
  BY DeactivateIs DEF b1
<1>2. /\ b2 \in Apps
      /\ Kept(b2, b1, {"views", "token", "issue"})
      /\ b2.views = b1.views \ {"step", "entry", "codepin", "codeshow", "sysrec"}
      /\ b2.token = "none" /\ b2.issue = FALSE
      /\ \A t, x : Still(b2, t, x) <=> Still(b1, t, x) /\ x \notin {"step", "entry", "codepin", "codeshow", "sysrec"}
  BY <1>1, ClearSecretIs DEF b2
<1>3. /\ b3 \in Apps
      /\ Kept(b3, b2, {"views"})
      /\ b3.views = b2.views \ {"pin", "setup"}
      /\ \A t, x : Still(b3, t, x) <=> Still(b2, t, x) /\ x \notin {"pin", "setup"}
  BY <1>2, DropIs DEF b3
<1>4. /\ b4 \in Apps
      /\ Kept(b4, b3, {"views"})
      /\ b4.views = b3.views \cup {"key"}
      /\ \A t, x : Still(b4, t, x) <=> Still(b3, t, x) /\ x # "key"
  BY <1>3, NewViewIs DEF b4, Views, Pages
<1>5. /\ b5 \in Apps
      /\ Kept(b5, b4, {"page"})
      /\ b5.page = (IF b4.closing THEN b4.page ELSE "key")
      /\ \A t, x : Still(b5, t, x) <=> Still(b4, t, x)
  BY <1>4, ReplaceIs DEF b5, Views, Pages
<1>6. Kept(b5, a, {"page", "views", "token", "session", "security", "deferred", "chats", "issue"})
  BY <1>1, <1>2, <1>3, <1>4, <1>5 DEF Kept
<1>7. /\ b5.page = (IF a.closing THEN a.page ELSE "key") /\ b5.views = {"key"}
      /\ b5.token = "none" /\ b5.session = FALSE /\ b5.security = FALSE
      /\ b5.deferred = FALSE /\ b5.chats = FALSE /\ b5.issue = FALSE
  BY <1>1, <1>2, <1>3, <1>4, <1>5 DEF Kept, Views, Apps
<1>8. \A t, x : Still(b5, t, x) <=> Still(a, t, x) /\ x \notin Views \cup {"gen", "workspace"}
  BY <1>1, <1>2, <1>3, <1>4, <1>5 DEF Views
<1> QED
  BY <1>0, <1>5, <1>6, <1>7, <1>8

\* The effect of ShowSetup: what it sets, what it keeps, and which captures
\* outlive it.
LEMMA ShowSetupIs ==
  ASSUME NEW a \in Apps
  PROVE  LET b == ShowSetup(a) IN
         /\ b \in Apps
         /\ Kept(b, a, {"page", "views", "token", "session", "security", "deferred", "chats", "issue"})
         /\ b.page = (IF a.closing THEN a.page ELSE "setup") /\ b.views = {"setup"}
         /\ b.token = "setup" /\ b.session = FALSE /\ b.security = FALSE /\ b.deferred = FALSE
         /\ b.chats = FALSE /\ b.issue = FALSE
         /\ \A t, x : Still(b, t, x) <=> Still(a, t, x) /\ x \notin Views \cup {"gen", "workspace"}
<1> DEFINE b1 == Deactivate(a)
           b2 == ClearSecret(b1)
           b3 == Drop(b2, {"key", "pin"})
           b4 == [b3 EXCEPT !.token = "setup"]
           b5 == NewView(b4, "setup")
           b6 == Replace(b5, "setup")
<1>0. ShowSetup(a) = b6
  BY DEF ShowSetup
<1> HIDE DEF b1, b2, b3, b4, b5, b6
<1>1. /\ b1 \in Apps
      /\ Kept(b1, a, {"session", "security", "deferred", "chats"})
      /\ b1.session = FALSE /\ b1.security = FALSE /\ b1.deferred = FALSE /\ b1.chats = FALSE
      /\ \A t, x : Still(b1, t, x) <=> Still(a, t, x) /\ x \notin {"gen", "workspace"}
  BY DeactivateIs DEF b1
<1>2. /\ b2 \in Apps
      /\ Kept(b2, b1, {"views", "token", "issue"})
      /\ b2.views = b1.views \ {"step", "entry", "codepin", "codeshow", "sysrec"}
      /\ b2.token = "none" /\ b2.issue = FALSE
      /\ \A t, x : Still(b2, t, x) <=> Still(b1, t, x) /\ x \notin {"step", "entry", "codepin", "codeshow", "sysrec"}
  BY <1>1, ClearSecretIs DEF b2
<1>3. /\ b3 \in Apps
      /\ Kept(b3, b2, {"views"})
      /\ b3.views = b2.views \ {"key", "pin"}
      /\ \A t, x : Still(b3, t, x) <=> Still(b2, t, x) /\ x \notin {"key", "pin"}
  BY <1>2, DropIs DEF b3
<1>4. /\ b4 \in Apps
      /\ Kept(b4, b3, {"token"})
      /\ b4.token = "setup"
      /\ \A t, x : Still(b4, t, x) <=> Still(b3, t, x)
  BY <1>3, ZenonT(60) DEF b4, Apps, Kept, Still
<1>5. /\ b5 \in Apps
      /\ Kept(b5, b4, {"views"})
      /\ b5.views = b4.views \cup {"setup"}
      /\ \A t, x : Still(b5, t, x) <=> Still(b4, t, x) /\ x # "setup"
  BY <1>4, NewViewIs DEF b5, Views, Pages
<1>6. /\ b6 \in Apps
      /\ Kept(b6, b5, {"page"})
      /\ b6.page = (IF b5.closing THEN b5.page ELSE "setup")
      /\ \A t, x : Still(b6, t, x) <=> Still(b5, t, x)
  BY <1>5, ReplaceIs DEF b6, Views, Pages
<1>7. Kept(b6, a, {"page", "views", "token", "session", "security", "deferred", "chats", "issue"})
  BY <1>1, <1>2, <1>3, <1>4, <1>5, <1>6 DEF Kept
<1>8. /\ b6.page = (IF a.closing THEN a.page ELSE "setup") /\ b6.views = {"setup"}
      /\ b6.token = "setup" /\ b6.session = FALSE /\ b6.security = FALSE
      /\ b6.deferred = FALSE /\ b6.chats = FALSE /\ b6.issue = FALSE
  BY <1>1, <1>2, <1>3, <1>4, <1>5, <1>6 DEF Kept, Views, Apps
<1>9. \A t, x : Still(b6, t, x) <=> Still(a, t, x) /\ x \notin Views \cup {"gen", "workspace"}
  BY <1>1, <1>2, <1>3, <1>4, <1>5, <1>6 DEF Views
<1> QED
  BY <1>0, <1>6, <1>7, <1>8, <1>9

\* The effect of ShowPin: what it sets, what it keeps, and which captures
\* outlive it.
LEMMA ShowPinIs ==
  ASSUME NEW a \in Apps
  PROVE  LET b == ShowPin(a) IN
         /\ b \in Apps
         /\ Kept(b, a, {"page", "views", "token", "dialog", "session", "security", "deferred", "chats", "relocked", "issue"})
         /\ b.page = (IF a.closing THEN a.page ELSE "pin") /\ b.views = {"pin"}
         /\ b.token = "none" /\ b.dialog = FALSE /\ b.session = FALSE /\ b.security = FALSE
         /\ b.deferred = FALSE /\ b.chats = FALSE /\ b.relocked = FALSE /\ b.issue = FALSE
         /\ \A t, x : Still(b, t, x) <=> Still(a, t, x) /\ x \notin Views \cup {"gen", "workspace"}
<1> DEFINE b1 == [a EXCEPT !.dialog = FALSE]
           b2 == Deactivate(b1)
           b3 == ClearSecret(b2)
           b4 == Drop(b3, {"key", "setup"})
           b5 == [b4 EXCEPT !.relocked = FALSE]
           b6 == NewView(b5, "pin")
           b7 == Replace(b6, "pin")
<1>0. ShowPin(a) = b7
  BY DEF ShowPin
<1> HIDE DEF b1, b2, b3, b4, b5, b6, b7
<1>1. /\ b1 \in Apps
      /\ Kept(b1, a, {"dialog"})
      /\ b1.dialog = FALSE
      /\ \A t, x : Still(b1, t, x) <=> Still(a, t, x)
  BY ZenonT(60) DEF b1, Apps, Kept, Still
<1>2. /\ b2 \in Apps
      /\ Kept(b2, b1, {"session", "security", "deferred", "chats"})
      /\ b2.session = FALSE /\ b2.security = FALSE /\ b2.deferred = FALSE /\ b2.chats = FALSE
      /\ \A t, x : Still(b2, t, x) <=> Still(b1, t, x) /\ x \notin {"gen", "workspace"}
  BY <1>1, DeactivateIs DEF b2
<1>3. /\ b3 \in Apps
      /\ Kept(b3, b2, {"views", "token", "issue"})
      /\ b3.views = b2.views \ {"step", "entry", "codepin", "codeshow", "sysrec"}
      /\ b3.token = "none" /\ b3.issue = FALSE
      /\ \A t, x : Still(b3, t, x) <=> Still(b2, t, x) /\ x \notin {"step", "entry", "codepin", "codeshow", "sysrec"}
  BY <1>2, ClearSecretIs DEF b3
<1>4. /\ b4 \in Apps
      /\ Kept(b4, b3, {"views"})
      /\ b4.views = b3.views \ {"key", "setup"}
      /\ \A t, x : Still(b4, t, x) <=> Still(b3, t, x) /\ x \notin {"key", "setup"}
  BY <1>3, DropIs DEF b4
<1>5. /\ b5 \in Apps
      /\ Kept(b5, b4, {"relocked"})
      /\ b5.relocked = FALSE
      /\ \A t, x : Still(b5, t, x) <=> Still(b4, t, x)
  BY <1>4, ZenonT(60) DEF b5, Apps, Kept, Still
<1>6. /\ b6 \in Apps
      /\ Kept(b6, b5, {"views"})
      /\ b6.views = b5.views \cup {"pin"}
      /\ \A t, x : Still(b6, t, x) <=> Still(b5, t, x) /\ x # "pin"
  BY <1>5, NewViewIs DEF b6, Views, Pages
<1>7. /\ b7 \in Apps
      /\ Kept(b7, b6, {"page"})
      /\ b7.page = (IF b6.closing THEN b6.page ELSE "pin")
      /\ \A t, x : Still(b7, t, x) <=> Still(b6, t, x)
  BY <1>6, ReplaceIs DEF b7, Views, Pages
<1>8. Kept(b7, a, {"page", "views", "token", "dialog", "session", "security", "deferred", "chats", "relocked", "issue"})
  BY <1>1, <1>2, <1>3, <1>4, <1>5, <1>6, <1>7 DEF Kept
<1>9. /\ b7.page = (IF a.closing THEN a.page ELSE "pin") /\ b7.views = {"pin"}
      /\ b7.token = "none" /\ b7.dialog = FALSE /\ b7.session = FALSE /\ b7.security = FALSE
      /\ b7.deferred = FALSE /\ b7.chats = FALSE /\ b7.relocked = FALSE /\ b7.issue = FALSE
  BY <1>1, <1>2, <1>3, <1>4, <1>5, <1>6, <1>7 DEF Kept, Views, Apps
<1>10. \A t, x : Still(b7, t, x) <=> Still(a, t, x) /\ x \notin Views \cup {"gen", "workspace"}
  BY <1>1, <1>2, <1>3, <1>4, <1>5, <1>6, <1>7 DEF Views
<1> QED
  BY <1>0, <1>7, <1>8, <1>9, <1>10

\* The effect of ShowError: what it sets, what it keeps, and which captures
\* outlive it.
LEMMA ShowErrorIs ==
  ASSUME NEW a \in Apps
  PROVE  LET b == ShowError(a) IN
         /\ b \in Apps
         /\ Kept(b, a, {"page", "session", "security", "deferred", "chats"})
         /\ b.page = (IF a.closing THEN a.page ELSE "error") /\ b.session = FALSE
         /\ b.security = FALSE /\ b.deferred = FALSE /\ b.chats = FALSE
         /\ \A t, x : Still(b, t, x) <=> Still(a, t, x) /\ x \notin {"gen", "workspace"}
<1> DEFINE b1 == Deactivate(a)
           b2 == Replace(b1, "error")
<1>0. ShowError(a) = b2
  BY DEF ShowError
<1> HIDE DEF b1, b2
<1>1. /\ b1 \in Apps
      /\ Kept(b1, a, {"session", "security", "deferred", "chats"})
      /\ b1.session = FALSE /\ b1.security = FALSE /\ b1.deferred = FALSE /\ b1.chats = FALSE
      /\ \A t, x : Still(b1, t, x) <=> Still(a, t, x) /\ x \notin {"gen", "workspace"}
  BY DeactivateIs DEF b1
<1>2. /\ b2 \in Apps
      /\ Kept(b2, b1, {"page"})
      /\ b2.page = (IF b1.closing THEN b1.page ELSE "error")
      /\ \A t, x : Still(b2, t, x) <=> Still(b1, t, x)
  BY <1>1, ReplaceIs DEF b2, Views, Pages
<1>3. Kept(b2, a, {"page", "session", "security", "deferred", "chats"})
  BY <1>1, <1>2 DEF Kept
<1>4. /\ b2.page = (IF a.closing THEN a.page ELSE "error") /\ b2.session = FALSE
      /\ b2.security = FALSE /\ b2.deferred = FALSE /\ b2.chats = FALSE
  BY <1>1, <1>2 DEF Kept, Views, Apps
<1>5. \A t, x : Still(b2, t, x) <=> Still(a, t, x) /\ x \notin {"gen", "workspace"}
  BY <1>1, <1>2 DEF Views
<1> QED
  BY <1>0, <1>2, <1>3, <1>4, <1>5

\* The effect of ShowRecovery: what it sets, what it keeps, and which captures
\* outlive it.
LEMMA ShowRecoveryIs ==
  ASSUME NEW a \in Apps
  PROVE  LET b == ShowRecovery(a) IN
         /\ b \in Apps
         /\ Kept(b, a, {"page", "views", "token", "session", "security", "deferred", "chats", "issue"})
         /\ b.page = (IF a.closing THEN a.page ELSE "sysrec") /\ b.views = {"sysrec"}
         /\ b.token = "none" /\ b.session = FALSE /\ b.security = FALSE /\ b.deferred = FALSE
         /\ b.chats = FALSE /\ b.issue = FALSE
         /\ \A t, x : Still(b, t, x) <=> Still(a, t, x) /\ x \notin Views \cup {"gen", "workspace"}
<1> DEFINE b1 == Deactivate(a)
           b2 == ClearSecret(b1)
           b3 == Drop(b2, {"key", "pin", "setup"})
           b4 == NewView(b3, "sysrec")
           b5 == Replace(b4, "sysrec")
<1>0. ShowRecovery(a) = b5
  BY DEF ShowRecovery
<1> HIDE DEF b1, b2, b3, b4, b5
<1>1. /\ b1 \in Apps
      /\ Kept(b1, a, {"session", "security", "deferred", "chats"})
      /\ b1.session = FALSE /\ b1.security = FALSE /\ b1.deferred = FALSE /\ b1.chats = FALSE
      /\ \A t, x : Still(b1, t, x) <=> Still(a, t, x) /\ x \notin {"gen", "workspace"}
  BY DeactivateIs DEF b1
<1>2. /\ b2 \in Apps
      /\ Kept(b2, b1, {"views", "token", "issue"})
      /\ b2.views = b1.views \ {"step", "entry", "codepin", "codeshow", "sysrec"}
      /\ b2.token = "none" /\ b2.issue = FALSE
      /\ \A t, x : Still(b2, t, x) <=> Still(b1, t, x) /\ x \notin {"step", "entry", "codepin", "codeshow", "sysrec"}
  BY <1>1, ClearSecretIs DEF b2
<1>3. /\ b3 \in Apps
      /\ Kept(b3, b2, {"views"})
      /\ b3.views = b2.views \ {"key", "pin", "setup"}
      /\ \A t, x : Still(b3, t, x) <=> Still(b2, t, x) /\ x \notin {"key", "pin", "setup"}
  BY <1>2, DropIs DEF b3
<1>4. /\ b4 \in Apps
      /\ Kept(b4, b3, {"views"})
      /\ b4.views = b3.views \cup {"sysrec"}
      /\ \A t, x : Still(b4, t, x) <=> Still(b3, t, x) /\ x # "sysrec"
  BY <1>3, NewViewIs DEF b4, Views, Pages
<1>5. /\ b5 \in Apps
      /\ Kept(b5, b4, {"page"})
      /\ b5.page = (IF b4.closing THEN b4.page ELSE "sysrec")
      /\ \A t, x : Still(b5, t, x) <=> Still(b4, t, x)
  BY <1>4, ReplaceIs DEF b5, Views, Pages
<1>6. Kept(b5, a, {"page", "views", "token", "session", "security", "deferred", "chats", "issue"})
  BY <1>1, <1>2, <1>3, <1>4, <1>5 DEF Kept
<1>7. /\ b5.page = (IF a.closing THEN a.page ELSE "sysrec") /\ b5.views = {"sysrec"}
      /\ b5.token = "none" /\ b5.session = FALSE /\ b5.security = FALSE
      /\ b5.deferred = FALSE /\ b5.chats = FALSE /\ b5.issue = FALSE
  BY <1>1, <1>2, <1>3, <1>4, <1>5 DEF Kept, Views, Apps
<1>8. \A t, x : Still(b5, t, x) <=> Still(a, t, x) /\ x \notin Views \cup {"gen", "workspace"}
  BY <1>1, <1>2, <1>3, <1>4, <1>5 DEF Views
<1> QED
  BY <1>0, <1>5, <1>6, <1>7, <1>8

\* The effect of ShowEntry: what it sets, what it keeps, and which captures
\* outlive it.
LEMMA ShowEntryIs ==
  ASSUME NEW a \in Apps
  PROVE  LET b == ShowEntry(a) IN
         /\ b \in Apps
         /\ Kept(b, a, {"page", "views", "token", "session", "security", "deferred", "chats", "issue"})
         /\ b.page = (IF a.closing THEN a.page ELSE "entry") /\ b.views = {"entry"}
         /\ b.token = "none" /\ b.session = FALSE /\ b.security = FALSE /\ b.deferred = FALSE
         /\ b.chats = FALSE /\ b.issue = FALSE
         /\ \A t, x : Still(b, t, x) <=> Still(a, t, x) /\ x \notin Views \cup {"gen", "workspace"}
<1> DEFINE b1 == Deactivate(a)
           b2 == ClearSecret(b1)
           b3 == Drop(b2, {"key", "pin", "setup"})
           b4 == NewView(b3, "entry")
           b5 == Replace(b4, "entry")
<1>0. ShowEntry(a) = b5
  BY DEF ShowEntry
<1> HIDE DEF b1, b2, b3, b4, b5
<1>1. /\ b1 \in Apps
      /\ Kept(b1, a, {"session", "security", "deferred", "chats"})
      /\ b1.session = FALSE /\ b1.security = FALSE /\ b1.deferred = FALSE /\ b1.chats = FALSE
      /\ \A t, x : Still(b1, t, x) <=> Still(a, t, x) /\ x \notin {"gen", "workspace"}
  BY DeactivateIs DEF b1
<1>2. /\ b2 \in Apps
      /\ Kept(b2, b1, {"views", "token", "issue"})
      /\ b2.views = b1.views \ {"step", "entry", "codepin", "codeshow", "sysrec"}
      /\ b2.token = "none" /\ b2.issue = FALSE
      /\ \A t, x : Still(b2, t, x) <=> Still(b1, t, x) /\ x \notin {"step", "entry", "codepin", "codeshow", "sysrec"}
  BY <1>1, ClearSecretIs DEF b2
<1>3. /\ b3 \in Apps
      /\ Kept(b3, b2, {"views"})
      /\ b3.views = b2.views \ {"key", "pin", "setup"}
      /\ \A t, x : Still(b3, t, x) <=> Still(b2, t, x) /\ x \notin {"key", "pin", "setup"}
  BY <1>2, DropIs DEF b3
<1>4. /\ b4 \in Apps
      /\ Kept(b4, b3, {"views"})
      /\ b4.views = b3.views \cup {"entry"}
      /\ \A t, x : Still(b4, t, x) <=> Still(b3, t, x) /\ x # "entry"
  BY <1>3, NewViewIs DEF b4, Views, Pages
<1>5. /\ b5 \in Apps
      /\ Kept(b5, b4, {"page"})
      /\ b5.page = (IF b4.closing THEN b4.page ELSE "entry")
      /\ \A t, x : Still(b5, t, x) <=> Still(b4, t, x)
  BY <1>4, ReplaceIs DEF b5, Views, Pages
<1>6. Kept(b5, a, {"page", "views", "token", "session", "security", "deferred", "chats", "issue"})
  BY <1>1, <1>2, <1>3, <1>4, <1>5 DEF Kept
<1>7. /\ b5.page = (IF a.closing THEN a.page ELSE "entry") /\ b5.views = {"entry"}
      /\ b5.token = "none" /\ b5.session = FALSE /\ b5.security = FALSE
      /\ b5.deferred = FALSE /\ b5.chats = FALSE /\ b5.issue = FALSE
  BY <1>1, <1>2, <1>3, <1>4, <1>5 DEF Kept, Views, Apps
<1>8. \A t, x : Still(b5, t, x) <=> Still(a, t, x) /\ x \notin Views \cup {"gen", "workspace"}
  BY <1>1, <1>2, <1>3, <1>4, <1>5 DEF Views
<1> QED
  BY <1>0, <1>5, <1>6, <1>7, <1>8

\* The effect of ShowNewPin: what it sets, what it keeps, and which captures
\* outlive it.
LEMMA ShowNewPinIs ==
  ASSUME NEW a \in Apps, NEW s \in {"system", "code"}
  PROVE  LET b == ShowNewPin(a, s) IN
         /\ b \in Apps
         /\ Kept(b, a, {"page", "views", "token", "source", "issue"})
         /\ b.page = (IF a.closing THEN a.page ELSE "newpin")
         /\ b.views = ((a.views \ {"step", "entry", "codepin", "codeshow", "sysrec"}) \ {"key", "pin"}) \cup {"setup"}
         /\ b.token = "recovery" /\ b.source = s /\ b.issue = FALSE
         /\ \A t, x : Still(b, t, x) <=> Still(a, t, x) /\ x \notin {"step", "entry", "codepin", "codeshow", "sysrec", "key", "pin", "setup"}
<1> DEFINE b1 == ClearSecret(a)
           b2 == Drop(b1, {"key", "pin"})
           b3 == [b2 EXCEPT !.token = "recovery", !.source = s]
           b4 == NewView(b3, "setup")
           b5 == Replace(b4, "newpin")
<1>0. ShowNewPin(a, s) = b5
  BY DEF ShowNewPin
<1> HIDE DEF b1, b2, b3, b4, b5
<1>1. /\ b1 \in Apps
      /\ Kept(b1, a, {"views", "token", "issue"})
      /\ b1.views = a.views \ {"step", "entry", "codepin", "codeshow", "sysrec"}
      /\ b1.token = "none" /\ b1.issue = FALSE
      /\ \A t, x : Still(b1, t, x) <=> Still(a, t, x) /\ x \notin {"step", "entry", "codepin", "codeshow", "sysrec"}
  BY ClearSecretIs DEF b1
<1>2. /\ b2 \in Apps
      /\ Kept(b2, b1, {"views"})
      /\ b2.views = b1.views \ {"key", "pin"}
      /\ \A t, x : Still(b2, t, x) <=> Still(b1, t, x) /\ x \notin {"key", "pin"}
  BY <1>1, DropIs DEF b2
<1>3. /\ b3 \in Apps
      /\ Kept(b3, b2, {"token", "source"})
      /\ b3.token = "recovery" /\ b3.source = s
      /\ \A t, x : Still(b3, t, x) <=> Still(b2, t, x)
  BY <1>2, ZenonT(60) DEF b3, Apps, Kept, Still
<1>4. /\ b4 \in Apps
      /\ Kept(b4, b3, {"views"})
      /\ b4.views = b3.views \cup {"setup"}
      /\ \A t, x : Still(b4, t, x) <=> Still(b3, t, x) /\ x # "setup"
  BY <1>3, NewViewIs DEF b4, Views, Pages
<1>5. /\ b5 \in Apps
      /\ Kept(b5, b4, {"page"})
      /\ b5.page = (IF b4.closing THEN b4.page ELSE "newpin")
      /\ \A t, x : Still(b5, t, x) <=> Still(b4, t, x)
  BY <1>4, ReplaceIs DEF b5, Views, Pages
<1>6. Kept(b5, a, {"page", "views", "token", "source", "issue"})
  BY <1>1, <1>2, <1>3, <1>4, <1>5 DEF Kept
<1>7. /\ b5.page = (IF a.closing THEN a.page ELSE "newpin")
      /\ b5.views = ((a.views \ {"step", "entry", "codepin", "codeshow", "sysrec"}) \ {"key", "pin"}) \cup {"setup"}
      /\ b5.token = "recovery" /\ b5.source = s /\ b5.issue = FALSE
  BY <1>1, <1>2, <1>3, <1>4, <1>5 DEF Kept, Views, Apps
<1>8. \A t, x : Still(b5, t, x) <=> Still(a, t, x) /\ x \notin {"step", "entry", "codepin", "codeshow", "sysrec", "key", "pin", "setup"}
  BY <1>1, <1>2, <1>3, <1>4, <1>5 DEF Views
<1> QED
  BY <1>0, <1>5, <1>6, <1>7, <1>8

\* The effect of ShowCode: what it sets, what it keeps, and which captures
\* outlive it.
LEMMA ShowCodeIs ==
  ASSUME NEW a \in Apps
  PROVE  LET b == ShowCode(a) IN
         /\ b \in Apps
         /\ Kept(b, a, {"page", "views", "token"})
         /\ b.page = (IF a.closing THEN a.page ELSE "codeshow")
         /\ b.views = (a.views \ {"step", "entry", "codepin", "codeshow", "sysrec"}) \cup {"codeshow"}
         /\ b.token = "none"
         /\ \A t, x : Still(b, t, x) <=> Still(a, t, x) /\ x \notin {"step", "entry", "codepin", "codeshow", "sysrec"}
<1> DEFINE b1 == ClearControls(a)
           b2 == NewView(b1, "codeshow")
           b3 == Replace(b2, "codeshow")
<1>0. ShowCode(a) = b3
  BY DEF ShowCode
<1> HIDE DEF b1, b2, b3
<1>1. /\ b1 \in Apps
      /\ Kept(b1, a, {"views", "token"})
      /\ b1.views = a.views \ {"step", "entry", "codepin", "codeshow", "sysrec"}
      /\ b1.token = "none"
      /\ \A t, x : Still(b1, t, x) <=> Still(a, t, x) /\ x \notin {"step", "entry", "codepin", "codeshow", "sysrec"}
  BY ClearControlsIs DEF b1
<1>2. /\ b2 \in Apps
      /\ Kept(b2, b1, {"views"})
      /\ b2.views = b1.views \cup {"codeshow"}
      /\ \A t, x : Still(b2, t, x) <=> Still(b1, t, x) /\ x # "codeshow"
  BY <1>1, NewViewIs DEF b2, Views, Pages
<1>3. /\ b3 \in Apps
      /\ Kept(b3, b2, {"page"})
      /\ b3.page = (IF b2.closing THEN b2.page ELSE "codeshow")
      /\ \A t, x : Still(b3, t, x) <=> Still(b2, t, x)
  BY <1>2, ReplaceIs DEF b3, Views, Pages
<1>4. Kept(b3, a, {"page", "views", "token"})
  BY <1>1, <1>2, <1>3 DEF Kept
<1>5. /\ b3.page = (IF a.closing THEN a.page ELSE "codeshow")
      /\ b3.views = (a.views \ {"step", "entry", "codepin", "codeshow", "sysrec"}) \cup {"codeshow"}
      /\ b3.token = "none"
  BY <1>1, <1>2, <1>3 DEF Kept, Views, Apps
<1>6. \A t, x : Still(b3, t, x) <=> Still(a, t, x) /\ x \notin {"step", "entry", "codepin", "codeshow", "sysrec"}
  BY <1>1, <1>2, <1>3 DEF Views
<1> QED
  BY <1>0, <1>3, <1>4, <1>5, <1>6

\* The effect of ShowStep: what it sets, what it keeps, and which captures
\* outlive it.
LEMMA ShowStepIs ==
  ASSUME NEW a \in Apps
  PROVE  LET b == ShowStep(a) IN
         /\ b \in Apps
         /\ Kept(b, a, {"page", "views"})
         /\ b.page = (IF a.closing THEN a.page ELSE "step") /\ b.views = a.views \cup {"step"}
         /\ \A t, x : Still(b, t, x) <=> Still(a, t, x) /\ x # "step"
<1> DEFINE b1 == NewView(a, "step")
           b2 == Replace(b1, "step")
<1>0. ShowStep(a) = b2
  BY DEF ShowStep
<1> HIDE DEF b1, b2
<1>1. /\ b1 \in Apps
      /\ Kept(b1, a, {"views"})
      /\ b1.views = a.views \cup {"step"}
      /\ \A t, x : Still(b1, t, x) <=> Still(a, t, x) /\ x # "step"
  BY NewViewIs DEF b1, Views, Pages
<1>2. /\ b2 \in Apps
      /\ Kept(b2, b1, {"page"})
      /\ b2.page = (IF b1.closing THEN b1.page ELSE "step")
      /\ \A t, x : Still(b2, t, x) <=> Still(b1, t, x)
  BY <1>1, ReplaceIs DEF b2, Views, Pages
<1>3. Kept(b2, a, {"page", "views"})
  BY <1>1, <1>2 DEF Kept
<1>4. /\ b2.page = (IF a.closing THEN a.page ELSE "step") /\ b2.views = a.views \cup {"step"}
  BY <1>1, <1>2 DEF Kept, Views, Apps
<1>5. \A t, x : Still(b2, t, x) <=> Still(a, t, x) /\ x # "step"
  BY <1>1, <1>2 DEF Views
<1> QED
  BY <1>0, <1>2, <1>3, <1>4, <1>5

\* The effect of ActivatePresent: what it sets, what it keeps, and which
\* captures outlive it.
LEMMA ActivatePresentIs ==
  ASSUME NEW a \in Apps
  PROVE  LET b == ActivatePresent(a) IN
         /\ b \in Apps
         /\ Kept(b, a, {"views", "token", "session", "security", "deferred", "chats", "loose", "issue"})
         /\ b.views = {} /\ b.token = "none" /\ b.session = TRUE /\ b.security = FALSE
         /\ b.deferred = FALSE /\ b.chats = FALSE /\ b.loose = FALSE /\ b.issue = FALSE
         /\ \A t, x : Still(b, t, x) <=> Still(a, t, x) /\ x \notin Views \cup {"gen", "workspace"}
<1> DEFINE b1 == ClearSecret(a)
           b2 == Drop(b1, {"key", "setup", "pin"})
           b3 == Deactivate(b2)
           b4 == [b3 EXCEPT !.session = TRUE, !.deferred = FALSE, !.loose = FALSE]
<1>0. ActivatePresent(a) = b4
  BY DEF ActivatePresent, Activate
<1> HIDE DEF b1, b2, b3, b4
<1>1. /\ b1 \in Apps
      /\ Kept(b1, a, {"views", "token", "issue"})
      /\ b1.views = a.views \ {"step", "entry", "codepin", "codeshow", "sysrec"}
      /\ b1.token = "none" /\ b1.issue = FALSE
      /\ \A t, x : Still(b1, t, x) <=> Still(a, t, x) /\ x \notin {"step", "entry", "codepin", "codeshow", "sysrec"}
  BY ClearSecretIs DEF b1
<1>2. /\ b2 \in Apps
      /\ Kept(b2, b1, {"views"})
      /\ b2.views = b1.views \ {"key", "setup", "pin"}
      /\ \A t, x : Still(b2, t, x) <=> Still(b1, t, x) /\ x \notin {"key", "setup", "pin"}
  BY <1>1, DropIs DEF b2
<1>3. /\ b3 \in Apps
      /\ Kept(b3, b2, {"session", "security", "deferred", "chats"})
      /\ b3.session = FALSE /\ b3.security = FALSE /\ b3.deferred = FALSE /\ b3.chats = FALSE
      /\ \A t, x : Still(b3, t, x) <=> Still(b2, t, x) /\ x \notin {"gen", "workspace"}
  BY <1>2, DeactivateIs DEF b3
<1>4. /\ b4 \in Apps
      /\ Kept(b4, b3, {"session", "deferred", "loose"})
      /\ b4.session = TRUE /\ b4.deferred = FALSE /\ b4.loose = FALSE
      /\ \A t, x : Still(b4, t, x) <=> Still(b3, t, x)
  BY <1>3, ZenonT(60) DEF b4, Apps, Kept, Still
<1>5. Kept(b4, a, {"views", "token", "session", "security", "deferred", "chats", "loose", "issue"})
  BY <1>1, <1>2, <1>3, <1>4 DEF Kept
<1>6. /\ b4.views = {} /\ b4.token = "none" /\ b4.session = TRUE /\ b4.security = FALSE
      /\ b4.deferred = FALSE /\ b4.chats = FALSE /\ b4.loose = FALSE /\ b4.issue = FALSE
  BY <1>1, <1>2, <1>3, <1>4 DEF Kept, Views, Apps
<1>7. \A t, x : Still(b4, t, x) <=> Still(a, t, x) /\ x \notin Views \cup {"gen", "workspace"}
  BY <1>1, <1>2, <1>3, <1>4 DEF Views
<1> QED
  BY <1>0, <1>4, <1>5, <1>6, <1>7

\* The effect of ActivateStep: what it sets, what it keeps, and which captures
\* outlive it.
LEMMA ActivateStepIs ==
  ASSUME NEW a \in Apps
  PROVE  LET b == ActivateStep(a) IN
         /\ b \in Apps
         /\ Kept(b, a, {"views", "token", "session", "security", "deferred", "chats", "loose", "issue"})
         /\ b.views = {} /\ b.token = "none" /\ b.session = TRUE /\ b.security = FALSE
         /\ b.deferred = TRUE /\ b.chats = FALSE /\ b.loose = FALSE /\ b.issue = FALSE
         /\ \A t, x : Still(b, t, x) <=> Still(a, t, x) /\ x \notin Views \cup {"gen", "workspace"}
<1> DEFINE b1 == ClearSecret(a)
           b2 == Drop(b1, {"key", "setup", "pin"})
           b3 == Deactivate(b2)
           b4 == [b3 EXCEPT !.session = TRUE, !.deferred = TRUE, !.loose = FALSE]
<1>0. ActivateStep(a) = b4
  BY DEF ActivateStep, Activate
<1> HIDE DEF b1, b2, b3, b4
<1>1. /\ b1 \in Apps
      /\ Kept(b1, a, {"views", "token", "issue"})
      /\ b1.views = a.views \ {"step", "entry", "codepin", "codeshow", "sysrec"}
      /\ b1.token = "none" /\ b1.issue = FALSE
      /\ \A t, x : Still(b1, t, x) <=> Still(a, t, x) /\ x \notin {"step", "entry", "codepin", "codeshow", "sysrec"}
  BY ClearSecretIs DEF b1
<1>2. /\ b2 \in Apps
      /\ Kept(b2, b1, {"views"})
      /\ b2.views = b1.views \ {"key", "setup", "pin"}
      /\ \A t, x : Still(b2, t, x) <=> Still(b1, t, x) /\ x \notin {"key", "setup", "pin"}
  BY <1>1, DropIs DEF b2
<1>3. /\ b3 \in Apps
      /\ Kept(b3, b2, {"session", "security", "deferred", "chats"})
      /\ b3.session = FALSE /\ b3.security = FALSE /\ b3.deferred = FALSE /\ b3.chats = FALSE
      /\ \A t, x : Still(b3, t, x) <=> Still(b2, t, x) /\ x \notin {"gen", "workspace"}
  BY <1>2, DeactivateIs DEF b3
<1>4. /\ b4 \in Apps
      /\ Kept(b4, b3, {"session", "deferred", "loose"})
      /\ b4.session = TRUE /\ b4.deferred = TRUE /\ b4.loose = FALSE
      /\ \A t, x : Still(b4, t, x) <=> Still(b3, t, x)
  BY <1>3, ZenonT(60) DEF b4, Apps, Kept, Still
<1>5. Kept(b4, a, {"views", "token", "session", "security", "deferred", "chats", "loose", "issue"})
  BY <1>1, <1>2, <1>3, <1>4 DEF Kept
<1>6. /\ b4.views = {} /\ b4.token = "none" /\ b4.session = TRUE /\ b4.security = FALSE
      /\ b4.deferred = TRUE /\ b4.chats = FALSE /\ b4.loose = FALSE /\ b4.issue = FALSE
  BY <1>1, <1>2, <1>3, <1>4 DEF Kept, Views, Apps
<1>7. \A t, x : Still(b4, t, x) <=> Still(a, t, x) /\ x \notin Views \cup {"gen", "workspace"}
  BY <1>1, <1>2, <1>3, <1>4 DEF Views
<1> QED
  BY <1>0, <1>4, <1>5, <1>6, <1>7

\* The effect of BeginSeal: what it sets, what it keeps, and which captures
\* outlive it.
LEMMA BeginSealIs ==
  ASSUME NEW a \in Apps
  PROVE  LET b == BeginSeal(a) IN
         /\ b \in Apps
         /\ Kept(b, a, {"suspending", "page", "views", "token", "dialog", "session", "security", "deferred", "chats", "open", "loose", "pending", "replacing", "grant", "issue"})
         /\ b.suspending = TRUE /\ b.page = "blank" /\ b.views = {} /\ b.token = "none"
         /\ b.dialog = FALSE /\ b.session = FALSE /\ b.security = FALSE /\ b.deferred = FALSE
         /\ b.chats = FALSE /\ b.open = FALSE /\ b.loose = FALSE /\ b.pending = FALSE
         /\ b.replacing = FALSE /\ b.grant = FALSE /\ b.issue = FALSE
         /\ \A t, x : Still(b, t, x) <=> Still(a, t, x) /\ x \notin Views \cup {"auth", "gen", "workspace", "epoch", "seal"}
<1> DEFINE b1 == Moved(a, "epoch")
           b2 == Moved(b1, "seal")
           b3 == Deactivate(b2)
           b4 == LockAccess(b3)
           b5 == [b4 EXCEPT !.dialog = FALSE]
           b6 == ClearSecret(b5)
           b7 == Drop(b6, {"key", "setup", "pin"})
           b8 == [b7 EXCEPT !.suspending = TRUE, !.page = "blank"]
<1>0. BeginSeal(a) = b8
  BY DEF BeginSeal
<1> HIDE DEF b1, b2, b3, b4, b5, b6, b7, b8
<1>1. /\ b1 \in Apps
      /\ Kept(b1, a, {})
      /\ \A t, x : Still(b1, t, x) <=> Still(a, t, x) /\ x # "epoch"
  BY MovedIs DEF b1
<1>2. /\ b2 \in Apps
      /\ Kept(b2, b1, {})
      /\ \A t, x : Still(b2, t, x) <=> Still(b1, t, x) /\ x # "seal"
  BY <1>1, MovedIs DEF b2
<1>3. /\ b3 \in Apps
      /\ Kept(b3, b2, {"session", "security", "deferred", "chats"})
      /\ b3.session = FALSE /\ b3.security = FALSE /\ b3.deferred = FALSE /\ b3.chats = FALSE
      /\ \A t, x : Still(b3, t, x) <=> Still(b2, t, x) /\ x \notin {"gen", "workspace"}
  BY <1>2, DeactivateIs DEF b3
<1>4. /\ b4 \in Apps
      /\ Kept(b4, b3, {"open", "loose", "pending", "replacing", "grant", "issue"})
      /\ b4.open = FALSE /\ b4.loose = FALSE /\ b4.pending = FALSE /\ b4.replacing = FALSE
      /\ b4.grant = FALSE /\ b4.issue = FALSE
      /\ \A t, x : Still(b4, t, x) <=> Still(b3, t, x) /\ x # "auth"
  BY <1>3, LockAccessIs DEF b4
<1>5. /\ b5 \in Apps
      /\ Kept(b5, b4, {"dialog"})
      /\ b5.dialog = FALSE
      /\ \A t, x : Still(b5, t, x) <=> Still(b4, t, x)
  BY <1>4, ZenonT(60) DEF b5, Apps, Kept, Still
<1>6. /\ b6 \in Apps
      /\ Kept(b6, b5, {"views", "token", "issue"})
      /\ b6.views = b5.views \ {"step", "entry", "codepin", "codeshow", "sysrec"}
      /\ b6.token = "none" /\ b6.issue = FALSE
      /\ \A t, x : Still(b6, t, x) <=> Still(b5, t, x) /\ x \notin {"step", "entry", "codepin", "codeshow", "sysrec"}
  BY <1>5, ClearSecretIs DEF b6
<1>7. /\ b7 \in Apps
      /\ Kept(b7, b6, {"views"})
      /\ b7.views = b6.views \ {"key", "setup", "pin"}
      /\ \A t, x : Still(b7, t, x) <=> Still(b6, t, x) /\ x \notin {"key", "setup", "pin"}
  BY <1>6, DropIs DEF b7
<1> "blank" \in Pages
  BY DEF Pages
<1>8. /\ b8 \in Apps
      /\ Kept(b8, b7, {"suspending", "page"})
      /\ b8.suspending = TRUE /\ b8.page = "blank"
      /\ \A t, x : Still(b8, t, x) <=> Still(b7, t, x)
  BY <1>7, ZenonT(60) DEF b8, Apps, Kept, Still
<1>9. Kept(b8, a, {"suspending", "page", "views", "token", "dialog", "session", "security", "deferred", "chats", "open", "loose", "pending", "replacing", "grant", "issue"})
  BY <1>1, <1>2, <1>3, <1>4, <1>5, <1>6, <1>7, <1>8 DEF Kept
<1>10. /\ b8.suspending = TRUE /\ b8.page = "blank" /\ b8.views = {} /\ b8.token = "none"
      /\ b8.dialog = FALSE /\ b8.session = FALSE /\ b8.security = FALSE
      /\ b8.deferred = FALSE /\ b8.chats = FALSE /\ b8.open = FALSE /\ b8.loose = FALSE
      /\ b8.pending = FALSE /\ b8.replacing = FALSE /\ b8.grant = FALSE /\ b8.issue = FALSE
  BY <1>1, <1>2, <1>3, <1>4, <1>5, <1>6, <1>7, <1>8 DEF Kept, Views, Apps
<1>11. \A t, x : Still(b8, t, x) <=> Still(a, t, x) /\ x \notin Views \cup {"auth", "gen", "workspace", "epoch", "seal"}
  BY <1>1, <1>2, <1>3, <1>4, <1>5, <1>6, <1>7, <1>8 DEF Views
<1> QED
  BY <1>0, <1>8, <1>9, <1>10, <1>11

\* The effect of EntryFailed: what it sets, what it keeps, and which captures
\* outlive it.
LEMMA EntryFailedIs ==
  ASSUME NEW a \in Apps
  PROVE  LET b == EntryFailed(a) IN
         /\ b \in Apps
         /\ Kept(b, a, {"page", "views", "token", "session", "security", "deferred", "chats", "open", "loose", "pending", "replacing", "grant", "issue"})
         /\ b.page = (IF a.closing THEN a.page ELSE "error") /\ b.views = {} /\ b.token = "none"
         /\ b.session = FALSE /\ b.security = FALSE /\ b.deferred = FALSE /\ b.chats = FALSE
         /\ b.open = FALSE /\ b.loose = FALSE /\ b.pending = FALSE /\ b.replacing = FALSE
         /\ b.grant = FALSE /\ b.issue = FALSE
         /\ \A t, x : Still(b, t, x) <=> Still(a, t, x) /\ x \notin Views \cup {"auth", "gen", "workspace"}
<1> DEFINE b1 == LockAccess(a)
           b2 == ClearSecret(b1)
           b3 == Drop(b2, {"key", "pin", "setup"})
           b4 == ShowError(b3)
<1>0. EntryFailed(a) = b4
  BY DEF EntryFailed
<1> HIDE DEF b1, b2, b3, b4
<1>1. /\ b1 \in Apps
      /\ Kept(b1, a, {"open", "loose", "pending", "replacing", "grant", "issue"})
      /\ b1.open = FALSE /\ b1.loose = FALSE /\ b1.pending = FALSE /\ b1.replacing = FALSE
      /\ b1.grant = FALSE /\ b1.issue = FALSE
      /\ \A t, x : Still(b1, t, x) <=> Still(a, t, x) /\ x # "auth"
  BY LockAccessIs DEF b1
<1>2. /\ b2 \in Apps
      /\ Kept(b2, b1, {"views", "token", "issue"})
      /\ b2.views = b1.views \ {"step", "entry", "codepin", "codeshow", "sysrec"}
      /\ b2.token = "none" /\ b2.issue = FALSE
      /\ \A t, x : Still(b2, t, x) <=> Still(b1, t, x) /\ x \notin {"step", "entry", "codepin", "codeshow", "sysrec"}
  BY <1>1, ClearSecretIs DEF b2
<1>3. /\ b3 \in Apps
      /\ Kept(b3, b2, {"views"})
      /\ b3.views = b2.views \ {"key", "pin", "setup"}
      /\ \A t, x : Still(b3, t, x) <=> Still(b2, t, x) /\ x \notin {"key", "pin", "setup"}
  BY <1>2, DropIs DEF b3
<1>4. /\ b4 \in Apps
      /\ Kept(b4, b3, {"page", "session", "security", "deferred", "chats"})
      /\ b4.page = (IF b3.closing THEN b3.page ELSE "error") /\ b4.session = FALSE
      /\ b4.security = FALSE /\ b4.deferred = FALSE /\ b4.chats = FALSE
      /\ \A t, x : Still(b4, t, x) <=> Still(b3, t, x) /\ x \notin {"gen", "workspace"}
  BY <1>3, ShowErrorIs DEF b4
<1>5. Kept(b4, a, {"page", "views", "token", "session", "security", "deferred", "chats", "open", "loose", "pending", "replacing", "grant", "issue"})
  BY <1>1, <1>2, <1>3, <1>4 DEF Kept
<1>6. /\ b4.page = (IF a.closing THEN a.page ELSE "error") /\ b4.views = {}
      /\ b4.token = "none" /\ b4.session = FALSE /\ b4.security = FALSE
      /\ b4.deferred = FALSE /\ b4.chats = FALSE /\ b4.open = FALSE /\ b4.loose = FALSE
      /\ b4.pending = FALSE /\ b4.replacing = FALSE /\ b4.grant = FALSE /\ b4.issue = FALSE
  BY <1>1, <1>2, <1>3, <1>4 DEF Kept, Views, Apps
<1>7. \A t, x : Still(b4, t, x) <=> Still(a, t, x) /\ x \notin Views \cup {"auth", "gen", "workspace"}
  BY <1>1, <1>2, <1>3, <1>4 DEF Views
<1> QED
  BY <1>0, <1>4, <1>5, <1>6, <1>7

\* The effect of Pends: what it sets, what it keeps, and which captures
\* outlive it.
LEMMA PendsIs ==
  ASSUME NEW a \in Apps
  PROVE  LET b == Pends(a) IN
         /\ b \in Apps
         /\ Kept(b, a, {"pending"})
         /\ b.pending = TRUE
         /\ \A t, x : Still(b, t, x) <=> Still(a, t, x)
  BY ZenonT(60) DEF Pends, Apps, Kept, Still

\* The effect of Reopens: what it sets, what it keeps, and which captures
\* outlive it.
LEMMA ReopensIs ==
  ASSUME NEW a \in Apps
  PROVE  LET b == Reopens(a) IN
         /\ b \in Apps
         /\ Kept(b, a, {"open", "replacing"})
         /\ b.open = TRUE /\ b.replacing = FALSE
         /\ \A t, x : Still(b, t, x) <=> Still(a, t, x)
  BY ZenonT(60) DEF Reopens, Apps, Kept, Still

\* The effect of Onboards: what it sets, what it keeps, and which captures
\* outlive it.
LEMMA OnboardsIs ==
  ASSUME NEW a \in Apps
  PROVE  LET b == Onboards(a) IN
         /\ b \in Apps
         /\ Kept(b, a, {"onboarding"})
         /\ b.onboarding = TRUE
         /\ \A t, x : Still(b, t, x) <=> Still(a, t, x)
  BY ZenonT(60) DEF Onboards, Apps, Kept, Still

\* The effect of Onboarded: what it sets, what it keeps, and which captures
\* outlive it.
LEMMA OnboardedIs ==
  ASSUME NEW a \in Apps
  PROVE  LET b == Onboarded(a) IN
         /\ b \in Apps
         /\ Kept(b, a, {"onboarding"})
         /\ b.onboarding = FALSE
         /\ \A t, x : Still(b, t, x) <=> Still(a, t, x)
  BY ZenonT(60) DEF Onboarded, Apps, Kept, Still

\* The effect of Registers: what it sets, what it keeps, and which captures
\* outlive it.
LEMMA RegistersIs ==
  ASSUME NEW a \in Apps
  PROVE  LET b == Registers(a) IN
         /\ b \in Apps
         /\ Kept(b, a, {"registered"})
         /\ b.registered = TRUE
         /\ \A t, x : Still(b, t, x) <=> Still(a, t, x)
  BY ZenonT(60) DEF Registers, Apps, Kept, Still

\* The effect of Opens: what it sets, what it keeps, and which captures
\* outlive it.
LEMMA OpensIs ==
  ASSUME NEW a \in Apps
  PROVE  LET b == Opens(a) IN
         /\ b \in Apps
         /\ Kept(b, a, {"open"})
         /\ b.open = TRUE
         /\ \A t, x : Still(b, t, x) <=> Still(a, t, x)
  BY ZenonT(60) DEF Opens, Apps, Kept, Still

\* The effect of Shuts: what it sets, what it keeps, and which captures
\* outlive it.
LEMMA ShutsIs ==
  ASSUME NEW a \in Apps
  PROVE  LET b == Shuts(a) IN
         /\ b \in Apps
         /\ Kept(b, a, {"open", "loose"})
         /\ b.open = FALSE /\ b.loose = FALSE
         /\ \A t, x : Still(b, t, x) <=> Still(a, t, x)
  BY ZenonT(60) DEF Shuts, Apps, Kept, Still

\* The effect of OpensLogin: what it sets, what it keeps, and which captures
\* outlive it.
LEMMA OpensLoginIs ==
  ASSUME NEW a \in Apps
  PROVE  LET b == OpensLogin(a) IN
         /\ b \in Apps
         /\ Kept(b, a, {"open", "loose"})
         /\ b.open = TRUE /\ b.loose = (~Still(a, "op", "seal"))
         /\ \A t, x : Still(b, t, x) <=> Still(a, t, x)
  BY ZenonT(60) DEF OpensLogin, Apps, Kept, Still

\* The effect of Handles: what it sets, what it keeps, and which captures
\* outlive it.
LEMMA HandlesIs ==
  ASSUME NEW a \in Apps
  PROVE  LET b == Handles(a) IN
         /\ b \in Apps
         /\ Kept(b, a, {"handled", "deferred"})
         /\ b.handled = TRUE /\ b.deferred = FALSE
         /\ \A t, x : Still(b, t, x) <=> Still(a, t, x)
  BY ZenonT(60) DEF Handles, Apps, Kept, Still

\* The effect of Grants: what it sets, what it keeps, and which captures
\* outlive it.
LEMMA GrantsIs ==
  ASSUME NEW a \in Apps
  PROVE  LET b == Grants(a) IN
         /\ b \in Apps
         /\ Kept(b, a, {"grant"})
         /\ b.grant = TRUE
         /\ \A t, x : Still(b, t, x) <=> Still(a, t, x)
  BY ZenonT(60) DEF Grants, Apps, Kept, Still

\* The effect of PromptUp: what it sets, what it keeps, and which captures
\* outlive it.
LEMMA PromptUpIs ==
  ASSUME NEW a \in Apps
  PROVE  LET b == PromptUp(a) IN
         /\ b \in Apps
         /\ Kept(b, a, {"prompt"})
         /\ b.prompt = "shown"
         /\ \A t, x : Still(b, t, x) <=> Still(a, t, x)
  BY ZenonT(60) DEF PromptUp, Apps, Kept, Still

\* The effect of PromptDown: what it sets, what it keeps, and which captures
\* outlive it.
LEMMA PromptDownIs ==
  ASSUME NEW a \in Apps
  PROVE  LET b == PromptDown(a) IN
         /\ b \in Apps
         /\ Kept(b, a, {"prompt"})
         /\ b.prompt = "none"
         /\ \A t, x : Still(b, t, x) <=> Still(a, t, x)
  BY ZenonT(60) DEF PromptDown, Apps, Kept, Still

\* The effect of PromptGives: what it sets, what it keeps, and which captures
\* outlive it.
LEMMA PromptGivesIs ==
  ASSUME NEW a \in Apps
  PROVE  LET b == PromptGives(a) IN
         /\ b \in Apps
         /\ Kept(b, a, {"grant", "prompt"})
         /\ b.grant = TRUE /\ b.prompt = "none"
         /\ \A t, x : Still(b, t, x) <=> Still(a, t, x)
  BY ZenonT(60) DEF PromptGives, Apps, Kept, Still

\* The effect of GrantUsed: what it sets, what it keeps, and which captures
\* outlive it.
LEMMA GrantUsedIs ==
  ASSUME NEW a \in Apps
  PROVE  LET b == GrantUsed(a) IN
         /\ b \in Apps
         /\ Kept(b, a, {"open", "grant"})
         /\ b.open = TRUE /\ b.grant = FALSE
         /\ \A t, x : Still(b, t, x) <=> Still(a, t, x)
  BY ZenonT(60) DEF GrantUsed, Apps, Kept, Still

\* The effect of Secures: what it sets, what it keeps, and which captures
\* outlive it.
LEMMA SecuresIs ==
  ASSUME NEW a \in Apps
  PROVE  LET b == Secures(a) IN
         /\ b \in Apps
         /\ Kept(b, a, {"security"})
         /\ b.security = TRUE
         /\ \A t, x : Still(b, t, x) <=> Still(a, t, x)
  BY ZenonT(60) DEF Secures, Apps, Kept, Still

\* The effect of Unsecures: what it sets, what it keeps, and which captures
\* outlive it.
LEMMA UnsecuresIs ==
  ASSUME NEW a \in Apps
  PROVE  LET b == Unsecures(a) IN
         /\ b \in Apps
         /\ Kept(b, a, {"security"})
         /\ b.security = FALSE
         /\ \A t, x : Still(b, t, x) <=> Still(a, t, x)
  BY ZenonT(60) DEF Unsecures, Apps, Kept, Still

\* The effect of Issues: what it sets, what it keeps, and which captures
\* outlive it.
LEMMA IssuesIs ==
  ASSUME NEW a \in Apps
  PROVE  LET b == Issues(a) IN
         /\ b \in Apps
         /\ Kept(b, a, {"issue"})
         /\ b.issue = (Still(a, "op", "auth") /\ a.open)
         /\ \A t, x : Still(b, t, x) <=> Still(a, t, x)
  BY ZenonT(60) DEF Issues, Apps, Kept, Still

\* The effect of Unissues: what it sets, what it keeps, and which captures
\* outlive it.
LEMMA UnissuesIs ==
  ASSUME NEW a \in Apps
  PROVE  LET b == Unissues(a) IN
         /\ b \in Apps
         /\ Kept(b, a, {"issue"})
         /\ b.issue = FALSE
         /\ \A t, x : Still(b, t, x) <=> Still(a, t, x)
  BY ZenonT(60) DEF Unissues, Apps, Kept, Still

\* The effect of Consumes: what it sets, what it keeps, and which captures
\* outlive it.
LEMMA ConsumesIs ==
  ASSUME NEW a \in Apps
  PROVE  LET b == Consumes(a) IN
         /\ b \in Apps
         /\ Kept(b, a, {"issue"})
         /\ b.issue = (a.issue /\ ~(Still(a, "op", "auth") /\ a.open /\ a.issue))
         /\ \A t, x : Still(b, t, x) <=> Still(a, t, x)
  BY ZenonT(60) DEF Consumes, Apps, Kept, Still

\* The effect of DialogUp: what it sets, what it keeps, and which captures
\* outlive it.
LEMMA DialogUpIs ==
  ASSUME NEW a \in Apps
  PROVE  LET b == DialogUp(a) IN
         /\ b \in Apps
         /\ Kept(b, a, {"dialog"})
         /\ b.dialog = TRUE
         /\ \A t, x : Still(b, t, x) <=> Still(a, t, x)
  BY ZenonT(60) DEF DialogUp, Apps, Kept, Still

\* The effect of DialogDown: what it sets, what it keeps, and which captures
\* outlive it.
LEMMA DialogDownIs ==
  ASSUME NEW a \in Apps
  PROVE  LET b == DialogDown(a) IN
         /\ b \in Apps
         /\ Kept(b, a, {"dialog"})
         /\ b.dialog = FALSE
         /\ \A t, x : Still(b, t, x) <=> Still(a, t, x)
  BY ZenonT(60) DEF DialogDown, Apps, Kept, Still

\* The effect of Replaces: what it sets, what it keeps, and which captures
\* outlive it.
LEMMA ReplacesIs ==
  ASSUME NEW a \in Apps
  PROVE  LET b == Replaces(a) IN
         /\ b \in Apps
         /\ Kept(b, a, {"open", "replacing"})
         /\ b.open = FALSE /\ b.replacing = TRUE
         /\ \A t, x : Still(b, t, x) <=> Still(a, t, x)
  BY ZenonT(60) DEF Replaces, Apps, Kept, Still

\* The effect of ChatsAway: what it sets, what it keeps, and which captures
\* outlive it.
LEMMA ChatsAwayIs ==
  ASSUME NEW a \in Apps
  PROVE  LET b == ChatsAway(a) IN
         /\ b \in Apps
         /\ Kept(b, a, {"chats"})
         /\ b.chats = FALSE
         /\ \A t, x : Still(b, t, x) <=> Still(a, t, x)
  BY ZenonT(60) DEF ChatsAway, Apps, Kept, Still

\* The effect of ChatsUp: what it sets, what it keeps, and which captures
\* outlive it.
LEMMA ChatsUpIs ==
  ASSUME NEW a \in Apps
  PROVE  LET b == ChatsUp(a) IN
         /\ b \in Apps
         /\ Kept(b, a, {"page", "chats"})
         /\ b.page = "chats" /\ b.chats = TRUE
         /\ \A t, x : Still(b, t, x) <=> Still(a, t, x)
  BY ZenonT(60) DEF ChatsUp, Apps, Kept, Still, Pages

\* The effect of Loosens: what it sets, what it keeps, and which captures
\* outlive it.
LEMMA LoosensIs ==
  ASSUME NEW a \in Apps
  PROVE  LET b == Loosens(a) IN
         /\ b \in Apps
         /\ Kept(b, a, {"loose"})
         /\ b.loose = a.open
         /\ \A t, x : Still(b, t, x) <=> Still(a, t, x)
  BY ZenonT(60) DEF Loosens, Apps, Kept, Still

\* The effect of Shut: what it sets, what it keeps, and which captures outlive
\* it.
LEMMA ShutIs ==
  ASSUME NEW a \in Apps
  PROVE  LET b == Shut(a) IN
         /\ b \in Apps
         /\ Kept(b, a, {"open"})
         /\ b.open = FALSE
         /\ \A t, x : Still(b, t, x) <=> Still(a, t, x)
  BY ZenonT(60) DEF Shut, Apps, Kept, Still

\* The effect of Relocks: what it sets, what it keeps, and which captures
\* outlive it.
LEMMA RelocksIs ==
  ASSUME NEW a \in Apps
  PROVE  LET b == Relocks(a) IN
         /\ b \in Apps
         /\ Kept(b, a, {"relocked"})
         /\ b.relocked = (task["op"].kind = "login")
         /\ \A t, x : Still(b, t, x) <=> Still(a, t, x)
  BY ZenonT(60) DEF Relocks, Apps, Kept, Still

\* The effect of Backs: what it sets, what it keeps, and which captures
\* outlive it.
LEMMA BacksIs ==
  ASSUME NEW a \in Apps
  PROVE  LET b == Backs(a) IN
         /\ b \in Apps
         /\ Kept(b, a, {"background"})
         /\ b.background = TRUE
         /\ \A t, x : Still(b, t, x) <=> Still(a, t, x)
  BY ZenonT(60) DEF Backs, Apps, Kept, Still

\* The effect of Fronts: what it sets, what it keeps, and which captures
\* outlive it.
LEMMA FrontsIs ==
  ASSUME NEW a \in Apps
  PROVE  LET b == Fronts(a) IN
         /\ b \in Apps
         /\ Kept(b, a, {"background"})
         /\ b.background = FALSE
         /\ \A t, x : Still(b, t, x) <=> Still(a, t, x)
  BY ZenonT(60) DEF Fronts, Apps, Kept, Still

\* The effect of SealEnded: what it sets, what it keeps, and which captures
\* outlive it.
LEMMA SealEndedIs ==
  ASSUME NEW a \in Apps
  PROVE  LET b == SealEnded(a) IN
         /\ b \in Apps
         /\ Kept(b, a, {"suspending"})
         /\ b.suspending = a.closing
         /\ \A t, x : Still(b, t, x) <=> Still(a, t, x)
  BY ZenonT(60) DEF SealEnded, Apps, Kept, Still

\* The effect of Unseals: what it sets, what it keeps, and which captures
\* outlive it.
LEMMA UnsealsIs ==
  ASSUME NEW a \in Apps
  PROVE  LET b == Unseals(a) IN
         /\ b \in Apps
         /\ Kept(b, a, {"suspending"})
         /\ b.suspending = FALSE
         /\ \A t, x : Still(b, t, x) <=> Still(a, t, x)
  BY ZenonT(60) DEF Unseals, Apps, Kept, Still

\* The effect of ClosesForGood: what it sets, what it keeps, and which
\* captures outlive it.
LEMMA ClosesForGoodIs ==
  ASSUME NEW a \in Apps
  PROVE  LET b == ClosesForGood(a) IN
         /\ b \in Apps
         /\ Kept(b, a, {"background", "closing"})
         /\ b.background = TRUE /\ b.closing = TRUE
         /\ \A t, x : Still(b, t, x) <=> Still(a, t, x)
  BY ZenonT(60) DEF ClosesForGood, Apps, Kept, Still

\* One coroutine moves, the others stay where they are.
MovesTo(t, kind, pc) ==
    /\ task' \in Taskings /\ task'[t].kind = kind /\ task'[t].pc = pc
    /\ \A u \in Tasks \ {t} : task'[u] = task[u]
\* Two coroutines move, the others stay where they are.
MovesBoth(t, kind, pc, u, kind2, pc2) ==
    /\ task' \in Taskings /\ task'[t].kind = kind /\ task'[t].pc = pc
    /\ task'[u].kind = kind2 /\ task'[u].pc = pc2
    /\ \A x \in Tasks \ {t, u} : task'[x] = task[x]

-----------------------------------------------------------------------------
(* The steps of the operations before and at the PIN.                      *)

\* Start: no coroutine moves, the application changes by ShowError.
LEMMA ErrorAgainSafe ==
  ASSUME RoutesInv, left' \in Lefts,
         app.page = "error" /\ Free /\ Rests("op") /\ Busy,
         app' = ShowError(app),
         UNCHANGED task
  PROVE  RoutesInv'
<1>1. app \in Apps /\ task \in Taskings
  BY DEF RoutesInv, RoutesType
<1>2. app' = ShowError(app)
  OBVIOUS
<1>3. /\ app' \in Apps
      /\ Kept(app', app, {"page", "session", "security", "deferred", "chats"})
      /\ app'.page = (IF app.closing THEN app.page ELSE "error") /\ app'.session = FALSE
      /\ app'.security = FALSE /\ app'.deferred = FALSE /\ app'.chats = FALSE
  BY ONLY <1>2, <1>1, ShowErrorIs
<1>4. \A t, x : Still(app', t, x) <=> Still(app, t, x) /\ x \notin {"gen", "workspace"}
  BY ONLY <1>2, <1>1, ShowErrorIs
<1> USE <1>1, <1>3, <1>4 DEF RoutesInv, Kept, MovesTo, MovesBoth, In, Op, Rests, Shows, Offers, Resuming, Locking,
       Busy, Entering, Moving, NoRights, NoView, Onboarding, Views, Whats, Tasks, Holders, Pcs,
       Free, Opened, ChatFree, AuthCall
<1>5. RoutesType'
  BY DEF RoutesType
<1>6. InOrder'
  BY DEF InOrder
<1>7. OneView' /\ HeldViews'
  BY DEF OneView, HeldViews
<1>8. HeldAtWork'
  BY DEF HeldAtWork
<1>9. OldHoldNothing' /\ SessionFlags' /\ SessionViews' /\ Generations' /\ Handovers'
  BY DEF OldHoldNothing, SessionFlags, SessionViews, Generations, Handovers, SessionShown
<1>10. SessionShown' /\ Sealing' /\ Sealed' /\ OpHolds' /\ OpAuth'
  BY DEF SessionShown, Sealing, Sealed, OpHolds, OpAuth, HeldAtWork
<1>11. OpFront' /\ Rights' /\ OpenIs' /\ EntersOpen'
  BY DEF OpFront, Rights, OpenIs, EntersOpen, PageIs
<1>12. Registered' /\ FirstRun' /\ PageIs'
  BY DEF Registered, FirstRun, PageIs
<1> QED
  BY ONLY <1>5, <1>6, <1>7, <1>8, <1>9, <1>10, <1>11, <1>12

\* Start: the operation goes on at "ask" of "start", the application changes
\* in its captures at most.
LEMMA StartBeginsSafe ==
  ASSUME RoutesInv, left' \in Lefts,
         app.page = "error" /\ ~Busy /\ Free /\ Rests("op"),
         app' = Capture(app, "op", {"epoch", "seal"}),
         MovesTo("op", "start", "ask")
  PROVE  RoutesInv'
<1>1. app \in Apps /\ task \in Taskings
  BY DEF RoutesInv, RoutesType
<1>2. app' = Capture(app, "op", {"epoch", "seal"})
  OBVIOUS
<1>3. "op" \in Holders /\ {"epoch", "seal"} \in SUBSET Whats
  BY DEF Holders, Tasks, Whats, Views
<1>4. /\ app' \in Apps
      /\ Kept(app', app, {})
  BY ONLY <1>2, <1>1, <1>3, CaptureIs
<1>5. \A t, x : Still(app', t, x) <=> (Still(app, t, x)) \/ (t = "op" /\ x \in {"epoch", "seal"})
  BY ONLY <1>2, <1>1, <1>3, CaptureIs
<1> USE <1>1, <1>4, <1>5 DEF RoutesInv, Kept, MovesTo, MovesBoth, In, Op, Rests, Shows, Offers, Resuming, Locking,
       Busy, Entering, Moving, NoRights, NoView, Onboarding, Views, Whats, Tasks, Holders, Pcs,
       Free, Opened, ChatFree, AuthCall
<1>6. RoutesType'
  BY DEF RoutesType
<1>7. InOrder'
  BY DEF InOrder
<1>8. OneView' /\ HeldViews'
  BY DEF OneView, HeldViews
<1>9. HeldAtWork'
  BY DEF HeldAtWork
<1>10. OldHoldNothing' /\ SessionFlags' /\ SessionViews' /\ Generations' /\ Handovers'
  BY DEF OldHoldNothing, SessionFlags, SessionViews, Generations, Handovers
<1>11. SessionShown' /\ Sealing' /\ Sealed' /\ OpHolds' /\ OpAuth'
  BY DEF SessionShown, Sealing, Sealed, OpHolds, OpAuth, PageIs, HeldAtWork
<1>12. OpFront' /\ Rights' /\ OpenIs' /\ EntersOpen'
  BY DEF OpFront, Rights, OpenIs, EntersOpen, PageIs
<1>13. Registered' /\ FirstRun' /\ PageIs'
  BY DEF Registered, FirstRun, PageIs
<1> QED
  BY ONLY <1>6, <1>7, <1>8, <1>9, <1>10, <1>11, <1>12, <1>13

\* StartAnswer, KeyAnswer: the operation ends, the application changes by
\* ShowPin.
LEMMA PinShownSafe ==
  ASSUME RoutesInv, left' \in Lefts,
         \/ Op("start", {"ask"}) /\ Still(app, "op", "epoch") /\ app.registered
         \/ Op("key", {"check"}) /\ Still(app, "op", "auth") /\ Still(app, "op", "key") /\ ~app.replacing /\ app.registered,
         app' = Forget(ShowPin(app), "op"),
         MovesTo("op", "none", "idle")
  PROVE  RoutesInv'
<1>1. app \in Apps /\ task \in Taskings
  BY DEF RoutesInv, RoutesType
<1> DEFINE b1 == ShowPin(app)
<1>2. app' = Forget(b1, "op")
  OBVIOUS
<1> HIDE DEF b1
<1>3. /\ b1 \in Apps
      /\ Kept(b1, app, {"page", "views", "token", "dialog", "session", "security", "deferred", "chats", "relocked", "issue"})
      /\ b1.page = (IF app.closing THEN app.page ELSE "pin") /\ b1.views = {"pin"}
      /\ b1.token = "none" /\ b1.dialog = FALSE /\ b1.session = FALSE /\ b1.security = FALSE
      /\ b1.deferred = FALSE /\ b1.chats = FALSE /\ b1.relocked = FALSE /\ b1.issue = FALSE
  BY ONLY <1>1, ShowPinIs DEF b1
<1>4. \A t, x : Still(b1, t, x) <=> Still(app, t, x) /\ x \notin Views \cup {"gen", "workspace"}
  BY ONLY <1>1, ShowPinIs DEF b1
<1>5. /\ app' \in Apps
      /\ Kept(app', b1, {})
  BY ONLY <1>2, <1>3, ForgetIs
<1>6. \A t, x : Still(app', t, x) <=> Still(b1, t, x) /\ t # "op"
  BY ONLY <1>2, <1>3, ForgetIs
<1>7. /\ Kept(app', app, {"page", "views", "token", "dialog", "session", "security", "deferred", "chats", "relocked", "issue"})
      /\ app'.page = (IF app.closing THEN app.page ELSE "pin") /\ app'.views = {"pin"}
      /\ app'.token = "none" /\ app'.dialog = FALSE /\ app'.session = FALSE
      /\ app'.security = FALSE /\ app'.deferred = FALSE /\ app'.chats = FALSE
      /\ app'.relocked = FALSE /\ app'.issue = FALSE
  BY ONLY <1>3, <1>5 DEF Kept, Views, Apps
<1>8. \A t, x : Still(app', t, x) <=> Still(app, t, x) /\ x \notin Views \cup {"gen", "workspace"} /\ t # "op"
  BY ONLY <1>4, <1>6 DEF Views
<1> USE <1>1, <1>5, <1>7, <1>8 DEF RoutesInv, Kept, MovesTo, MovesBoth, In, Op, Rests, Shows, Offers, Resuming, Locking,
       Busy, Entering, Moving, NoRights, NoView, Onboarding, Views, Whats, Tasks, Holders, Pcs,
       Free, Opened, ChatFree, AuthCall
<1>9. RoutesType'
  BY DEF RoutesType
<1>10. InOrder'
  BY DEF InOrder
<1>11. OneView' /\ HeldViews'
  BY DEF OneView, HeldViews
<1>12. HeldAtWork'
  BY DEF HeldAtWork
<1>13. OldHoldNothing' /\ SessionFlags' /\ SessionViews' /\ Generations' /\ Handovers'
  BY DEF OldHoldNothing, SessionFlags, SessionViews, Generations, Handovers
<1>14. SessionShown' /\ Sealing' /\ Sealed' /\ OpHolds' /\ OpAuth'
  BY DEF SessionShown, Sealing, Sealed, OpHolds, OpAuth
<1>15. OpFront' /\ Rights' /\ OpenIs' /\ EntersOpen'
  BY DEF OpFront, Rights, OpenIs, EntersOpen, Sealed, HeldViews, OpHolds, PageIs, OneView,
        SessionViews
<1>16. Registered' /\ FirstRun' /\ PageIs'
  BY DEF Registered, FirstRun, PageIs, Sealing
<1> QED
  BY ONLY <1>9, <1>10, <1>11, <1>12, <1>13, <1>14, <1>15, <1>16

\* StartAnswer: the operation ends, the application changes by ShowKey.
LEMMA KeyShownSafe ==
  ASSUME RoutesInv, left' \in Lefts,
         Op("start", {"ask"}) /\ Still(app, "op", "epoch") /\ ~app.registered,
         app' = Forget(ShowKey(app), "op"),
         MovesTo("op", "none", "idle")
  PROVE  RoutesInv'
<1>1. app \in Apps /\ task \in Taskings
  BY DEF RoutesInv, RoutesType
<1> DEFINE b1 == ShowKey(app)
<1>2. app' = Forget(b1, "op")
  OBVIOUS
<1> HIDE DEF b1
<1>3. /\ b1 \in Apps
      /\ Kept(b1, app, {"page", "views", "token", "session", "security", "deferred", "chats", "issue"})
      /\ b1.page = (IF app.closing THEN app.page ELSE "key") /\ b1.views = {"key"}
      /\ b1.token = "none" /\ b1.session = FALSE /\ b1.security = FALSE
      /\ b1.deferred = FALSE /\ b1.chats = FALSE /\ b1.issue = FALSE
  BY ONLY <1>1, ShowKeyIs DEF b1
<1>4. \A t, x : Still(b1, t, x) <=> Still(app, t, x) /\ x \notin Views \cup {"gen", "workspace"}
  BY ONLY <1>1, ShowKeyIs DEF b1
<1>5. /\ app' \in Apps
      /\ Kept(app', b1, {})
  BY ONLY <1>2, <1>3, ForgetIs
<1>6. \A t, x : Still(app', t, x) <=> Still(b1, t, x) /\ t # "op"
  BY ONLY <1>2, <1>3, ForgetIs
<1>7. /\ Kept(app', app, {"page", "views", "token", "session", "security", "deferred", "chats", "issue"})
      /\ app'.page = (IF app.closing THEN app.page ELSE "key") /\ app'.views = {"key"}
      /\ app'.token = "none" /\ app'.session = FALSE /\ app'.security = FALSE
      /\ app'.deferred = FALSE /\ app'.chats = FALSE /\ app'.issue = FALSE
  BY ONLY <1>3, <1>5 DEF Kept, Views, Apps
<1>8. \A t, x : Still(app', t, x) <=> Still(app, t, x) /\ x \notin Views \cup {"gen", "workspace"} /\ t # "op"
  BY ONLY <1>4, <1>6 DEF Views
<1> USE <1>1, <1>5, <1>7, <1>8 DEF RoutesInv, Kept, MovesTo, MovesBoth, In, Op, Rests, Shows, Offers, Resuming, Locking,
       Busy, Entering, Moving, NoRights, NoView, Onboarding, Views, Whats, Tasks, Holders, Pcs,
       Free, Opened, ChatFree, AuthCall
<1>9. RoutesType'
  BY DEF RoutesType
<1>10. InOrder'
  BY DEF InOrder
<1>11. OneView' /\ HeldViews'
  BY DEF OneView, HeldViews
<1>12. HeldAtWork'
  BY DEF HeldAtWork
<1>13. OldHoldNothing' /\ SessionFlags' /\ SessionViews' /\ Generations' /\ Handovers'
  BY DEF OldHoldNothing, SessionFlags, SessionViews, Generations, Handovers
<1>14. SessionShown' /\ Sealing' /\ Sealed' /\ OpHolds' /\ OpAuth'
  BY DEF SessionShown, Sealing, Sealed, OpHolds, OpAuth
<1>15. OpFront' /\ Rights' /\ OpenIs' /\ EntersOpen'
  BY DEF OpFront, Rights, OpenIs, EntersOpen, PageIs, Sealed, OpHolds, Registered
<1>16. Registered' /\ FirstRun' /\ PageIs'
  BY DEF Registered, FirstRun, PageIs, Sealing
<1> QED
  BY ONLY <1>9, <1>10, <1>11, <1>12, <1>13, <1>14, <1>15, <1>16

\* StartAnswer: the operation ends, the application changes by ShowError.
LEMMA ErrorShownSafe ==
  ASSUME RoutesInv, left' \in Lefts,
         Op("start", {"ask"}) /\ Still(app, "op", "epoch"),
         app' = Forget(ShowError(app), "op"),
         MovesTo("op", "none", "idle")
  PROVE  RoutesInv'
<1>1. app \in Apps /\ task \in Taskings
  BY DEF RoutesInv, RoutesType
<1> DEFINE b1 == ShowError(app)
<1>2. app' = Forget(b1, "op")
  OBVIOUS
<1> HIDE DEF b1
<1>3. /\ b1 \in Apps
      /\ Kept(b1, app, {"page", "session", "security", "deferred", "chats"})
      /\ b1.page = (IF app.closing THEN app.page ELSE "error") /\ b1.session = FALSE
      /\ b1.security = FALSE /\ b1.deferred = FALSE /\ b1.chats = FALSE
  BY ONLY <1>1, ShowErrorIs DEF b1
<1>4. \A t, x : Still(b1, t, x) <=> Still(app, t, x) /\ x \notin {"gen", "workspace"}
  BY ONLY <1>1, ShowErrorIs DEF b1
<1>5. /\ app' \in Apps
      /\ Kept(app', b1, {})
  BY ONLY <1>2, <1>3, ForgetIs
<1>6. \A t, x : Still(app', t, x) <=> Still(b1, t, x) /\ t # "op"
  BY ONLY <1>2, <1>3, ForgetIs
<1>7. /\ Kept(app', app, {"page", "session", "security", "deferred", "chats"})
      /\ app'.page = (IF app.closing THEN app.page ELSE "error") /\ app'.session = FALSE
      /\ app'.security = FALSE /\ app'.deferred = FALSE /\ app'.chats = FALSE
  BY ONLY <1>3, <1>5 DEF Kept, Views, Apps
<1>8. \A t, x : Still(app', t, x) <=> Still(app, t, x) /\ x \notin {"gen", "workspace"} /\ t # "op"
  BY ONLY <1>4, <1>6 DEF Views
<1> USE <1>1, <1>5, <1>7, <1>8 DEF RoutesInv, Kept, MovesTo, MovesBoth, In, Op, Rests, Shows, Offers, Resuming, Locking,
       Busy, Entering, Moving, NoRights, NoView, Onboarding, Views, Whats, Tasks, Holders, Pcs,
       Free, Opened, ChatFree, AuthCall
<1>9. RoutesType'
  BY DEF RoutesType
<1>10. InOrder'
  BY DEF InOrder
<1>11. OneView' /\ HeldViews'
  BY DEF OneView, HeldViews
<1>12. HeldAtWork'
  BY DEF HeldAtWork
<1>13. OldHoldNothing' /\ SessionFlags' /\ SessionViews' /\ Generations' /\ Handovers'
  BY DEF OldHoldNothing, SessionFlags, SessionViews, Generations, Handovers, OpHolds, Sealed,
        SessionShown
<1>14. SessionShown' /\ Sealing' /\ Sealed' /\ OpHolds' /\ OpAuth'
  BY DEF SessionShown, Sealing, Sealed, OpHolds, OpAuth
<1>15. OpFront' /\ Rights' /\ OpenIs' /\ EntersOpen'
  BY DEF OpFront, Rights, OpenIs, EntersOpen, Sealed, OpHolds
<1>16. Registered' /\ FirstRun' /\ PageIs'
  BY DEF Registered, FirstRun, PageIs, OpHolds, Sealing
<1> QED
  BY ONLY <1>9, <1>10, <1>11, <1>12, <1>13, <1>14, <1>15, <1>16

\* StartAnswer, KeyAnswer, KeySaved and others: the operation ends, the
\* application changes in its captures at most.
LEMMA OpEndsSafe ==
  ASSUME RoutesInv, left' \in Lefts,
         \/ Op("start", {"ask"}) /\ ~Still(app, "op", "epoch")
         \/ Op("key", {"check"}) /\ Still(app, "op", "key")
         \/ Op("key", {"save"}) /\ Still(app, "op", "key")
         \/ Op("setup", {"prefs"})
         \/ Op("login", {"verify", "verify_step"})
         \/ Op("login", {"read", "read_step"}) /\ ~Still(app, "op", "pin")
         \/ Op("resume", {"prefs"}) /\ ~(Still(app, "op", "epoch") /\ app.session /\ app.open)
         \/ Op("cont", {"prefs"}) /\ ~(Still(app, "op", "epoch") /\ Still(app, "op", "step") /\ Opened)
         \/ task["op"].kind \in {"entry", "newpin"} /\ task["op"].pc = "ask" /\ ~Still(app, "op", "epoch")
         \/ Op("code", {"check"})
         \/ Op("sysrec", {"prepare"}) /\ ~Still(app, "op", "auth")
         \/ Op("begincode", {"check"})
         \/ Op("confirm", {"check"})
         \/ Op("reset", {"flush"})
         \/ task["op"].kind \in {"settings", "newpin", "cont"} /\ task["op"].pc = "flush" /\ ~Still(app, "op", "gen")
         \/ task["op"].pc = "show" /\ ~Still(app, "op", "gen"),
         app' = Forget(app, "op"),
         MovesTo("op", "none", "idle")
  PROVE  RoutesInv'
<1>1. app \in Apps /\ task \in Taskings
  BY DEF RoutesInv, RoutesType
<1>2. app' = Forget(app, "op")
  OBVIOUS
<1>3. /\ app' \in Apps
      /\ Kept(app', app, {})
  BY ONLY <1>2, <1>1, ForgetIs
<1>4. \A t, x : Still(app', t, x) <=> Still(app, t, x) /\ t # "op"
  BY ONLY <1>2, <1>1, ForgetIs
<1> USE <1>1, <1>3, <1>4 DEF RoutesInv, Kept, MovesTo, MovesBoth, In, Op, Rests, Shows, Offers, Resuming, Locking,
       Busy, Entering, Moving, NoRights, NoView, Onboarding, Views, Whats, Tasks, Holders, Pcs,
       Free, Opened, ChatFree, AuthCall
<1>5. RoutesType'
  BY DEF RoutesType
<1>6. InOrder'
  BY DEF InOrder
<1>7. OneView' /\ HeldViews'
  BY DEF OneView, HeldViews
<1>8. HeldAtWork'
  BY DEF HeldAtWork
<1>9. OldHoldNothing' /\ SessionFlags' /\ SessionViews' /\ Generations' /\ Handovers'
  BY DEF OldHoldNothing, SessionFlags, SessionViews, Generations, Handovers
<1>10. SessionShown' /\ Sealing' /\ Sealed' /\ OpHolds' /\ OpAuth'
  BY DEF SessionShown, Sealing, Sealed, OpHolds, OpAuth
<1>11. OpFront' /\ Rights' /\ OpenIs' /\ EntersOpen'
  BY DEF OpFront, Rights, OpenIs, EntersOpen
<1>12. Registered' /\ FirstRun' /\ PageIs'
  BY DEF Registered, FirstRun, PageIs, OpHolds
<1> QED
  BY ONLY <1>5, <1>6, <1>7, <1>8, <1>9, <1>10, <1>11, <1>12

\* SubmitKey, SubmitPin, SubmitCode and others: no coroutine moves, the
\* application changes in its captures at most.
LEMMA NothingSafe ==
  ASSUME RoutesInv, left' \in Lefts,
         app' = app,
         UNCHANGED task
  PROVE  RoutesInv'
<1>1. app \in Apps /\ task \in Taskings
  BY DEF RoutesInv, RoutesType
<1>2. app' = app
  OBVIOUS
<1> USE <1>1, <1>2 DEF RoutesInv, Kept, MovesTo, MovesBoth, In, Op, Rests, Shows, Offers, Resuming, Locking,
       Busy, Entering, Moving, NoRights, NoView, Onboarding, Views, Whats, Tasks, Holders, Pcs,
       Free, Opened, ChatFree, AuthCall
<1>3. RoutesType'
  BY DEF RoutesType
<1>4. InOrder'
  BY DEF InOrder
<1>5. OneView' /\ HeldViews'
  BY DEF OneView, HeldViews
<1>6. HeldAtWork'
  BY DEF HeldAtWork
<1>7. OldHoldNothing' /\ SessionFlags' /\ SessionViews' /\ Generations' /\ Handovers'
  BY DEF OldHoldNothing, SessionFlags, SessionViews, Generations, Handovers
<1>8. SessionShown' /\ Sealing' /\ Sealed' /\ OpHolds' /\ OpAuth'
  BY DEF SessionShown, Sealing, Sealed, OpHolds, OpAuth
<1>9. OpFront' /\ Rights' /\ OpenIs' /\ EntersOpen'
  BY DEF OpFront, Rights, OpenIs, EntersOpen
<1>10. Registered' /\ FirstRun' /\ PageIs'
  BY DEF Registered, FirstRun, PageIs
<1> QED
  BY ONLY <1>3, <1>4, <1>5, <1>6, <1>7, <1>8, <1>9, <1>10

\* SubmitKey: the operation goes on at "check" of "key", the application
\* changes by CancelPending.
LEMMA KeyBeginsSafe ==
  ASSUME RoutesInv, left' \in Lefts,
         "key" \in app.views /\ ~Busy /\ Free /\ Rests("op"),
         app' = Capture(CancelPending(app), "op", {"auth", "key", "seal"}),
         MovesTo("op", "key", "check")
  PROVE  RoutesInv'
<1>1. app \in Apps /\ task \in Taskings
  BY DEF RoutesInv, RoutesType
<1> DEFINE b1 == CancelPending(app)
<1>2. app' = Capture(b1, "op", {"auth", "key", "seal"})
  OBVIOUS
<1> HIDE DEF b1
<1>3. /\ b1 \in Apps
      /\ Kept(b1, app, {"pending"})
      /\ b1.pending = FALSE
  BY ONLY <1>1, CancelPendingIs DEF b1
<1>4. \A t, x : Still(b1, t, x) <=> Still(app, t, x) /\ x # "auth"
  BY ONLY <1>1, CancelPendingIs DEF b1
<1>5. "op" \in Holders /\ {"auth", "key", "seal"} \in SUBSET Whats
  BY DEF Holders, Tasks, Whats, Views
<1>6. /\ app' \in Apps
      /\ Kept(app', b1, {})
  BY ONLY <1>2, <1>3, <1>5, CaptureIs
<1>7. \A t, x : Still(app', t, x) <=> (Still(b1, t, x)) \/ (t = "op" /\ x \in {"auth", "key", "seal"})
  BY ONLY <1>2, <1>3, <1>5, CaptureIs
<1>8. /\ Kept(app', app, {"pending"})
      /\ app'.pending = FALSE
  BY ONLY <1>3, <1>6 DEF Kept, Views, Apps
<1>9. \A t, x : Still(app', t, x) <=> (Still(app, t, x) /\ x # "auth") \/ (t = "op" /\ x \in {"auth", "key", "seal"})
  BY ONLY <1>4, <1>7 DEF Views
<1> USE <1>1, <1>6, <1>8, <1>9 DEF RoutesInv, Kept, MovesTo, MovesBoth, In, Op, Rests, Shows, Offers, Resuming, Locking,
       Busy, Entering, Moving, NoRights, NoView, Onboarding, Views, Whats, Tasks, Holders, Pcs,
       Free, Opened, ChatFree, AuthCall
<1>10. RoutesType'
  BY DEF RoutesType
<1>11. InOrder'
  BY DEF InOrder
<1>12. OneView' /\ HeldViews'
  BY DEF OneView, HeldViews
<1>13. HeldAtWork'
  BY DEF HeldAtWork
<1>14. OldHoldNothing' /\ SessionFlags' /\ SessionViews' /\ Generations' /\ Handovers'
  BY DEF OldHoldNothing, SessionFlags, SessionViews, Generations, Handovers
<1>15. SessionShown' /\ Sealing' /\ Sealed' /\ OpHolds' /\ OpAuth'
  BY DEF SessionShown, Sealing, Sealed, OpHolds, OpAuth, SessionViews
<1>16. OpFront' /\ Rights' /\ OpenIs' /\ EntersOpen'
  BY DEF OpFront, Rights, OpenIs, EntersOpen
<1>17. Registered' /\ FirstRun' /\ PageIs'
  BY DEF Registered, FirstRun, PageIs, OneView
<1> QED
  BY ONLY <1>10, <1>11, <1>12, <1>13, <1>14, <1>15, <1>16, <1>17

\* KeyAnswer, KeySaved, SetupHashed and others: the operation ends, the
\* application changes by CancelPending.
LEMMA PendingDroppedSafe ==
  ASSUME RoutesInv, left' \in Lefts,
         \/ Op("key", {"check"}) /\ ~Still(app, "op", "key")
         \/ Op("key", {"save"}) /\ ~Still(app, "op", "key")
         \/ Op("setup", {"hash"}) /\ ~Still(app, "op", "setup")
         \/ Op("setup", {"store"}) /\ ~Still(app, "op", "setup")
         \/ Op("setup", {"unlock"}) /\ ~Still(app, "op", "setup"),
         app' = Forget(CancelPending(app), "op"),
         MovesTo("op", "none", "idle")
  PROVE  RoutesInv'
<1>1. app \in Apps /\ task \in Taskings
  BY DEF RoutesInv, RoutesType
<1> DEFINE b1 == CancelPending(app)
<1>2. app' = Forget(b1, "op")
  OBVIOUS
<1> HIDE DEF b1
<1>3. /\ b1 \in Apps
      /\ Kept(b1, app, {"pending"})
      /\ b1.pending = FALSE
  BY ONLY <1>1, CancelPendingIs DEF b1
<1>4. \A t, x : Still(b1, t, x) <=> Still(app, t, x) /\ x # "auth"
  BY ONLY <1>1, CancelPendingIs DEF b1
<1>5. /\ app' \in Apps
      /\ Kept(app', b1, {})
  BY ONLY <1>2, <1>3, ForgetIs
<1>6. \A t, x : Still(app', t, x) <=> Still(b1, t, x) /\ t # "op"
  BY ONLY <1>2, <1>3, ForgetIs
<1>7. /\ Kept(app', app, {"pending"})
      /\ app'.pending = FALSE
  BY ONLY <1>3, <1>5 DEF Kept, Views, Apps
<1>8. \A t, x : Still(app', t, x) <=> Still(app, t, x) /\ x # "auth" /\ t # "op"
  BY ONLY <1>4, <1>6 DEF Views
<1> USE <1>1, <1>5, <1>7, <1>8 DEF RoutesInv, Kept, MovesTo, MovesBoth, In, Op, Rests, Shows, Offers, Resuming, Locking,
       Busy, Entering, Moving, NoRights, NoView, Onboarding, Views, Whats, Tasks, Holders, Pcs,
       Free, Opened, ChatFree, AuthCall
<1>9. RoutesType'
  BY DEF RoutesType
<1>10. InOrder'
  BY DEF InOrder
<1>11. OneView' /\ HeldViews'
  BY DEF OneView, HeldViews
<1>12. HeldAtWork'
  BY DEF HeldAtWork
<1>13. OldHoldNothing' /\ SessionFlags' /\ SessionViews' /\ Generations' /\ Handovers'
  BY DEF OldHoldNothing, SessionFlags, SessionViews, Generations, Handovers
<1>14. SessionShown' /\ Sealing' /\ Sealed' /\ OpHolds' /\ OpAuth'
  BY DEF SessionShown, Sealing, Sealed, OpHolds, OpAuth
<1>15. OpFront' /\ Rights' /\ OpenIs' /\ EntersOpen'
  BY DEF OpFront, Rights, OpenIs, EntersOpen
<1>16. Registered' /\ FirstRun' /\ PageIs'
  BY DEF Registered, FirstRun, PageIs, OneView, Sealed, OpHolds
<1> QED
  BY ONLY <1>9, <1>10, <1>11, <1>12, <1>13, <1>14, <1>15, <1>16

\* KeyAnswer: the operation goes on at "save" of "key", the application
\* changes in its captures at most.
LEMMA KeyCheckedSafe ==
  ASSUME RoutesInv, left' \in Lefts,
         Op("key", {"check"}) /\ Still(app, "op", "auth") /\ Still(app, "op", "key") /\ app.replacing,
         app' = app,
         MovesTo("op", "key", "save")
  PROVE  RoutesInv'
<1>1. app \in Apps /\ task \in Taskings
  BY DEF RoutesInv, RoutesType
<1>2. app' = app
  OBVIOUS
<1>f. /\ Op("key", {"check"}) /\ Still(app, "op", "auth") /\ Still(app, "op", "key")
      /\ app.replacing = TRUE /\ left' \in Lefts /\ MovesTo("op", "key", "save")
  BY <1>1, Zenon DEF Apps, Opened, ChatFree
<1> USE DEF RoutesInv, Kept, MovesTo, MovesBoth, In, Op, Rests, Shows, Offers, Resuming, Locking,
       Busy, Entering, Moving, NoRights, NoView, Onboarding, Views, Whats, Tasks, Holders, Pcs,
       Free, Opened, ChatFree, AuthCall
<1>3. RoutesType'
  BY ONLY RoutesInv, <1>f, <1>1, <1>2 DEF RoutesType
<1>4. InOrder'
  BY ONLY RoutesInv, <1>f, <1>1, <1>2 DEF InOrder
<1>5. OneView' /\ HeldViews'
  BY ONLY RoutesInv, <1>f, <1>1, <1>2 DEF OneView, HeldViews
<1>6. HeldAtWork'
  BY ONLY RoutesInv, <1>f, <1>1, <1>2 DEF HeldAtWork
<1>7. OldHoldNothing' /\ SessionFlags' /\ SessionViews' /\ Generations' /\ Handovers'
  BY ONLY RoutesInv, <1>f, <1>1, <1>2 DEF OldHoldNothing, SessionFlags, SessionViews,
        Generations, Handovers
<1>8. SessionShown' /\ Sealing' /\ Sealed' /\ OpHolds' /\ OpAuth'
  BY ONLY RoutesInv, <1>f, <1>1, <1>2 DEF SessionShown, Sealing, Sealed, OpHolds, OpAuth
<1>9. OpFront' /\ Rights' /\ OpenIs' /\ EntersOpen'
  BY ONLY RoutesInv, <1>f, <1>1, <1>2 DEF OpFront, Rights, OpenIs, EntersOpen
<1>10. Registered' /\ FirstRun' /\ PageIs'
  BY ONLY RoutesInv, <1>f, <1>1, <1>2 DEF Registered, FirstRun, PageIs
<1> QED
  BY ONLY <1>3, <1>4, <1>5, <1>6, <1>7, <1>8, <1>9, <1>10

\* KeyAnswer: the operation ends, the application changes by Pends, ShowSetup.
LEMMA SetupShownSafe ==
  ASSUME RoutesInv, left' \in Lefts,
         Op("key", {"check"}) /\ Still(app, "op", "auth") /\ Still(app, "op", "key") /\ ~app.replacing /\ ~app.registered,
         app' = Forget(ShowSetup(Pends(app)), "op"),
         MovesTo("op", "none", "idle")
  PROVE  RoutesInv'
<1>1. app \in Apps /\ task \in Taskings
  BY DEF RoutesInv, RoutesType
<1> DEFINE b1 == Pends(app)
           b2 == ShowSetup(b1)
<1>2. app' = Forget(b2, "op")
  OBVIOUS
<1> HIDE DEF b1, b2
<1>3. /\ b1 \in Apps
      /\ Kept(b1, app, {"pending"})
      /\ b1.pending = TRUE
  BY ONLY <1>1, PendsIs DEF b1
<1>4. \A t, x : Still(b1, t, x) <=> Still(app, t, x)
  BY ONLY <1>1, PendsIs DEF b1
<1>5. /\ b2 \in Apps
      /\ Kept(b2, b1, {"page", "views", "token", "session", "security", "deferred", "chats", "issue"})
      /\ b2.page = (IF b1.closing THEN b1.page ELSE "setup") /\ b2.views = {"setup"}
      /\ b2.token = "setup" /\ b2.session = FALSE /\ b2.security = FALSE
      /\ b2.deferred = FALSE /\ b2.chats = FALSE /\ b2.issue = FALSE
  BY ONLY <1>3, ShowSetupIs DEF b2
<1>6. \A t, x : Still(b2, t, x) <=> Still(b1, t, x) /\ x \notin Views \cup {"gen", "workspace"}
  BY ONLY <1>3, ShowSetupIs DEF b2
<1>7. /\ app' \in Apps
      /\ Kept(app', b2, {})
  BY ONLY <1>2, <1>5, ForgetIs
<1>8. \A t, x : Still(app', t, x) <=> Still(b2, t, x) /\ t # "op"
  BY ONLY <1>2, <1>5, ForgetIs
<1>9. /\ Kept(app', app, {"page", "views", "token", "session", "security", "deferred", "chats", "pending", "issue"})
      /\ app'.page = (IF app.closing THEN app.page ELSE "setup") /\ app'.views = {"setup"}
      /\ app'.token = "setup" /\ app'.session = FALSE /\ app'.security = FALSE
      /\ app'.deferred = FALSE /\ app'.chats = FALSE /\ app'.pending = TRUE
      /\ app'.issue = FALSE
  BY ONLY <1>3, <1>5, <1>7 DEF Kept, Views, Apps
<1>10. \A t, x : Still(app', t, x) <=> Still(app, t, x) /\ x \notin Views \cup {"gen", "workspace"} /\ t # "op"
  BY ONLY <1>4, <1>6, <1>8 DEF Views
<1> USE <1>1, <1>7, <1>9, <1>10 DEF RoutesInv, Kept, MovesTo, MovesBoth, In, Op, Rests, Shows, Offers, Resuming, Locking,
       Busy, Entering, Moving, NoRights, NoView, Onboarding, Views, Whats, Tasks, Holders, Pcs,
       Free, Opened, ChatFree, AuthCall
<1>11. RoutesType'
  BY DEF RoutesType
<1>12. InOrder'
  BY DEF InOrder
<1>13. OneView' /\ HeldViews'
  BY DEF OneView, HeldViews
<1>14. HeldAtWork'
  BY DEF HeldAtWork
<1>15. OldHoldNothing' /\ SessionFlags' /\ SessionViews' /\ Generations' /\ Handovers'
  BY DEF OldHoldNothing, SessionFlags, SessionViews, Generations, Handovers
<1>16. SessionShown' /\ Sealing' /\ Sealed' /\ OpHolds' /\ OpAuth'
  BY DEF SessionShown, Sealing, Sealed, OpHolds, OpAuth, HeldViews
<1>17. OpFront' /\ Rights' /\ OpenIs' /\ EntersOpen'
  BY DEF OpFront, Rights, OpenIs, EntersOpen, Registered
<1>18. Registered' /\ FirstRun' /\ PageIs'
  BY DEF Registered, FirstRun, PageIs, Sealing
<1> QED
  BY ONLY <1>11, <1>12, <1>13, <1>14, <1>15, <1>16, <1>17, <1>18

\* KeySaved: the operation goes on at "show" of "key", the application changes
\* by Reopens, ActivatePresent, Moved.
LEMMA KeyEntersSafe ==
  ASSUME RoutesInv, left' \in Lefts,
         Op("key", {"save"}) /\ Still(app, "op", "auth") /\ app.replacing /\ Still(app, "op", "key"),
         app' = Capture(Moved(ActivatePresent(Reopens(app)), "workspace"), "op", {"gen", "workspace"}),
         MovesTo("op", "key", "show")
  PROVE  RoutesInv'
<1>1. app \in Apps /\ task \in Taskings
  BY DEF RoutesInv, RoutesType
<1> DEFINE b1 == Reopens(app)
           b2 == ActivatePresent(b1)
           b3 == Moved(b2, "workspace")
<1>2. app' = Capture(b3, "op", {"gen", "workspace"})
  OBVIOUS
<1> HIDE DEF b1, b2, b3
<1>3. /\ b1 \in Apps
      /\ Kept(b1, app, {"open", "replacing"})
      /\ b1.open = TRUE /\ b1.replacing = FALSE
  BY ONLY <1>1, ReopensIs DEF b1
<1>4. \A t, x : Still(b1, t, x) <=> Still(app, t, x)
  BY ONLY <1>1, ReopensIs DEF b1
<1>5. /\ b2 \in Apps
      /\ Kept(b2, b1, {"views", "token", "session", "security", "deferred", "chats", "loose", "issue"})
      /\ b2.views = {} /\ b2.token = "none" /\ b2.session = TRUE /\ b2.security = FALSE
      /\ b2.deferred = FALSE /\ b2.chats = FALSE /\ b2.loose = FALSE /\ b2.issue = FALSE
  BY ONLY <1>3, ActivatePresentIs DEF b2
<1>6. \A t, x : Still(b2, t, x) <=> Still(b1, t, x) /\ x \notin Views \cup {"gen", "workspace"}
  BY ONLY <1>3, ActivatePresentIs DEF b2
<1>7. /\ b3 \in Apps
      /\ Kept(b3, b2, {})
  BY ONLY <1>5, MovedIs DEF b3
<1>8. \A t, x : Still(b3, t, x) <=> Still(b2, t, x) /\ x # "workspace"
  BY ONLY <1>5, MovedIs DEF b3
<1>9. "op" \in Holders /\ {"gen", "workspace"} \in SUBSET Whats
  BY DEF Holders, Tasks, Whats, Views
<1>10. /\ app' \in Apps
      /\ Kept(app', b3, {})
  BY ONLY <1>2, <1>7, <1>9, CaptureIs
<1>11. \A t, x : Still(app', t, x) <=> (Still(b3, t, x)) \/ (t = "op" /\ x \in {"gen", "workspace"})
  BY ONLY <1>2, <1>7, <1>9, CaptureIs
<1>12. /\ Kept(app', app, {"views", "token", "session", "security", "deferred", "chats", "open", "loose", "replacing", "issue"})
      /\ app'.views = {} /\ app'.token = "none" /\ app'.session = TRUE
      /\ app'.security = FALSE /\ app'.deferred = FALSE /\ app'.chats = FALSE
      /\ app'.open = TRUE /\ app'.loose = FALSE /\ app'.replacing = FALSE
      /\ app'.issue = FALSE
  BY ONLY <1>3, <1>5, <1>7, <1>10 DEF Kept, Views, Apps
<1>13. \A t, x : Still(app', t, x) <=> (Still(app, t, x) /\ x \notin Views \cup {"gen", "workspace"}) \/ (t = "op" /\ x \in {"gen", "workspace"})
  BY ONLY <1>4, <1>6, <1>8, <1>11 DEF Views
<1>f. /\ Op("key", {"save"}) /\ Still(app, "op", "auth") /\ app.replacing = TRUE
      /\ Still(app, "op", "key") /\ left' \in Lefts /\ MovesTo("op", "key", "show")
  BY <1>1, Zenon DEF Apps, Opened, ChatFree
<1> USE DEF RoutesInv, Kept, MovesTo, MovesBoth, In, Op, Rests, Shows, Offers, Resuming, Locking,
       Busy, Entering, Moving, NoRights, NoView, Onboarding, Views, Whats, Tasks, Holders, Pcs,
       Free, Opened, ChatFree, AuthCall
<1>14. RoutesType'
  BY ONLY RoutesInv, <1>f, <1>1, <1>10, <1>12, <1>13 DEF RoutesType
<1>15. InOrder'
  BY ONLY RoutesInv, <1>f, <1>1, <1>10, <1>12, <1>13 DEF InOrder
<1>16. OneView' /\ HeldViews'
  BY ONLY RoutesInv, <1>f, <1>1, <1>10, <1>12, <1>13 DEF OneView, HeldViews
<1>17. HeldAtWork'
  BY ONLY RoutesInv, <1>f, <1>1, <1>10, <1>12, <1>13 DEF HeldAtWork
<1>18. OldHoldNothing' /\ SessionFlags' /\ SessionViews' /\ Generations' /\ Handovers'
  BY ONLY RoutesInv, <1>f, <1>1, <1>10, <1>12, <1>13 DEF OldHoldNothing, SessionFlags,
        SessionViews, Generations, Handovers
<1>19. SessionShown' /\ Sealing' /\ Sealed' /\ OpHolds' /\ OpAuth'
  BY ONLY RoutesInv, <1>f, <1>1, <1>10, <1>12, <1>13 DEF SessionShown, Sealing, Sealed, OpHolds,
        OpAuth, HeldViews
<1>20. OpFront' /\ Rights' /\ OpenIs' /\ EntersOpen'
  BY ONLY RoutesInv, <1>f, <1>1, <1>10, <1>12, <1>13 DEF OpFront, Rights, OpenIs, EntersOpen,
        OneView
<1>21. Registered' /\ FirstRun' /\ PageIs'
  BY ONLY RoutesInv, <1>f, <1>1, <1>10, <1>12, <1>13 DEF Registered, FirstRun, PageIs
<1> QED
  BY ONLY <1>14, <1>15, <1>16, <1>17, <1>18, <1>19, <1>20, <1>21

\* CancelSetup: no coroutine moves, the application changes by CancelPending,
\* ShowKey.
LEMMA SetupCancelledSafe ==
  ASSUME RoutesInv, left' \in Lefts,
         "setup" \in app.views /\ app.token = "setup" /\ Free /\ Rests("op"),
         app' = ShowKey(CancelPending(app)),
         UNCHANGED task
  PROVE  RoutesInv'
<1>1. app \in Apps /\ task \in Taskings
  BY DEF RoutesInv, RoutesType
<1> DEFINE b1 == CancelPending(app)
<1>2. app' = ShowKey(b1)
  OBVIOUS
<1> HIDE DEF b1
<1>3. /\ b1 \in Apps
      /\ Kept(b1, app, {"pending"})
      /\ b1.pending = FALSE
  BY ONLY <1>1, CancelPendingIs DEF b1
<1>4. \A t, x : Still(b1, t, x) <=> Still(app, t, x) /\ x # "auth"
  BY ONLY <1>1, CancelPendingIs DEF b1
<1>5. /\ app' \in Apps
      /\ Kept(app', b1, {"page", "views", "token", "session", "security", "deferred", "chats", "issue"})
      /\ app'.page = (IF b1.closing THEN b1.page ELSE "key") /\ app'.views = {"key"}
      /\ app'.token = "none" /\ app'.session = FALSE /\ app'.security = FALSE
      /\ app'.deferred = FALSE /\ app'.chats = FALSE /\ app'.issue = FALSE
  BY ONLY <1>2, <1>3, ShowKeyIs
<1>6. \A t, x : Still(app', t, x) <=> Still(b1, t, x) /\ x \notin Views \cup {"gen", "workspace"}
  BY ONLY <1>2, <1>3, ShowKeyIs
<1>7. /\ Kept(app', app, {"page", "views", "token", "session", "security", "deferred", "chats", "pending", "issue"})
      /\ app'.page = (IF app.closing THEN app.page ELSE "key") /\ app'.views = {"key"}
      /\ app'.token = "none" /\ app'.session = FALSE /\ app'.security = FALSE
      /\ app'.deferred = FALSE /\ app'.chats = FALSE /\ app'.pending = FALSE
      /\ app'.issue = FALSE
  BY ONLY <1>3, <1>5 DEF Kept, Views, Apps
<1>8. \A t, x : Still(app', t, x) <=> Still(app, t, x) /\ x \notin Views \cup {"auth", "gen", "workspace"}
  BY ONLY <1>4, <1>6 DEF Views
<1> USE <1>1, <1>5, <1>7, <1>8 DEF RoutesInv, Kept, MovesTo, MovesBoth, In, Op, Rests, Shows, Offers, Resuming, Locking,
       Busy, Entering, Moving, NoRights, NoView, Onboarding, Views, Whats, Tasks, Holders, Pcs,
       Free, Opened, ChatFree, AuthCall
<1>9. RoutesType'
  BY DEF RoutesType
<1>10. InOrder'
  BY DEF InOrder
<1>11. OneView' /\ HeldViews'
  BY DEF OneView, HeldViews
<1>12. HeldAtWork'
  BY DEF HeldAtWork
<1>13. OldHoldNothing' /\ SessionFlags' /\ SessionViews' /\ Generations' /\ Handovers'
  BY DEF OldHoldNothing, SessionFlags, SessionViews, Generations, Handovers
<1>14. SessionShown' /\ Sealing' /\ Sealed' /\ OpHolds' /\ OpAuth'
  BY DEF SessionShown, Sealing, Sealed, OpHolds, OpAuth
<1>15. OpFront' /\ Rights' /\ OpenIs' /\ EntersOpen'
  BY DEF OpFront, Rights, OpenIs, EntersOpen, SessionViews
<1>16. Registered' /\ FirstRun' /\ PageIs'
  BY DEF Registered, FirstRun, PageIs
<1> QED
  BY ONLY <1>9, <1>10, <1>11, <1>12, <1>13, <1>14, <1>15, <1>16

\* ConfirmSetup: the operation goes on at "prefs" of "setup", the application
\* changes in its captures at most.
LEMMA SetupBeginsSafe ==
  ASSUME RoutesInv, left' \in Lefts,
         "setup" \in app.views /\ app.token = "setup" /\ app.linux /\ Free /\ Rests("op"),
         app' = Capture(app, "op", {"seal", "setup"}),
         MovesTo("op", "setup", "prefs")
  PROVE  RoutesInv'
<1>1. app \in Apps /\ task \in Taskings
  BY DEF RoutesInv, RoutesType
<1>2. app' = Capture(app, "op", {"seal", "setup"})
  OBVIOUS
<1>3. "op" \in Holders /\ {"seal", "setup"} \in SUBSET Whats
  BY DEF Holders, Tasks, Whats, Views
<1>4. /\ app' \in Apps
      /\ Kept(app', app, {})
  BY ONLY <1>2, <1>1, <1>3, CaptureIs
<1>5. \A t, x : Still(app', t, x) <=> (Still(app, t, x)) \/ (t = "op" /\ x \in {"seal", "setup"})
  BY ONLY <1>2, <1>1, <1>3, CaptureIs
<1>f. /\ "setup" \in app.views /\ app.token = "setup" /\ app.linux = TRUE /\ Free
      /\ Rests("op") /\ left' \in Lefts /\ MovesTo("op", "setup", "prefs")
  BY <1>1, Zenon DEF Apps, Opened, ChatFree
<1> USE DEF RoutesInv, Kept, MovesTo, MovesBoth, In, Op, Rests, Shows, Offers, Resuming, Locking,
       Busy, Entering, Moving, NoRights, NoView, Onboarding, Views, Whats, Tasks, Holders, Pcs,
       Free, Opened, ChatFree, AuthCall
<1>6. RoutesType'
  BY ONLY RoutesInv, <1>f, <1>1, <1>4, <1>5 DEF RoutesType
<1>7. InOrder'
  BY ONLY RoutesInv, <1>f, <1>1, <1>4, <1>5 DEF InOrder
<1>8. OneView' /\ HeldViews'
  BY ONLY RoutesInv, <1>f, <1>1, <1>4, <1>5 DEF OneView, HeldViews
<1>9. HeldAtWork'
  BY ONLY RoutesInv, <1>f, <1>1, <1>4, <1>5 DEF HeldAtWork
<1>10. OldHoldNothing' /\ SessionFlags' /\ SessionViews' /\ Generations' /\ Handovers'
  BY ONLY RoutesInv, <1>f, <1>1, <1>4, <1>5 DEF OldHoldNothing, SessionFlags, SessionViews,
        Generations, Handovers
<1>11. SessionShown' /\ Sealing' /\ Sealed' /\ OpHolds' /\ OpAuth'
  BY ONLY RoutesInv, <1>f, <1>1, <1>4, <1>5 DEF SessionShown, Sealing, Sealed, OpHolds, OpAuth,
        SessionViews, HeldAtWork
<1>12. OpFront' /\ Rights' /\ OpenIs' /\ EntersOpen'
  BY ONLY RoutesInv, <1>f, <1>1, <1>4, <1>5 DEF OpFront, Rights, OpenIs, EntersOpen
<1>13. Registered' /\ FirstRun' /\ PageIs'
  BY ONLY RoutesInv, <1>f, <1>1, <1>4, <1>5 DEF Registered, FirstRun, PageIs
<1> QED
  BY ONLY <1>6, <1>7, <1>8, <1>9, <1>10, <1>11, <1>12, <1>13

\* ConfirmSetup: no coroutine moves, the application changes by ShowKey.
LEMMA KeyAgainSafe ==
  ASSUME RoutesInv, left' \in Lefts,
         "setup" \in app.views /\ app.token = "setup" /\ ~app.linux /\ Free /\ Rests("op") /\ Busy,
         app' = ShowKey(app),
         UNCHANGED task
  PROVE  RoutesInv'
<1>1. app \in Apps /\ task \in Taskings
  BY DEF RoutesInv, RoutesType
<1>2. app' = ShowKey(app)
  OBVIOUS
<1>3. /\ app' \in Apps
      /\ Kept(app', app, {"page", "views", "token", "session", "security", "deferred", "chats", "issue"})
      /\ app'.page = (IF app.closing THEN app.page ELSE "key") /\ app'.views = {"key"}
      /\ app'.token = "none" /\ app'.session = FALSE /\ app'.security = FALSE
      /\ app'.deferred = FALSE /\ app'.chats = FALSE /\ app'.issue = FALSE
  BY ONLY <1>2, <1>1, ShowKeyIs
<1>4. \A t, x : Still(app', t, x) <=> Still(app, t, x) /\ x \notin Views \cup {"gen", "workspace"}
  BY ONLY <1>2, <1>1, ShowKeyIs
<1> USE <1>1, <1>3, <1>4 DEF RoutesInv, Kept, MovesTo, MovesBoth, In, Op, Rests, Shows, Offers, Resuming, Locking,
       Busy, Entering, Moving, NoRights, NoView, Onboarding, Views, Whats, Tasks, Holders, Pcs,
       Free, Opened, ChatFree, AuthCall
<1>5. RoutesType'
  BY DEF RoutesType
<1>6. InOrder'
  BY DEF InOrder
<1>7. OneView' /\ HeldViews'
  BY DEF OneView, HeldViews
<1>8. HeldAtWork'
  BY DEF HeldAtWork
<1>9. OldHoldNothing' /\ SessionFlags' /\ SessionViews' /\ Generations' /\ Handovers'
  BY DEF OldHoldNothing, SessionFlags, SessionViews, Generations, Handovers
<1>10. SessionShown' /\ Sealing' /\ Sealed' /\ OpHolds' /\ OpAuth'
  BY DEF SessionShown, Sealing, Sealed, OpHolds, OpAuth, HeldAtWork
<1>11. OpFront' /\ Rights' /\ OpenIs' /\ EntersOpen'
  BY DEF OpFront, Rights, OpenIs, EntersOpen, SessionViews
<1>12. Registered' /\ FirstRun' /\ PageIs'
  BY DEF Registered, FirstRun, PageIs
<1> QED
  BY ONLY <1>5, <1>6, <1>7, <1>8, <1>9, <1>10, <1>11, <1>12

\* ConfirmSetup: the operation goes on at "hash" of "setup", the application
\* changes in its captures at most.
LEMMA HashBeginsSafe ==
  ASSUME RoutesInv, left' \in Lefts,
         "setup" \in app.views /\ app.token = "setup" /\ ~app.linux /\ ~Busy /\ Free /\ Rests("op"),
         app' = Capture(app, "op", {"auth", "seal", "setup"}),
         MovesTo("op", "setup", "hash")
  PROVE  RoutesInv'
<1>1. app \in Apps /\ task \in Taskings
  BY DEF RoutesInv, RoutesType
<1>2. app' = Capture(app, "op", {"auth", "seal", "setup"})
  OBVIOUS
<1>3. "op" \in Holders /\ {"auth", "seal", "setup"} \in SUBSET Whats
  BY DEF Holders, Tasks, Whats, Views
<1>4. /\ app' \in Apps
      /\ Kept(app', app, {})
  BY ONLY <1>2, <1>1, <1>3, CaptureIs
<1>5. \A t, x : Still(app', t, x) <=> (Still(app, t, x)) \/ (t = "op" /\ x \in {"auth", "seal", "setup"})
  BY ONLY <1>2, <1>1, <1>3, CaptureIs
<1> USE <1>1, <1>4, <1>5 DEF RoutesInv, Kept, MovesTo, MovesBoth, In, Op, Rests, Shows, Offers, Resuming, Locking,
       Busy, Entering, Moving, NoRights, NoView, Onboarding, Views, Whats, Tasks, Holders, Pcs,
       Free, Opened, ChatFree, AuthCall
<1>6. RoutesType'
  BY DEF RoutesType
<1>7. InOrder'
  BY DEF InOrder
<1>8. OneView' /\ HeldViews'
  BY DEF OneView, HeldViews
<1>9. HeldAtWork'
  BY DEF HeldAtWork
<1>10. OldHoldNothing' /\ SessionFlags' /\ SessionViews' /\ Generations' /\ Handovers'
  BY DEF OldHoldNothing, SessionFlags, SessionViews, Generations, Handovers
<1>11. SessionShown' /\ Sealing' /\ Sealed' /\ OpHolds' /\ OpAuth'
  BY DEF SessionShown, Sealing, Sealed, OpHolds, OpAuth, SessionViews
<1>12. OpFront' /\ Rights' /\ OpenIs' /\ EntersOpen'
  BY DEF OpFront, Rights, OpenIs, EntersOpen
<1>13. Registered' /\ FirstRun' /\ PageIs'
  BY DEF Registered, FirstRun, PageIs
<1> QED
  BY ONLY <1>6, <1>7, <1>8, <1>9, <1>10, <1>11, <1>12, <1>13

\* SetupPrefs: the operation ends, the application changes by Onboards.
LEMMA PrefsAloneSafe ==
  ASSUME RoutesInv, left' \in Lefts,
         Op("setup", {"prefs"}) /\ ~Still(app, "op", "setup"),
         app' = Forget(Onboards(app), "op"),
         MovesTo("op", "none", "idle")
  PROVE  RoutesInv'
<1>1. app \in Apps /\ task \in Taskings
  BY DEF RoutesInv, RoutesType
<1> DEFINE b1 == Onboards(app)
<1>2. app' = Forget(b1, "op")
  OBVIOUS
<1> HIDE DEF b1
<1>3. /\ b1 \in Apps
      /\ Kept(b1, app, {"onboarding"})
      /\ b1.onboarding = TRUE
  BY ONLY <1>1, OnboardsIs DEF b1
<1>4. \A t, x : Still(b1, t, x) <=> Still(app, t, x)
  BY ONLY <1>1, OnboardsIs DEF b1
<1>5. /\ app' \in Apps
      /\ Kept(app', b1, {})
  BY ONLY <1>2, <1>3, ForgetIs
<1>6. \A t, x : Still(app', t, x) <=> Still(b1, t, x) /\ t # "op"
  BY ONLY <1>2, <1>3, ForgetIs
<1>7. /\ Kept(app', app, {"onboarding"})
      /\ app'.onboarding = TRUE
  BY ONLY <1>3, <1>5 DEF Kept, Views, Apps
<1>8. \A t, x : Still(app', t, x) <=> Still(app, t, x) /\ t # "op"
  BY ONLY <1>4, <1>6 DEF Views
<1> USE <1>1, <1>5, <1>7, <1>8 DEF RoutesInv, Kept, MovesTo, MovesBoth, In, Op, Rests, Shows, Offers, Resuming, Locking,
       Busy, Entering, Moving, NoRights, NoView, Onboarding, Views, Whats, Tasks, Holders, Pcs,
       Free, Opened, ChatFree, AuthCall
<1>9. RoutesType'
  BY DEF RoutesType
<1>10. InOrder'
  BY DEF InOrder
<1>11. OneView' /\ HeldViews'
  BY DEF OneView, HeldViews
<1>12. HeldAtWork'
  BY DEF HeldAtWork
<1>13. OldHoldNothing' /\ SessionFlags' /\ SessionViews' /\ Generations' /\ Handovers'
  BY DEF OldHoldNothing, SessionFlags, SessionViews, Generations, Handovers
<1>14. SessionShown' /\ Sealing' /\ Sealed' /\ OpHolds' /\ OpAuth'
  BY DEF SessionShown, Sealing, Sealed, OpHolds, OpAuth
<1>15. OpFront' /\ Rights' /\ OpenIs' /\ EntersOpen'
  BY DEF OpFront, Rights, OpenIs, EntersOpen
<1>16. Registered' /\ FirstRun' /\ PageIs'
  BY DEF Registered, FirstRun, PageIs
<1> QED
  BY ONLY <1>9, <1>10, <1>11, <1>12, <1>13, <1>14, <1>15, <1>16

\* SetupPrefs: the operation ends, the application changes by Onboards,
\* ShowKey.
LEMMA PrefsBusySafe ==
  ASSUME RoutesInv, left' \in Lefts,
         Op("setup", {"prefs"}) /\ Still(app, "op", "setup") /\ Busy,
         app' = Forget(ShowKey(Onboards(app)), "op"),
         MovesTo("op", "none", "idle")
  PROVE  RoutesInv'
<1>1. app \in Apps /\ task \in Taskings
  BY DEF RoutesInv, RoutesType
<1> DEFINE b1 == Onboards(app)
           b2 == ShowKey(b1)
<1>2. app' = Forget(b2, "op")
  OBVIOUS
<1> HIDE DEF b1, b2
<1>3. /\ b1 \in Apps
      /\ Kept(b1, app, {"onboarding"})
      /\ b1.onboarding = TRUE
  BY ONLY <1>1, OnboardsIs DEF b1
<1>4. \A t, x : Still(b1, t, x) <=> Still(app, t, x)
  BY ONLY <1>1, OnboardsIs DEF b1
<1>5. /\ b2 \in Apps
      /\ Kept(b2, b1, {"page", "views", "token", "session", "security", "deferred", "chats", "issue"})
      /\ b2.page = (IF b1.closing THEN b1.page ELSE "key") /\ b2.views = {"key"}
      /\ b2.token = "none" /\ b2.session = FALSE /\ b2.security = FALSE
      /\ b2.deferred = FALSE /\ b2.chats = FALSE /\ b2.issue = FALSE
  BY ONLY <1>3, ShowKeyIs DEF b2
<1>6. \A t, x : Still(b2, t, x) <=> Still(b1, t, x) /\ x \notin Views \cup {"gen", "workspace"}
  BY ONLY <1>3, ShowKeyIs DEF b2
<1>7. /\ app' \in Apps
      /\ Kept(app', b2, {})
  BY ONLY <1>2, <1>5, ForgetIs
<1>8. \A t, x : Still(app', t, x) <=> Still(b2, t, x) /\ t # "op"
  BY ONLY <1>2, <1>5, ForgetIs
<1>9. /\ Kept(app', app, {"onboarding", "page", "views", "token", "session", "security", "deferred", "chats", "issue"})
      /\ app'.onboarding = TRUE /\ app'.page = (IF app.closing THEN app.page ELSE "key")
      /\ app'.views = {"key"} /\ app'.token = "none" /\ app'.session = FALSE
      /\ app'.security = FALSE /\ app'.deferred = FALSE /\ app'.chats = FALSE
      /\ app'.issue = FALSE
  BY ONLY <1>3, <1>5, <1>7 DEF Kept, Views, Apps
<1>10. \A t, x : Still(app', t, x) <=> Still(app, t, x) /\ x \notin Views \cup {"gen", "workspace"} /\ t # "op"
  BY ONLY <1>4, <1>6, <1>8 DEF Views
<1> USE <1>1, <1>7, <1>9, <1>10 DEF RoutesInv, Kept, MovesTo, MovesBoth, In, Op, Rests, Shows, Offers, Resuming, Locking,
       Busy, Entering, Moving, NoRights, NoView, Onboarding, Views, Whats, Tasks, Holders, Pcs,
       Free, Opened, ChatFree, AuthCall
<1>11. RoutesType'
  BY DEF RoutesType
<1>12. InOrder'
  BY DEF InOrder
<1>13. OneView' /\ HeldViews'
  BY DEF OneView, HeldViews
<1>14. HeldAtWork'
  BY DEF HeldAtWork
<1>15. OldHoldNothing' /\ SessionFlags' /\ SessionViews' /\ Generations' /\ Handovers'
  BY DEF OldHoldNothing, SessionFlags, SessionViews, Generations, Handovers
<1>16. SessionShown' /\ Sealing' /\ Sealed' /\ OpHolds' /\ OpAuth'
  BY DEF SessionShown, Sealing, Sealed, OpHolds, OpAuth, HeldViews
<1>17. OpFront' /\ Rights' /\ OpenIs' /\ EntersOpen'
  BY DEF OpFront, Rights, OpenIs, EntersOpen, HeldViews, SessionViews
<1>18. Registered' /\ FirstRun' /\ PageIs'
  BY DEF Registered, FirstRun, PageIs, Sealing
<1> QED
  BY ONLY <1>11, <1>12, <1>13, <1>14, <1>15, <1>16, <1>17, <1>18

\* SetupPrefs: the operation goes on at "hash" of "setup", the application
\* changes by Onboards.
LEMMA HashNextSafe ==
  ASSUME RoutesInv, left' \in Lefts,
         Op("setup", {"prefs"}) /\ Still(app, "op", "setup") /\ ~Busy,
         app' = Capture(Onboards(app), "op", {"auth"}),
         MovesTo("op", "setup", "hash")
  PROVE  RoutesInv'
<1>1. app \in Apps /\ task \in Taskings
  BY DEF RoutesInv, RoutesType
<1> DEFINE b1 == Onboards(app)
<1>2. app' = Capture(b1, "op", {"auth"})
  OBVIOUS
<1> HIDE DEF b1
<1>3. /\ b1 \in Apps
      /\ Kept(b1, app, {"onboarding"})
      /\ b1.onboarding = TRUE
  BY ONLY <1>1, OnboardsIs DEF b1
<1>4. \A t, x : Still(b1, t, x) <=> Still(app, t, x)
  BY ONLY <1>1, OnboardsIs DEF b1
<1>5. "op" \in Holders /\ {"auth"} \in SUBSET Whats
  BY DEF Holders, Tasks, Whats, Views
<1>6. /\ app' \in Apps
      /\ Kept(app', b1, {})
  BY ONLY <1>2, <1>3, <1>5, CaptureIs
<1>7. \A t, x : Still(app', t, x) <=> (Still(b1, t, x)) \/ (t = "op" /\ x \in {"auth"})
  BY ONLY <1>2, <1>3, <1>5, CaptureIs
<1>8. /\ Kept(app', app, {"onboarding"})
      /\ app'.onboarding = TRUE
  BY ONLY <1>3, <1>6 DEF Kept, Views, Apps
<1>9. \A t, x : Still(app', t, x) <=> (Still(app, t, x)) \/ (t = "op" /\ x \in {"auth"})
  BY ONLY <1>4, <1>7 DEF Views
<1> USE <1>1, <1>6, <1>8, <1>9 DEF RoutesInv, Kept, MovesTo, MovesBoth, In, Op, Rests, Shows, Offers, Resuming, Locking,
       Busy, Entering, Moving, NoRights, NoView, Onboarding, Views, Whats, Tasks, Holders, Pcs,
       Free, Opened, ChatFree, AuthCall
<1>10. RoutesType'
  BY DEF RoutesType
<1>11. InOrder'
  BY DEF InOrder
<1>12. OneView' /\ HeldViews'
  BY DEF OneView, HeldViews
<1>13. HeldAtWork'
  BY DEF HeldAtWork
<1>14. OldHoldNothing' /\ SessionFlags' /\ SessionViews' /\ Generations' /\ Handovers'
  BY DEF OldHoldNothing, SessionFlags, SessionViews, Generations, Handovers
<1>15. SessionShown' /\ Sealing' /\ Sealed' /\ OpHolds' /\ OpAuth'
  BY DEF SessionShown, Sealing, Sealed, OpHolds, OpAuth
<1>16. OpFront' /\ Rights' /\ OpenIs' /\ EntersOpen'
  BY DEF OpFront, Rights, OpenIs, EntersOpen
<1>17. Registered' /\ FirstRun' /\ PageIs'
  BY DEF Registered, FirstRun, PageIs
<1> QED
  BY ONLY <1>10, <1>11, <1>12, <1>13, <1>14, <1>15, <1>16, <1>17

\* SetupHashed: the operation goes on at "store" of "setup", the application
\* changes in its captures at most.
LEMMA StoreNextSafe ==
  ASSUME RoutesInv, left' \in Lefts,
         Op("setup", {"hash"}) /\ app.pending /\ Still(app, "op", "auth"),
         app' = app,
         MovesTo("op", "setup", "store")
  PROVE  RoutesInv'
<1>1. app \in Apps /\ task \in Taskings
  BY DEF RoutesInv, RoutesType
<1>2. app' = app
  OBVIOUS
<1>f. /\ Op("setup", {"hash"}) /\ app.pending = TRUE /\ Still(app, "op", "auth")
      /\ left' \in Lefts /\ MovesTo("op", "setup", "store")
  BY <1>1, Zenon DEF Apps, Opened, ChatFree
<1> USE DEF RoutesInv, Kept, MovesTo, MovesBoth, In, Op, Rests, Shows, Offers, Resuming, Locking,
       Busy, Entering, Moving, NoRights, NoView, Onboarding, Views, Whats, Tasks, Holders, Pcs,
       Free, Opened, ChatFree, AuthCall
<1>3. RoutesType'
  BY ONLY RoutesInv, <1>f, <1>1, <1>2 DEF RoutesType
<1>4. InOrder'
  BY ONLY RoutesInv, <1>f, <1>1, <1>2 DEF InOrder
<1>5. OneView' /\ HeldViews'
  BY ONLY RoutesInv, <1>f, <1>1, <1>2 DEF OneView, HeldViews
<1>6. HeldAtWork'
  BY ONLY RoutesInv, <1>f, <1>1, <1>2 DEF HeldAtWork
<1>7. OldHoldNothing' /\ SessionFlags' /\ SessionViews' /\ Generations' /\ Handovers'
  BY ONLY RoutesInv, <1>f, <1>1, <1>2 DEF OldHoldNothing, SessionFlags, SessionViews,
        Generations, Handovers
<1>8. SessionShown' /\ Sealing' /\ Sealed' /\ OpHolds' /\ OpAuth'
  BY ONLY RoutesInv, <1>f, <1>1, <1>2 DEF SessionShown, Sealing, Sealed, OpHolds, OpAuth
<1>9. OpFront' /\ Rights' /\ OpenIs' /\ EntersOpen'
  BY ONLY RoutesInv, <1>f, <1>1, <1>2 DEF OpFront, Rights, OpenIs, EntersOpen
<1>10. Registered' /\ FirstRun' /\ PageIs'
  BY ONLY RoutesInv, <1>f, <1>1, <1>2 DEF Registered, FirstRun, PageIs
<1> QED
  BY ONLY <1>3, <1>4, <1>5, <1>6, <1>7, <1>8, <1>9, <1>10

\* SetupHashed, SetupStored, SetupUnlocked: the operation ends, the
\* application changes by CancelPending, ShowKey.
LEMMA SetupFailsSafe ==
  ASSUME RoutesInv, left' \in Lefts,
         \/ Op("setup", {"hash"}) /\ Still(app, "op", "setup")
         \/ Op("setup", {"store"}) /\ Still(app, "op", "setup")
         \/ Op("setup", {"unlock"}) /\ Still(app, "op", "setup"),
         app' = Forget(ShowKey(CancelPending(app)), "op"),
         MovesTo("op", "none", "idle")
  PROVE  RoutesInv'
<1>1. app \in Apps /\ task \in Taskings
  BY DEF RoutesInv, RoutesType
<1> DEFINE b1 == CancelPending(app)
           b2 == ShowKey(b1)
<1>2. app' = Forget(b2, "op")
  OBVIOUS
<1> HIDE DEF b1, b2
<1>3. /\ b1 \in Apps
      /\ Kept(b1, app, {"pending"})
      /\ b1.pending = FALSE
  BY ONLY <1>1, CancelPendingIs DEF b1
<1>4. \A t, x : Still(b1, t, x) <=> Still(app, t, x) /\ x # "auth"
  BY ONLY <1>1, CancelPendingIs DEF b1
<1>5. /\ b2 \in Apps
      /\ Kept(b2, b1, {"page", "views", "token", "session", "security", "deferred", "chats", "issue"})
      /\ b2.page = (IF b1.closing THEN b1.page ELSE "key") /\ b2.views = {"key"}
      /\ b2.token = "none" /\ b2.session = FALSE /\ b2.security = FALSE
      /\ b2.deferred = FALSE /\ b2.chats = FALSE /\ b2.issue = FALSE
  BY ONLY <1>3, ShowKeyIs DEF b2
<1>6. \A t, x : Still(b2, t, x) <=> Still(b1, t, x) /\ x \notin Views \cup {"gen", "workspace"}
  BY ONLY <1>3, ShowKeyIs DEF b2
<1>7. /\ app' \in Apps
      /\ Kept(app', b2, {})
  BY ONLY <1>2, <1>5, ForgetIs
<1>8. \A t, x : Still(app', t, x) <=> Still(b2, t, x) /\ t # "op"
  BY ONLY <1>2, <1>5, ForgetIs
<1>9. /\ Kept(app', app, {"page", "views", "token", "session", "security", "deferred", "chats", "pending", "issue"})
      /\ app'.page = (IF app.closing THEN app.page ELSE "key") /\ app'.views = {"key"}
      /\ app'.token = "none" /\ app'.session = FALSE /\ app'.security = FALSE
      /\ app'.deferred = FALSE /\ app'.chats = FALSE /\ app'.pending = FALSE
      /\ app'.issue = FALSE
  BY ONLY <1>3, <1>5, <1>7 DEF Kept, Views, Apps
<1>10. \A t, x : Still(app', t, x) <=> Still(app, t, x) /\ x \notin Views \cup {"auth", "gen", "workspace"} /\ t # "op"
  BY ONLY <1>4, <1>6, <1>8 DEF Views
<1> USE <1>1, <1>7, <1>9, <1>10 DEF RoutesInv, Kept, MovesTo, MovesBoth, In, Op, Rests, Shows, Offers, Resuming, Locking,
       Busy, Entering, Moving, NoRights, NoView, Onboarding, Views, Whats, Tasks, Holders, Pcs,
       Free, Opened, ChatFree, AuthCall
<1>11. RoutesType'
  BY DEF RoutesType
<1>12. InOrder'
  BY DEF InOrder
<1>13. OneView' /\ HeldViews'
  BY DEF OneView, HeldViews
<1>14. HeldAtWork'
  BY DEF HeldAtWork
<1>15. OldHoldNothing' /\ SessionFlags' /\ SessionViews' /\ Generations' /\ Handovers'
  BY DEF OldHoldNothing, SessionFlags, SessionViews, Generations, Handovers
<1>16. SessionShown' /\ Sealing' /\ Sealed' /\ OpHolds' /\ OpAuth'
  BY DEF SessionShown, Sealing, Sealed, OpHolds, OpAuth, HeldViews
<1>17. OpFront' /\ Rights' /\ OpenIs' /\ EntersOpen'
  BY DEF OpFront, Rights, OpenIs, EntersOpen, FirstRun, SessionViews, HeldViews
<1>18. Registered' /\ FirstRun' /\ PageIs'
  BY DEF Registered, FirstRun, PageIs, Sealing
<1> QED
  BY ONLY <1>11, <1>12, <1>13, <1>14, <1>15, <1>16, <1>17, <1>18

\* SetupStored: the operation goes on at "unlock" of "setup", the application
\* changes by Registers.
LEMMA UnlockNextSafe ==
  ASSUME RoutesInv, left' \in Lefts,
         Op("setup", {"store"}) /\ Still(app, "op", "auth"),
         app' = Registers(app),
         MovesTo("op", "setup", "unlock")
  PROVE  RoutesInv'
<1>1. app \in Apps /\ task \in Taskings
  BY DEF RoutesInv, RoutesType
<1>2. app' = Registers(app)
  OBVIOUS
<1>3. /\ app' \in Apps
      /\ Kept(app', app, {"registered"})
      /\ app'.registered = TRUE
  BY ONLY <1>2, <1>1, RegistersIs
<1>4. \A t, x : Still(app', t, x) <=> Still(app, t, x)
  BY ONLY <1>2, <1>1, RegistersIs
<1> USE <1>1, <1>3, <1>4 DEF RoutesInv, Kept, MovesTo, MovesBoth, In, Op, Rests, Shows, Offers, Resuming, Locking,
       Busy, Entering, Moving, NoRights, NoView, Onboarding, Views, Whats, Tasks, Holders, Pcs,
       Free, Opened, ChatFree, AuthCall
<1>5. RoutesType'
  BY DEF RoutesType
<1>6. InOrder'
  BY DEF InOrder
<1>7. OneView' /\ HeldViews'
  BY DEF OneView, HeldViews
<1>8. HeldAtWork'
  BY DEF HeldAtWork
<1>9. OldHoldNothing' /\ SessionFlags' /\ SessionViews' /\ Generations' /\ Handovers'
  BY DEF OldHoldNothing, SessionFlags, SessionViews, Generations, Handovers
<1>10. SessionShown' /\ Sealing' /\ Sealed' /\ OpHolds' /\ OpAuth'
  BY DEF SessionShown, Sealing, Sealed, OpHolds, OpAuth
<1>11. OpFront' /\ Rights' /\ OpenIs' /\ EntersOpen'
  BY DEF OpFront, Rights, OpenIs, EntersOpen
<1>12. Registered' /\ FirstRun' /\ PageIs'
  BY DEF Registered, FirstRun, PageIs
<1> QED
  BY ONLY <1>5, <1>6, <1>7, <1>8, <1>9, <1>10, <1>11, <1>12

\* SetupStored: the operation ends, the application changes by Registers,
\* CancelPending, ShowKey.
LEMMA StoredLateSafe ==
  ASSUME RoutesInv, left' \in Lefts,
         Op("setup", {"store"}) /\ ~Still(app, "op", "auth") /\ Still(app, "op", "setup"),
         app' = Forget(ShowKey(CancelPending(Registers(app))), "op"),
         MovesTo("op", "none", "idle")
  PROVE  RoutesInv'
<1>1. app \in Apps /\ task \in Taskings
  BY DEF RoutesInv, RoutesType
<1> DEFINE b1 == Registers(app)
           b2 == CancelPending(b1)
           b3 == ShowKey(b2)
<1>2. app' = Forget(b3, "op")
  OBVIOUS
<1> HIDE DEF b1, b2, b3
<1>3. /\ b1 \in Apps
      /\ Kept(b1, app, {"registered"})
      /\ b1.registered = TRUE
  BY ONLY <1>1, RegistersIs DEF b1
<1>4. \A t, x : Still(b1, t, x) <=> Still(app, t, x)
  BY ONLY <1>1, RegistersIs DEF b1
<1>5. /\ b2 \in Apps
      /\ Kept(b2, b1, {"pending"})
      /\ b2.pending = FALSE
  BY ONLY <1>3, CancelPendingIs DEF b2
<1>6. \A t, x : Still(b2, t, x) <=> Still(b1, t, x) /\ x # "auth"
  BY ONLY <1>3, CancelPendingIs DEF b2
<1>7. /\ b3 \in Apps
      /\ Kept(b3, b2, {"page", "views", "token", "session", "security", "deferred", "chats", "issue"})
      /\ b3.page = (IF b2.closing THEN b2.page ELSE "key") /\ b3.views = {"key"}
      /\ b3.token = "none" /\ b3.session = FALSE /\ b3.security = FALSE
      /\ b3.deferred = FALSE /\ b3.chats = FALSE /\ b3.issue = FALSE
  BY ONLY <1>5, ShowKeyIs DEF b3
<1>8. \A t, x : Still(b3, t, x) <=> Still(b2, t, x) /\ x \notin Views \cup {"gen", "workspace"}
  BY ONLY <1>5, ShowKeyIs DEF b3
<1>9. /\ app' \in Apps
      /\ Kept(app', b3, {})
  BY ONLY <1>2, <1>7, ForgetIs
<1>10. \A t, x : Still(app', t, x) <=> Still(b3, t, x) /\ t # "op"
  BY ONLY <1>2, <1>7, ForgetIs
<1>11. /\ Kept(app', app, {"registered", "page", "views", "token", "session", "security", "deferred", "chats", "pending", "issue"})
      /\ app'.registered = TRUE /\ app'.page = (IF app.closing THEN app.page ELSE "key")
      /\ app'.views = {"key"} /\ app'.token = "none" /\ app'.session = FALSE
      /\ app'.security = FALSE /\ app'.deferred = FALSE /\ app'.chats = FALSE
      /\ app'.pending = FALSE /\ app'.issue = FALSE
  BY ONLY <1>3, <1>5, <1>7, <1>9 DEF Kept, Views, Apps
<1>12. \A t, x : Still(app', t, x) <=> Still(app, t, x) /\ x \notin Views \cup {"auth", "gen", "workspace"} /\ t # "op"
  BY ONLY <1>4, <1>6, <1>8, <1>10 DEF Views
<1> USE <1>1, <1>9, <1>11, <1>12 DEF RoutesInv, Kept, MovesTo, MovesBoth, In, Op, Rests, Shows, Offers, Resuming, Locking,
       Busy, Entering, Moving, NoRights, NoView, Onboarding, Views, Whats, Tasks, Holders, Pcs,
       Free, Opened, ChatFree, AuthCall
<1>13. RoutesType'
  BY DEF RoutesType
<1>14. InOrder'
  BY DEF InOrder
<1>15. OneView' /\ HeldViews'
  BY DEF OneView, HeldViews
<1>16. HeldAtWork'
  BY DEF HeldAtWork
<1>17. OldHoldNothing' /\ SessionFlags' /\ SessionViews' /\ Generations' /\ Handovers'
  BY DEF OldHoldNothing, SessionFlags, SessionViews, Generations, Handovers
<1>18. SessionShown' /\ Sealing' /\ Sealed' /\ OpHolds' /\ OpAuth'
  BY DEF SessionShown, Sealing, Sealed, OpHolds, OpAuth, HeldViews
<1>19. OpFront' /\ Rights' /\ OpenIs' /\ EntersOpen'
  BY DEF OpFront, Rights, OpenIs, EntersOpen, FirstRun, SessionViews, HeldViews
<1>20. Registered' /\ FirstRun' /\ PageIs'
  BY DEF Registered, FirstRun, PageIs, Sealing
<1> QED
  BY ONLY <1>13, <1>14, <1>15, <1>16, <1>17, <1>18, <1>19, <1>20

\* SetupStored: the operation ends, the application changes by Registers,
\* CancelPending.
LEMMA StoredLateAloneSafe ==
  ASSUME RoutesInv, left' \in Lefts,
         Op("setup", {"store"}) /\ ~Still(app, "op", "auth") /\ ~Still(app, "op", "setup"),
         app' = Forget(CancelPending(Registers(app)), "op"),
         MovesTo("op", "none", "idle")
  PROVE  RoutesInv'
<1>1. app \in Apps /\ task \in Taskings
  BY DEF RoutesInv, RoutesType
<1> DEFINE b1 == Registers(app)
           b2 == CancelPending(b1)
<1>2. app' = Forget(b2, "op")
  OBVIOUS
<1> HIDE DEF b1, b2
<1>3. /\ b1 \in Apps
      /\ Kept(b1, app, {"registered"})
      /\ b1.registered = TRUE
  BY ONLY <1>1, RegistersIs DEF b1
<1>4. \A t, x : Still(b1, t, x) <=> Still(app, t, x)
  BY ONLY <1>1, RegistersIs DEF b1
<1>5. /\ b2 \in Apps
      /\ Kept(b2, b1, {"pending"})
      /\ b2.pending = FALSE
  BY ONLY <1>3, CancelPendingIs DEF b2
<1>6. \A t, x : Still(b2, t, x) <=> Still(b1, t, x) /\ x # "auth"
  BY ONLY <1>3, CancelPendingIs DEF b2
<1>7. /\ app' \in Apps
      /\ Kept(app', b2, {})
  BY ONLY <1>2, <1>5, ForgetIs
<1>8. \A t, x : Still(app', t, x) <=> Still(b2, t, x) /\ t # "op"
  BY ONLY <1>2, <1>5, ForgetIs
<1>9. /\ Kept(app', app, {"registered", "pending"})
      /\ app'.registered = TRUE /\ app'.pending = FALSE
  BY ONLY <1>3, <1>5, <1>7 DEF Kept, Views, Apps
<1>10. \A t, x : Still(app', t, x) <=> Still(app, t, x) /\ x # "auth" /\ t # "op"
  BY ONLY <1>4, <1>6, <1>8 DEF Views
<1> USE <1>1, <1>7, <1>9, <1>10 DEF RoutesInv, Kept, MovesTo, MovesBoth, In, Op, Rests, Shows, Offers, Resuming, Locking,
       Busy, Entering, Moving, NoRights, NoView, Onboarding, Views, Whats, Tasks, Holders, Pcs,
       Free, Opened, ChatFree, AuthCall
<1>11. RoutesType'
  BY DEF RoutesType
<1>12. InOrder'
  BY DEF InOrder
<1>13. OneView' /\ HeldViews'
  BY DEF OneView, HeldViews
<1>14. HeldAtWork'
  BY DEF HeldAtWork
<1>15. OldHoldNothing' /\ SessionFlags' /\ SessionViews' /\ Generations' /\ Handovers'
  BY DEF OldHoldNothing, SessionFlags, SessionViews, Generations, Handovers
<1>16. SessionShown' /\ Sealing' /\ Sealed' /\ OpHolds' /\ OpAuth'
  BY DEF SessionShown, Sealing, Sealed, OpHolds, OpAuth
<1>17. OpFront' /\ Rights' /\ OpenIs' /\ EntersOpen'
  BY DEF OpFront, Rights, OpenIs, EntersOpen
<1>18. Registered' /\ FirstRun' /\ PageIs'
  BY DEF Registered, FirstRun, PageIs, Sealed, OneView, OpHolds
<1> QED
  BY ONLY <1>11, <1>12, <1>13, <1>14, <1>15, <1>16, <1>17, <1>18

\* SetupUnlocked: the operation ends, the application changes by LockAccess,
\* CancelPending, ShowKey.
LEMMA UnlockedLateSafe ==
  ASSUME RoutesInv, left' \in Lefts,
         Op("setup", {"unlock"}) /\ ~Still(app, "op", "auth") /\ Still(app, "op", "setup"),
         app' = Forget(ShowKey(CancelPending(LockAccess(app))), "op"),
         MovesTo("op", "none", "idle")
  PROVE  RoutesInv'
<1>1. app \in Apps /\ task \in Taskings
  BY DEF RoutesInv, RoutesType
<1> DEFINE b1 == LockAccess(app)
           b2 == CancelPending(b1)
           b3 == ShowKey(b2)
<1>2. app' = Forget(b3, "op")
  OBVIOUS
<1> HIDE DEF b1, b2, b3
<1>3. /\ b1 \in Apps
      /\ Kept(b1, app, {"open", "loose", "pending", "replacing", "grant", "issue"})
      /\ b1.open = FALSE /\ b1.loose = FALSE /\ b1.pending = FALSE /\ b1.replacing = FALSE
      /\ b1.grant = FALSE /\ b1.issue = FALSE
  BY ONLY <1>1, LockAccessIs DEF b1
<1>4. \A t, x : Still(b1, t, x) <=> Still(app, t, x) /\ x # "auth"
  BY ONLY <1>1, LockAccessIs DEF b1
<1>5. /\ b2 \in Apps
      /\ Kept(b2, b1, {"pending"})
      /\ b2.pending = FALSE
  BY ONLY <1>3, CancelPendingIs DEF b2
<1>6. \A t, x : Still(b2, t, x) <=> Still(b1, t, x) /\ x # "auth"
  BY ONLY <1>3, CancelPendingIs DEF b2
<1>7. /\ b3 \in Apps
      /\ Kept(b3, b2, {"page", "views", "token", "session", "security", "deferred", "chats", "issue"})
      /\ b3.page = (IF b2.closing THEN b2.page ELSE "key") /\ b3.views = {"key"}
      /\ b3.token = "none" /\ b3.session = FALSE /\ b3.security = FALSE
      /\ b3.deferred = FALSE /\ b3.chats = FALSE /\ b3.issue = FALSE
  BY ONLY <1>5, ShowKeyIs DEF b3
<1>8. \A t, x : Still(b3, t, x) <=> Still(b2, t, x) /\ x \notin Views \cup {"gen", "workspace"}
  BY ONLY <1>5, ShowKeyIs DEF b3
<1>9. /\ app' \in Apps
      /\ Kept(app', b3, {})
  BY ONLY <1>2, <1>7, ForgetIs
<1>10. \A t, x : Still(app', t, x) <=> Still(b3, t, x) /\ t # "op"
  BY ONLY <1>2, <1>7, ForgetIs
<1>11. /\ Kept(app', app, {"page", "views", "token", "session", "security", "deferred", "chats", "open", "loose", "pending", "replacing", "grant", "issue"})
      /\ app'.page = (IF app.closing THEN app.page ELSE "key") /\ app'.views = {"key"}
      /\ app'.token = "none" /\ app'.session = FALSE /\ app'.security = FALSE
      /\ app'.deferred = FALSE /\ app'.chats = FALSE /\ app'.open = FALSE
      /\ app'.loose = FALSE /\ app'.pending = FALSE /\ app'.replacing = FALSE
      /\ app'.grant = FALSE /\ app'.issue = FALSE
  BY ONLY <1>3, <1>5, <1>7, <1>9 DEF Kept, Views, Apps
<1>12. \A t, x : Still(app', t, x) <=> Still(app, t, x) /\ x \notin Views \cup {"auth", "gen", "workspace"} /\ t # "op"
  BY ONLY <1>4, <1>6, <1>8, <1>10 DEF Views
<1> USE <1>1, <1>9, <1>11, <1>12 DEF RoutesInv, Kept, MovesTo, MovesBoth, In, Op, Rests, Shows, Offers, Resuming, Locking,
       Busy, Entering, Moving, NoRights, NoView, Onboarding, Views, Whats, Tasks, Holders, Pcs,
       Free, Opened, ChatFree, AuthCall
<1>13. RoutesType'
  BY DEF RoutesType
<1>14. InOrder'
  BY DEF InOrder
<1>15. OneView' /\ HeldViews'
  BY DEF OneView, HeldViews
<1>16. HeldAtWork'
  BY DEF HeldAtWork
<1>17. OldHoldNothing' /\ SessionFlags' /\ SessionViews' /\ Generations' /\ Handovers'
  BY DEF OldHoldNothing, SessionFlags, SessionViews, Generations, Handovers
<1>18. SessionShown' /\ Sealing' /\ Sealed' /\ OpHolds' /\ OpAuth'
  BY DEF SessionShown, Sealing, Sealed, OpHolds, OpAuth, HeldViews
<1>19. OpFront' /\ Rights' /\ OpenIs' /\ EntersOpen'
  BY DEF OpFront, Rights, OpenIs, EntersOpen
<1>20. Registered' /\ FirstRun' /\ PageIs'
  BY DEF Registered, FirstRun, PageIs, Sealing
<1> QED
  BY ONLY <1>13, <1>14, <1>15, <1>16, <1>17, <1>18, <1>19, <1>20

\* SetupUnlocked: the operation ends, the application changes by LockAccess,
\* CancelPending.
LEMMA UnlockedLateAloneSafe ==
  ASSUME RoutesInv, left' \in Lefts,
         Op("setup", {"unlock"}) /\ ~Still(app, "op", "auth") /\ ~Still(app, "op", "setup"),
         app' = Forget(CancelPending(LockAccess(app)), "op"),
         MovesTo("op", "none", "idle")
  PROVE  RoutesInv'
<1>1. app \in Apps /\ task \in Taskings
  BY DEF RoutesInv, RoutesType
<1> DEFINE b1 == LockAccess(app)
           b2 == CancelPending(b1)
<1>2. app' = Forget(b2, "op")
  OBVIOUS
<1> HIDE DEF b1, b2
<1>3. /\ b1 \in Apps
      /\ Kept(b1, app, {"open", "loose", "pending", "replacing", "grant", "issue"})
      /\ b1.open = FALSE /\ b1.loose = FALSE /\ b1.pending = FALSE /\ b1.replacing = FALSE
      /\ b1.grant = FALSE /\ b1.issue = FALSE
  BY ONLY <1>1, LockAccessIs DEF b1
<1>4. \A t, x : Still(b1, t, x) <=> Still(app, t, x) /\ x # "auth"
  BY ONLY <1>1, LockAccessIs DEF b1
<1>5. /\ b2 \in Apps
      /\ Kept(b2, b1, {"pending"})
      /\ b2.pending = FALSE
  BY ONLY <1>3, CancelPendingIs DEF b2
<1>6. \A t, x : Still(b2, t, x) <=> Still(b1, t, x) /\ x # "auth"
  BY ONLY <1>3, CancelPendingIs DEF b2
<1>7. /\ app' \in Apps
      /\ Kept(app', b2, {})
  BY ONLY <1>2, <1>5, ForgetIs
<1>8. \A t, x : Still(app', t, x) <=> Still(b2, t, x) /\ t # "op"
  BY ONLY <1>2, <1>5, ForgetIs
<1>9. /\ Kept(app', app, {"open", "loose", "pending", "replacing", "grant", "issue"})
      /\ app'.open = FALSE /\ app'.loose = FALSE /\ app'.pending = FALSE
      /\ app'.replacing = FALSE /\ app'.grant = FALSE /\ app'.issue = FALSE
  BY ONLY <1>3, <1>5, <1>7 DEF Kept, Views, Apps
<1>10. \A t, x : Still(app', t, x) <=> Still(app, t, x) /\ x # "auth" /\ t # "op"
  BY ONLY <1>4, <1>6, <1>8 DEF Views
<1> USE <1>1, <1>7, <1>9, <1>10 DEF RoutesInv, Kept, MovesTo, MovesBoth, In, Op, Rests, Shows, Offers, Resuming, Locking,
       Busy, Entering, Moving, NoRights, NoView, Onboarding, Views, Whats, Tasks, Holders, Pcs,
       Free, Opened, ChatFree, AuthCall
<1>11. RoutesType'
  BY DEF RoutesType
<1>12. InOrder'
  BY DEF InOrder
<1>13. OneView' /\ HeldViews'
  BY DEF OneView, HeldViews
<1>14. HeldAtWork'
  BY DEF HeldAtWork
<1>15. OldHoldNothing' /\ SessionFlags' /\ SessionViews' /\ Generations' /\ Handovers'
  BY DEF OldHoldNothing, SessionFlags, SessionViews, Generations, Handovers, Sealed, OpHolds
<1>16. SessionShown' /\ Sealing' /\ Sealed' /\ OpHolds' /\ OpAuth'
  BY DEF SessionShown, Sealing, Sealed, OpHolds, OpAuth
<1>17. OpFront' /\ Rights' /\ OpenIs' /\ EntersOpen'
  BY DEF OpFront, Rights, OpenIs, EntersOpen
<1>18. Registered' /\ FirstRun' /\ PageIs'
  BY DEF Registered, FirstRun, PageIs, OneView, Sealed, OpHolds
<1> QED
  BY ONLY <1>11, <1>12, <1>13, <1>14, <1>15, <1>16, <1>17, <1>18

\* SetupUnlocked: the operation ends, the application changes by
\* CancelPending, Opens, ActivateStep, ShowStep.
LEMMA SetupEntersStepSafe ==
  ASSUME RoutesInv, left' \in Lefts,
         Op("setup", {"unlock"}) /\ Still(app, "op", "auth") /\ Still(app, "op", "setup") /\ app.linux /\ ~app.background /\ ~app.closing /\ ~app.suspending,
         app' = Forget(ShowStep(ActivateStep(Opens(CancelPending(app)))), "op"),
         MovesTo("op", "none", "idle")
  PROVE  RoutesInv'
<1>1. app \in Apps /\ task \in Taskings
  BY DEF RoutesInv, RoutesType
<1> DEFINE b1 == CancelPending(app)
           b2 == Opens(b1)
           b3 == ActivateStep(b2)
           b4 == ShowStep(b3)
<1>2. app' = Forget(b4, "op")
  OBVIOUS
<1> HIDE DEF b1, b2, b3, b4
<1>3. /\ b1 \in Apps
      /\ Kept(b1, app, {"pending"})
      /\ b1.pending = FALSE
  BY ONLY <1>1, CancelPendingIs DEF b1
<1>4. \A t, x : Still(b1, t, x) <=> Still(app, t, x) /\ x # "auth"
  BY ONLY <1>1, CancelPendingIs DEF b1
<1>5. /\ b2 \in Apps
      /\ Kept(b2, b1, {"open"})
      /\ b2.open = TRUE
  BY ONLY <1>3, OpensIs DEF b2
<1>6. \A t, x : Still(b2, t, x) <=> Still(b1, t, x)
  BY ONLY <1>3, OpensIs DEF b2
<1>7. /\ b3 \in Apps
      /\ Kept(b3, b2, {"views", "token", "session", "security", "deferred", "chats", "loose", "issue"})
      /\ b3.views = {} /\ b3.token = "none" /\ b3.session = TRUE /\ b3.security = FALSE
      /\ b3.deferred = TRUE /\ b3.chats = FALSE /\ b3.loose = FALSE /\ b3.issue = FALSE
  BY ONLY <1>5, ActivateStepIs DEF b3
<1>8. \A t, x : Still(b3, t, x) <=> Still(b2, t, x) /\ x \notin Views \cup {"gen", "workspace"}
  BY ONLY <1>5, ActivateStepIs DEF b3
<1>9. /\ b4 \in Apps
      /\ Kept(b4, b3, {"page", "views"})
      /\ b4.page = (IF b3.closing THEN b3.page ELSE "step")
      /\ b4.views = b3.views \cup {"step"}
  BY ONLY <1>7, ShowStepIs DEF b4
<1>10. \A t, x : Still(b4, t, x) <=> Still(b3, t, x) /\ x # "step"
  BY ONLY <1>7, ShowStepIs DEF b4
<1>11. /\ app' \in Apps
      /\ Kept(app', b4, {})
  BY ONLY <1>2, <1>9, ForgetIs
<1>12. \A t, x : Still(app', t, x) <=> Still(b4, t, x) /\ t # "op"
  BY ONLY <1>2, <1>9, ForgetIs
<1>13. /\ Kept(app', app, {"page", "views", "token", "session", "security", "deferred", "chats", "open", "loose", "pending", "issue"})
      /\ app'.page = (IF app.closing THEN app.page ELSE "step")
      /\ app'.views = {} \cup {"step"} /\ app'.token = "none" /\ app'.session = TRUE
      /\ app'.security = FALSE /\ app'.deferred = TRUE /\ app'.chats = FALSE
      /\ app'.open = TRUE /\ app'.loose = FALSE /\ app'.pending = FALSE /\ app'.issue = FALSE
  BY ONLY <1>3, <1>5, <1>7, <1>9, <1>11 DEF Kept, Views, Apps
<1>14. \A t, x : Still(app', t, x) <=> Still(app, t, x) /\ x \notin Views \cup {"auth", "gen", "workspace"} /\ t # "op"
  BY ONLY <1>4, <1>6, <1>8, <1>10, <1>12 DEF Views
<1>f. /\ Op("setup", {"unlock"}) /\ Still(app, "op", "auth") /\ Still(app, "op", "setup")
      /\ app.linux = TRUE /\ ~app.background /\ ~app.closing /\ ~app.suspending
      /\ left' \in Lefts /\ MovesTo("op", "none", "idle")
  BY <1>1, Zenon DEF Apps, Opened, ChatFree
<1> USE DEF RoutesInv, Kept, MovesTo, MovesBoth, In, Op, Rests, Shows, Offers, Resuming, Locking,
       Busy, Entering, Moving, NoRights, NoView, Onboarding, Views, Whats, Tasks, Holders, Pcs,
       Free, Opened, ChatFree, AuthCall
<1>15. RoutesType'
  BY ONLY RoutesInv, <1>f, <1>1, <1>11, <1>13, <1>14 DEF RoutesType
<1>16. InOrder'
  BY ONLY RoutesInv, <1>f, <1>1, <1>11, <1>13, <1>14 DEF InOrder
<1>17. OneView' /\ HeldViews'
  BY ONLY RoutesInv, <1>f, <1>1, <1>11, <1>13, <1>14 DEF OneView, HeldViews
<1>18. HeldAtWork'
  BY ONLY RoutesInv, <1>f, <1>1, <1>11, <1>13, <1>14 DEF HeldAtWork
<1>19. OldHoldNothing' /\ SessionFlags' /\ SessionViews' /\ Generations' /\ Handovers'
  BY ONLY RoutesInv, <1>f, <1>1, <1>11, <1>13, <1>14 DEF OldHoldNothing, SessionFlags,
        SessionViews, Generations, Handovers
<1>20. SessionShown' /\ Sealing' /\ Sealed' /\ OpHolds' /\ OpAuth'
  BY ONLY RoutesInv, <1>f, <1>1, <1>11, <1>13, <1>14 DEF SessionShown, Sealing, Sealed, OpHolds,
        OpAuth
<1>21. OpFront' /\ Rights' /\ OpenIs' /\ EntersOpen'
  BY ONLY RoutesInv, <1>f, <1>1, <1>11, <1>13, <1>14 DEF OpFront, Rights, OpenIs, EntersOpen,
        FirstRun, OneView
<1>22. Registered' /\ FirstRun' /\ PageIs'
  BY ONLY RoutesInv, <1>f, <1>1, <1>11, <1>13, <1>14 DEF Registered, FirstRun, PageIs
<1> QED
  BY ONLY <1>15, <1>16, <1>17, <1>18, <1>19, <1>20, <1>21, <1>22

\* SetupUnlocked: the operation goes on at "prefs" of "resume", the
\* application changes by CancelPending, Opens, ActivateStep.
LEMMA SetupEntersStoredSafe ==
  ASSUME RoutesInv, left' \in Lefts,
         Op("setup", {"unlock"}) /\ Still(app, "op", "auth") /\ Still(app, "op", "setup") /\ app.linux /\ ~app.background /\ ~app.closing /\ ~app.suspending,
         app' = Capture(Forget(ActivateStep(Opens(CancelPending(app))), "op"), "op", {"epoch", "seal"}),
         MovesTo("op", "resume", "prefs")
  PROVE  RoutesInv'
<1>1. app \in Apps /\ task \in Taskings
  BY DEF RoutesInv, RoutesType
<1> DEFINE b1 == CancelPending(app)
           b2 == Opens(b1)
           b3 == ActivateStep(b2)
           b4 == Forget(b3, "op")
<1>2. app' = Capture(b4, "op", {"epoch", "seal"})
  OBVIOUS
<1> HIDE DEF b1, b2, b3, b4
<1>3. /\ b1 \in Apps
      /\ Kept(b1, app, {"pending"})
      /\ b1.pending = FALSE
  BY ONLY <1>1, CancelPendingIs DEF b1
<1>4. \A t, x : Still(b1, t, x) <=> Still(app, t, x) /\ x # "auth"
  BY ONLY <1>1, CancelPendingIs DEF b1
<1>5. /\ b2 \in Apps
      /\ Kept(b2, b1, {"open"})
      /\ b2.open = TRUE
  BY ONLY <1>3, OpensIs DEF b2
<1>6. \A t, x : Still(b2, t, x) <=> Still(b1, t, x)
  BY ONLY <1>3, OpensIs DEF b2
<1>7. /\ b3 \in Apps
      /\ Kept(b3, b2, {"views", "token", "session", "security", "deferred", "chats", "loose", "issue"})
      /\ b3.views = {} /\ b3.token = "none" /\ b3.session = TRUE /\ b3.security = FALSE
      /\ b3.deferred = TRUE /\ b3.chats = FALSE /\ b3.loose = FALSE /\ b3.issue = FALSE
  BY ONLY <1>5, ActivateStepIs DEF b3
<1>8. \A t, x : Still(b3, t, x) <=> Still(b2, t, x) /\ x \notin Views \cup {"gen", "workspace"}
  BY ONLY <1>5, ActivateStepIs DEF b3
<1>9. /\ b4 \in Apps
      /\ Kept(b4, b3, {})
  BY ONLY <1>7, ForgetIs DEF b4
<1>10. \A t, x : Still(b4, t, x) <=> Still(b3, t, x) /\ t # "op"
  BY ONLY <1>7, ForgetIs DEF b4
<1>11. "op" \in Holders /\ {"epoch", "seal"} \in SUBSET Whats
  BY DEF Holders, Tasks, Whats, Views
<1>12. /\ app' \in Apps
      /\ Kept(app', b4, {})
  BY ONLY <1>2, <1>9, <1>11, CaptureIs
<1>13. \A t, x : Still(app', t, x) <=> (Still(b4, t, x)) \/ (t = "op" /\ x \in {"epoch", "seal"})
  BY ONLY <1>2, <1>9, <1>11, CaptureIs
<1>14. /\ Kept(app', app, {"views", "token", "session", "security", "deferred", "chats", "open", "loose", "pending", "issue"})
      /\ app'.views = {} /\ app'.token = "none" /\ app'.session = TRUE
      /\ app'.security = FALSE /\ app'.deferred = TRUE /\ app'.chats = FALSE
      /\ app'.open = TRUE /\ app'.loose = FALSE /\ app'.pending = FALSE /\ app'.issue = FALSE
  BY ONLY <1>3, <1>5, <1>7, <1>9, <1>12 DEF Kept, Views, Apps
<1>15. \A t, x : Still(app', t, x) <=> (Still(app, t, x) /\ x \notin Views \cup {"auth", "gen", "workspace"} /\ t # "op") \/ (t = "op" /\ x \in {"epoch", "seal"})
  BY ONLY <1>4, <1>6, <1>8, <1>10, <1>13 DEF Views
<1>f. /\ Op("setup", {"unlock"}) /\ Still(app, "op", "auth") /\ Still(app, "op", "setup")
      /\ app.linux = TRUE /\ ~app.background /\ ~app.closing /\ ~app.suspending
      /\ left' \in Lefts /\ MovesTo("op", "resume", "prefs")
  BY <1>1, Zenon DEF Apps, Opened, ChatFree
<1> USE DEF RoutesInv, Kept, MovesTo, MovesBoth, In, Op, Rests, Shows, Offers, Resuming, Locking,
       Busy, Entering, Moving, NoRights, NoView, Onboarding, Views, Whats, Tasks, Holders, Pcs,
       Free, Opened, ChatFree, AuthCall
<1>16. RoutesType'
  BY ONLY RoutesInv, <1>f, <1>1, <1>12, <1>14, <1>15 DEF RoutesType
<1>17. InOrder'
  BY ONLY RoutesInv, <1>f, <1>1, <1>12, <1>14, <1>15 DEF InOrder
<1>18. OneView' /\ HeldViews'
  BY ONLY RoutesInv, <1>f, <1>1, <1>12, <1>14, <1>15 DEF OneView, HeldViews
<1>19. HeldAtWork'
  BY ONLY RoutesInv, <1>f, <1>1, <1>12, <1>14, <1>15 DEF HeldAtWork
<1>20. OldHoldNothing' /\ SessionFlags' /\ SessionViews' /\ Generations' /\ Handovers'
  BY ONLY RoutesInv, <1>f, <1>1, <1>12, <1>14, <1>15 DEF OldHoldNothing, SessionFlags,
        SessionViews, Generations, Handovers
<1>21. SessionShown' /\ Sealing' /\ Sealed' /\ OpHolds' /\ OpAuth'
  BY ONLY RoutesInv, <1>f, <1>1, <1>12, <1>14, <1>15 DEF SessionShown, Sealing, Sealed, OpHolds,
        OpAuth
<1>22. OpFront' /\ Rights' /\ OpenIs' /\ EntersOpen'
  BY ONLY RoutesInv, <1>f, <1>1, <1>12, <1>14, <1>15 DEF OpFront, Rights, OpenIs, EntersOpen,
        FirstRun, OneView
<1>23. Registered' /\ FirstRun' /\ PageIs'
  BY ONLY RoutesInv, <1>f, <1>1, <1>12, <1>14, <1>15 DEF Registered, FirstRun, PageIs
<1> QED
  BY ONLY <1>16, <1>17, <1>18, <1>19, <1>20, <1>21, <1>22, <1>23

\* SetupUnlocked: the operation goes on at "show" of "setup", the application
\* changes by CancelPending, Opens, ActivatePresent, Moved.
LEMMA SetupEntersSafe ==
  ASSUME RoutesInv, left' \in Lefts,
         Op("setup", {"unlock"}) /\ Still(app, "op", "auth") /\ Still(app, "op", "setup") /\ ~app.linux,
         app' = Capture(Moved(ActivatePresent(Opens(CancelPending(app))), "workspace"), "op", {"gen", "workspace"}),
         MovesTo("op", "setup", "show")
  PROVE  RoutesInv'
<1>1. app \in Apps /\ task \in Taskings
  BY DEF RoutesInv, RoutesType
<1> DEFINE b1 == CancelPending(app)
           b2 == Opens(b1)
           b3 == ActivatePresent(b2)
           b4 == Moved(b3, "workspace")
<1>2. app' = Capture(b4, "op", {"gen", "workspace"})
  OBVIOUS
<1> HIDE DEF b1, b2, b3, b4
<1>3. /\ b1 \in Apps
      /\ Kept(b1, app, {"pending"})
      /\ b1.pending = FALSE
  BY ONLY <1>1, CancelPendingIs DEF b1
<1>4. \A t, x : Still(b1, t, x) <=> Still(app, t, x) /\ x # "auth"
  BY ONLY <1>1, CancelPendingIs DEF b1
<1>5. /\ b2 \in Apps
      /\ Kept(b2, b1, {"open"})
      /\ b2.open = TRUE
  BY ONLY <1>3, OpensIs DEF b2
<1>6. \A t, x : Still(b2, t, x) <=> Still(b1, t, x)
  BY ONLY <1>3, OpensIs DEF b2
<1>7. /\ b3 \in Apps
      /\ Kept(b3, b2, {"views", "token", "session", "security", "deferred", "chats", "loose", "issue"})
      /\ b3.views = {} /\ b3.token = "none" /\ b3.session = TRUE /\ b3.security = FALSE
      /\ b3.deferred = FALSE /\ b3.chats = FALSE /\ b3.loose = FALSE /\ b3.issue = FALSE
  BY ONLY <1>5, ActivatePresentIs DEF b3
<1>8. \A t, x : Still(b3, t, x) <=> Still(b2, t, x) /\ x \notin Views \cup {"gen", "workspace"}
  BY ONLY <1>5, ActivatePresentIs DEF b3
<1>9. /\ b4 \in Apps
      /\ Kept(b4, b3, {})
  BY ONLY <1>7, MovedIs DEF b4
<1>10. \A t, x : Still(b4, t, x) <=> Still(b3, t, x) /\ x # "workspace"
  BY ONLY <1>7, MovedIs DEF b4
<1>11. "op" \in Holders /\ {"gen", "workspace"} \in SUBSET Whats
  BY DEF Holders, Tasks, Whats, Views
<1>12. /\ app' \in Apps
      /\ Kept(app', b4, {})
  BY ONLY <1>2, <1>9, <1>11, CaptureIs
<1>13. \A t, x : Still(app', t, x) <=> (Still(b4, t, x)) \/ (t = "op" /\ x \in {"gen", "workspace"})
  BY ONLY <1>2, <1>9, <1>11, CaptureIs
<1>14. /\ Kept(app', app, {"views", "token", "session", "security", "deferred", "chats", "open", "loose", "pending", "issue"})
      /\ app'.views = {} /\ app'.token = "none" /\ app'.session = TRUE
      /\ app'.security = FALSE /\ app'.deferred = FALSE /\ app'.chats = FALSE
      /\ app'.open = TRUE /\ app'.loose = FALSE /\ app'.pending = FALSE /\ app'.issue = FALSE
  BY ONLY <1>3, <1>5, <1>7, <1>9, <1>12 DEF Kept, Views, Apps
<1>15. \A t, x : Still(app', t, x) <=> (Still(app, t, x) /\ x \notin Views \cup {"auth", "gen", "workspace"}) \/ (t = "op" /\ x \in {"gen", "workspace"})
  BY ONLY <1>4, <1>6, <1>8, <1>10, <1>13 DEF Views
<1> USE <1>1, <1>12, <1>14, <1>15 DEF RoutesInv, Kept, MovesTo, MovesBoth, In, Op, Rests, Shows, Offers, Resuming, Locking,
       Busy, Entering, Moving, NoRights, NoView, Onboarding, Views, Whats, Tasks, Holders, Pcs,
       Free, Opened, ChatFree, AuthCall
<1>16. RoutesType'
  BY DEF RoutesType
<1>17. InOrder'
  BY DEF InOrder
<1>18. OneView' /\ HeldViews'
  BY DEF OneView, HeldViews
<1>19. HeldAtWork'
  BY DEF HeldAtWork
<1>20. OldHoldNothing' /\ SessionFlags' /\ SessionViews' /\ Generations' /\ Handovers'
  BY DEF OldHoldNothing, SessionFlags, SessionViews, Generations, Handovers
<1>21. SessionShown' /\ Sealing' /\ Sealed' /\ OpHolds' /\ OpAuth'
  BY DEF SessionShown, Sealing, Sealed, OpHolds, OpAuth, HeldViews
<1>22. OpFront' /\ Rights' /\ OpenIs' /\ EntersOpen'
  BY DEF OpFront, Rights, OpenIs, EntersOpen, OneView, FirstRun
<1>23. Registered' /\ FirstRun' /\ PageIs'
  BY DEF Registered, FirstRun, PageIs
<1> QED
  BY ONLY <1>16, <1>17, <1>18, <1>19, <1>20, <1>21, <1>22, <1>23

\* SubmitPin: the operation goes on at "verify" of "login", the application
\* changes in its captures at most.
LEMMA LoginBeginsSafe ==
  ASSUME RoutesInv, left' \in Lefts,
         "pin" \in app.views /\ ~Onboarding(app) /\ ~Busy /\ Free /\ Rests("op"),
         app' = Capture(app, "op", {"pin", "seal"}),
         MovesTo("op", "login", "verify")
  PROVE  RoutesInv'
<1>1. app \in Apps /\ task \in Taskings
  BY DEF RoutesInv, RoutesType
<1>2. app' = Capture(app, "op", {"pin", "seal"})
  OBVIOUS
<1>3. "op" \in Holders /\ {"pin", "seal"} \in SUBSET Whats
  BY DEF Holders, Tasks, Whats, Views
<1>4. /\ app' \in Apps
      /\ Kept(app', app, {})
  BY ONLY <1>2, <1>1, <1>3, CaptureIs
<1>5. \A t, x : Still(app', t, x) <=> (Still(app, t, x)) \/ (t = "op" /\ x \in {"pin", "seal"})
  BY ONLY <1>2, <1>1, <1>3, CaptureIs
<1> USE <1>1, <1>4, <1>5 DEF RoutesInv, Kept, MovesTo, MovesBoth, In, Op, Rests, Shows, Offers, Resuming, Locking,
       Busy, Entering, Moving, NoRights, NoView, Onboarding, Views, Whats, Tasks, Holders, Pcs,
       Free, Opened, ChatFree, AuthCall
<1>6. RoutesType'
  BY DEF RoutesType
<1>7. InOrder'
  BY DEF InOrder
<1>8. OneView' /\ HeldViews'
  BY DEF OneView, HeldViews
<1>9. HeldAtWork'
  BY DEF HeldAtWork
<1>10. OldHoldNothing' /\ SessionFlags' /\ SessionViews' /\ Generations' /\ Handovers'
  BY DEF OldHoldNothing, SessionFlags, SessionViews, Generations, Handovers
<1>11. SessionShown' /\ Sealing' /\ Sealed' /\ OpHolds' /\ OpAuth'
  BY DEF SessionShown, Sealing, Sealed, OpHolds, OpAuth, SessionViews, HeldAtWork
<1>12. OpFront' /\ Rights' /\ OpenIs' /\ EntersOpen'
  BY DEF OpFront, Rights, OpenIs, EntersOpen
<1>13. Registered' /\ FirstRun' /\ PageIs'
  BY DEF Registered, FirstRun, PageIs
<1> QED
  BY ONLY <1>6, <1>7, <1>8, <1>9, <1>10, <1>11, <1>12, <1>13

\* SubmitPin: the operation goes on at "verify_step" of "login", the
\* application changes in its captures at most.
LEMMA LoginBeginsStepSafe ==
  ASSUME RoutesInv, left' \in Lefts,
         "pin" \in app.views /\ Onboarding(app) /\ ~Busy /\ Free /\ Rests("op"),
         app' = Capture(app, "op", {"pin", "seal"}),
         MovesTo("op", "login", "verify_step")
  PROVE  RoutesInv'
<1>1. app \in Apps /\ task \in Taskings
  BY DEF RoutesInv, RoutesType
<1>2. app' = Capture(app, "op", {"pin", "seal"})
  OBVIOUS
<1>3. "op" \in Holders /\ {"pin", "seal"} \in SUBSET Whats
  BY DEF Holders, Tasks, Whats, Views
<1>4. /\ app' \in Apps
      /\ Kept(app', app, {})
  BY ONLY <1>2, <1>1, <1>3, CaptureIs
<1>5. \A t, x : Still(app', t, x) <=> (Still(app, t, x)) \/ (t = "op" /\ x \in {"pin", "seal"})
  BY ONLY <1>2, <1>1, <1>3, CaptureIs
<1> USE <1>1, <1>4, <1>5 DEF RoutesInv, Kept, MovesTo, MovesBoth, In, Op, Rests, Shows, Offers, Resuming, Locking,
       Busy, Entering, Moving, NoRights, NoView, Onboarding, Views, Whats, Tasks, Holders, Pcs,
       Free, Opened, ChatFree, AuthCall
<1>6. RoutesType'
  BY DEF RoutesType
<1>7. InOrder'
  BY DEF InOrder
<1>8. OneView' /\ HeldViews'
  BY DEF OneView, HeldViews
<1>9. HeldAtWork'
  BY DEF HeldAtWork
<1>10. OldHoldNothing' /\ SessionFlags' /\ SessionViews' /\ Generations' /\ Handovers'
  BY DEF OldHoldNothing, SessionFlags, SessionViews, Generations, Handovers
<1>11. SessionShown' /\ Sealing' /\ Sealed' /\ OpHolds' /\ OpAuth'
  BY DEF SessionShown, Sealing, Sealed, OpHolds, OpAuth, SessionViews, HeldAtWork
<1>12. OpFront' /\ Rights' /\ OpenIs' /\ EntersOpen'
  BY DEF OpFront, Rights, OpenIs, EntersOpen
<1>13. Registered'
  BY DEF Registered
<1>14. FirstRun'
  BY DEF FirstRun
<1>15. PageIs'
  BY DEF PageIs
<1> QED
  BY ONLY <1>6, <1>7, <1>8, <1>9, <1>10, <1>11, <1>12, <1>13, <1>14, <1>15

\* LoginVerified: the operation goes on at "unlock" of "login", the
\* application changes in its captures at most.
LEMMA VerifiedSafe ==
  ASSUME RoutesInv, left' \in Lefts,
         Op("login", {"verify"}),
         app' = Capture(app, "op", {"auth"}),
         MovesTo("op", "login", "unlock")
  PROVE  RoutesInv'
<1>1. app \in Apps /\ task \in Taskings
  BY DEF RoutesInv, RoutesType
<1>2. app' = Capture(app, "op", {"auth"})
  OBVIOUS
<1>3. "op" \in Holders /\ {"auth"} \in SUBSET Whats
  BY DEF Holders, Tasks, Whats, Views
<1>4. /\ app' \in Apps
      /\ Kept(app', app, {})
  BY ONLY <1>2, <1>1, <1>3, CaptureIs
<1>5. \A t, x : Still(app', t, x) <=> (Still(app, t, x)) \/ (t = "op" /\ x \in {"auth"})
  BY ONLY <1>2, <1>1, <1>3, CaptureIs
<1> USE <1>1, <1>4, <1>5 DEF RoutesInv, Kept, MovesTo, MovesBoth, In, Op, Rests, Shows, Offers, Resuming, Locking,
       Busy, Entering, Moving, NoRights, NoView, Onboarding, Views, Whats, Tasks, Holders, Pcs,
       Free, Opened, ChatFree, AuthCall
<1>6. RoutesType'
  BY DEF RoutesType
<1>7. InOrder'
  BY DEF InOrder
<1>8. OneView' /\ HeldViews'
  BY DEF OneView, HeldViews
<1>9. HeldAtWork'
  BY DEF HeldAtWork
<1>10. OldHoldNothing' /\ SessionFlags' /\ SessionViews' /\ Generations' /\ Handovers'
  BY DEF OldHoldNothing, SessionFlags, SessionViews, Generations, Handovers
<1>11. SessionShown' /\ Sealing' /\ Sealed' /\ OpHolds' /\ OpAuth'
  BY DEF SessionShown, Sealing, Sealed, OpHolds, OpAuth
<1>12. OpFront' /\ Rights' /\ OpenIs' /\ EntersOpen'
  BY DEF OpFront, Rights, OpenIs, EntersOpen
<1>13. Registered' /\ FirstRun' /\ PageIs'
  BY DEF Registered, FirstRun, PageIs
<1> QED
  BY ONLY <1>6, <1>7, <1>8, <1>9, <1>10, <1>11, <1>12, <1>13

\* LoginVerified: the operation goes on at "unlock_step" of "login", the
\* application changes in its captures at most.
LEMMA VerifiedStepSafe ==
  ASSUME RoutesInv, left' \in Lefts,
         Op("login", {"verify_step"}),
         app' = Capture(app, "op", {"auth"}),
         MovesTo("op", "login", "unlock_step")
  PROVE  RoutesInv'
<1>1. app \in Apps /\ task \in Taskings
  BY DEF RoutesInv, RoutesType
<1>2. app' = Capture(app, "op", {"auth"})
  OBVIOUS
<1>3. "op" \in Holders /\ {"auth"} \in SUBSET Whats
  BY DEF Holders, Tasks, Whats, Views
<1>4. /\ app' \in Apps
      /\ Kept(app', app, {})
  BY ONLY <1>2, <1>1, <1>3, CaptureIs
<1>5. \A t, x : Still(app', t, x) <=> (Still(app, t, x)) \/ (t = "op" /\ x \in {"auth"})
  BY ONLY <1>2, <1>1, <1>3, CaptureIs
<1> USE <1>1, <1>4, <1>5 DEF RoutesInv, Kept, MovesTo, MovesBoth, In, Op, Rests, Shows, Offers, Resuming, Locking,
       Busy, Entering, Moving, NoRights, NoView, Onboarding, Views, Whats, Tasks, Holders, Pcs,
       Free, Opened, ChatFree, AuthCall
<1>6. RoutesType'
  BY DEF RoutesType
<1>7. InOrder'
  BY DEF InOrder
<1>8. OneView' /\ HeldViews'
  BY DEF OneView, HeldViews
<1>9. HeldAtWork'
  BY DEF HeldAtWork
<1>10. OldHoldNothing' /\ SessionFlags' /\ SessionViews' /\ Generations' /\ Handovers'
  BY DEF OldHoldNothing, SessionFlags, SessionViews, Generations, Handovers
<1>11. SessionShown' /\ Sealing' /\ Sealed' /\ OpHolds' /\ OpAuth'
  BY DEF SessionShown, Sealing, Sealed, OpHolds, OpAuth
<1>12. OpFront' /\ Rights' /\ OpenIs' /\ EntersOpen'
  BY DEF OpFront, Rights, OpenIs, EntersOpen
<1>13. Registered' /\ FirstRun' /\ PageIs'
  BY DEF Registered, FirstRun, PageIs
<1> QED
  BY ONLY <1>6, <1>7, <1>8, <1>9, <1>10, <1>11, <1>12, <1>13

\* LoginUnlocked, LoginRead: the operation ends, the application changes by
\* Shuts, CancelGrant.
LEMMA LoginFailsSafe ==
  ASSUME RoutesInv, left' \in Lefts,
         \/ Op("login", {"unlock", "unlock_step"})
         \/ Op("login", {"read", "read_step"}),
         app' = Forget(CancelGrant(Shuts(app)), "op"),
         MovesTo("op", "none", "idle")
  PROVE  RoutesInv'
<1>1. app \in Apps /\ task \in Taskings
  BY DEF RoutesInv, RoutesType
<1> DEFINE b1 == Shuts(app)
           b2 == CancelGrant(b1)
<1>2. app' = Forget(b2, "op")
  OBVIOUS
<1> HIDE DEF b1, b2
<1>3. /\ b1 \in Apps
      /\ Kept(b1, app, {"open", "loose"})
      /\ b1.open = FALSE /\ b1.loose = FALSE
  BY ONLY <1>1, ShutsIs DEF b1
<1>4. \A t, x : Still(b1, t, x) <=> Still(app, t, x)
  BY ONLY <1>1, ShutsIs DEF b1
<1>5. /\ b2 \in Apps
      /\ Kept(b2, b1, {"replacing", "grant", "issue"})
      /\ b2.replacing = FALSE /\ b2.grant = FALSE /\ b2.issue = FALSE
  BY ONLY <1>3, CancelGrantIs DEF b2
<1>6. \A t, x : Still(b2, t, x) <=> Still(b1, t, x) /\ x # "auth"
  BY ONLY <1>3, CancelGrantIs DEF b2
<1>7. /\ app' \in Apps
      /\ Kept(app', b2, {})
  BY ONLY <1>2, <1>5, ForgetIs
<1>8. \A t, x : Still(app', t, x) <=> Still(b2, t, x) /\ t # "op"
  BY ONLY <1>2, <1>5, ForgetIs
<1>9. /\ Kept(app', app, {"open", "loose", "replacing", "grant", "issue"})
      /\ app'.open = FALSE /\ app'.loose = FALSE /\ app'.replacing = FALSE
      /\ app'.grant = FALSE /\ app'.issue = FALSE
  BY ONLY <1>3, <1>5, <1>7 DEF Kept, Views, Apps
<1>10. \A t, x : Still(app', t, x) <=> Still(app, t, x) /\ x # "auth" /\ t # "op"
  BY ONLY <1>4, <1>6, <1>8 DEF Views
<1> USE <1>1, <1>7, <1>9, <1>10 DEF RoutesInv, Kept, MovesTo, MovesBoth, In, Op, Rests, Shows, Offers, Resuming, Locking,
       Busy, Entering, Moving, NoRights, NoView, Onboarding, Views, Whats, Tasks, Holders, Pcs,
       Free, Opened, ChatFree, AuthCall
<1>11. RoutesType'
  BY DEF RoutesType
<1>12. InOrder'
  BY DEF InOrder
<1>13. OneView' /\ HeldViews'
  BY DEF OneView, HeldViews
<1>14. HeldAtWork'
  BY DEF HeldAtWork
<1>15. OldHoldNothing' /\ SessionFlags' /\ SessionViews' /\ Generations' /\ Handovers'
  BY DEF OldHoldNothing, SessionFlags, SessionViews, Generations, Handovers, Sealed, OpHolds,
        HeldViews
<1>16. SessionShown' /\ Sealing' /\ Sealed' /\ OpHolds' /\ OpAuth'
  BY DEF SessionShown, Sealing, Sealed, OpHolds, OpAuth, SessionViews, HeldViews
<1>17. OpFront' /\ Rights' /\ OpenIs' /\ EntersOpen'
  BY DEF OpFront, Rights, OpenIs, EntersOpen
<1>18. Registered' /\ FirstRun' /\ PageIs'
  BY DEF Registered, FirstRun, PageIs, HeldViews, OneView, OpHolds
<1> QED
  BY ONLY <1>11, <1>12, <1>13, <1>14, <1>15, <1>16, <1>17, <1>18

\* LoginUnlocked: the operation goes on at "read" of "login", the application
\* changes by OpensLogin.
LEMMA UnlockedSafe ==
  ASSUME RoutesInv, left' \in Lefts,
         Op("login", {"unlock"}) /\ Still(app, "op", "auth"),
         app' = OpensLogin(app),
         MovesTo("op", "login", "read")
  PROVE  RoutesInv'
<1>1. app \in Apps /\ task \in Taskings
  BY DEF RoutesInv, RoutesType
<1>2. app' = OpensLogin(app)
  OBVIOUS
<1>3. /\ app' \in Apps
      /\ Kept(app', app, {"open", "loose"})
      /\ app'.open = TRUE /\ app'.loose = (~Still(app, "op", "seal"))
  BY ONLY <1>2, <1>1, OpensLoginIs
<1>4. \A t, x : Still(app', t, x) <=> Still(app, t, x)
  BY ONLY <1>2, <1>1, OpensLoginIs
<1>k. /\ app' \in Apps /\ Kept(app', app, {"open", "loose"})
      /\ app'.open /\ (app'.loose <=> ~Still(app, "op", "seal"))
  BY ONLY <1>1, <1>3 DEF Kept
<1> USE <1>1, <1>k, <1>4 DEF RoutesInv, Kept, MovesTo, MovesBoth, In, Op, Rests, Shows, Offers, Resuming, Locking,
       Busy, Entering, Moving, NoRights, NoView, Onboarding, Views, Whats, Tasks, Holders, Pcs,
       Free, Opened, ChatFree, AuthCall
<1>5. RoutesType'
  BY DEF RoutesType
<1>6. InOrder'
  BY DEF InOrder
<1>7. OneView' /\ HeldViews'
  BY DEF OneView, HeldViews
<1>8. HeldAtWork'
  BY DEF HeldAtWork
<1>9. OldHoldNothing' /\ SessionFlags' /\ SessionViews' /\ Generations' /\ Handovers'
  BY DEF OldHoldNothing, SessionFlags, SessionViews, Generations, Handovers
<1>10. SessionShown' /\ Sealing' /\ Sealed' /\ OpHolds' /\ OpAuth'
  BY DEF SessionShown, Sealing, Sealed, OpHolds, OpAuth, HeldViews, SessionViews
<1>11. OpFront'
  BY DEF OpFront
<1>12. Rights'
  BY DEF Rights, Sealed, OneView, HeldViews, OpHolds
<1>13. OpenIs'
  BY DEF OpenIs, Sealed, OpHolds
<1>14. EntersOpen'
  BY DEF EntersOpen
<1>15. Registered' /\ FirstRun' /\ PageIs'
  BY DEF Registered, FirstRun, PageIs, SessionViews, HeldViews, OpHolds
<1> QED
  BY ONLY <1>5, <1>6, <1>7, <1>8, <1>9, <1>10, <1>11, <1>12, <1>13, <1>14, <1>15

\* LoginUnlocked: the operation goes on at "read_step" of "login", the
\* application changes by OpensLogin.
LEMMA UnlockedStepSafe ==
  ASSUME RoutesInv, left' \in Lefts,
         Op("login", {"unlock_step"}) /\ Still(app, "op", "auth"),
         app' = OpensLogin(app),
         MovesTo("op", "login", "read_step")
  PROVE  RoutesInv'
<1>1. app \in Apps /\ task \in Taskings
  BY DEF RoutesInv, RoutesType
<1>2. app' = OpensLogin(app)
  OBVIOUS
<1>3. /\ app' \in Apps
      /\ Kept(app', app, {"open", "loose"})
      /\ app'.open = TRUE /\ app'.loose = (~Still(app, "op", "seal"))
  BY ONLY <1>2, <1>1, OpensLoginIs
<1>4. \A t, x : Still(app', t, x) <=> Still(app, t, x)
  BY ONLY <1>2, <1>1, OpensLoginIs
<1>k. /\ app' \in Apps /\ Kept(app', app, {"open", "loose"})
      /\ app'.open /\ (app'.loose <=> ~Still(app, "op", "seal"))
  BY ONLY <1>1, <1>3 DEF Kept
<1> USE <1>1, <1>k, <1>4 DEF RoutesInv, Kept, MovesTo, MovesBoth, In, Op, Rests, Shows, Offers, Resuming, Locking,
       Busy, Entering, Moving, NoRights, NoView, Onboarding, Views, Whats, Tasks, Holders, Pcs,
       Free, Opened, ChatFree, AuthCall
<1>5. RoutesType'
  BY DEF RoutesType
<1>6. InOrder'
  BY DEF InOrder
<1>7. OneView' /\ HeldViews'
  BY DEF OneView, HeldViews
<1>8. HeldAtWork'
  BY DEF HeldAtWork
<1>9. OldHoldNothing' /\ SessionFlags' /\ SessionViews' /\ Generations' /\ Handovers'
  BY DEF OldHoldNothing, SessionFlags, SessionViews, Generations, Handovers
<1>10. SessionShown' /\ Sealing' /\ Sealed' /\ OpHolds' /\ OpAuth'
  BY DEF SessionShown, Sealing, Sealed, OpHolds, OpAuth, HeldViews, SessionViews
<1>11. OpFront'
  BY DEF OpFront
<1>12. Rights'
  BY DEF Rights
<1>13. OpenIs'
  BY DEF OpenIs, Sealed, OpHolds
<1>14. EntersOpen'
  BY DEF EntersOpen
<1>15. Registered' /\ FirstRun' /\ PageIs'
  BY DEF Registered, FirstRun, PageIs, HeldViews, SessionViews, OpHolds
<1> QED
  BY ONLY <1>5, <1>6, <1>7, <1>8, <1>9, <1>10, <1>11, <1>12, <1>13, <1>14, <1>15

\* LoginRead: the operation ends, the application changes by ActivateStep.
LEMMA LoginEntersClosedSafe ==
  ASSUME RoutesInv, left' \in Lefts,
         Op("login", {"read_step"}) /\ Still(app, "op", "pin") /\ ~app.open,
         app' = Forget(ActivateStep(app), "op"),
         MovesTo("op", "none", "idle")
  PROVE  RoutesInv'
<1>1. app \in Apps /\ task \in Taskings
  BY DEF RoutesInv, RoutesType
<1> DEFINE b1 == ActivateStep(app)
<1>2. app' = Forget(b1, "op")
  OBVIOUS
<1> HIDE DEF b1
<1>3. /\ b1 \in Apps
      /\ Kept(b1, app, {"views", "token", "session", "security", "deferred", "chats", "loose", "issue"})
      /\ b1.views = {} /\ b1.token = "none" /\ b1.session = TRUE /\ b1.security = FALSE
      /\ b1.deferred = TRUE /\ b1.chats = FALSE /\ b1.loose = FALSE /\ b1.issue = FALSE
  BY ONLY <1>1, ActivateStepIs DEF b1
<1>4. \A t, x : Still(b1, t, x) <=> Still(app, t, x) /\ x \notin Views \cup {"gen", "workspace"}
  BY ONLY <1>1, ActivateStepIs DEF b1
<1>5. /\ app' \in Apps
      /\ Kept(app', b1, {})
  BY ONLY <1>2, <1>3, ForgetIs
<1>6. \A t, x : Still(app', t, x) <=> Still(b1, t, x) /\ t # "op"
  BY ONLY <1>2, <1>3, ForgetIs
<1>7. /\ Kept(app', app, {"views", "token", "session", "security", "deferred", "chats", "loose", "issue"})
      /\ app'.views = {} /\ app'.token = "none" /\ app'.session = TRUE
      /\ app'.security = FALSE /\ app'.deferred = TRUE /\ app'.chats = FALSE
      /\ app'.loose = FALSE /\ app'.issue = FALSE
  BY ONLY <1>3, <1>5 DEF Kept, Views, Apps
<1>8. \A t, x : Still(app', t, x) <=> Still(app, t, x) /\ x \notin Views \cup {"gen", "workspace"} /\ t # "op"
  BY ONLY <1>4, <1>6 DEF Views
<1> USE <1>1, <1>5, <1>7, <1>8 DEF RoutesInv, Kept, MovesTo, MovesBoth, In, Op, Rests, Shows, Offers, Resuming, Locking,
       Busy, Entering, Moving, NoRights, NoView, Onboarding, Views, Whats, Tasks, Holders, Pcs,
       Free, Opened, ChatFree, AuthCall
<1>9. RoutesType'
  BY DEF RoutesType
<1>10. InOrder'
  BY DEF InOrder
<1>11. OneView' /\ HeldViews'
  BY DEF OneView, HeldViews
<1>12. HeldAtWork'
  BY DEF HeldAtWork
<1>13. OldHoldNothing' /\ SessionFlags' /\ SessionViews' /\ Generations' /\ Handovers'
  BY DEF OldHoldNothing, SessionFlags, SessionViews, Generations, Handovers, EntersOpen
<1>14. SessionShown' /\ Sealing' /\ Sealed' /\ OpHolds' /\ OpAuth'
  BY DEF SessionShown, Sealing, Sealed, OpHolds, OpAuth
<1>15. OpFront' /\ Rights' /\ OpenIs' /\ EntersOpen'
  BY DEF OpFront, Rights, OpenIs, EntersOpen, OneView, HeldViews
<1>16. Registered' /\ FirstRun' /\ PageIs'
  BY DEF Registered, FirstRun, PageIs
<1> QED
  BY ONLY <1>9, <1>10, <1>11, <1>12, <1>13, <1>14, <1>15, <1>16

\* LoginRead: the operation ends, the application changes by ActivateStep,
\* ShowStep.
LEMMA LoginEntersStepSafe ==
  ASSUME RoutesInv, left' \in Lefts,
         Op("login", {"read_step"}) /\ Still(app, "op", "pin") /\ app.open,
         app' = Forget(ShowStep(ActivateStep(app)), "op"),
         MovesTo("op", "none", "idle")
  PROVE  RoutesInv'
<1>1. app \in Apps /\ task \in Taskings
  BY DEF RoutesInv, RoutesType
<1> DEFINE b1 == ActivateStep(app)
           b2 == ShowStep(b1)
<1>2. app' = Forget(b2, "op")
  OBVIOUS
<1> HIDE DEF b1, b2
<1>3. /\ b1 \in Apps
      /\ Kept(b1, app, {"views", "token", "session", "security", "deferred", "chats", "loose", "issue"})
      /\ b1.views = {} /\ b1.token = "none" /\ b1.session = TRUE /\ b1.security = FALSE
      /\ b1.deferred = TRUE /\ b1.chats = FALSE /\ b1.loose = FALSE /\ b1.issue = FALSE
  BY ONLY <1>1, ActivateStepIs DEF b1
<1>4. \A t, x : Still(b1, t, x) <=> Still(app, t, x) /\ x \notin Views \cup {"gen", "workspace"}
  BY ONLY <1>1, ActivateStepIs DEF b1
<1>5. /\ b2 \in Apps
      /\ Kept(b2, b1, {"page", "views"})
      /\ b2.page = (IF b1.closing THEN b1.page ELSE "step")
      /\ b2.views = b1.views \cup {"step"}
  BY ONLY <1>3, ShowStepIs DEF b2
<1>6. \A t, x : Still(b2, t, x) <=> Still(b1, t, x) /\ x # "step"
  BY ONLY <1>3, ShowStepIs DEF b2
<1>7. /\ app' \in Apps
      /\ Kept(app', b2, {})
  BY ONLY <1>2, <1>5, ForgetIs
<1>8. \A t, x : Still(app', t, x) <=> Still(b2, t, x) /\ t # "op"
  BY ONLY <1>2, <1>5, ForgetIs
<1>9. /\ Kept(app', app, {"page", "views", "token", "session", "security", "deferred", "chats", "loose", "issue"})
      /\ app'.page = (IF app.closing THEN app.page ELSE "step")
      /\ app'.views = {} \cup {"step"} /\ app'.token = "none" /\ app'.session = TRUE
      /\ app'.security = FALSE /\ app'.deferred = TRUE /\ app'.chats = FALSE
      /\ app'.loose = FALSE /\ app'.issue = FALSE
  BY ONLY <1>3, <1>5, <1>7 DEF Kept, Views, Apps
<1>10. \A t, x : Still(app', t, x) <=> Still(app, t, x) /\ x \notin Views \cup {"gen", "workspace"} /\ t # "op"
  BY ONLY <1>4, <1>6, <1>8 DEF Views
<1>f. /\ Op("login", {"read_step"}) /\ Still(app, "op", "pin") /\ app.open = TRUE
      /\ left' \in Lefts /\ MovesTo("op", "none", "idle")
  BY <1>1, Zenon DEF Apps, Opened, ChatFree
<1> USE DEF RoutesInv, Kept, MovesTo, MovesBoth, In, Op, Rests, Shows, Offers, Resuming, Locking,
       Busy, Entering, Moving, NoRights, NoView, Onboarding, Views, Whats, Tasks, Holders, Pcs,
       Free, Opened, ChatFree, AuthCall
<1>11. RoutesType'
  BY ONLY RoutesInv, <1>f, <1>1, <1>7, <1>9, <1>10 DEF RoutesType
<1>12. InOrder'
  BY ONLY RoutesInv, <1>f, <1>1, <1>7, <1>9, <1>10 DEF InOrder
<1>13. OneView' /\ HeldViews'
  BY ONLY RoutesInv, <1>f, <1>1, <1>7, <1>9, <1>10 DEF OneView, HeldViews
<1>14. HeldAtWork'
  BY ONLY RoutesInv, <1>f, <1>1, <1>7, <1>9, <1>10 DEF HeldAtWork
<1>15. OldHoldNothing' /\ SessionFlags' /\ SessionViews' /\ Generations' /\ Handovers'
  BY ONLY RoutesInv, <1>f, <1>1, <1>7, <1>9, <1>10 DEF OldHoldNothing, SessionFlags,
        SessionViews, Generations, Handovers
<1>16. SessionShown' /\ Sealing' /\ Sealed' /\ OpHolds' /\ OpAuth'
  BY ONLY RoutesInv, <1>f, <1>1, <1>7, <1>9, <1>10 DEF SessionShown, Sealing, Sealed, OpHolds,
        OpAuth
<1>17. OpFront' /\ Rights' /\ OpenIs' /\ EntersOpen'
  BY ONLY RoutesInv, <1>f, <1>1, <1>7, <1>9, <1>10 DEF OpFront, Rights, OpenIs, EntersOpen,
        HeldViews, OneView
<1>18. Registered' /\ FirstRun' /\ PageIs'
  BY ONLY RoutesInv, <1>f, <1>1, <1>7, <1>9, <1>10 DEF Registered, FirstRun, PageIs, Sealing
<1> QED
  BY ONLY <1>11, <1>12, <1>13, <1>14, <1>15, <1>16, <1>17, <1>18

\* LoginRead: the operation goes on at "prefs" of "resume", the application
\* changes by ActivateStep.
LEMMA LoginEntersStoredSafe ==
  ASSUME RoutesInv, left' \in Lefts,
         Op("login", {"read_step"}) /\ Still(app, "op", "pin") /\ app.open,
         app' = Capture(Forget(ActivateStep(app), "op"), "op", {"epoch", "seal"}),
         MovesTo("op", "resume", "prefs")
  PROVE  RoutesInv'
<1>1. app \in Apps /\ task \in Taskings
  BY DEF RoutesInv, RoutesType
<1> DEFINE b1 == ActivateStep(app)
           b2 == Forget(b1, "op")
<1>2. app' = Capture(b2, "op", {"epoch", "seal"})
  OBVIOUS
<1> HIDE DEF b1, b2
<1>3. /\ b1 \in Apps
      /\ Kept(b1, app, {"views", "token", "session", "security", "deferred", "chats", "loose", "issue"})
      /\ b1.views = {} /\ b1.token = "none" /\ b1.session = TRUE /\ b1.security = FALSE
      /\ b1.deferred = TRUE /\ b1.chats = FALSE /\ b1.loose = FALSE /\ b1.issue = FALSE
  BY ONLY <1>1, ActivateStepIs DEF b1
<1>4. \A t, x : Still(b1, t, x) <=> Still(app, t, x) /\ x \notin Views \cup {"gen", "workspace"}
  BY ONLY <1>1, ActivateStepIs DEF b1
<1>5. /\ b2 \in Apps
      /\ Kept(b2, b1, {})
  BY ONLY <1>3, ForgetIs DEF b2
<1>6. \A t, x : Still(b2, t, x) <=> Still(b1, t, x) /\ t # "op"
  BY ONLY <1>3, ForgetIs DEF b2
<1>7. "op" \in Holders /\ {"epoch", "seal"} \in SUBSET Whats
  BY DEF Holders, Tasks, Whats, Views
<1>8. /\ app' \in Apps
      /\ Kept(app', b2, {})
  BY ONLY <1>2, <1>5, <1>7, CaptureIs
<1>9. \A t, x : Still(app', t, x) <=> (Still(b2, t, x)) \/ (t = "op" /\ x \in {"epoch", "seal"})
  BY ONLY <1>2, <1>5, <1>7, CaptureIs
<1>10. /\ Kept(app', app, {"views", "token", "session", "security", "deferred", "chats", "loose", "issue"})
      /\ app'.views = {} /\ app'.token = "none" /\ app'.session = TRUE
      /\ app'.security = FALSE /\ app'.deferred = TRUE /\ app'.chats = FALSE
      /\ app'.loose = FALSE /\ app'.issue = FALSE
  BY ONLY <1>3, <1>5, <1>8 DEF Kept, Views, Apps
<1>11. \A t, x : Still(app', t, x) <=> (Still(app, t, x) /\ x \notin Views \cup {"gen", "workspace"} /\ t # "op") \/ (t = "op" /\ x \in {"epoch", "seal"})
  BY ONLY <1>4, <1>6, <1>9 DEF Views
<1>f. /\ Op("login", {"read_step"}) /\ Still(app, "op", "pin") /\ app.open = TRUE
      /\ left' \in Lefts /\ MovesTo("op", "resume", "prefs")
  BY <1>1, Zenon DEF Apps, Opened, ChatFree
<1> USE DEF RoutesInv, Kept, MovesTo, MovesBoth, In, Op, Rests, Shows, Offers, Resuming, Locking,
       Busy, Entering, Moving, NoRights, NoView, Onboarding, Views, Whats, Tasks, Holders, Pcs,
       Free, Opened, ChatFree, AuthCall
<1>12. RoutesType'
  BY ONLY RoutesInv, <1>f, <1>1, <1>8, <1>10, <1>11 DEF RoutesType
<1>13. InOrder'
  BY ONLY RoutesInv, <1>f, <1>1, <1>8, <1>10, <1>11 DEF InOrder
<1>14. OneView' /\ HeldViews'
  BY ONLY RoutesInv, <1>f, <1>1, <1>8, <1>10, <1>11 DEF OneView, HeldViews
<1>15. HeldAtWork'
  BY ONLY RoutesInv, <1>f, <1>1, <1>8, <1>10, <1>11 DEF HeldAtWork
<1>16. OldHoldNothing' /\ SessionFlags' /\ SessionViews' /\ Generations' /\ Handovers'
  BY ONLY RoutesInv, <1>f, <1>1, <1>8, <1>10, <1>11 DEF OldHoldNothing, SessionFlags,
        SessionViews, Generations, Handovers
<1>17. SessionShown' /\ Sealing' /\ Sealed' /\ OpHolds' /\ OpAuth'
  BY ONLY RoutesInv, <1>f, <1>1, <1>8, <1>10, <1>11 DEF SessionShown, Sealing, Sealed, OpHolds,
        OpAuth
<1>18. OpFront' /\ Rights' /\ OpenIs' /\ EntersOpen'
  BY ONLY RoutesInv, <1>f, <1>1, <1>8, <1>10, <1>11 DEF OpFront, Rights, OpenIs, EntersOpen,
        HeldViews, OneView
<1>19. Registered' /\ FirstRun' /\ PageIs'
  BY ONLY RoutesInv, <1>f, <1>1, <1>8, <1>10, <1>11 DEF Registered, FirstRun, PageIs
<1> QED
  BY ONLY <1>12, <1>13, <1>14, <1>15, <1>16, <1>17, <1>18, <1>19

\* LoginRead: the operation goes on at "show" of "login", the application
\* changes by ActivatePresent, Moved.
LEMMA LoginEntersSafe ==
  ASSUME RoutesInv, left' \in Lefts,
         Op("login", {"read"}) /\ Still(app, "op", "pin"),
         app' = Capture(Moved(ActivatePresent(app), "workspace"), "op", {"gen", "workspace"}),
         MovesTo("op", "login", "show")
  PROVE  RoutesInv'
<1>1. app \in Apps /\ task \in Taskings
  BY DEF RoutesInv, RoutesType
<1> DEFINE b1 == ActivatePresent(app)
           b2 == Moved(b1, "workspace")
<1>2. app' = Capture(b2, "op", {"gen", "workspace"})
  OBVIOUS
<1> HIDE DEF b1, b2
<1>3. /\ b1 \in Apps
      /\ Kept(b1, app, {"views", "token", "session", "security", "deferred", "chats", "loose", "issue"})
      /\ b1.views = {} /\ b1.token = "none" /\ b1.session = TRUE /\ b1.security = FALSE
      /\ b1.deferred = FALSE /\ b1.chats = FALSE /\ b1.loose = FALSE /\ b1.issue = FALSE
  BY ONLY <1>1, ActivatePresentIs DEF b1
<1>4. \A t, x : Still(b1, t, x) <=> Still(app, t, x) /\ x \notin Views \cup {"gen", "workspace"}
  BY ONLY <1>1, ActivatePresentIs DEF b1
<1>5. /\ b2 \in Apps
      /\ Kept(b2, b1, {})
  BY ONLY <1>3, MovedIs DEF b2
<1>6. \A t, x : Still(b2, t, x) <=> Still(b1, t, x) /\ x # "workspace"
  BY ONLY <1>3, MovedIs DEF b2
<1>7. "op" \in Holders /\ {"gen", "workspace"} \in SUBSET Whats
  BY DEF Holders, Tasks, Whats, Views
<1>8. /\ app' \in Apps
      /\ Kept(app', b2, {})
  BY ONLY <1>2, <1>5, <1>7, CaptureIs
<1>9. \A t, x : Still(app', t, x) <=> (Still(b2, t, x)) \/ (t = "op" /\ x \in {"gen", "workspace"})
  BY ONLY <1>2, <1>5, <1>7, CaptureIs
<1>10. /\ Kept(app', app, {"views", "token", "session", "security", "deferred", "chats", "loose", "issue"})
      /\ app'.views = {} /\ app'.token = "none" /\ app'.session = TRUE
      /\ app'.security = FALSE /\ app'.deferred = FALSE /\ app'.chats = FALSE
      /\ app'.loose = FALSE /\ app'.issue = FALSE
  BY ONLY <1>3, <1>5, <1>8 DEF Kept, Views, Apps
<1>11. \A t, x : Still(app', t, x) <=> (Still(app, t, x) /\ x \notin Views \cup {"gen", "workspace"}) \/ (t = "op" /\ x \in {"gen", "workspace"})
  BY ONLY <1>4, <1>6, <1>9 DEF Views
<1> USE <1>1, <1>8, <1>10, <1>11 DEF RoutesInv, Kept, MovesTo, MovesBoth, In, Op, Rests, Shows, Offers, Resuming, Locking,
       Busy, Entering, Moving, NoRights, NoView, Onboarding, Views, Whats, Tasks, Holders, Pcs,
       Free, Opened, ChatFree, AuthCall
<1>12. RoutesType'
  BY DEF RoutesType
<1>13. InOrder'
  BY DEF InOrder
<1>14. OneView' /\ HeldViews'
  BY DEF OneView, HeldViews
<1>15. HeldAtWork'
  BY DEF HeldAtWork
<1>16. OldHoldNothing' /\ SessionFlags' /\ SessionViews' /\ Generations' /\ Handovers'
  BY DEF OldHoldNothing, SessionFlags, SessionViews, Generations, Handovers, EntersOpen
<1>17. SessionShown' /\ Sealing' /\ Sealed' /\ OpHolds' /\ OpAuth'
  BY DEF SessionShown, Sealing, Sealed, OpHolds, OpAuth
<1>18. OpFront' /\ Rights' /\ OpenIs' /\ EntersOpen'
  BY DEF OpFront, Rights, OpenIs, EntersOpen, HeldViews, OneView
<1>19. Registered' /\ FirstRun' /\ PageIs'
  BY DEF Registered, FirstRun, PageIs
<1> QED
  BY ONLY <1>12, <1>13, <1>14, <1>15, <1>16, <1>17, <1>18, <1>19

\* ResumeStored: the operation ends, the application changes by ShowStep.
LEMMA StepShownSafe ==
  ASSUME RoutesInv, left' \in Lefts,
         Op("resume", {"prefs"}) /\ Still(app, "op", "epoch") /\ app.session /\ app.open,
         app' = Forget(ShowStep(app), "op"),
         MovesTo("op", "none", "idle")
  PROVE  RoutesInv'
<1>1. app \in Apps /\ task \in Taskings
  BY DEF RoutesInv, RoutesType
<1> DEFINE b1 == ShowStep(app)
<1>2. app' = Forget(b1, "op")
  OBVIOUS
<1> HIDE DEF b1
<1>3. /\ b1 \in Apps
      /\ Kept(b1, app, {"page", "views"})
      /\ b1.page = (IF app.closing THEN app.page ELSE "step")
      /\ b1.views = app.views \cup {"step"}
  BY ONLY <1>1, ShowStepIs DEF b1
<1>4. \A t, x : Still(b1, t, x) <=> Still(app, t, x) /\ x # "step"
  BY ONLY <1>1, ShowStepIs DEF b1
<1>5. /\ app' \in Apps
      /\ Kept(app', b1, {})
  BY ONLY <1>2, <1>3, ForgetIs
<1>6. \A t, x : Still(app', t, x) <=> Still(b1, t, x) /\ t # "op"
  BY ONLY <1>2, <1>3, ForgetIs
<1>7. /\ Kept(app', app, {"page", "views"})
      /\ app'.page = (IF app.closing THEN app.page ELSE "step")
      /\ app'.views = app.views \cup {"step"}
  BY ONLY <1>3, <1>5 DEF Kept, Views, Apps
<1>8. \A t, x : Still(app', t, x) <=> Still(app, t, x) /\ x # "step" /\ t # "op"
  BY ONLY <1>4, <1>6 DEF Views
<1>f. /\ Op("resume", {"prefs"}) /\ Still(app, "op", "epoch") /\ app.session = TRUE
      /\ app.open = TRUE /\ left' \in Lefts /\ MovesTo("op", "none", "idle")
  BY <1>1, Zenon DEF Apps, Opened, ChatFree
<1> USE DEF RoutesInv, Kept, MovesTo, MovesBoth, In, Op, Rests, Shows, Offers, Resuming, Locking,
       Busy, Entering, Moving, NoRights, NoView, Onboarding, Views, Whats, Tasks, Holders, Pcs,
       Free, Opened, ChatFree, AuthCall
<1>v. app.views = {}
  BY ONLY RoutesInv, <1>f, <1>1, <1>5, <1>7, <1>8 DEF RoutesType, Apps, Sealed, OpHolds, SessionFlags
<1>9. RoutesType'
  BY ONLY RoutesInv, <1>f, <1>1, <1>5, <1>7, <1>8 DEF RoutesType
<1>10. InOrder'
  BY ONLY RoutesInv, <1>f, <1>1, <1>5, <1>7, <1>8 DEF InOrder
<1>11. OneView'
  <2>1. (\A v, x \in app.views : v = x)'
    BY ONLY RoutesInv, <1>f, <1>1, <1>5, <1>7, <1>8, <1>v DEF OneView, OpHolds, Sealed
  <2>2. ("setup" \in app.views <=> app.token # "none")'
    BY ONLY RoutesInv, <1>f, <1>1, <1>5, <1>7, <1>8, <1>v DEF OneView, OpHolds, Sealed
  <2> QED
    BY ONLY <2>1, <2>2 DEF OneView
<1>12. HeldViews'
  BY ONLY RoutesInv, <1>f, <1>1, <1>5, <1>7, <1>8 DEF HeldViews
<1>13. HeldAtWork'
  BY ONLY RoutesInv, <1>f, <1>1, <1>5, <1>7, <1>8 DEF HeldAtWork
<1>14. OldHoldNothing' /\ SessionFlags' /\ SessionViews' /\ Generations' /\ Handovers'
  BY ONLY RoutesInv, <1>f, <1>1, <1>5, <1>7, <1>8 DEF OldHoldNothing, SessionFlags,
        SessionViews, Generations, Handovers, Sealed, OpHolds
<1>15. SessionShown' /\ Sealing' /\ Sealed' /\ OpHolds' /\ OpAuth'
  BY ONLY RoutesInv, <1>f, <1>1, <1>5, <1>7, <1>8 DEF SessionShown, Sealing, Sealed, OpHolds,
        OpAuth
<1>16. OpFront' /\ Rights' /\ OpenIs' /\ EntersOpen'
  BY ONLY RoutesInv, <1>f, <1>1, <1>5, <1>7, <1>8 DEF OpFront, Rights, OpenIs, EntersOpen
<1>17. Registered' /\ FirstRun' /\ PageIs'
  BY ONLY RoutesInv, <1>f, <1>1, <1>5, <1>7, <1>8 DEF Registered, FirstRun, PageIs, Sealing
<1> QED
  BY ONLY <1>9, <1>10, <1>11, <1>12, <1>13, <1>14, <1>15, <1>16, <1>17

\* ResumeStored: the operation ends, the application changes by Onboarded,
\* ShowStep.
LEMMA StepShownSavedSafe ==
  ASSUME RoutesInv, left' \in Lefts,
         Op("resume", {"prefs"}) /\ Still(app, "op", "epoch") /\ app.session /\ app.open,
         app' = Forget(ShowStep(Onboarded(app)), "op"),
         MovesTo("op", "none", "idle")
  PROVE  RoutesInv'
<1>1. app \in Apps /\ task \in Taskings
  BY DEF RoutesInv, RoutesType
<1> DEFINE b1 == Onboarded(app)
           b2 == ShowStep(b1)
<1>2. app' = Forget(b2, "op")
  OBVIOUS
<1> HIDE DEF b1, b2
<1>3. /\ b1 \in Apps
      /\ Kept(b1, app, {"onboarding"})
      /\ b1.onboarding = FALSE
  BY ONLY <1>1, OnboardedIs DEF b1
<1>4. \A t, x : Still(b1, t, x) <=> Still(app, t, x)
  BY ONLY <1>1, OnboardedIs DEF b1
<1>5. /\ b2 \in Apps
      /\ Kept(b2, b1, {"page", "views"})
      /\ b2.page = (IF b1.closing THEN b1.page ELSE "step")
      /\ b2.views = b1.views \cup {"step"}
  BY ONLY <1>3, ShowStepIs DEF b2
<1>6. \A t, x : Still(b2, t, x) <=> Still(b1, t, x) /\ x # "step"
  BY ONLY <1>3, ShowStepIs DEF b2
<1>7. /\ app' \in Apps
      /\ Kept(app', b2, {})
  BY ONLY <1>2, <1>5, ForgetIs
<1>8. \A t, x : Still(app', t, x) <=> Still(b2, t, x) /\ t # "op"
  BY ONLY <1>2, <1>5, ForgetIs
<1>9. /\ Kept(app', app, {"onboarding", "page", "views"})
      /\ app'.onboarding = FALSE /\ app'.page = (IF app.closing THEN app.page ELSE "step")
      /\ app'.views = app.views \cup {"step"}
  BY ONLY <1>3, <1>5, <1>7 DEF Kept, Views, Apps
<1>10. \A t, x : Still(app', t, x) <=> Still(app, t, x) /\ x # "step" /\ t # "op"
  BY ONLY <1>4, <1>6, <1>8 DEF Views
<1>f. /\ Op("resume", {"prefs"}) /\ Still(app, "op", "epoch") /\ app.session = TRUE
      /\ app.open = TRUE /\ left' \in Lefts /\ MovesTo("op", "none", "idle")
  BY <1>1, Zenon DEF Apps, Opened, ChatFree
<1> USE DEF RoutesInv, Kept, MovesTo, MovesBoth, In, Op, Rests, Shows, Offers, Resuming, Locking,
       Busy, Entering, Moving, NoRights, NoView, Onboarding, Views, Whats, Tasks, Holders, Pcs,
       Free, Opened, ChatFree, AuthCall
<1>v. app.views = {}
  BY ONLY RoutesInv, <1>f, <1>1, <1>7, <1>9, <1>10 DEF RoutesType, Apps, Sealed, OpHolds, SessionFlags
<1>11. RoutesType'
  BY ONLY RoutesInv, <1>f, <1>1, <1>7, <1>9, <1>10 DEF RoutesType
<1>12. InOrder'
  BY ONLY RoutesInv, <1>f, <1>1, <1>7, <1>9, <1>10 DEF InOrder
<1>13. OneView'
  <2>1. (\A v, x \in app.views : v = x)'
    BY ONLY RoutesInv, <1>f, <1>1, <1>7, <1>9, <1>10, <1>v DEF OneView, Sealed, OpHolds
  <2>2. ("setup" \in app.views <=> app.token # "none")'
    BY ONLY RoutesInv, <1>f, <1>1, <1>7, <1>9, <1>10, <1>v DEF OneView, Sealed, OpHolds
  <2> QED
    BY ONLY <2>1, <2>2 DEF OneView
<1>14. HeldViews'
  BY ONLY RoutesInv, <1>f, <1>1, <1>7, <1>9, <1>10 DEF HeldViews
<1>15. HeldAtWork'
  BY ONLY RoutesInv, <1>f, <1>1, <1>7, <1>9, <1>10 DEF HeldAtWork
<1>16. OldHoldNothing' /\ SessionFlags' /\ SessionViews' /\ Generations' /\ Handovers'
  BY ONLY RoutesInv, <1>f, <1>1, <1>7, <1>9, <1>10 DEF OldHoldNothing, SessionFlags,
        SessionViews, Generations, Handovers, Sealed, OpHolds
<1>17. SessionShown' /\ Sealing' /\ Sealed' /\ OpHolds' /\ OpAuth'
  BY ONLY RoutesInv, <1>f, <1>1, <1>7, <1>9, <1>10 DEF SessionShown, Sealing, Sealed, OpHolds,
        OpAuth
<1>18. OpFront' /\ Rights' /\ OpenIs' /\ EntersOpen'
  BY ONLY RoutesInv, <1>f, <1>1, <1>7, <1>9, <1>10 DEF OpFront, Rights, OpenIs, EntersOpen
<1>19. Registered' /\ FirstRun' /\ PageIs'
  BY ONLY RoutesInv, <1>f, <1>1, <1>7, <1>9, <1>10 DEF Registered, FirstRun, PageIs, Sealing
<1> QED
  BY ONLY <1>11, <1>12, <1>13, <1>14, <1>15, <1>16, <1>17, <1>18, <1>19

\* ResumeStored, ContinueStored: the operation ends, the application changes
\* by Onboarded.
LEMMA OnboardedAloneSafe ==
  ASSUME RoutesInv, left' \in Lefts,
         \/ Op("resume", {"prefs"}) /\ ~(Still(app, "op", "epoch") /\ app.session /\ app.open)
         \/ Op("cont", {"prefs"}) /\ ~(Still(app, "op", "epoch") /\ Still(app, "op", "step") /\ Opened),
         app' = Forget(Onboarded(app), "op"),
         MovesTo("op", "none", "idle")
  PROVE  RoutesInv'
<1>1. app \in Apps /\ task \in Taskings
  BY DEF RoutesInv, RoutesType
<1> DEFINE b1 == Onboarded(app)
<1>2. app' = Forget(b1, "op")
  OBVIOUS
<1> HIDE DEF b1
<1>3. /\ b1 \in Apps
      /\ Kept(b1, app, {"onboarding"})
      /\ b1.onboarding = FALSE
  BY ONLY <1>1, OnboardedIs DEF b1
<1>4. \A t, x : Still(b1, t, x) <=> Still(app, t, x)
  BY ONLY <1>1, OnboardedIs DEF b1
<1>5. /\ app' \in Apps
      /\ Kept(app', b1, {})
  BY ONLY <1>2, <1>3, ForgetIs
<1>6. \A t, x : Still(app', t, x) <=> Still(b1, t, x) /\ t # "op"
  BY ONLY <1>2, <1>3, ForgetIs
<1>7. /\ Kept(app', app, {"onboarding"})
      /\ app'.onboarding = FALSE
  BY ONLY <1>3, <1>5 DEF Kept, Views, Apps
<1>8. \A t, x : Still(app', t, x) <=> Still(app, t, x) /\ t # "op"
  BY ONLY <1>4, <1>6 DEF Views
<1> USE <1>1, <1>5, <1>7, <1>8 DEF RoutesInv, Kept, MovesTo, MovesBoth, In, Op, Rests, Shows, Offers, Resuming, Locking,
       Busy, Entering, Moving, NoRights, NoView, Onboarding, Views, Whats, Tasks, Holders, Pcs,
       Free, Opened, ChatFree, AuthCall
<1>9. RoutesType'
  BY DEF RoutesType
<1>10. InOrder'
  BY DEF InOrder
<1>11. OneView' /\ HeldViews'
  BY DEF OneView, HeldViews
<1>12. HeldAtWork'
  BY DEF HeldAtWork
<1>13. OldHoldNothing' /\ SessionFlags' /\ SessionViews' /\ Generations' /\ Handovers'
  BY DEF OldHoldNothing, SessionFlags, SessionViews, Generations, Handovers
<1>14. SessionShown' /\ Sealing' /\ Sealed' /\ OpHolds' /\ OpAuth'
  BY DEF SessionShown, Sealing, Sealed, OpHolds, OpAuth
<1>15. OpFront' /\ Rights' /\ OpenIs' /\ EntersOpen'
  BY DEF OpFront, Rights, OpenIs, EntersOpen
<1>16. Registered' /\ FirstRun' /\ PageIs'
  BY DEF Registered, FirstRun, PageIs, OpHolds
<1> QED
  BY ONLY <1>9, <1>10, <1>11, <1>12, <1>13, <1>14, <1>15, <1>16

\* ContinueSetup: the operation goes on at "prefs" of "cont", the application
\* changes in its captures at most.
LEMMA ContinueBeginsSafe ==
  ASSUME RoutesInv, left' \in Lefts,
         "step" \in app.views /\ Opened /\ Free /\ Rests("op"),
         app' = Capture(app, "op", {"epoch", "seal", "step"}),
         MovesTo("op", "cont", "prefs")
  PROVE  RoutesInv'
<1>1. app \in Apps /\ task \in Taskings
  BY DEF RoutesInv, RoutesType
<1>2. app' = Capture(app, "op", {"epoch", "seal", "step"})
  OBVIOUS
<1>3. "op" \in Holders /\ {"epoch", "seal", "step"} \in SUBSET Whats
  BY DEF Holders, Tasks, Whats, Views
<1>4. /\ app' \in Apps
      /\ Kept(app', app, {})
  BY ONLY <1>2, <1>1, <1>3, CaptureIs
<1>5. \A t, x : Still(app', t, x) <=> (Still(app, t, x)) \/ (t = "op" /\ x \in {"epoch", "seal", "step"})
  BY ONLY <1>2, <1>1, <1>3, CaptureIs
<1>f. /\ "step" \in app.views /\ app.session = TRUE /\ app.open = TRUE /\ Free /\ Rests("op")
      /\ left' \in Lefts /\ MovesTo("op", "cont", "prefs")
  BY <1>1, Zenon DEF Apps, Opened, ChatFree
<1> USE DEF RoutesInv, Kept, MovesTo, MovesBoth, In, Op, Rests, Shows, Offers, Resuming, Locking,
       Busy, Entering, Moving, NoRights, NoView, Onboarding, Views, Whats, Tasks, Holders, Pcs,
       Free, Opened, ChatFree, AuthCall
<1>6. RoutesType'
  BY ONLY RoutesInv, <1>f, <1>1, <1>4, <1>5 DEF RoutesType
<1>7. InOrder'
  BY ONLY RoutesInv, <1>f, <1>1, <1>4, <1>5 DEF InOrder
<1>8. OneView' /\ HeldViews'
  BY ONLY RoutesInv, <1>f, <1>1, <1>4, <1>5 DEF OneView, HeldViews
<1>9. HeldAtWork'
  BY ONLY RoutesInv, <1>f, <1>1, <1>4, <1>5 DEF HeldAtWork
<1>10. OldHoldNothing' /\ SessionFlags' /\ SessionViews' /\ Generations' /\ Handovers'
  BY ONLY RoutesInv, <1>f, <1>1, <1>4, <1>5 DEF OldHoldNothing, SessionFlags, SessionViews,
        Generations, Handovers
<1>11. SessionShown' /\ Sealing' /\ Sealed' /\ OpHolds' /\ OpAuth'
  BY ONLY RoutesInv, <1>f, <1>1, <1>4, <1>5 DEF SessionShown, Sealing, Sealed, OpHolds, OpAuth,
        HeldAtWork
<1>12. OpFront' /\ Rights' /\ OpenIs' /\ EntersOpen'
  BY ONLY RoutesInv, <1>f, <1>1, <1>4, <1>5 DEF OpFront, Rights, OpenIs, EntersOpen
<1>13. Registered' /\ FirstRun' /\ PageIs'
  BY ONLY RoutesInv, <1>f, <1>1, <1>4, <1>5 DEF Registered, FirstRun, PageIs
<1> QED
  BY ONLY <1>6, <1>7, <1>8, <1>9, <1>10, <1>11, <1>12, <1>13

\* ContinueStored: the operation goes on at "show" of "cont", the application
\* changes by Drop, Handles, Moved.
LEMMA StepLeftSafe ==
  ASSUME RoutesInv, left' \in Lefts,
         Op("cont", {"prefs"}) /\ Still(app, "op", "epoch") /\ Still(app, "op", "step") /\ Opened,
         app' = Capture(Moved(Handles(Drop(app, {"step"})), "workspace"), "op", {"gen", "workspace"}),
         MovesTo("op", "cont", "show")
  PROVE  RoutesInv'
<1>1. app \in Apps /\ task \in Taskings
  BY DEF RoutesInv, RoutesType
<1> DEFINE b1 == Drop(app, {"step"})
           b2 == Handles(b1)
           b3 == Moved(b2, "workspace")
<1>2. app' = Capture(b3, "op", {"gen", "workspace"})
  OBVIOUS
<1> HIDE DEF b1, b2, b3
<1>3. /\ b1 \in Apps
      /\ Kept(b1, app, {"views"})
      /\ b1.views = app.views \ {"step"}
  BY ONLY <1>1, DropIs DEF b1
<1>4. \A t, x : Still(b1, t, x) <=> Still(app, t, x) /\ x # "step"
  BY ONLY <1>1, DropIs DEF b1
<1>5. /\ b2 \in Apps
      /\ Kept(b2, b1, {"handled", "deferred"})
      /\ b2.handled = TRUE /\ b2.deferred = FALSE
  BY ONLY <1>3, HandlesIs DEF b2
<1>6. \A t, x : Still(b2, t, x) <=> Still(b1, t, x)
  BY ONLY <1>3, HandlesIs DEF b2
<1>7. /\ b3 \in Apps
      /\ Kept(b3, b2, {})
  BY ONLY <1>5, MovedIs DEF b3
<1>8. \A t, x : Still(b3, t, x) <=> Still(b2, t, x) /\ x # "workspace"
  BY ONLY <1>5, MovedIs DEF b3
<1>9. "op" \in Holders /\ {"gen", "workspace"} \in SUBSET Whats
  BY DEF Holders, Tasks, Whats, Views
<1>10. /\ app' \in Apps
      /\ Kept(app', b3, {})
  BY ONLY <1>2, <1>7, <1>9, CaptureIs
<1>11. \A t, x : Still(app', t, x) <=> (Still(b3, t, x)) \/ (t = "op" /\ x \in {"gen", "workspace"})
  BY ONLY <1>2, <1>7, <1>9, CaptureIs
<1>12. /\ Kept(app', app, {"handled", "views", "deferred"})
      /\ app'.handled = TRUE /\ app'.views = app.views \ {"step"} /\ app'.deferred = FALSE
  BY ONLY <1>3, <1>5, <1>7, <1>10 DEF Kept, Views, Apps
<1>13. \A t, x : Still(app', t, x) <=> (Still(app, t, x) /\ x \notin {"step", "workspace"}) \/ (t = "op" /\ x \in {"gen", "workspace"})
  BY ONLY <1>4, <1>6, <1>8, <1>11 DEF Views
<1>f. /\ Op("cont", {"prefs"}) /\ Still(app, "op", "epoch") /\ Still(app, "op", "step")
      /\ app.session = TRUE /\ app.open = TRUE /\ left' \in Lefts
      /\ MovesTo("op", "cont", "show")
  BY <1>1, Zenon DEF Apps, Opened, ChatFree
<1> USE DEF RoutesInv, Kept, MovesTo, MovesBoth, In, Op, Rests, Shows, Offers, Resuming, Locking,
       Busy, Entering, Moving, NoRights, NoView, Onboarding, Views, Whats, Tasks, Holders, Pcs,
       Free, Opened, ChatFree, AuthCall
<1>14. RoutesType'
  BY ONLY RoutesInv, <1>f, <1>1, <1>10, <1>12, <1>13 DEF RoutesType
<1>15. InOrder'
  BY ONLY RoutesInv, <1>f, <1>1, <1>10, <1>12, <1>13 DEF InOrder
<1>16. OneView' /\ HeldViews'
  BY ONLY RoutesInv, <1>f, <1>1, <1>10, <1>12, <1>13 DEF OneView, HeldViews
<1>17. HeldAtWork'
  BY ONLY RoutesInv, <1>f, <1>1, <1>10, <1>12, <1>13 DEF HeldAtWork
<1>18. OldHoldNothing' /\ SessionFlags' /\ SessionViews' /\ Generations' /\ Handovers'
  BY ONLY RoutesInv, <1>f, <1>1, <1>10, <1>12, <1>13 DEF OldHoldNothing, SessionFlags,
        SessionViews, Generations, Handovers, InOrder, HeldAtWork, HeldViews
<1>19. SessionShown' /\ Sealing' /\ Sealed' /\ OpHolds' /\ OpAuth'
  BY ONLY RoutesInv, <1>f, <1>1, <1>10, <1>12, <1>13 DEF SessionShown, Sealing, Sealed, OpHolds,
        OpAuth, SessionViews, HeldViews, SessionFlags
<1>20. OpFront' /\ Rights' /\ OpenIs' /\ EntersOpen'
  BY ONLY RoutesInv, <1>f, <1>1, <1>10, <1>12, <1>13 DEF OpFront, Rights, OpenIs, EntersOpen
<1>21. Registered' /\ FirstRun' /\ PageIs'
  BY ONLY RoutesInv, <1>f, <1>1, <1>10, <1>12, <1>13 DEF Registered, FirstRun, PageIs
<1> QED
  BY ONLY <1>14, <1>15, <1>16, <1>17, <1>18, <1>19, <1>20, <1>21

\* ContinueStored: the operation goes on at "show" of "cont", the application
\* changes by Onboarded, Drop, Handles, Moved.
LEMMA StepLeftSavedSafe ==
  ASSUME RoutesInv, left' \in Lefts,
         Op("cont", {"prefs"}) /\ Still(app, "op", "epoch") /\ Still(app, "op", "step") /\ Opened,
         app' = Capture(Moved(Handles(Drop(Onboarded(app), {"step"})), "workspace"), "op", {"gen", "workspace"}),
         MovesTo("op", "cont", "show")
  PROVE  RoutesInv'
<1>1. app \in Apps /\ task \in Taskings
  BY DEF RoutesInv, RoutesType
<1> DEFINE b1 == Onboarded(app)
           b2 == Drop(b1, {"step"})
           b3 == Handles(b2)
           b4 == Moved(b3, "workspace")
<1>2. app' = Capture(b4, "op", {"gen", "workspace"})
  OBVIOUS
<1> HIDE DEF b1, b2, b3, b4
<1>3. /\ b1 \in Apps
      /\ Kept(b1, app, {"onboarding"})
      /\ b1.onboarding = FALSE
  BY ONLY <1>1, OnboardedIs DEF b1
<1>4. \A t, x : Still(b1, t, x) <=> Still(app, t, x)
  BY ONLY <1>1, OnboardedIs DEF b1
<1>5. /\ b2 \in Apps
      /\ Kept(b2, b1, {"views"})
      /\ b2.views = b1.views \ {"step"}
  BY ONLY <1>3, DropIs DEF b2
<1>6. \A t, x : Still(b2, t, x) <=> Still(b1, t, x) /\ x # "step"
  BY ONLY <1>3, DropIs DEF b2
<1>7. /\ b3 \in Apps
      /\ Kept(b3, b2, {"handled", "deferred"})
      /\ b3.handled = TRUE /\ b3.deferred = FALSE
  BY ONLY <1>5, HandlesIs DEF b3
<1>8. \A t, x : Still(b3, t, x) <=> Still(b2, t, x)
  BY ONLY <1>5, HandlesIs DEF b3
<1>9. /\ b4 \in Apps
      /\ Kept(b4, b3, {})
  BY ONLY <1>7, MovedIs DEF b4
<1>10. \A t, x : Still(b4, t, x) <=> Still(b3, t, x) /\ x # "workspace"
  BY ONLY <1>7, MovedIs DEF b4
<1>11. "op" \in Holders /\ {"gen", "workspace"} \in SUBSET Whats
  BY DEF Holders, Tasks, Whats, Views
<1>12. /\ app' \in Apps
      /\ Kept(app', b4, {})
  BY ONLY <1>2, <1>9, <1>11, CaptureIs
<1>13. \A t, x : Still(app', t, x) <=> (Still(b4, t, x)) \/ (t = "op" /\ x \in {"gen", "workspace"})
  BY ONLY <1>2, <1>9, <1>11, CaptureIs
<1>14. /\ Kept(app', app, {"onboarding", "handled", "views", "deferred"})
      /\ app'.onboarding = FALSE /\ app'.handled = TRUE /\ app'.views = app.views \ {"step"}
      /\ app'.deferred = FALSE
  BY ONLY <1>3, <1>5, <1>7, <1>9, <1>12 DEF Kept, Views, Apps
<1>15. \A t, x : Still(app', t, x) <=> (Still(app, t, x) /\ x \notin {"step", "workspace"}) \/ (t = "op" /\ x \in {"gen", "workspace"})
  BY ONLY <1>4, <1>6, <1>8, <1>10, <1>13 DEF Views
<1>f. /\ Op("cont", {"prefs"}) /\ Still(app, "op", "epoch") /\ Still(app, "op", "step")
      /\ app.session = TRUE /\ app.open = TRUE /\ left' \in Lefts
      /\ MovesTo("op", "cont", "show")
  BY <1>1, Zenon DEF Apps, Opened, ChatFree
<1> USE DEF RoutesInv, Kept, MovesTo, MovesBoth, In, Op, Rests, Shows, Offers, Resuming, Locking,
       Busy, Entering, Moving, NoRights, NoView, Onboarding, Views, Whats, Tasks, Holders, Pcs,
       Free, Opened, ChatFree, AuthCall
<1>16. RoutesType'
  BY ONLY RoutesInv, <1>f, <1>1, <1>12, <1>14, <1>15 DEF RoutesType
<1>17. InOrder'
  BY ONLY RoutesInv, <1>f, <1>1, <1>12, <1>14, <1>15 DEF InOrder
<1>18. OneView' /\ HeldViews'
  BY ONLY RoutesInv, <1>f, <1>1, <1>12, <1>14, <1>15 DEF OneView, HeldViews
<1>19. HeldAtWork'
  BY ONLY RoutesInv, <1>f, <1>1, <1>12, <1>14, <1>15 DEF HeldAtWork
<1>20. OldHoldNothing' /\ SessionFlags' /\ SessionViews' /\ Generations' /\ Handovers'
  BY ONLY RoutesInv, <1>f, <1>1, <1>12, <1>14, <1>15 DEF OldHoldNothing, SessionFlags,
        SessionViews, Generations, Handovers, HeldViews, HeldAtWork, InOrder
<1>21. SessionShown' /\ Sealing' /\ Sealed' /\ OpHolds' /\ OpAuth'
  BY ONLY RoutesInv, <1>f, <1>1, <1>12, <1>14, <1>15 DEF SessionShown, Sealing, Sealed, OpHolds,
        OpAuth, HeldViews, SessionViews, SessionFlags
<1>22. OpFront' /\ Rights' /\ OpenIs' /\ EntersOpen'
  BY ONLY RoutesInv, <1>f, <1>1, <1>12, <1>14, <1>15 DEF OpFront, Rights, OpenIs, EntersOpen
<1>23. Registered' /\ FirstRun' /\ PageIs'
  BY ONLY RoutesInv, <1>f, <1>1, <1>12, <1>14, <1>15 DEF Registered, FirstRun, PageIs
<1> QED
  BY ONLY <1>16, <1>17, <1>18, <1>19, <1>20, <1>21, <1>22, <1>23

\* RequestRecovery: no coroutine moves, the application changes by Moved,
\* EntryFailed.
LEMMA EntryBusySafe ==
  ASSUME RoutesInv, left' \in Lefts,
         app.linux /\ ("pin" \in app.views \/ "entry" \in app.views) /\ Free /\ Rests("op") /\ Busy,
         app' = EntryFailed(Moved(app, "epoch")),
         UNCHANGED task
  PROVE  RoutesInv'
<1>1. app \in Apps /\ task \in Taskings
  BY DEF RoutesInv, RoutesType
<1> DEFINE b1 == Moved(app, "epoch")
<1>2. app' = EntryFailed(b1)
  OBVIOUS
<1> HIDE DEF b1
<1>3. /\ b1 \in Apps
      /\ Kept(b1, app, {})
  BY ONLY <1>1, MovedIs DEF b1
<1>4. \A t, x : Still(b1, t, x) <=> Still(app, t, x) /\ x # "epoch"
  BY ONLY <1>1, MovedIs DEF b1
<1>5. /\ app' \in Apps
      /\ Kept(app', b1, {"page", "views", "token", "session", "security", "deferred", "chats", "open", "loose", "pending", "replacing", "grant", "issue"})
      /\ app'.page = (IF b1.closing THEN b1.page ELSE "error") /\ app'.views = {}
      /\ app'.token = "none" /\ app'.session = FALSE /\ app'.security = FALSE
      /\ app'.deferred = FALSE /\ app'.chats = FALSE /\ app'.open = FALSE
      /\ app'.loose = FALSE /\ app'.pending = FALSE /\ app'.replacing = FALSE
      /\ app'.grant = FALSE /\ app'.issue = FALSE
  BY ONLY <1>2, <1>3, EntryFailedIs
<1>6. \A t, x : Still(app', t, x) <=> Still(b1, t, x) /\ x \notin Views \cup {"auth", "gen", "workspace"}
  BY ONLY <1>2, <1>3, EntryFailedIs
<1>7. /\ Kept(app', app, {"page", "views", "token", "session", "security", "deferred", "chats", "open", "loose", "pending", "replacing", "grant", "issue"})
      /\ app'.page = (IF app.closing THEN app.page ELSE "error") /\ app'.views = {}
      /\ app'.token = "none" /\ app'.session = FALSE /\ app'.security = FALSE
      /\ app'.deferred = FALSE /\ app'.chats = FALSE /\ app'.open = FALSE
      /\ app'.loose = FALSE /\ app'.pending = FALSE /\ app'.replacing = FALSE
      /\ app'.grant = FALSE /\ app'.issue = FALSE
  BY ONLY <1>3, <1>5 DEF Kept, Views, Apps
<1>8. \A t, x : Still(app', t, x) <=> Still(app, t, x) /\ x \notin Views \cup {"epoch", "auth", "gen", "workspace"}
  BY ONLY <1>4, <1>6 DEF Views
<1>f. /\ app.linux = TRUE /\ ("pin" \in app.views \/ "entry" \in app.views) /\ Free
      /\ Rests("op") /\ Busy /\ left' \in Lefts /\ UNCHANGED task
  BY <1>1, Zenon DEF Apps, Opened, ChatFree
<1> USE DEF RoutesInv, Kept, MovesTo, MovesBoth, In, Op, Rests, Shows, Offers, Resuming, Locking,
       Busy, Entering, Moving, NoRights, NoView, Onboarding, Views, Whats, Tasks, Holders, Pcs,
       Free, Opened, ChatFree, AuthCall
<1>9. RoutesType'
  BY ONLY RoutesInv, <1>f, <1>1, <1>5, <1>7, <1>8 DEF RoutesType
<1>10. InOrder'
  BY ONLY RoutesInv, <1>f, <1>1, <1>5, <1>7, <1>8 DEF InOrder
<1>11. OneView' /\ HeldViews'
  BY ONLY RoutesInv, <1>f, <1>1, <1>5, <1>7, <1>8 DEF OneView, HeldViews
<1>12. HeldAtWork'
  BY ONLY RoutesInv, <1>f, <1>1, <1>5, <1>7, <1>8 DEF HeldAtWork
<1>13. OldHoldNothing' /\ SessionFlags' /\ SessionViews' /\ Generations' /\ Handovers'
  BY ONLY RoutesInv, <1>f, <1>1, <1>5, <1>7, <1>8 DEF OldHoldNothing, SessionFlags,
        SessionViews, Generations, Handovers
<1>14. SessionShown' /\ Sealing' /\ Sealed' /\ OpHolds' /\ OpAuth'
  BY ONLY RoutesInv, <1>f, <1>1, <1>5, <1>7, <1>8 DEF SessionShown, Sealing, Sealed, OpHolds,
        OpAuth
<1>15. OpFront' /\ Rights' /\ OpenIs' /\ EntersOpen'
  BY ONLY RoutesInv, <1>f, <1>1, <1>5, <1>7, <1>8 DEF OpFront, Rights, OpenIs, EntersOpen
<1>16. Registered' /\ FirstRun' /\ PageIs'
  BY ONLY RoutesInv, <1>f, <1>1, <1>5, <1>7, <1>8 DEF Registered, FirstRun, PageIs
<1> QED
  BY ONLY <1>9, <1>10, <1>11, <1>12, <1>13, <1>14, <1>15, <1>16

\* RequestRecovery: the operation goes on at "ask" of "entry", the application
\* changes by Moved.
LEMMA EntryBeginsSafe ==
  ASSUME RoutesInv, left' \in Lefts,
         app.linux /\ ("pin" \in app.views \/ "entry" \in app.views) /\ ~Busy /\ Free /\ Rests("op"),
         app' = Capture(Moved(app, "epoch"), "op", {"epoch", "seal"}),
         MovesTo("op", "entry", "ask")
  PROVE  RoutesInv'
<1>1. app \in Apps /\ task \in Taskings
  BY DEF RoutesInv, RoutesType
<1> DEFINE b1 == Moved(app, "epoch")
<1>2. app' = Capture(b1, "op", {"epoch", "seal"})
  OBVIOUS
<1> HIDE DEF b1
<1>3. /\ b1 \in Apps
      /\ Kept(b1, app, {})
  BY ONLY <1>1, MovedIs DEF b1
<1>4. \A t, x : Still(b1, t, x) <=> Still(app, t, x) /\ x # "epoch"
  BY ONLY <1>1, MovedIs DEF b1
<1>5. "op" \in Holders /\ {"epoch", "seal"} \in SUBSET Whats
  BY DEF Holders, Tasks, Whats, Views
<1>6. /\ app' \in Apps
      /\ Kept(app', b1, {})
  BY ONLY <1>2, <1>3, <1>5, CaptureIs
<1>7. \A t, x : Still(app', t, x) <=> (Still(b1, t, x)) \/ (t = "op" /\ x \in {"epoch", "seal"})
  BY ONLY <1>2, <1>3, <1>5, CaptureIs
<1>8. Kept(app', app, {})
  BY ONLY <1>3, <1>6 DEF Kept, Views, Apps
<1>9. \A t, x : Still(app', t, x) <=> (Still(app, t, x) /\ x # "epoch") \/ (t = "op" /\ x \in {"epoch", "seal"})
  BY ONLY <1>4, <1>7 DEF Views
<1>f. /\ app.linux = TRUE /\ ("pin" \in app.views \/ "entry" \in app.views) /\ ~Busy /\ Free
      /\ Rests("op") /\ left' \in Lefts /\ MovesTo("op", "entry", "ask")
  BY <1>1, Zenon DEF Apps, Opened, ChatFree
<1> USE DEF RoutesInv, Kept, MovesTo, MovesBoth, In, Op, Rests, Shows, Offers, Resuming, Locking,
       Busy, Entering, Moving, NoRights, NoView, Onboarding, Views, Whats, Tasks, Holders, Pcs,
       Free, Opened, ChatFree, AuthCall
<1>10. RoutesType'
  BY ONLY RoutesInv, <1>f, <1>1, <1>6, <1>8, <1>9 DEF RoutesType
<1>11. InOrder'
  BY ONLY RoutesInv, <1>f, <1>1, <1>6, <1>8, <1>9 DEF InOrder
<1>12. OneView' /\ HeldViews'
  BY ONLY RoutesInv, <1>f, <1>1, <1>6, <1>8, <1>9 DEF OneView, HeldViews
<1>13. HeldAtWork'
  BY ONLY RoutesInv, <1>f, <1>1, <1>6, <1>8, <1>9 DEF HeldAtWork
<1>14. OldHoldNothing' /\ SessionFlags' /\ SessionViews' /\ Generations' /\ Handovers'
  BY ONLY RoutesInv, <1>f, <1>1, <1>6, <1>8, <1>9 DEF OldHoldNothing, SessionFlags,
        SessionViews, Generations, Handovers
<1>15. SessionShown' /\ Sealing' /\ Sealed' /\ OpHolds' /\ OpAuth'
  BY ONLY RoutesInv, <1>f, <1>1, <1>6, <1>8, <1>9 DEF SessionShown, Sealing, Sealed, OpHolds,
        OpAuth, HeldAtWork
<1>16. OpFront' /\ Rights' /\ OpenIs' /\ EntersOpen'
  BY ONLY RoutesInv, <1>f, <1>1, <1>6, <1>8, <1>9 DEF OpFront, Rights, OpenIs, EntersOpen,
        OneView
<1>17. Registered' /\ FirstRun' /\ PageIs'
  BY ONLY RoutesInv, <1>f, <1>1, <1>6, <1>8, <1>9 DEF Registered, FirstRun, PageIs
<1> QED
  BY ONLY <1>10, <1>11, <1>12, <1>13, <1>14, <1>15, <1>16, <1>17

\* EntryAnswer: the operation ends, the application changes by ShowEntry.
LEMMA EntryShownSafe ==
  ASSUME RoutesInv, left' \in Lefts,
         task["op"].kind \in {"entry", "newpin"} /\ task["op"].pc = "ask" /\ Still(app, "op", "epoch"),
         app' = Forget(ShowEntry(app), "op"),
         MovesTo("op", "none", "idle")
  PROVE  RoutesInv'
<1>1. app \in Apps /\ task \in Taskings
  BY DEF RoutesInv, RoutesType
<1> DEFINE b1 == ShowEntry(app)
<1>2. app' = Forget(b1, "op")
  OBVIOUS
<1> HIDE DEF b1
<1>3. /\ b1 \in Apps
      /\ Kept(b1, app, {"page", "views", "token", "session", "security", "deferred", "chats", "issue"})
      /\ b1.page = (IF app.closing THEN app.page ELSE "entry") /\ b1.views = {"entry"}
      /\ b1.token = "none" /\ b1.session = FALSE /\ b1.security = FALSE
      /\ b1.deferred = FALSE /\ b1.chats = FALSE /\ b1.issue = FALSE
  BY ONLY <1>1, ShowEntryIs DEF b1
<1>4. \A t, x : Still(b1, t, x) <=> Still(app, t, x) /\ x \notin Views \cup {"gen", "workspace"}
  BY ONLY <1>1, ShowEntryIs DEF b1
<1>5. /\ app' \in Apps
      /\ Kept(app', b1, {})
  BY ONLY <1>2, <1>3, ForgetIs
<1>6. \A t, x : Still(app', t, x) <=> Still(b1, t, x) /\ t # "op"
  BY ONLY <1>2, <1>3, ForgetIs
<1>7. /\ Kept(app', app, {"page", "views", "token", "session", "security", "deferred", "chats", "issue"})
      /\ app'.page = (IF app.closing THEN app.page ELSE "entry") /\ app'.views = {"entry"}
      /\ app'.token = "none" /\ app'.session = FALSE /\ app'.security = FALSE
      /\ app'.deferred = FALSE /\ app'.chats = FALSE /\ app'.issue = FALSE
  BY ONLY <1>3, <1>5 DEF Kept, Views, Apps
<1>8. \A t, x : Still(app', t, x) <=> Still(app, t, x) /\ x \notin Views \cup {"gen", "workspace"} /\ t # "op"
  BY ONLY <1>4, <1>6 DEF Views
<1> USE <1>1, <1>5, <1>7, <1>8 DEF RoutesInv, Kept, MovesTo, MovesBoth, In, Op, Rests, Shows, Offers, Resuming, Locking,
       Busy, Entering, Moving, NoRights, NoView, Onboarding, Views, Whats, Tasks, Holders, Pcs,
       Free, Opened, ChatFree, AuthCall
<1>9. RoutesType'
  BY DEF RoutesType
<1>10. InOrder'
  BY DEF InOrder
<1>11. OneView' /\ HeldViews'
  BY DEF OneView, HeldViews
<1>12. HeldAtWork'
  BY DEF HeldAtWork
<1>13. OldHoldNothing' /\ SessionFlags' /\ SessionViews' /\ Generations' /\ Handovers'
  BY DEF OldHoldNothing, SessionFlags, SessionViews, Generations, Handovers
<1>14. SessionShown' /\ Sealing' /\ Sealed' /\ OpHolds' /\ OpAuth'
  BY DEF SessionShown, Sealing, Sealed, OpHolds, OpAuth
<1>15. OpFront' /\ Rights' /\ OpenIs' /\ EntersOpen'
  BY DEF OpFront, Rights, OpenIs, EntersOpen, OpHolds, FirstRun, OneView, Sealed, HeldViews,
        SessionViews
<1>16. Registered' /\ FirstRun' /\ PageIs'
  BY DEF Registered, FirstRun, PageIs, Sealing
<1> QED
  BY ONLY <1>9, <1>10, <1>11, <1>12, <1>13, <1>14, <1>15, <1>16

\* EntryAnswer: the operation ends, the application changes by EntryFailed.
LEMMA EntryErrsSafe ==
  ASSUME RoutesInv, left' \in Lefts,
         task["op"].kind \in {"entry", "newpin"} /\ task["op"].pc = "ask" /\ Still(app, "op", "epoch"),
         app' = Forget(EntryFailed(app), "op"),
         MovesTo("op", "none", "idle")
  PROVE  RoutesInv'
<1>1. app \in Apps /\ task \in Taskings
  BY DEF RoutesInv, RoutesType
<1> DEFINE b1 == EntryFailed(app)
<1>2. app' = Forget(b1, "op")
  OBVIOUS
<1> HIDE DEF b1
<1>3. /\ b1 \in Apps
      /\ Kept(b1, app, {"page", "views", "token", "session", "security", "deferred", "chats", "open", "loose", "pending", "replacing", "grant", "issue"})
      /\ b1.page = (IF app.closing THEN app.page ELSE "error") /\ b1.views = {}
      /\ b1.token = "none" /\ b1.session = FALSE /\ b1.security = FALSE
      /\ b1.deferred = FALSE /\ b1.chats = FALSE /\ b1.open = FALSE /\ b1.loose = FALSE
      /\ b1.pending = FALSE /\ b1.replacing = FALSE /\ b1.grant = FALSE /\ b1.issue = FALSE
  BY ONLY <1>1, EntryFailedIs DEF b1
<1>4. \A t, x : Still(b1, t, x) <=> Still(app, t, x) /\ x \notin Views \cup {"auth", "gen", "workspace"}
  BY ONLY <1>1, EntryFailedIs DEF b1
<1>5. /\ app' \in Apps
      /\ Kept(app', b1, {})
  BY ONLY <1>2, <1>3, ForgetIs
<1>6. \A t, x : Still(app', t, x) <=> Still(b1, t, x) /\ t # "op"
  BY ONLY <1>2, <1>3, ForgetIs
<1>7. /\ Kept(app', app, {"page", "views", "token", "session", "security", "deferred", "chats", "open", "loose", "pending", "replacing", "grant", "issue"})
      /\ app'.page = (IF app.closing THEN app.page ELSE "error") /\ app'.views = {}
      /\ app'.token = "none" /\ app'.session = FALSE /\ app'.security = FALSE
      /\ app'.deferred = FALSE /\ app'.chats = FALSE /\ app'.open = FALSE
      /\ app'.loose = FALSE /\ app'.pending = FALSE /\ app'.replacing = FALSE
      /\ app'.grant = FALSE /\ app'.issue = FALSE
  BY ONLY <1>3, <1>5 DEF Kept, Views, Apps
<1>8. \A t, x : Still(app', t, x) <=> Still(app, t, x) /\ x \notin Views \cup {"auth", "gen", "workspace"} /\ t # "op"
  BY ONLY <1>4, <1>6 DEF Views
<1> USE <1>1, <1>5, <1>7, <1>8 DEF RoutesInv, Kept, MovesTo, MovesBoth, In, Op, Rests, Shows, Offers, Resuming, Locking,
       Busy, Entering, Moving, NoRights, NoView, Onboarding, Views, Whats, Tasks, Holders, Pcs,
       Free, Opened, ChatFree, AuthCall
<1>9. RoutesType'
  BY DEF RoutesType
<1>10. InOrder'
  BY DEF InOrder
<1>11. OneView' /\ HeldViews'
  BY DEF OneView, HeldViews
<1>12. HeldAtWork'
  BY DEF HeldAtWork
<1>13. OldHoldNothing' /\ SessionFlags' /\ SessionViews' /\ Generations' /\ Handovers'
  BY DEF OldHoldNothing, SessionFlags, SessionViews, Generations, Handovers
<1>14. SessionShown' /\ Sealing' /\ Sealed' /\ OpHolds' /\ OpAuth'
  BY DEF SessionShown, Sealing, Sealed, OpHolds, OpAuth
<1>15. OpFront' /\ Rights' /\ OpenIs' /\ EntersOpen'
  BY DEF OpFront, Rights, OpenIs, EntersOpen
<1>16. Registered' /\ FirstRun' /\ PageIs'
  BY DEF Registered, FirstRun, PageIs, Sealing
<1> QED
  BY ONLY <1>9, <1>10, <1>11, <1>12, <1>13, <1>14, <1>15, <1>16

\* SubmitCode: the operation goes on at "check" of "code", the application
\* changes by CancelGrant.
LEMMA CodeBeginsSafe ==
  ASSUME RoutesInv, left' \in Lefts,
         "entry" \in app.views /\ ~Busy /\ Free /\ Rests("op"),
         app' = Capture(CancelGrant(app), "op", {"auth", "entry", "epoch", "seal"}),
         MovesTo("op", "code", "check")
  PROVE  RoutesInv'
<1>1. app \in Apps /\ task \in Taskings
  BY DEF RoutesInv, RoutesType
<1> DEFINE b1 == CancelGrant(app)
<1>2. app' = Capture(b1, "op", {"auth", "entry", "epoch", "seal"})
  OBVIOUS
<1> HIDE DEF b1
<1>3. /\ b1 \in Apps
      /\ Kept(b1, app, {"replacing", "grant", "issue"})
      /\ b1.replacing = FALSE /\ b1.grant = FALSE /\ b1.issue = FALSE
  BY ONLY <1>1, CancelGrantIs DEF b1
<1>4. \A t, x : Still(b1, t, x) <=> Still(app, t, x) /\ x # "auth"
  BY ONLY <1>1, CancelGrantIs DEF b1
<1>5. "op" \in Holders /\ {"auth", "entry", "epoch", "seal"} \in SUBSET Whats
  BY DEF Holders, Tasks, Whats, Views
<1>6. /\ app' \in Apps
      /\ Kept(app', b1, {})
  BY ONLY <1>2, <1>3, <1>5, CaptureIs
<1>7. \A t, x : Still(app', t, x) <=> (Still(b1, t, x)) \/ (t = "op" /\ x \in {"auth", "entry", "epoch", "seal"})
  BY ONLY <1>2, <1>3, <1>5, CaptureIs
<1>8. /\ Kept(app', app, {"replacing", "grant", "issue"})
      /\ app'.replacing = FALSE /\ app'.grant = FALSE /\ app'.issue = FALSE
  BY ONLY <1>3, <1>6 DEF Kept, Views, Apps
<1>9. \A t, x : Still(app', t, x) <=> (Still(app, t, x) /\ x # "auth") \/ (t = "op" /\ x \in {"auth", "entry", "epoch", "seal"})
  BY ONLY <1>4, <1>7 DEF Views
<1> USE <1>1, <1>6, <1>8, <1>9 DEF RoutesInv, Kept, MovesTo, MovesBoth, In, Op, Rests, Shows, Offers, Resuming, Locking,
       Busy, Entering, Moving, NoRights, NoView, Onboarding, Views, Whats, Tasks, Holders, Pcs,
       Free, Opened, ChatFree, AuthCall
<1>10. RoutesType'
  BY DEF RoutesType
<1>11. InOrder'
  BY DEF InOrder
<1>12. OneView' /\ HeldViews'
  BY DEF OneView, HeldViews
<1>13. HeldAtWork'
  BY DEF HeldAtWork
<1>14. OldHoldNothing' /\ SessionFlags' /\ SessionViews' /\ Generations' /\ Handovers'
  BY DEF OldHoldNothing, SessionFlags, SessionViews, Generations, Handovers
<1>15. SessionShown' /\ Sealing' /\ Sealed' /\ OpHolds' /\ OpAuth'
  BY DEF SessionShown, Sealing, Sealed, OpHolds, OpAuth, SessionViews
<1>16. OpFront' /\ Rights' /\ OpenIs' /\ EntersOpen'
  BY DEF OpFront, Rights, OpenIs, EntersOpen
<1>17. Registered' /\ FirstRun' /\ PageIs'
  BY DEF Registered, FirstRun, PageIs, OneView
<1> QED
  BY ONLY <1>10, <1>11, <1>12, <1>13, <1>14, <1>15, <1>16, <1>17

\* CodeAnswer: the operation ends, the application changes by Grants,
\* ShowNewPin.
LEMMA CodeGrantsSafe ==
  ASSUME RoutesInv, left' \in Lefts,
         Op("code", {"check"}) /\ Still(app, "op", "auth") /\ Still(app, "op", "epoch") /\ Still(app, "op", "entry"),
         app' = Forget(ShowNewPin(Grants(app), "code"), "op"),
         MovesTo("op", "none", "idle")
  PROVE  RoutesInv'
<1>1. app \in Apps /\ task \in Taskings
  BY DEF RoutesInv, RoutesType
<1> DEFINE b1 == Grants(app)
           b2 == ShowNewPin(b1, "code")
<1>2. app' = Forget(b2, "op")
  OBVIOUS
<1> HIDE DEF b1, b2
<1>3. /\ b1 \in Apps
      /\ Kept(b1, app, {"grant"})
      /\ b1.grant = TRUE
  BY ONLY <1>1, GrantsIs DEF b1
<1>4. \A t, x : Still(b1, t, x) <=> Still(app, t, x)
  BY ONLY <1>1, GrantsIs DEF b1
<1>5. /\ b2 \in Apps
      /\ Kept(b2, b1, {"page", "views", "token", "source", "issue"})
      /\ b2.page = (IF b1.closing THEN b1.page ELSE "newpin")
      /\ b2.views = ((b1.views \ {"step", "entry", "codepin", "codeshow", "sysrec"}) \ {"key", "pin"}) \cup {"setup"}
      /\ b2.token = "recovery" /\ b2.source = "code" /\ b2.issue = FALSE
  BY ONLY <1>3, ShowNewPinIs DEF b2, Views, Pages
<1>6. \A t, x : Still(b2, t, x) <=> Still(b1, t, x) /\ x \notin {"step", "entry", "codepin", "codeshow", "sysrec", "key", "pin", "setup"}
  BY ONLY <1>3, ShowNewPinIs DEF b2, Views, Pages
<1>7. /\ app' \in Apps
      /\ Kept(app', b2, {})
  BY ONLY <1>2, <1>5, ForgetIs
<1>8. \A t, x : Still(app', t, x) <=> Still(b2, t, x) /\ t # "op"
  BY ONLY <1>2, <1>5, ForgetIs
<1>9. /\ Kept(app', app, {"page", "views", "token", "source", "grant", "issue"})
      /\ app'.page = (IF app.closing THEN app.page ELSE "newpin")
      /\ app'.views = ((app.views \ {"step", "entry", "codepin", "codeshow", "sysrec"}) \ {"key", "pin"}) \cup {"setup"}
      /\ app'.token = "recovery" /\ app'.source = "code" /\ app'.grant = TRUE
      /\ app'.issue = FALSE
  BY ONLY <1>3, <1>5, <1>7 DEF Kept, Views, Apps
<1>10. \A t, x : Still(app', t, x) <=> Still(app, t, x) /\ x \notin {"step", "entry", "codepin", "codeshow", "sysrec", "key", "pin", "setup"} /\ t # "op"
  BY ONLY <1>4, <1>6, <1>8 DEF Views
<1> USE <1>1, <1>7, <1>9, <1>10 DEF RoutesInv, Kept, MovesTo, MovesBoth, In, Op, Rests, Shows, Offers, Resuming, Locking,
       Busy, Entering, Moving, NoRights, NoView, Onboarding, Views, Whats, Tasks, Holders, Pcs,
       Free, Opened, ChatFree, AuthCall
<1>11. RoutesType'
  BY DEF RoutesType
<1>12. InOrder'
  BY DEF InOrder
<1>13. OneView' /\ HeldViews'
  BY DEF OneView, HeldViews
<1>14. HeldAtWork'
  BY DEF HeldAtWork
<1>15. OldHoldNothing' /\ SessionFlags' /\ SessionViews' /\ Generations' /\ Handovers'
  BY DEF OldHoldNothing, SessionFlags, SessionViews, Generations, Handovers, HeldViews
<1>16. SessionShown' /\ Sealing' /\ Sealed' /\ OpHolds' /\ OpAuth'
  BY DEF SessionShown, Sealing, Sealed, OpHolds, OpAuth, SessionViews, HeldViews
<1>17. OpFront' /\ Rights' /\ OpenIs' /\ EntersOpen'
  BY DEF OpFront, Rights, OpenIs, EntersOpen, HeldViews, OneView, OpAuth
<1>18. Registered' /\ FirstRun' /\ PageIs'
  BY DEF Registered, FirstRun, PageIs, Sealing
<1> QED
  BY ONLY <1>11, <1>12, <1>13, <1>14, <1>15, <1>16, <1>17, <1>18

\* RequestSystemRecovery: no coroutine moves, the application changes by
\* ShowRecovery.
LEMMA ExplainedSafe ==
  ASSUME RoutesInv, left' \in Lefts,
         (("pin" \in app.views \/ "entry" \in app.views) \/ "sysrec" \in app.views) /\ app.linux /\ ~("sysrec" \in app.views) /\ Free /\ Rests("op"),
         app' = ShowRecovery(app),
         UNCHANGED task
  PROVE  RoutesInv'
<1>1. app \in Apps /\ task \in Taskings
  BY DEF RoutesInv, RoutesType
<1>2. app' = ShowRecovery(app)
  OBVIOUS
<1>3. /\ app' \in Apps
      /\ Kept(app', app, {"page", "views", "token", "session", "security", "deferred", "chats", "issue"})
      /\ app'.page = (IF app.closing THEN app.page ELSE "sysrec") /\ app'.views = {"sysrec"}
      /\ app'.token = "none" /\ app'.session = FALSE /\ app'.security = FALSE
      /\ app'.deferred = FALSE /\ app'.chats = FALSE /\ app'.issue = FALSE
  BY ONLY <1>2, <1>1, ShowRecoveryIs
<1>4. \A t, x : Still(app', t, x) <=> Still(app, t, x) /\ x \notin Views \cup {"gen", "workspace"}
  BY ONLY <1>2, <1>1, ShowRecoveryIs
<1>f. /\ (("pin" \in app.views \/ "entry" \in app.views) \/ "sysrec" \in app.views)
      /\ app.linux = TRUE /\ ~("sysrec" \in app.views) /\ Free /\ Rests("op")
      /\ left' \in Lefts /\ UNCHANGED task
  BY <1>1, Zenon DEF Apps, Opened, ChatFree
<1> USE DEF RoutesInv, Kept, MovesTo, MovesBoth, In, Op, Rests, Shows, Offers, Resuming, Locking,
       Busy, Entering, Moving, NoRights, NoView, Onboarding, Views, Whats, Tasks, Holders, Pcs,
       Free, Opened, ChatFree, AuthCall
<1>5. RoutesType'
  BY ONLY RoutesInv, <1>f, <1>1, <1>3, <1>4 DEF RoutesType
<1>6. InOrder'
  BY ONLY RoutesInv, <1>f, <1>1, <1>3, <1>4 DEF InOrder
<1>7. OneView' /\ HeldViews'
  BY ONLY RoutesInv, <1>f, <1>1, <1>3, <1>4 DEF OneView, HeldViews
<1>8. HeldAtWork'
  BY ONLY RoutesInv, <1>f, <1>1, <1>3, <1>4 DEF HeldAtWork
<1>9. OldHoldNothing' /\ SessionFlags' /\ SessionViews' /\ Generations' /\ Handovers'
  BY ONLY RoutesInv, <1>f, <1>1, <1>3, <1>4 DEF OldHoldNothing, SessionFlags, SessionViews,
        Generations, Handovers
<1>10. SessionShown' /\ Sealing' /\ Sealed' /\ OpHolds' /\ OpAuth'
  BY ONLY RoutesInv, <1>f, <1>1, <1>3, <1>4 DEF SessionShown, Sealing, Sealed, OpHolds, OpAuth,
        HeldAtWork
<1>11. OpFront' /\ Rights' /\ OpenIs' /\ EntersOpen'
  BY ONLY RoutesInv, <1>f, <1>1, <1>3, <1>4 DEF OpFront, Rights, OpenIs, EntersOpen, OneView,
        SessionViews
<1>12. Registered' /\ FirstRun' /\ PageIs'
  BY ONLY RoutesInv, <1>f, <1>1, <1>3, <1>4 DEF Registered, FirstRun, PageIs
<1> QED
  BY ONLY <1>5, <1>6, <1>7, <1>8, <1>9, <1>10, <1>11, <1>12

\* RequestSystemRecovery: no coroutine moves, the application changes by
\* Moved, ShowRecovery.
LEMMA PromptBusySafe ==
  ASSUME RoutesInv, left' \in Lefts,
         (("pin" \in app.views \/ "entry" \in app.views) \/ "sysrec" \in app.views) /\ (app.linux => "sysrec" \in app.views) /\ Free /\ Rests("op") /\ Busy,
         app' = ShowRecovery(Moved(app, "epoch")),
         UNCHANGED task
  PROVE  RoutesInv'
<1>1. app \in Apps /\ task \in Taskings
  BY DEF RoutesInv, RoutesType
<1> DEFINE b1 == Moved(app, "epoch")
<1>2. app' = ShowRecovery(b1)
  OBVIOUS
<1> HIDE DEF b1
<1>3. /\ b1 \in Apps
      /\ Kept(b1, app, {})
  BY ONLY <1>1, MovedIs DEF b1
<1>4. \A t, x : Still(b1, t, x) <=> Still(app, t, x) /\ x # "epoch"
  BY ONLY <1>1, MovedIs DEF b1
<1>5. /\ app' \in Apps
      /\ Kept(app', b1, {"page", "views", "token", "session", "security", "deferred", "chats", "issue"})
      /\ app'.page = (IF b1.closing THEN b1.page ELSE "sysrec") /\ app'.views = {"sysrec"}
      /\ app'.token = "none" /\ app'.session = FALSE /\ app'.security = FALSE
      /\ app'.deferred = FALSE /\ app'.chats = FALSE /\ app'.issue = FALSE
  BY ONLY <1>2, <1>3, ShowRecoveryIs
<1>6. \A t, x : Still(app', t, x) <=> Still(b1, t, x) /\ x \notin Views \cup {"gen", "workspace"}
  BY ONLY <1>2, <1>3, ShowRecoveryIs
<1>7. /\ Kept(app', app, {"page", "views", "token", "session", "security", "deferred", "chats", "issue"})
      /\ app'.page = (IF app.closing THEN app.page ELSE "sysrec") /\ app'.views = {"sysrec"}
      /\ app'.token = "none" /\ app'.session = FALSE /\ app'.security = FALSE
      /\ app'.deferred = FALSE /\ app'.chats = FALSE /\ app'.issue = FALSE
  BY ONLY <1>3, <1>5 DEF Kept, Views, Apps
<1>8. \A t, x : Still(app', t, x) <=> Still(app, t, x) /\ x \notin Views \cup {"epoch", "gen", "workspace"}
  BY ONLY <1>4, <1>6 DEF Views
<1> USE <1>1, <1>5, <1>7, <1>8 DEF RoutesInv, Kept, MovesTo, MovesBoth, In, Op, Rests, Shows, Offers, Resuming, Locking,
       Busy, Entering, Moving, NoRights, NoView, Onboarding, Views, Whats, Tasks, Holders, Pcs,
       Free, Opened, ChatFree, AuthCall
<1>9. RoutesType'
  BY DEF RoutesType
<1>10. InOrder'
  BY DEF InOrder
<1>11. OneView' /\ HeldViews'
  BY DEF OneView, HeldViews
<1>12. HeldAtWork'
  BY DEF HeldAtWork
<1>13. OldHoldNothing' /\ SessionFlags' /\ SessionViews' /\ Generations' /\ Handovers'
  BY DEF OldHoldNothing, SessionFlags, SessionViews, Generations, Handovers
<1>14. SessionShown' /\ Sealing' /\ Sealed' /\ OpHolds' /\ OpAuth'
  BY DEF SessionShown, Sealing, Sealed, OpHolds, OpAuth, HeldAtWork
<1>15. OpFront' /\ Rights' /\ OpenIs' /\ EntersOpen'
  BY DEF OpFront, Rights, OpenIs, EntersOpen, OneView, SessionViews
<1>16. Registered' /\ FirstRun' /\ PageIs'
  BY DEF Registered, FirstRun, PageIs
<1> QED
  BY ONLY <1>9, <1>10, <1>11, <1>12, <1>13, <1>14, <1>15, <1>16

\* RequestSystemRecovery: the operation goes on at "prepare" of "sysrec", the
\* application changes by Moved, ShowRecovery, CancelGrant.
LEMMA PromptBeginsSafe ==
  ASSUME RoutesInv, left' \in Lefts,
         (("pin" \in app.views \/ "entry" \in app.views) \/ "sysrec" \in app.views) /\ (app.linux => "sysrec" \in app.views) /\ ~Busy /\ Free /\ Rests("op"),
         app' = Capture(CancelGrant(ShowRecovery(Moved(app, "epoch"))), "op", {"auth", "epoch", "seal", "sysrec"}),
         MovesTo("op", "sysrec", "prepare")
  PROVE  RoutesInv'
<1>1. app \in Apps /\ task \in Taskings
  BY DEF RoutesInv, RoutesType
<1> DEFINE b1 == Moved(app, "epoch")
           b2 == ShowRecovery(b1)
           b3 == CancelGrant(b2)
<1>2. app' = Capture(b3, "op", {"auth", "epoch", "seal", "sysrec"})
  OBVIOUS
<1> HIDE DEF b1, b2, b3
<1>3. /\ b1 \in Apps
      /\ Kept(b1, app, {})
  BY ONLY <1>1, MovedIs DEF b1
<1>4. \A t, x : Still(b1, t, x) <=> Still(app, t, x) /\ x # "epoch"
  BY ONLY <1>1, MovedIs DEF b1
<1>5. /\ b2 \in Apps
      /\ Kept(b2, b1, {"page", "views", "token", "session", "security", "deferred", "chats", "issue"})
      /\ b2.page = (IF b1.closing THEN b1.page ELSE "sysrec") /\ b2.views = {"sysrec"}
      /\ b2.token = "none" /\ b2.session = FALSE /\ b2.security = FALSE
      /\ b2.deferred = FALSE /\ b2.chats = FALSE /\ b2.issue = FALSE
  BY ONLY <1>3, ShowRecoveryIs DEF b2
<1>6. \A t, x : Still(b2, t, x) <=> Still(b1, t, x) /\ x \notin Views \cup {"gen", "workspace"}
  BY ONLY <1>3, ShowRecoveryIs DEF b2
<1>7. /\ b3 \in Apps
      /\ Kept(b3, b2, {"replacing", "grant", "issue"})
      /\ b3.replacing = FALSE /\ b3.grant = FALSE /\ b3.issue = FALSE
  BY ONLY <1>5, CancelGrantIs DEF b3
<1>8. \A t, x : Still(b3, t, x) <=> Still(b2, t, x) /\ x # "auth"
  BY ONLY <1>5, CancelGrantIs DEF b3
<1>9. "op" \in Holders /\ {"auth", "epoch", "seal", "sysrec"} \in SUBSET Whats
  BY DEF Holders, Tasks, Whats, Views
<1>10. /\ app' \in Apps
      /\ Kept(app', b3, {})
  BY ONLY <1>2, <1>7, <1>9, CaptureIs
<1>11. \A t, x : Still(app', t, x) <=> (Still(b3, t, x)) \/ (t = "op" /\ x \in {"auth", "epoch", "seal", "sysrec"})
  BY ONLY <1>2, <1>7, <1>9, CaptureIs
<1>12. /\ Kept(app', app, {"page", "views", "token", "session", "security", "deferred", "chats", "replacing", "grant", "issue"})
      /\ app'.page = (IF app.closing THEN app.page ELSE "sysrec") /\ app'.views = {"sysrec"}
      /\ app'.token = "none" /\ app'.session = FALSE /\ app'.security = FALSE
      /\ app'.deferred = FALSE /\ app'.chats = FALSE /\ app'.replacing = FALSE
      /\ app'.grant = FALSE /\ app'.issue = FALSE
  BY ONLY <1>3, <1>5, <1>7, <1>10 DEF Kept, Views, Apps
<1>13. \A t, x : Still(app', t, x) <=> (Still(app, t, x) /\ x \notin Views \cup {"epoch", "gen", "workspace", "auth"}) \/ (t = "op" /\ x \in {"auth", "epoch", "seal", "sysrec"})
  BY ONLY <1>4, <1>6, <1>8, <1>11 DEF Views
<1> USE <1>1, <1>10, <1>12, <1>13 DEF RoutesInv, Kept, MovesTo, MovesBoth, In, Op, Rests, Shows, Offers, Resuming, Locking,
       Busy, Entering, Moving, NoRights, NoView, Onboarding, Views, Whats, Tasks, Holders, Pcs,
       Free, Opened, ChatFree, AuthCall
<1>14. RoutesType'
  BY DEF RoutesType
<1>15. InOrder'
  BY DEF InOrder
<1>16. OneView' /\ HeldViews'
  BY DEF OneView, HeldViews
<1>17. HeldAtWork'
  BY DEF HeldAtWork
<1>18. OldHoldNothing' /\ SessionFlags' /\ SessionViews' /\ Generations' /\ Handovers'
  BY DEF OldHoldNothing, SessionFlags, SessionViews, Generations, Handovers
<1>19. SessionShown' /\ Sealing' /\ Sealed' /\ OpHolds' /\ OpAuth'
  BY DEF SessionShown, Sealing, Sealed, OpHolds, OpAuth
<1>20. OpFront' /\ Rights' /\ OpenIs' /\ EntersOpen'
  BY DEF OpFront, Rights, OpenIs, EntersOpen, Registered, SessionViews
<1>21. Registered' /\ FirstRun' /\ PageIs'
  BY DEF Registered, FirstRun, PageIs
<1> QED
  BY ONLY <1>14, <1>15, <1>16, <1>17, <1>18, <1>19, <1>20, <1>21

\* PromptShown: the operation goes on at "prompt" of "sysrec", the application
\* changes by PromptUp.
LEMMA PromptNextSafe ==
  ASSUME RoutesInv, left' \in Lefts,
         Op("sysrec", {"prepare"}) /\ Still(app, "op", "auth"),
         app' = PromptUp(app),
         MovesTo("op", "sysrec", "prompt")
  PROVE  RoutesInv'
<1>1. app \in Apps /\ task \in Taskings
  BY DEF RoutesInv, RoutesType
<1>2. app' = PromptUp(app)
  OBVIOUS
<1>3. /\ app' \in Apps
      /\ Kept(app', app, {"prompt"})
      /\ app'.prompt = "shown"
  BY ONLY <1>2, <1>1, PromptUpIs
<1>4. \A t, x : Still(app', t, x) <=> Still(app, t, x)
  BY ONLY <1>2, <1>1, PromptUpIs
<1> USE <1>1, <1>3, <1>4 DEF RoutesInv, Kept, MovesTo, MovesBoth, In, Op, Rests, Shows, Offers, Resuming, Locking,
       Busy, Entering, Moving, NoRights, NoView, Onboarding, Views, Whats, Tasks, Holders, Pcs,
       Free, Opened, ChatFree, AuthCall
<1>5. RoutesType'
  BY DEF RoutesType
<1>6. InOrder'
  BY DEF InOrder
<1>7. OneView' /\ HeldViews'
  BY DEF OneView, HeldViews
<1>8. HeldAtWork'
  BY DEF HeldAtWork
<1>9. OldHoldNothing' /\ SessionFlags' /\ SessionViews' /\ Generations' /\ Handovers'
  BY DEF OldHoldNothing, SessionFlags, SessionViews, Generations, Handovers
<1>10. SessionShown' /\ Sealing' /\ Sealed' /\ OpHolds' /\ OpAuth'
  BY DEF SessionShown, Sealing, Sealed, OpHolds, OpAuth
<1>11. OpFront' /\ Rights' /\ OpenIs' /\ EntersOpen'
  BY DEF OpFront, Rights, OpenIs, EntersOpen
<1>12. Registered' /\ FirstRun' /\ PageIs'
  BY DEF Registered, FirstRun, PageIs
<1> QED
  BY ONLY <1>5, <1>6, <1>7, <1>8, <1>9, <1>10, <1>11, <1>12

\* PromptConfirmed, PromptRefused, PromptCancelled: the operation ends, the
\* application changes by PromptDown.
LEMMA PromptOverSafe ==
  ASSUME RoutesInv, left' \in Lefts,
         \/ Op("sysrec", {"prompt"}) /\ app.prompt = "shown" /\ ~Still(app, "op", "auth")
         \/ Op("sysrec", {"prompt"}) /\ app.prompt = "shown"
         \/ Op("sysrec", {"prompt"}) /\ app.prompt = "cancelled",
         app' = Forget(PromptDown(app), "op"),
         MovesTo("op", "none", "idle")
  PROVE  RoutesInv'
<1>1. app \in Apps /\ task \in Taskings
  BY DEF RoutesInv, RoutesType
<1> DEFINE b1 == PromptDown(app)
<1>2. app' = Forget(b1, "op")
  OBVIOUS
<1> HIDE DEF b1
<1>3. /\ b1 \in Apps
      /\ Kept(b1, app, {"prompt"})
      /\ b1.prompt = "none"
  BY ONLY <1>1, PromptDownIs DEF b1
<1>4. \A t, x : Still(b1, t, x) <=> Still(app, t, x)
  BY ONLY <1>1, PromptDownIs DEF b1
<1>5. /\ app' \in Apps
      /\ Kept(app', b1, {})
  BY ONLY <1>2, <1>3, ForgetIs
<1>6. \A t, x : Still(app', t, x) <=> Still(b1, t, x) /\ t # "op"
  BY ONLY <1>2, <1>3, ForgetIs
<1>7. /\ Kept(app', app, {"prompt"})
      /\ app'.prompt = "none"
  BY ONLY <1>3, <1>5 DEF Kept, Views, Apps
<1>8. \A t, x : Still(app', t, x) <=> Still(app, t, x) /\ t # "op"
  BY ONLY <1>4, <1>6 DEF Views
<1> USE <1>1, <1>5, <1>7, <1>8 DEF RoutesInv, Kept, MovesTo, MovesBoth, In, Op, Rests, Shows, Offers, Resuming, Locking,
       Busy, Entering, Moving, NoRights, NoView, Onboarding, Views, Whats, Tasks, Holders, Pcs,
       Free, Opened, ChatFree, AuthCall
<1>9. RoutesType'
  BY DEF RoutesType
<1>10. InOrder'
  BY DEF InOrder
<1>11. OneView' /\ HeldViews'
  BY DEF OneView, HeldViews
<1>12. HeldAtWork'
  BY DEF HeldAtWork
<1>13. OldHoldNothing' /\ SessionFlags' /\ SessionViews' /\ Generations' /\ Handovers'
  BY DEF OldHoldNothing, SessionFlags, SessionViews, Generations, Handovers
<1>14. SessionShown' /\ Sealing' /\ Sealed' /\ OpHolds' /\ OpAuth'
  BY DEF SessionShown, Sealing, Sealed, OpHolds, OpAuth
<1>15. OpFront' /\ Rights' /\ OpenIs' /\ EntersOpen'
  BY DEF OpFront, Rights, OpenIs, EntersOpen
<1>16. Registered' /\ FirstRun' /\ PageIs'
  BY DEF Registered, FirstRun, PageIs
<1> QED
  BY ONLY <1>9, <1>10, <1>11, <1>12, <1>13, <1>14, <1>15, <1>16

\* PromptConfirmed: the operation ends, the application changes by
\* PromptGives, ShowNewPin.
LEMMA PromptGrantsSafe ==
  ASSUME RoutesInv, left' \in Lefts,
         Op("sysrec", {"prompt"}) /\ app.prompt = "shown" /\ Still(app, "op", "auth") /\ Still(app, "op", "epoch") /\ Still(app, "op", "sysrec"),
         app' = Forget(ShowNewPin(PromptGives(app), "system"), "op"),
         MovesTo("op", "none", "idle")
  PROVE  RoutesInv'
<1>1. app \in Apps /\ task \in Taskings
  BY DEF RoutesInv, RoutesType
<1> DEFINE b1 == PromptGives(app)
           b2 == ShowNewPin(b1, "system")
<1>2. app' = Forget(b2, "op")
  OBVIOUS
<1> HIDE DEF b1, b2
<1>3. /\ b1 \in Apps
      /\ Kept(b1, app, {"grant", "prompt"})
      /\ b1.grant = TRUE /\ b1.prompt = "none"
  BY ONLY <1>1, PromptGivesIs DEF b1
<1>4. \A t, x : Still(b1, t, x) <=> Still(app, t, x)
  BY ONLY <1>1, PromptGivesIs DEF b1
<1>5. /\ b2 \in Apps
      /\ Kept(b2, b1, {"page", "views", "token", "source", "issue"})
      /\ b2.page = (IF b1.closing THEN b1.page ELSE "newpin")
      /\ b2.views = ((b1.views \ {"step", "entry", "codepin", "codeshow", "sysrec"}) \ {"key", "pin"}) \cup {"setup"}
      /\ b2.token = "recovery" /\ b2.source = "system" /\ b2.issue = FALSE
  BY ONLY <1>3, ShowNewPinIs DEF b2, Views, Pages
<1>6. \A t, x : Still(b2, t, x) <=> Still(b1, t, x) /\ x \notin {"step", "entry", "codepin", "codeshow", "sysrec", "key", "pin", "setup"}
  BY ONLY <1>3, ShowNewPinIs DEF b2, Views, Pages
<1>7. /\ app' \in Apps
      /\ Kept(app', b2, {})
  BY ONLY <1>2, <1>5, ForgetIs
<1>8. \A t, x : Still(app', t, x) <=> Still(b2, t, x) /\ t # "op"
  BY ONLY <1>2, <1>5, ForgetIs
<1>9. /\ Kept(app', app, {"page", "views", "token", "source", "grant", "issue", "prompt"})
      /\ app'.page = (IF app.closing THEN app.page ELSE "newpin")
      /\ app'.views = ((app.views \ {"step", "entry", "codepin", "codeshow", "sysrec"}) \ {"key", "pin"}) \cup {"setup"}
      /\ app'.token = "recovery" /\ app'.source = "system" /\ app'.grant = TRUE
      /\ app'.issue = FALSE /\ app'.prompt = "none"
  BY ONLY <1>3, <1>5, <1>7 DEF Kept, Views, Apps
<1>10. \A t, x : Still(app', t, x) <=> Still(app, t, x) /\ x \notin {"step", "entry", "codepin", "codeshow", "sysrec", "key", "pin", "setup"} /\ t # "op"
  BY ONLY <1>4, <1>6, <1>8 DEF Views
<1> USE <1>1, <1>7, <1>9, <1>10 DEF RoutesInv, Kept, MovesTo, MovesBoth, In, Op, Rests, Shows, Offers, Resuming, Locking,
       Busy, Entering, Moving, NoRights, NoView, Onboarding, Views, Whats, Tasks, Holders, Pcs,
       Free, Opened, ChatFree, AuthCall
<1>11. RoutesType'
  BY DEF RoutesType
<1>12. InOrder'
  BY DEF InOrder
<1>13. OneView' /\ HeldViews'
  BY DEF OneView, HeldViews
<1>14. HeldAtWork'
  BY DEF HeldAtWork
<1>15. OldHoldNothing' /\ SessionFlags' /\ SessionViews' /\ Generations' /\ Handovers'
  BY DEF OldHoldNothing, SessionFlags, SessionViews, Generations, Handovers, HeldViews
<1>16. SessionShown' /\ Sealing' /\ Sealed' /\ OpHolds' /\ OpAuth'
  BY DEF SessionShown, Sealing, Sealed, OpHolds, OpAuth, HeldViews, SessionViews
<1>17. OpFront' /\ Rights' /\ OpenIs' /\ EntersOpen'
  BY DEF OpFront, Rights, OpenIs, EntersOpen, OpAuth, HeldViews, OneView
<1>18. Registered' /\ FirstRun' /\ PageIs'
  BY DEF Registered, FirstRun, PageIs, Sealing
<1> QED
  BY ONLY <1>11, <1>12, <1>13, <1>14, <1>15, <1>16, <1>17, <1>18

\* CancelRecovery: no coroutine moves, the application changes by Moved,
\* LockAccess, ShowPin, CancelNative.
LEMMA RecoveryCancelledSafe ==
  ASSUME RoutesInv, left' \in Lefts,
         (("sysrec" \in app.views \/ "entry" \in app.views) \/ app.token = "recovery") /\ (app.token = "recovery" => Rests("op")),
         app' = CancelNative(ShowPin(LockAccess(Moved(app, "epoch")))),
         UNCHANGED task
  PROVE  RoutesInv'
<1>1. app \in Apps /\ task \in Taskings
  BY DEF RoutesInv, RoutesType
<1> DEFINE b1 == Moved(app, "epoch")
           b2 == LockAccess(b1)
           b3 == ShowPin(b2)
<1>2. app' = CancelNative(b3)
  OBVIOUS
<1> HIDE DEF b1, b2, b3
<1>3. /\ b1 \in Apps
      /\ Kept(b1, app, {})
  BY ONLY <1>1, MovedIs DEF b1
<1>4. \A t, x : Still(b1, t, x) <=> Still(app, t, x) /\ x # "epoch"
  BY ONLY <1>1, MovedIs DEF b1
<1>5. /\ b2 \in Apps
      /\ Kept(b2, b1, {"open", "loose", "pending", "replacing", "grant", "issue"})
      /\ b2.open = FALSE /\ b2.loose = FALSE /\ b2.pending = FALSE /\ b2.replacing = FALSE
      /\ b2.grant = FALSE /\ b2.issue = FALSE
  BY ONLY <1>3, LockAccessIs DEF b2
<1>6. \A t, x : Still(b2, t, x) <=> Still(b1, t, x) /\ x # "auth"
  BY ONLY <1>3, LockAccessIs DEF b2
<1>7. /\ b3 \in Apps
      /\ Kept(b3, b2, {"page", "views", "token", "dialog", "session", "security", "deferred", "chats", "relocked", "issue"})
      /\ b3.page = (IF b2.closing THEN b2.page ELSE "pin") /\ b3.views = {"pin"}
      /\ b3.token = "none" /\ b3.dialog = FALSE /\ b3.session = FALSE /\ b3.security = FALSE
      /\ b3.deferred = FALSE /\ b3.chats = FALSE /\ b3.relocked = FALSE /\ b3.issue = FALSE
  BY ONLY <1>5, ShowPinIs DEF b3
<1>8. \A t, x : Still(b3, t, x) <=> Still(b2, t, x) /\ x \notin Views \cup {"gen", "workspace"}
  BY ONLY <1>5, ShowPinIs DEF b3
<1>9. /\ app' \in Apps
      /\ Kept(app', b3, {"replacing", "grant", "issue", "prompt"})
      /\ app'.replacing = FALSE /\ app'.grant = FALSE /\ app'.issue = FALSE
      /\ app'.prompt = (IF b3.prompt = "shown" THEN "cancelled" ELSE b3.prompt)
  BY ONLY <1>2, <1>7, CancelNativeIs
<1>10. \A t, x : Still(app', t, x) <=> Still(b3, t, x) /\ x # "auth"
  BY ONLY <1>2, <1>7, CancelNativeIs
<1>11. /\ Kept(app', app, {"page", "views", "token", "dialog", "session", "security", "deferred", "chats", "open", "loose", "relocked", "pending", "replacing", "grant", "issue", "prompt"})
      /\ app'.page = (IF app.closing THEN app.page ELSE "pin") /\ app'.views = {"pin"}
      /\ app'.token = "none" /\ app'.dialog = FALSE /\ app'.session = FALSE
      /\ app'.security = FALSE /\ app'.deferred = FALSE /\ app'.chats = FALSE
      /\ app'.open = FALSE /\ app'.loose = FALSE /\ app'.relocked = FALSE
      /\ app'.pending = FALSE /\ app'.replacing = FALSE /\ app'.grant = FALSE
      /\ app'.issue = FALSE
      /\ app'.prompt = (IF app.prompt = "shown" THEN "cancelled" ELSE app.prompt)
  BY ONLY <1>3, <1>5, <1>7, <1>9 DEF Kept, Views, Apps
<1>12. \A t, x : Still(app', t, x) <=> Still(app, t, x) /\ x \notin Views \cup {"epoch", "auth", "gen", "workspace"}
  BY ONLY <1>4, <1>6, <1>8, <1>10 DEF Views
<1> USE <1>1, <1>9, <1>11, <1>12 DEF RoutesInv, Kept, MovesTo, MovesBoth, In, Op, Rests, Shows, Offers, Resuming, Locking,
       Busy, Entering, Moving, NoRights, NoView, Onboarding, Views, Whats, Tasks, Holders, Pcs,
       Free, Opened, ChatFree, AuthCall
<1>13. RoutesType'
  BY DEF RoutesType
<1>14. InOrder'
  BY DEF InOrder
<1>15. OneView' /\ HeldViews'
  BY DEF OneView, HeldViews
<1>16. HeldAtWork'
  BY DEF HeldAtWork
<1>17. OldHoldNothing' /\ SessionFlags' /\ SessionViews' /\ Generations' /\ Handovers'
  BY DEF OldHoldNothing, SessionFlags, SessionViews, Generations, Handovers
<1>18. SessionShown' /\ Sealing' /\ Sealed' /\ OpHolds' /\ OpAuth'
  BY DEF SessionShown, Sealing, Sealed, OpHolds, OpAuth, OneView, HeldViews
<1>19. OpFront' /\ Rights' /\ OpenIs' /\ EntersOpen'
  BY DEF OpFront, Rights, OpenIs, EntersOpen
<1>20. Registered' /\ FirstRun' /\ PageIs'
  BY DEF Registered, FirstRun, PageIs, Sealing
<1> QED
  BY ONLY <1>13, <1>14, <1>15, <1>16, <1>17, <1>18, <1>19, <1>20

\* ConfirmRecovery: the operation goes on at "replace" of "newpin", the
\* application changes in its captures at most.
LEMMA NewPinBeginsSafe ==
  ASSUME RoutesInv, left' \in Lefts,
         "setup" \in app.views /\ app.token = "recovery" /\ ~Busy /\ Free /\ Rests("op"),
         app' = Capture(app, "op", {"auth", "epoch", "seal", "setup"}),
         MovesTo("op", "newpin", "replace")
  PROVE  RoutesInv'
<1>1. app \in Apps /\ task \in Taskings
  BY DEF RoutesInv, RoutesType
<1>2. app' = Capture(app, "op", {"auth", "epoch", "seal", "setup"})
  OBVIOUS
<1>3. "op" \in Holders /\ {"auth", "epoch", "seal", "setup"} \in SUBSET Whats
  BY DEF Holders, Tasks, Whats, Views
<1>4. /\ app' \in Apps
      /\ Kept(app', app, {})
  BY ONLY <1>2, <1>1, <1>3, CaptureIs
<1>5. \A t, x : Still(app', t, x) <=> (Still(app, t, x)) \/ (t = "op" /\ x \in {"auth", "epoch", "seal", "setup"})
  BY ONLY <1>2, <1>1, <1>3, CaptureIs
<1> USE <1>1, <1>4, <1>5 DEF RoutesInv, Kept, MovesTo, MovesBoth, In, Op, Rests, Shows, Offers, Resuming, Locking,
       Busy, Entering, Moving, NoRights, NoView, Onboarding, Views, Whats, Tasks, Holders, Pcs,
       Free, Opened, ChatFree, AuthCall
<1>6. RoutesType'
  BY DEF RoutesType
<1>7. InOrder'
  BY DEF InOrder
<1>8. OneView' /\ HeldViews'
  BY DEF OneView, HeldViews
<1>9. HeldAtWork'
  BY DEF HeldAtWork
<1>10. OldHoldNothing' /\ SessionFlags' /\ SessionViews' /\ Generations' /\ Handovers'
  BY DEF OldHoldNothing, SessionFlags, SessionViews, Generations, Handovers
<1>11. SessionShown' /\ Sealing' /\ Sealed' /\ OpHolds' /\ OpAuth'
  BY DEF SessionShown, Sealing, Sealed, OpHolds, OpAuth, SessionViews
<1>12. OpFront' /\ Rights' /\ OpenIs' /\ EntersOpen'
  BY DEF OpFront, Rights, OpenIs, EntersOpen
<1>13. Registered' /\ FirstRun' /\ PageIs'
  BY DEF Registered, FirstRun, PageIs
<1> QED
  BY ONLY <1>6, <1>7, <1>8, <1>9, <1>10, <1>11, <1>12, <1>13

\* ConfirmRecovery: no coroutine moves, the application changes by
\* EntryFailed.
LEMMA NewPinBusyCodeSafe ==
  ASSUME RoutesInv, left' \in Lefts,
         "setup" \in app.views /\ app.token = "recovery" /\ Busy /\ Free /\ Rests("op") /\ app.source = "code",
         app' = EntryFailed(app),
         UNCHANGED task
  PROVE  RoutesInv'
<1>1. app \in Apps /\ task \in Taskings
  BY DEF RoutesInv, RoutesType
<1>2. app' = EntryFailed(app)
  OBVIOUS
<1>3. /\ app' \in Apps
      /\ Kept(app', app, {"page", "views", "token", "session", "security", "deferred", "chats", "open", "loose", "pending", "replacing", "grant", "issue"})
      /\ app'.page = (IF app.closing THEN app.page ELSE "error") /\ app'.views = {}
      /\ app'.token = "none" /\ app'.session = FALSE /\ app'.security = FALSE
      /\ app'.deferred = FALSE /\ app'.chats = FALSE /\ app'.open = FALSE
      /\ app'.loose = FALSE /\ app'.pending = FALSE /\ app'.replacing = FALSE
      /\ app'.grant = FALSE /\ app'.issue = FALSE
  BY ONLY <1>2, <1>1, EntryFailedIs
<1>4. \A t, x : Still(app', t, x) <=> Still(app, t, x) /\ x \notin Views \cup {"auth", "gen", "workspace"}
  BY ONLY <1>2, <1>1, EntryFailedIs
<1> USE <1>1, <1>3, <1>4 DEF RoutesInv, Kept, MovesTo, MovesBoth, In, Op, Rests, Shows, Offers, Resuming, Locking,
       Busy, Entering, Moving, NoRights, NoView, Onboarding, Views, Whats, Tasks, Holders, Pcs,
       Free, Opened, ChatFree, AuthCall
<1>5. RoutesType'
  BY DEF RoutesType
<1>6. InOrder'
  BY DEF InOrder
<1>7. OneView' /\ HeldViews'
  BY DEF OneView, HeldViews
<1>8. HeldAtWork'
  BY DEF HeldAtWork
<1>9. OldHoldNothing' /\ SessionFlags' /\ SessionViews' /\ Generations' /\ Handovers'
  BY DEF OldHoldNothing, SessionFlags, SessionViews, Generations, Handovers
<1>10. SessionShown' /\ Sealing' /\ Sealed' /\ OpHolds' /\ OpAuth'
  BY DEF SessionShown, Sealing, Sealed, OpHolds, OpAuth
<1>11. OpFront' /\ Rights' /\ OpenIs' /\ EntersOpen'
  BY DEF OpFront, Rights, OpenIs, EntersOpen
<1>12. Registered' /\ FirstRun' /\ PageIs'
  BY DEF Registered, FirstRun, PageIs
<1> QED
  BY ONLY <1>5, <1>6, <1>7, <1>8, <1>9, <1>10, <1>11, <1>12

\* ConfirmRecovery: no coroutine moves, the application changes by
\* ShowRecovery.
LEMMA NewPinBusySafe ==
  ASSUME RoutesInv, left' \in Lefts,
         "setup" \in app.views /\ app.token = "recovery" /\ Busy /\ Free /\ Rests("op") /\ ~(app.source = "code"),
         app' = ShowRecovery(app),
         UNCHANGED task
  PROVE  RoutesInv'
<1>1. app \in Apps /\ task \in Taskings
  BY DEF RoutesInv, RoutesType
<1>2. app' = ShowRecovery(app)
  OBVIOUS
<1>3. /\ app' \in Apps
      /\ Kept(app', app, {"page", "views", "token", "session", "security", "deferred", "chats", "issue"})
      /\ app'.page = (IF app.closing THEN app.page ELSE "sysrec") /\ app'.views = {"sysrec"}
      /\ app'.token = "none" /\ app'.session = FALSE /\ app'.security = FALSE
      /\ app'.deferred = FALSE /\ app'.chats = FALSE /\ app'.issue = FALSE
  BY ONLY <1>2, <1>1, ShowRecoveryIs
<1>4. \A t, x : Still(app', t, x) <=> Still(app, t, x) /\ x \notin Views \cup {"gen", "workspace"}
  BY ONLY <1>2, <1>1, ShowRecoveryIs
<1> USE <1>1, <1>3, <1>4 DEF RoutesInv, Kept, MovesTo, MovesBoth, In, Op, Rests, Shows, Offers, Resuming, Locking,
       Busy, Entering, Moving, NoRights, NoView, Onboarding, Views, Whats, Tasks, Holders, Pcs,
       Free, Opened, ChatFree, AuthCall
<1>5. RoutesType'
  BY DEF RoutesType
<1>6. InOrder'
  BY DEF InOrder
<1>7. OneView' /\ HeldViews'
  BY DEF OneView, HeldViews
<1>8. HeldAtWork'
  BY DEF HeldAtWork
<1>9. OldHoldNothing' /\ SessionFlags' /\ SessionViews' /\ Generations' /\ Handovers'
  BY DEF OldHoldNothing, SessionFlags, SessionViews, Generations, Handovers
<1>10. SessionShown' /\ Sealing' /\ Sealed' /\ OpHolds' /\ OpAuth'
  BY DEF SessionShown, Sealing, Sealed, OpHolds, OpAuth, HeldAtWork
<1>11. OpFront' /\ Rights' /\ OpenIs' /\ EntersOpen'
  BY DEF OpFront, Rights, OpenIs, EntersOpen, OneView, SessionViews
<1>12. Registered' /\ FirstRun' /\ PageIs'
  BY DEF Registered, FirstRun, PageIs
<1> QED
  BY ONLY <1>5, <1>6, <1>7, <1>8, <1>9, <1>10, <1>11, <1>12

\* PinReplaced, RecoveryRead: the operation ends, the application changes by
\* LockAccess.
LEMMA NewPinFailsAloneSafe ==
  ASSUME RoutesInv, left' \in Lefts,
         \/ Op("newpin", {"replace"}) /\ ~(Still(app, "op", "epoch") /\ Still(app, "op", "setup"))
         \/ Op("newpin", {"read"}) /\ ~(Still(app, "op", "epoch") /\ Still(app, "op", "setup")),
         app' = Forget(LockAccess(app), "op"),
         MovesTo("op", "none", "idle")
  PROVE  RoutesInv'
<1>1. app \in Apps /\ task \in Taskings
  BY DEF RoutesInv, RoutesType
<1> DEFINE b1 == LockAccess(app)
<1>2. app' = Forget(b1, "op")
  OBVIOUS
<1> HIDE DEF b1
<1>3. /\ b1 \in Apps
      /\ Kept(b1, app, {"open", "loose", "pending", "replacing", "grant", "issue"})
      /\ b1.open = FALSE /\ b1.loose = FALSE /\ b1.pending = FALSE /\ b1.replacing = FALSE
      /\ b1.grant = FALSE /\ b1.issue = FALSE
  BY ONLY <1>1, LockAccessIs DEF b1
<1>4. \A t, x : Still(b1, t, x) <=> Still(app, t, x) /\ x # "auth"
  BY ONLY <1>1, LockAccessIs DEF b1
<1>5. /\ app' \in Apps
      /\ Kept(app', b1, {})
  BY ONLY <1>2, <1>3, ForgetIs
<1>6. \A t, x : Still(app', t, x) <=> Still(b1, t, x) /\ t # "op"
  BY ONLY <1>2, <1>3, ForgetIs
<1>7. /\ Kept(app', app, {"open", "loose", "pending", "replacing", "grant", "issue"})
      /\ app'.open = FALSE /\ app'.loose = FALSE /\ app'.pending = FALSE
      /\ app'.replacing = FALSE /\ app'.grant = FALSE /\ app'.issue = FALSE
  BY ONLY <1>3, <1>5 DEF Kept, Views, Apps
<1>8. \A t, x : Still(app', t, x) <=> Still(app, t, x) /\ x # "auth" /\ t # "op"
  BY ONLY <1>4, <1>6 DEF Views
<1> USE <1>1, <1>5, <1>7, <1>8 DEF RoutesInv, Kept, MovesTo, MovesBoth, In, Op, Rests, Shows, Offers, Resuming, Locking,
       Busy, Entering, Moving, NoRights, NoView, Onboarding, Views, Whats, Tasks, Holders, Pcs,
       Free, Opened, ChatFree, AuthCall
<1>9. RoutesType'
  BY DEF RoutesType
<1>10. InOrder'
  BY DEF InOrder
<1>11. OneView' /\ HeldViews'
  BY DEF OneView, HeldViews
<1>12. HeldAtWork'
  BY DEF HeldAtWork
<1>13. OldHoldNothing' /\ SessionFlags' /\ SessionViews' /\ Generations' /\ Handovers'
  BY DEF OldHoldNothing, SessionFlags, SessionViews, Generations, Handovers, OpHolds, Sealed
<1>14. SessionShown' /\ Sealing' /\ Sealed' /\ OpHolds' /\ OpAuth'
  BY DEF SessionShown, Sealing, Sealed, OpHolds, OpAuth
<1>15. OpFront' /\ Rights' /\ OpenIs' /\ EntersOpen'
  BY DEF OpFront, Rights, OpenIs, EntersOpen
<1>16. Registered' /\ FirstRun' /\ PageIs'
  BY DEF Registered, FirstRun, PageIs, OpHolds
<1> QED
  BY ONLY <1>9, <1>10, <1>11, <1>12, <1>13, <1>14, <1>15, <1>16

\* PinReplaced, RecoveryRead: the operation goes on at "ask" of "newpin", the
\* application changes by LockAccess.
LEMMA NewPinAsksSafe ==
  ASSUME RoutesInv, left' \in Lefts,
         \/ Op("newpin", {"replace"}) /\ Still(app, "op", "epoch") /\ Still(app, "op", "setup") /\ app.source = "code"
         \/ Op("newpin", {"read"}) /\ Still(app, "op", "epoch") /\ Still(app, "op", "setup") /\ app.source = "code",
         app' = LockAccess(app),
         MovesTo("op", "newpin", "ask")
  PROVE  RoutesInv'
<1>1. app \in Apps /\ task \in Taskings
  BY DEF RoutesInv, RoutesType
<1>2. app' = LockAccess(app)
  OBVIOUS
<1>3. /\ app' \in Apps
      /\ Kept(app', app, {"open", "loose", "pending", "replacing", "grant", "issue"})
      /\ app'.open = FALSE /\ app'.loose = FALSE /\ app'.pending = FALSE
      /\ app'.replacing = FALSE /\ app'.grant = FALSE /\ app'.issue = FALSE
  BY ONLY <1>2, <1>1, LockAccessIs
<1>4. \A t, x : Still(app', t, x) <=> Still(app, t, x) /\ x # "auth"
  BY ONLY <1>2, <1>1, LockAccessIs
<1> USE <1>1, <1>3, <1>4 DEF RoutesInv, Kept, MovesTo, MovesBoth, In, Op, Rests, Shows, Offers, Resuming, Locking,
       Busy, Entering, Moving, NoRights, NoView, Onboarding, Views, Whats, Tasks, Holders, Pcs,
       Free, Opened, ChatFree, AuthCall
<1>5. RoutesType'
  BY DEF RoutesType
<1>6. InOrder'
  BY DEF InOrder
<1>7. OneView' /\ HeldViews'
  BY DEF OneView, HeldViews
<1>8. HeldAtWork'
  BY DEF HeldAtWork
<1>9. OldHoldNothing' /\ SessionFlags' /\ SessionViews' /\ Generations' /\ Handovers'
  BY DEF OldHoldNothing, SessionFlags, SessionViews, Generations, Handovers, HeldViews
<1>10. SessionShown' /\ Sealing' /\ Sealed' /\ OpHolds' /\ OpAuth'
  BY DEF SessionShown, Sealing, Sealed, OpHolds, OpAuth, SessionViews, HeldViews
<1>11. OpFront' /\ Rights' /\ OpenIs' /\ EntersOpen'
  BY DEF OpFront, Rights, OpenIs, EntersOpen
<1>12. Registered' /\ FirstRun' /\ PageIs'
  BY DEF Registered, FirstRun, PageIs
<1> QED
  BY ONLY <1>5, <1>6, <1>7, <1>8, <1>9, <1>10, <1>11, <1>12

\* PinReplaced, RecoveryRead: the operation ends, the application changes by
\* LockAccess, ShowRecovery.
LEMMA NewPinFailsSafe ==
  ASSUME RoutesInv, left' \in Lefts,
         \/ Op("newpin", {"replace"}) /\ Still(app, "op", "epoch") /\ Still(app, "op", "setup") /\ ~(app.source = "code")
         \/ Op("newpin", {"read"}) /\ Still(app, "op", "epoch") /\ Still(app, "op", "setup") /\ ~(app.source = "code"),
         app' = Forget(ShowRecovery(LockAccess(app)), "op"),
         MovesTo("op", "none", "idle")
  PROVE  RoutesInv'
<1>1. app \in Apps /\ task \in Taskings
  BY DEF RoutesInv, RoutesType
<1> DEFINE b1 == LockAccess(app)
           b2 == ShowRecovery(b1)
<1>2. app' = Forget(b2, "op")
  OBVIOUS
<1> HIDE DEF b1, b2
<1>3. /\ b1 \in Apps
      /\ Kept(b1, app, {"open", "loose", "pending", "replacing", "grant", "issue"})
      /\ b1.open = FALSE /\ b1.loose = FALSE /\ b1.pending = FALSE /\ b1.replacing = FALSE
      /\ b1.grant = FALSE /\ b1.issue = FALSE
  BY ONLY <1>1, LockAccessIs DEF b1
<1>4. \A t, x : Still(b1, t, x) <=> Still(app, t, x) /\ x # "auth"
  BY ONLY <1>1, LockAccessIs DEF b1
<1>5. /\ b2 \in Apps
      /\ Kept(b2, b1, {"page", "views", "token", "session", "security", "deferred", "chats", "issue"})
      /\ b2.page = (IF b1.closing THEN b1.page ELSE "sysrec") /\ b2.views = {"sysrec"}
      /\ b2.token = "none" /\ b2.session = FALSE /\ b2.security = FALSE
      /\ b2.deferred = FALSE /\ b2.chats = FALSE /\ b2.issue = FALSE
  BY ONLY <1>3, ShowRecoveryIs DEF b2
<1>6. \A t, x : Still(b2, t, x) <=> Still(b1, t, x) /\ x \notin Views \cup {"gen", "workspace"}
  BY ONLY <1>3, ShowRecoveryIs DEF b2
<1>7. /\ app' \in Apps
      /\ Kept(app', b2, {})
  BY ONLY <1>2, <1>5, ForgetIs
<1>8. \A t, x : Still(app', t, x) <=> Still(b2, t, x) /\ t # "op"
  BY ONLY <1>2, <1>5, ForgetIs
<1>9. /\ Kept(app', app, {"page", "views", "token", "session", "security", "deferred", "chats", "open", "loose", "pending", "replacing", "grant", "issue"})
      /\ app'.page = (IF app.closing THEN app.page ELSE "sysrec") /\ app'.views = {"sysrec"}
      /\ app'.token = "none" /\ app'.session = FALSE /\ app'.security = FALSE
      /\ app'.deferred = FALSE /\ app'.chats = FALSE /\ app'.open = FALSE
      /\ app'.loose = FALSE /\ app'.pending = FALSE /\ app'.replacing = FALSE
      /\ app'.grant = FALSE /\ app'.issue = FALSE
  BY ONLY <1>3, <1>5, <1>7 DEF Kept, Views, Apps
<1>10. \A t, x : Still(app', t, x) <=> Still(app, t, x) /\ x \notin Views \cup {"auth", "gen", "workspace"} /\ t # "op"
  BY ONLY <1>4, <1>6, <1>8 DEF Views
<1> USE <1>1, <1>7, <1>9, <1>10 DEF RoutesInv, Kept, MovesTo, MovesBoth, In, Op, Rests, Shows, Offers, Resuming, Locking,
       Busy, Entering, Moving, NoRights, NoView, Onboarding, Views, Whats, Tasks, Holders, Pcs,
       Free, Opened, ChatFree, AuthCall
<1>11. RoutesType'
  BY DEF RoutesType
<1>12. InOrder'
  BY DEF InOrder
<1>13. OneView' /\ HeldViews'
  BY DEF OneView, HeldViews
<1>14. HeldAtWork'
  BY DEF HeldAtWork
<1>15. OldHoldNothing' /\ SessionFlags' /\ SessionViews' /\ Generations' /\ Handovers'
  BY DEF OldHoldNothing, SessionFlags, SessionViews, Generations, Handovers
<1>16. SessionShown' /\ Sealing' /\ Sealed' /\ OpHolds' /\ OpAuth'
  BY DEF SessionShown, Sealing, Sealed, OpHolds, OpAuth
<1>17. OpFront' /\ Rights' /\ OpenIs' /\ EntersOpen'
  BY DEF OpFront, Rights, OpenIs, EntersOpen
<1>18. Registered' /\ FirstRun' /\ PageIs'
  BY DEF Registered, FirstRun, PageIs, Sealing
<1> QED
  BY ONLY <1>11, <1>12, <1>13, <1>14, <1>15, <1>16, <1>17, <1>18

\* PinReplaced: the operation goes on at "read" of "newpin", the application
\* changes by GrantUsed.
LEMMA NewPinReadsSafe ==
  ASSUME RoutesInv, left' \in Lefts,
         Op("newpin", {"replace"}) /\ Still(app, "op", "auth") /\ app.grant,
         app' = GrantUsed(app),
         MovesTo("op", "newpin", "read")
  PROVE  RoutesInv'
<1>1. app \in Apps /\ task \in Taskings
  BY DEF RoutesInv, RoutesType
<1>2. app' = GrantUsed(app)
  OBVIOUS
<1>3. /\ app' \in Apps
      /\ Kept(app', app, {"open", "grant"})
      /\ app'.open = TRUE /\ app'.grant = FALSE
  BY ONLY <1>2, <1>1, GrantUsedIs
<1>4. \A t, x : Still(app', t, x) <=> Still(app, t, x)
  BY ONLY <1>2, <1>1, GrantUsedIs
<1>f. /\ Op("newpin", {"replace"}) /\ Still(app, "op", "auth") /\ app.grant = TRUE
      /\ left' \in Lefts /\ MovesTo("op", "newpin", "read")
  BY <1>1, Zenon DEF Apps, Opened, ChatFree
<1> USE DEF RoutesInv, Kept, MovesTo, MovesBoth, In, Op, Rests, Shows, Offers, Resuming, Locking,
       Busy, Entering, Moving, NoRights, NoView, Onboarding, Views, Whats, Tasks, Holders, Pcs,
       Free, Opened, ChatFree, AuthCall
<1>5. RoutesType'
  BY ONLY RoutesInv, <1>f, <1>1, <1>3, <1>4 DEF RoutesType
<1>6. InOrder'
  BY ONLY RoutesInv, <1>f, <1>1, <1>3, <1>4 DEF InOrder
<1>7. OneView' /\ HeldViews'
  BY ONLY RoutesInv, <1>f, <1>1, <1>3, <1>4 DEF OneView, HeldViews
<1>8. HeldAtWork'
  BY ONLY RoutesInv, <1>f, <1>1, <1>3, <1>4 DEF HeldAtWork
<1>9. OldHoldNothing' /\ SessionFlags' /\ SessionViews' /\ Generations' /\ Handovers'
  BY ONLY RoutesInv, <1>f, <1>1, <1>3, <1>4 DEF OldHoldNothing, SessionFlags, SessionViews,
        Generations, Handovers
<1>10. SessionShown' /\ Sealing' /\ Sealed' /\ OpHolds' /\ OpAuth'
  BY ONLY RoutesInv, <1>f, <1>1, <1>3, <1>4 DEF SessionShown, Sealing, Sealed, OpHolds, OpAuth,
        HeldViews, SessionViews
<1>11. OpFront' /\ Rights' /\ OpenIs' /\ EntersOpen'
  BY ONLY RoutesInv, <1>f, <1>1, <1>3, <1>4 DEF OpFront, Rights, OpenIs, EntersOpen
<1>12. Registered' /\ FirstRun' /\ PageIs'
  BY ONLY RoutesInv, <1>f, <1>1, <1>3, <1>4 DEF Registered, FirstRun, PageIs, Rights, OneView,
        SessionViews
<1> QED
  BY ONLY <1>5, <1>6, <1>7, <1>8, <1>9, <1>10, <1>11, <1>12

\* RecoveryRead: the operation goes on at "show" of "newpin", the application
\* changes by ActivatePresent, Moved.
LEMMA NewPinEntersSafe ==
  ASSUME RoutesInv, left' \in Lefts,
         Op("newpin", {"read"}) /\ Still(app, "op", "auth") /\ Still(app, "op", "epoch") /\ Still(app, "op", "setup"),
         app' = Capture(Moved(ActivatePresent(app), "workspace"), "op", {"gen", "workspace"}),
         MovesTo("op", "newpin", "show")
  PROVE  RoutesInv'
<1>1. app \in Apps /\ task \in Taskings
  BY DEF RoutesInv, RoutesType
<1> DEFINE b1 == ActivatePresent(app)
           b2 == Moved(b1, "workspace")
<1>2. app' = Capture(b2, "op", {"gen", "workspace"})
  OBVIOUS
<1> HIDE DEF b1, b2
<1>3. /\ b1 \in Apps
      /\ Kept(b1, app, {"views", "token", "session", "security", "deferred", "chats", "loose", "issue"})
      /\ b1.views = {} /\ b1.token = "none" /\ b1.session = TRUE /\ b1.security = FALSE
      /\ b1.deferred = FALSE /\ b1.chats = FALSE /\ b1.loose = FALSE /\ b1.issue = FALSE
  BY ONLY <1>1, ActivatePresentIs DEF b1
<1>4. \A t, x : Still(b1, t, x) <=> Still(app, t, x) /\ x \notin Views \cup {"gen", "workspace"}
  BY ONLY <1>1, ActivatePresentIs DEF b1
<1>5. /\ b2 \in Apps
      /\ Kept(b2, b1, {})
  BY ONLY <1>3, MovedIs DEF b2
<1>6. \A t, x : Still(b2, t, x) <=> Still(b1, t, x) /\ x # "workspace"
  BY ONLY <1>3, MovedIs DEF b2
<1>7. "op" \in Holders /\ {"gen", "workspace"} \in SUBSET Whats
  BY DEF Holders, Tasks, Whats, Views
<1>8. /\ app' \in Apps
      /\ Kept(app', b2, {})
  BY ONLY <1>2, <1>5, <1>7, CaptureIs
<1>9. \A t, x : Still(app', t, x) <=> (Still(b2, t, x)) \/ (t = "op" /\ x \in {"gen", "workspace"})
  BY ONLY <1>2, <1>5, <1>7, CaptureIs
<1>10. /\ Kept(app', app, {"views", "token", "session", "security", "deferred", "chats", "loose", "issue"})
      /\ app'.views = {} /\ app'.token = "none" /\ app'.session = TRUE
      /\ app'.security = FALSE /\ app'.deferred = FALSE /\ app'.chats = FALSE
      /\ app'.loose = FALSE /\ app'.issue = FALSE
  BY ONLY <1>3, <1>5, <1>8 DEF Kept, Views, Apps
<1>11. \A t, x : Still(app', t, x) <=> (Still(app, t, x) /\ x \notin Views \cup {"gen", "workspace"}) \/ (t = "op" /\ x \in {"gen", "workspace"})
  BY ONLY <1>4, <1>6, <1>9 DEF Views
<1> USE <1>1, <1>8, <1>10, <1>11 DEF RoutesInv, Kept, MovesTo, MovesBoth, In, Op, Rests, Shows, Offers, Resuming, Locking,
       Busy, Entering, Moving, NoRights, NoView, Onboarding, Views, Whats, Tasks, Holders, Pcs,
       Free, Opened, ChatFree, AuthCall
<1>12. RoutesType'
  BY DEF RoutesType
<1>13. InOrder'
  BY DEF InOrder
<1>14. OneView' /\ HeldViews'
  BY DEF OneView, HeldViews
<1>15. HeldAtWork'
  BY DEF HeldAtWork
<1>16. OldHoldNothing' /\ SessionFlags' /\ SessionViews' /\ Generations' /\ Handovers'
  BY DEF OldHoldNothing, SessionFlags, SessionViews, Generations, Handovers, EntersOpen
<1>17. SessionShown' /\ Sealing' /\ Sealed' /\ OpHolds' /\ OpAuth'
  BY DEF SessionShown, Sealing, Sealed, OpHolds, OpAuth
<1>18. OpFront' /\ Rights' /\ OpenIs' /\ EntersOpen'
  BY DEF OpFront, Rights, OpenIs, EntersOpen, Registered, HeldViews, OneView
<1>19. Registered' /\ FirstRun' /\ PageIs'
  BY DEF Registered, FirstRun, PageIs
<1> QED
  BY ONLY <1>12, <1>13, <1>14, <1>15, <1>16, <1>17, <1>18, <1>19

=============================================================================
