--------------------------- MODULE LocalProtection ---------------------------
(***************************************************************************)
(* The checks of the local protection (LocalProtectionChecks in            *)
(* src/platform_security/local_protection.py) with what feeds them: the    *)
(* seal of the application (app.py), the sleep evidence and the requested  *)
(* lock of the session watcher (linux_session.py) and the desktop.         *)
(*                                                                         *)
(* A check asks the desktop to lock or to sleep, and is CONFIRMED only     *)
(* when the ordinary handler of the desktop's signal closed the data, the  *)
(* PIN was shown, and the lock or the suspend really took place.  Signals  *)
(* of two buses, polls, answers and the user interleave.  Deadlines may    *)
(* pass at any time.  That the watcher tells a requested lock from older   *)
(* frames is LinuxSession!LockEvidence; here a frame carries the number    *)
(* of the request it follows.                                              *)
(***************************************************************************)
EXTENDS Integers, Sequences

CONSTANT Budgets    \* bounds of one behaviour, chosen at the start: checks asked
                    \* for ("tests"), PIN entries ("opens"), contexts changed
                    \* ("changes"), locks of the user ("locks"), screens covered
                    \* ("covers"), sleeps ("sleeps"), the application locked by
                    \* hand ("seals"), calls that fail and endings ("fails")

VARIABLES
    app,        \* session_generation, the data, the PIN view, _suspending
    checks,     \* the fields of LocalProtectionChecks and its coroutines
    watch,      \* contexts of the watcher, its sleep and its requested lock
    os,         \* the desktop
    desk, sys,  \* signals not yet consumed, per bus
    truth,      \* history: what really happened since the check was bound
    left        \* what is left of the budget

vars == <<app, checks, watch, os, desk, sys, truth, left>>

UNTESTED == "untested"
RUNNING == "running"
CONFIRMED == "confirmed"
PROBLEM == "problem"

None == [id |-> 0]
NoStart == [pc |-> "idle", fresh |-> FALSE, ctx |-> 0, session |-> 0, id |-> 0]
NoRequest == [id |-> 0, ctx |-> 0, ack |-> FALSE, active |-> FALSE, inactive |-> FALSE]
NoTruth == [locked |-> FALSE, unlocked |-> FALSE, sealed |-> FALSE, bare |-> FALSE, pin |-> FALSE]

Init ==
    /\ left \in Budgets
    /\ app = [gen |-> 1, open |-> FALSE, pin |-> TRUE, sealing |-> FALSE]
    /\ checks = [screen |-> UNTESTED, sleep |-> UNTESTED, trial |-> None, cycle |-> None,
                 seen |-> 1, seenSleep |-> 1, scr |-> NoStart, slp |-> NoStart, ids |-> 0,
                 closed |-> FALSE]
    /\ watch = [screen |-> 1, sleep |-> 1, last |-> 1, pending |-> FALSE, test |-> 0,
                gap |-> "none", req |-> NoRequest]
    /\ os = [screen |-> "clear", hint |-> FALSE, sleep |-> "awake", req |-> 0]
    /\ desk = <<>> /\ sys = <<>>
    /\ truth = [screen |-> NoTruth, sleep |-> NoTruth]

-----------------------------------------------------------------------------
(* The application.  AppLockState: revoked is ~open, sealed_pin adds the   *)
(* PIN view.                                                               *)

SealedPin(a) == ~a.open /\ a.pin

(* prepare_system_lock: the session's generation moves with every seal. *)
Sealed(a) == IF a.sealing THEN a
             ELSE [a EXCEPT !.gen = @ + 1, !.open = FALSE, !.pin = FALSE, !.sealing = TRUE]

(* The methods below work on the pair of the application and the checks:   *)
(* an emergency seals the application from inside a check.                 *)
FinishScreenKept(p, result) == [p EXCEPT !.c.screen = result, !.c.scr.fresh = FALSE]
FinishScreen(p, result) ==
    [p EXCEPT !.c.screen = result, !.c.trial = None, !.c.scr.fresh = FALSE]
FinishSleep(p, result) ==
    [p EXCEPT !.c.sleep = result, !.c.cycle = None, !.c.slp.fresh = FALSE]
Emergency(p) == [p EXCEPT !.a = Sealed(@)]

Running(p) == p.c.trial # None
ClosedNoted(p) == [p EXCEPT !.c.trial.pin = @ \/ ~p.a.open]
PinNoted(p) == [p EXCEPT !.c.trial.pin = @ \/ SealedPin(p.a)]

(* A readback may beat the ordinary callback, which gets a short grace. *)
ReactionPending(t) == ~t.receipt /\ t.locked /\ ~t.late

(* _complete_screen_if_ready *)
Complete(p0) ==
    IF ~Running(p0) THEN p0
    ELSE LET p == PinNoted(p0)
             t == p.c.trial
         IN  IF ~t.unlocked \/ ReactionPending(t) THEN p
             ELSE IF p.a.open /\ ~(t.receipt /\ t.pin) THEN Emergency(FinishScreen(p, PROBLEM))
             ELSE IF t.receipt /\ t.pin THEN FinishScreen(p, CONFIRMED)
             ELSE IF ~t.receipt THEN FinishScreen(p, UNTESTED)
             ELSE p

(* app_state_changed *)
StateChanged(p0) ==
    LET q == Complete(p0) IN
    IF q.c.cycle = None THEN q
    ELSE LET p == [q EXCEPT !.c.cycle.pin = @ \/ SealedPin(q.a)]
             c == p.c.cycle
         IN  CASE ~c.resumed -> p
               [] c.resumed /\ ~c.actual -> FinishSleep(p, UNTESTED)
               [] c.resumed /\ c.actual /\ (~c.receipt \/ (p.a.open /\ ~c.pin)) ->
                    Emergency(FinishSleep(p, PROBLEM))
               [] c.resumed /\ c.actual /\ c.receipt /\ c.pin -> FinishSleep(p, CONFIRMED)
               [] OTHER -> p

(* normal_reaction("screen"): the receipt of the ordinary handler, after   *)
(* its seal; "before" is the application as the handler found it.          *)
Presealed(p, ctx, before) ==
    LET c == p.c.cycle IN
    IF /\ before.open /\ c # None /\ c.id # 0 /\ ~c.started
       /\ ctx # 0 /\ ctx = p.c.seen /\ c.ctx = p.c.seenSleep
       /\ before.gen = c.session /\ ~p.a.open
    THEN [p EXCEPT !.c.cycle.pregen = p.a.gen, !.c.cycle.prectx = ctx,
                   !.c.cycle.pin = @ \/ SealedPin(p.a)]
    ELSE p
ScreenReaction(p0, ctx, before) ==
    LET p == Presealed(p0, ctx, before)
        t == p.c.trial
    IN  IF ~before.open \/ t = None THEN p
        ELSE IF ctx # t.ctx \/ ctx # p.c.seen \/ before.gen # t.session THEN p
        ELSE LET q == PinNoted([p EXCEPT !.c.trial.receipt = ~p.a.open])
             IN  Complete(IF t.locked /\ p.a.open THEN Emergency(FinishScreen(q, PROBLEM)) ELSE q)

FreshCycle(ctx, session) ==
    [id |-> 0, ctx |-> ctx, session |-> session, bound |-> "no", started |-> FALSE,
     receipt |-> FALSE, pin |-> FALSE, resumed |-> FALSE, actual |-> FALSE,
     pregen |-> 0, prectx |-> 0]

(* normal_reaction("sleep"): an ordinary sleep opens a cycle of its own. *)
SleepReaction(p, ctx, before) ==
    LET old == p.c.cycle
        mine == \/ /\ before.open /\ old.session = before.gen
                \/ /\ ~before.open /\ old.pregen = before.gen
                   /\ old.prectx # 0 /\ old.prectx = p.c.seen /\ ~p.a.open
        c == IF old = None THEN FreshCycle(ctx, before.gen) ELSE old
    IN  IF \/ ctx = 0 \/ ctx # p.c.seenSleep
           \/ (old = None /\ ~before.open)
           \/ (old # None /\ (old.ctx # ctx \/ ~mine))
        THEN p
        ELSE LET q == [p EXCEPT !.c.sleep = RUNNING,
                                !.c.cycle = [c EXCEPT !.started = TRUE, !.receipt = ~p.a.open,
                                                      !.pin = @ \/ SealedPin(p.a)]]
             IN  IF p.a.open THEN Emergency(q) ELSE q

(* observe_screen_transition and observe_sleep_resume *)
OfThisTest(t, id) == id = t.id
ScreenTransition(p, ctx, locked, id) ==
    LET t == p.c.trial IN
    IF t = None THEN p
    ELSE IF ctx # t.ctx \/ ctx # p.c.seen \/ ~OfThisTest(t, id) THEN p
    ELSE Complete([p EXCEPT !.c.trial.locked = @ \/ locked,
                            !.c.trial.unlocked = @ \/ (~locked /\ t.locked)])
SleepResume(p, ctx, actual, id) ==
    LET c == p.c.cycle IN
    IF c = None THEN p
    ELSE IF ctx # c.ctx \/ ctx # p.c.seenSleep \/ ~OfThisTest(c, id) \/ ~c.started THEN p
    ELSE StateChanged([p EXCEPT !.c.cycle.resumed = TRUE, !.c.cycle.actual = actual])

(* update_observers: a context that changes ends the check bound to it;    *)
(* a start that has bound nothing yet expects it.                          *)
Observed(p, screen, sleep) ==
    LET q == IF screen = p.c.seen THEN p
             ELSE LET dropped == IF p.c.cycle # None /\ ~p.c.cycle.started
                                 THEN [p EXCEPT !.c.cycle.pregen = 0, !.c.cycle.prectx = 0,
                                                !.c.cycle.pin = FALSE]
                                 ELSE p
                      ended == IF p.c.scr.pc # "idle" /\ p.c.trial = None THEN dropped
                               ELSE FinishScreen(dropped, UNTESTED)
                  IN  [ended EXCEPT !.c.seen = screen]
    IN  IF sleep = q.c.seenSleep THEN q
        ELSE LET ended == IF q.c.slp.pc # "idle" /\ q.c.cycle = None THEN q
                          ELSE FinishSleep(q, UNTESTED)
             IN  [ended EXCEPT !.c.seenSleep = sleep]

-----------------------------------------------------------------------------
(* History of a check, from the moment it is bound.                        *)

Now == [a |-> app, c |-> checks]

(* What this step adds to the truth of both checks: the ordinary handler   *)
(* sealed open data ("sealed"), the desktop was locked or suspended with   *)
(* the data closed by then, or bare.                                       *)
Note(t, kind, happened) == [t EXCEPT ![kind] = @ \/ happened]
Known(p) == [m \in {"screen", "sleep"} |->
                LET t == IF m = "screen" /\ checks.trial = None /\ p.c.trial # None THEN NoTruth
                         ELSE IF m = "sleep" /\ checks.cycle = None /\ p.c.cycle # None
                              THEN NoTruth
                         ELSE truth[m]
                IN  Note(t, "pin", SealedPin(p.a))]
Apply(p) == app' = p.a /\ checks' = p.c
Do(p) == Apply(p) /\ truth' = Known(p)

(* The ordinary handler ran with the data as "app" and left p. *)
Handled(p) ==
    /\ Apply(p)
    /\ truth' = [m \in {"screen", "sleep"} |->
                    Note(Known(p)[m], "sealed", app.open /\ ~p.a.open)]

Spend(kind) == left[kind] > 0 /\ left' = [left EXCEPT ![kind] = @ - 1]
TestRunning == \/ checks.scr.pc # "idle" \/ checks.trial # None
               \/ checks.slp.pc \in {"prepare", "bound"} \/ checks.cycle # None

-----------------------------------------------------------------------------
(* The user and the application. *)

UserOpens ==
    /\ app.pin /\ os.screen = "clear" /\ ~checks.closed /\ Spend("opens")
    /\ app' = [app EXCEPT !.gen = @ + 1, !.open = TRUE, !.pin = FALSE]
    /\ UNCHANGED <<checks, watch, os, desk, sys, truth>>

(* _finish_session_seal shows the PIN, which moves the generation again    *)
(* (deactivate in _show_pin_login) and tells the checks.                   *)
PinShown ==
    /\ app.sealing /\ ~checks.closed
    /\ Do(StateChanged([Now EXCEPT !.a.gen = @ + 1, !.a.pin = TRUE, !.a.sealing = FALSE]))
    /\ UNCHANGED <<watch, os, desk, sys, left>>

(* A seal that no handler of the desktop made: it is no receipt. *)
UserSeals ==
    /\ app.open /\ ~checks.closed /\ Spend("seals")
    /\ app' = Sealed(app)
    /\ UNCHANGED <<checks, watch, os, desk, sys, truth>>

(* request_screen_lock_test and start_screen_test up to the first await. *)
AskScreen ==
    /\ app.open /\ ~TestRunning /\ ~checks.closed /\ Spend("tests")
    /\ checks' = [checks EXCEPT !.screen = RUNNING, !.ids = @ + 1,
                     !.scr = [pc |-> "prepare", fresh |-> TRUE, ctx |-> 0,
                              session |-> app.gen, id |-> checks.ids + 1]]
    /\ UNCHANGED <<app, watch, os, desk, sys, truth>>

AskSleep ==
    /\ app.open /\ ~TestRunning /\ ~checks.closed /\ Spend("tests")
    /\ checks' = [checks EXCEPT !.sleep = RUNNING, !.ids = @ + 1,
                     !.slp = [pc |-> "prepare", fresh |-> TRUE, ctx |-> 0,
                              session |-> app.gen, id |-> checks.ids + 1]]
    /\ UNCHANGED <<app, watch, os, desk, sys, truth>>

(* The profile's deletion cancels both checks and closes the data for good. *)
DeletionBegins ==
    /\ app.open /\ ~checks.closed /\ Spend("fails")
    /\ LET p == IF checks.screen = PROBLEM THEN [Now EXCEPT !.c.scr.fresh = FALSE]
                ELSE FinishScreen(Now, UNTESTED)
           q == IF checks.sleep = PROBLEM THEN [p EXCEPT !.c.slp.fresh = FALSE]
                ELSE FinishSleep(p, UNTESTED)
       IN  Do([q EXCEPT !.a = Sealed(@), !.c.closed = TRUE])
    /\ UNCHANGED <<watch, os, desk, sys>>

(* aclose *)
Close ==
    /\ ~checks.closed /\ Spend("fails")
    /\ checks' = [checks EXCEPT !.closed = TRUE, !.screen = UNTESTED, !.sleep = UNTESTED,
                     !.trial = None, !.cycle = None, !.seen = 0, !.seenSleep = 0,
                     !.scr = NoStart, !.slp = NoStart]
    /\ UNCHANGED <<app, watch, os, desk, sys, truth>>

-----------------------------------------------------------------------------
(* start_screen_test after each of its awaits. *)

ScreenPrepared ==
    /\ checks.scr.pc = "prepare" /\ checks.scr.fresh /\ watch.screen # 0
    /\ Do(Observed([Now EXCEPT !.c.scr.pc = "read", !.c.scr.ctx = watch.screen],
                   watch.screen, checks.seenSleep))
    /\ UNCHANGED <<watch, os, desk, sys, left>>

(* read_screen_state: what the desktop proves about the screen. *)
Reading(ctx) ==
    LET r == watch.req
        active == os.screen # "clear"
        mine == r.ctx = ctx /\ r.ack /\ r.active /\ ~r.inactive
    IN  CASE active /\ (mine \/ (os.hint /\ r = NoRequest)) -> "locked"
          [] ~active /\ ~os.hint -> "clear"
          [] OTHER -> "unclear"

(* The trial is bound, and the watcher forgets an earlier request. *)
TrialBound ==
    /\ checks.scr.pc = "read" /\ checks.scr.fresh
    /\ LET s == checks.scr
           ok == /\ checks.seen = s.ctx /\ watch.screen = s.ctx /\ Reading(s.ctx) = "clear"
                 /\ app.open /\ app.gen = s.session
       IN  IF ok
           THEN /\ Do([Now EXCEPT !.c.trial = [id |-> s.id, ctx |-> s.ctx, session |-> s.session,
                                     receipt |-> FALSE, locked |-> FALSE, late |-> FALSE,
                                     unclear |-> FALSE, unlocked |-> FALSE, pin |-> FALSE,
                                     done |-> FALSE],
                                  !.c.scr.pc = "request"])
                /\ watch' = [watch EXCEPT !.req = NoRequest]
           ELSE /\ watch.screen = s.ctx
                /\ Do([FinishScreen(Now, UNTESTED) EXCEPT !.c.scr = NoStart])
                /\ UNCHANGED watch
    /\ UNCHANGED <<os, desk, sys, left>>

(* request_screen_lock: the screen is read again, then the screen saver    *)
(* locks; its answer precedes its frame on the bus.                        *)
LockSent ==
    /\ checks.scr.pc = "request" /\ checks.scr.fresh
    /\ watch.screen = checks.scr.ctx /\ Reading(watch.screen) = "clear"
    /\ watch' = [watch EXCEPT !.req = [NoRequest EXCEPT !.id = checks.scr.id, !.ctx = watch.screen]]
    /\ \E hint \in BOOLEAN :
         /\ os' = [os EXCEPT !.screen = "locked", !.hint = hint, !.req = checks.scr.id]
         /\ sys' = IF hint THEN Append(sys, [kind |-> "hint", after |-> 0]) ELSE sys
    /\ desk' = Append(desk, [kind |-> "active", id |-> checks.scr.id])
    /\ checks' = [checks EXCEPT !.scr.pc = "reply"]
    /\ truth' = [truth EXCEPT !["screen"].locked = TRUE]
    /\ UNCHANGED <<app, left>>

(* What the requested lock proves by now is told to the checks. *)
Told(p, r) ==
    IF r.id = 0 \/ r.ctx # watch.screen \/ ~r.ack \/ ~r.active THEN p
    ELSE LET q == ScreenTransition(p, watch.screen, TRUE, r.id)
         IN  IF r.inactive THEN ScreenTransition(q, watch.screen, FALSE, r.id) ELSE q

LockAnswered ==
    /\ checks.scr.pc = "reply" /\ checks.scr.fresh
    /\ watch.screen = checks.scr.ctx /\ watch.req.id = checks.scr.id
    /\ LET r == [watch.req EXCEPT !.ack = TRUE]
           told == Told(Now, r)
           done == IF told.c.trial = None THEN told ELSE [told EXCEPT !.c.trial.done = TRUE]
       IN  /\ watch' = [watch EXCEPT !.req = r]
           /\ Do([StateChanged(done) EXCEPT !.c.scr = NoStart])
    /\ UNCHANGED <<os, desk, sys, left>>

(* The coroutine was cancelled, or a call failed or timed out. *)
ScreenStartFails ==
    /\ checks.scr.pc # "idle"
    /\ LET s == checks.scr
           moved == \/ (s.ctx # 0 /\ (watch.screen # s.ctx \/ checks.seen # s.ctx))
                    \/ (s.ctx = 0 /\ watch.screen = 0)
           locked == s.pc = "request" /\ Reading(watch.screen) # "clear"
           cut == s.pc = "reply" /\ watch.req.id # s.id
           quiet == ~s.fresh \/ (s.ctx # 0 /\ checks.seen # s.ctx) \/ checks.screen = PROBLEM
           ended == IF quiet THEN Now ELSE FinishScreen(Now, UNTESTED)
       IN  /\ IF ~s.fresh \/ moved \/ locked \/ cut THEN UNCHANGED left ELSE Spend("fails")
           /\ Do([ended EXCEPT !.c.scr = NoStart])
    /\ UNCHANGED <<watch, os, desk, sys>>

-----------------------------------------------------------------------------
(* _monitor_screen *)

OverdueAtOnce(t) == TRUE
Overdue(t) == t.receipt \/ t.late
Poll ==
    /\ checks.trial # None
    /\ LET t == checks.trial
           reading == Reading(t.ctx)
           seen == [Now EXCEPT !.c.trial.locked = TRUE]
       IN  CASE t.ctx # checks.seen \/ t.ctx # watch.screen -> Do(FinishScreen(Now, UNTESTED))
             [] t.ctx = watch.screen /\ reading = "locked" ->
                  Do(IF app.open /\ Overdue(t)
                     THEN Emergency(FinishScreen(seen, PROBLEM)) ELSE seen)
             [] t.ctx = watch.screen /\ reading = "unclear" ->
                  Do([Now EXCEPT !.c.trial.unclear = TRUE])
             [] t.ctx = watch.screen /\ reading = "clear" /\ t.locked ->
                  Do(Complete([Now EXCEPT !.c.trial.unlocked = TRUE]))
             [] OTHER -> /\ t.unclear /\ t.done
                         /\ Do(FinishScreen(Now, UNTESTED))
    /\ UNCHANGED <<watch, os, desk, sys, left>>

(* The reaction_grace after the proven lock has passed. *)
GraceEnds ==
    /\ checks.trial # None /\ checks.trial.locked /\ ~checks.trial.late
    /\ checks' = [checks EXCEPT !.trial.late = TRUE]
    /\ truth' = [truth EXCEPT !["screen"].bare = @ \/ app.open]
    /\ UNCHANGED <<app, watch, os, desk, sys, left>>

(* A deadline of the trial passes, or reading the screen fails. *)
TrialExpires ==
    /\ checks.trial # None
    /\ Do(FinishScreen(Now, UNTESTED))
    /\ UNCHANGED <<watch, os, desk, sys, left>>

-----------------------------------------------------------------------------
(* start_sleep_test and request_sleep. *)

(* A session that is no longer open ends the start without a result. *)
SleepBound ==
    /\ checks.slp.pc = "prepare" /\ checks.slp.fresh /\ watch.sleep # 0
    /\ IF app.open /\ app.gen = checks.slp.session
       THEN LET p == Observed([Now EXCEPT !.c.slp.ctx = watch.sleep], checks.seen, watch.sleep)
            IN  Do([p EXCEPT !.c.slp.pc = "bound", !.c.sleep = RUNNING,
                             !.c.cycle = [FreshCycle(watch.sleep, checks.slp.session)
                                          EXCEPT !.id = checks.slp.id, !.bound = "bound"]])
       ELSE Do([Now EXCEPT !.c.slp = NoStart])
    /\ UNCHANGED <<watch, os, desk, sys, left>>

(* logind's last answer of the validation is the barrier: signals sent     *)
(* after it may belong to the test.  Then Suspend is called.               *)
SleepAsked(from, to) ==
    /\ checks.slp.pc = "bound" /\ checks.slp.fresh
    /\ checks.cycle # None /\ checks.cycle.bound = from /\ checks.cycle.ctx = watch.sleep
    /\ checks' = [checks EXCEPT !.cycle.bound = to]
    /\ UNCHANGED <<app, watch, os, desk, sys, truth, left>>
SleepBarrier == SleepAsked("bound", "barrier")
SleepIssued == SleepAsked("barrier", "issued")

(* start returns when it finds the cycle started; the call goes on alone.  *)
SleepNoticed ==
    /\ checks.slp.pc = "bound" /\ (~checks.slp.fresh \/ (checks.cycle # None /\ checks.cycle.started))
    /\ checks' = [checks EXCEPT !.slp = NoStart]
    /\ UNCHANGED <<app, watch, os, desk, sys, truth, left>>

(* Suspend answers without an error. *)
SleepAnswered ==
    /\ checks.slp.pc = "bound" /\ checks.cycle # None /\ checks.cycle.bound = "issued"
    /\ checks' = [checks EXCEPT !.slp = NoStart]
    /\ UNCHANGED <<app, watch, os, desk, sys, truth, left>>

(* A call fails, the request's deadline passes, or the start was cancelled. *)
SleepStartFails ==
    /\ checks.slp.pc # "idle"
    /\ LET s == checks.slp
           moved == (s.ctx # 0 /\ watch.sleep # s.ctx) \/ watch.sleep = 0
           unheard == s.pc = "bound" /\ checks.cycle # None /\ ~checks.cycle.started
           quiet == ~s.fresh \/ (s.ctx # 0 /\ s.ctx # checks.seenSleep) \/ checks.sleep = PROBLEM
           ended == IF quiet THEN Now ELSE FinishSleep(Now, UNTESTED)
       IN  /\ IF ~s.fresh \/ moved \/ unheard THEN UNCHANGED left ELSE Spend("fails")
           /\ Do([ended EXCEPT !.c.slp = NoStart])
    /\ UNCHANGED <<watch, os, desk, sys>>

(* _monitor_sleep: the state is looked at again, or a deadline passes. *)
CyclePolled ==
    /\ checks.cycle # None
    /\ Do(StateChanged(Now))
    /\ UNCHANGED <<watch, os, desk, sys, left>>
CycleExpires ==
    /\ checks.cycle # None
    /\ Do(FinishSleep(Now, UNTESTED))
    /\ UNCHANGED <<watch, os, desk, sys, left>>

-----------------------------------------------------------------------------
(* The watcher consumes the two queues; normal_lock in main.py seals first *)
(* and reports the receipt with the state it found before.                 *)

Frame(kind) == desk # <<>> /\ Head(desk).kind = kind /\ desk' = Tail(desk)
Signal(kind) == sys # <<>> /\ Head(sys).kind = kind /\ sys' = Tail(sys)
SealedNow == [Now EXCEPT !.a = Sealed(@)]

ScreenCovered ==
    /\ Frame("active") /\ ~checks.closed
    /\ IF watch.screen = 0 THEN UNCHANGED <<app, checks, truth, watch>>
       ELSE LET mine == watch.req.id # 0 /\ watch.req.id = Head(desk).id
                          /\ watch.req.ctx = watch.screen
                r == IF mine THEN [watch.req EXCEPT !.active = TRUE] ELSE watch.req
                p == ScreenReaction(SealedNow, watch.screen, app)
            IN  /\ watch' = [watch EXCEPT !.req = r]
                /\ Handled(IF mine THEN Told(p, r) ELSE p)
    /\ UNCHANGED <<os, sys, left>>

ScreenUncovered ==
    /\ Frame("inactive") /\ ~checks.closed
    /\ LET mine == /\ watch.req.id # 0 /\ watch.req.id = Head(desk).id
                   /\ watch.req.ctx = watch.screen /\ watch.req.active
           r == IF mine THEN [watch.req EXCEPT !.inactive = TRUE] ELSE watch.req
       IN  /\ watch' = [watch EXCEPT !.req = r]
           /\ Do(IF mine THEN Told(Now, r) ELSE Now)
    /\ UNCHANGED <<os, sys, left>>

(* LockedHint and Session.Lock of logind run the same handler. *)
LockHinted ==
    /\ Signal("hint") /\ ~checks.closed
    /\ Handled(ScreenReaction(SealedNow, watch.screen, app))
    /\ UNCHANGED <<watch, os, desk, left>>

(* PrepareForSleep(true): the seal comes before the sample of the clocks. *)
SleepAnnounced ==
    /\ Signal("begin") /\ ~checks.closed
    /\ IF watch.pending \/ watch.sleep = 0 THEN UNCHANGED <<app, checks, truth, watch>>
       ELSE LET c == checks.cycle
                tagged == /\ c # None /\ c.bound = "issued" /\ c.ctx = watch.sleep
                          /\ Head(sys).after = c.id
                unbound == IF c = None THEN SealedNow ELSE [SealedNow EXCEPT !.c.cycle.bound = "no"]
            IN  /\ watch' = [watch EXCEPT !.pending = TRUE, !.gap = "sampled",
                                          !.test = IF tagged THEN c.id ELSE 0]
                /\ Handled(SleepReaction(unbound, watch.sleep, app))
    /\ UNCHANGED <<os, desk, left>>

(* PrepareForSleep(false): a suspend counts when the clocks drifted apart  *)
(* after the sample.                                                       *)
ActualIfAnnounced == watch.gap # "none"
ActualSuspend == watch.gap = "suspended"
Woken ==
    /\ Signal("end") /\ ~checks.closed
    /\ watch' = [watch EXCEPT !.pending = FALSE, !.gap = "none", !.test = 0]
    /\ Do(IF watch.sleep = 0 THEN Now
          ELSE SleepResume(Now, watch.sleep, ActualSuspend, watch.test))
    /\ UNCHANGED <<os, desk, left>>

(* Contexts end with a seal; new ones follow a new attestation.  Only      *)
(* _refresh_system adopts a new owner of logind before it says so.         *)
Published == Do(Observed(SealedNow, watch'.screen, watch'.sleep))
ContextsEnd ==
    /\ watch.screen # 0 /\ Spend("changes") /\ ~checks.closed
    /\ \E both \in BOOLEAN :
         watch' = IF both THEN [watch EXCEPT !.screen = 0, !.sleep = 0, !.req = NoRequest,
                                             !.pending = FALSE, !.test = 0, !.gap = "none"]
                  ELSE [watch EXCEPT !.screen = 0, !.req = NoRequest]
    /\ Published
    /\ UNCHANGED <<os, desk, sys>>
ContextsReturn ==
    /\ watch.screen = 0 /\ ~checks.closed
    /\ watch' = [watch EXCEPT !.last = @ + 1, !.screen = watch.last + 1,
                              !.sleep = IF @ = 0 THEN watch.last + 1 ELSE @]
    /\ Do(Observed(Now, watch'.screen, watch'.sleep))
    /\ UNCHANGED <<os, desk, sys, left>>

-----------------------------------------------------------------------------
(* The desktop (external). *)

Goes(screen, kind, hint) ==
    /\ os' = [os EXCEPT !.screen = screen, !.hint = hint,
                        !.req = IF screen = "clear" THEN 0 ELSE @]
    /\ desk' = Append(desk, [kind |-> kind, id |-> os.req])
OsLocks ==
    /\ os.screen = "clear" /\ Spend("locks")
    /\ \E hint \in BOOLEAN :
         /\ Goes("locked", "active", hint)
         /\ sys' = IF hint THEN Append(sys, [kind |-> "hint", after |-> 0]) ELSE sys
    /\ truth' = [truth EXCEPT !["screen"].locked = TRUE]
    /\ UNCHANGED <<app, checks, watch>>
OsCovers ==
    /\ os.screen = "clear" /\ Spend("covers")
    /\ Goes("covered", "active", FALSE)
    /\ UNCHANGED <<app, checks, watch, sys, truth>>
OsUncovers ==
    /\ os.screen # "clear" /\ os.sleep = "awake"
    /\ Goes("clear", "inactive", FALSE)
    /\ truth' = [truth EXCEPT !["screen"].unlocked = @ \/ os.screen = "locked",
                              !["screen"].bare = @ \/ (os.screen = "locked" /\ app.open)]
    /\ UNCHANGED <<app, checks, watch, sys, left>>

(* Asked for by the check or from the system's menu. *)
SleepBegins ==
    /\ os.sleep = "awake" /\ Spend("sleeps")
    /\ os' = [os EXCEPT !.sleep = "going"]
    /\ sys' = Append(sys, [kind |-> "begin",
                  after |-> IF checks.cycle = None THEN 0
                            ELSE IF checks.cycle.bound \in {"barrier", "issued"}
                            THEN checks.cycle.id ELSE 0])
    /\ UNCHANGED <<app, checks, watch, desk, truth>>
Suspends ==
    /\ os.sleep = "going"
    /\ os' = [os EXCEPT !.sleep = "slept"]
    /\ watch' = [watch EXCEPT !.gap = IF @ = "sampled" THEN "suspended" ELSE @]
    /\ truth' = [truth EXCEPT !["sleep"].locked = @ \/ truth["sleep"].sealed,
                              !["sleep"].bare = @ \/ app.open]
    /\ UNCHANGED <<app, checks, desk, sys, left>>
SleepEnds ==
    /\ os.sleep # "awake"
    /\ os' = [os EXCEPT !.sleep = "awake"]
    /\ sys' = Append(sys, [kind |-> "end", after |-> 0])
    /\ UNCHANGED <<app, checks, watch, desk, truth, left>>

-----------------------------------------------------------------------------
User == UserOpens \/ UserSeals \/ AskScreen \/ AskSleep \/ DeletionBegins \/ Close
Starts == \/ ScreenPrepared \/ TrialBound \/ LockSent \/ LockAnswered \/ ScreenStartFails
          \/ SleepBound \/ SleepBarrier \/ SleepIssued \/ SleepNoticed \/ SleepAnswered \/ SleepStartFails
Monitors == Poll \/ GraceEnds \/ TrialExpires \/ CyclePolled \/ CycleExpires
Watcher == \/ ScreenCovered \/ ScreenUncovered \/ LockHinted \/ SleepAnnounced \/ Woken
           \/ ContextsEnd \/ ContextsReturn
Desktop == OsLocks \/ OsCovers \/ OsUncovers \/ SleepBegins \/ Suspends \/ SleepEnds

Next == User \/ PinShown \/ Starts \/ Monitors \/ Watcher \/ Desktop

Spec == Init /\ [][Next]_vars

(* Every wait of a starting check is bounded, so its coroutine moves on    *)
(* until it is over; the deadlines of a bound check pass.                  *)
ScreenStartMoves == checks'.scr.pc # checks.scr.pc
SleepStartMoves == checks'.slp.pc # checks.slp.pc
Fairness ==
    /\ []<>(checks.scr.pc = "idle") \/ []<><<ScreenStartMoves>>_vars
    /\ []<>(checks.slp.pc = "idle") \/ []<><<SleepStartMoves>>_vars
    /\ WF_vars(TrialExpires) /\ WF_vars(CycleExpires)
FairSpec == Spec /\ Fairness

-----------------------------------------------------------------------------
Results == {UNTESTED, RUNNING, CONFIRMED, PROBLEM}

TypeOK ==
    /\ app.gen \in Nat /\ {app.open, app.pin, app.sealing} \subseteq BOOLEAN
    /\ {checks.screen, checks.sleep} \subseteq Results /\ checks.ids \in Nat
    /\ checks.scr.pc \in {"idle", "prepare", "read", "request", "reply"}
    /\ checks.slp.pc \in {"idle", "prepare", "bound"}
    /\ watch.gap \in {"none", "sampled", "suspended"}
    /\ \A k \in DOMAIN left : left[k] \in Nat

Becomes(kind, state) == checks'[kind] = state /\ checks[kind] # state

(* A screen check is confirmed only after a real lock and a real unlock    *)
(* since it was bound, the ordinary handler's seal of open data and the    *)
(* PIN shown over closed data: neither a screen saver without a lock, a    *)
(* seal of another origin, nor the events of an older check make it so     *)
(* (_complete_screen_if_ready, observe_screen_transition).                 *)
ScreenProof ==
    [][Becomes("screen", CONFIRMED) =>
         LET t == truth'["screen"] IN t.locked /\ t.unlocked /\ t.sealed /\ t.pin]_vars

(* A sleep check is confirmed only if the machine really suspended after   *)
(* the ordinary handler of this cycle had sealed open data, with the PIN   *)
(* shown since: "an attempt without proven sleep does not create a new     *)
(* success" (docs/user-guide.md).                                          *)
SleepProof ==
    [][Becomes("sleep", CONFIRMED) =>
         LET t == truth'["sleep"] IN t.locked /\ t.sealed /\ t.pin]_vars

(* A check accuses the protection only when data stayed open over a locked *)
(* screen past the grace, at its unlocking or over a suspend; a session    *)
(* the user reopened with the PIN during the check is the one exception.   *)
ProblemIsReal ==
    [][\A kind \in {"screen", "sleep"} :
         Becomes(kind, PROBLEM) => truth'[kind].bare \/ truth'[kind].pin]_vars

(* No result claims what this check did not observe. *)
ResultsAreTrue == []TypeOK /\ ScreenProof /\ SleepProof /\ ProblemIsReal

(* No check runs for ever, whatever is lost or fails: while one runs the   *)
(* buttons of both stay disabled.                                          *)
TestsEnd == []<>(~TestRunning \/ checks.closed)

(* A result shown as running belongs to a check that runs. *)
RunningRuns ==
    /\ checks.screen = RUNNING => checks.scr.pc # "idle" \/ checks.trial # None
    /\ checks.sleep = RUNNING => checks.slp.pc # "idle" \/ checks.cycle # None
=============================================================================
