---------------------------- MODULE LinuxSession ----------------------------
(***************************************************************************)
(* The watcher of the Linux desktop session                                *)
(* (src/platform_security/linux_session.py, LinuxSessionWatcher).          *)
(*                                                                         *)
(* The watcher reads two buses.  logind (system bus) tells of locks,       *)
(* sleep and session changes; the screen saver (session bus) tells when    *)
(* the screen is covered.  Signals wait in a FIFO queue per bus while the  *)
(* watcher's coroutines attest who owns each name: the consumer of each    *)
(* bus, one coalesced re-check task, and the start or preparation that an  *)
(* action of the user or the saved monitoring runs.  Every attestation is  *)
(* a series of awaited calls; _screen_generation says whether what it read *)
(* is still current when it finishes.                                      *)
(*                                                                         *)
(* The generation is only ever compared for equality, so the module keeps  *)
(* the set "current" of snapshots equal to it; "generation += 1" empties   *)
(* the set.                                                                *)
(***************************************************************************)
EXTENDS Integers, Sequences, FiniteSets

CONSTANTS
    Screens,        \* unique names that may own org.cinnamon.ScreenSaver
    Logins,         \* unique names that may own org.freedesktop.login1
    Genuine,        \* the owners whose process passes the attestation
    Contracted,     \* the screen savers of the known package, activated per user
    NoOwner,
    Budgets,        \* bounds of one behaviour, chosen at the start: how often
                    \* the desktop changes ("events"), a call fails or is made
                    \* without need ("fails"), the screen is covered or uncovered
                    \* ("covers"), the user has the lock of the screen checked
                    \* ("locks"), and whether the PIN is ever entered ("opens")
    SerialSpace,    \* serials of a sender wrap here (2^32 in the code)
    FirstSerial

ASSUME OwnersAssumption ==
    /\ Genuine \subseteq Screens \cup Logins
    /\ Contracted \subseteq Screens \cap Genuine
    /\ NoOwner \notin Screens \cup Logins
    /\ Logins \cap Genuine # {}
(* The serials of a behaviour are fewer than half of those there are: a    *)
(* cover or its end has one, a requested lock at most three.               *)
ASSUME SerialAssumption ==
    /\ Budgets \subseteq [events : Nat, fails : Nat, covers : Nat, locks : Nat, opens : BOOLEAN]
    /\ SerialSpace \in Nat /\ SerialSpace % 2 = 0
    /\ FirstSerial \in 1..(SerialSpace - 1)
    /\ \A b \in Budgets : 2 * (b.covers + 3 * b.locks + 2) <= SerialSpace

VARIABLES
    world,      \* the desktop: owners, metadata, screen, power, serials
    w,          \* the fields of the watcher
    sysQ,       \* signals received on the system bus, not yet consumed
    deskQ,      \* signals received on the session bus, not yet consumed
    job,        \* where each coroutine that attests stands
    current,    \* the snapshots equal to _screen_generation
    lock,       \* request_screen_lock and its _RequestedLock cycle
    open,       \* is the user's data open?
    owed,       \* history: an event the watcher promised to report
    deaf        \* history: the trust outlived the owner it was in

vars == <<world, w, sysQ, deskQ, job, current, lock, open, owed, deaf>>

(* "login" and "desktop" are the consumers of the two buses, "task" the   *)
(* coalesced re-check, "main" a start or a preparation.                    *)
Workers == {"login", "desktop", "task", "main"}

(* A _RequestedLock; a serial of 0 means that its frame was not seen.      *)
NoCycle == [capable |-> FALSE, base |-> 0, ack |-> 0, active |-> 0, inactive |-> 0,
            lockSaid |-> FALSE, goneSaid |-> FALSE]

Idle == [pc |-> "idle", mode |-> "none", then |-> "idle", owner |-> NoOwner]

Init ==
    /\ \E b \in Budgets :
         world = [login |-> CHOOSE o \in Logins \cap Genuine : TRUE, screen |-> NoOwner,
                  desktop |-> TRUE, display |-> TRUE, here |-> TRUE, session |-> TRUE,
                  active |-> FALSE, locked |-> FALSE, hint |-> FALSE,
                  serial |-> FirstSerial, left |-> b]
    /\ w = [started |-> FALSE, failed |-> FALSE, closed |-> FALSE,
            sysUp |-> FALSE, deskUp |-> FALSE, login |-> NoOwner, trusted |-> FALSE,
            here |-> FALSE, screen |-> NoOwner,
            watching |-> FALSE, ready |-> FALSE, distrusted |-> FALSE,
            target |-> FALSE, displayFailed |-> FALSE]
    /\ sysQ = <<>> /\ deskQ = <<>>
    /\ job = [k \in Workers |-> Idle]
    /\ current = {}
    /\ lock = [pc |-> "idle", on |-> FALSE, to |-> NoOwner, base |-> 0,
               reply |-> 0, cycle |-> NoCycle, real |-> "no"]
    /\ open = FALSE
    /\ owed = FALSE
    /\ deaf = FALSE

-----------------------------------------------------------------------------
(* Serials.  _serial_after accepts the half of the circle after the        *)
(* barrier; a serial is never zero.                                        *)

NextSerial(s) == IF s = SerialSpace - 1 THEN 1 ELSE s + 1
SerialGreater(value, barrier) == value > barrier
SerialAfter(value, barrier) ==
    /\ value # 0 /\ barrier # 0
    /\ LET d == (value - barrier) % SerialSpace
       IN  0 < d /\ d < SerialSpace \div 2

FreshActive(c) == SerialAfter(c.ack, c.base) /\ SerialAfter(c.active, c.ack)

(* The contexts captured for the requested lock; a new owner of logind, who *)
(* is named in them, ends them all.                                        *)
Cycle == <<"lock", "cycle">>
Test == <<"lock", "test">>
Contexts == {Cycle, Test}

(* screen_context: a context exists while all of it is attested. *)
Attested(x) == ~x.closed /\ x.trusted /\ x.sysUp /\ x.deskUp /\ x.screen # NoOwner /\ x.ready
ScreenContext == Attested(w)

(* _status: of its codes only "cinnamon_untrusted" is ever read again.     *)
Status(x, system, screen, code) ==
    [x EXCEPT !.watching = system, !.ready = screen, !.distrusted = (code = "cinnamon_untrusted")]

(* _invalidate_screen on the watcher's fields, and on the requested lock.  *)
Invalid(x, code) == Status([x EXCEPT !.screen = NoOwner], x.trusted /\ x.sysUp, FALSE, code)
DropCycle == [lock EXCEPT !.on = FALSE, !.cycle = NoCycle]

Running(x) == ~x.closed /\ x.sysUp /\ x.deskUp
Begin(mode, then) == [Idle EXCEPT !.pc = "system", !.mode = mode, !.then = then]

(* _schedule_screen_check: one worker coalesces bursts. *)
Scheduled(x, j) ==
    IF x.closed \/ ~x.sysUp \/ ~x.deskUp \/ ~x.trusted \/ j["task"].pc # "idle"
    THEN j
    ELSE [j EXCEPT !["task"] = Begin("recheck", "idle")]

Revoke == open' = FALSE

(* The desktop as logind describes it to _per_user_desktop. *)
Desktop == world.desktop /\ world.here /\ world.session

(* The generation read when this look at the screen saver began has moved. *)
NeverStale(k) == FALSE
Stale(k) == <<"screen", k>> \notin current

(* The awaited calls of this step answer with an error, or with something  *)
(* that does not match what was read before. *)
Refused(k) ==
    LET owner == job[k].owner IN
    CASE job[k].pc = "system" ->
           \/ ~w.sysUp \/ world.login \notin Genuine \/ ~world.session
           \/ job[k].then = "activate" /\ ~w.trusted
      [] job[k].pc = "commit" -> ~w.sysUp \/ world.login # owner \/ ~world.session
      [] job[k].pc = "attest" ->
           \/ ~Running(w) \/ owner \notin Genuine
           \/ owner \in Contracted /\ ~(Desktop /\ world.display)
      [] job[k].pc = "finish" ->
           \/ ~Running(w) \/ ~w.trusted \/ world.screen # owner
           \/ owner \in Contracted /\ (~world.display \/ w.displayFailed)
           \/ Stale(k)
      [] job[k].pc = "activate" -> ~Running(w) \/ ~(Desktop /\ world.display)
      [] OTHER -> FALSE
-----------------------------------------------------------------------------
(* The desktop (external): every change sends its signal in order. *)

Spend == world.left.events > 0
Event(upd) == world' = [upd EXCEPT !.left.events = @ - 1]
Fail == world.left.fails > 0 /\ world' = [world EXCEPT !.left.fails = @ - 1]
Say(kind, from) == [kind |-> kind, from |-> from, serial |-> 0]
SysSignal(kind) == sysQ' = IF w.sysUp THEN Append(sysQ, Say(kind, world.login)) ELSE sysQ
DeskSignals(ms) == deskQ' = IF w.deskUp THEN deskQ \o ms ELSE deskQ
Covered(value, serial) == [kind |-> IF value THEN "active" ELSE "inactive",
                           from |-> world.screen, serial |-> serial]

(* org.cinnamon.ScreenSaver is taken over, or its process exits. *)
ScreenOwnerChanges == \E o \in (Screens \cup {NoOwner}) \ {world.screen} :
    /\ Spend
    /\ Event([world EXCEPT !.screen = o, !.active = FALSE, !.locked = FALSE])
    /\ DeskSignals(<<[kind |-> IF world.screen = NoOwner THEN "appears" ELSE "name",
                      from |-> o, serial |-> 0]>>)
    /\ UNCHANGED <<w, sysQ, job, current, lock, open>>

LoginRestarts == \E o \in Logins \ {world.login} :
    /\ Spend
    /\ Event([world EXCEPT !.login = o])
    /\ sysQ' = IF w.sysUp THEN Append(sysQ, Say("name", o)) ELSE sysQ
    /\ UNCHANGED <<w, deskQ, job, current, lock, open>>

(* Another graphical session, another Display or Seat: SessionNew,         *)
(* SessionRemoved and PropertiesChanged announce it.                       *)
DesktopChanges ==
    /\ Spend
    /\ Event([world EXCEPT !.desktop = ~@])
    /\ SysSignal("topology")
    /\ UNCHANGED <<w, deskQ, job, current, lock, open>>

(* An X server comes or goes; nothing announces it. *)
DisplayChanges ==
    /\ Spend
    /\ Event([world EXCEPT !.display = ~@])
    /\ UNCHANGED <<w, sysQ, deskQ, job, current, lock, open>>

SwitchConsole ==
    /\ Spend
    /\ Event([world EXCEPT !.here = ~@])
    /\ SysSignal(IF world.here THEN "away" ELSE "back")
    /\ UNCHANGED <<w, deskQ, job, current, lock, open>>

(* The user or another program locks through logind, or the machine goes   *)
(* to sleep or shuts down ("power").                                       *)
SystemLocks == \E kind \in {"lock", "power"} :
    /\ Spend
    /\ Event([world EXCEPT !.hint = (kind = "lock") \/ @])
    /\ SysSignal(kind)
    /\ UNCHANGED <<w, deskQ, job, current, lock, open>>

SessionEnds ==
    /\ Spend /\ world.session
    /\ Event([world EXCEPT !.session = FALSE])
    /\ SysSignal("gone")
    /\ UNCHANGED <<w, deskQ, job, current, lock, open>>

(* The screen saver covers an idle screen: visible, not locked. *)
IdleCovers ==
    /\ world.left.covers > 0 /\ world.screen # NoOwner /\ ~world.active
    /\ world' = [world EXCEPT !.active = TRUE, !.serial = NextSerial(@), !.left.covers = @ - 1]
    /\ DeskSignals(<<Covered(TRUE, world.serial)>>)
    /\ UNCHANGED <<w, sysQ, job, current, lock, open>>

Uncovers ==
    /\ world.left.covers > 0 /\ world.active
    /\ world' = [world EXCEPT !.active = FALSE, !.locked = FALSE, !.hint = FALSE,
                              !.serial = NextSerial(@), !.left.covers = @ - 1]
    /\ DeskSignals(<<Covered(FALSE, world.serial)>>)
    /\ lock' = [lock EXCEPT !.real = IF @ = "locked" THEN "unlocked" ELSE @]
    /\ UNCHANGED <<w, sysQ, job, current, open>>

(* The PIN opens the data; nothing in the watcher does.  Two bounds: an    *)
(* earlier opening reaches the same states once the watcher watches, and a *)
(* later one, when nothing more happens, owes nothing.                     *)
UserOpens ==
    /\ ~open /\ ~w.closed /\ w.watching /\ Spend /\ world.left.opens
    /\ open' = TRUE
    /\ UNCHANGED <<world, w, sysQ, deskQ, job, current, lock>>

World == \/ ScreenOwnerChanges \/ LoginRestarts \/ DesktopChanges \/ DisplayChanges
         \/ SwitchConsole \/ SystemLocks \/ SessionEnds \/ IdleCovers \/ Uncovers
         \/ UserOpens

-----------------------------------------------------------------------------
(* _refresh_system: the owner of logind is read and adopted, and only      *)
(* after the session's properties and a second look at the owner trusted.  *)

(* The caller of a re-check, a start or one round of a preparation goes on *)
(* once the watcher is x: a preparation that still has no context activates *)
(* the service once and looks again. *)
Leave(k, x) ==
    [job EXCEPT ![k] =
        IF job[k].mode # "prepare"
        THEN IF job[k].then = "prepare" THEN Begin("prepare", "activate") ELSE Idle
        ELSE IF Attested(x) \/ job[k].then = "stop" THEN Idle
             ELSE [job[k] EXCEPT !.pc = "activate"]]

(* The snapshots of a caller that has returned mean nothing any more. *)
Own(k) == {<<"loop", k>>, <<"screen", k>>}

(* The while loop of _recheck_screen. *)
Returned(k, x, cur) ==
    IF /\ job[k].mode = "recheck" /\ Running(x)
       /\ <<"loop", k>> \notin cur /\ ~x.distrusted
    THEN [job EXCEPT ![k] = Begin("recheck", job[k].then)]
    ELSE Leave(k, x)


SystemRead(k) ==
    /\ job[k].pc = "system"
    /\ ~Refused(k)
    /\ LET new == w.login # world.login
           kept == IF new THEN current \ Contexts ELSE current
       IN  /\ w' = [w EXCEPT !.login = world.login, !.trusted = @ /\ ~new,
                             !.deskUp = @ \/ job[k].mode = "prepare"]
           /\ current' = IF job[k].mode = "recheck" THEN kept \cup {<<"loop", k>>} ELSE kept
    /\ job' = [job EXCEPT ![k].pc = "commit", ![k].owner = world.login]
    /\ UNCHANGED <<world, sysQ, deskQ, lock, open>>

(* What the caller of _refresh_system does next: the consumer of the       *)
(* system bus schedules a re-check, start opens the session bus, the       *)
(* others go on to the screen saver.                                       *)
SystemDone(k, x) ==
    CASE job[k].mode = "login" ->
           /\ w' = Status(x, TRUE, FALSE, "screen_rechecking")
           /\ job' = Scheduled(w', [job EXCEPT ![k] = Idle])
      [] job[k].mode = "start" ->
           /\ w' = [x EXCEPT !.deskUp = TRUE]
           /\ job' = [job EXCEPT ![k] = Begin("recheck", job[k].then)]
      [] OTHER -> w' = x /\ job' = [job EXCEPT ![k].pc = "owner"]

SystemCommit(k) ==
    /\ job[k].pc = "commit"
    /\ ~Refused(k)
    /\ SystemDone(k, [w EXCEPT !.trusted = TRUE, !.here = world.here])
    /\ open' = (open /\ world.here /\ ~world.hint)
    /\ UNCHANGED <<world, sysQ, deskQ, current, lock>>

(* start without a transport of the session bus: only the system is        *)
(* watched, and a preparation opens the session bus later.                 *)
StartWithoutScreen ==
    /\ job["main"].pc = "commit" /\ job["main"].mode = "start" /\ Fail
    /\ ~Refused("main")
    /\ w' = Invalid([w EXCEPT !.trusted = TRUE, !.here = world.here], "screen_bus_unavailable")
    /\ job' = Leave("main", w')
    /\ current' = {} /\ lock' = DropCycle /\ Revoke
    /\ UNCHANGED <<sysQ, deskQ>>

-----------------------------------------------------------------------------
(* _refresh_screen, and what its callers do when it returns. *)

(* _screen_refresh_lock is held from the reading of the owner to the end. *)
LockFree(k) == \A j \in Workers \ {k} : job[j].pc \notin {"attest", "finish"}

Unwatchable == ~w.deskUp \/ ~w.sysUp \/ w.login = NoOwner \/ ~w.trusted

OwnerRead(k) ==
    /\ job[k].pc = "owner" /\ LockFree(k)
    /\ \/ /\ Unwatchable
          /\ job' = Returned(k, w, current)
          /\ current' = current \ Own(k)
          /\ UNCHANGED <<w, lock, open>>
       \/ /\ ~Unwatchable /\ world.screen = NoOwner
          /\ LET lost == w.screen # NoOwner
                 cur == IF lost THEN {} ELSE current
                 x == Status([w EXCEPT !.screen = NoOwner, !.target = FALSE,
                                       !.displayFailed = FALSE], TRUE, FALSE, "cinnamon_waiting")
             IN  /\ w' = x
                 /\ current' = cur \ Own(k)
                 /\ lock' = IF lost THEN DropCycle ELSE lock
                 /\ open' = (open /\ ~lost)
                 /\ job' = Returned(k, x, cur)
       \/ /\ ~Unwatchable /\ world.screen # NoOwner
          /\ LET other == w.screen \notin {NoOwner, world.screen}
             IN  /\ w' = IF other THEN Invalid(w, "service_owner_changed") ELSE w
                 /\ current' = (IF other THEN {} ELSE current) \cup {<<"screen", k>>}
                 /\ lock' = IF other THEN DropCycle ELSE lock
                 /\ open' = (open /\ ~other)
          /\ job' = [job EXCEPT ![k].pc = "attest", ![k].owner = world.screen]
    /\ UNCHANGED <<world, sysQ, deskQ>>

(* _identity and, for a service activated per user, _per_user_desktop. *)
ScreenAttest(k) ==
    /\ job[k].pc = "attest" /\ ~Refused(k)
    /\ w' = [w EXCEPT !.target = job[k].owner \in Contracted, !.displayFailed = FALSE]
    /\ job' = [job EXCEPT ![k].pc = "finish"]
    /\ UNCHANGED <<world, sysQ, deskQ, current, lock, open>>

(* The screen saver still owns the name, a last look at the displays, and  *)
(* a generation that did not move while all this was awaited.              *)
ScreenCommit(k) ==
    /\ job[k].pc = "finish" /\ ~Refused(k)
    /\ LET x == Status([w EXCEPT !.screen = job[k].owner], TRUE, TRUE, "watching")
       IN  w' = x /\ job' = Returned(k, x, current)
    /\ open' = (open /\ ~world.active)
    /\ current' = current \ Own(k)
    /\ UNCHANGED <<world, sysQ, deskQ, lock>>

(* _check_display_namespace acts when the verdict turned: it invalidates,  *)
(* and seals only when the display became unacceptable.                    *)
Turned == w.target /\ w.trusted /\ w.deskUp /\ world.display = w.displayFailed
DisplayVerdict ==
    [Invalid(w, IF world.display THEN "display_namespace_rechecking"
                ELSE "display_namespace_changed") EXCEPT !.displayFailed = ~world.display]

(* What a failing step has already changed: _per_user_desktop names its    *)
(* display before it verifies it, and the last look may turn the verdict.  *)
LastLook(k) == job[k].pc = "finish" /\ job[k].owner \in Contracted /\ Turned
SoFar(k) ==
    CASE LastLook(k) -> DisplayVerdict
      [] job[k].pc = "attest" /\ job[k].owner \in Contracted /\ Desktop ->
           [w EXCEPT !.target = TRUE, !.displayFailed = ~world.display]
      [] OTHER -> w

(* The owner that was read has been forgotten or replaced by another       *)
(* coroutine; the calls still to come, which go to _system_owner, may fail. *)
Displaced(k) == job[k].pc = "commit" /\ w.login # job[k].owner

(* A step fails because it is refused, or because a call just fails.       *)
FailsAt(k, modes) ==
    /\ job[k].pc \in {"system", "commit", "attest", "finish", "activate"}
    /\ job[k].mode \in modes
    /\ IF Refused(k) \/ Displaced(k) THEN UNCHANGED world ELSE Fail

(* _recheck_screen: once more when the generation moved, otherwise the     *)
(* screen saver is not trusted.                                            *)
RecheckFails(k) ==
    /\ FailsAt(k, {"recheck"})
    /\ LET moved == <<"loop", k>> \notin current \/ LastLook(k)
           x == SoFar(k)
       IN  /\ IF moved \/ ~Running(w)
              THEN /\ w' = x
                   /\ job' = IF Running(w) THEN [job EXCEPT ![k] = Begin("recheck", job[k].then)]
                             ELSE Leave(k, x)
                   /\ current' = IF LastLook(k) THEN {} ELSE current \ Own(k)
                   /\ lock' = IF LastLook(k) THEN DropCycle ELSE lock
                   /\ open' = (open /\ ~(LastLook(k) /\ ~world.display))
              ELSE /\ w' = Invalid(x, "cinnamon_untrusted")
                   /\ job' = Leave(k, w')
                   /\ current' = {} /\ lock' = DropCycle /\ Revoke
    /\ UNCHANGED <<sysQ, deskQ>>

(* The consumer of the system bus could not attest the new owner. *)
LoginFails ==
    /\ FailsAt("login", {"login"})
    /\ w' = Status([w EXCEPT !.login = NoOwner], FALSE, FALSE, "service_untrusted")
    /\ job' = [job EXCEPT !["login"] = Idle]
    /\ UNCHANGED <<sysQ, deskQ, current, lock, open>>

(* _close_buses forgets the queues with the transports. *)
Down(x, code) ==
    Status([x EXCEPT !.login = NoOwner, !.screen = NoOwner, !.trusted = FALSE,
                     !.sysUp = FALSE, !.deskUp = FALSE], FALSE, FALSE, code)
CloseBuses == sysQ' = <<>> /\ deskQ' = <<>>
AllIdle == [k \in Workers |-> Idle]

StartFails ==
    /\ FailsAt("main", {"start"})
    /\ w' = Down(w, "session_watch_unavailable")
    /\ job' = AllIdle
    /\ CloseBuses /\ Revoke
    /\ current' = {} /\ UNCHANGED lock

PrepareFails ==
    /\ FailsAt("main", {"prepare"})
    /\ w' = SoFar("main")
    /\ job' = [job EXCEPT !["main"] = Idle]
    /\ current' = IF LastLook("main") THEN {} ELSE current \ Own("main")
    /\ lock' = IF LastLook("main") THEN DropCycle ELSE lock
    /\ open' = (open /\ ~(LastLook("main") /\ ~world.display))
    /\ UNCHANGED <<sysQ, deskQ>>

-----------------------------------------------------------------------------
(* Starting, preparing, closing. *)

Start ==
    /\ ~w.started /\ ~w.closed /\ job["main"].pc = "idle"
    /\ w' = [w EXCEPT !.started = TRUE, !.sysUp = TRUE]
    /\ job' = [job EXCEPT !["main"] = Begin("start", "idle")]
    /\ UNCHANGED <<world, sysQ, deskQ, current, lock, open>>

(* _restart_system_if_needed *)
NeedsRestartUnlessStarted == ~w.started
NeedsRestart == ~w.started \/ w.failed \/ ~w.sysUp

(* prepare_screen_test, asked for by a check of the user or by the saved   *)
(* monitoring: a watcher whose system bus is lost is restarted first.      *)
Prepare ==
    /\ ~w.closed /\ job["main"].pc = "idle"
    /\ IF ScreenContext THEN Fail ELSE UNCHANGED world
    /\ IF ~NeedsRestart
       THEN /\ job' = [job EXCEPT !["main"] = Begin("prepare", "activate")]
            /\ UNCHANGED <<w, sysQ, deskQ, current, lock>>
       ELSE /\ w' = [Down(w, "reconnecting") EXCEPT !.started = TRUE, !.failed = FALSE,
                                                   !.sysUp = TRUE]
            /\ job' = [AllIdle EXCEPT !["main"] = Begin("start", "prepare")]
            /\ CloseBuses /\ current' = {} /\ lock' = DropCycle
    /\ UNCHANGED open

(* StartServiceByName of the attested package. *)
Activate ==
    /\ job["main"].pc = "activate" /\ ~Refused("main")
    /\ \E o \in Contracted :
         IF world.screen # NoOwner THEN UNCHANGED <<world, deskQ>>
         ELSE /\ world' = [world EXCEPT !.screen = o]
              /\ DeskSignals(<<[kind |-> "appears", from |-> o, serial |-> 0]>>)
    /\ w' = [w EXCEPT !.target = TRUE, !.displayFailed = FALSE]
    /\ job' = [job EXCEPT !["main"] = Begin("prepare", "stop")]
    /\ UNCHANGED <<sysQ, current, lock, open>>

Close ==
    /\ ~w.closed
    /\ w' = [Down(w, "closed") EXCEPT !.closed = TRUE]
    /\ job' = AllIdle
    /\ CloseBuses
    /\ UNCHANGED <<world, current, lock, open>>

-----------------------------------------------------------------------------
(* The consumer of the system bus. *)

Listening == w.sysUp /\ ~w.failed /\ ~w.closed /\ job["main"].mode # "start"
             /\ job["login"].pc = "idle"

Take(kinds) == Listening /\ sysQ # <<>> /\ Head(sysQ).kind \in kinds /\ sysQ' = Tail(sysQ)
Heard == w.trusted /\ Head(sysQ).from = w.login

LoginOwnerChangedQuietly ==
    /\ Take({"name"})
    /\ w' = Invalid([w EXCEPT !.login = NoOwner, !.trusted = FALSE], "service_owner_changed")
    /\ job' = [job EXCEPT !["login"] = Begin("login", "idle")]
    /\ current' = {} /\ lock' = DropCycle
    /\ UNCHANGED <<world, deskQ, open>>
LoginOwnerChanged ==
    /\ Take({"name"})
    /\ w' = Invalid([w EXCEPT !.login = NoOwner, !.trusted = FALSE], "service_owner_changed")
    /\ job' = [job EXCEPT !["login"] = Begin("login", "idle")]
    /\ current' = {} /\ lock' = DropCycle /\ Revoke
    /\ UNCHANGED <<world, deskQ>>

(* Session.Lock, LockedHint, PrepareForSleep and PrepareForShutdown. *)
SealingSignal ==
    /\ Take({"lock", "power"})
    /\ open' = (open /\ ~Heard)
    /\ UNCHANGED <<world, w, deskQ, job, current, lock>>

(* SessionNew, SessionRemoved of another session, PropertiesChanged of the *)
(* desktop; and Active of this session, which seals when it is lost.       *)
MetadataSignal ==
    /\ Take({"topology", "away", "back"})
    /\ LET kind == Head(sysQ).kind
           turned == kind = "topology" \/ w.here = (kind = "away")
           seal == kind = "topology" \/ kind = "away"
       IN  /\ IF Heard /\ turned
              THEN /\ w' = [Invalid(w, IF kind = "topology" THEN "desktop_topology_changed"
                                       ELSE "desktop_metadata_changed")
                            EXCEPT !.here = IF kind = "topology" THEN @ ELSE kind = "back"]
                   /\ job' = Scheduled(w', job)
                   /\ current' = {} /\ lock' = DropCycle
              ELSE UNCHANGED <<w, job, current, lock>>
           /\ open' = (open /\ ~(Heard /\ seal))
    /\ UNCHANGED <<world, deskQ>>

(* SessionRemoved of this session, or its identity changed. *)
OwnSessionGone ==
    /\ Take({"gone"})
    /\ IF Heard
       THEN /\ w' = Status([w EXCEPT !.login = NoOwner, !.screen = NoOwner, !.trusted = FALSE],
                           FALSE, FALSE, "session_removed")
            /\ current' = {} /\ Revoke
       ELSE UNCHANGED <<w, current, open>>
    /\ UNCHANGED <<world, deskQ, job, lock>>

(* The display is polled before every signal is awaited. *)
PollDisplay ==
    /\ Listening /\ Turned
    /\ w' = DisplayVerdict
    /\ job' = IF world.display THEN Scheduled(w', job) ELSE job
    /\ open' = (open /\ world.display)
    /\ current' = {} /\ lock' = DropCycle
    /\ UNCHANGED <<world, sysQ, deskQ>>

(* The transport fails, or a signal cannot be handled. *)
SystemBusFails ==
    /\ Listening /\ Fail
    /\ w' = [Down(w, "system_bus_disconnected") EXCEPT !.failed = TRUE]
    /\ job' = [AllIdle EXCEPT !["main"] = job["main"]]
    /\ current' = {} /\ CloseBuses /\ Revoke
    /\ UNCHANGED lock

-----------------------------------------------------------------------------
(* The consumer of the session bus. *)

Watching == Running(w) /\ job["desktop"].pc = "idle"
TakeScreen(kinds) ==
    Watching /\ deskQ # <<>> /\ Head(deskQ).kind \in kinds /\ deskQ' = Tail(deskQ)

(* The first appearance of a lazy service is no loss of trust. *)
ScreenAppears ==
    /\ TakeScreen({"appears"}) /\ w.screen \in {NoOwner, Head(deskQ).from}
    /\ job' = IF w.screen = NoOwner THEN [job EXCEPT !["desktop"] = Begin("recheck", "idle")]
              ELSE job
    /\ UNCHANGED <<world, w, sysQ, current, lock, open>>

ScreenOwnerChanged ==
    /\ TakeScreen({"appears", "name"})
    /\ Head(deskQ).kind = "appears" => w.screen \notin {NoOwner, Head(deskQ).from}
    /\ w' = Invalid(w, "service_owner_changed")
    /\ job' = [job EXCEPT !["desktop"] = Begin("recheck", "idle")]
    /\ current' = {} /\ lock' = DropCycle /\ Revoke
    /\ UNCHANGED <<world, sysQ>>

(* _publish_requested_lock: what the requested cycle proves so far. *)
Published(c) ==
    IF ScreenContext /\ Cycle \in current /\ c.capable /\ c.ack # 0 /\ FreshActive(c)
    THEN [c EXCEPT !.lockSaid = TRUE,
                   !.goneSaid = @ \/ SerialAfter(c.inactive, c.active)]
    ELSE c

ScreenSignal ==
    /\ TakeScreen({"active", "inactive"})
    /\ LET m == Head(deskQ)
           c == lock.cycle
           heard == w.screen # NoOwner /\ m.from = w.screen
           mine == heard /\ lock.on /\ ScreenContext /\ Cycle \in current
       IN  /\ open' = (open /\ ~(heard /\ m.kind = "active"))
           /\ lock' =
                CASE mine /\ m.kind = "active" /\ SerialAfter(m.serial, c.base) ->
                       [lock EXCEPT !.cycle = Published([c EXCEPT !.active = m.serial])]
                  [] mine /\ m.kind = "inactive" /\ SerialAfter(m.serial, c.active) ->
                       [lock EXCEPT !.cycle = Published([c EXCEPT !.inactive = m.serial])]
                  [] OTHER -> lock
    /\ UNCHANGED <<world, w, sysQ, job, current>>

SessionBusFails ==
    /\ Watching /\ Fail
    /\ w' = Status([w EXCEPT !.screen = NoOwner, !.deskUp = FALSE],
                   w.login # NoOwner, FALSE, "screen_bus_disconnected")
    /\ deskQ' = <<>> /\ current' = {} /\ Revoke
    /\ UNCHANGED <<sysQ, job, lock>>

(* _keep_screen_service reads the state of the screen every few seconds.   *)
Readable == /\ world.login = w.login /\ world.screen = w.screen /\ world.session /\ world.here
            /\ w.screen \in Contracted => world.desktop /\ world.display
KeepAliveFails ==
    /\ ScreenContext
    /\ IF Readable THEN Fail ELSE UNCHANGED world
    /\ w' = Invalid(w, "cinnamon_untrusted")
    /\ current' = {} /\ lock' = DropCycle /\ Revoke
    /\ UNCHANGED <<sysQ, deskQ, job>>

-----------------------------------------------------------------------------
(* request_screen_lock for a check of the user. *)

(* read_screen_state must say that the screen is not locked; the serial of *)
(* its answer is the barrier for older frames.                             *)
ReadBaseline ==
    /\ lock.pc = "idle" /\ ScreenContext /\ Readable
    /\ ~world.active /\ ~world.hint
    /\ lock' = [DropCycle EXCEPT !.pc = "read", !.base = world.serial, !.real = "no"]
    /\ world.left.locks > 0
    /\ world' = [world EXCEPT !.serial = NextSerial(@), !.left.locks = @ - 1]
    /\ current' = (current \ {Cycle}) \cup {Test}
    /\ UNCHANGED <<w, sysQ, deskQ, job, open>>

SendLock ==
    /\ lock.pc = "read" /\ ScreenContext /\ Test \in current
    /\ lock' = [lock EXCEPT !.pc = "sent", !.on = TRUE, !.to = w.screen, !.base = 0,
                   !.cycle = [NoCycle EXCEPT !.base = lock.base,
                                             !.capable = w.screen \in Contracted]]
    /\ current' = current \cup {Cycle}
    /\ UNCHANGED <<world, w, sysQ, deskQ, job, open>>

(* The screen saver (external) answers Lock and then covers the screen; the *)
(* known package locks it.                                                 *)
ServiceLocks ==
    /\ lock.pc = "sent" /\ world.screen = lock.to
    /\ LET reply == world.serial IN
       \E locks \in IF world.screen \in Contracted THEN {TRUE} ELSE BOOLEAN :
         /\ lock' = [lock EXCEPT !.pc = "answered", !.reply = reply,
                                 !.real = IF locks THEN "locked" ELSE "no"]
         /\ world' = [world EXCEPT !.active = TRUE, !.locked = locks,
                         !.serial = IF world.active THEN NextSerial(reply)
                                    ELSE NextSerial(NextSerial(reply))]
         /\ DeskSignals(IF world.active THEN <<>> ELSE <<Covered(TRUE, NextSerial(reply))>>)
    /\ UNCHANGED <<w, sysQ, job, current, open>>

LockAcknowledged ==
    /\ lock.pc = "answered" /\ ScreenContext /\ Test \in current
    /\ world.screen = w.screen /\ lock.on
    /\ lock' = [lock EXCEPT !.pc = "idle", !.to = NoOwner, !.reply = 0,
                            !.cycle = Published([@ EXCEPT !.ack = lock.reply])]
    /\ current' = current \ {Test}
    /\ UNCHANGED <<world, w, sysQ, deskQ, job, open>>

LockRefused ==
    /\ lock.pc \in {"read", "sent", "answered"}
    /\ \/ ~ScreenContext \/ Test \notin current
       \/ lock.pc = "sent" /\ world.screen # lock.to
       \/ lock.pc = "answered" /\ (world.screen # w.screen \/ ~lock.on)
    /\ lock' = [lock EXCEPT !.pc = "idle", !.to = NoOwner, !.base = 0, !.reply = 0]
    /\ current' = current \ {Test}
    /\ UNCHANGED <<world, w, sysQ, deskQ, job, open>>

-----------------------------------------------------------------------------
Step(k) == SystemRead(k) \/ SystemCommit(k) \/ OwnerRead(k) \/ ScreenAttest(k) \/ ScreenCommit(k)

Consumers == \/ LoginOwnerChanged \/ SealingSignal \/ MetadataSignal \/ OwnSessionGone
             \/ PollDisplay \/ ScreenAppears \/ ScreenOwnerChanged \/ ScreenSignal
Failures == \/ \E k \in Workers : RecheckFails(k)
            \/ LoginFails \/ StartFails \/ PrepareFails \/ StartWithoutScreen
            \/ SystemBusFails \/ SessionBusFails \/ KeepAliveFails
Request == \/ ReadBaseline \/ SendLock \/ ServiceLocks
           \/ LockAcknowledged \/ LockRefused
Control == Start \/ Prepare \/ Activate \/ Close

(* History: an event announced while the data is open and the watcher says *)
(* that the system is watched, by an owner it trusts and is not attesting  *)
(* anew, is owed until the data is sealed.  A consumer that could not      *)
(* attest the owner of logind forgets it, and the watcher is deaf from     *)
(* there on if another coroutine had come to trust that owner: what logind *)
(* says before it is adopted again is not heard, and what was being        *)
(* attested goes on.                                                       *)
Sealing == {"name", "lock", "power", "away", "topology", "gone"}
Announced == /\ Len(sysQ') > Len(sysQ) /\ sysQ'[Len(sysQ')].kind \in Sealing \ {"name", "topology"}
Promise ==
    /\ owed' = /\ open' /\ ~w'.closed
               /\ \/ owed
                  \/ Announced /\ w.watching /\ w.trusted /\ w.login # NoOwner
                     /\ job["login"].pc = "idle"
    /\ deaf' = IF w'.login = NoOwner THEN w'.trusted /\ job'["login"].pc = "idle" ELSE deaf

Next == /\ World \/ (\E k \in Workers : Step(k)) \/ Consumers \/ Failures \/ Request \/ Control
        /\ Promise

(* enable_saved_screen_monitoring: _restore_saved_screen prepares again     *)
(* whenever there is no context.                                           *)
Restore == ~ScreenContext /\ Prepare

(* The event loop runs every coroutine; the user and the desktop need not  *)
(* act, and a call need not fail.                                          *)
Coroutine(k) == \/ Step(k)
                \/ /\ Refused(k)
                   /\ \/ RecheckFails(k)
                      \/ k = "login" /\ LoginFails
                      \/ k = "main" /\ (StartFails \/ PrepareFails)
                \/ k = "main" /\ Activate
Fairness ==
    /\ \A k \in Workers : WF_vars(Coroutine(k) /\ Promise)
    /\ WF_vars((Consumers \/ (KeepAliveFails /\ ~Readable)) /\ Promise)
    /\ WF_vars(Restore /\ Promise)

Spec == Init /\ [][Next]_vars
FairSpec == Spec /\ Fairness

-----------------------------------------------------------------------------
Owners == Screens \cup Logins \cup {NoOwner}
Serials == 0..(SerialSpace - 1)
Signals == [kind : Sealing \cup {"back", "appears", "active", "inactive"},
            from : Owners, serial : Serials]
Desktops == [login : Logins, screen : Screens \cup {NoOwner}, desktop : BOOLEAN,
             display : BOOLEAN, here : BOOLEAN, session : BOOLEAN, active : BOOLEAN,
             locked : BOOLEAN, hint : BOOLEAN, serial : Serials \ {0},
             left : [events : Nat, fails : Nat, covers : Nat, locks : Nat, opens : BOOLEAN]]
Watchers == [started : BOOLEAN, failed : BOOLEAN, closed : BOOLEAN, sysUp : BOOLEAN,
             deskUp : BOOLEAN, login : Logins \cup {NoOwner}, trusted : BOOLEAN,
             here : BOOLEAN, screen : Screens \cup {NoOwner}, watching : BOOLEAN,
             ready : BOOLEAN, distrusted : BOOLEAN, target : BOOLEAN, displayFailed : BOOLEAN]
Jobs == [pc : {"idle", "system", "commit", "owner", "attest", "finish", "activate"},
         mode : {"none", "login", "start", "recheck", "prepare"},
         then : {"idle", "prepare", "activate", "stop"}, owner : Owners]
Cycles == [capable : BOOLEAN, base : Serials, ack : Serials, active : Serials,
           inactive : Serials, lockSaid : BOOLEAN, goneSaid : BOOLEAN]

(* Every component has the kind of value the code gives it. *)
TypeOK ==
    /\ world \in Desktops /\ w \in Watchers
    /\ sysQ \in Seq(Signals) /\ deskQ \in Seq(Signals)
    /\ job \in [Workers -> Jobs]
    /\ current \subseteq {"loop", "screen", "lock"} \X (Workers \cup {"cycle", "test"})
    /\ lock \in [pc : {"idle", "read", "sent", "answered"}, on : BOOLEAN,
                 to : Screens \cup {NoOwner}, base : Serials, reply : Serials,
                 cycle : Cycles, real : {"no", "locked", "unlocked"}]
    /\ open \in BOOLEAN /\ owed \in BOOLEAN /\ deaf \in BOOLEAN

Queued(q, kinds) == \E i \in DOMAIN q : q[i].kind \in kinds

(* A context in force describes the owners and the session as they are, or *)
(* the signal that ends it is still queued: an attestation that finishes   *)
(* late never publishes what a consumed signal has already invalidated     *)
(* (_screen_generation in _refresh_screen and _recheck_screen).            *)
ContextIsCurrent ==
    ScreenContext /\ w.login # NoOwner =>
        /\ w.screen \in Genuine /\ w.login \in Genuine
        /\ world.login = w.login \/ Queued(sysQ, {"name"})
        /\ world.screen = w.screen \/ Queued(deskQ, {"name", "appears"})
        /\ world.here = w.here \/ Queued(sysQ, {"away", "back", "name"})

(* So does it the desktop of a service that is activated per user, unless  *)
(* the watcher was deaf when the signal came (see README).                 *)
DesktopStillOurs ==
    ScreenContext /\ w.login # NoOwner /\ w.screen \in Contracted =>
        (world.desktop /\ world.session) \/ Queued(sysQ, {"topology", "gone", "name"})
DesktopIsCurrent == ~deaf => DesktopStillOurs

(* What the other components ask of the watcher is current and well formed. *)
ContextSound == TypeOK /\ ContextIsCurrent /\ DesktopIsCurrent

(* read_screen_state asserts that a context has an owner of logind.  A     *)
(* consumer whose attestation fails forgets the owner without ending the   *)
(* trust that another coroutine has just established.                      *)
ContextHasOwner == ScreenContext => w.login # NoOwner

(* A lock, a sleep, a switch of the console or the end of the session that *)
(* logind announced while the watcher said the system is watched is never  *)
(* lost: the data is sealed, or a signal that seals it is still queued.    *)
EventsSeal == owed => Queued(sysQ, Sealing)

(* Evidence of a requested lock is real: "locked" is published only after  *)
(* this request locked the screen, "inactive" only after it was unlocked   *)
(* again, whatever frames were queued before (_serial_after).              *)
LockEvidence ==
    /\ lock.cycle.lockSaid => lock.real # "no"
    /\ lock.cycle.goneSaid => lock.real = "unlocked"

Healthy == /\ Desktop /\ world.display /\ world.login \in Genuine
           /\ world.screen \in Genuine \cup {NoOwner}

(* The consumer could not attest a new owner of logind: nothing looks again *)
(* before the bus fails or the application starts anew, because            *)
(* _schedule_screen_check and _prepare_screen_test ask for a trusted owner. *)
Stranded == /\ w.sysUp /\ ~w.failed /\ ~w.trusted /\ w.login = NoOwner
            /\ job["login"].pc = "idle" /\ job["main"].mode # "start"

(* With the saved monitoring on, a desktop that stays in order is watched  *)
(* again in the end, whatever failed before, except where the watcher is   *)
(* stranded as above.                                                      *)
MonitoringReturns ==
    <>[](Healthy /\ ~w.closed) => <>[](ScreenContext \/ Stranded)
=============================================================================
