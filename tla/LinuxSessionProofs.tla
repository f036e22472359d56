--------------------------- MODULE LinuxSessionProofs ---------------------------
(***************************************************************************)
(* Theorems about LinuxSession, for any owners of the two names, any       *)
(* number of events, failing calls, covers and checked locks: a context in *)
(* force is current, an announced event seals, evidence of a lock is real. *)
(*                                                                         *)
(* The two queues keep the order of what happened, so the last signal of a *)
(* kind tells how things are now, and one that comes from an owner who is  *)
(* gone has the change of owner behind it (QueuesTell).  What the watcher  *)
(* or an attestation under way holds is then either as the desktop is or   *)
(* has a signal before it in the queue that will take it away (OwnersTold, *)
(* SessionTold, DesktopTold): a signal is only ever consumed unheard when  *)
(* another one is still to come, or when the watcher is deaf.              *)
(***************************************************************************)
EXTENDS LinuxSession, SequenceTheorems, TLAPS

-----------------------------------------------------------------------------
(* The queues.                                                             *)

\* No signal of these kinds behind place i.
LastOf(q, i, kinds) == \A j \in DOMAIN q : j > i => q[j].kind \notin kinds

\* What the owner of logind said who is not the present one has a change of owner behind it; the
\* last switch of the console tells where it is now.
SystemTells(q, login, here) ==
    \A i \in DOMAIN q :
      /\ q[i].kind # "name" /\ q[i].from # login => ~LastOf(q, i, {"name"})
      /\ q[i].kind \in {"away", "back"} /\ LastOf(q, i, {"away", "back"})
           => here = (q[i].kind = "back")

\* The last change of the screen saver's owner tells who it is now.
ScreenTells(q, screen) ==
    \A i \in DOMAIN q :
      q[i].kind \in {"name", "appears"} /\ LastOf(q, i, {"name", "appears"}) => q[i].from = screen

QueuesTell == SystemTells(sysQ, world.login, world.here) /\ ScreenTells(deskQ, world.screen)

Told(kinds) == Queued(sysQ, kinds)

-----------------------------------------------------------------------------
(* What the watcher holds.                                                 *)

\* An attestation of the screen saver that no consumed signal has overtaken.
Fresh(k) == job[k].pc \in {"attest", "finish"} /\ <<"screen", k>> \in current

\* A bus that is down has no queue, and nothing is believed of it.
BusesOK ==
    /\ ~w.sysUp => /\ ~w.deskUp /\ w.login = NoOwner /\ ~w.trusted /\ sysQ = <<>>
                   /\ \A k \in Workers : ~Fresh(k)
    /\ ~w.deskUp => w.screen = NoOwner /\ deskQ = <<>>
    /\ ~w.started \/ w.failed => ~w.sysUp
    /\ w.failed => w.started
    /\ w.closed => ~w.sysUp /\ \A k \in Workers : job[k].pc = "idle"

\* Whom a suspended attestation is about.
JobsOK ==
    /\ job["login"].pc \in {"idle", "system", "commit"}
    /\ \A k \in Workers :
         /\ job[k].pc # "idle" => (job[k].mode = "login") = (k = "login")
         /\ job[k].pc = "commit" => job[k].owner \in Logins \cap Genuine
         /\ job[k].pc \in {"attest", "finish"} => job[k].owner \in Screens
         /\ job[k].pc = "finish" => job[k].owner \in Genuine

\* The owners the watcher has adopted are those of the names, or a change is queued.
OwnersTold ==
    /\ w.login # NoOwner =>
         w.login \in Genuine /\ (world.login = w.login \/ Told({"name"}))
    /\ w.screen # NoOwner =>
         w.screen \in Genuine /\ (world.screen = w.screen \/ Queued(deskQ, {"name", "appears"}))

SessionTold ==
    w.trusted /\ w.login # NoOwner => world.here = w.here \/ Told({"away", "back", "name"})

\* The trust in an owner who was forgotten and whom the consumer no longer looks for; while it
\* does, nothing is believed.
DeafOK ==
    /\ w.login = NoOwner => deaf = (w.trusted /\ job["login"].pc = "idle")
    /\ deaf => job["login"].pc = "idle"
    /\ w.login = NoOwner /\ job["login"].pc # "idle" =>
         ~(w.ready /\ w.screen # NoOwner) /\ \A k \in Workers : ~Fresh(k)

\* What was attested, or is being attested, is still believed or about to be withdrawn.
TrustTold ==
    ~deaf /\ ((w.ready /\ w.screen # NoOwner) \/ \E k \in Workers : Fresh(k))
      => w.trusted \/ Told({"name"})

DesktopTold ==
    ~deaf /\ \/ w.ready /\ w.screen \in Contracted
             \/ \E k \in Workers : Fresh(k) /\ job[k].pc = "finish" /\ job[k].owner \in Contracted
      => (world.desktop /\ world.session) \/ Told({"topology", "gone", "name"})

ContextInv ==
    /\ TypeOK /\ QueuesTell /\ BusesOK /\ JobsOK /\ OwnersTold /\ SessionTold
    /\ DeafOK /\ TrustTold /\ DesktopTold

\* An event that is owed is still in the queue, and nothing has put the watcher in doubt but
\* a change of owner that is queued too.
EventsOK ==
    owed => /\ open /\ w.sysUp /\ ~w.closed /\ w.login # NoOwner /\ job["login"].pc = "idle"
            /\ w.trusted \/ Told({"name"})
            /\ Told(Sealing)

-----------------------------------------------------------------------------
(* The requested lock.                                                     *)

\* How many serials were given before s.
Ord(s) == IF s >= FirstSerial THEN s - FirstSerial ELSE s + SerialSpace - 1 - FirstSerial
Before(s, now) == Ord(s) < Ord(now)
Pending == IF lock.pc \in {"read", "sent"} THEN 2 ELSE 0

Frames(q) == {q[i] : i \in {j \in DOMAIN q : q[j].kind \in {"active", "inactive"}}}

\* Every serial that is known was given, and those still to be given fit before the half of the
\* circle ends.
SerialsOK ==
    /\ 2 * (Ord(world.serial) + world.left.covers + 3 * world.left.locks + Pending + 2)
         <= SerialSpace
    /\ \A m \in Frames(deskQ) : m.serial # 0 /\ Before(m.serial, world.serial)
    /\ lock.pc = "answered" => lock.reply # 0 /\ Before(lock.reply, world.serial)
    /\ \A s \in {lock.cycle.ack, lock.cycle.active, lock.cycle.inactive} :
         s # 0 => Before(s, world.serial)

\* The answer to the request, on its way or arrived.
Answers == (IF lock.pc = "answered" THEN {lock.reply} ELSE {}) \cup ({lock.cycle.ack} \ {0})

\* The cycle is of this request; while the screen is still locked, every end of a cover that is
\* queued or noted is older than the answer.
CycleOK ==
    /\ ~lock.on => lock.cycle = NoCycle
    /\ lock.pc = "read" => ~lock.on
    /\ lock.pc # "idle" => lock.cycle.ack = 0
    /\ lock.pc = "sent" /\ lock.cycle.capable => lock.to \in Contracted
    /\ lock.cycle.capable /\ Answers # {} => lock.real # "no"
    /\ lock.real = "locked" => \A a \in Answers :
         /\ \A m \in Frames(deskQ) : m.kind = "inactive" => Ord(m.serial) < Ord(a)
         /\ lock.cycle.inactive # 0 => Ord(lock.cycle.inactive) < Ord(a)
    /\ lock.cycle.lockSaid => lock.cycle.capable /\ lock.cycle.ack # 0
    /\ lock.cycle.goneSaid => lock.cycle.lockSaid /\ lock.real = "unlocked"

WatchInv == ContextInv /\ EventsOK /\ SerialsOK /\ CycleOK

-----------------------------------------------------------------------------
(* Lemmas about queues.                                                    *)

\* What a queue is after a signal was received: the earlier ones and that one.
LEMMA Received ==
  ASSUME NEW q \in Seq(Signals), NEW m \in Signals
  PROVE  /\ Append(q, m) \in Seq(Signals) /\ DOMAIN Append(q, m) = 1..(Len(q) + 1)
         /\ DOMAIN q = 1..Len(q) /\ Len(q) \in Nat
         /\ \A i \in DOMAIN q : Append(q, m)[i] = q[i]
         /\ Append(q, m)[Len(q) + 1] = m
         /\ q \o <<m>> = Append(q, m)
  BY AppendProperties, AppendIsConcat

\* What it is after the first one was consumed.
LEMMA Consumed ==
  ASSUME NEW q \in Seq(Signals), q # <<>>
  PROVE  /\ Head(q) \in Signals /\ Head(q) = q[1] /\ Tail(q) \in Seq(Signals)
         /\ DOMAIN q = 1..Len(q) /\ Len(q) \in Nat \ {0}
         /\ DOMAIN Tail(q) = 1..(Len(q) - 1)
         /\ \A i \in DOMAIN Tail(q) : Tail(q)[i] = q[i + 1]
<1>1. Len(q) \in Nat \ {0}
  BY EmptySeq
<1> QED
  BY <1>1, HeadTailProperties

\* A signal that is queued stays so when another is received.
LEMMA QueuedStays ==
  ASSUME NEW q \in Seq(Signals), NEW m \in Signals, NEW kinds, Queued(q, kinds)
  PROVE  Queued(Append(q, m), kinds)
<1>1. PICK i \in DOMAIN q : q[i].kind \in kinds
  BY DEF Queued
<1> QED
  BY <1>1, Received DEF Queued

\* One of the kind received is queued.
LEMMA QueuedNew ==
  ASSUME NEW q \in Seq(Signals), NEW m \in Signals, NEW kinds, m.kind \in kinds
  PROVE  Queued(Append(q, m), kinds)
<1>1. Len(q) + 1 \in DOMAIN Append(q, m)
  BY Received
<1> QED
  BY <1>1, Received DEF Queued

\* A signal that is queued stays so when one of another kind is consumed.
LEMMA QueuedRemains ==
  ASSUME NEW q \in Seq(Signals), q # <<>>, NEW kinds, Queued(q, kinds), Head(q).kind \notin kinds
  PROVE  Queued(Tail(q), kinds)
<1>1. PICK i \in DOMAIN q : q[i].kind \in kinds
  BY DEF Queued
<1>2. i # 1
  BY <1>1, Consumed
<1>3. i - 1 \in DOMAIN Tail(q) /\ Tail(q)[i - 1] = q[i]
  BY <1>1, <1>2, Consumed
<1> QED
  BY <1>1, <1>3 DEF Queued

LEMMA NoneQueued == ASSUME NEW kinds PROVE ~Queued(<<>>, kinds)
  BY DEF Queued

\* The order of what is left when a signal was consumed.
LEMMA LastRemains ==
  ASSUME NEW q \in Seq(Signals), q # <<>>, NEW kinds, NEW i \in DOMAIN Tail(q)
  PROVE  LastOf(Tail(q), i, kinds) <=> LastOf(q, i + 1, kinds)
<1>1. ASSUME LastOf(Tail(q), i, kinds), NEW j \in DOMAIN q, j > i + 1
      PROVE  q[j].kind \notin kinds
  <2>1. j - 1 \in DOMAIN Tail(q) /\ j - 1 > i /\ Tail(q)[j - 1] = q[j]
    BY <1>1, Consumed
  <2> QED
    BY <1>1, <2>1 DEF LastOf
<1>2. ASSUME LastOf(q, i + 1, kinds), NEW j \in DOMAIN Tail(q), j > i
      PROVE  Tail(q)[j].kind \notin kinds
  <2>1. j + 1 \in DOMAIN q /\ j + 1 > i + 1 /\ Tail(q)[j] = q[j + 1]
    BY <1>2, Consumed
  <2> QED
    BY <1>2, <2>1 DEF LastOf
<1> QED
  BY <1>1, <1>2 DEF LastOf

LEMMA SystemStillTells ==
  ASSUME NEW q \in Seq(Signals), q # <<>>, NEW l, NEW h, SystemTells(q, l, h)
  PROVE  SystemTells(Tail(q), l, h)
<1> SUFFICES ASSUME NEW i \in DOMAIN Tail(q)
             PROVE  /\ Tail(q)[i].kind # "name" /\ Tail(q)[i].from # l
                         => ~LastOf(Tail(q), i, {"name"})
                    /\ Tail(q)[i].kind \in {"away", "back"} /\ LastOf(Tail(q), i, {"away", "back"})
                         => h = (Tail(q)[i].kind = "back")
  BY DEF SystemTells
<1>1. i + 1 \in DOMAIN q /\ Tail(q)[i] = q[i + 1]
  BY Consumed
<1> QED
  BY <1>1, LastRemains DEF SystemTells

LEMMA ScreenStillTells ==
  ASSUME NEW q \in Seq(Signals), q # <<>>, NEW s, ScreenTells(q, s)
  PROVE  ScreenTells(Tail(q), s)
<1> SUFFICES ASSUME NEW i \in DOMAIN Tail(q),
                    Tail(q)[i].kind \in {"name", "appears"},
                    LastOf(Tail(q), i, {"name", "appears"})
             PROVE  Tail(q)[i].from = s
  BY DEF ScreenTells
<1>1. i + 1 \in DOMAIN q /\ Tail(q)[i] = q[i + 1]
  BY Consumed
<1> QED
  BY <1>1, LastRemains DEF ScreenTells

\* The order when a signal was received: it is the last, and an earlier one is the last of its
\* kinds still unless the new one is of them.
LEMMA LastReceived ==
  ASSUME NEW q \in Seq(Signals), NEW m \in Signals, NEW kinds, NEW i \in DOMAIN q
  PROVE  LastOf(Append(q, m), i, kinds) <=> LastOf(q, i, kinds) /\ m.kind \notin kinds
<1> DEFINE p == Append(q, m)
<1>1. DOMAIN p = (DOMAIN q) \cup {Len(q) + 1} /\ Len(q) + 1 > i
  BY Received
<1>2. \A j \in DOMAIN q : p[j] = q[j]
  BY Received
<1>3. p[Len(q) + 1] = m
  BY Received
<1> QED
  BY <1>1, <1>2, <1>3 DEF LastOf

\* logind says something; from is its present owner, and a switch of the console turns it.
LEMMA SystemTellsMore ==
  ASSUME NEW q \in Seq(Signals), NEW m \in Signals, NEW l, NEW h, NEW g, SystemTells(q, l, h),
         m.from = l, m.kind # "name",
         IF m.kind \in {"away", "back"} THEN g = (m.kind = "back") ELSE g = h
  PROVE  SystemTells(Append(q, m), l, g)
<1> DEFINE p == Append(q, m)
<1> SUFFICES ASSUME NEW i \in DOMAIN p
             PROVE  /\ p[i].kind # "name" /\ p[i].from # l => ~LastOf(p, i, {"name"})
                    /\ p[i].kind \in {"away", "back"} /\ LastOf(p, i, {"away", "back"})
                         => g = (p[i].kind = "back")
  BY DEF SystemTells
<1>1. CASE i \in DOMAIN q
  <2>1. p[i] = q[i]
    BY <1>1, Received
  <2>2. LastOf(p, i, {"name"}) => LastOf(q, i, {"name"})
    BY <1>1, LastReceived
  <2>3. LastOf(p, i, {"away", "back"}) => LastOf(q, i, {"away", "back"}) /\ g = h
    BY <1>1, LastReceived
  <2> QED
    BY <1>1, <2>1, <2>2, <2>3 DEF SystemTells
<1>2. CASE i = Len(q) + 1
  BY <1>2, Received
<1> QED
  BY <1>1, <1>2, Received

LEMMA SystemTellsOwner ==
  ASSUME NEW q \in Seq(Signals), NEW m \in Signals, NEW l, NEW h, SystemTells(q, l, h),
         m.kind = "name", NEW o
  PROVE  SystemTells(Append(q, m), o, h)
<1> DEFINE p == Append(q, m)
<1> SUFFICES ASSUME NEW i \in DOMAIN p
             PROVE  /\ p[i].kind # "name" => ~LastOf(p, i, {"name"})
                    /\ p[i].kind \in {"away", "back"} /\ LastOf(p, i, {"away", "back"})
                         => h = (p[i].kind = "back")
  BY DEF SystemTells
<1>1. CASE i \in DOMAIN q
  <2>1. p[i] = q[i] /\ ~LastOf(p, i, {"name"})
    BY <1>1, Received, LastReceived
  <2>2. LastOf(p, i, {"away", "back"}) => LastOf(q, i, {"away", "back"})
    BY <1>1, LastReceived
  <2> QED
    BY <1>1, <2>1, <2>2 DEF SystemTells
<1>2. CASE i = Len(q) + 1
  BY <1>2, Received
<1> QED
  BY <1>1, <1>2, Received

\* The session bus says something: of another kind, or that the name has this owner now.
LEMMA ScreenTellsMore ==
  ASSUME NEW q \in Seq(Signals), NEW m \in Signals, NEW s, NEW t, ScreenTells(q, s),
         IF m.kind \in {"name", "appears"} THEN m.from = t ELSE t = s
  PROVE  ScreenTells(Append(q, m), t)
<1> DEFINE p == Append(q, m)
<1> SUFFICES ASSUME NEW i \in DOMAIN p, p[i].kind \in {"name", "appears"},
                    LastOf(p, i, {"name", "appears"})
             PROVE  p[i].from = t
  BY DEF ScreenTells
<1>1. CASE i \in DOMAIN q
  <2>1. p[i] = q[i]
    BY <1>1, Received
  <2>2. LastOf(q, i, {"name", "appears"}) /\ t = s
    BY <1>1, LastReceived
  <2> QED
    BY <1>1, <2>1, <2>2 DEF ScreenTells
<1>2. CASE i = Len(q) + 1
  BY <1>2, Received
<1> QED
  BY <1>1, <1>2, Received

LEMMA NothingTold == ASSUME NEW l, NEW h, NEW s
                     PROVE  SystemTells(<<>>, l, h) /\ ScreenTells(<<>>, s)
  BY DEF SystemTells, ScreenTells

-----------------------------------------------------------------------------
(* Lemmas about the coroutines.                                            *)

\* No coroutine has gone on with an attestation of the screen saver, none has read an owner, and
\* the consumer of the system bus has not begun one.
Calm(j, next) ==
    /\ next \in [Workers -> Jobs]
    /\ \A k \in Workers :
         \/ next[k] = j[k] \/ next[k].pc = "idle"
         \/ next[k].pc \in {"system", "owner", "activate"} /\ k # "login" /\ next[k].mode # "login"

LEMMA JobTypes ==
  /\ Idle \in Jobs
  /\ \A mode \in {"none", "login", "start", "recheck", "prepare"},
        then \in {"idle", "prepare", "activate", "stop"} :
       /\ Begin(mode, then) \in Jobs
       /\ Begin(mode, then).pc = "system" /\ Begin(mode, then).mode = mode
  BY DEF Jobs, Idle, Begin, Owners

LEMMA WorkerNames == /\ "login" \in Workers /\ "desktop" \in Workers
                     /\ "task" \in Workers /\ "main" \in Workers
  BY DEF Workers

\* The caller of a re-check or of a round of the preparation goes on.
LEMMA LeaveIsCalm ==
  ASSUME TypeOK, JobsOK, NEW k \in Workers, k # "login", NEW x
  PROVE  Calm(job, Leave(k, x))
<1>1. job[k] \in Jobs
  BY DEF TypeOK
<1>2. CASE job[k].mode # "prepare"
  <2>1. Leave(k, x) = [job EXCEPT ![k] = IF job[k].then = "prepare"
                                         THEN Begin("prepare", "activate") ELSE Idle]
    BY <1>2 DEF Leave
  <2>2. Idle.pc = "idle"
    BY DEF Idle
  <2> QED
    BY <2>1, <2>2, JobTypes DEF Calm, TypeOK
<1>3. CASE job[k].mode = "prepare"
  <2>1. Leave(k, x) = [job EXCEPT ![k] = IF Attested(x) \/ job[k].then = "stop" THEN Idle
                                         ELSE [job[k] EXCEPT !.pc = "activate"]]
    BY <1>3 DEF Leave
  <2>2. /\ [job[k] EXCEPT !.pc = "activate"] \in Jobs
        /\ [job[k] EXCEPT !.pc = "activate"].pc = "activate"
        /\ [job[k] EXCEPT !.pc = "activate"].mode = "prepare"
    BY <1>1, <1>3 DEF Jobs
  <2>3. Idle.pc = "idle"
    BY DEF Idle
  <2> QED
    BY <1>3, <2>1, <2>2, <2>3, JobTypes DEF Calm, TypeOK
<1> QED
  BY <1>2, <1>3

LEMMA ReturnedIsCalm ==
  ASSUME TypeOK, JobsOK, NEW k \in Workers, k # "login", NEW x, NEW cur
  PROVE  Calm(job, Returned(k, x, cur))
<1>1. Begin("recheck", job[k].then) \in Jobs /\ Begin("recheck", job[k].then).pc = "system"
      /\ Begin("recheck", job[k].then).mode = "recheck"
  <2>1. job[k].then \in {"idle", "prepare", "activate", "stop"}
    BY DEF TypeOK, Jobs
  <2> HIDE DEF Jobs
  <2> QED
    BY <2>1, JobTypes
<1>2. Calm(job, [job EXCEPT ![k] = Begin("recheck", job[k].then)])
  BY <1>1 DEF Calm, TypeOK
<1> QED
  BY <1>2, LeaveIsCalm DEF Returned

LEMMA ScheduledIsCalm ==
  ASSUME NEW j \in [Workers -> Jobs], NEW x
  PROVE  Calm(j, Scheduled(x, j))
<1>1. Begin("recheck", "idle") \in Jobs /\ Begin("recheck", "idle").pc = "system"
      /\ Begin("recheck", "idle").mode = "recheck"
  BY JobTypes
<1>2. Calm(j, [j EXCEPT !["task"] = Begin("recheck", "idle")])
  BY <1>1, WorkerNames DEF Calm
<1>3. Calm(j, j)
  BY DEF Calm
<1> QED
  BY <1>2, <1>3 DEF Scheduled

\* A coroutine ends, or another one begins.
LEMMA EndedIsCalm ==
  ASSUME NEW j \in [Workers -> Jobs], NEW k \in Workers
  PROVE  Calm(j, [j EXCEPT ![k] = Idle])
<1>1. Idle.pc = "idle"
  BY DEF Idle
<1> QED
  BY <1>1, JobTypes DEF Calm

LEMMA BegunIsCalm ==
  ASSUME NEW j \in [Workers -> Jobs], NEW k \in Workers, k # "login",
         NEW mode \in {"start", "recheck", "prepare"},
         NEW then \in {"idle", "prepare", "activate", "stop"}
  PROVE  Calm(j, [j EXCEPT ![k] = Begin(mode, then)])
  BY JobTypes DEF Calm

LEMMA AllIdleIsCalm ==
  ASSUME NEW j \in [Workers -> Jobs]
  PROVE  Calm(j, AllIdle) /\ \A k \in Workers : AllIdle[k].pc = "idle"
  BY JobTypes DEF Calm, AllIdle, Idle

\* What a calm step leaves of the attestations.
LEMMA CalmKeepsJobs ==
  ASSUME TypeOK, JobsOK, Calm(job, job')
  PROVE  /\ JobsOK'
         /\ \A k \in Workers : job'[k].pc \in {"attest", "finish"} => job'[k] = job[k]
         /\ job["login"].pc = "idle" => job'["login"].pc = "idle"
<1>1. job' \in [Workers -> Jobs] /\ job \in [Workers -> Jobs]
  BY DEF Calm, TypeOK
<1>2. \A k \in Workers : \/ job'[k] = job[k] \/ job'[k].pc = "idle"
                         \/ /\ job'[k].pc \in {"system", "owner", "activate"}
                            /\ k # "login" /\ job'[k].mode # "login"
  BY DEF Calm
<1>3. "login" \in Workers
  BY WorkerNames
<1> QED
  BY <1>1, <1>2, <1>3 DEF JobsOK

-----------------------------------------------------------------------------
(* Lemmas about the watcher's fields.                                      *)

LEMMA StatusIs ==
  ASSUME NEW x \in Watchers, NEW system \in BOOLEAN, NEW screen \in BOOLEAN, NEW code
  PROVE  /\ Status(x, system, screen, code) \in Watchers
         /\ LET y == Status(x, system, screen, code)
            IN  /\ y.started = x.started /\ y.failed = x.failed /\ y.closed = x.closed
                /\ y.sysUp = x.sysUp /\ y.deskUp = x.deskUp /\ y.login = x.login
                /\ y.trusted = x.trusted /\ y.here = x.here /\ y.screen = x.screen
                /\ y.ready = screen
                /\ y.target = x.target /\ y.displayFailed = x.displayFailed
<1>1. Status(x, system, screen, code) \in Watchers
  BY DEF Status, Watchers
<1> QED
  BY <1>1 DEF Status, Watchers

LEMMA InvalidIs ==
  ASSUME NEW x \in Watchers, NEW code
  PROVE  /\ Invalid(x, code) \in Watchers
         /\ LET y == Invalid(x, code)
            IN  /\ y.started = x.started /\ y.failed = x.failed /\ y.closed = x.closed
                /\ y.sysUp = x.sysUp /\ y.deskUp = x.deskUp /\ y.login = x.login
                /\ y.trusted = x.trusted /\ y.here = x.here /\ y.screen = NoOwner
                /\ ~y.ready
                /\ y.target = x.target /\ y.displayFailed = x.displayFailed
<1> DEFINE z == [x EXCEPT !.screen = NoOwner]
<1> DEFINE up == x.trusted /\ x.sysUp
<1>1. up \in BOOLEAN
  BY DEF Watchers
<1>2. /\ z \in Watchers /\ z.started = x.started /\ z.failed = x.failed /\ z.closed = x.closed
      /\ z.sysUp = x.sysUp /\ z.deskUp = x.deskUp /\ z.login = x.login
      /\ z.trusted = x.trusted /\ z.here = x.here /\ z.screen = NoOwner
      /\ z.target = x.target /\ z.displayFailed = x.displayFailed
  BY DEF Watchers
<1>3. Invalid(x, code) = [z EXCEPT !.watching = up, !.ready = FALSE,
                                   !.distrusted = (code = "cinnamon_untrusted")]
  BY DEF Invalid, Status
<1> HIDE DEF z, up
<1>4. Invalid(x, code) \in Watchers
  BY <1>1, <1>2, <1>3 DEF Watchers
<1> DEFINE y == Invalid(x, code)
<1>5. /\ y.started = z.started /\ y.failed = z.failed /\ y.closed = z.closed
      /\ y.sysUp = z.sysUp /\ y.deskUp = z.deskUp /\ y.login = z.login
      /\ y.trusted = z.trusted /\ y.here = z.here /\ y.screen = z.screen /\ ~y.ready
      /\ y.target = z.target /\ y.displayFailed = z.displayFailed
  BY <1>2, <1>3 DEF Watchers
<1> QED
  BY <1>2, <1>4, <1>5

LEMMA DownIs ==
  ASSUME NEW x \in Watchers, NEW code
  PROVE  /\ Down(x, code) \in Watchers
         /\ LET y == Down(x, code)
            IN  /\ y.started = x.started /\ y.failed = x.failed /\ y.closed = x.closed
                /\ ~y.sysUp /\ ~y.deskUp /\ y.login = NoOwner /\ ~y.trusted
                /\ y.screen = NoOwner /\ ~y.ready
<1> DEFINE z == [x EXCEPT !.login = NoOwner, !.screen = NoOwner, !.trusted = FALSE,
                          !.sysUp = FALSE, !.deskUp = FALSE]
<1>1. /\ z \in Watchers /\ z.started = x.started /\ z.failed = x.failed /\ z.closed = x.closed
      /\ ~z.sysUp /\ ~z.deskUp /\ z.login = NoOwner /\ ~z.trusted /\ z.screen = NoOwner
  BY DEF Watchers
<1>2. Down(x, code) = [z EXCEPT !.watching = FALSE, !.ready = FALSE,
                                !.distrusted = (code = "cinnamon_untrusted")]
  BY DEF Down, Status
<1> HIDE DEF z
<1> QED
  BY <1>1, <1>2 DEF Watchers

LEMMA VerdictIs ==
  ASSUME TypeOK
  PROVE  /\ DisplayVerdict \in Watchers
         /\ LET y == DisplayVerdict
            IN  /\ y.started = w.started /\ y.failed = w.failed /\ y.closed = w.closed
                /\ y.sysUp = w.sysUp /\ y.deskUp = w.deskUp /\ y.login = w.login
                /\ y.trusted = w.trusted /\ y.here = w.here /\ y.screen = NoOwner /\ ~y.ready
<1> DEFINE y == Invalid(w, IF world.display THEN "display_namespace_rechecking"
                           ELSE "display_namespace_changed")
<1>1. w \in Watchers /\ world.display \in BOOLEAN
  BY DEF TypeOK, Desktops
<1>2. DisplayVerdict = [y EXCEPT !.displayFailed = ~world.display]
  BY DEF DisplayVerdict
<1>3. /\ y \in Watchers /\ y.started = w.started /\ y.failed = w.failed /\ y.closed = w.closed
      /\ y.sysUp = w.sysUp /\ y.deskUp = w.deskUp /\ y.login = w.login
      /\ y.trusted = w.trusted /\ y.here = w.here /\ y.screen = NoOwner /\ ~y.ready
  BY <1>1, InvalidIs
<1> HIDE DEF y
<1> QED
  BY <1>1, <1>2, <1>3 DEF Watchers

\* What a failing step has changed: nothing, the target, or the verdict of the last look.
LEMMA SoFarIs ==
  ASSUME TypeOK, NEW k \in Workers
  PROVE  /\ SoFar(k) \in Watchers
         /\ LET y == SoFar(k)
            IN  /\ y.started = w.started /\ y.failed = w.failed /\ y.closed = w.closed
                /\ y.sysUp = w.sysUp /\ y.deskUp = w.deskUp /\ y.login = w.login
                /\ y.trusted = w.trusted /\ y.here = w.here
                /\ (y.screen = NoOwner /\ ~y.ready) \/ (y.screen = w.screen /\ y.ready = w.ready)
<1>1. w \in Watchers /\ world.display \in BOOLEAN
  BY DEF TypeOK, Desktops
<1>2. CASE LastLook(k)
  <2>1. SoFar(k) = DisplayVerdict
    BY <1>2, job[k].pc = "finish" DEF SoFar, LastLook
  <2> QED
    BY <2>1, VerdictIs
<1>3. CASE ~LastLook(k) /\ job[k].pc = "attest" /\ job[k].owner \in Contracted /\ Desktop
  <2>1. SoFar(k) = [w EXCEPT !.target = TRUE, !.displayFailed = ~world.display]
    BY <1>3 DEF SoFar
  <2>2. (~world.display) \in BOOLEAN
    BY <1>1
  <2> QED
    BY <1>1, <2>1, <2>2 DEF Watchers
<1>4. CASE ~LastLook(k) /\ ~(job[k].pc = "attest" /\ job[k].owner \in Contracted /\ Desktop)
  <2>1. SoFar(k) = w
    BY <1>4 DEF SoFar
  <2> QED
    BY <1>1, <2>1
<1> QED
  BY <1>2, <1>3, <1>4

-----------------------------------------------------------------------------
(* What a step keeps.                                                      *)

Snapshots == {"loop", "screen", "lock"} \X (Workers \cup {"cycle", "test"})
Locks == [pc : {"idle", "read", "sent", "answered"}, on : BOOLEAN,
          to : Screens \cup {NoOwner}, base : Serials, reply : Serials,
          cycle : Cycles, real : {"no", "locked", "unlocked"}]

\* The desktop is as it was.
SameDesktop ==
    /\ world'.login = world.login /\ world'.screen = world.screen /\ world'.here = world.here
    /\ world'.desktop = world.desktop /\ world'.session = world.session

\* No attestation is believed that was not believed before.
NoneNew == \A k \in Workers : <<"screen", k>> \in current' => <<"screen", k>> \in current

LEMMA TypesKept ==
  ASSUME TypeOK, Promise, world' \in Desktops, w' \in Watchers, sysQ' \in Seq(Signals),
         deskQ' \in Seq(Signals), job' \in [Workers -> Jobs], current' \subseteq Snapshots,
         lock' \in Locks, open' \in BOOLEAN
  PROVE  TypeOK'
<1>1. w'.trusted \in BOOLEAN /\ deaf \in BOOLEAN
  BY DEF Watchers, TypeOK
<1>2. deaf' \in BOOLEAN
  BY <1>1 DEF Promise
<1>3. owed' \in BOOLEAN
  BY DEF Promise
<1> QED
  BY <1>2, <1>3 DEF TypeOK, Locks, Snapshots

\* Nothing was announced by a step that leaves the queue of the system bus no longer.
LEMMA NotAnnounced ==
  ASSUME TypeOK, Promise, EventsOK, Len(sysQ') <= Len(sysQ), owed'
  PROVE  owed /\ open' /\ ~w'.closed
<1>1. ~(Len(sysQ') > Len(sysQ))
  BY LenProperties DEF TypeOK
<1>2. ~Announced
  BY <1>1 DEF Announced
<1> QED
  BY <1>2 DEF Promise

\* The trust in a forgotten owner is remembered as long as neither changes.
LEMMA DeafKept ==
  ASSUME Promise, DeafOK, job["login"].pc = "idle" => job'["login"].pc = "idle",
         w'.login = w.login, w.trusted => w'.trusted
  PROVE  ~deaf' => ~deaf
  BY DEF Promise, DeafOK

\* What is believed while the consumer looks for an owner.
LEMMA DeafAgain ==
  ASSUME Promise, DeafOK, job["login"].pc = "idle" => job'["login"].pc = "idle",
         w'.login = NoOwner => w.login = NoOwner,
         w'.ready /\ w'.screen # NoOwner => w.ready /\ w.screen # NoOwner,
         w'.login = NoOwner => \A k \in Workers : Fresh(k)' => Fresh(k)
  PROVE  DeafOK'
  BY DEF Promise, DeafOK

\* A coroutine goes on, or what it had attested is taken back; logind and the watcher's view of
\* it stay.
LEMMA CalmSafe ==
  ASSUME ContextInv, EventsOK, Promise, world' \in Desktops, w' \in Watchers,
         deskQ' \in Seq(Signals), current' \subseteq Snapshots, lock' \in Locks,
         open' \in BOOLEAN, sysQ' = sysQ,
         world'.login = world.login, world'.here = world.here,
         world'.desktop = world.desktop, world'.session = world.session,
         Calm(job, job'), w.closed => job' = job, NoneNew,
         w'.started = w.started, w'.failed = w.failed, w'.closed = w.closed,
         w'.sysUp = w.sysUp, w'.login = w.login, w'.trusted = w.trusted, w'.here = w.here,
         w'.screen \in {w.screen, NoOwner}, w'.ready /\ w'.screen # NoOwner => w.ready,
         ~w.sysUp => ~w'.deskUp, ~w'.deskUp => w'.screen = NoOwner /\ deskQ' = <<>>,
         ScreenTells(deskQ', world'.screen),
         w'.screen # NoOwner =>
           world'.screen = w'.screen \/ Queued(deskQ', {"name", "appears"})
  PROVE  ContextInv' /\ EventsOK'
<1>0. TypeOK /\ QueuesTell /\ BusesOK /\ JobsOK /\ OwnersTold /\ SessionTold
      /\ DeafOK /\ TrustTold /\ DesktopTold
  BY DEF ContextInv
<1>1. TypeOK'
  BY <1>0, TypesKept DEF Calm, TypeOK
<1>2. /\ JobsOK' /\ \A k \in Workers : job'[k].pc \in {"attest", "finish"} => job'[k] = job[k]
      /\ job["login"].pc = "idle" => job'["login"].pc = "idle"
  BY <1>0, CalmKeepsJobs
<1>3. \A k \in Workers : Fresh(k)' => Fresh(k) /\ job'[k] = job[k]
  BY <1>2 DEF Fresh, NoneNew
<1>4. ~deaf' => ~deaf
  BY <1>0, <1>2, DeafKept
<1>5. NoOwner \notin Contracted
  BY OwnersAssumption
<1>6. QueuesTell'
  BY <1>0 DEF QueuesTell
<1>7. BusesOK'
  <2>1. ~w'.sysUp => \A k \in Workers : ~Fresh(k)'
    BY <1>0, <1>3 DEF BusesOK
  <2>2. w'.closed => \A k \in Workers : job'[k].pc = "idle"
    BY <1>0 DEF BusesOK
  <2> QED
    BY <1>0, <2>1, <2>2 DEF BusesOK
<1>8. OwnersTold'
  BY <1>0 DEF OwnersTold, Told
<1>9. SessionTold'
  BY <1>0 DEF SessionTold, Told
<1>10. DeafOK'
  BY <1>0, <1>2, <1>3, DeafAgain
<1>11. TrustTold'
  BY <1>0, <1>3, <1>4 DEF TrustTold, Told
<1>12. DesktopTold'
  BY <1>0, <1>3, <1>4, <1>5 DEF DesktopTold, Told
<1>13. EventsOK'
  <2> SUFFICES ASSUME owed' PROVE EventsOK'
    BY DEF EventsOK
  <2>1. owed /\ open' /\ ~w'.closed
    BY <1>0, NotAnnounced, LenProperties DEF TypeOK
  <2> QED
    BY <1>2, <2>1 DEF EventsOK, Told
<1> QED
  BY <1>1, <1>2, <1>6, <1>7, <1>8, <1>9, <1>10, <1>11, <1>12, <1>13 DEF ContextInv

\* The same, where the session bus stays as it was.
LEMMA Withdrawn ==
  ASSUME ContextInv, EventsOK, Promise, world' \in Desktops, w' \in Watchers,
         deskQ' = deskQ, current' \subseteq Snapshots, lock' \in Locks,
         open' \in BOOLEAN, sysQ' = sysQ, SameDesktop,
         Calm(job, job'), w.closed => job' = job, NoneNew,
         w'.started = w.started, w'.failed = w.failed, w'.closed = w.closed,
         w'.sysUp = w.sysUp, w'.login = w.login, w'.trusted = w.trusted, w'.here = w.here,
         w'.deskUp = w.deskUp,
         (w'.screen = NoOwner /\ ~w'.ready) \/ (w'.screen = w.screen /\ w'.ready = w.ready)
  PROVE  ContextInv' /\ EventsOK'
<1>1. TypeOK /\ QueuesTell /\ BusesOK /\ OwnersTold
  BY DEF ContextInv
<1>2. w'.screen \in {w.screen, NoOwner} /\ (w'.ready /\ w'.screen # NoOwner => w.ready)
  OBVIOUS
<1>3. deskQ' \in Seq(Signals) /\ ScreenTells(deskQ', world'.screen)
  BY <1>1 DEF TypeOK, QueuesTell, SameDesktop
<1>4. (~w.sysUp => ~w'.deskUp) /\ (~w'.deskUp => w'.screen = NoOwner /\ deskQ' = <<>>)
  BY <1>1, <1>2 DEF BusesOK
<1>5. w'.screen # NoOwner => world'.screen = w'.screen \/ Queued(deskQ', {"name", "appears"})
  BY <1>1, <1>2 DEF OwnersTold, SameDesktop
<1> QED
  BY <1>2, <1>3, <1>4, <1>5, CalmSafe DEF SameDesktop

\* The desktop moves on, the watcher does not.
LEMMA WorldSafe ==
  ASSUME ContextInv, EventsOK, Promise, world' \in Desktops, sysQ' \in Seq(Signals),
         deskQ' \in Seq(Signals), lock' \in Locks,
         w' = w, job' = job, current' = current, open' = open,
         SystemTells(sysQ', world'.login, world'.here), ScreenTells(deskQ', world'.screen),
         ~w.sysUp => sysQ' = <<>>, ~w.deskUp => deskQ' = <<>>,
         \A kinds : Queued(sysQ, kinds) => Queued(sysQ', kinds),
         \A kinds : Queued(deskQ, kinds) => Queued(deskQ', kinds),
         w.sysUp => world'.login = world.login \/ Queued(sysQ', {"name"}),
         w.sysUp => world'.here = world.here \/ Queued(sysQ', {"away", "back"}),
         w.sysUp => \/ world'.desktop = world.desktop /\ world'.session = world.session
                    \/ Queued(sysQ', {"topology", "gone"}),
         w.deskUp => world'.screen = world.screen \/ Queued(deskQ', {"name", "appears"})
  PROVE  ContextInv' /\ EventsOK'
<1>0. TypeOK /\ QueuesTell /\ BusesOK /\ JobsOK /\ OwnersTold /\ SessionTold
      /\ DeafOK /\ TrustTold /\ DesktopTold
  BY DEF ContextInv
<1>1. TypeOK'
  BY <1>0, TypesKept DEF TypeOK, Snapshots
<1>2. JobsOK' /\ \A k \in Workers : Fresh(k)' <=> Fresh(k)
  BY <1>0 DEF JobsOK, Fresh
<1>3. ~deaf' => ~deaf
  BY <1>0, DeafKept
<1>4. QueuesTell'
  BY DEF QueuesTell
<1>5. BusesOK'
  BY <1>0, <1>2 DEF BusesOK
<1>6. w.login # NoOwner \/ w.trusted => w.sysUp
  BY <1>0 DEF BusesOK
<1>7. \A a, b : Queued(sysQ', a) => Queued(sysQ', a \cup b)
  BY DEF Queued
<1>8. Queued(sysQ', {"away", "back"}) => Queued(sysQ', {"away", "back", "name"})
  BY DEF Queued
<1>9. Queued(sysQ', {"topology", "gone"}) => Queued(sysQ', {"topology", "gone", "name"})
  BY DEF Queued
<1>10. OwnersTold'
  BY <1>0, <1>6 DEF OwnersTold, Told, BusesOK
<1>11. SessionTold'
  BY <1>0, <1>6, <1>8 DEF SessionTold, Told
<1>12. DeafOK'
  BY <1>0, <1>2, DeafAgain
<1>13. TrustTold'
  BY <1>0, <1>2, <1>3 DEF TrustTold, Told
<1>14. DesktopTold'
  <2> SUFFICES ASSUME ~deaf, \/ w.ready /\ w.screen \in Contracted
                            \/ \E k \in Workers : Fresh(k) /\ job[k].pc = "finish"
                                                   /\ job[k].owner \in Contracted
               PROVE  (world'.desktop /\ world'.session) \/ Told({"topology", "gone", "name"})'
    BY <1>2, <1>3 DEF DesktopTold
  <2>1. w.sysUp
    BY <1>0, OwnersAssumption DEF BusesOK
  <2>2. (world.desktop /\ world.session) \/ Told({"topology", "gone", "name"})
    BY <1>0 DEF DesktopTold
  <2> QED
    BY <2>1, <2>2, <1>9 DEF Told
<1>15. EventsOK'
  <2> SUFFICES ASSUME owed' PROVE EventsOK'
    BY DEF EventsOK
  <2>1. open' /\ ~w'.closed /\ (owed \/ (Announced /\ w.trusted /\ w.login # NoOwner
                                             /\ job["login"].pc = "idle"))
    BY DEF Promise
  <2>2. CASE owed
    BY <2>1, <2>2 DEF EventsOK, Told
  <2>3. CASE Announced /\ w.trusted /\ w.login # NoOwner /\ job["login"].pc = "idle"
    <3>1. Len(sysQ') \in Nat /\ Len(sysQ) \in Nat /\ DOMAIN sysQ' = 1..Len(sysQ')
      BY <1>0, LenProperties DEF TypeOK
    <3>2. Len(sysQ') \in DOMAIN sysQ' /\ sysQ'[Len(sysQ')].kind \in Sealing
      BY <2>3, <3>1 DEF Announced
    <3>3. Queued(sysQ', Sealing)
      BY <3>2 DEF Queued
    <3> QED
      BY <1>6, <2>1, <2>3, <3>3 DEF EventsOK, Told
  <2> QED
    BY <2>1, <2>2, <2>3
<1> QED
  BY <1>1, <1>2, <1>4, <1>5, <1>10, <1>11, <1>12, <1>13, <1>14, <1>15 DEF ContextInv

\* The buses are down, or only the system bus is open and nothing has been read.
LEMMA DownSafe ==
  ASSUME ContextInv, EventsOK, Promise, world' \in Desktops, w' \in Watchers,
         current' \subseteq Snapshots, lock' \in Locks, open' \in BOOLEAN,
         sysQ' = <<>>, deskQ' = <<>>, Calm(job, job'), \A k \in Workers : ~Fresh(k)',
         w'.login = NoOwner, ~w'.trusted, w'.screen = NoOwner, ~w'.deskUp,
         ~w'.started \/ w'.failed => ~w'.sysUp, w'.failed => w'.started,
         w'.closed => ~w'.sysUp /\ \A k \in Workers : job'[k].pc = "idle",
         ~owed \/ ~open' \/ w'.closed
  PROVE  ContextInv' /\ EventsOK'
<1>0. TypeOK /\ JobsOK
  BY DEF ContextInv
<1>1. <<>> \in Seq(Signals)
  BY EmptySeq
<1>2. TypeOK'
  BY <1>0, <1>1, TypesKept DEF Calm
<1>3. JobsOK'
  BY <1>0, CalmKeepsJobs
<1>4. deaf' = FALSE
  BY DEF Promise
<1>5. QueuesTell'
  BY NothingTold DEF QueuesTell
<1>6. BusesOK'
  BY DEF BusesOK
<1>8. OwnersTold' /\ SessionTold' /\ DeafOK' /\ TrustTold'
  BY <1>4 DEF OwnersTold, SessionTold, DeafOK, TrustTold
<1>9. DesktopTold'
  <2>1. \A k \in Workers : ~Fresh(k)'
    OBVIOUS
  <2>2. w'.screen \notin Contracted
    BY OwnersAssumption
  <2> QED
    BY <2>1, <2>2 DEF DesktopTold
<1>7. ~owed'
  BY <1>0, NotAnnounced, LenProperties, EmptySeq DEF TypeOK
<1> QED
  BY <1>2, <1>3, <1>5, <1>6, <1>7, <1>8, <1>9 DEF ContextInv, EventsOK

\* logind is trusted.
LEMMA AdoptSafe ==
  ASSUME ContextInv, EventsOK, Promise, world' \in Desktops, w' \in Watchers,
         current' \subseteq Snapshots, lock' \in Locks, open' \in BOOLEAN,
         sysQ' = sysQ, deskQ' = deskQ, SameDesktop, Calm(job, job'), NoneNew,
         w.sysUp, ~w.closed, w'.started = w.started, w'.failed = w.failed, w'.closed = w.closed, w'.sysUp,
         w'.login = w.login, w'.trusted, w'.here = world.here,
         w'.screen \in {w.screen, NoOwner}, w'.ready => w.ready, w.deskUp => w'.deskUp
  PROVE  ContextInv' /\ EventsOK'
<1>0. TypeOK /\ QueuesTell /\ BusesOK /\ JobsOK /\ OwnersTold /\ SessionTold
      /\ DeafOK /\ TrustTold /\ DesktopTold
  BY DEF ContextInv
<1>1. TypeOK'
  BY <1>0, TypesKept DEF Calm, TypeOK
<1>2. /\ JobsOK' /\ \A k \in Workers : job'[k].pc \in {"attest", "finish"} => job'[k] = job[k]
      /\ job["login"].pc = "idle" => job'["login"].pc = "idle"
  BY <1>0, CalmKeepsJobs
<1>3. \A k \in Workers : Fresh(k)' => Fresh(k) /\ job'[k] = job[k]
  BY <1>2 DEF Fresh, NoneNew
<1>5. ~deaf' => ~deaf
  BY <1>0, <1>2, DeafKept
<1>6. QueuesTell'
  BY <1>0 DEF QueuesTell, SameDesktop
<1>7. BusesOK'
  BY <1>0 DEF BusesOK
<1>8. OwnersTold' /\ SessionTold'
  BY <1>0 DEF OwnersTold, SessionTold, SameDesktop, Told
<1>9. DeafOK'
  BY <1>0, <1>2, <1>3, DeafAgain
<1>10. TrustTold'
  BY DEF TrustTold
<1>11. DesktopTold'
  BY <1>0, <1>3, <1>5, OwnersAssumption DEF DesktopTold, Told, SameDesktop
<1>12. EventsOK'
  <2> SUFFICES ASSUME owed' PROVE EventsOK'
    BY DEF EventsOK
  <2>1. owed /\ open' /\ ~w'.closed
    BY <1>0, NotAnnounced, LenProperties DEF TypeOK
  <2> QED
    BY <1>2, <2>1 DEF EventsOK, Told
<1> QED
  BY <1>1, <1>2, <1>6, <1>7, <1>8, <1>9, <1>10, <1>11, <1>12 DEF ContextInv

-----------------------------------------------------------------------------
(* The desktop.                                                            *)

LEMMA FailIs ==
  ASSUME TypeOK, Fail \/ UNCHANGED world
  PROVE  /\ world' \in Desktops /\ SameDesktop
         /\ world'.serial = world.serial /\ world'.left.covers = world.left.covers
         /\ world'.left.locks = world.left.locks
<1>1. world \in Desktops
  BY DEF TypeOK
<1>2. CASE Fail
  <2> DEFINE left == [world.left EXCEPT !.fails = @ - 1]
  <2>1. world.left.fails > 0 /\ world' = [world EXCEPT !.left = left]
    BY <1>2 DEF Fail
  <2>2. /\ left \in [events : Nat, fails : Nat, covers : Nat, locks : Nat, opens : BOOLEAN]
        /\ left.covers = world.left.covers /\ left.locks = world.left.locks
    BY <1>1, <2>1 DEF Desktops
  <2> HIDE DEF left
  <2> QED
    BY <1>1, <2>1, <2>2 DEF Desktops, SameDesktop
<1>3. CASE UNCHANGED world
  BY <1>1, <1>3 DEF SameDesktop
<1> QED
  BY <1>2, <1>3

LEMMA EventIs ==
  ASSUME NEW upd \in Desktops, upd.left.events > 0, Event(upd)
  PROVE  /\ world' \in Desktops
         /\ world'.login = upd.login /\ world'.screen = upd.screen /\ world'.here = upd.here
         /\ world'.desktop = upd.desktop /\ world'.session = upd.session
         /\ world'.serial = upd.serial /\ world'.left.covers = upd.left.covers
         /\ world'.left.locks = upd.left.locks
<1> DEFINE left == [upd.left EXCEPT !.events = @ - 1]
<1>1. world' = [upd EXCEPT !.left = left]
  BY DEF Event
<1>2. /\ left \in [events : Nat, fails : Nat, covers : Nat, locks : Nat, opens : BOOLEAN]
      /\ left.covers = upd.left.covers /\ left.locks = upd.left.locks
  BY DEF Desktops
<1> HIDE DEF left
<1> QED
  BY <1>1, <1>2 DEF Desktops

LEMMA LocksAre ==
  ASSUME TypeOK
  PROVE  /\ lock \in Locks /\ DropCycle \in Locks /\ current \subseteq Snapshots
         /\ \A k \in Workers : Own(k) \subseteq Snapshots
<1>1. NoCycle \in Cycles
  BY SerialAssumption DEF NoCycle, Cycles, Serials
<1>2. lock \in Locks /\ current \subseteq Snapshots
  BY DEF TypeOK, Locks, Snapshots
<1>3. DropCycle \in Locks
  BY <1>1, <1>2 DEF DropCycle, Locks
<1> QED
  BY <1>2, <1>3 DEF Own, Snapshots

\* logind says something, if the watcher listens.
LEMMA SystemSays ==
  ASSUME ContextInv, NEW m \in Signals, sysQ' = IF w.sysUp THEN Append(sysQ, m) ELSE sysQ
  PROVE  /\ sysQ' \in Seq(Signals) /\ (~w.sysUp => sysQ' = <<>>)
         /\ \A kinds : Queued(sysQ, kinds) => Queued(sysQ', kinds)
         /\ \A kinds : w.sysUp /\ m.kind \in kinds => Queued(sysQ', kinds)
<1>1. sysQ \in Seq(Signals) /\ (~w.sysUp => sysQ = <<>>)
  BY DEF ContextInv, TypeOK, BusesOK
<1>2. CASE w.sysUp
  BY <1>1, <1>2, Received, QueuedStays, QueuedNew
<1>3. CASE ~w.sysUp
  BY <1>1, <1>3
<1> QED
  BY <1>2, <1>3

LEMMA SystemSaysMore ==
  ASSUME ContextInv, NEW m \in Signals, NEW here, m.from = world.login, m.kind # "name",
         IF m.kind \in {"away", "back"} THEN here = (m.kind = "back") ELSE here = world.here,
         sysQ' = IF w.sysUp THEN Append(sysQ, m) ELSE sysQ
  PROVE  SystemTells(sysQ', world.login, here)
<1>1. sysQ \in Seq(Signals) /\ (~w.sysUp => sysQ = <<>>)
      /\ SystemTells(sysQ, world.login, world.here)
  BY DEF ContextInv, TypeOK, BusesOK, QueuesTell
<1>2. CASE w.sysUp
  BY <1>1, <1>2, SystemTellsMore
<1>3. CASE ~w.sysUp
  BY <1>1, <1>3, NothingTold
<1> QED
  BY <1>2, <1>3

\* So does the session bus.
LEMMA DeskSays ==
  ASSUME ContextInv, NEW m \in Signals, NEW screen, DeskSignals(<<m>>),
         IF m.kind \in {"name", "appears"} THEN m.from = screen ELSE screen = world.screen
  PROVE  /\ deskQ' \in Seq(Signals) /\ (~w.deskUp => deskQ' = <<>>)
         /\ ScreenTells(deskQ', screen)
         /\ \A kinds : Queued(deskQ, kinds) => Queued(deskQ', kinds)
         /\ \A kinds : w.deskUp /\ m.kind \in kinds => Queued(deskQ', kinds)
         /\ deskQ' = IF w.deskUp THEN Append(deskQ, m) ELSE deskQ
<1>1. deskQ \in Seq(Signals) /\ (~w.deskUp => deskQ = <<>>) /\ ScreenTells(deskQ, world.screen)
  BY DEF ContextInv, TypeOK, BusesOK, QueuesTell
<1>2. CASE w.deskUp
  <2>1. deskQ' = Append(deskQ, m)
    BY <1>1, <1>2, Received DEF DeskSignals
  <2>2. ScreenTells(Append(deskQ, m), screen)
    BY <1>1, ScreenTellsMore
  <2> QED
    BY <1>1, <1>2, <2>1, <2>2, Received, QueuedStays, QueuedNew
<1>3. CASE ~w.deskUp
  BY <1>1, <1>3, NothingTold DEF DeskSignals
<1> QED
  BY <1>2, <1>3

LEMMA SaidIs ==
  ASSUME TypeOK, NEW kind \in Sealing \cup {"back"}, NEW from \in Owners
  PROVE  /\ Say(kind, from) \in Signals /\ Say(kind, from).kind = kind
         /\ Say(kind, from).from = from
  BY SerialAssumption DEF Say, Signals, Serials

LEMMA ScreenOwnerChangesSafe ==
  ASSUME ContextInv, EventsOK, Promise, ScreenOwnerChanges
  PROVE  ContextInv' /\ EventsOK'
<1>1. PICK o \in (Screens \cup {NoOwner}) \ {world.screen} :
        /\ Spend
        /\ Event([world EXCEPT !.screen = o, !.active = FALSE, !.locked = FALSE])
        /\ DeskSignals(<<[kind |-> IF world.screen = NoOwner THEN "appears" ELSE "name",
                          from |-> o, serial |-> 0]>>)
  BY DEF ScreenOwnerChanges
<1> DEFINE upd == [world EXCEPT !.screen = o, !.active = FALSE, !.locked = FALSE]
           m == [kind |-> IF world.screen = NoOwner THEN "appears" ELSE "name",
                 from |-> o, serial |-> 0]
<1>2. TypeOK /\ QueuesTell /\ BusesOK
  BY DEF ContextInv
<1>3. /\ upd \in Desktops /\ upd.screen = o /\ upd.login = world.login /\ upd.here = world.here
      /\ upd.desktop = world.desktop /\ upd.session = world.session /\ upd.left = world.left
  BY <1>2 DEF TypeOK, Desktops
<1>4. m \in Signals /\ m.kind \in {"name", "appears"} /\ m.from = o
  BY SerialAssumption DEF Signals, Serials, Owners, Sealing
<1>5. DeskSignals(<<m>>) /\ Event(upd) /\ upd.left.events > 0
  BY <1>1, <1>3 DEF Spend
<1>6. w' = w /\ sysQ' = sysQ /\ job' = job /\ current' = current /\ lock' = lock /\ open' = open
  BY DEF ScreenOwnerChanges
<1> HIDE DEF upd, m
<1>7. /\ world' \in Desktops /\ world'.login = world.login /\ world'.screen = o
      /\ world'.here = world.here /\ world'.desktop = world.desktop
      /\ world'.session = world.session
  BY <1>3, <1>5, EventIs
<1>8. /\ deskQ' \in Seq(Signals) /\ (~w.deskUp => deskQ' = <<>>) /\ ScreenTells(deskQ', o)
      /\ \A kinds : Queued(deskQ, kinds) => Queued(deskQ', kinds)
      /\ w.deskUp => Queued(deskQ', {"name", "appears"})
  BY <1>4, <1>5, DeskSays
<1>9. sysQ' \in Seq(Signals) /\ SystemTells(sysQ', world'.login, world'.here)
      /\ (~w.sysUp => sysQ' = <<>>) /\ lock' \in Locks
  BY <1>2, <1>6, <1>7, LocksAre DEF TypeOK, QueuesTell, BusesOK
<1> QED
  BY <1>6, <1>7, <1>8, <1>9, WorldSafe

\* What logind tells of the desktop, and what stays on the session bus.
LEMMA LogindSafe ==
  ASSUME ContextInv, EventsOK, Promise, NEW upd \in Desktops, upd.left = world.left,
         upd.screen = world.screen, Spend, Event(upd), NEW m \in Signals,
         sysQ' = IF w.sysUp THEN Append(sysQ, m) ELSE sysQ,
         SystemTells(sysQ', upd.login, upd.here),
         upd.login = world.login \/ m.kind = "name",
         upd.here = world.here \/ m.kind \in {"away", "back"},
         (upd.desktop = world.desktop /\ upd.session = world.session)
           \/ m.kind \in {"topology", "gone"},
         UNCHANGED <<w, deskQ, job, current, lock, open>>
  PROVE  ContextInv' /\ EventsOK'
<1>1. TypeOK /\ QueuesTell /\ BusesOK
  BY DEF ContextInv
<1>2. upd.left.events > 0
  BY DEF Spend
<1>3. /\ world' \in Desktops /\ world'.login = upd.login /\ world'.screen = world.screen
      /\ world'.here = upd.here /\ world'.desktop = upd.desktop /\ world'.session = upd.session
  BY <1>2, EventIs
<1>4. /\ sysQ' \in Seq(Signals) /\ (~w.sysUp => sysQ' = <<>>)
      /\ \A kinds : Queued(sysQ, kinds) => Queued(sysQ', kinds)
      /\ \A kinds : w.sysUp /\ m.kind \in kinds => Queued(sysQ', kinds)
  BY SystemSays
<1>5. /\ w' = w /\ job' = job /\ current' = current /\ open' = open /\ lock' \in Locks
      /\ deskQ' \in Seq(Signals) /\ (~w.deskUp => deskQ' = <<>>)
      /\ ScreenTells(deskQ', world'.screen)
      /\ \A kinds : Queued(deskQ, kinds) => Queued(deskQ', kinds)
  BY <1>1, <1>3, LocksAre DEF TypeOK, QueuesTell, BusesOK
<1>6. /\ w.sysUp => world'.login = world.login \/ Queued(sysQ', {"name"})
      /\ w.sysUp => world'.here = world.here \/ Queued(sysQ', {"away", "back"})
      /\ w.sysUp => \/ world'.desktop = world.desktop /\ world'.session = world.session
                    \/ Queued(sysQ', {"topology", "gone"})
  BY <1>3, <1>4
<1> QED
  BY <1>3, <1>4, <1>5, <1>6, WorldSafe

LEMMA LogindActsSafe ==
  ASSUME ContextInv, EventsOK, Promise,
         \/ LoginRestarts \/ DesktopChanges \/ SwitchConsole \/ SystemLocks \/ SessionEnds
  PROVE  ContextInv' /\ EventsOK'
<1>1. TypeOK /\ world \in Desktops /\ sysQ \in Seq(Signals)
      /\ (~w.sysUp => sysQ = <<>>) /\ SystemTells(sysQ, world.login, world.here)
  BY DEF ContextInv, TypeOK, BusesOK, QueuesTell
<1>2. world.login \in Owners
  BY <1>1 DEF Desktops, Owners
<1>3. CASE LoginRestarts
  <2>1. PICK o \in Logins \ {world.login} :
          /\ Spend /\ Event([world EXCEPT !.login = o])
          /\ sysQ' = IF w.sysUp THEN Append(sysQ, Say("name", o)) ELSE sysQ
    BY <1>3 DEF LoginRestarts
  <2> DEFINE upd == [world EXCEPT !.login = o]
  <2>2. /\ upd \in Desktops /\ upd.left = world.left /\ upd.screen = world.screen
        /\ upd.login = o /\ upd.here = world.here /\ upd.desktop = world.desktop
        /\ upd.session = world.session
    BY <1>1 DEF Desktops
  <2>3. Say("name", o) \in Signals /\ Say("name", o).kind = "name"
    BY <1>1, SaidIs DEF Owners, Sealing
  <2>4. SystemTells(sysQ', o, world.here)
    <3>1. CASE w.sysUp
      BY <1>1, <2>1, <2>3, <3>1, SystemTellsOwner
    <3>2. CASE ~w.sysUp
      BY <1>1, <2>1, <3>2, NothingTold
    <3> QED
      BY <3>1, <3>2
  <2>5. UNCHANGED <<w, deskQ, job, current, lock, open>>
    BY <1>3 DEF LoginRestarts
  <2>6. Event(upd)
    BY <2>1
  <2> HIDE DEF upd
  <2> QED
    BY <2>1, <2>2, <2>3, <2>4, <2>5, <2>6, LogindSafe
<1>4. ASSUME NEW kind \in Sealing \cup {"back"}, kind # "name", NEW upd \in Desktops,
             Spend, Event(upd), SysSignal(kind), UNCHANGED <<w, deskQ, job, current, lock, open>>,
             upd.left = world.left, upd.screen = world.screen, upd.login = world.login,
             IF kind \in {"away", "back"} THEN upd.here = (kind = "back")
             ELSE upd.here = world.here,
             (upd.desktop = world.desktop /\ upd.session = world.session)
               \/ kind \in {"topology", "gone"}
      PROVE  ContextInv' /\ EventsOK'
  <2> DEFINE m == Say(kind, world.login)
  <2>1. m \in Signals /\ m.kind = kind /\ m.from = world.login
    BY <1>1, <1>2, <1>4, SaidIs
  <2>2. sysQ' = IF w.sysUp THEN Append(sysQ, m) ELSE sysQ
    BY <1>4 DEF SysSignal
  <2> HIDE DEF m
  <2>3. SystemTells(sysQ', world.login, upd.here)
    BY <1>4, <2>1, <2>2, SystemSaysMore
  <2> QED
    BY <1>4, <2>1, <2>2, <2>3, LogindSafe
<1>5. CASE DesktopChanges
  <2> DEFINE upd == [world EXCEPT !.desktop = ~@]
  <2>1. /\ upd \in Desktops /\ upd.left = world.left /\ upd.screen = world.screen
        /\ upd.login = world.login /\ upd.here = world.here
    BY <1>1 DEF Desktops
  <2>2. Spend /\ Event(upd) /\ SysSignal("topology")
        /\ UNCHANGED <<w, deskQ, job, current, lock, open>>
    BY <1>5 DEF DesktopChanges
  <2> HIDE DEF upd
  <2> QED
    BY <1>4, <2>1, <2>2 DEF Sealing
<1>6. CASE SwitchConsole
  <2> DEFINE upd == [world EXCEPT !.here = ~@]
             kind == IF world.here THEN "away" ELSE "back"
  <2>1. /\ upd \in Desktops /\ upd.left = world.left /\ upd.screen = world.screen
        /\ upd.login = world.login /\ upd.here = (kind = "back")
        /\ upd.desktop = world.desktop /\ upd.session = world.session
    BY <1>1 DEF Desktops
  <2>2. Spend /\ Event(upd) /\ SysSignal(kind)
        /\ UNCHANGED <<w, deskQ, job, current, lock, open>>
    BY <1>6 DEF SwitchConsole
  <2>3. kind \in {"away", "back"}
    OBVIOUS
  <2> HIDE DEF upd, kind
  <2> QED
    BY <1>4, <2>1, <2>2, <2>3 DEF Sealing
<1>7. CASE SystemLocks
  <2>1. PICK kind \in {"lock", "power"} :
          /\ Spend /\ Event([world EXCEPT !.hint = (kind = "lock") \/ @])
          /\ SysSignal(kind)
    BY <1>7 DEF SystemLocks
  <2> DEFINE upd == [world EXCEPT !.hint = (kind = "lock") \/ @]
  <2>2. /\ upd \in Desktops /\ upd.left = world.left /\ upd.screen = world.screen
        /\ upd.login = world.login /\ upd.here = world.here
        /\ upd.desktop = world.desktop /\ upd.session = world.session
    BY <1>1 DEF Desktops
  <2>3. Event(upd) /\ UNCHANGED <<w, deskQ, job, current, lock, open>>
    BY <1>7, <2>1 DEF SystemLocks
  <2> HIDE DEF upd
  <2> QED
    BY <1>4, <2>1, <2>2, <2>3 DEF Sealing
<1>8. CASE SessionEnds
  <2> DEFINE upd == [world EXCEPT !.session = FALSE]
  <2>1. /\ upd \in Desktops /\ upd.left = world.left /\ upd.screen = world.screen
        /\ upd.login = world.login /\ upd.here = world.here
    BY <1>1 DEF Desktops
  <2>2. Spend /\ Event(upd) /\ SysSignal("gone")
        /\ UNCHANGED <<w, deskQ, job, current, lock, open>>
    BY <1>8 DEF SessionEnds
  <2> HIDE DEF upd
  <2> QED
    BY <1>4, <2>1, <2>2 DEF Sealing
<1> QED
  BY <1>3, <1>5, <1>6, <1>7, <1>8

-----------------------------------------------------------------------------
(* The screen is covered, and the serials go on.                           *)

LEMMA NextIs ==
  ASSUME NEW s \in Serials \ {0}
  PROVE  NextSerial(s) \in Serials \ {0}
  BY SerialAssumption DEF NextSerial, Serials

LEMMA CalmItself == ASSUME TypeOK PROVE Calm(job, job)
  BY DEF Calm, TypeOK

\* The frame that says so.
LEMMA CoveredIs ==
  ASSUME TypeOK, NEW s \in Serials
  PROVE  /\ Covered(TRUE, s) \in Signals /\ Covered(TRUE, s).kind = "active"
         /\ Covered(TRUE, s).serial = s
         /\ Covered(FALSE, s) \in Signals /\ Covered(FALSE, s).kind = "inactive"
         /\ Covered(FALSE, s).serial = s
<1>1. world.screen \in Owners
  BY DEF TypeOK, Desktops, Owners
<1> QED
  BY <1>1 DEF Covered, Signals

LEMMA IdleCoversIs ==
  ASSUME TypeOK, IdleCovers
  PROVE  /\ world' \in Desktops /\ SameDesktop /\ world.left.covers \in Nat \ {0}
         /\ world'.serial = NextSerial(world.serial) /\ world'.left.covers = world.left.covers - 1
         /\ world'.left.locks = world.left.locks
         /\ Covered(TRUE, world.serial) \in Signals /\ Covered(TRUE, world.serial).kind = "active"
         /\ Covered(TRUE, world.serial).serial = world.serial
<1> DEFINE left == [world.left EXCEPT !.covers = @ - 1]
<1>1. world \in Desktops /\ world.left.covers > 0
      /\ world' = [world EXCEPT !.active = TRUE, !.serial = NextSerial(world.serial), !.left = left]
  BY DEF TypeOK, IdleCovers
<1>2. /\ left \in [events : Nat, fails : Nat, covers : Nat, locks : Nat, opens : BOOLEAN]
      /\ left.covers = world.left.covers - 1 /\ left.locks = world.left.locks
      /\ world.left.covers \in Nat \ {0}
  BY <1>1 DEF Desktops
<1>3. NextSerial(world.serial) \in Serials \ {0}
  BY <1>1, NextIs DEF Desktops
<1> HIDE DEF left
<1>4. /\ world' \in Desktops /\ SameDesktop /\ world'.serial = NextSerial(world.serial)
      /\ world'.left = left /\ world.serial \in Serials
  BY <1>1, <1>2, <1>3 DEF Desktops, SameDesktop
<1> QED
  BY <1>2, <1>4, CoveredIs

LEMMA UncoversIs ==
  ASSUME TypeOK, Uncovers
  PROVE  /\ world' \in Desktops /\ SameDesktop /\ world.left.covers \in Nat \ {0}
         /\ world'.serial = NextSerial(world.serial) /\ world'.left.covers = world.left.covers - 1
         /\ world'.left.locks = world.left.locks
         /\ Covered(FALSE, world.serial) \in Signals /\ Covered(FALSE, world.serial).kind = "inactive"
         /\ Covered(FALSE, world.serial).serial = world.serial
         /\ lock' \in Locks /\ lock'.real # "locked"
         /\ \E r \in {lock.real, "unlocked"} : lock' = [lock EXCEPT !.real = r]
<1> DEFINE left == [world.left EXCEPT !.covers = @ - 1]
           real == IF lock.real = "locked" THEN "unlocked" ELSE lock.real
<1>1. world \in Desktops /\ world.left.covers > 0
      /\ world' = [world EXCEPT !.active = FALSE, !.locked = FALSE, !.hint = FALSE,
                                !.serial = NextSerial(world.serial), !.left = left]
  BY DEF TypeOK, Uncovers
<1>2. /\ left \in [events : Nat, fails : Nat, covers : Nat, locks : Nat, opens : BOOLEAN]
      /\ left.covers = world.left.covers - 1 /\ left.locks = world.left.locks
      /\ world.left.covers \in Nat \ {0}
  BY <1>1 DEF Desktops
<1>3. NextSerial(world.serial) \in Serials \ {0}
  BY <1>1, NextIs DEF Desktops
<1>5. lock \in Locks /\ lock' = [lock EXCEPT !.real = real]
  BY DEF Uncovers, TypeOK, Locks
<1>6. real \in {"no", "locked", "unlocked"} /\ real # "locked" /\ real \in {lock.real, "unlocked"}
  BY <1>5 DEF Locks
<1> HIDE DEF left, real
<1>7. lock' \in Locks /\ lock'.real = real
  BY <1>5, <1>6 DEF Locks
<1>8. /\ world' \in Desktops /\ SameDesktop /\ world'.serial = NextSerial(world.serial)
      /\ world'.left = left /\ world.serial \in Serials
  BY <1>1, <1>2, <1>3 DEF Desktops, SameDesktop
<1> QED
  BY <1>2, <1>5, <1>6, <1>7, <1>8, CoveredIs

\* The answer to Lock, and the cover behind it.
LEMMA ServiceLocksIs ==
  ASSUME TypeOK, ServiceLocks
  PROVE  /\ world' \in Desktops /\ SameDesktop
         /\ world'.serial \in {NextSerial(world.serial), NextSerial(NextSerial(world.serial))}
         /\ world'.left.covers = world.left.covers /\ world'.left.locks = world.left.locks
         /\ lock.pc = "sent" /\ world.screen = lock.to /\ lock' \in Locks
         /\ \E locks \in BOOLEAN :
              /\ lock' = [lock EXCEPT !.pc = "answered", !.reply = world.serial,
                                      !.real = IF locks THEN "locked" ELSE "no"]
              /\ lock.to \in Contracted => locks
         /\ \/ DeskSignals(<<>>)
            \/ /\ Covered(TRUE, NextSerial(world.serial)) \in Signals
               /\ Covered(TRUE, NextSerial(world.serial)).kind = "active"
               /\ Covered(TRUE, NextSerial(world.serial)).serial = NextSerial(world.serial)
               /\ NextSerial(world.serial) # 0
               /\ world'.serial = NextSerial(NextSerial(world.serial))
               /\ DeskSignals(<<Covered(TRUE, NextSerial(world.serial))>>)
<1> DEFINE next == NextSerial(world.serial)
           serial == IF world.active THEN next ELSE NextSerial(next)
<1>1. world \in Desktops /\ lock \in Locks /\ lock.pc = "sent" /\ world.screen = lock.to
  BY DEF ServiceLocks, TypeOK, Locks
<1>2. PICK locks \in IF world.screen \in Contracted THEN {TRUE} ELSE BOOLEAN :
        /\ lock' = [lock EXCEPT !.pc = "answered", !.reply = world.serial,
                                !.real = IF locks THEN "locked" ELSE "no"]
        /\ world' = [world EXCEPT !.active = TRUE, !.locked = locks, !.serial = serial]
        /\ DeskSignals(IF world.active THEN <<>> ELSE <<Covered(TRUE, next)>>)
  BY DEF ServiceLocks
<1>3. locks \in BOOLEAN /\ (lock.to \in Contracted => locks)
  BY <1>1, <1>2
<1>4. next \in Serials \ {0} /\ NextSerial(next) \in Serials \ {0}
  BY <1>1, NextIs DEF Desktops
<1>6. serial \in Serials \ {0} /\ serial \in {next, NextSerial(next)} /\ world.serial \in Serials
  BY <1>1, <1>4 DEF Desktops
<1>7. /\ \/ DeskSignals(<<>>)
         \/ DeskSignals(<<Covered(TRUE, next)>>) /\ serial = NextSerial(next)
  BY <1>2
<1> HIDE DEF next, serial
<1>8. /\ world' \in Desktops /\ SameDesktop /\ world'.serial = serial
      /\ world'.left.covers = world.left.covers /\ world'.left.locks = world.left.locks
  BY <1>1, <1>2, <1>3, <1>6 DEF Desktops, SameDesktop
<1>9. lock' \in Locks
  BY <1>1, <1>2, <1>6 DEF Locks
<1>10. Covered(TRUE, next) \in Signals /\ Covered(TRUE, next).kind = "active"
       /\ Covered(TRUE, next).serial = next
  BY <1>4, CoveredIs
<1> QED
  BY <1>1, <1>2, <1>3, <1>4, <1>6, <1>7, <1>8, <1>9, <1>10 DEF next

\* A frame of the screen, and nothing else.
LEMMA CoverSafe ==
  ASSUME ContextInv, EventsOK, Promise, world' \in Desktops, SameDesktop, lock' \in Locks,
         w' = w, sysQ' = sysQ, job' = job, current' = current, open' = open,
         \/ DeskSignals(<<>>)
         \/ \E m \in Signals : m.kind \in {"active", "inactive"} /\ DeskSignals(<<m>>)
  PROVE  ContextInv' /\ EventsOK'
<1>1. TypeOK /\ QueuesTell /\ BusesOK /\ OwnersTold
  BY DEF ContextInv
<1>2. /\ deskQ' \in Seq(Signals) /\ (~w.deskUp => deskQ' = <<>>)
      /\ ScreenTells(deskQ', world.screen)
      /\ \A kinds : Queued(deskQ, kinds) => Queued(deskQ', kinds)
  <2>1. CASE DeskSignals(<<>>)
    <3>1. deskQ' = deskQ
      BY <1>1, <2>1, ConcatEmptySeq DEF DeskSignals, TypeOK
    <3> QED
      BY <1>1, <3>1 DEF TypeOK, QueuesTell, BusesOK
  <2>2. ASSUME NEW m \in Signals, m.kind \in {"active", "inactive"}, DeskSignals(<<m>>)
        PROVE  /\ deskQ' \in Seq(Signals) /\ (~w.deskUp => deskQ' = <<>>)
               /\ ScreenTells(deskQ', world.screen)
               /\ \A kinds : Queued(deskQ, kinds) => Queued(deskQ', kinds)
    BY <2>2, DeskSays
  <2> QED
    BY <2>1, <2>2
<1>3. sysQ' \in Seq(Signals) /\ SystemTells(sysQ', world'.login, world'.here)
      /\ (~w.sysUp => sysQ' = <<>>)
  BY <1>1 DEF TypeOK, QueuesTell, BusesOK, SameDesktop
<1> QED
  BY <1>2, <1>3, WorldSafe DEF SameDesktop

LEMMA CoversSafe ==
  ASSUME ContextInv, EventsOK, Promise, IdleCovers \/ Uncovers \/ ServiceLocks
  PROVE  ContextInv' /\ EventsOK'
<1>1. TypeOK
  BY DEF ContextInv
<1>2. CASE IdleCovers
  <2>1. /\ w' = w /\ sysQ' = sysQ /\ job' = job /\ current' = current /\ open' = open
        /\ lock' = lock /\ DeskSignals(<<Covered(TRUE, world.serial)>>)
    BY <1>2 DEF IdleCovers
  <2> QED
    BY <1>1, <1>2, <2>1, IdleCoversIs, LocksAre, CoverSafe
<1>3. CASE Uncovers
  <2>1. /\ w' = w /\ sysQ' = sysQ /\ job' = job /\ current' = current /\ open' = open
        /\ DeskSignals(<<Covered(FALSE, world.serial)>>)
    BY <1>3 DEF Uncovers
  <2> QED
    BY <1>1, <1>3, <2>1, UncoversIs, CoverSafe
<1>4. CASE ServiceLocks
  <2>1. w' = w /\ sysQ' = sysQ /\ job' = job /\ current' = current /\ open' = open
    BY <1>4 DEF ServiceLocks
  <2> QED
    BY <1>1, <1>4, <2>1, ServiceLocksIs, CoverSafe
<1> QED
  BY <1>2, <1>3, <1>4

\* A display comes or goes, or the PIN opens the data: the watcher sees neither.
LEMMA UnseenSafe ==
  ASSUME ContextInv, EventsOK, Promise, DisplayChanges \/ UserOpens
  PROVE  ContextInv' /\ EventsOK'
<1>1. TypeOK /\ world \in Desktops
  BY DEF ContextInv, TypeOK
<1>2. world' \in Desktops /\ SameDesktop
  <2>1. CASE DisplayChanges
    <3> DEFINE upd == [world EXCEPT !.display = ~@]
    <3>1. /\ upd \in Desktops /\ upd.left = world.left /\ upd.screen = world.screen
          /\ upd.login = world.login /\ upd.here = world.here
          /\ upd.desktop = world.desktop /\ upd.session = world.session
      BY <1>1 DEF Desktops
    <3>2. Event(upd) /\ world.left.events > 0
      BY <2>1 DEF DisplayChanges, Spend
    <3> HIDE DEF upd
    <3> QED
      BY <3>1, <3>2, EventIs DEF SameDesktop
  <2>2. CASE UserOpens
    BY <1>1, <2>2 DEF UserOpens, SameDesktop
  <2> QED
    BY <2>1, <2>2
<1>3. /\ w' = w /\ sysQ' = sysQ /\ deskQ' = deskQ /\ job' = job /\ current' = current
      /\ lock' = lock /\ open' \in BOOLEAN
  BY <1>1 DEF DisplayChanges, UserOpens, TypeOK
<1>4. NoneNew /\ w' \in Watchers /\ (w'.screen = w.screen /\ w'.ready = w.ready)
  BY <1>1, <1>3 DEF NoneNew, TypeOK
<1> QED
  BY <1>1, <1>2, <1>3, <1>4, LocksAre, CalmItself, Withdrawn

LEMMA WorldActsSafe ==
  ASSUME ContextInv, EventsOK, Promise, World
  PROVE  ContextInv' /\ EventsOK'
  BY ScreenOwnerChangesSafe, LogindActsSafe, CoversSafe, UnseenSafe DEF World

-----------------------------------------------------------------------------
(* The steps of an attestation.                                            *)

LEMMA CalmTwice ==
  ASSUME NEW j \in [Workers -> Jobs], NEW n, NEW m, Calm(j, n), Calm(n, m)
  PROVE  Calm(j, m)
  BY DEF Calm

\* Who is logind is read: a new owner is not trusted yet, and the signal of the change is queued.
LEMMA SystemReadSafe ==
  ASSUME ContextInv, EventsOK, Promise, NEW k \in Workers, SystemRead(k)
  PROVE  ContextInv' /\ EventsOK'
<1>0. TypeOK /\ QueuesTell /\ BusesOK /\ JobsOK /\ OwnersTold /\ SessionTold
      /\ DeafOK /\ TrustTold /\ DesktopTold
  BY DEF ContextInv
<1> DEFINE new == w.login # world.login
<1>1. /\ job[k].pc = "system" /\ w.sysUp /\ world.login \in Genuine
      /\ world' = world /\ sysQ' = sysQ /\ deskQ' = deskQ /\ lock' = lock /\ open' = open
      /\ job' = [job EXCEPT ![k].pc = "commit", ![k].owner = world.login]
      /\ w' = [w EXCEPT !.login = world.login, !.trusted = w.trusted /\ ~new,
                        !.deskUp = w.deskUp \/ job[k].mode = "prepare"]
      /\ current' \subseteq current \cup {<<"loop", k>>}
  BY DEF SystemRead, Refused
<1>2. /\ w \in Watchers /\ world \in Desktops /\ job \in [Workers -> Jobs] /\ job[k] \in Jobs
      /\ world.login \in Logins
  BY <1>0 DEF TypeOK, Desktops
<1>3. /\ w' \in Watchers /\ w'.login = world.login /\ (w'.trusted <=> w.trusted /\ ~new)
      /\ (w.deskUp => w'.deskUp) /\ w'.screen = w.screen /\ w'.ready = w.ready
      /\ w'.here = w.here /\ w'.sysUp = w.sysUp /\ w'.started = w.started
      /\ w'.failed = w.failed /\ w'.closed = w.closed
  <2> DEFINE trusted == w.trusted /\ ~new
             up == w.deskUp \/ job[k].mode = "prepare"
  <2>1. trusted \in BOOLEAN /\ up \in BOOLEAN /\ (w.deskUp => up)
    BY <1>2 DEF Watchers
  <2>2. w' = [w EXCEPT !.login = world.login, !.trusted = trusted, !.deskUp = up]
    BY <1>1
  <2> HIDE DEF trusted, up
  <2>3. w' \in Watchers /\ w'.trusted = trusted /\ w'.deskUp = up
    BY <1>2, <2>1, <2>2 DEF Watchers
  <2>4. /\ w'.login = world.login /\ w'.screen = w.screen /\ w'.ready = w.ready
        /\ w'.here = w.here /\ w'.sysUp = w.sysUp /\ w'.started = w.started
        /\ w'.failed = w.failed /\ w'.closed = w.closed
    BY <1>2, <2>2 DEF Watchers
  <2> QED
    BY <2>1, <2>3, <2>4 DEF trusted
<1>4. w'.login # NoOwner
  BY <1>2, <1>3, OwnersAssumption
<1>5. deaf' = deaf
  BY <1>4 DEF Promise
<1>6. /\ job' \in [Workers -> Jobs] /\ job'[k].pc = "commit" /\ job'[k].owner = world.login
      /\ job'[k].mode = job[k].mode
      /\ \A j \in Workers : j # k => job'[j] = job[j]
  BY <1>1, <1>2 DEF Jobs, Owners
<1>7. \A j \in Workers : Fresh(j)' => j # k /\ Fresh(j) /\ job'[j] = job[j]
  BY <1>1, <1>6 DEF Fresh
<1>8. deaf \/ (owed /\ EventsOK) => k # "login" /\ job'["login"].pc = "idle"
  BY <1>0, <1>1, <1>6, WorkerNames DEF DeafOK, EventsOK
<1>9. ~deaf /\ ((w.ready /\ w.screen # NoOwner) \/ \E j \in Workers : Fresh(j))
        => w'.trusted \/ Told({"name"})
  BY <1>0, <1>3 DEF DeafOK, TrustTold, OwnersTold
<1>10. TypeOK'
  <2>1. current' \subseteq Snapshots
    BY <1>0, <1>1, LocksAre DEF Own
  <2> QED
    BY <1>0, <1>1, <1>2, <1>3, <1>6, <2>1, LocksAre, TypesKept DEF TypeOK
<1>11. JobsOK'
  BY <1>0, <1>1, <1>2, <1>6, WorkerNames DEF JobsOK
<1>12. QueuesTell'
  BY <1>0, <1>1 DEF QueuesTell
<1>13. BusesOK'
  BY <1>0, <1>1, <1>3 DEF BusesOK
<1>14. OwnersTold' /\ SessionTold'
  <2>1. OwnersTold'
    BY <1>0, <1>1, <1>3 DEF OwnersTold, Told
  <2>2. SessionTold'
    BY <1>0, <1>1, <1>2, <1>3, <1>4 DEF SessionTold, Told
  <2> QED
    BY <2>1, <2>2
<1>15. DeafOK'
  BY <1>4, <1>5, <1>8 DEF DeafOK
<1>16. TrustTold' /\ DesktopTold'
  <2>1. TrustTold'
    BY <1>0, <1>1, <1>3, <1>5, <1>7, <1>9 DEF TrustTold, Told
  <2>2. DesktopTold'
    BY <1>0, <1>1, <1>3, <1>5, <1>7 DEF DesktopTold, Told
  <2> QED
    BY <2>1, <2>2
<1>17. EventsOK'
  <2> SUFFICES ASSUME owed' PROVE EventsOK'
    BY DEF EventsOK
  <2>1. owed /\ open' /\ ~w'.closed
    BY <1>0, <1>1, NotAnnounced, LenProperties DEF TypeOK
  <2>2. w.login # NoOwner /\ (w.trusted \/ Told({"name"})) /\ Told(Sealing)
    BY <2>1 DEF EventsOK
  <2>3. w'.trusted \/ Told({"name"})
    BY <1>0, <1>3, <2>2 DEF OwnersTold
  <2> QED
    BY <1>1, <1>3, <1>4, <1>8, <2>1, <2>2, <2>3 DEF EventsOK, Told
<1> QED
  BY <1>10, <1>11, <1>12, <1>13, <1>14, <1>15, <1>16, <1>17 DEF ContextInv

LEMMA SystemCommitSafe ==
  ASSUME ContextInv, EventsOK, Promise, NEW k \in Workers, SystemCommit(k)
  PROVE  ContextInv' /\ EventsOK'
<1>0. TypeOK /\ BusesOK /\ JobsOK
  BY DEF ContextInv
<1> DEFINE x == [w EXCEPT !.trusted = TRUE, !.here = world.here]
<1>1. /\ job[k].pc = "commit" /\ w.sysUp /\ world.login = job[k].owner
      /\ world' = world /\ sysQ' = sysQ /\ deskQ' = deskQ /\ lock' = lock
      /\ current' = current /\ open' \in BOOLEAN /\ SystemDone(k, x)
  BY <1>0 DEF SystemCommit, Refused, TypeOK
<1>2. /\ w \in Watchers /\ world \in Desktops /\ job \in [Workers -> Jobs] /\ job[k] \in Jobs
      /\ world.login \in Logins \cap Genuine
  BY <1>0, <1>1 DEF TypeOK, JobsOK
<1>3. /\ x \in Watchers /\ x.login = w.login /\ x.trusted /\ x.here = world.here
      /\ x.started = w.started /\ x.failed = w.failed /\ x.closed = w.closed
      /\ x.sysUp = w.sysUp /\ x.deskUp = w.deskUp /\ x.screen = w.screen /\ x.ready = w.ready
  BY <1>1, <1>2 DEF Watchers, Desktops
<1> HIDE DEF x
<1>4. /\ Calm(job, job') /\ w' \in Watchers /\ w'.login = x.login /\ w'.trusted
      /\ w'.here = x.here /\ w'.started = w.started /\ w'.failed = w.failed
      /\ w'.closed = w.closed /\ w'.sysUp = w.sysUp /\ (w.deskUp => w'.deskUp)
      /\ w'.screen = w.screen /\ (w'.ready => w.ready)
  <2>1. CASE job[k].mode = "login"
    <3>1. w' = Status(x, TRUE, FALSE, "screen_rechecking")
          /\ job' = Scheduled(w', [job EXCEPT ![k] = Idle])
      BY <1>1, <2>1 DEF SystemDone
    <3>2. /\ w' \in Watchers /\ w'.login = x.login /\ w'.trusted = x.trusted
          /\ w'.here = x.here /\ w'.started = x.started /\ w'.failed = x.failed
          /\ w'.closed = x.closed /\ w'.sysUp = x.sysUp /\ w'.deskUp = x.deskUp
          /\ w'.screen = x.screen /\ ~w'.ready
      BY <1>3, <3>1 DEF Watchers, Status
    <3>3. Calm(job, [job EXCEPT ![k] = Idle])
      BY <1>2, EndedIsCalm
    <3>4. [job EXCEPT ![k] = Idle] \in [Workers -> Jobs]
      BY <3>3 DEF Calm
    <3>5. Calm([job EXCEPT ![k] = Idle], job')
      BY <3>1, <3>4, ScheduledIsCalm
    <3> QED
      BY <1>2, <1>3, <3>2, <3>3, <3>5, CalmTwice
  <2>2. CASE job[k].mode = "start"
    <3>1. w' = [x EXCEPT !.deskUp = TRUE]
          /\ job' = [job EXCEPT ![k] = Begin("recheck", job[k].then)]
      BY <1>1, <2>2 DEF SystemDone
    <3>2. k # "login" /\ job[k].then \in {"idle", "prepare", "activate", "stop"}
      BY <1>0, <1>1, <1>2, <2>2 DEF JobsOK, Jobs
    <3>3. Calm(job, job')
      BY <1>2, <3>1, <3>2, BegunIsCalm
    <3> QED
      BY <1>3, <3>1, <3>3 DEF Watchers
  <2>3. CASE job[k].mode \notin {"login", "start"}
    <3>1. w' = x /\ job' = [job EXCEPT ![k].pc = "owner"]
      BY <1>1, <2>3 DEF SystemDone
    <3>2. k # "login"
      BY <1>0, <1>1, <2>3 DEF JobsOK
    <3>3. Calm(job, job')
      BY <1>2, <2>3, <3>1, <3>2 DEF Calm, Jobs
    <3> QED
      BY <1>3, <3>1, <3>3
  <2> QED
    BY <2>1, <2>2, <2>3
<1>5. NoneNew /\ ~w.closed /\ SameDesktop
  BY <1>0, <1>1 DEF NoneNew, BusesOK, SameDesktop
<1> QED
  BY <1>0, <1>1, <1>2, <1>3, <1>4, <1>5, LocksAre, AdoptSafe

LEMMA StartWithoutScreenSafe ==
  ASSUME ContextInv, EventsOK, Promise, StartWithoutScreen
  PROVE  ContextInv' /\ EventsOK'
<1>0. TypeOK /\ BusesOK /\ JobsOK
  BY DEF ContextInv
<1> DEFINE x == [w EXCEPT !.trusted = TRUE, !.here = world.here]
<1>1. /\ job["main"].pc = "commit" /\ w.sysUp /\ world.login = job["main"].owner /\ Fail
      /\ sysQ' = sysQ /\ deskQ' = deskQ /\ lock' = DropCycle
      /\ current' = {} /\ open' = FALSE /\ w' = Invalid(x, "screen_bus_unavailable")
      /\ job' = Leave("main", w')
  BY <1>0, WorkerNames DEF StartWithoutScreen, Refused, Revoke
<1>2. /\ w \in Watchers /\ world \in Desktops /\ world.login \in Logins \cap Genuine
  BY <1>0, <1>1, WorkerNames DEF TypeOK, JobsOK
<1>3. /\ x \in Watchers /\ x.login = w.login /\ x.trusted /\ x.here = world.here
      /\ x.started = w.started /\ x.failed = w.failed /\ x.closed = w.closed
      /\ x.sysUp = w.sysUp /\ x.deskUp = w.deskUp /\ x.screen = w.screen /\ x.ready = w.ready
  BY <1>1, <1>2 DEF Watchers, Desktops
<1> HIDE DEF x
<1>4. /\ w' \in Watchers /\ w'.login = x.login /\ w'.trusted = x.trusted
      /\ w'.here = x.here /\ w'.started = x.started /\ w'.failed = x.failed
      /\ w'.closed = x.closed /\ w'.sysUp = x.sysUp /\ w'.deskUp = x.deskUp
      /\ w'.screen = NoOwner /\ ~w'.ready
  BY <1>1, <1>3, InvalidIs
<1>5. NoneNew /\ ~w.closed /\ SameDesktop /\ world' \in Desktops /\ Calm(job, job')
  BY <1>0, <1>1, FailIs, LeaveIsCalm, WorkerNames DEF NoneNew, BusesOK
<1> QED
  BY <1>0, <1>1, <1>2, <1>3, <1>4, <1>5, LocksAre, AdoptSafe

\* Who is the screen saver is read, and a coroutine begins to attest it.
LEMMA OwnerReadSafe ==
  ASSUME ContextInv, EventsOK, Promise, NEW k \in Workers, OwnerRead(k)
  PROVE  ContextInv' /\ EventsOK'
<1>0. TypeOK /\ QueuesTell /\ BusesOK /\ JobsOK /\ OwnersTold /\ SessionTold
      /\ DeafOK /\ TrustTold /\ DesktopTold
  BY DEF ContextInv
<1>1. /\ job[k].pc = "owner" /\ world' = world /\ sysQ' = sysQ /\ deskQ' = deskQ
      /\ k # "login" /\ w \in Watchers /\ world \in Desktops /\ world' \in Desktops
      /\ SameDesktop /\ current \subseteq Snapshots /\ lock \in Locks /\ DropCycle \in Locks
      /\ Own(k) \subseteq Snapshots /\ ~w.closed /\ job \in [Workers -> Jobs] /\ job[k] \in Jobs
  BY <1>0, LocksAre DEF OwnerRead, JobsOK, TypeOK, SameDesktop, BusesOK
<1>2. CASE Unwatchable /\ job' = Returned(k, w, current) /\ current' = current \ Own(k)
           /\ UNCHANGED <<w, lock, open>>
  <2>1. NoneNew /\ Calm(job, job') /\ open' \in BOOLEAN
    BY <1>0, <1>1, <1>2, ReturnedIsCalm DEF NoneNew, TypeOK
  <2> QED
    BY <1>1, <1>2, <2>1, Withdrawn
<1>3. CASE /\ ~Unwatchable /\ world.screen = NoOwner
           /\ LET lost == w.screen # NoOwner
                  cur == IF lost THEN {} ELSE current
                  x == Status([w EXCEPT !.screen = NoOwner, !.target = FALSE,
                                        !.displayFailed = FALSE], TRUE, FALSE, "cinnamon_waiting")
              IN  /\ w' = x
                  /\ current' = cur \ Own(k)
                  /\ lock' = IF lost THEN DropCycle ELSE lock
                  /\ open' = (open /\ ~lost)
                  /\ job' = Returned(k, x, cur)
  <2> DEFINE z == [w EXCEPT !.screen = NoOwner, !.target = FALSE, !.displayFailed = FALSE]
             cur == IF w.screen # NoOwner THEN {} ELSE current
  <2>1. w' = Status(z, TRUE, FALSE, "cinnamon_waiting") /\ current' = cur \ Own(k)
        /\ lock' \in {lock, DropCycle} /\ open' \in BOOLEAN /\ job' = Returned(k, w', cur)
    BY <1>0, <1>3 DEF TypeOK
  <2>2. /\ z \in Watchers /\ z.started = w.started /\ z.failed = w.failed /\ z.closed = w.closed
        /\ z.sysUp = w.sysUp /\ z.deskUp = w.deskUp /\ z.login = w.login
        /\ z.trusted = w.trusted /\ z.here = w.here /\ z.screen = NoOwner
    BY <1>1 DEF Watchers
  <2>3. cur \subseteq current
    OBVIOUS
  <2> HIDE DEF z, cur
  <2>4. /\ w' \in Watchers /\ w'.started = w.started /\ w'.failed = w.failed
        /\ w'.closed = w.closed /\ w'.sysUp = w.sysUp /\ w'.deskUp = w.deskUp
        /\ w'.login = w.login /\ w'.trusted = w.trusted /\ w'.here = w.here
        /\ w'.screen = NoOwner /\ ~w'.ready
    BY <2>1, <2>2 DEF Watchers, Status
  <2>5. NoneNew /\ Calm(job, job') /\ current' \subseteq Snapshots
    BY <1>0, <1>1, <2>1, <2>3, ReturnedIsCalm DEF NoneNew
  <2> QED
    BY <1>1, <2>1, <2>4, <2>5, Withdrawn
<1>4. CASE /\ ~Unwatchable /\ world.screen # NoOwner
           /\ LET other == w.screen \notin {NoOwner, world.screen}
              IN  /\ w' = IF other THEN Invalid(w, "service_owner_changed") ELSE w
                  /\ current' = (IF other THEN {} ELSE current) \cup {<<"screen", k>>}
                  /\ lock' = IF other THEN DropCycle ELSE lock
                  /\ open' = (open /\ ~other)
           /\ job' = [job EXCEPT ![k].pc = "attest", ![k].owner = world.screen]
  <2>1. w.deskUp /\ w.sysUp /\ w.login # NoOwner /\ w.trusted
    BY <1>4 DEF Unwatchable
  <2>2. /\ lock' \in {lock, DropCycle} /\ open' \in BOOLEAN
        /\ current' \subseteq current \cup {<<"screen", k>>}
        /\ w' = w \/ w' = Invalid(w, "service_owner_changed")
    BY <1>0, <1>4 DEF TypeOK
  <2>3. /\ w' \in Watchers /\ w'.started = w.started /\ w'.failed = w.failed
        /\ w'.closed = w.closed /\ w'.sysUp = w.sysUp /\ w'.deskUp = w.deskUp
        /\ w'.login = w.login /\ w'.trusted = w.trusted /\ w'.here = w.here
        /\ (w'.screen = NoOwner /\ ~w'.ready) \/ (w'.screen = w.screen /\ w'.ready = w.ready)
    BY <1>1, <2>2, InvalidIs
  <2>4. world.screen \in Screens
    BY <1>1, <1>4 DEF Desktops
  <2>5. /\ job' \in [Workers -> Jobs] /\ job'[k].pc = "attest" /\ job'[k].owner = world.screen
        /\ job'[k].mode = job[k].mode
        /\ \A j \in Workers : j # k => job'[j] = job[j]
    BY <1>1, <1>4, <2>4 DEF Jobs, Owners
  <2>6. \A j \in Workers : Fresh(j)' => j = k \/ (Fresh(j) /\ job'[j] = job[j])
    BY <2>2, <2>5 DEF Fresh
  <2>8. job'["login"] = job["login"]
    BY <1>1, <2>5, WorkerNames
  <2>7. ~deaf' => ~deaf
    BY <1>0, <2>3, <2>8, DeafKept
  <2>9. TypeOK'
    <3>1. current' \subseteq Snapshots
      BY <1>1, <2>2 DEF Own
    <3> QED
      BY <1>0, <1>1, <2>2, <2>3, <2>5, <3>1, TypesKept DEF TypeOK
  <2>10. JobsOK'
    BY <1>0, <1>1, <2>4, <2>5, <2>8 DEF JobsOK
  <2>11. QueuesTell' /\ BusesOK'
    BY <1>0, <1>1, <2>1, <2>3 DEF QueuesTell, BusesOK
  <2>12. OwnersTold'
    BY <1>0, <1>1, <2>3 DEF OwnersTold, Told
  <2>13. SessionTold' /\ DeafOK' /\ TrustTold'
    <3>1. SessionTold'
      BY <1>0, <1>1, <2>3 DEF SessionTold, Told
    <3>2. DeafOK'
      BY <1>0, <2>1, <2>3, <2>8, DeafAgain
    <3>3. TrustTold'
      BY <2>1, <2>3 DEF TrustTold
    <3> QED
      BY <3>1, <3>2, <3>3
  <2>14. DesktopTold'
    <3>1. \A j \in Workers : Fresh(j)' /\ job'[j].pc = "finish" => Fresh(j) /\ job'[j] = job[j]
      BY <2>5, <2>6
    <3> QED
      BY <1>0, <1>1, <2>3, <2>7, <3>1, OwnersAssumption DEF DesktopTold, Told
  <2>15. EventsOK'
    <3> SUFFICES ASSUME owed' PROVE EventsOK'
      BY DEF EventsOK
    <3>1. owed /\ open' /\ ~w'.closed
      BY <1>0, <1>1, NotAnnounced, LenProperties DEF TypeOK
    <3> QED
      BY <1>1, <2>1, <2>3, <2>8, <3>1 DEF EventsOK, Told
  <2> QED
    BY <2>9, <2>10, <2>11, <2>12, <2>13, <2>14, <2>15 DEF ContextInv
<1> QED
  BY <1>2, <1>3, <1>4 DEF OwnerRead

\* The process is attested, and the desktop with it.
LEMMA ScreenAttestSafe ==
  ASSUME ContextInv, EventsOK, Promise, NEW k \in Workers, ScreenAttest(k)
  PROVE  ContextInv' /\ EventsOK'
<1>0. TypeOK /\ QueuesTell /\ BusesOK /\ JobsOK /\ OwnersTold /\ SessionTold
      /\ DeafOK /\ TrustTold /\ DesktopTold
  BY DEF ContextInv
<1>1. /\ job[k].pc = "attest" /\ Running(w) /\ job[k].owner \in Genuine
      /\ job[k].owner \in Contracted => Desktop
      /\ w' = [w EXCEPT !.target = job[k].owner \in Contracted, !.displayFailed = FALSE]
      /\ job' = [job EXCEPT ![k].pc = "finish"]
      /\ UNCHANGED <<world, sysQ, deskQ, current, lock, open>>
  BY DEF ScreenAttest, Refused
<1>2. w \in Watchers /\ world \in Desktops /\ job \in [Workers -> Jobs] /\ job[k] \in Jobs
  BY <1>0 DEF TypeOK
<1>3. /\ w' \in Watchers /\ w'.started = w.started /\ w'.failed = w.failed
      /\ w'.closed = w.closed /\ w'.sysUp = w.sysUp /\ w'.deskUp = w.deskUp
      /\ w'.login = w.login /\ w'.trusted = w.trusted /\ w'.here = w.here
      /\ w'.screen = w.screen /\ w'.ready = w.ready
  <2> DEFINE target == job[k].owner \in Contracted
  <2>1. target \in BOOLEAN /\ w' = [w EXCEPT !.target = target, !.displayFailed = FALSE]
    BY <1>1
  <2> HIDE DEF target
  <2> QED
    BY <1>2, <2>1 DEF Watchers
<1>4. /\ job' \in [Workers -> Jobs] /\ job'[k].pc = "finish" /\ job'[k].owner = job[k].owner
      /\ job'[k].mode = job[k].mode
      /\ \A j \in Workers : j # k => job'[j] = job[j]
  BY <1>1, <1>2 DEF Jobs
<1>5. \A j \in Workers : Fresh(j)' => Fresh(j) /\ (j = k \/ job'[j] = job[j])
  BY <1>1, <1>4 DEF Fresh
<1>7. k # "login" /\ job'["login"] = job["login"]
  BY <1>0, <1>1, <1>4, WorkerNames DEF JobsOK
<1>6. ~deaf' => ~deaf
  BY <1>0, <1>3, <1>7, DeafKept
<1>8. TypeOK'
  BY <1>0, <1>1, <1>3, <1>4, LocksAre, TypesKept DEF TypeOK
<1>9. JobsOK'
  BY <1>0, <1>1, <1>4, <1>7 DEF JobsOK
<1>10. QueuesTell' /\ BusesOK'
  BY <1>0, <1>1, <1>3 DEF QueuesTell, BusesOK, Running
<1>11. OwnersTold' /\ SessionTold' /\ DeafOK'
  <2>1. OwnersTold'
    BY <1>0, <1>1, <1>3 DEF OwnersTold, Told
  <2>2. SessionTold'
    BY <1>0, <1>1, <1>3 DEF SessionTold, Told
  <2>3. DeafOK'
    BY <1>0, <1>3, <1>5, <1>7, DeafAgain
  <2> QED
    BY <2>1, <2>2, <2>3
<1>12. TrustTold'
  BY <1>0, <1>1, <1>3, <1>5, <1>6 DEF TrustTold, Told
<1>13. DesktopTold'
  <2>1. Desktop => world.desktop /\ world.session
    BY DEF Desktop
  <2> QED
    BY <1>0, <1>1, <1>3, <1>4, <1>5, <1>6, <2>1 DEF DesktopTold, Told
<1>14. EventsOK'
  <2> SUFFICES ASSUME owed' PROVE EventsOK'
    BY DEF EventsOK
  <2>1. owed /\ open' /\ ~w'.closed
    BY <1>0, <1>1, NotAnnounced, LenProperties DEF TypeOK
  <2> QED
    BY <1>1, <1>3, <1>7, <2>1 DEF EventsOK, Told
<1> QED
  BY <1>8, <1>9, <1>10, <1>11, <1>12, <1>13, <1>14 DEF ContextInv

\* The context is published: no consumed signal has overtaken the attestation.
LEMMA ScreenCommitSafe ==
  ASSUME ContextInv, EventsOK, Promise, NEW k \in Workers, ScreenCommit(k)
  PROVE  ContextInv' /\ EventsOK'
<1>0. TypeOK /\ QueuesTell /\ BusesOK /\ JobsOK /\ OwnersTold /\ SessionTold
      /\ DeafOK /\ TrustTold /\ DesktopTold
  BY DEF ContextInv
<1> DEFINE z == [w EXCEPT !.screen = job[k].owner]
<1>1. /\ job[k].pc = "finish" /\ Running(w) /\ w.trusted /\ world.screen = job[k].owner
      /\ <<"screen", k>> \in current /\ w' = Status(z, TRUE, TRUE, "watching")
      /\ job' = Returned(k, w', current) /\ open' \in BOOLEAN /\ current' = current \ Own(k)
      /\ UNCHANGED <<world, sysQ, deskQ, lock>>
  BY <1>0 DEF ScreenCommit, Refused, Stale, TypeOK
<1>2. /\ w \in Watchers /\ world \in Desktops /\ job[k].owner \in Screens \cap Genuine
      /\ k # "login"
  BY <1>0, <1>1 DEF TypeOK, JobsOK
<1>3. /\ z \in Watchers /\ z.started = w.started /\ z.failed = w.failed /\ z.closed = w.closed
      /\ z.sysUp = w.sysUp /\ z.deskUp = w.deskUp /\ z.login = w.login
      /\ z.trusted = w.trusted /\ z.here = w.here /\ z.screen = world.screen
  BY <1>1, <1>2 DEF Watchers
<1> HIDE DEF z
<1>4. /\ w' \in Watchers /\ w'.started = w.started /\ w'.failed = w.failed
      /\ w'.closed = w.closed /\ w'.sysUp = w.sysUp /\ w'.deskUp = w.deskUp
      /\ w'.login = w.login /\ w'.trusted = w.trusted /\ w'.here = w.here
      /\ w'.screen = world.screen
  BY <1>1, <1>3 DEF Watchers, Status
<1>5. Calm(job, job')
  BY <1>0, <1>1, <1>2, ReturnedIsCalm
<1>6. /\ JobsOK' /\ \A j \in Workers : job'[j].pc \in {"attest", "finish"} => job'[j] = job[j]
      /\ job["login"].pc = "idle" => job'["login"].pc = "idle"
  BY <1>0, <1>5, CalmKeepsJobs
<1>7. \A j \in Workers : Fresh(j)' => Fresh(j) /\ job'[j] = job[j]
  BY <1>1, <1>6 DEF Fresh
<1>8. ~deaf' => ~deaf
  BY <1>0, <1>4, <1>6, DeafKept
<1>9. TypeOK'
  BY <1>0, <1>1, <1>4, <1>5, LocksAre, TypesKept DEF TypeOK, Calm
<1>10. QueuesTell' /\ BusesOK'
  BY <1>0, <1>1, <1>4 DEF QueuesTell, BusesOK, Running
<1>11. OwnersTold' /\ SessionTold' /\ DeafOK' /\ TrustTold'
  <2>1. OwnersTold'
    BY <1>0, <1>1, <1>2, <1>4 DEF OwnersTold, Told
  <2>2. SessionTold'
    BY <1>0, <1>1, <1>4 DEF SessionTold, Told
  <2>3. DeafOK'
    <3>1. Fresh(k)
      BY <1>1 DEF Fresh
    <3> QED
      BY <1>0, <1>4, <1>6, <3>1 DEF DeafOK, Promise
  <2>4. TrustTold'
    BY <1>1, <1>4 DEF TrustTold
  <2> QED
    BY <2>1, <2>2, <2>3, <2>4
<1>12. DesktopTold'
  <2>1. Fresh(k)
    BY <1>1 DEF Fresh
  <2> QED
    BY <1>0, <1>1, <1>4, <1>7, <1>8, <2>1 DEF DesktopTold, Told
<1>13. EventsOK'
  <2> SUFFICES ASSUME owed' PROVE EventsOK'
    BY DEF EventsOK
  <2>0. sysQ' = sysQ
    BY <1>1
  <2>1. owed /\ open' /\ ~w'.closed
    BY <1>0, <2>0, NotAnnounced, LenProperties DEF TypeOK
  <2> QED
    BY <1>1, <1>4, <1>6, <2>1 DEF EventsOK, Told
<1> QED
  BY <1>6, <1>9, <1>10, <1>11, <1>12, <1>13 DEF ContextInv

LEMMA StepSafe ==
  ASSUME ContextInv, EventsOK, Promise, NEW k \in Workers, Step(k)
  PROVE  ContextInv' /\ EventsOK'
  BY SystemReadSafe, SystemCommitSafe, OwnerReadSafe, ScreenAttestSafe, ScreenCommitSafe DEF Step

-----------------------------------------------------------------------------
(* Failing steps, starting, closing.                                       *)

LEMMA RecheckFailsSafe ==
  ASSUME ContextInv, EventsOK, Promise, NEW k \in Workers, RecheckFails(k)
  PROVE  ContextInv' /\ EventsOK'
<1>0. TypeOK /\ BusesOK /\ JobsOK
  BY DEF ContextInv
<1>1. /\ job[k].pc # "idle" /\ job[k].mode = "recheck" /\ (Fail \/ UNCHANGED world)
      /\ sysQ' = sysQ /\ deskQ' = deskQ
  BY DEF RecheckFails, FailsAt
<1>2. k # "login" /\ ~w.closed /\ job \in [Workers -> Jobs]
      /\ job[k].then \in {"idle", "prepare", "activate", "stop"}
  BY <1>0, <1>1, WorkerNames DEF JobsOK, BusesOK, TypeOK, Jobs
<1> DEFINE x == SoFar(k)
           moved == <<"loop", k>> \notin current \/ LastLook(k)
<1>3. /\ x \in Watchers /\ x.started = w.started /\ x.failed = w.failed /\ x.closed = w.closed
      /\ x.sysUp = w.sysUp /\ x.deskUp = w.deskUp /\ x.login = w.login
      /\ x.trusted = w.trusted /\ x.here = w.here
      /\ (x.screen = NoOwner /\ ~x.ready) \/ (x.screen = w.screen /\ x.ready = w.ready)
  BY <1>0, SoFarIs
<1>4. /\ world' \in Desktops /\ SameDesktop /\ lock \in Locks /\ DropCycle \in Locks
      /\ current \subseteq Snapshots
  BY <1>0, <1>1, FailIs, LocksAre
<1>5. Calm(job, Leave(k, w')) /\ Calm(job, Leave(k, x))
      /\ Calm(job, [job EXCEPT ![k] = Begin("recheck", job[k].then)])
  BY <1>0, <1>2, LeaveIsCalm, BegunIsCalm
<1>6. CASE moved \/ ~Running(w)
  <2>1. /\ w' = x /\ current' \subseteq current /\ lock' \in {lock, DropCycle}
        /\ open' \in BOOLEAN
        /\ job' = IF Running(w) THEN [job EXCEPT ![k] = Begin("recheck", job[k].then)]
                  ELSE Leave(k, x)
    BY <1>0, <1>6 DEF RecheckFails, TypeOK
  <2>2. NoneNew /\ current' \subseteq Snapshots /\ Calm(job, job')
    BY <1>4, <1>5, <2>1 DEF NoneNew
  <2> HIDE DEF x, moved
  <2> QED
    BY <1>1, <1>2, <1>3, <1>4, <2>1, <2>2, Withdrawn
<1>7. CASE ~(moved \/ ~Running(w))
  <2>1. /\ w' = Invalid(x, "cinnamon_untrusted") /\ job' = Leave(k, w') /\ current' = {}
        /\ lock' = DropCycle /\ open' = FALSE
    BY <1>7 DEF RecheckFails, Revoke
  <2> HIDE DEF x, moved
  <2>2. /\ w' \in Watchers /\ w'.started = w.started /\ w'.failed = w.failed
        /\ w'.closed = w.closed /\ w'.sysUp = w.sysUp /\ w'.deskUp = w.deskUp
        /\ w'.login = w.login /\ w'.trusted = w.trusted /\ w'.here = w.here
        /\ w'.screen = NoOwner /\ ~w'.ready
    BY <1>3, <2>1, InvalidIs
  <2>3. NoneNew /\ Calm(job, job') /\ current' \subseteq Snapshots
    BY <1>5, <2>1 DEF NoneNew
  <2> QED
    BY <1>1, <1>2, <1>4, <2>1, <2>2, <2>3, Withdrawn
<1> QED
  BY <1>6, <1>7

LEMMA PrepareFailsSafe ==
  ASSUME ContextInv, EventsOK, Promise, PrepareFails
  PROVE  ContextInv' /\ EventsOK'
<1>0. TypeOK /\ BusesOK
  BY DEF ContextInv
<1>1. /\ job["main"].pc # "idle" /\ (Fail \/ UNCHANGED world) /\ w' = SoFar("main")
      /\ job' = [job EXCEPT !["main"] = Idle] /\ current' \subseteq current
      /\ lock' \in {lock, DropCycle} /\ open' \in BOOLEAN /\ sysQ' = sysQ /\ deskQ' = deskQ
  BY <1>0 DEF PrepareFails, FailsAt, TypeOK
<1>2. ~w.closed /\ Calm(job, job')
  BY <1>0, <1>1, EndedIsCalm, WorkerNames DEF BusesOK, TypeOK
<1>3. /\ w' \in Watchers /\ w'.started = w.started /\ w'.failed = w.failed
      /\ w'.closed = w.closed /\ w'.sysUp = w.sysUp /\ w'.deskUp = w.deskUp
      /\ w'.login = w.login /\ w'.trusted = w.trusted /\ w'.here = w.here
      /\ (w'.screen = NoOwner /\ ~w'.ready) \/ (w'.screen = w.screen /\ w'.ready = w.ready)
  BY <1>0, <1>1, SoFarIs, WorkerNames
<1>4. /\ world' \in Desktops /\ SameDesktop /\ lock' \in Locks /\ current' \subseteq Snapshots
      /\ NoneNew
  BY <1>0, <1>1, FailIs, LocksAre DEF NoneNew
<1> QED
  BY <1>1, <1>2, <1>3, <1>4, Withdrawn

LEMMA KeepAliveFailsSafe ==
  ASSUME ContextInv, EventsOK, Promise, KeepAliveFails \/ PollDisplay
  PROVE  ContextInv' /\ EventsOK'
<1>0. TypeOK /\ w \in Watchers /\ job \in [Workers -> Jobs]
  BY DEF ContextInv, TypeOK
<1>1. /\ ~w.closed /\ (Fail \/ UNCHANGED world) /\ current' = {} /\ lock' = DropCycle
      /\ open' \in BOOLEAN /\ sysQ' = sysQ /\ deskQ' = deskQ
  BY <1>0 DEF KeepAliveFails, PollDisplay, ScreenContext, Attested, Listening, Revoke, TypeOK
<1>2. /\ w' \in Watchers /\ w'.started = w.started /\ w'.failed = w.failed
      /\ w'.closed = w.closed /\ w'.sysUp = w.sysUp /\ w'.deskUp = w.deskUp
      /\ w'.login = w.login /\ w'.trusted = w.trusted /\ w'.here = w.here
      /\ w'.screen = NoOwner /\ ~w'.ready
  <2>1. w' = Invalid(w, "cinnamon_untrusted") \/ w' = DisplayVerdict
    BY DEF KeepAliveFails, PollDisplay
  <2> QED
    BY <1>0, <2>1, InvalidIs, VerdictIs
<1>3. Calm(job, job')
  <2>1. job' \in {job, Scheduled(w', job)}
    BY DEF KeepAliveFails, PollDisplay
  <2> QED
    BY <1>0, <2>1, CalmItself, ScheduledIsCalm
<1>4. /\ world' \in Desktops /\ SameDesktop /\ lock' \in Locks /\ current' \subseteq Snapshots
      /\ NoneNew
  BY <1>0, <1>1, FailIs, LocksAre DEF NoneNew
<1> QED
  BY <1>1, <1>2, <1>3, <1>4, Withdrawn

\* The consumer cannot attest the new owner: it forgets the owner, and the watcher is deaf if
\* another coroutine had come to trust that one.
LEMMA LoginFailsSafe ==
  ASSUME ContextInv, EventsOK, Promise, LoginFails
  PROVE  ContextInv' /\ EventsOK'
<1>0. TypeOK /\ QueuesTell /\ BusesOK /\ JobsOK /\ OwnersTold /\ SessionTold
      /\ DeafOK /\ TrustTold /\ DesktopTold
  BY DEF ContextInv
<1> DEFINE z == [w EXCEPT !.login = NoOwner]
<1>1. /\ job["login"].pc # "idle" /\ (Fail \/ UNCHANGED world)
      /\ w' = Status(z, FALSE, FALSE, "service_untrusted")
      /\ job' = [job EXCEPT !["login"] = Idle]
      /\ UNCHANGED <<sysQ, deskQ, current, lock, open>>
  BY DEF LoginFails, FailsAt
<1>2. w \in Watchers /\ job \in [Workers -> Jobs]
  BY <1>0 DEF TypeOK
<1>3. /\ z \in Watchers /\ z.started = w.started /\ z.failed = w.failed /\ z.closed = w.closed
      /\ z.sysUp = w.sysUp /\ z.deskUp = w.deskUp /\ z.login = NoOwner
      /\ z.trusted = w.trusted /\ z.here = w.here /\ z.screen = w.screen
  BY <1>2 DEF Watchers
<1> HIDE DEF z
<1>4. /\ w' \in Watchers /\ w'.started = w.started /\ w'.failed = w.failed
      /\ w'.closed = w.closed /\ w'.sysUp = w.sysUp /\ w'.deskUp = w.deskUp
      /\ w'.login = NoOwner /\ w'.trusted = w.trusted /\ w'.here = w.here
      /\ w'.screen = w.screen /\ ~w'.ready
  BY <1>1, <1>3 DEF Watchers, Status
<1>5. Calm(job, job')
  BY <1>1, <1>2, EndedIsCalm, WorkerNames
<1>6. /\ JobsOK' /\ \A j \in Workers : job'[j].pc \in {"attest", "finish"} => job'[j] = job[j]
      /\ job'["login"].pc = "idle"
  BY <1>0, <1>1, <1>2, <1>5, CalmKeepsJobs, WorkerNames DEF Idle
<1>7. \A j \in Workers : Fresh(j)' => Fresh(j) /\ job'[j] = job[j]
  BY <1>1, <1>6 DEF Fresh
<1>8. deaf' = (w'.trusted /\ job'["login"].pc = "idle") /\ ~deaf
  BY <1>0, <1>1, <1>4, <1>6 DEF Promise, DeafOK
<1>9. world' \in Desktops /\ SameDesktop /\ ~w.closed
  BY <1>0, <1>1, FailIs, WorkerNames DEF BusesOK
<1>10. TypeOK'
  BY <1>0, <1>1, <1>4, <1>5, <1>9, LocksAre, TypesKept DEF TypeOK, Calm
<1>11. QueuesTell' /\ BusesOK'
  <2>1. QueuesTell'
    BY <1>0, <1>1, <1>9 DEF QueuesTell, SameDesktop
  <2>2. BusesOK'
    BY <1>0, <1>1, <1>4, <1>7, <1>9 DEF BusesOK
  <2> QED
    BY <2>1, <2>2
<1>12. OwnersTold' /\ SessionTold' /\ DeafOK'
  <2>1. OwnersTold'
    BY <1>0, <1>1, <1>4, <1>9 DEF OwnersTold, Told, SameDesktop
  <2>2. SessionTold'
    BY <1>4 DEF SessionTold
  <2>3. DeafOK'
    BY <1>4, <1>6, <1>8 DEF DeafOK
  <2> QED
    BY <2>1, <2>2, <2>3
<1>13. TrustTold'
  BY <1>0, <1>1, <1>4, <1>7, <1>8 DEF TrustTold, Told
<1>14. DesktopTold'
  BY <1>0, <1>1, <1>4, <1>7, <1>8, <1>9 DEF DesktopTold, Told, SameDesktop
<1>15. ~owed'
  <2> SUFFICES ASSUME owed' PROVE FALSE
    OBVIOUS
  <2>1. sysQ' = sysQ
    BY <1>1
  <2>2. owed
    BY <1>0, <2>1, NotAnnounced, LenProperties DEF TypeOK
  <2> QED
    BY <1>1, <2>2 DEF EventsOK
<1> QED
  BY <1>6, <1>10, <1>11, <1>12, <1>13, <1>14, <1>15 DEF ContextInv, EventsOK

\* The buses are closed; or opened, when nothing was known of them.
LEMMA ClosingSafe ==
  ASSUME ContextInv, EventsOK, Promise, StartFails \/ SystemBusFails \/ Close
  PROVE  ContextInv' /\ EventsOK'
<1>0. TypeOK /\ w \in Watchers /\ job \in [Workers -> Jobs] /\ BusesOK
  BY DEF ContextInv, TypeOK
<1>1. /\ sysQ' = <<>> /\ deskQ' = <<>> /\ lock' = lock /\ (Fail \/ UNCHANGED world)
      /\ current' \in {{}, current} /\ open' \in BOOLEAN
      /\ (StartFails \/ SystemBusFails => open' = FALSE)
  BY <1>0 DEF StartFails, SystemBusFails, Close, CloseBuses, Revoke, FailsAt, TypeOK
<1>2. world' \in Desktops /\ lock' \in Locks /\ current' \subseteq Snapshots
  BY <1>0, <1>1, FailIs, LocksAre
<1>3. Calm(job, AllIdle) /\ \A k \in Workers : AllIdle[k].pc = "idle"
  BY <1>0, AllIdleIsCalm
<1>4. CASE StartFails
  <2>1. w' = Down(w, "session_watch_unavailable") /\ job' = AllIdle /\ ~w.closed
    BY <1>0, <1>4, WorkerNames DEF StartFails, FailsAt, BusesOK
  <2>2. /\ w' \in Watchers /\ w'.closed = w.closed /\ w'.failed = w.failed
        /\ w'.started = w.started /\ ~w'.sysUp /\ ~w'.deskUp
        /\ w'.login = NoOwner /\ ~w'.trusted /\ w'.screen = NoOwner
    BY <1>0, <2>1, DownIs
  <2>4. w'.failed => w'.started
    BY <1>0, <2>2 DEF BusesOK
  <2>3. \A k \in Workers : ~Fresh(k)'
    BY <1>3, <2>1 DEF Fresh
  <2> QED
    BY <1>1, <1>2, <1>3, <1>4, <2>1, <2>2, <2>3, <2>4, DownSafe
<1>5. CASE SystemBusFails
  <2> DEFINE z == Down(w, "system_bus_disconnected")
  <2>1. w' = [z EXCEPT !.failed = TRUE] /\ job' = [AllIdle EXCEPT !["main"] = job["main"]]
        /\ ~w.closed /\ current' = {} /\ w.sysUp
    BY <1>5 DEF SystemBusFails, Listening
  <2>2. /\ z \in Watchers /\ z.closed = w.closed /\ z.started = w.started /\ ~z.sysUp /\ ~z.deskUp
        /\ z.login = NoOwner /\ ~z.trusted /\ z.screen = NoOwner
    BY <1>0, DownIs
  <2> HIDE DEF z
  <2>3. /\ w' \in Watchers /\ w'.closed = w.closed /\ ~w'.sysUp /\ ~w'.deskUp
        /\ w'.login = NoOwner /\ ~w'.trusted /\ w'.screen = NoOwner /\ w'.started
    BY <1>0, <2>1, <2>2 DEF Watchers, BusesOK
  <2>4. Calm(job, job')
    BY <1>0, <1>3, <2>1, WorkerNames DEF Calm
  <2>5. \A k \in Workers : ~Fresh(k)'
    BY <2>1 DEF Fresh
  <2> QED
    BY <1>1, <1>2, <1>5, <2>1, <2>3, <2>4, <2>5, DownSafe
<1>6. CASE Close
  <2> DEFINE z == Down(w, "closed")
  <2>1. w' = [z EXCEPT !.closed = TRUE] /\ job' = AllIdle
    BY <1>6 DEF Close
  <2>2. /\ z \in Watchers /\ z.failed = w.failed /\ z.started = w.started
        /\ ~z.sysUp /\ ~z.deskUp
        /\ z.login = NoOwner /\ ~z.trusted /\ z.screen = NoOwner
    BY <1>0, DownIs
  <2> HIDE DEF z
  <2>3. /\ w' \in Watchers /\ w'.closed /\ ~w'.sysUp /\ ~w'.deskUp
        /\ w'.login = NoOwner /\ ~w'.trusted /\ w'.screen = NoOwner
        /\ (w'.failed => w'.started)
    BY <1>0, <2>1, <2>2 DEF Watchers, BusesOK
  <2>4. \A k \in Workers : ~Fresh(k)'
    BY <1>3, <2>1 DEF Fresh
  <2> QED
    BY <1>1, <1>2, <1>3, <2>1, <2>3, <2>4, DownSafe
<1> QED
  BY <1>4, <1>5, <1>6

LEMMA StartSafe ==
  ASSUME ContextInv, EventsOK, Promise, Start
  PROVE  ContextInv' /\ EventsOK'
<1>0. TypeOK /\ w \in Watchers /\ job \in [Workers -> Jobs] /\ BusesOK /\ JobsOK
  BY DEF ContextInv, TypeOK
<1>1. /\ ~w.started /\ ~w.closed /\ w' = [w EXCEPT !.started = TRUE, !.sysUp = TRUE]
      /\ job' = [job EXCEPT !["main"] = Begin("start", "idle")]
      /\ UNCHANGED <<world, sysQ, deskQ, current, lock, open>>
  BY DEF Start
<1>2. /\ ~w.sysUp /\ ~w.deskUp /\ w.login = NoOwner /\ ~w.trusted /\ sysQ = <<>>
      /\ w.screen = NoOwner /\ deskQ = <<>> /\ \A k \in Workers : ~Fresh(k)
  BY <1>0, <1>1 DEF BusesOK
<1>3. w' \in Watchers /\ w'.login = NoOwner /\ ~w'.trusted /\ w'.screen = NoOwner
      /\ ~w'.deskUp /\ w'.started /\ w'.failed = w.failed /\ ~w'.closed /\ w'.sysUp
  BY <1>0, <1>1, <1>2 DEF Watchers
<1>4. Calm(job, job')
  BY <1>0, <1>1, BegunIsCalm, WorkerNames
<1>5. \A k \in Workers : ~Fresh(k)'
  BY <1>0, <1>1, <1>2, <1>4, CalmKeepsJobs DEF Fresh
<1>6. ~owed /\ ~w.failed
  BY <1>0, <1>1, <1>2 DEF EventsOK, BusesOK
<1> QED
  BY <1>0, <1>1, <1>2, <1>3, <1>4, <1>5, <1>6, LocksAre, DownSafe DEF TypeOK

LEMMA PrepareSafe ==
  ASSUME ContextInv, EventsOK, Promise, Prepare
  PROVE  ContextInv' /\ EventsOK'
<1>0. TypeOK /\ w \in Watchers /\ job \in [Workers -> Jobs] /\ BusesOK
  BY DEF ContextInv, TypeOK
<1>1. ~w.closed /\ (Fail \/ UNCHANGED world) /\ open' = open
  BY DEF Prepare
<1>2. /\ world' \in Desktops /\ SameDesktop /\ lock \in Locks /\ DropCycle \in Locks
      /\ current \subseteq Snapshots /\ open' \in BOOLEAN
  BY <1>0, <1>1, FailIs, LocksAre DEF TypeOK
<1>3. CASE ~NeedsRestart
  <2>1. /\ w' = w /\ sysQ' = sysQ /\ deskQ' = deskQ /\ current' = current /\ lock' = lock
        /\ job' = [job EXCEPT !["main"] = Begin("prepare", "activate")]
    BY <1>3 DEF Prepare
  <2>2. Calm(job, job') /\ NoneNew
    BY <1>0, <2>1, BegunIsCalm, WorkerNames DEF NoneNew
  <2> QED
    BY <1>0, <1>1, <1>2, <2>1, <2>2, Withdrawn
<1>4. CASE NeedsRestart
  <2> DEFINE z == Down(w, "reconnecting")
  <2>1. /\ w' = [z EXCEPT !.started = TRUE, !.failed = FALSE, !.sysUp = TRUE]
        /\ job' = [AllIdle EXCEPT !["main"] = Begin("start", "prepare")]
        /\ sysQ' = <<>> /\ deskQ' = <<>> /\ current' = {} /\ lock' = DropCycle
    BY <1>4 DEF Prepare, CloseBuses
  <2>2. /\ z \in Watchers /\ z.closed = w.closed /\ ~z.deskUp
        /\ z.login = NoOwner /\ ~z.trusted /\ z.screen = NoOwner
    BY <1>0, DownIs
  <2> HIDE DEF z
  <2>3. /\ w' \in Watchers /\ ~w'.closed /\ w'.started /\ ~w'.failed /\ ~w'.deskUp
        /\ w'.login = NoOwner /\ ~w'.trusted /\ w'.screen = NoOwner
    BY <1>1, <2>1, <2>2 DEF Watchers
  <2>4. Calm(job, AllIdle)
    BY <1>0, AllIdleIsCalm
  <2>5. AllIdle \in [Workers -> Jobs]
    BY <2>4 DEF Calm
  <2>6. Calm(AllIdle, job')
    BY <2>1, <2>5, BegunIsCalm, WorkerNames
  <2>7. Calm(job, job')
    BY <1>0, <2>4, <2>6, CalmTwice
  <2>8. \A k \in Workers : ~Fresh(k)'
    BY <2>1 DEF Fresh
  <2>9. ~owed
    BY <1>0, <1>4 DEF NeedsRestart, BusesOK, EventsOK
  <2> QED
    BY <1>2, <2>1, <2>3, <2>7, <2>8, <2>9, DownSafe
<1> QED
  BY <1>3, <1>4

\* The screen saver is activated; the bus announces that it appears.
LEMMA ActivateSafe ==
  ASSUME ContextInv, EventsOK, Promise, Activate
  PROVE  ContextInv' /\ EventsOK'
<1>0. TypeOK /\ w \in Watchers /\ world \in Desktops /\ job \in [Workers -> Jobs]
      /\ BusesOK /\ QueuesTell /\ OwnersTold
  BY DEF ContextInv, TypeOK
<1>1. PICK o \in Contracted :
        IF world.screen # NoOwner THEN UNCHANGED <<world, deskQ>>
        ELSE /\ world' = [world EXCEPT !.screen = o]
             /\ DeskSignals(<<[kind |-> "appears", from |-> o, serial |-> 0]>>)
  BY DEF Activate
<1>2. /\ job["main"].pc = "activate" /\ w' = [w EXCEPT !.target = TRUE, !.displayFailed = FALSE]
      /\ job' = [job EXCEPT !["main"] = Begin("prepare", "stop")]
      /\ UNCHANGED <<sysQ, current, lock, open>>
  BY DEF Activate
<1>3. ~w.closed
  BY <1>0, <1>2, WorkerNames DEF BusesOK
<1>4. /\ w' \in Watchers /\ w'.started = w.started /\ w'.failed = w.failed
      /\ w'.closed = w.closed /\ w'.sysUp = w.sysUp /\ w'.deskUp = w.deskUp
      /\ w'.login = w.login /\ w'.trusted = w.trusted /\ w'.here = w.here
      /\ w'.screen = w.screen /\ w'.ready = w.ready
  BY <1>0, <1>2 DEF Watchers
<1>5. Calm(job, job') /\ NoneNew /\ current' \subseteq Snapshots /\ lock' \in Locks
      /\ open' \in BOOLEAN /\ sysQ' = sysQ
  BY <1>0, <1>2, BegunIsCalm, WorkerNames, LocksAre DEF NoneNew, TypeOK
<1>6. CASE world.screen # NoOwner
  <2>1. world' = world /\ deskQ' = deskQ
    BY <1>1, <1>6
  <2>2. SameDesktop
    BY <2>1 DEF SameDesktop
  <2> QED
    BY <1>0, <1>3, <1>4, <1>5, <2>1, <2>2, Withdrawn
<1>7. CASE world.screen = NoOwner
  <2> DEFINE m == [kind |-> "appears", from |-> o, serial |-> 0]
  <2>1. world' = [world EXCEPT !.screen = o] /\ DeskSignals(<<m>>) /\ o \in Screens
    BY <1>1, <1>7, OwnersAssumption
  <2>2. m \in Signals /\ m.kind = "appears" /\ m.from = o
    BY <2>1, SerialAssumption DEF Signals, Serials, Owners
  <2> HIDE DEF m
  <2>3. /\ world' \in Desktops /\ world'.screen = o /\ world'.login = world.login
        /\ world'.here = world.here /\ world'.desktop = world.desktop
        /\ world'.session = world.session
    BY <1>0, <2>1 DEF Desktops
  <2>4. /\ deskQ' \in Seq(Signals) /\ (~w.deskUp => deskQ' = <<>>) /\ ScreenTells(deskQ', o)
        /\ w.deskUp => Queued(deskQ', {"name", "appears"})
    BY <2>1, <2>2, DeskSays
  <2>5. (~w.sysUp => ~w'.deskUp) /\ (~w'.deskUp => w'.screen = NoOwner /\ deskQ' = <<>>)
    BY <1>0, <1>4, <2>4 DEF BusesOK
  <2>6. w'.screen # NoOwner => Queued(deskQ', {"name", "appears"})
    BY <1>4, <2>4, <2>5
  <2> QED
    BY <1>3, <1>4, <1>5, <2>3, <2>4, <2>5, <2>6, CalmSafe
<1> QED
  BY <1>6, <1>7

LEMMA ControlSafe ==
  ASSUME ContextInv, EventsOK, Promise, Control
  PROVE  ContextInv' /\ EventsOK'
  BY StartSafe, PrepareSafe, ActivateSafe, ClosingSafe DEF Control

-----------------------------------------------------------------------------
(* The consumers of the two buses.                                         *)

\* Nothing of these kinds is left behind the signal consumed: it was the last of them.
LEMMA HeadWasLast ==
  ASSUME NEW q \in Seq(Signals), q # <<>>, NEW kinds, ~Queued(Tail(q), kinds)
  PROVE  1 \in DOMAIN q /\ q[1] = Head(q) /\ LastOf(q, 1, kinds)
<1>1. ASSUME NEW j \in DOMAIN q, j > 1 PROVE q[j].kind \notin kinds
  <2>1. j - 1 \in DOMAIN Tail(q) /\ Tail(q)[j - 1] = q[j]
    BY <1>1, Consumed
  <2> QED
    BY <2>1 DEF Queued
<1> QED
  BY <1>1, Consumed DEF LastOf

LEMMA HeadTells ==
  ASSUME NEW q \in Seq(Signals), q # <<>>, NEW l, NEW h, SystemTells(q, l, h),
         Head(q).kind # "name"
  PROVE  /\ Head(q).from = l \/ Queued(Tail(q), {"name"})
         /\ Head(q).kind \in {"away", "back"} =>
              h = (Head(q).kind = "back") \/ Queued(Tail(q), {"away", "back"})
<1>1. CASE ~Queued(Tail(q), {"name"})
  BY <1>1, HeadWasLast DEF SystemTells
<1>2. CASE Head(q).kind \in {"away", "back"} /\ ~Queued(Tail(q), {"away", "back"})
  BY <1>2, HeadWasLast DEF SystemTells
<1> QED
  BY <1>1, <1>2

LEMMA HeadTellsScreen ==
  ASSUME NEW q \in Seq(Signals), q # <<>>, NEW s, ScreenTells(q, s),
         Head(q).kind \in {"name", "appears"}
  PROVE  Head(q).from = s \/ Queued(Tail(q), {"name", "appears"})
  BY HeadWasLast DEF ScreenTells

\* A signal of logind that the watcher does not listen to is no loss: a change of owner is
\* queued behind it.
LEMMA Unheard ==
  ASSUME ContextInv, sysQ # <<>>, Head(sysQ).kind # "name", ~Heard, w.login # NoOwner,
         w.trusted \/ Told({"name"})
  PROVE  Queued(Tail(sysQ), {"name"})
<1>1. sysQ \in Seq(Signals) /\ SystemTells(sysQ, world.login, world.here) /\ OwnersTold
  BY DEF ContextInv, TypeOK, QueuesTell
<1>2. CASE Told({"name"})
  BY <1>1, <1>2, QueuedRemains DEF Told
<1>3. CASE w.trusted /\ world.login = w.login
  BY <1>1, <1>3, HeadTells DEF Heard
<1> QED
  BY <1>1, <1>2, <1>3 DEF OwnersTold

LEMMA TakeIs ==
  ASSUME ContextInv, NEW kinds, Take(kinds)
  PROVE  /\ sysQ \in Seq(Signals) /\ sysQ # <<>> /\ Head(sysQ).kind \in kinds
         /\ sysQ' = Tail(sysQ) /\ sysQ' \in Seq(Signals) /\ Len(sysQ') <= Len(sysQ)
         /\ SystemTells(sysQ', world.login, world.here)
         /\ w.sysUp /\ ~w.failed /\ ~w.closed /\ job["login"].pc = "idle"
<1>1. /\ sysQ \in Seq(Signals) /\ sysQ # <<>> /\ Head(sysQ).kind \in kinds
      /\ sysQ' = Tail(sysQ) /\ SystemTells(sysQ, world.login, world.here)
      /\ w.sysUp /\ ~w.failed /\ ~w.closed /\ job["login"].pc = "idle"
  BY DEF Take, Listening, ContextInv, TypeOK, QueuesTell
<1>2. Len(Tail(sysQ)) = Len(sysQ) - 1 /\ Len(sysQ) \in Nat
  BY <1>1, HeadTailProperties, EmptySeq
<1> QED
  BY <1>1, <1>2, Consumed, SystemStillTells

LEMMA LoginOwnerChangedSafe ==
  ASSUME ContextInv, EventsOK, Promise, LoginOwnerChanged
  PROVE  ContextInv' /\ EventsOK'
<1>0. /\ TypeOK /\ QueuesTell /\ BusesOK /\ JobsOK /\ w \in Watchers
      /\ job \in [Workers -> Jobs]
  BY DEF ContextInv, TypeOK
<1> DEFINE z == [w EXCEPT !.login = NoOwner, !.trusted = FALSE]
<1>1. /\ Take({"name"}) /\ w' = Invalid(z, "service_owner_changed")
      /\ job' = [job EXCEPT !["login"] = Begin("login", "idle")]
      /\ current' = {} /\ lock' = DropCycle /\ open' = FALSE
      /\ UNCHANGED <<world, deskQ>>
  BY DEF LoginOwnerChanged, Revoke
<1>2. z \in Watchers /\ z.started = w.started /\ z.failed = w.failed /\ z.closed = w.closed
      /\ z.sysUp = w.sysUp /\ z.deskUp = w.deskUp /\ z.login = NoOwner /\ ~z.trusted
  BY <1>0 DEF Watchers
<1> HIDE DEF z
<1>3. /\ w' \in Watchers /\ w'.started = w.started /\ w'.failed = w.failed
      /\ w'.closed = w.closed /\ w'.sysUp = w.sysUp /\ w'.deskUp = w.deskUp
      /\ w'.login = NoOwner /\ ~w'.trusted /\ w'.screen = NoOwner /\ ~w'.ready
  BY <1>1, <1>2, InvalidIs
<1>4. /\ sysQ' \in Seq(Signals) /\ SystemTells(sysQ', world.login, world.here)
      /\ w.sysUp /\ ~w.failed /\ ~w.closed
  BY <1>1, TakeIs
<1>5. /\ Begin("login", "idle") \in Jobs /\ Begin("login", "idle").pc = "system"
      /\ Begin("login", "idle").mode = "login"
  BY JobTypes
<1>6. job' \in [Workers -> Jobs] /\ JobsOK'
  BY <1>0, <1>1, <1>5, WorkerNames DEF JobsOK
<1>7. deaf' = FALSE /\ \A k \in Workers : ~Fresh(k)'
  BY <1>1, <1>3 DEF Promise, Fresh
<1>8. TypeOK'
  BY <1>0, <1>1, <1>3, <1>4, <1>6, LocksAre, TypesKept DEF TypeOK
<1>9. QueuesTell' /\ BusesOK'
  BY <1>0, <1>1, <1>3, <1>4 DEF QueuesTell, BusesOK
<1>10. OwnersTold' /\ SessionTold' /\ DeafOK' /\ TrustTold'
  BY <1>3, <1>7 DEF OwnersTold, SessionTold, DeafOK, TrustTold
<1>11. DesktopTold'
  BY <1>3, <1>7, OwnersAssumption DEF DesktopTold
<1>12. ~owed'
  BY <1>1 DEF Promise
<1> QED
  BY <1>6, <1>8, <1>9, <1>10, <1>11, <1>12 DEF ContextInv, EventsOK

\* A signal of logind that changes nothing of what the watcher holds.
LEMMA PassedSafe ==
  ASSUME ContextInv, EventsOK, Promise,
         NEW kinds, kinds \subseteq {"lock", "power", "topology", "away", "back", "gone"},
         Take(kinds), open' = (open /\ ~(Heard /\ Head(sysQ).kind # "back")),
         ~Heard \/ \/ Head(sysQ).kind \in {"lock", "power"}
                   \/ Head(sysQ).kind \in {"away", "back"} /\ w.here = (Head(sysQ).kind = "back"),
         UNCHANGED <<world, w, deskQ, job, current, lock>>
  PROVE  ContextInv' /\ EventsOK'
<1>0. TypeOK /\ QueuesTell /\ BusesOK /\ JobsOK /\ OwnersTold /\ SessionTold
      /\ DeafOK /\ TrustTold /\ DesktopTold
  BY DEF ContextInv
<1> DEFINE kind == Head(sysQ).kind
<1>1. /\ sysQ \in Seq(Signals) /\ sysQ # <<>> /\ kind # "name" /\ kind \in kinds
      /\ sysQ' = Tail(sysQ) /\ sysQ' \in Seq(Signals) /\ Len(sysQ') <= Len(sysQ)
      /\ SystemTells(sysQ', world.login, world.here)
      /\ w.sysUp /\ ~w.failed /\ ~w.closed /\ job["login"].pc = "idle"
  BY TakeIs
<1>2. ~deaf' => ~deaf
  BY <1>0, DeafKept
<1>3. \A ks : Queued(sysQ, ks) /\ kind \notin ks => Queued(sysQ', ks)
  BY <1>1, QueuedRemains
<1>4. Told({"name"}) => Queued(sysQ', {"name"})
  BY <1>1, <1>3 DEF Told
<1>5. ~Heard /\ w.login # NoOwner /\ (w.trusted \/ Told({"name"})) => Queued(sysQ', {"name"})
  BY <1>1, Unheard
<1>6. /\ Queued(sysQ', {"name"}) => Queued(sysQ', {"away", "back", "name"})
      /\ Queued(sysQ', {"name"}) => Queued(sysQ', {"topology", "gone", "name"})
      /\ Queued(sysQ', {"name"}) => Queued(sysQ', Sealing)
      /\ Queued(sysQ', {"away", "back"}) => Queued(sysQ', {"away", "back", "name"})
  BY DEF Queued, Sealing
<1> HIDE DEF kind
<1>7. TypeOK'
  <2>1. open' \in BOOLEAN
    BY <1>0 DEF TypeOK
  <2> QED
    BY <1>0, <1>1, <2>1, LocksAre, TypesKept DEF TypeOK
<1>8. JobsOK' /\ \A k \in Workers : Fresh(k)' <=> Fresh(k)
  BY <1>0 DEF JobsOK, Fresh
<1>9. QueuesTell' /\ BusesOK'
  BY <1>0, <1>1, <1>8 DEF QueuesTell, BusesOK
<1>10. OwnersTold'
  BY <1>0, <1>4 DEF OwnersTold, Told
<1>11. SessionTold'
  <2> SUFFICES ASSUME w.trusted, w.login # NoOwner, world.here # w.here
               PROVE  Queued(sysQ', {"away", "back", "name"})
    BY DEF SessionTold, Told
  <2>1. Queued(sysQ, {"away", "back", "name"})
    BY <1>0 DEF SessionTold, Told
  <2>2. CASE kind \notin {"away", "back"}
    BY <1>1, <1>3, <2>1, <2>2
  <2>3. CASE ~Heard
    BY <1>5, <1>6, <2>3
  <2>4. CASE kind \in {"away", "back"} /\ Heard
    <3>1. w.here = (kind = "back")
      BY <2>4 DEF kind
    <3>2. world.here = (kind = "back") \/ Queued(sysQ', {"away", "back"})
      BY <1>0, <1>1, <2>4, HeadTells DEF QueuesTell, kind
    <3> QED
      BY <1>6, <3>1, <3>2
  <2> QED
    BY <2>2, <2>3, <2>4
<1>12. DeafOK' /\ TrustTold'
  <2>1. DeafOK'
    BY <1>0, <1>8, DeafAgain
  <2>2. TrustTold'
    BY <1>0, <1>2, <1>4, <1>8 DEF TrustTold, Told
  <2> QED
    BY <2>1, <2>2
<1>13. DesktopTold'
  <2> SUFFICES ASSUME ~deaf, ~(world.desktop /\ world.session),
                      \/ w.ready /\ w.screen \in Contracted
                      \/ \E k \in Workers : Fresh(k) /\ job[k].pc = "finish"
                                             /\ job[k].owner \in Contracted
               PROVE  Queued(sysQ', {"topology", "gone", "name"})
    BY <1>2, <1>8 DEF DesktopTold, Told
  <2>1. Queued(sysQ, {"topology", "gone", "name"}) /\ (w.trusted \/ Told({"name"}))
    BY <1>0, OwnersAssumption DEF DesktopTold, TrustTold, Told
  <2>2. CASE kind \notin {"topology", "gone"}
    BY <1>1, <1>3, <2>1, <2>2
  <2>3. CASE kind \in {"topology", "gone"}
    <3>1. ~Heard
      BY <2>3 DEF kind
    <3>2. w.login = NoOwner => ~w.trusted
      BY <1>0, <1>1 DEF DeafOK
    <3> QED
      BY <1>4, <1>5, <1>6, <2>1, <3>1, <3>2
  <2> QED
    BY <2>2, <2>3
<1>14. EventsOK'
  <2> SUFFICES ASSUME owed' PROVE EventsOK'
    BY DEF EventsOK
  <2>1. owed /\ open' /\ ~w'.closed
    BY <1>0, <1>1, NotAnnounced
  <2>2. w.login # NoOwner /\ (w.trusted \/ Told({"name"})) /\ Told(Sealing)
    BY <2>1 DEF EventsOK
  <2>3. Queued(sysQ', Sealing)
    <3>1. CASE ~Heard
      BY <1>5, <1>6, <2>2, <3>1
    <3>2. CASE Heard
      <4>1. kind = "back"
        BY <2>1, <3>2 DEF kind
      <4> QED
        BY <1>3, <2>2, <4>1 DEF Told, Sealing
    <3> QED
      BY <3>1, <3>2
  <2> QED
    BY <1>1, <1>4, <2>1, <2>2, <2>3 DEF EventsOK, Told
<1> QED
  BY <1>7, <1>8, <1>9, <1>10, <1>11, <1>12, <1>13, <1>14 DEF ContextInv

LEMMA SealingSignalSafe ==
  ASSUME ContextInv, EventsOK, Promise, SealingSignal
  PROVE  ContextInv' /\ EventsOK'
<1>1. Head(sysQ).kind \in {"lock", "power"} /\ open' = (open /\ ~Heard)
      /\ Take({"lock", "power"}) /\ UNCHANGED <<world, w, deskQ, job, current, lock>>
  BY DEF SealingSignal, Take
<1>2. open' = (open /\ ~(Heard /\ Head(sysQ).kind # "back"))
  BY <1>1
<1> QED
  BY <1>1, <1>2, PassedSafe

\* The context ends; where the console is is what this signal said, or a later one will.
LEMMA MetadataHeardSafe ==
  ASSUME ContextInv, EventsOK, Promise, MetadataSignal, Heard,
         Head(sysQ).kind = "topology" \/ w.here = (Head(sysQ).kind = "away")
  PROVE  ContextInv' /\ EventsOK'
<1>0. TypeOK /\ QueuesTell /\ BusesOK /\ JobsOK /\ OwnersTold /\ SessionTold
      /\ DeafOK /\ w \in Watchers /\ job \in [Workers -> Jobs]
  BY DEF ContextInv, TypeOK
<1> DEFINE kind == Head(sysQ).kind
           here == IF kind = "topology" THEN w.here ELSE kind = "back"
           z == Invalid(w, IF kind = "topology" THEN "desktop_topology_changed"
                           ELSE "desktop_metadata_changed")
<1>1. /\ Take({"topology", "away", "back"})
      /\ w' = [z EXCEPT !.here = IF kind = "topology" THEN @ ELSE kind = "back"]
      /\ job' = Scheduled(w', job) /\ current' = {} /\ lock' = DropCycle
      /\ open' = (open /\ ~(kind \in {"topology", "away"}))
      /\ UNCHANGED <<world, deskQ>>
  BY DEF MetadataSignal
<1>2. /\ sysQ \in Seq(Signals) /\ sysQ # <<>> /\ kind \in {"topology", "away", "back"}
      /\ sysQ' = Tail(sysQ) /\ sysQ' \in Seq(Signals) /\ Len(sysQ') <= Len(sysQ)
      /\ SystemTells(sysQ', world.login, world.here)
      /\ w.sysUp /\ ~w.failed /\ ~w.closed /\ job["login"].pc = "idle"
  BY <1>1, TakeIs
<1>3. /\ z \in Watchers /\ z.started = w.started /\ z.failed = w.failed /\ z.closed = w.closed
      /\ z.sysUp = w.sysUp /\ z.deskUp = w.deskUp /\ z.login = w.login
      /\ z.trusted = w.trusted /\ z.here = w.here /\ z.screen = NoOwner /\ ~z.ready
  BY <1>0, InvalidIs
<1>4. here \in BOOLEAN /\ w' = [z EXCEPT !.here = here]
  BY <1>0, <1>1, <1>3 DEF Watchers
<1>5. world.here = here \/ Queued(sysQ', {"away", "back", "name"}) \/ ~w.trusted
        \/ w.login = NoOwner
  <2>1. CASE kind = "topology"
    <3>1. Queued(sysQ, {"away", "back", "name"}) => Queued(sysQ', {"away", "back", "name"})
      BY <1>2, <2>1, QueuedRemains
    <3> QED
      BY <1>0, <2>1, <3>1 DEF SessionTold, Told
  <2>2. CASE kind \in {"away", "back"}
    <3>1. world.here = (kind = "back") \/ Queued(sysQ', {"away", "back"})
      BY <1>0, <1>2, <2>2, HeadTells DEF QueuesTell
    <3>2. Queued(sysQ', {"away", "back"}) => Queued(sysQ', {"away", "back", "name"})
      BY DEF Queued
    <3> QED
      BY <2>2, <3>1, <3>2
  <2> QED
    BY <1>2, <2>1, <2>2
<1> HIDE DEF z, here
<1>6. /\ w' \in Watchers /\ w'.started = w.started /\ w'.failed = w.failed
      /\ w'.closed = w.closed /\ w'.sysUp = w.sysUp /\ w'.deskUp = w.deskUp
      /\ w'.login = w.login /\ w'.trusted = w.trusted /\ w'.screen = NoOwner /\ ~w'.ready
      /\ w'.here = here
  BY <1>3, <1>4 DEF Watchers
<1>7. Calm(job, job')
  BY <1>0, <1>1, ScheduledIsCalm
<1>8. JobsOK' /\ job'["login"].pc = "idle"
  BY <1>0, <1>2, <1>7, CalmKeepsJobs
<1>9. (~deaf' => ~deaf) /\ \A k \in Workers : ~Fresh(k)'
  BY <1>0, <1>1, <1>6, <1>8, DeafKept DEF Fresh
<1>10. Told({"name"}) => Queued(sysQ', {"name"})
  BY <1>2, QueuedRemains DEF Told
<1>11. TypeOK'
  <2>1. open' \in BOOLEAN
    BY <1>0, <1>1 DEF TypeOK
  <2> QED
    BY <1>0, <1>1, <1>2, <1>6, <1>7, <2>1, LocksAre, TypesKept DEF TypeOK, Calm
<1>12. QueuesTell' /\ BusesOK'
  BY <1>0, <1>1, <1>2, <1>6 DEF QueuesTell, BusesOK
<1>13. OwnersTold'
  BY <1>0, <1>1, <1>6, <1>10 DEF OwnersTold, Told
<1>14. SessionTold'
  BY <1>1, <1>5, <1>6 DEF SessionTold, Told
<1>15. DeafOK' /\ TrustTold'
  <2>1. DeafOK'
    BY <1>0, <1>6, <1>8, <1>9, DeafAgain
  <2>2. TrustTold'
    BY <1>6, <1>9 DEF TrustTold
  <2> QED
    BY <2>1, <2>2
<1>16. DesktopTold'
  BY <1>6, <1>9, OwnersAssumption DEF DesktopTold
<1>17. EventsOK'
  <2> SUFFICES ASSUME owed' PROVE EventsOK'
    BY DEF EventsOK
  <2>1. owed /\ open' /\ ~w'.closed
    BY <1>0, <1>2, NotAnnounced
  <2>2. kind = "back"
    BY <1>1, <1>2, <2>1
  <2>3. Queued(sysQ', Sealing)
    BY <1>2, <2>1, <2>2, QueuedRemains DEF EventsOK, Told, Sealing
  <2> QED
    BY <1>2, <1>6, <1>8, <1>10, <2>1, <2>3 DEF EventsOK, Told
<1> QED
  BY <1>8, <1>11, <1>12, <1>13, <1>14, <1>15, <1>16, <1>17 DEF ContextInv

LEMMA MetadataSignalSafe ==
  ASSUME ContextInv, EventsOK, Promise, MetadataSignal
  PROVE  ContextInv' /\ EventsOK'
<1> DEFINE kind == Head(sysQ).kind
           turned == kind = "topology" \/ w.here = (kind = "away")
<1>1. CASE Heard /\ turned
  BY <1>1, MetadataHeardSafe
<1>2. CASE ~(Heard /\ turned)
  <2>1. /\ Take({"topology", "away", "back"}) /\ kind \in {"topology", "away", "back"}
        /\ UNCHANGED <<world, w, deskQ, job, current, lock>>
        /\ open' = (open /\ ~(Heard /\ kind \in {"topology", "away"}))
    BY <1>2 DEF MetadataSignal, Take
  <2>2. open' = (open /\ ~(Heard /\ kind # "back"))
    BY <2>1
  <2>3. Heard => kind \in {"away", "back"} /\ w.here = (kind = "back")
    <3>1. w.here \in BOOLEAN
      BY DEF ContextInv, TypeOK, Watchers
    <3> QED
      BY <1>2, <2>1, <3>1
  <2> QED
    BY <2>1, <2>2, <2>3, PassedSafe
<1> QED
  BY <1>1, <1>2

LEMMA OwnSessionGoneSafe ==
  ASSUME ContextInv, EventsOK, Promise, OwnSessionGone
  PROVE  ContextInv' /\ EventsOK'
<1>0. /\ TypeOK /\ QueuesTell /\ BusesOK /\ JobsOK /\ w \in Watchers
      /\ job \in [Workers -> Jobs]
  BY DEF ContextInv, TypeOK
<1>1. Take({"gone"}) /\ Head(sysQ).kind = "gone" /\ UNCHANGED <<world, deskQ, job, lock>>
  BY DEF OwnSessionGone, Take
<1>2. CASE ~Heard
  <2>1. UNCHANGED <<w, current, open>>
    BY <1>2 DEF OwnSessionGone
  <2>2. open' = (open /\ ~(Heard /\ Head(sysQ).kind # "back"))
    BY <1>0, <1>2, <2>1 DEF TypeOK
  <2> QED
    BY <1>1, <1>2, <2>1, <2>2, PassedSafe
<1>3. CASE Heard
  <2> DEFINE z == [w EXCEPT !.login = NoOwner, !.screen = NoOwner, !.trusted = FALSE]
  <2>1. w' = Status(z, FALSE, FALSE, "session_removed") /\ current' = {} /\ open' = FALSE
    BY <1>3 DEF OwnSessionGone, Revoke
  <2>2. /\ z \in Watchers /\ z.started = w.started /\ z.failed = w.failed /\ z.closed = w.closed
        /\ z.sysUp = w.sysUp /\ z.deskUp = w.deskUp /\ z.login = NoOwner /\ ~z.trusted
        /\ z.screen = NoOwner
    BY <1>0 DEF Watchers
  <2> HIDE DEF z
  <2>3. /\ w' \in Watchers /\ w'.started = w.started /\ w'.failed = w.failed
        /\ w'.closed = w.closed /\ w'.sysUp = w.sysUp /\ w'.deskUp = w.deskUp
        /\ w'.login = NoOwner /\ ~w'.trusted /\ w'.screen = NoOwner /\ ~w'.ready
    BY <2>1, <2>2 DEF Watchers, Status
  <2>4. /\ sysQ' \in Seq(Signals) /\ SystemTells(sysQ', world.login, world.here)
        /\ w.sysUp /\ ~w.failed /\ ~w.closed
    BY <1>1, TakeIs
  <2>5. deaf' = FALSE /\ \A k \in Workers : ~Fresh(k)'
    BY <2>1, <2>3 DEF Promise, Fresh
  <2>6. TypeOK' /\ JobsOK'
    <3>1. TypeOK'
      BY <1>0, <1>1, <2>1, <2>3, <2>4, LocksAre, TypesKept DEF TypeOK
    <3>2. JobsOK'
      BY <1>0, <1>1 DEF JobsOK
    <3> QED
      BY <3>1, <3>2
  <2>7. QueuesTell' /\ BusesOK'
    BY <1>0, <1>1, <2>3, <2>4 DEF QueuesTell, BusesOK
  <2>8. OwnersTold' /\ SessionTold' /\ TrustTold'
    BY <2>3, <2>5 DEF OwnersTold, SessionTold, TrustTold
  <2>9. DeafOK'
    BY <2>3, <2>5 DEF DeafOK
  <2>10. DesktopTold'
    BY <2>3, <2>5, OwnersAssumption DEF DesktopTold
  <2>11. ~owed'
    BY <2>1 DEF Promise
  <2> QED
    BY <2>6, <2>7, <2>8, <2>9, <2>10, <2>11 DEF ContextInv, EventsOK
<1> QED
  BY <1>2, <1>3

LEMMA TakeScreenIs ==
  ASSUME ContextInv, NEW kinds, TakeScreen(kinds)
  PROVE  /\ deskQ \in Seq(Signals) /\ deskQ # <<>> /\ Head(deskQ) \in Signals
         /\ Head(deskQ).kind \in kinds /\ deskQ' = Tail(deskQ) /\ deskQ' \in Seq(Signals)
         /\ ScreenTells(deskQ, world.screen) /\ ScreenTells(deskQ', world.screen)
         /\ Running(w) /\ w.sysUp /\ w.deskUp /\ ~w.closed
<1>1. /\ deskQ \in Seq(Signals) /\ deskQ # <<>> /\ Head(deskQ).kind \in kinds
      /\ deskQ' = Tail(deskQ) /\ ScreenTells(deskQ, world.screen)
      /\ Running(w) /\ w.sysUp /\ w.deskUp /\ ~w.closed
  BY DEF TakeScreen, Watching, Running, ContextInv, TypeOK, QueuesTell
<1> QED
  BY <1>1, Consumed, ScreenStillTells

LEMMA ScreenAppearsSafe ==
  ASSUME ContextInv, EventsOK, Promise, ScreenAppears
  PROVE  ContextInv' /\ EventsOK'
<1>0. TypeOK /\ w \in Watchers /\ job \in [Workers -> Jobs] /\ OwnersTold
  BY DEF ContextInv, TypeOK
<1>1. /\ TakeScreen({"appears"}) /\ w.screen \in {NoOwner, Head(deskQ).from}
      /\ job' \in {job, [job EXCEPT !["desktop"] = Begin("recheck", "idle")]}
      /\ UNCHANGED <<world, w, sysQ, current, lock, open>>
  BY DEF ScreenAppears
<1>2. /\ deskQ \in Seq(Signals) /\ deskQ # <<>> /\ Head(deskQ).kind = "appears"
      /\ deskQ' = Tail(deskQ) /\ deskQ' \in Seq(Signals)
      /\ ScreenTells(deskQ, world.screen) /\ ScreenTells(deskQ', world.screen)
      /\ w.sysUp /\ w.deskUp /\ ~w.closed
  BY <1>1, TakeScreenIs
<1>3. w.screen # NoOwner => world.screen = w.screen \/ Queued(deskQ', {"name", "appears"})
  BY <1>1, <1>2, HeadTellsScreen
<1>4. Calm(job, job')
  BY <1>0, <1>1, CalmItself, BegunIsCalm, WorkerNames
<1>5. NoneNew /\ current' \subseteq Snapshots /\ lock' \in Locks /\ open' \in BOOLEAN
      /\ world' \in Desktops /\ w' = w
  BY <1>0, <1>1, LocksAre DEF NoneNew, TypeOK
<1> QED
  BY <1>0, <1>1, <1>2, <1>3, <1>4, <1>5, CalmSafe

LEMMA ScreenOwnerChangedSafe ==
  ASSUME ContextInv, EventsOK, Promise, ScreenOwnerChanged
  PROVE  ContextInv' /\ EventsOK'
<1>0. TypeOK /\ w \in Watchers /\ job \in [Workers -> Jobs]
  BY DEF ContextInv, TypeOK
<1>1. /\ TakeScreen({"appears", "name"}) /\ w' = Invalid(w, "service_owner_changed")
      /\ job' = [job EXCEPT !["desktop"] = Begin("recheck", "idle")]
      /\ current' = {} /\ lock' = DropCycle /\ open' = FALSE /\ UNCHANGED <<world, sysQ>>
  BY DEF ScreenOwnerChanged, Revoke
<1>2. /\ deskQ' \in Seq(Signals) /\ ScreenTells(deskQ', world.screen)
      /\ w.sysUp /\ w.deskUp /\ ~w.closed
  BY <1>1, TakeScreenIs
<1>3. /\ w' \in Watchers /\ w'.started = w.started /\ w'.failed = w.failed
      /\ w'.closed = w.closed /\ w'.sysUp = w.sysUp /\ w'.deskUp = w.deskUp
      /\ w'.login = w.login /\ w'.trusted = w.trusted /\ w'.here = w.here
      /\ w'.screen = NoOwner /\ ~w'.ready
  BY <1>0, <1>1, InvalidIs
<1>4. Calm(job, job')
  BY <1>0, <1>1, BegunIsCalm, WorkerNames
<1>5. NoneNew /\ current' \subseteq Snapshots /\ lock' \in Locks /\ open' \in BOOLEAN
      /\ world' \in Desktops
  BY <1>0, <1>1, LocksAre DEF NoneNew, TypeOK
<1> QED
  BY <1>1, <1>2, <1>3, <1>4, <1>5, CalmSafe

LEMMA SessionBusFailsSafe ==
  ASSUME ContextInv, EventsOK, Promise, SessionBusFails
  PROVE  ContextInv' /\ EventsOK'
<1>0. TypeOK /\ w \in Watchers /\ job \in [Workers -> Jobs]
  BY DEF ContextInv, TypeOK
<1> DEFINE z == [w EXCEPT !.screen = NoOwner, !.deskUp = FALSE]
           system == w.login # NoOwner
<1>1. /\ Running(w) /\ Fail /\ w' = Status(z, system, FALSE, "screen_bus_disconnected")
      /\ deskQ' = <<>> /\ current' = {} /\ open' = FALSE /\ UNCHANGED <<sysQ, job, lock>>
  BY DEF SessionBusFails, Watching, Revoke
<1>2. /\ z \in Watchers /\ z.started = w.started /\ z.failed = w.failed /\ z.closed = w.closed
      /\ z.sysUp = w.sysUp /\ ~z.deskUp /\ z.login = w.login
      /\ z.trusted = w.trusted /\ z.here = w.here /\ z.screen = NoOwner
  BY <1>0 DEF Watchers
<1>3. system \in BOOLEAN
  OBVIOUS
<1> HIDE DEF z, system
<1>4. /\ w' \in Watchers /\ w'.started = w.started /\ w'.failed = w.failed
      /\ w'.closed = w.closed /\ w'.sysUp = w.sysUp /\ ~w'.deskUp
      /\ w'.login = w.login /\ w'.trusted = w.trusted /\ w'.here = w.here
      /\ w'.screen = NoOwner /\ ~w'.ready
  BY <1>1, <1>2, <1>3 DEF Watchers, Status
<1>5. /\ world' \in Desktops /\ SameDesktop /\ Calm(job, job')
      /\ NoneNew /\ current' \subseteq Snapshots /\ lock' \in Locks
  BY <1>0, <1>1, FailIs, LocksAre, CalmItself DEF NoneNew
<1>6. deskQ' \in Seq(Signals) /\ ScreenTells(deskQ', world'.screen)
  BY <1>1, NothingTold, EmptySeq
<1> QED
  BY <1>1, <1>4, <1>5, <1>6, CalmSafe DEF SameDesktop

-----------------------------------------------------------------------------
(* Serials.                                                                *)

Left == world.left.covers + 3 * world.left.locks + Pending

LEMMA OrdIs ==
  ASSUME NEW s \in Serials \ {0}
  PROVE  Ord(s) \in 0..(SerialSpace - 2)
  BY SerialAssumption DEF Ord, Serials

LEMMA NextOrd ==
  ASSUME NEW s \in Serials \ {0}, Ord(s) < SerialSpace - 2
  PROVE  NextSerial(s) \in Serials \ {0} /\ Ord(NextSerial(s)) = Ord(s) + 1
  BY SerialAssumption DEF Ord, Serials, NextSerial

\* Twice the half of the circle is the circle, and what is left of a difference that was wrapped.
LEMMA Circle ==
  /\ SerialSpace \in Nat \ {0, 1} /\ SerialSpace \div 2 \in Nat
  /\ 2 * (SerialSpace \div 2) = SerialSpace
  BY SerialAssumption

LEMMA Wrapped ==
  ASSUME NEW d \in Int, -SerialSpace < d, d < SerialSpace
  PROVE  d % SerialSpace = IF d >= 0 THEN d ELSE d + SerialSpace
<1>1. SerialSpace \in Nat \ {0}
  BY Circle
<1> QED
  BY <1>1

\* _serial_after tells the order of any two serials that were given.
LEMMA SerialsOrdered ==
  ASSUME NEW v \in Serials, NEW b \in Serials, SerialAfter(v, b), NEW n \in Nat,
         2 * (n + 2) <= SerialSpace, v # 0 => Ord(v) < n, b # 0 => Ord(b) < n
  PROVE  v # 0 /\ b # 0 /\ Ord(b) < Ord(v)
<1>1. v # 0 /\ b # 0
  BY DEF SerialAfter
<1> DEFINE half == SerialSpace \div 2
<1>2. half \in Nat /\ 2 * half = SerialSpace /\ SerialSpace \in Nat \ {0}
  BY Circle
<1>3. v \in 1..(SerialSpace - 1) /\ b \in 1..(SerialSpace - 1)
  BY <1>1, <1>2 DEF Serials
<1>4. (v - b) % SerialSpace = IF v - b >= 0 THEN v - b ELSE v - b + SerialSpace
  BY <1>2, <1>3, Wrapped
<1>5. 0 < (v - b) % SerialSpace /\ (v - b) % SerialSpace < half
  BY DEF SerialAfter
<1> HIDE DEF half
<1>6. CASE v - b >= 0
  <2>1. 0 < v - b /\ v - b < half
    BY <1>4, <1>5, <1>6
  <2> QED
    BY <1>1, <1>2, <1>3, <2>1, SerialAssumption DEF Ord
<1>7. CASE v - b < 0
  <2>1. v - b + SerialSpace < half
    BY <1>3, <1>4, <1>5, <1>7
  <2> QED
    BY <1>1, <1>2, <1>3, <2>1, SerialAssumption DEF Ord
<1> QED
  BY <1>3, <1>6, <1>7

-----------------------------------------------------------------------------
(* The frames of the screen.                                               *)

LEMMA FramesAre ==
  ASSUME NEW q \in Seq(Signals)
  PROVE  /\ \A m \in Frames(q) : m \in Signals /\ m.serial \in Serials
         /\ q # <<>> => Frames(Tail(q)) \subseteq Frames(q)
         /\ q # <<>> /\ Head(q).kind \in {"active", "inactive"} => Head(q) \in Frames(q)
         /\ Frames(<<>>) = {}
         /\ \A m \in Signals : /\ Frames(Append(q, m)) \subseteq Frames(q) \cup {m}
                               /\ m.kind \notin {"active", "inactive"}
                                    => Frames(Append(q, m)) \subseteq Frames(q)
<1>1. \A i \in DOMAIN q : q[i] \in Signals
  BY ElementOfSeq, LenProperties
<1>2. \A m \in Frames(q) : m \in Signals /\ m.serial \in Serials
  BY <1>1 DEF Frames, Signals
<1>3. ASSUME q # <<>> PROVE Frames(Tail(q)) \subseteq Frames(q)
  <2> SUFFICES ASSUME NEW i \in DOMAIN Tail(q), Tail(q)[i].kind \in {"active", "inactive"}
               PROVE  Tail(q)[i] \in Frames(q)
    BY DEF Frames
  <2>1. i + 1 \in DOMAIN q /\ Tail(q)[i] = q[i + 1]
    BY <1>3, Consumed
  <2> QED
    BY <2>1 DEF Frames
<1>4. ASSUME q # <<>>, Head(q).kind \in {"active", "inactive"} PROVE Head(q) \in Frames(q)
  <2>1. Head(q) = q[1] /\ 1 \in DOMAIN q
    BY <1>4, Consumed
  <2> QED
    BY <1>4, <2>1 DEF Frames
<1>5. Frames(<<>>) = {}
  BY DEF Frames
<1>6. ASSUME NEW m \in Signals
      PROVE  /\ Frames(Append(q, m)) \subseteq Frames(q) \cup {m}
             /\ m.kind \notin {"active", "inactive"} => Frames(Append(q, m)) \subseteq Frames(q)
  <2> SUFFICES ASSUME NEW i \in DOMAIN Append(q, m),
                      Append(q, m)[i].kind \in {"active", "inactive"}
               PROVE  /\ Append(q, m)[i] \in Frames(q) \cup {m}
                      /\ m.kind \notin {"active", "inactive"} => Append(q, m)[i] \in Frames(q)
    BY DEF Frames
  <2>1. CASE i \in DOMAIN q
    BY <2>1, Received DEF Frames
  <2>2. CASE i = Len(q) + 1
    BY <2>2, Received
  <2> QED
    BY <2>1, <2>2, Received
<1> QED
  BY <1>2, <1>3, <1>4, <1>5, <1>6

\* The parts of the invariant that a step has to keep.
LEMMA LockTypes ==
  ASSUME TypeOK
  PROVE  /\ lock \in Locks /\ lock.cycle \in Cycles /\ lock.reply \in Serials
         /\ lock.cycle.ack \in Serials /\ lock.cycle.active \in Serials
         /\ lock.cycle.inactive \in Serials /\ lock.cycle.base \in Serials
         /\ world.serial \in Serials \ {0} /\ Ord(world.serial) \in Nat
         /\ world.left.covers \in Nat /\ world.left.locks \in Nat
         /\ DropCycle.cycle = NoCycle /\ ~DropCycle.on /\ DropCycle.pc = lock.pc
         /\ DropCycle.reply = lock.reply /\ DropCycle.to = lock.to /\ DropCycle.real = lock.real
<1>1. lock \in Locks /\ world \in Desktops
  BY DEF TypeOK, Locks
<1>2. world.serial \in Serials \ {0} /\ world.left.covers \in Nat /\ world.left.locks \in Nat
  BY <1>1 DEF Desktops
<1>3. Ord(world.serial) \in Nat
  BY <1>2, OrdIs
<1> QED
  BY <1>1, <1>2, <1>3 DEF Locks, Cycles, DropCycle

LEMMA NoCycleIs == /\ NoCycle.ack = 0 /\ NoCycle.active = 0 /\ NoCycle.inactive = 0
                   /\ ~NoCycle.capable /\ ~NoCycle.lockSaid /\ ~NoCycle.goneSaid
  BY DEF NoCycle

\* A step that gives no serial, and at most drops frames and the cycle.
LEMMA LockSafe ==
  ASSUME TypeOK, TypeOK', SerialsOK, CycleOK,
         world'.serial = world.serial, world'.left.covers = world.left.covers,
         world'.left.locks = world.left.locks, lock' \in {lock, DropCycle},
         Frames(deskQ') \subseteq Frames(deskQ)
  PROVE  SerialsOK' /\ CycleOK'
<1>1. /\ lock'.pc = lock.pc /\ lock'.reply = lock.reply /\ lock'.to = lock.to
      /\ lock'.real = lock.real
      /\ \/ lock'.on = lock.on /\ lock'.cycle = lock.cycle
         \/ ~lock'.on /\ lock'.cycle = NoCycle
  BY LockTypes
<1>2. SerialsOK'
  <2>1. Pending' = Pending
    BY <1>1 DEF Pending
  <2> QED
    BY <1>1, <2>1, NoCycleIs DEF SerialsOK, Before
<1>3. Answers' \subseteq Answers
  BY <1>1, NoCycleIs DEF Answers
<1>4. CycleOK'
  <2>1. CASE lock'.on = lock.on /\ lock'.cycle = lock.cycle
    BY <1>1, <1>3, <2>1 DEF CycleOK
  <2>2. CASE ~lock'.on /\ lock'.cycle = NoCycle
    BY <1>1, <1>3, <2>2, NoCycleIs DEF CycleOK
  <2> QED
    BY <1>1, <2>1, <2>2
<1> QED
  BY <1>2, <1>4

\* The bound of the serials leaves room for the next.
LEMMA RoomForNext ==
  ASSUME TypeOK, SerialsOK, Left > 0
  PROVE  /\ NextSerial(world.serial) \in Serials \ {0}
         /\ Ord(NextSerial(world.serial)) = Ord(world.serial) + 1
         /\ Ord(world.serial) + 3 < SerialSpace
<1>1. /\ 2 * (Ord(world.serial) + Left + 2) <= SerialSpace /\ Ord(world.serial) \in Nat
      /\ Left \in Nat /\ world.serial \in Serials \ {0}
  BY LockTypes DEF Left, SerialsOK, Pending
<1>2. Ord(world.serial) + 3 < SerialSpace
  BY <1>1, SerialAssumption
<1> QED
  BY <1>1, <1>2, NextOrd, SerialAssumption

\* What was given before stays given.
LEMMA StillIssued ==
  ASSUME TypeOK, TypeOK', Ord(world.serial) <= Ord(world'.serial), NEW s \in Serials \ {0},
         Before(s, world.serial)
  PROVE  Before(s, world'.serial)
<1>1. Ord(s) \in Nat /\ Ord(world.serial) \in Nat /\ Ord(world'.serial) \in Nat
  BY OrdIs, LockTypes DEF TypeOK, Desktops
<1>2. Ord(s) < Ord(world'.serial)
  BY <1>1 DEF Before
<1> QED
  BY <1>2 DEF Before

LEMMA FramesSaid ==
  ASSUME TypeOK, NEW m \in Signals, DeskSignals(<<m>>)
  PROVE  /\ Frames(deskQ') \subseteq Frames(deskQ) \cup {m}
         /\ m.kind \notin {"active", "inactive"} => Frames(deskQ') \subseteq Frames(deskQ)
<1>1. deskQ \in Seq(Signals)
  BY DEF TypeOK
<1>2. deskQ' = deskQ \/ deskQ' = Append(deskQ, m)
  BY <1>1, Received DEF DeskSignals
<1> QED
  BY <1>1, <1>2, FramesAre

\* The screen is covered, or uncovered: then it is not locked any more.
LEMMA CoversKeepLocks ==
  ASSUME TypeOK, TypeOK', SerialsOK, CycleOK, IdleCovers \/ Uncovers
  PROVE  SerialsOK' /\ CycleOK'
<1>1. PICK m \in Signals :
        /\ Frames(deskQ') \subseteq Frames(deskQ) \cup {m} /\ m.serial = world.serial
        /\ m.kind = "active" \/ (m.kind = "inactive" /\ lock'.real # "locked")
  <2>1. CASE IdleCovers
    <3>1. DeskSignals(<<Covered(TRUE, world.serial)>>)
      BY <2>1 DEF IdleCovers
    <3> QED
      BY <2>1, <3>1, IdleCoversIs, FramesSaid
  <2>2. CASE Uncovers
    <3>1. DeskSignals(<<Covered(FALSE, world.serial)>>)
      BY <2>2 DEF Uncovers
    <3> QED
      BY <2>2, <3>1, UncoversIs, FramesSaid
  <2> QED
    BY <2>1, <2>2
<1>2. /\ world'.serial = NextSerial(world.serial) /\ world.left.covers \in Nat \ {0}
      /\ world'.left.covers = world.left.covers - 1 /\ world'.left.locks = world.left.locks
  BY IdleCoversIs, UncoversIs
<1>3. /\ lock'.pc = lock.pc /\ lock'.on = lock.on /\ lock'.reply = lock.reply
      /\ lock'.to = lock.to /\ lock'.cycle = lock.cycle
      /\ lock'.real = lock.real \/ lock'.real = "unlocked"
  <2>1. CASE IdleCovers
    BY <2>1 DEF IdleCovers
  <2>2. CASE Uncovers
    <3>1. \E r \in {lock.real, "unlocked"} : lock' = [lock EXCEPT !.real = r]
      BY <2>2, UncoversIs
    <3>2. lock \in Locks
      BY LockTypes
    <3> QED
      BY <3>1, <3>2 DEF Locks
  <2> QED
    BY <2>1, <2>2
<1>4. Left > 0 /\ Left \in Nat
  BY <1>2, LockTypes DEF Left, Pending
<1>5. /\ Ord(world'.serial) = Ord(world.serial) + 1 /\ Ord(world.serial) \in Nat
      /\ world.serial \in Serials \ {0}
  BY <1>2, <1>4, RoomForNext, LockTypes
<1>6. \A s \in Serials \ {0} : Before(s, world.serial) \/ s = world.serial => Before(s, world'.serial)
  <2> SUFFICES ASSUME NEW s \in Serials \ {0}, Before(s, world.serial) \/ s = world.serial PROVE Before(s, world'.serial)
    OBVIOUS
  <2>1. CASE Before(s, world.serial)
    BY <1>5, <2>1, StillIssued
  <2>2. CASE s = world.serial
    <3>1. Ord(s) < Ord(world'.serial)
      BY <1>5, <2>2
    <3> QED
      BY <3>1 DEF Before
  <2> QED
    BY <2>1, <2>2
<1>7. deskQ \in Seq(Signals)
  BY DEF TypeOK
<1>8. SerialsOK'
  <2>1. Pending' = Pending /\ Pending \in Nat
    BY <1>3 DEF Pending
  <2>2. 2 * (Ord(world'.serial) + world'.left.covers + 3 * world'.left.locks + Pending' + 2)
          <= SerialSpace
    BY <1>2, <1>5, <2>1, LockTypes DEF SerialsOK
  <2>3. \A f \in Frames(deskQ') : f.serial # 0 /\ Before(f.serial, world'.serial)
    BY <1>1, <1>5, <1>6, <1>7, FramesAre DEF SerialsOK
  <2>4. lock'.pc = "answered" => lock'.reply # 0 /\ Before(lock'.reply, world'.serial)
    BY <1>3, <1>6, LockTypes DEF SerialsOK
  <2>5. \A s \in {lock'.cycle.ack, lock'.cycle.active, lock'.cycle.inactive} : s # 0 => Before(s, world'.serial)
    BY <1>3, <1>6, LockTypes DEF SerialsOK
  <2> QED
    BY <2>2, <2>3, <2>4, <2>5 DEF SerialsOK
<1>9. CycleOK'
  <2>1. Answers' = Answers
    BY <1>3 DEF Answers
  <2> QED
    BY <1>1, <1>3, <2>1 DEF CycleOK
<1> QED
  BY <1>8, <1>9

\* request_screen_lock reads the state of the screen: a new request begins.
LEMMA ReadBaselineKeepsLocks ==
  ASSUME TypeOK, TypeOK', SerialsOK, CycleOK, ReadBaseline
  PROVE  SerialsOK' /\ CycleOK'
<1>1. /\ lock.pc = "idle" /\ world.left.locks > 0 /\ deskQ' = deskQ
      /\ lock' = [DropCycle EXCEPT !.pc = "read", !.base = world.serial, !.real = "no"]
      /\ world' = [world EXCEPT !.serial = NextSerial(world.serial),
                                !.left.locks = world.left.locks - 1]
  BY DEF ReadBaseline
<1>2. world \in Desktops /\ DropCycle \in Locks
  BY LocksAre DEF TypeOK
<1>3. /\ world'.serial = NextSerial(world.serial) /\ world'.left.covers = world.left.covers
      /\ world'.left.locks = world.left.locks - 1
  BY <1>1, <1>2 DEF Desktops
<1>4. /\ lock'.pc = "read" /\ ~lock'.on /\ lock'.cycle = NoCycle /\ lock'.real = "no"
  BY <1>1, <1>2, LockTypes DEF Locks
<1>5. Left > 0 /\ Left \in Nat
  BY <1>1, LockTypes DEF Left, Pending
<1>6. /\ Ord(world'.serial) = Ord(world.serial) + 1 /\ Ord(world.serial) \in Nat
  BY <1>3, <1>5, RoomForNext, LockTypes
<1>7. \A s \in Serials \ {0} : Before(s, world.serial) => Before(s, world'.serial)
  BY <1>6, StillIssued
<1>8. SerialsOK'
  <2>1. Pending' = 2 /\ Pending = 0
    BY <1>1, <1>4 DEF Pending
  <2>2. 2 * (Ord(world'.serial) + world'.left.covers + 3 * world'.left.locks + Pending' + 2)
          <= SerialSpace
    BY <1>3, <1>6, <2>1, LockTypes, SerialAssumption DEF SerialsOK
  <2>3. \A f \in Frames(deskQ') : f.serial # 0 /\ Before(f.serial, world'.serial)
    BY <1>1, <1>7, FramesAre DEF SerialsOK, TypeOK
  <2> QED
    BY <1>4, <2>2, <2>3, NoCycleIs DEF SerialsOK
<1>9. CycleOK'
  BY <1>4, NoCycleIs DEF CycleOK
<1> QED
  BY <1>8, <1>9

\* The request is sent, or given up.
LEMMA RequestKeepsLocks ==
  ASSUME TypeOK, TypeOK', SerialsOK, CycleOK, SendLock \/ LockRefused
  PROVE  SerialsOK' /\ CycleOK'
<1>1. world' = world /\ deskQ' = deskQ /\ lock \in Locks /\ w \in Watchers
      /\ lock.base \in Serials
  BY LockTypes DEF SendLock, LockRefused, TypeOK, Locks
<1>2. CASE SendLock
  <2> DEFINE c == [NoCycle EXCEPT !.base = lock.base, !.capable = w.screen \in Contracted]
  <2>1. /\ lock.pc = "read"
        /\ lock' = [lock EXCEPT !.pc = "sent", !.on = TRUE, !.to = w.screen, !.base = 0, !.cycle = c]
    BY <1>2 DEF SendLock
  <2>2. /\ c.ack = 0 /\ c.active = 0 /\ c.inactive = 0 /\ (c.capable => w.screen \in Contracted)
        /\ ~c.lockSaid /\ ~c.goneSaid
    BY DEF NoCycle
  <2> HIDE DEF c
  <2>3. lock'.pc = "sent" /\ lock'.on /\ lock'.to = w.screen /\ lock'.cycle = c
    BY <1>1, <2>1 DEF Locks
  <2>4. SerialsOK'
    <3>1. Pending' = Pending
      BY <2>1, <2>3 DEF Pending
    <3> QED
      BY <1>1, <2>2, <2>3, <3>1 DEF SerialsOK, Before
  <2>5. Answers' = {}
    BY <2>2, <2>3 DEF Answers
  <2>6. CycleOK'
    BY <2>2, <2>3, <2>5 DEF CycleOK
  <2> QED
    BY <2>4, <2>6
<1>3. CASE LockRefused
  <2>1. lock' = [lock EXCEPT !.pc = "idle", !.to = NoOwner, !.base = 0, !.reply = 0]
    BY <1>3 DEF LockRefused
  <2>2. /\ lock'.pc = "idle" /\ lock'.on = lock.on /\ lock'.cycle = lock.cycle
        /\ lock'.real = lock.real
    BY <1>1, <2>1 DEF Locks
  <2>3. SerialsOK'
    <3>1. Pending' = 0 /\ Pending \in Nat
      BY <2>2 DEF Pending
    <3>2. 2 * (Ord(world'.serial) + world'.left.covers + 3 * world'.left.locks + Pending' + 2)
            <= SerialSpace
      BY <1>1, <3>1, LockTypes, SerialAssumption DEF SerialsOK
    <3> QED
      BY <1>1, <2>2, <3>2 DEF SerialsOK, Before
  <2>4. Answers' \subseteq Answers
    BY <2>2 DEF Answers
  <2>5. CycleOK'
    BY <1>1, <2>2, <2>4 DEF CycleOK
  <2> QED
    BY <2>3, <2>5
<1> QED
  BY <1>2, <1>3

\* The screen saver answers and locks: its answer is younger than every frame before.
LEMMA ServiceKeepsLocks ==
  ASSUME TypeOK, TypeOK', SerialsOK, CycleOK, ServiceLocks
  PROVE  SerialsOK' /\ CycleOK'
<1>1. /\ world'.serial \in {NextSerial(world.serial), NextSerial(NextSerial(world.serial))}
      /\ world'.left.covers = world.left.covers /\ world'.left.locks = world.left.locks
      /\ lock.pc = "sent"
  BY ServiceLocksIs
<1>2. PICK locks \in BOOLEAN :
        /\ lock' = [lock EXCEPT !.pc = "answered", !.reply = world.serial,
                                !.real = IF locks THEN "locked" ELSE "no"]
        /\ lock.to \in Contracted => locks
  BY ServiceLocksIs
<1>3. /\ lock'.pc = "answered" /\ lock'.reply = world.serial /\ lock'.on = lock.on
      /\ lock'.cycle = lock.cycle /\ lock'.real = IF locks THEN "locked" ELSE "no"
  <2>1. lock \in Locks
    BY LockTypes
  <2> QED
    BY <1>2, <2>1 DEF Locks
<1>4. Left = world.left.covers + 3 * world.left.locks + 2 /\ Left > 0
      /\ world.left.covers \in Nat /\ world.left.locks \in Nat
  BY <1>1, LockTypes DEF Left, Pending
<1>5. /\ Ord(NextSerial(world.serial)) = Ord(world.serial) + 1 /\ Ord(world.serial) \in Nat
      /\ Ord(NextSerial(NextSerial(world.serial))) = Ord(world.serial) + 2
      /\ NextSerial(world.serial) \in Serials \ {0} /\ world.serial \in Serials \ {0}
  <2>1. /\ Ord(NextSerial(world.serial)) = Ord(world.serial) + 1 /\ Ord(world.serial) \in Nat
        /\ NextSerial(world.serial) \in Serials \ {0} /\ Ord(world.serial) + 3 < SerialSpace
        /\ world.serial \in Serials \ {0}
    BY <1>4, RoomForNext, LockTypes
  <2> QED
    BY <2>1, NextOrd, SerialAssumption
<1>6. \A s \in Serials \ {0} : Before(s, world.serial) \/ s = world.serial => Before(s, world'.serial)
  <2> SUFFICES ASSUME NEW s \in Serials \ {0}, Before(s, world.serial) \/ s = world.serial PROVE Before(s, world'.serial)
    OBVIOUS
  <2>1. CASE Before(s, world.serial)
    BY <1>1, <1>5, <2>1, StillIssued
  <2>2. CASE s = world.serial
    <3>1. Ord(s) < Ord(world'.serial)
      BY <1>1, <1>5, <2>2
    <3> QED
      BY <3>1 DEF Before
  <2> QED
    BY <2>1, <2>2
<1>7. /\ deskQ \in Seq(Signals)
      /\ \A f \in Frames(deskQ') : f \in Frames(deskQ)
           \/ (f.kind = "active" /\ f.serial \in Serials \ {0} /\ Before(f.serial, world'.serial))
  <2>1. deskQ \in Seq(Signals)
    BY DEF TypeOK
  <2>2. CASE DeskSignals(<<>>)
    BY <2>1, <2>2, ConcatEmptySeq DEF DeskSignals
  <2>3. ASSUME NEW m \in Signals, m.kind = "active", m.serial = NextSerial(world.serial),
               world'.serial = NextSerial(NextSerial(world.serial)), DeskSignals(<<m>>)
        PROVE  \A f \in Frames(deskQ') : f \in Frames(deskQ)
                 \/ (f.kind = "active" /\ f.serial \in Serials \ {0} /\ Before(f.serial, world'.serial))
    <3>1. Frames(deskQ') \subseteq Frames(deskQ) \cup {m}
      BY <2>3, FramesSaid
    <3>2. Ord(m.serial) < Ord(world'.serial)
      BY <1>5, <2>3
    <3>3. Before(m.serial, world'.serial)
      BY <3>2 DEF Before
    <3> QED
      BY <1>5, <2>3, <3>1, <3>3
  <2>4. \/ DeskSignals(<<>>)
        \/ \E m \in Signals : /\ m.kind = "active" /\ m.serial = NextSerial(world.serial)
                              /\ world'.serial = NextSerial(NextSerial(world.serial))
                              /\ DeskSignals(<<m>>)
    BY ServiceLocksIs
  <2> QED
    BY <2>1, <2>2, <2>3, <2>4
<1>8. SerialsOK'
  <2>1. Pending' = 0 /\ Pending = 2
    BY <1>1, <1>3 DEF Pending
  <2>2. 2 * (Ord(world'.serial) + world'.left.covers + 3 * world'.left.locks + Pending' + 2)
          <= SerialSpace
    BY <1>1, <1>4, <1>5, <2>1, SerialAssumption DEF SerialsOK
  <2>3. \A f \in Frames(deskQ') : f.serial # 0 /\ Before(f.serial, world'.serial)
    BY <1>6, <1>7, FramesAre DEF SerialsOK
  <2>4. lock'.reply # 0 /\ Before(lock'.reply, world'.serial)
    BY <1>3, <1>5, <1>6
  <2>5. \A s \in {lock'.cycle.ack, lock'.cycle.active, lock'.cycle.inactive} : s # 0 => Before(s, world'.serial)
    BY <1>3, <1>6, LockTypes DEF SerialsOK
  <2> QED
    BY <2>2, <2>3, <2>4, <2>5 DEF SerialsOK
<1>9. CycleOK'
  <2>1. lock.cycle.ack = 0 /\ ~lock.cycle.lockSaid /\ ~lock.cycle.goneSaid
        /\ (lock.cycle.capable => lock.to \in Contracted)
    BY <1>1 DEF CycleOK
  <2>2. Answers' = {world.serial}
    BY <1>3, <1>5, <2>1 DEF Answers
  <2>3. \A f \in Frames(deskQ') : f.kind = "inactive" => Ord(f.serial) < Ord(world.serial)
    BY <1>7 DEF SerialsOK, Before
  <2>4. lock.cycle.inactive # 0 => Ord(lock.cycle.inactive) < Ord(world.serial)
    BY DEF SerialsOK, Before
  <2>5. lock.cycle.capable => lock'.real # "no"
    BY <1>2, <1>3, <2>1
  <2> QED
    BY <1>3, <2>1, <2>2, <2>3, <2>4, <2>5 DEF CycleOK
<1> QED
  BY <1>8, <1>9

\* What publishing a cycle adds to it, and only on what evidence.
LEMMA PublishedIs ==
  ASSUME NEW c \in Cycles
  PROVE  LET p == Published(c) IN
         /\ p \in Cycles /\ p.capable = c.capable /\ p.base = c.base /\ p.ack = c.ack
         /\ p.active = c.active /\ p.inactive = c.inactive
         /\ p.lockSaid => c.lockSaid \/ (c.capable /\ c.ack # 0)
         /\ p.goneSaid => \/ c.goneSaid /\ (c.lockSaid => p.lockSaid)
                          \/ /\ p.lockSaid /\ c.capable
                             /\ SerialAfter(c.active, c.ack) /\ SerialAfter(c.inactive, c.active)
<1> DEFINE gone == c.goneSaid \/ SerialAfter(c.inactive, c.active)
<1>1. Published(c) = c \/ /\ Published(c) = [c EXCEPT !.lockSaid = TRUE, !.goneSaid = gone]
                          /\ c.capable /\ c.ack # 0 /\ SerialAfter(c.active, c.ack)
  BY DEF Published, FreshActive
<1>2. gone \in BOOLEAN /\ (gone <=> c.goneSaid \/ SerialAfter(c.inactive, c.active))
  BY DEF Cycles, SerialAfter
<1> HIDE DEF gone
<1>3. CASE Published(c) = c
  BY <1>3
<1>4. CASE /\ Published(c) = [c EXCEPT !.lockSaid = TRUE, !.goneSaid = gone]
           /\ c.capable /\ c.ack # 0 /\ SerialAfter(c.active, c.ack)
  <2>1. /\ Published(c) \in Cycles /\ Published(c).capable = c.capable
        /\ Published(c).base = c.base /\ Published(c).ack = c.ack
        /\ Published(c).active = c.active /\ Published(c).inactive = c.inactive
        /\ Published(c).lockSaid /\ Published(c).goneSaid = gone
    BY <1>2, <1>4 DEF Cycles
  <2> QED
    BY <1>2, <1>4, <2>1
<1> QED
  BY <1>1, <1>3, <1>4

\* "inactive" is published of a cycle only when the end of its cover is younger than the answer,
\* and then the screen was unlocked.
LEMMA GoneIsReal ==
  ASSUME TypeOK, NEW n \in Nat, 2 * (n + 2) <= SerialSpace, NEW c \in Cycles,
         \A s \in {c.ack, c.active, c.inactive} : s # 0 => Ord(s) < n,
         SerialAfter(c.active, c.ack), SerialAfter(c.inactive, c.active)
  PROVE  c.ack # 0 /\ c.inactive # 0 /\ Ord(c.ack) < Ord(c.inactive)
<1>1. c.ack \in Serials /\ c.active \in Serials /\ c.inactive \in Serials
  BY DEF Cycles
<1>2. c.active # 0 /\ c.ack # 0 /\ Ord(c.ack) < Ord(c.active)
  BY <1>1, SerialsOrdered
<1>3. c.inactive # 0 /\ Ord(c.active) < Ord(c.inactive)
  BY <1>1, SerialsOrdered
<1>4. Ord(c.ack) \in Int /\ Ord(c.active) \in Int /\ Ord(c.inactive) \in Int
  BY <1>1, <1>2, <1>3, OrdIs
<1> QED
  BY <1>2, <1>3, <1>4

\* A cycle that learnt of a frame or of the answer is published.
LEMMA PublishKeepsLocks ==
  ASSUME TypeOK, TypeOK', SerialsOK, CycleOK, lock.on, NEW c \in Cycles,
         c.capable = lock.cycle.capable, c.lockSaid = lock.cycle.lockSaid,
         c.goneSaid = lock.cycle.goneSaid, lock.cycle.ack # 0 => c.ack # 0,
         lock'.cycle = Published(c), lock'.on, lock'.real = lock.real,
         lock'.pc = lock.pc \/ (lock.pc = "answered" /\ lock'.pc = "idle"),
         lock'.pc = "answered" => lock'.reply = lock.reply, lock'.pc = "sent" => lock'.to = lock.to,
         lock'.pc # "idle" => c.ack = 0, c.ack # 0 => c.ack \in Answers,
         world' = world, Frames(deskQ') \subseteq Frames(deskQ),
         \A s \in {c.ack, c.active, c.inactive} : s # 0 => Before(s, world.serial),
         c.inactive # 0 /\ lock.real = "locked" => \A a \in Answers : Ord(c.inactive) < Ord(a)
  PROVE  SerialsOK' /\ CycleOK'
<1> DEFINE p == Published(c)
<1>1. /\ p \in Cycles /\ p.capable = c.capable /\ p.ack = c.ack
      /\ p.active = c.active /\ p.inactive = c.inactive
      /\ p.lockSaid => c.lockSaid \/ (c.capable /\ c.ack # 0)
      /\ p.goneSaid => \/ c.goneSaid /\ (c.lockSaid => p.lockSaid)
                       \/ /\ p.lockSaid /\ c.capable
                          /\ SerialAfter(c.active, c.ack) /\ SerialAfter(c.inactive, c.active)
  BY PublishedIs
<1> HIDE DEF p
<1>2. lock'.cycle = p
  BY DEF p
<1>3. lock.pc = "answered" \/ lock'.pc = lock.pc
  OBVIOUS
<1>4. SerialsOK'
  <2>1. Pending' = Pending
    BY DEF Pending
  <2> QED
    BY <1>1, <1>2, <2>1 DEF SerialsOK
<1>5. Answers' \subseteq Answers
  BY <1>1, <1>2 DEF Answers
<1>6. p.goneSaid => p.lockSaid /\ lock.real = "unlocked"
  <2>1. CASE c.goneSaid /\ (c.lockSaid => p.lockSaid)
    BY <2>1 DEF CycleOK
  <2>2. CASE /\ p.lockSaid /\ c.capable
             /\ SerialAfter(c.active, c.ack) /\ SerialAfter(c.inactive, c.active)
    <3> DEFINE n == Ord(world.serial)
    <3>1. /\ n \in Nat /\ 2 * (n + 2) <= SerialSpace
      BY LockTypes, SerialAssumption DEF SerialsOK, Pending
    <3>2. \A s \in {c.ack, c.active, c.inactive} : s # 0 => Ord(s) < n
      BY DEF Before
    <3> HIDE DEF n
    <3>3. c.ack # 0 /\ c.inactive # 0 /\ Ord(c.ack) < Ord(c.inactive)
      BY <2>2, <3>1, <3>2, GoneIsReal
    <3>4. Ord(c.ack) \in Int /\ Ord(c.inactive) \in Int
      BY <3>3, OrdIs DEF Cycles
    <3>5. lock.real # "no" /\ lock.real # "locked"
      BY <2>2, <3>3, <3>4 DEF CycleOK
    <3>6. lock.real \in {"no", "locked", "unlocked"}
      BY LockTypes DEF Locks
    <3> QED
      BY <2>2, <3>5, <3>6
  <2> QED
    BY <1>1, <2>1, <2>2
<1>7. p.lockSaid => p.capable /\ p.ack # 0
  BY <1>1 DEF CycleOK
<1>8. CycleOK'
  BY <1>1, <1>2, <1>5, <1>6, <1>7 DEF CycleOK
<1> QED
  BY <1>4, <1>8

\* The consumer of the session bus takes a frame: passed over, or noted in the cycle.
LEMMA ScreenSignalIs ==
  ASSUME TypeOK, ScreenSignal
  PROVE  /\ deskQ \in Seq(Signals) /\ deskQ # <<>> /\ Head(deskQ) \in Signals
         /\ deskQ' = Tail(deskQ) /\ Head(deskQ).kind \in {"active", "inactive"}
         /\ Head(deskQ).serial \in Serials
         /\ open' \in BOOLEAN /\ lock' \in Locks /\ UNCHANGED <<world, w, sysQ, job, current>>
         /\ \/ lock' = lock
            \/ /\ lock.on
               /\ \E c \in Cycles :
                    /\ lock' = [lock EXCEPT !.cycle = Published(c)]
                    /\ c \in {[lock.cycle EXCEPT !.active = Head(deskQ).serial],
                              [lock.cycle EXCEPT !.inactive = Head(deskQ).serial]}
                    /\ c # [lock.cycle EXCEPT !.active = Head(deskQ).serial]
                         => Head(deskQ).kind = "inactive"
<1> DEFINE m == Head(deskQ)
           a == [lock.cycle EXCEPT !.active = m.serial]
           i == [lock.cycle EXCEPT !.inactive = m.serial]
           heard == w.screen # NoOwner /\ m.from = w.screen
           mine == heard /\ lock.on /\ ScreenContext /\ Cycle \in current
<1>1. /\ deskQ \in Seq(Signals) /\ deskQ # <<>> /\ deskQ' = Tail(deskQ)
      /\ m.kind \in {"active", "inactive"} /\ UNCHANGED <<world, w, sysQ, job, current>>
      /\ open' = (open /\ ~(heard /\ m.kind = "active"))
  BY DEF ScreenSignal, TakeScreen, TypeOK
<1>2. m \in Signals /\ m.serial \in Serials
  BY <1>1, Consumed DEF Signals
<1>3. lock \in Locks /\ lock.cycle \in Cycles
  BY LockTypes
<1>4. a \in Cycles /\ i \in Cycles
  BY <1>2, <1>3 DEF Cycles
<1>5. open' \in BOOLEAN
  BY <1>1 DEF TypeOK
<1>6. \/ mine /\ m.kind = "active" /\ lock' = [lock EXCEPT !.cycle = Published(a)]
      \/ mine /\ m.kind = "inactive" /\ lock' = [lock EXCEPT !.cycle = Published(i)]
      \/ lock' = lock
  BY DEF ScreenSignal
<1> HIDE DEF m, a, i
<1>7. \A c \in Cycles : [lock EXCEPT !.cycle = Published(c)] \in Locks
  BY <1>3, PublishedIs DEF Locks
<1>8. lock' \in Locks
  BY <1>3, <1>4, <1>6, <1>7
<1>9. mine => lock.on
  OBVIOUS
<1> HIDE DEF mine
<1> QED
  BY <1>1, <1>2, <1>4, <1>5, <1>6, <1>8, <1>9 DEF m, a, i

LEMMA ScreenSignalKeepsLocks ==
  ASSUME TypeOK, TypeOK', SerialsOK, CycleOK, ScreenSignal
  PROVE  SerialsOK' /\ CycleOK'
<1> DEFINE m == Head(deskQ)
<1>1. /\ deskQ \in Seq(Signals) /\ deskQ # <<>> /\ deskQ' = Tail(deskQ)
      /\ m.kind \in {"active", "inactive"} /\ world' = world /\ m.serial \in Serials
  BY ScreenSignalIs
<1>2. Frames(deskQ') \subseteq Frames(deskQ) /\ m \in Frames(deskQ)
  BY <1>1, FramesAre
<1>3. m.serial # 0 /\ Before(m.serial, world.serial)
  BY <1>2 DEF SerialsOK
<1>4. CASE lock' = lock
  BY <1>1, <1>2, <1>4, LockSafe
<1>5. ASSUME lock.on, NEW c \in Cycles, lock' = [lock EXCEPT !.cycle = Published(c)],
             c \in {[lock.cycle EXCEPT !.active = m.serial],
                    [lock.cycle EXCEPT !.inactive = m.serial]},
             c # [lock.cycle EXCEPT !.active = m.serial] => m.kind = "inactive"
      PROVE  SerialsOK' /\ CycleOK'
  <2>1. lock \in Locks /\ lock.cycle \in Cycles
    BY LockTypes
  <2>2. /\ lock'.pc = lock.pc /\ lock'.on /\ lock'.to = lock.to /\ lock'.reply = lock.reply
        /\ lock'.real = lock.real /\ lock'.cycle = Published(c)
    BY <1>5, <2>1 DEF Locks
  <2>3. /\ c.capable = lock.cycle.capable /\ c.lockSaid = lock.cycle.lockSaid
        /\ c.goneSaid = lock.cycle.goneSaid /\ c.ack = lock.cycle.ack
        /\ c.active \in {lock.cycle.active, m.serial}
        /\ c.inactive = lock.cycle.inactive \/ (c.inactive = m.serial /\ m.kind = "inactive")
    BY <1>5, <2>1 DEF Cycles
  <2>4. \A s \in {c.ack, c.active, c.inactive} : s # 0 => Before(s, world.serial)
    BY <1>3, <2>3 DEF SerialsOK
  <2>5. c.inactive # 0 /\ lock.real = "locked" => \A a \in Answers : Ord(c.inactive) < Ord(a)
    BY <1>2, <2>3 DEF CycleOK
  <2>6. (lock.pc # "idle" => c.ack = 0) /\ (c.ack # 0 => c.ack \in Answers)
    BY <2>3 DEF CycleOK, Answers
  <2> QED
    BY <1>1, <1>2, <1>5, <2>2, <2>3, <2>4, <2>5, <2>6, PublishKeepsLocks
<1> QED
  BY <1>4, <1>5, ScreenSignalIs

\* The answer to the request arrives.
LEMMA AcknowledgedIs ==
  ASSUME TypeOK, LockAcknowledged
  PROVE  /\ lock' \in Locks /\ lock.pc = "answered" /\ lock.on
         /\ lock'.pc = "idle" /\ lock'.on /\ lock'.real = lock.real
         /\ lock'.cycle = Published([lock.cycle EXCEPT !.ack = lock.reply])
         /\ [lock.cycle EXCEPT !.ack = lock.reply] \in Cycles
<1> DEFINE c == [lock.cycle EXCEPT !.ack = lock.reply]
<1>1. lock \in Locks /\ lock.cycle \in Cycles /\ lock.reply \in Serials
  BY LockTypes
<1>2. c \in Cycles
  BY <1>1 DEF Cycles
<1>3. /\ lock.pc = "answered" /\ lock.on
      /\ lock' = [lock EXCEPT !.pc = "idle", !.to = NoOwner, !.reply = 0, !.cycle = Published(c)]
  BY DEF LockAcknowledged
<1> HIDE DEF c
<1>4. Published(c) \in Cycles
  BY <1>2, PublishedIs
<1>5. 0 \in Serials
  BY SerialAssumption DEF Serials
<1>6. /\ lock' \in Locks /\ lock'.pc = "idle" /\ lock'.on /\ lock'.real = lock.real
      /\ lock'.cycle = Published(c)
  BY <1>1, <1>3, <1>4, <1>5 DEF Locks
<1> QED
  BY <1>2, <1>3, <1>6 DEF c

LEMMA LockAcknowledgedKeepsLocks ==
  ASSUME TypeOK, TypeOK', SerialsOK, CycleOK, LockAcknowledged
  PROVE  SerialsOK' /\ CycleOK'
<1> DEFINE c == [lock.cycle EXCEPT !.ack = lock.reply]
<1>1. world' = world /\ deskQ' = deskQ
  BY DEF LockAcknowledged
<1>2. /\ lock.pc = "answered" /\ lock.on /\ lock'.pc = "idle" /\ lock'.on
      /\ lock'.real = lock.real /\ lock'.cycle = Published(c) /\ c \in Cycles
  BY AcknowledgedIs
<1>3. /\ c.capable = lock.cycle.capable /\ c.lockSaid = lock.cycle.lockSaid
      /\ c.goneSaid = lock.cycle.goneSaid /\ c.ack = lock.reply
      /\ c.active = lock.cycle.active /\ c.inactive = lock.cycle.inactive
  BY LockTypes DEF Cycles
<1>4. lock.reply # 0 /\ lock.reply \in Answers
  BY <1>2 DEF SerialsOK, Answers
<1>5. \A s \in {c.ack, c.active, c.inactive} : s # 0 => Before(s, world.serial)
  BY <1>2, <1>3 DEF SerialsOK
<1>6. c.inactive # 0 /\ lock.real = "locked" => \A a \in Answers : Ord(c.inactive) < Ord(a)
  BY <1>3 DEF CycleOK
<1> HIDE DEF c
<1> QED
  BY <1>1, <1>2, <1>3, <1>4, <1>5, <1>6, PublishKeepsLocks

-----------------------------------------------------------------------------
(* What the requested lock and the frames change of the context.           *)

LEMMA ScreenSignalSafe ==
  ASSUME ContextInv, EventsOK, Promise, ScreenSignal
  PROVE  ContextInv' /\ EventsOK'
<1>0. TypeOK /\ w \in Watchers /\ OwnersTold /\ TakeScreen({"active", "inactive"})
  BY DEF ContextInv, TypeOK, ScreenSignal
<1>1. /\ deskQ \in Seq(Signals) /\ deskQ # <<>> /\ Head(deskQ).kind \in {"active", "inactive"}
      /\ deskQ' = Tail(deskQ) /\ deskQ' \in Seq(Signals) /\ ScreenTells(deskQ', world.screen)
      /\ w.sysUp /\ w.deskUp /\ ~w.closed
  BY <1>0, TakeScreenIs
<1>2. /\ open' \in BOOLEAN /\ lock' \in Locks
      /\ world' = world /\ w' = w /\ sysQ' = sysQ /\ job' = job /\ current' = current
  BY <1>0, ScreenSignalIs
<1>3. w.screen # NoOwner => world.screen = w.screen \/ Queued(deskQ', {"name", "appears"})
  <2>1. Queued(deskQ, {"name", "appears"}) => Queued(deskQ', {"name", "appears"})
    BY <1>1, QueuedRemains
  <2> QED
    BY <1>0, <2>1 DEF OwnersTold
<1>4. NoneNew /\ current' \subseteq Snapshots /\ world' \in Desktops /\ Calm(job, job')
  BY <1>0, <1>2, LocksAre, CalmItself DEF NoneNew, TypeOK
<1> QED
  BY <1>0, <1>1, <1>2, <1>3, <1>4, CalmSafe

LEMMA RequestSafe ==
  ASSUME ContextInv, EventsOK, Promise, Request
  PROVE  ContextInv' /\ EventsOK'
<1>0. TypeOK /\ w \in Watchers /\ world \in Desktops /\ open \in BOOLEAN
  BY DEF ContextInv, TypeOK
<1>1. lock \in Locks /\ DropCycle \in Locks /\ current \subseteq Snapshots
  BY <1>0, LocksAre
<1>2. ASSUME world' \in Desktops, SameDesktop, lock' \in Locks,
             current' \subseteq current \cup Contexts,
             UNCHANGED <<w, sysQ, deskQ, job, open>>
      PROVE  ContextInv' /\ EventsOK'
  <2>1. NoneNew /\ current' \subseteq Snapshots
    BY <1>1, <1>2 DEF NoneNew, Contexts, Cycle, Test, Snapshots
  <2> QED
    BY <1>0, <1>2, <2>1, CalmItself, Withdrawn
<1>3. CASE ReadBaseline
  <2>1. /\ lock' = [DropCycle EXCEPT !.pc = "read", !.base = world.serial, !.real = "no"]
        /\ world' = [world EXCEPT !.serial = NextSerial(world.serial),
                                  !.left.locks = world.left.locks - 1]
        /\ world.left.locks > 0 /\ current' \subseteq current \cup Contexts
        /\ UNCHANGED <<w, sysQ, deskQ, job, open>>
    BY <1>3 DEF ReadBaseline, Contexts
  <2>2. NextSerial(world.serial) \in Serials \ {0} /\ world.serial \in Serials
    BY <1>0, NextIs DEF Desktops
  <2>3. world' \in Desktops /\ SameDesktop
    <3>1. world.left.locks - 1 \in Nat
      BY <1>0, <2>1 DEF Desktops
    <3>2. [world.left EXCEPT !.locks = world.left.locks - 1] \in
            [events : Nat, fails : Nat, covers : Nat, locks : Nat, opens : BOOLEAN]
      BY <1>0, <3>1 DEF Desktops
    <3>3. world' = [world EXCEPT !.serial = NextSerial(world.serial),
                      !.left = [world.left EXCEPT !.locks = world.left.locks - 1]]
      BY <1>0, <2>1 DEF Desktops
    <3> QED
      BY <1>0, <2>2, <3>2, <3>3 DEF Desktops, SameDesktop
  <2>4. lock' \in Locks
    BY <1>1, <2>1, <2>2 DEF Locks
  <2> QED
    BY <1>2, <2>1, <2>3, <2>4
<1>4. CASE SendLock
  <2> DEFINE capable == w.screen \in Contracted
             c == [NoCycle EXCEPT !.base = lock.base, !.capable = capable]
  <2>1. /\ lock' = [lock EXCEPT !.pc = "sent", !.on = TRUE, !.to = w.screen, !.base = 0, !.cycle = c]
        /\ current' = current \cup {Cycle} /\ UNCHANGED <<world, w, sysQ, deskQ, job, open>>
    BY <1>4 DEF SendLock
  <2>2. 0 \in Serials /\ lock.base \in Serials /\ capable \in BOOLEAN
        /\ w.screen \in Screens \cup {NoOwner}
    BY <1>0, <1>1, SerialAssumption DEF Serials, Locks, Watchers
  <2> HIDE DEF capable
  <2>3. c \in Cycles
    BY <2>2 DEF NoCycle, Cycles
  <2> HIDE DEF c
  <2>4. lock' \in Locks
    BY <1>1, <2>1, <2>2, <2>3 DEF Locks
  <2> QED
    BY <1>0, <1>2, <2>1, <2>4 DEF SameDesktop, Contexts
<1>5. CASE ServiceLocks
  BY <1>5, CoversSafe
<1>6. CASE LockAcknowledged
  <2>1. current' \subseteq current /\ UNCHANGED <<world, w, sysQ, deskQ, job, open>>
    BY <1>6 DEF LockAcknowledged
  <2>2. lock' \in Locks
    BY <1>0, <1>6, AcknowledgedIs
  <2> QED
    BY <1>0, <1>2, <2>1, <2>2 DEF SameDesktop
<1>7. CASE LockRefused
  <2>1. /\ lock' = [lock EXCEPT !.pc = "idle", !.to = NoOwner, !.base = 0, !.reply = 0]
        /\ current' \subseteq current /\ UNCHANGED <<world, w, sysQ, deskQ, job, open>>
    BY <1>7 DEF LockRefused
  <2>2. 0 \in Serials
    BY SerialAssumption DEF Serials
  <2>3. lock' \in Locks
    BY <1>1, <2>1, <2>2 DEF Locks
  <2> QED
    BY <1>0, <1>2, <2>1, <2>3 DEF SameDesktop
<1> QED
  BY <1>3, <1>4, <1>5, <1>6, <1>7 DEF Request

-----------------------------------------------------------------------------
(* The steps that give no serial keep what is known of the requested lock. *)

\* What LockSafe asks of such a step.
Quiet ==
    /\ world'.serial = world.serial /\ world'.left.covers = world.left.covers
    /\ world'.left.locks = world.left.locks
    /\ lock' \in {lock, DropCycle} /\ Frames(deskQ') \subseteq Frames(deskQ)

LEMMA EventIsQuiet ==
  ASSUME TypeOK, NEW upd \in Desktops, Spend, Event(upd), upd.serial = world.serial,
         upd.left = world.left
  PROVE  /\ world'.serial = world.serial /\ world'.left.covers = world.left.covers
         /\ world'.left.locks = world.left.locks
  BY EventIs DEF Spend

LEMMA WorldIsQuiet ==
  ASSUME TypeOK, \/ ScreenOwnerChanges \/ LoginRestarts \/ DesktopChanges \/ DisplayChanges
                 \/ SwitchConsole \/ SystemLocks \/ SessionEnds \/ UserOpens
  PROVE  Quiet
<1>0. world \in Desktops
  BY DEF TypeOK
<1>1. CASE ScreenOwnerChanges
  <2>1. PICK o \in (Screens \cup {NoOwner}) \ {world.screen} :
          /\ Spend
          /\ Event([world EXCEPT !.screen = o, !.active = FALSE, !.locked = FALSE])
          /\ DeskSignals(<<[kind |-> IF world.screen = NoOwner THEN "appears" ELSE "name",
                            from |-> o, serial |-> 0]>>)
    BY <1>1 DEF ScreenOwnerChanges
  <2> DEFINE upd == [world EXCEPT !.screen = o, !.active = FALSE, !.locked = FALSE]
             m == [kind |-> IF world.screen = NoOwner THEN "appears" ELSE "name",
                   from |-> o, serial |-> 0]
  <2>2. upd \in Desktops /\ upd.serial = world.serial /\ upd.left = world.left
    BY <1>0, <2>1 DEF Desktops
  <2>3. m \in Signals /\ m.kind \notin {"active", "inactive"}
    BY <2>1, SerialAssumption DEF Signals, Owners, Serials, Sealing
  <2> HIDE DEF upd, m
  <2>4. Event(upd) /\ DeskSignals(<<m>>)
    BY <2>1 DEF upd, m
  <2>5. lock' = lock
    BY <1>1 DEF ScreenOwnerChanges
  <2> QED
    BY <2>1, <2>2, <2>3, <2>4, <2>5, EventIsQuiet, FramesSaid DEF Quiet
<1>2. CASE LoginRestarts
  <2>1. PICK o \in Logins \ {world.login} : Spend /\ Event([world EXCEPT !.login = o])
    BY <1>2 DEF LoginRestarts
  <2> DEFINE upd == [world EXCEPT !.login = o]
  <2>2. upd \in Desktops /\ upd.serial = world.serial /\ upd.left = world.left
    BY <1>0, <2>1 DEF Desktops
  <2>3. deskQ' = deskQ /\ lock' = lock
    BY <1>2 DEF LoginRestarts
  <2> QED
    BY <2>1, <2>2, <2>3, EventIsQuiet DEF Quiet
<1>3. CASE DesktopChanges
  <2> DEFINE upd == [world EXCEPT !.desktop = ~world.desktop]
  <2>1. Spend /\ Event(upd) /\ deskQ' = deskQ /\ lock' = lock
    BY <1>3 DEF DesktopChanges
  <2>2. upd \in Desktops /\ upd.serial = world.serial /\ upd.left = world.left
    BY <1>0 DEF Desktops
  <2> QED
    BY <2>1, <2>2, EventIsQuiet DEF Quiet
<1>4. CASE DisplayChanges
  <2> DEFINE upd == [world EXCEPT !.display = ~world.display]
  <2>1. Spend /\ Event(upd) /\ deskQ' = deskQ /\ lock' = lock
    BY <1>4 DEF DisplayChanges
  <2>2. upd \in Desktops /\ upd.serial = world.serial /\ upd.left = world.left
    BY <1>0 DEF Desktops
  <2> QED
    BY <2>1, <2>2, EventIsQuiet DEF Quiet
<1>5. CASE SwitchConsole
  <2> DEFINE upd == [world EXCEPT !.here = ~world.here]
  <2>1. Spend /\ Event(upd) /\ deskQ' = deskQ /\ lock' = lock
    BY <1>5 DEF SwitchConsole
  <2>2. upd \in Desktops /\ upd.serial = world.serial /\ upd.left = world.left
    BY <1>0 DEF Desktops
  <2> QED
    BY <2>1, <2>2, EventIsQuiet DEF Quiet
<1>6. CASE SystemLocks
  <2>1. PICK kind \in {"lock", "power"} :
          Spend /\ Event([world EXCEPT !.hint = (kind = "lock") \/ world.hint])
    BY <1>6 DEF SystemLocks
  <2> DEFINE h == (kind = "lock") \/ world.hint
             upd == [world EXCEPT !.hint = h]
  <2>2. h \in BOOLEAN
    BY <1>0 DEF Desktops
  <2>3. Event(upd) /\ deskQ' = deskQ /\ lock' = lock
    BY <1>6, <2>1 DEF SystemLocks
  <2> HIDE DEF h
  <2>4. upd \in Desktops /\ upd.serial = world.serial /\ upd.left = world.left
    BY <1>0, <2>2 DEF Desktops
  <2> QED
    BY <2>1, <2>3, <2>4, EventIsQuiet DEF Quiet
<1>7. CASE SessionEnds
  <2> DEFINE upd == [world EXCEPT !.session = FALSE]
  <2>1. Spend /\ Event(upd) /\ deskQ' = deskQ /\ lock' = lock
    BY <1>7 DEF SessionEnds
  <2>2. upd \in Desktops /\ upd.serial = world.serial /\ upd.left = world.left
    BY <1>0 DEF Desktops
  <2> QED
    BY <2>1, <2>2, EventIsQuiet DEF Quiet
<1>8. CASE UserOpens
  BY <1>8 DEF UserOpens, Quiet
<1> QED
  BY <1>1, <1>2, <1>3, <1>4, <1>5, <1>6, <1>7, <1>8

LEMMA StepIsQuiet ==
  ASSUME NEW k \in Workers, Step(k)
  PROVE  Quiet
<1>1. world' = world /\ deskQ' = deskQ
  BY DEF Step, SystemRead, SystemCommit, OwnerRead, ScreenAttest, ScreenCommit
<1>2. CASE OwnerRead(k)
  BY <1>1, <1>2 DEF OwnerRead, Quiet
<1>3. CASE ~OwnerRead(k)
  BY <1>1, <1>3 DEF Step, SystemRead, SystemCommit, ScreenAttest, ScreenCommit, Quiet
<1> QED
  BY <1>2, <1>3

LEMMA ConsumersAreQuiet ==
  ASSUME TypeOK, Consumers, ~ScreenSignal
  PROVE  Quiet
<1>0. deskQ \in Seq(Signals)
  BY DEF TypeOK
<1>1. CASE LoginOwnerChanged \/ SealingSignal \/ OwnSessionGone \/ PollDisplay
  BY <1>1 DEF LoginOwnerChanged, SealingSignal, OwnSessionGone, PollDisplay, Quiet
<1>2. CASE MetadataSignal
  BY <1>2 DEF MetadataSignal, Quiet
<1>3. CASE ScreenAppears \/ ScreenOwnerChanged
  <2>1. /\ deskQ # <<>> /\ deskQ' = Tail(deskQ) /\ world' = world /\ lock' \in {lock, DropCycle}
    BY <1>3 DEF ScreenAppears, ScreenOwnerChanged, TakeScreen
  <2> QED
    BY <1>0, <2>1, FramesAre DEF Quiet
<1> QED
  BY <1>1, <1>2, <1>3 DEF Consumers

LEMMA FailuresAreQuiet ==
  ASSUME TypeOK, Failures
  PROVE  Quiet
<1>1. Fail \/ UNCHANGED world
  BY DEF Failures, RecheckFails, LoginFails, StartFails, PrepareFails, StartWithoutScreen,
         SystemBusFails, SessionBusFails, KeepAliveFails, FailsAt
<1>2. deskQ' = deskQ \/ deskQ' = <<>>
  BY DEF Failures, RecheckFails, LoginFails, StartFails, PrepareFails, StartWithoutScreen,
         SystemBusFails, SessionBusFails, KeepAliveFails, CloseBuses
<1>3. lock' \in {lock, DropCycle}
  BY DEF Failures, RecheckFails, LoginFails, StartFails, PrepareFails, StartWithoutScreen,
         SystemBusFails, SessionBusFails, KeepAliveFails
<1>4. Frames(deskQ') \subseteq Frames(deskQ)
  BY <1>2, FramesAre DEF TypeOK, Frames
<1> QED
  BY <1>1, <1>3, <1>4, FailIs DEF Quiet

LEMMA ControlIsQuiet ==
  ASSUME TypeOK, Control
  PROVE  Quiet
<1>0. deskQ \in Seq(Signals) /\ world \in Desktops
  BY DEF TypeOK
<1>1. CASE Start \/ Close
  <2>1. world' = world /\ lock' = lock /\ (deskQ' = deskQ \/ deskQ' = <<>>)
    BY <1>1 DEF Start, Close, CloseBuses
  <2> QED
    BY <1>0, <2>1, FramesAre DEF Quiet, Frames
<1>2. CASE Prepare
  <2>1. Fail \/ UNCHANGED world
    BY <1>2 DEF Prepare
  <2>2. lock' \in {lock, DropCycle} /\ (deskQ' = deskQ \/ deskQ' = <<>>)
    BY <1>2 DEF Prepare, CloseBuses
  <2>3. Frames(deskQ') \subseteq Frames(deskQ)
    BY <1>0, <2>2, FramesAre DEF Frames
  <2> QED
    BY <2>1, <2>2, <2>3, FailIs DEF Quiet
<1>3. CASE Activate
  <2>1. lock' = lock
    BY <1>3 DEF Activate
  <2>2. PICK o \in Contracted :
          IF world.screen # NoOwner THEN UNCHANGED <<world, deskQ>>
          ELSE /\ world' = [world EXCEPT !.screen = o]
               /\ DeskSignals(<<[kind |-> "appears", from |-> o, serial |-> 0]>>)
    BY <1>3 DEF Activate
  <2> DEFINE m == [kind |-> "appears", from |-> o, serial |-> 0]
  <2>3. m \in Signals /\ m.kind \notin {"active", "inactive"}
    BY OwnersAssumption, SerialAssumption DEF Signals, Owners, Serials, Sealing
  <2> HIDE DEF m
  <2>4. CASE world.screen # NoOwner
    BY <2>1, <2>2, <2>4 DEF Quiet
  <2>5. CASE world.screen = NoOwner
    <3>1. world' = [world EXCEPT !.screen = o] /\ DeskSignals(<<m>>)
      BY <2>2, <2>5 DEF m
    <3>2. Frames(deskQ') \subseteq Frames(deskQ)
      BY <2>3, <3>1, FramesSaid
    <3>3. world'.serial = world.serial /\ world'.left = world.left
      BY <1>0, <3>1 DEF Desktops
    <3> QED
      BY <2>1, <3>2, <3>3 DEF Quiet
  <2> QED
    BY <2>4, <2>5
<1> QED
  BY <1>1, <1>2, <1>3 DEF Control

-----------------------------------------------------------------------------
(* The invariant.                                                          *)

LEMMA ConsumersSafe ==
  ASSUME ContextInv, EventsOK, Promise, Consumers
  PROVE  ContextInv' /\ EventsOK'
  BY LoginOwnerChangedSafe, SealingSignalSafe, MetadataSignalSafe, OwnSessionGoneSafe,
     KeepAliveFailsSafe, ScreenAppearsSafe, ScreenOwnerChangedSafe, ScreenSignalSafe DEF Consumers

LEMMA FailuresSafe ==
  ASSUME ContextInv, EventsOK, Promise, Failures
  PROVE  ContextInv' /\ EventsOK'
  BY RecheckFailsSafe, LoginFailsSafe, ClosingSafe, PrepareFailsSafe, StartWithoutScreenSafe,
     SessionBusFailsSafe, KeepAliveFailsSafe DEF Failures

\* No step of the desktop or of the watcher publishes more than the desktop has done.
LEMMA LocksKept ==
  ASSUME TypeOK, TypeOK', SerialsOK, CycleOK, Next
  PROVE  SerialsOK' /\ CycleOK'
<1>1. Quiet => SerialsOK' /\ CycleOK'
  BY LockSafe DEF Quiet
<1>2. CASE World
  BY <1>1, <1>2, WorldIsQuiet, CoversKeepLocks DEF World
<1>3. CASE \E k \in Workers : Step(k)
  BY <1>1, <1>3, StepIsQuiet
<1>4. CASE Consumers
  BY <1>1, <1>4, ConsumersAreQuiet, ScreenSignalKeepsLocks
<1>5. CASE Failures
  BY <1>1, <1>5, FailuresAreQuiet
<1>6. CASE Request
  BY <1>6, ReadBaselineKeepsLocks, RequestKeepsLocks, ServiceKeepsLocks,
     LockAcknowledgedKeepsLocks DEF Request
<1>7. CASE Control
  BY <1>1, <1>7, ControlIsQuiet
<1> QED
  BY <1>2, <1>3, <1>4, <1>5, <1>6, <1>7 DEF Next

LEMMA InitIsSafe ==
  ASSUME Init
  PROVE  WatchInv
<1>1. PICK b \in Budgets :
        world = [login |-> CHOOSE o \in Logins \cap Genuine : TRUE, screen |-> NoOwner,
                 desktop |-> TRUE, display |-> TRUE, here |-> TRUE, session |-> TRUE,
                 active |-> FALSE, locked |-> FALSE, hint |-> FALSE,
                 serial |-> FirstSerial, left |-> b]
  BY DEF Init
<1>2. /\ w = [started |-> FALSE, failed |-> FALSE, closed |-> FALSE,
              sysUp |-> FALSE, deskUp |-> FALSE, login |-> NoOwner, trusted |-> FALSE,
              here |-> FALSE, screen |-> NoOwner, watching |-> FALSE, ready |-> FALSE,
              distrusted |-> FALSE, target |-> FALSE, displayFailed |-> FALSE]
      /\ sysQ = <<>> /\ deskQ = <<>> /\ current = {}
      /\ job = [k \in Workers |-> Idle]
      /\ lock = [pc |-> "idle", on |-> FALSE, to |-> NoOwner, base |-> 0,
                 reply |-> 0, cycle |-> NoCycle, real |-> "no"]
      /\ open = FALSE /\ owed = FALSE /\ deaf = FALSE
  BY DEF Init
<1>3. (CHOOSE o \in Logins \cap Genuine : TRUE) \in Logins
  BY OwnersAssumption
<1>4. FirstSerial \in Serials \ {0} /\ 0 \in Serials
  BY SerialAssumption DEF Serials
<1>5. b \in [events : Nat, fails : Nat, covers : Nat, locks : Nat, opens : BOOLEAN]
  BY SerialAssumption
<1>6. world \in Desktops
  BY <1>1, <1>3, <1>4, <1>5 DEF Desktops
<1>7. w \in Watchers
  BY <1>2 DEF Watchers
<1>8. NoCycle \in Cycles
  BY <1>4 DEF NoCycle, Cycles
<1>9. lock \in Locks
  BY <1>2, <1>4, <1>8 DEF Locks
<1>10. /\ job \in [Workers -> Jobs] /\ \A k \in Workers : job[k].pc = "idle"
  BY <1>2, JobTypes DEF Idle
<1>11. <<>> \in Seq(Signals)
  OBVIOUS
<1>12. TypeOK
  BY <1>2, <1>6, <1>7, <1>9, <1>10, <1>11 DEF TypeOK, Locks
<1>13. QueuesTell
  BY <1>2, NothingTold DEF QueuesTell
<1>14. BusesOK
  BY <1>2, <1>10 DEF BusesOK, Fresh
<1>15. JobsOK
  BY <1>10, WorkerNames DEF JobsOK
<1>16. OwnersTold /\ SessionTold
  BY <1>2 DEF OwnersTold, SessionTold
<1>17. DeafOK /\ TrustTold /\ DesktopTold
  BY <1>2, <1>10 DEF DeafOK, TrustTold, DesktopTold, Fresh
<1>18. EventsOK
  BY <1>2 DEF EventsOK
<1>19. SerialsOK
  <2>1. world.serial = FirstSerial /\ world.left = b
    BY <1>1
  <2>2. Ord(world.serial) = 0
    BY <2>1, SerialAssumption DEF Ord
  <2>3. 2 * (b.covers + 3 * b.locks + 2) <= SerialSpace
    BY SerialAssumption
  <2>4. b.covers \in Nat /\ b.locks \in Nat /\ Pending = 0
    BY <1>2, <1>5 DEF Pending
  <2>5. 2 * (Ord(world.serial) + world.left.covers + 3 * world.left.locks + Pending + 2)
          <= SerialSpace
    BY <2>1, <2>2, <2>3, <2>4
  <2>6. lock.pc = "idle" /\ lock.cycle = NoCycle /\ Frames(deskQ) = {}
    BY <1>2, <1>11, FramesAre
  <2> QED
    BY <2>5, <2>6, NoCycleIs DEF SerialsOK
<1>20. CycleOK
  <2>1. /\ ~lock.on /\ lock.pc = "idle" /\ lock.cycle = NoCycle /\ lock.real = "no"
    BY <1>2
  <2> QED
    BY <2>1, NoCycleIs DEF CycleOK
<1> QED
  BY <1>12, <1>13, <1>14, <1>15, <1>16, <1>17, <1>18, <1>19, <1>20 DEF WatchInv, ContextInv

LEMMA WatchInvKept ==
  ASSUME WatchInv, [Next]_vars
  PROVE  WatchInv'
<1>1. CASE Next
  <2>1. Promise /\ ContextInv /\ EventsOK /\ TypeOK /\ SerialsOK /\ CycleOK
    BY <1>1 DEF Next, WatchInv, ContextInv
  <2>2. ContextInv' /\ EventsOK'
    BY <1>1, <2>1, WorldActsSafe, StepSafe, ConsumersSafe, FailuresSafe, RequestSafe, ControlSafe
       DEF Next
  <2>3. TypeOK'
    BY <2>2 DEF ContextInv
  <2>4. SerialsOK' /\ CycleOK'
    BY <1>1, <2>1, <2>3, LocksKept
  <2> QED
    BY <2>2, <2>4 DEF WatchInv
<1>2. CASE UNCHANGED vars
  <2>1. /\ world' = world /\ w' = w /\ sysQ' = sysQ /\ deskQ' = deskQ /\ job' = job
        /\ current' = current /\ lock' = lock /\ open' = open /\ owed' = owed /\ deaf' = deaf
    BY <1>2 DEF vars
  <2>2. TypeOK' /\ QueuesTell' /\ BusesOK' /\ JobsOK'
    BY <2>1 DEF WatchInv, ContextInv, TypeOK, QueuesTell, BusesOK, JobsOK, Fresh
  <2>3. OwnersTold' /\ SessionTold' /\ DeafOK' /\ TrustTold' /\ DesktopTold' /\ EventsOK'
    BY <2>1 DEF WatchInv, ContextInv, OwnersTold, SessionTold, DeafOK, TrustTold, DesktopTold,
                EventsOK, Fresh, Told
  <2>4. SerialsOK' /\ CycleOK'
    BY <2>1 DEF WatchInv, SerialsOK, CycleOK, Answers, Pending, Before
  <2> QED
    BY <2>2, <2>3, <2>4 DEF WatchInv, ContextInv
<1> QED
  BY <1>1, <1>2

\* What the watcher holds, what it still has to read and what a requested lock has shown, at every
\* step of the desktop and of the watcher's coroutines.
THEOREM WatchInvariant == Spec => []WatchInv
<1>1. Init => WatchInv
  BY InitIsSafe
<1>2. WatchInv /\ [Next]_vars => WatchInv'
  BY WatchInvKept
<1> QED
  BY <1>1, <1>2, PTL DEF Spec

\* A context in force is about the owners, the session and the desktop as they are, or the signal
\* that ends it is queued: no attestation that finishes late publishes what a consumed signal has
\* withdrawn (_screen_generation), except about the desktop after the watcher was deaf.
THEOREM ContextsAlwaysCurrent == Spec => []ContextSound
<1>1. WatchInv => ContextSound
  <2> SUFFICES ASSUME WatchInv PROVE ContextSound
    OBVIOUS
  <2>1. TypeOK /\ OwnersTold /\ SessionTold /\ DesktopTold
    BY DEF WatchInv, ContextInv
  <2>2. ContextIsCurrent
    <3> SUFFICES ASSUME ScreenContext, w.login # NoOwner
                 PROVE  /\ w.screen \in Genuine /\ w.login \in Genuine
                        /\ world.login = w.login \/ Told({"name"})
                        /\ world.screen = w.screen \/ Queued(deskQ, {"name", "appears"})
                        /\ world.here = w.here \/ Told({"away", "back", "name"})
      BY DEF ContextIsCurrent, Told
    <3>1. w.trusted /\ w.screen # NoOwner
      BY DEF ScreenContext, Attested
    <3> QED
      BY <2>1, <3>1 DEF OwnersTold, SessionTold
  <2>3. DesktopIsCurrent
    <3>1. ScreenContext => w.ready
      BY DEF ScreenContext, Attested
    <3> QED
      BY <2>1, <3>1 DEF DesktopIsCurrent, DesktopStillOurs, DesktopTold, Told
  <2> QED
    BY <2>1, <2>2, <2>3 DEF ContextSound
<1> QED
  BY <1>1, WatchInvariant, PTL

\* A lock, a sleep, a switch of the console or the end of the session that logind announced is
\* never lost: the data is sealed, or a signal that seals it is still queued (_system_signal).
THEOREM EventsAlwaysSeal == Spec => []EventsSeal
<1>1. WatchInv => EventsSeal
  BY DEF WatchInv, EventsOK, EventsSeal, Told
<1> QED
  BY <1>1, WatchInvariant, PTL

\* What is published of a requested lock has happened, however the serials wrap and whatever
\* frames were queued before (_serial_after, _publish_requested_lock).
THEOREM LockEvidenceIsReal == Spec => []LockEvidence
<1>1. WatchInv => LockEvidence
  <2> SUFFICES ASSUME CycleOK PROVE LockEvidence
    BY DEF WatchInv
  <2>1. lock.cycle.lockSaid => lock.real # "no"
    <3> SUFFICES ASSUME lock.cycle.lockSaid PROVE lock.real # "no"
      OBVIOUS
    <3>1. lock.cycle.capable /\ lock.cycle.ack # 0
      BY DEF CycleOK
    <3>2. Answers # {}
      BY <3>1 DEF Answers
    <3> QED
      BY <3>1, <3>2 DEF CycleOK
  <2> QED
    BY <2>1 DEF CycleOK, LockEvidence
<1> QED
  BY <1>1, WatchInvariant, PTL
==============================================================================
