------------------------------ MODULE PinPolicy ------------------------------
(***************************************************************************)
(* The policy of the PIN: three wrong checks lock its entry for            *)
(* LockSeconds (src/auth/pin_policy.py), the counter in the row            *)
(* auth_state (src/storage/database.py) and the routes that check a PIN:   *)
(* the login (src/auth/service.py) and the confirmation before a recovery  *)
(* code (src/storage/data_protection.py).                                  *)
(*                                                                         *)
(* A route samples the clock and hands the sample to a thread, whose       *)
(* transaction reads and writes the row; time passes in between.  The      *)
(* elapsed clock runs through sleep and starts anew with every boot; the   *)
(* boot is told by a token that some systems hide.  The wall clock only    *)
(* matters for the numeric deadline of an older version, which is turned   *)
(* into a lock by the first transaction that meets it.                     *)
(***************************************************************************)
EXTENDS Integers

CONSTANTS
    Limit,          \* APP_PIN_MAX_FAILED_ATTEMPTS
    LockSeconds,    \* APP_PIN_LOCK_SECONDS
    Horizon,        \* bound: seconds of one behaviour
    Budgets         \* bound: boots ("boots") and abandoned countdowns ("strays")

ASSUME PolicyAssumption == Limit \in Nat \ {0} /\ LockSeconds \in Nat \ {0}

VARIABLES
    attempts,     \* failed_attempts and locked_until of auth_state
    clock,  \* seconds run in all ("now") and since the boot ("up"), the boot,
            \* whether its token is known
    task,   \* the routes: where each stands, with the sample it took
    stray,  \* the sample of a thread whose coroutine was cancelled
    open,   \* is the session that may ask for a recovery code open?
    truth,  \* history: wrong answers given in this cycle, seconds of the lock
            \* still to serve, seconds since the lock was first met in this
            \* boot, and whether an older sample was written after a newer one
    left    \* what is left of the budgets

pinVars == <<attempts, clock, task, stray, open, truth, left>>

Unknown == 0
Sample == [now |-> clock.now, up |-> clock.up, boot |-> IF clock.told THEN clock.boot ELSE Unknown]
NoSample == [now |-> -1, up |-> 0, boot |-> Unknown]
AtRest == [pc |-> "idle", s |-> NoSample]

NoLock == [kind |-> "none"]
Wall(at) == [kind |-> "wall", at |-> at]
(* arm_lock *)
Armed(s, seconds) ==
    [kind |-> "lock", deadline |-> s.up + seconds, last |-> s.up, budget |-> seconds, boot |-> s.boot]

AtMost(m, n) == IF m < n THEN m ELSE n
NotNegative(n) == IF n < 0 THEN 0 ELSE n

-----------------------------------------------------------------------------
(* normalize_attempts                                                      *)

ChangedBoot(l, s) == l.boot # Unknown /\ s.boot # Unknown /\ l.boot # s.boot
NeverRestarted(l, s) == FALSE
(* Another boot, or what can only be one when its token is not known.      *)
Restarted(l, s) ==
    ChangedBoot(l, s) \/ (s.up < l.last /\ (l.boot = Unknown \/ s.boot = Unknown))

RemainingHere(l, s) ==
    IF Restarted(l, s) THEN 0 ELSE NotNegative(AtMost(l.budget, l.deadline - s.up))
(* The seconds that a stored lock still lasts at a sample.                 *)
Remaining(l, s) ==
    IF Restarted(l, s) THEN NotNegative(l.budget - s.up)
    ELSE IF s.up < l.last THEN l.budget
    ELSE NotNegative(AtMost(l.budget, l.deadline - s.up))

ForgivesAll(row) == FALSE
(* Failures recorded without a lock, or under the old policy, deserve one. *)
DeservesLock(row) ==
    row.failed >= Limit /\ (row.until.kind = "none" \/ row.failed \in {Limit, Limit + 1})

Normalized(row, s) ==
    LET raw == row.until
        left_ == CASE raw.kind = "lock" -> Remaining(raw, s)
                   [] raw.kind = "wall" /\ raw.at > s.now -> AtMost(LockSeconds, raw.at - s.now)
                   [] OTHER -> IF DeservesLock(row) THEN LockSeconds ELSE 0
        moved == raw.kind # "lock" \/ Restarted(raw, s) \/ s.up < raw.last
        lock == IF moved THEN Armed(s, left_) ELSE [Armed(s, left_) EXCEPT !.deadline = raw.deadline]
    IN  IF left_ > 0 THEN [failed |-> Limit, until |-> lock, left |-> left_]
        ELSE IF raw.kind = "none" THEN [failed |-> row.failed, until |-> NoLock, left |-> 0]
        ELSE [failed |-> 0, until |-> NoLock, left |-> 0]

(* _pin_attempts: one transaction, with or without a failure to count.     *)
Counted(row, s, failure) ==
    LET n == Normalized(row, s) IN
    IF ~failure \/ n.left > 0 THEN n
    ELSE IF n.failed + 1 >= Limit
         THEN [failed |-> Limit, until |-> Armed(s, LockSeconds), left |-> LockSeconds]
    ELSE [n EXCEPT !.failed = @ + 1]
Row(n) == [failed |-> n.failed, until |-> n.until]

-----------------------------------------------------------------------------
(* An installation may bring failures and a deadline of the old policy,    *)
(* which allowed five failures.                                            *)
PinInit ==
    /\ left \in Budgets
    /\ attempts \in [failed : 0..(Limit + 1), until : {NoLock}]
              \cup [failed : {Limit + 2}, until : {Wall(at) : at \in {-1, 1, LockSeconds + 2}}]
    /\ clock \in [now : {0}, up : {0, 2}, boot : {1}, told : BOOLEAN]
    /\ task = [t \in {"login", "code", "ask"} |-> AtRest]
    /\ stray = NoSample
    /\ open = FALSE
    /\ truth = [wrong |-> IF attempts.until.kind = "wall" THEN 0 ELSE AtMost(attempts.failed, Limit),
                serve |-> 0, since |-> 0, met |-> FALSE, overtaken |-> FALSE]

(* A lock that is to be served from the second "from" on.                  *)
Serve(t, from, seconds) ==
    LET rest == NotNegative(seconds - (clock.now - from))
    IN  [t EXCEPT !.wrong = IF rest = 0 THEN 0 ELSE IF @ < Limit THEN Limit ELSE @, !.serve = rest,
                  !.since = clock.now - from, !.met = TRUE]

(* History of a transaction at sample s: the conversion of old data, and   *)
(* an answer that told a wrong PIN.                                        *)
Written(s, failure) ==
    LET n == Counted(attempts, s, failure)
        converted == attempts.until.kind # "lock" /\ Normalized(attempts, s).left > 0
        t == [truth EXCEPT !.met = TRUE,
                           !.wrong = IF attempts.until.kind = "wall" THEN 0 ELSE @,
                           !.overtaken = @ \/ (attempts.until.kind = "lock" /\ truth.met
                                                /\ s.up < attempts.until.last /\ stray = s)]
    IN  /\ attempts' = Row(n)
        /\ truth' = IF converted THEN Serve(t, s.now, n.left)
                    ELSE IF ~failure \/ Normalized(attempts, s).left > 0 THEN t
                    ELSE IF n.left > 0 THEN Serve([t EXCEPT !.wrong = @ + 1], s.now, LockSeconds)
                    ELSE [t EXCEPT !.wrong = @ + 1]

-----------------------------------------------------------------------------
(* The routes.  _run_exclusive and pin_check_gate let one check run at a   *)
(* time; the countdown waits for it.                                       *)

Exclusive == \A t \in DOMAIN task : task[t] = AtRest

Goes(t, pc, s) == task' = [task EXCEPT ![t] = [pc |-> pc, s |-> s]]
Ends(t) == task' = [task EXCEPT ![t] = AtRest]

(* login, begin_recovery_code and pin_lock_seconds_remaining sample first. *)
Begin(t) ==
    /\ task[t] = AtRest /\ Exclusive
    /\ t = "code" => open
    /\ Goes(t, "read", Sample)
    /\ UNCHANGED <<attempts, clock, stray, open, truth, left>>

(* pin_attempt_state: a lock ends the check, for a right PIN as well.      *)
AttemptsRead(t) ==
    /\ task[t].pc = "read"
    /\ Written(task[t].s, FALSE)
    /\ IF t = "ask" \/ Counted(attempts, task[t].s, FALSE).left > 0 THEN Ends(t)
       ELSE Goes(t, "verify", NoSample)
    /\ UNCHANGED <<clock, stray, open, left>>

(* The PIN is verified; the result is counted only by a route whose        *)
(* session is still open, and is not told otherwise.                       *)
Verified(t) ==
    /\ task[t].pc = "verify"
    /\ \/ Goes(t, "wrong", Sample) /\ (t = "code" => open)
       \/ Goes(t, IF t = "login" THEN "unlock" ELSE "reset", Sample) /\ (t = "code" => open)
       \/ t = "code" /\ ~open /\ Ends(t)
    /\ UNCHANGED <<attempts, clock, stray, open, truth, left>>

(* register_pin_failure, and the answer that tells it. *)
FailureCounted(t) ==
    /\ task[t].pc = "wrong"
    /\ Written(task[t].s, TRUE)
    /\ Ends(t)
    /\ UNCHANGED <<clock, stray, open, left>>

(* DataProtection.unlock looks at the attempts again before it opens. *)
LoginUnlocked ==
    /\ task["login"].pc = "unlock"
    /\ Written(task["login"].s, FALSE)
    /\ IF Counted(attempts, task["login"].s, FALSE).left > 0 THEN Ends("login")
       ELSE Goes("login", "reset", NoSample)
    /\ UNCHANGED <<clock, stray, open, left>>

(* reset_login_attempts after a right PIN. *)
AttemptsReset(t) ==
    /\ task[t].pc = "reset"
    /\ attempts' = [failed |-> 0, until |-> NoLock]
    /\ truth' = [truth EXCEPT !.wrong = 0, !.serve = 0]
    /\ open' = (open \/ t = "login")
    /\ Ends(t)
    /\ UNCHANGED <<clock, stray, left>>

(* A read, a write or another step of the route fails; nothing is told. *)
RouteFails(t) ==
    /\ task[t] # AtRest /\ Ends(t)
    /\ UNCHANGED <<attempts, clock, stray, open, truth, left>>

(* replace_pin and complete_setup: save_auth_state starts a new counter. *)
PinReplaced ==
    /\ Exclusive
    /\ attempts' = [failed |-> 0, until |-> NoLock]
    /\ truth' = [truth EXCEPT !.wrong = 0, !.serve = 0]
    /\ UNCHANGED <<clock, task, stray, open, left>>

(* lock_access, by a seal or by hand. *)
SessionCloses ==
    /\ open /\ open' = FALSE
    /\ UNCHANGED <<attempts, clock, task, stray, truth, left>>

(* _cancel_lock_task: the coroutine of the countdown is cancelled and gives *)
(* the lock of the service back; its thread goes on.                       *)
CountdownCancelled ==
    /\ task["ask"].pc = "read" /\ stray = NoSample /\ left.strays > 0
    /\ stray' = task["ask"].s
    /\ left' = [left EXCEPT !.strays = @ - 1]
    /\ Ends("ask")
    /\ UNCHANGED <<attempts, clock, open, truth>>

StrayWrites ==
    /\ stray # NoSample
    /\ Written(stray, FALSE)
    /\ stray' = NoSample
    /\ UNCHANGED <<clock, task, open, left>>

-----------------------------------------------------------------------------
(* Time passes, asleep or awake; the computer is started anew. *)

Tick ==
    /\ clock.now < Horizon
    /\ clock' = [clock EXCEPT !.now = @ + 1, !.up = @ + 1]
    /\ truth' = [truth EXCEPT !.serve = NotNegative(@ - 1), !.wrong = IF truth.serve = 1 THEN 0 ELSE @,
                              !.since = IF clock.told \/ truth.met THEN @ + 1 ELSE @]
    /\ UNCHANGED <<attempts, task, stray, open, left>>

Restart ==
    /\ task' = [t \in DOMAIN task |-> AtRest] /\ stray' = NoSample /\ open' = FALSE
    /\ \/ UNCHANGED <<clock, truth, left>>
       \/ /\ left.boots > 0 /\ left' = [left EXCEPT !.boots = @ - 1]
          /\ clock' = [clock EXCEPT !.up = 0, !.boot = @ + 1]
          /\ truth' = [truth EXCEPT !.since = 0, !.met = FALSE]
    /\ UNCHANGED attempts

Route(t) == Begin(t) \/ AttemptsRead(t) \/ Verified(t) \/ FailureCounted(t)
            \/ AttemptsReset(t) \/ RouteFails(t)
PinNext ==
    \/ \E t \in DOMAIN task : Route(t)
    \/ LoginUnlocked \/ PinReplaced \/ SessionCloses
    \/ CountdownCancelled \/ StrayWrites
    \/ Tick \/ Restart

PinSpec == PinInit /\ [][PinNext]_pinVars

-----------------------------------------------------------------------------
(* Properties.                                                             *)

PinTypeOK ==
    /\ attempts.failed \in 0..(Limit + 2) /\ attempts.until.kind \in {"none", "wall", "lock"}
    /\ \A t \in DOMAIN task :
         task[t].pc \in {"idle", "read", "verify", "wrong", "unlock", "reset"}
    /\ truth.wrong \in Nat /\ truth.serve \in 0..LockSeconds

(* What the countdown would show now. *)
Shown == Normalized(attempts, Sample).left

(* Whatever the routes, restarts, boots and clocks do, no more than Limit  *)
(* wrong answers are told before the lock was served: "sign-in and PIN     *)
(* confirmation share this limit", and an update keeps recorded failures.  *)
(* Set apart: the thread of a cancelled countdown wrote a sample older than *)
(* the one stored, see LockIsServed.                                       *)
GuessesBounded == truth.overtaken \/ truth.wrong <= Limit

(* A lock lasts its LockSeconds of running time, over restarts, boots with *)
(* and without a token, sleep and the wall clock, with the same exception. *)
LockHolds == truth.overtaken \/ (truth.serve > 0 => Shown > 0)

(* No poll, restart or boot prolongs a lock: it lasts no longer than       *)
(* LockSeconds from when this boot met it, or, when the boot can be told,  *)
(* from when it began.                                                     *)
LockEnds == attempts.until.kind = "lock" => Shown <= NotNegative(LockSeconds - truth.since)

(* A lock is served neither too briefly nor too long. *)
LockExact == PinTypeOK /\ LockHolds /\ LockEnds

(* "A correct PIN cannot bypass an active lockout" and "the countdown      *)
(* continues" (docs/user-guide.md): a lock that is not served is shown.    *)
(* An abandoned thread that writes its older sample late shortens the lock, *)
(* or lifts it at once where the token of the boot is hidden.              *)
LockIsServed == truth.serve > 0 => Shown > 0
=============================================================================
