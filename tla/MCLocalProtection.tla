--------------------------- MODULE MCLocalProtection ---------------------------
(* Small behaviours of the local checks for TLC.  A scenario spends what    *)
(* its budget allows, in any order: one check with two user locks or        *)
(* covers, a second check after a first, a context lost in between, two     *)
(* sleeps, a manual seal or a failing call at any moment.                   *)
EXTENDS LocalProtection

Nothing == [tests |-> 0, opens |-> 0, changes |-> 0, locks |-> 0, covers |-> 0, sleeps |-> 0,
          seals |-> 0, fails |-> 0]

MCBudgets ==
    {[Nothing EXCEPT !.tests = 1, !.opens = 2, !.locks = 1, !.covers = 1],
     [Nothing EXCEPT !.tests = 2, !.opens = 2, !.sleeps = 1],
     [Nothing EXCEPT !.tests = 1, !.opens = 2, !.seals = 1, !.sleeps = 1],
     [Nothing EXCEPT !.tests = 1, !.opens = 1, !.sleeps = 2],
     [Nothing EXCEPT !.tests = 1, !.opens = 2, !.changes = 1],
     [Nothing EXCEPT !.tests = 1, !.opens = 1, !.changes = 1, !.sleeps = 1],
     [Nothing EXCEPT !.tests = 1, !.opens = 2, !.fails = 1, !.locks = 1]}
=============================================================================
