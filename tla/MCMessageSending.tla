-------------------------- MODULE MCMessageSending --------------------------
(***************************************************************************)
(* Model checking MessageSending: two senders compete for one chat with    *)
(* room for two turns, and the budget holds at most two estimates.         *)
(***************************************************************************)
EXTENDS MessageSending, TLC

CONSTANTS c1, t1, t2, s1, s2

MCChats   == {c1}
MCTurns   == {t1, t2}
MCSenders == {s1, s2}

MCSettings    == {[modes |-> Modes, saved |-> FALSE, fails |-> FALSE],
                  [modes |-> {"paid"}, saved |-> TRUE, fails |-> TRUE]}
SavedSettings == {[modes |-> {"paid"}, saved |-> TRUE, fails |-> FALSE]}

Symmetry == Permutations(MCTurns) \cup Permutations(MCSenders)
=============================================================================
