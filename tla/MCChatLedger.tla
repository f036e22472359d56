---------------------------- MODULE MCChatLedger ----------------------------
(***************************************************************************)
(* Model checking ChatLedger.  Two dispatches over two chats, with usage   *)
(* above the estimate.  After one usage an estimate fills what the larger  *)
(* limit leaves exactly, and exceeds what the smaller one leaves.          *)
(***************************************************************************)
EXTENDS ChatLedger, TLC

CONSTANTS c1, c2, t1, t2

MCChats == {c1, c2}
MCTurns == {t1, t2}

\* A turn that succeeded, and one interrupted in its reply.
MCOldTurns == {[message |-> "sent", reply |-> "inherited", total |-> 3],
               [message |-> "sent", reply |-> "pending", total |-> 0]}

Symmetry == Permutations(MCChats) \cup Permutations(MCTurns)
=============================================================================
