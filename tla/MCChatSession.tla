----------------------------- MODULE MCChatSession -----------------------------
(* A small session of the chats for TLC: three overlapping clicks, or two   *)
(* with a failure of the storage, or one that outlives its session.         *)
EXTENDS ChatSession, TLC

MCSlots == 1..3
Budget(logins, clicks, fails, keys) ==
    [logins |-> logins, clicks |-> clicks, fails |-> fails, keys |-> keys]
MCBudgets == {Budget(1, 3, 0, {"VALID"}),
              Budget(1, 2, 1, {"UNKNOWN", "VALID"}), Budget(2, 1, 1, {"UNKNOWN", "VALID"})}
MCSymmetry == Permutations(Stored)
=============================================================================
