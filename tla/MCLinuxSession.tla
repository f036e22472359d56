--------------------------- MODULE MCLinuxSession ---------------------------
(* A small desktop for LinuxSession. *)
EXTENDS LinuxSession

CONSTANTS s1, nemo, l1, l2

MCScreens == {s1, nemo}
MCLogins == {l1, l2}
MCGenuine == {s1, l1, l2}
MCContracted == {s1}

(* Disturbances of the desktop and a failing call while the data is opened *)
(* again and again; checks of the lock among frames of the screen.         *)
MCBudgets == {[events |-> 2, fails |-> 0, covers |-> 0, opens |-> TRUE, locks |-> 0],
              [events |-> 1, fails |-> 1, covers |-> 0, opens |-> TRUE, locks |-> 0],
              [events |-> 1, fails |-> 0, covers |-> 1, opens |-> FALSE, locks |-> 1],
              [events |-> 0, fails |-> 1, covers |-> 3, opens |-> FALSE, locks |-> 2]}

(* A failing attestation of a new logind while another coroutine has come  *)
(* to trust it, and a change of the desktop before it is adopted again.    *)
MCForgottenBudgets ==
    {[events |-> 2, fails |-> 1, covers |-> 0, opens |-> FALSE, locks |-> 0]}
=============================================================================
