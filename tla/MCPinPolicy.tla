------------------------------ MODULE MCPinPolicy ------------------------------
(* A short lock for TLC: three seconds of eight, two more boots and one       *)
(* countdown that is cancelled while its thread works.                        *)
EXTENDS PinPolicy

MCBudgets == {[boots |-> 2, strays |-> 1]}
=============================================================================
