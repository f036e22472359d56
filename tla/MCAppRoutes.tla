------------------------------ MODULE MCAppRoutes ------------------------------
(* Small behaviours of the application's routes for TLC: enough operations   *)
(* to reach every screen, and seals and failing answers at any step.         *)
EXTENDS AppRoutes

MCBudgets == {[ops |-> 9, seals |-> 2, fails |-> 2]}
=============================================================================
