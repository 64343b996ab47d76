------------------------------ MODULE MCViews -------------------------------
(* Values of Load, one per run.                                             *)
EXTENDS Views, TLC

CONSTANTS v1, v2

Budgets(bytes, resize, exit, crash, resync, leave) ==
  [bytes |-> bytes, resize |-> resize, exit |-> exit, crash |-> crash,
   resync |-> resync, leave |-> leave]

SharedLoad == Budgets(2, 0, 0, 1, 0, 1)
EndingLoad == Budgets(1, 1, 1, 1, 1, 0)
ReflowLoad == Budgets(2, 1, 1, 0, 0, 0)

Alike == Permutations(Clients)
=============================================================================
