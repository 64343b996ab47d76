----------------------------- MODULE MCPaneLink -----------------------------
(* Instances of PaneLink: how much the program writes, how often each       *)
(* request is sent and whether the program exits.                           *)
EXTENDS PaneLink

Nothing == [output |-> 2, screen |-> 0, resize |-> 0, clear |-> 0, exit |-> 0, die |-> 0]

Ending  == [Nothing EXCEPT !.clear = 1, !.exit = 1, !.die = 1]
Resized == [Nothing EXCEPT !.resize = 1, !.die = 1]
Mixed   == [Nothing EXCEPT !.output = 3, !.screen = 1, !.resize = 1]

EveryBudget  == {Ending, Resized, Mixed}
ResizeBudget == {[Nothing EXCEPT !.output = 4, !.resize = 1]}
=============================================================================
