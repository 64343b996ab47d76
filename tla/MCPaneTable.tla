---------------------------- MODULE MCPaneTable ----------------------------
(* Instances of PaneTable.  p1 may be the parent of p2; p3 has none.        *)
EXTENDS PaneTable, TLC

CONSTANTS p1, p2, p3

Family   == [p \in Panes |-> IF p = p2 THEN {None, p1} ELSE {None}]
Policies == [p \in Panes |-> IF p = p1 THEN "exit"
                             ELSE IF p = p2 THEN "on_exit" ELSE "keep"]
Deletes  == {{p} : p \in Panes} \cup {Panes}
Puts     == {<<p1, p2>>, <<p1>>, <<p2>>}
Nested   == {<<p1, p2>>, <<p3>>}
=============================================================================
