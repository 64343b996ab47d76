------------------------------ MODULE MCLayout ------------------------------
(* An instance of Layout.                                                   *)
EXTENDS Layout

Asked == {<<2, 7>>}
Fresh == <<5, 4>>
=============================================================================
