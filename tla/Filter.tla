------------------------------- MODULE Filter -------------------------------
(* The elements of a sequence that belong to a set, in their order: what    *)
(* Vec::retain keeps and Vec::extract_if takes.  It is what SelectSeq is    *)
(* for a test on elements, as a recursive function of the prefixes.         *)
EXTENDS Integers, Sequences

Only(s, S) ==
    LET upTo[n \in 0 .. Len(s)] ==
          IF n = 0 THEN <<>>
          ELSE IF s[n] \in S THEN Append(upTo[n - 1], s[n])
          ELSE upTo[n - 1]
    IN  upTo[Len(s)]
=============================================================================
