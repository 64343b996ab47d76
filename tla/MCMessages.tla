----------------------------- MODULE MCMessages -----------------------------
(* Instances of Messages: what clients send, and who is whose child.        *)
EXTENDS Messages, FiniteSets

CONSTANTS p1, p2, a, b, d, e1, e2

Sizes == [i \in Ids |-> IF i = a THEN 2 ELSE IF i = b THEN 1 ELSE 0]
Ends == [p \in Panes |-> IF p = p1 THEN e1 ELSE e2]
Alone == [p \in Panes |-> None]
Child == [p \in Panes |-> IF p = p2 THEN p1 ELSE None]

Posting == {<<Post(p1, i)>> : i \in {a, b, d} \intersect Ids}
QueueBatches == Posting \union {<<OpenStream(p1)>>}
EndBatches == {<<Post(p1, a)>>, <<OpenStream(p1)>>, <<Delete(<<p2>>)>>, <<Delete(<<p1, p2>>)>>, <<Delete(<<p2, p1>>)>>}
    \union {<<Post(p1, a), r>> : r \in {OpenStream(p1), Delete(<<p1>>)}}
PipedBatches == {<<Post(p1, a)>>, <<OpenStream(p1)>>, <<Delete(<<p1>>)>>}
    \union {<<Post(p1, a), r>> : r \in {Post(p1, b), OpenStream(p1), Delete(<<p1>>)}}

Alike == Permutations(Conns)
=============================================================================
