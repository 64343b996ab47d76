----------------------------- MODULE RecordLog ------------------------------
(***************************************************************************)
(* What the shared ring of ko_pane_wire promises: a log of records that    *)
(* tile the positions and carry consecutive byte offsets, a head the       *)
(* writer moves, and a tail the reader moves from one record boundary to a *)
(* later one, never past the newest half of the buffer.  Module Ring       *)
(* implements it access by access; module Views is built on it.            *)
(***************************************************************************)
EXTENDS RingFormat

VARIABLES
  log,   (* every record published                                          *)
  head,  (* the position after the last one                                 *)
  tail   (* the position of the first one not released                      *)

ring == <<log, head, tail>>

LogInit == log = {} /\ head = 0 /\ tail = 0

(* The byte offset at the head, kept by the writer and found by a walk by   *)
(* the reader: one value, that of the record that ends there.               *)
Ends == IF log = {} THEN {0} ELSE {OffAfter(r) : r \in {q \in log : EndOf(q) = head}}

Publish(kind, len) ==
  /\ head + Header + len <= tail + Capacity
  /\ \E off \in Ends :
       log' = log \cup {[kind |-> kind, len |-> len, off |-> off, at |-> head]}
  /\ head' = head + Header + len
  /\ tail' = tail

Starts == {r.at : r \in log} \cup {head}

Release(to) ==
  /\ to \in Starts /\ tail < to /\ to <= head
  /\ \A r \in log : tail <= r.at /\ r.at < to => r.at < head - Capacity \div 2
  /\ tail' = to
  /\ UNCHANGED <<log, head>>

LogNext ==
  \/ \E kind \in Kind, len \in 0 .. Capacity : Publish(kind, len)
  \/ \E to \in Starts : Release(to)

LogSpec == LogInit /\ [][LogNext]_ring
=============================================================================
