----------------------------- MODULE RingFormat -----------------------------
(***************************************************************************)
(* The arithmetic of the shared ring of ko_pane_wire: which records fit,   *)
(* how much room a writer may use, when the end of the buffer is padded,   *)
(* and how much of the past a reader keeps.  A position is the number of   *)
(* bytes ever written before it; its place in the buffer is the position   *)
(* modulo Capacity.                                                        *)
(***************************************************************************)
EXTENDS Integers

CONSTANTS
  Header,    (* bytes of a record header: 13 in the code                    *)
  Capacity,  (* bytes of the data buffer: 64 .. 2^30                        *)
  MaxHead    (* MAX_HEAD, the last position a record may end at             *)

ASSUME FormatAssumption ==
  /\ Header \in Nat \ {0}
  /\ Capacity \in Nat
  /\ Capacity >= 4 * Header
  /\ MaxHead \in Nat

Kind == {"bytes", "marker", "slice", "pad"}

(* The records whose loss a view notices: Reader.evicted follows them.      *)
DataKind == {"bytes", "marker"}

Lesser(a, b) == IF a < b THEN a ELSE b
Floor0(a)    == IF a < 0 THEN 0 ELSE a

PadRoom    == 2 * Header
ToEnd(pos) == Capacity - (pos % Capacity)
EndOf(r)    == r.at + Header + r.len
OffAfter(r) == r.off + (IF r.kind = "bytes" THEN r.len ELSE 0)

(* A record of len payload bytes may be committed at head by a writer whose *)
(* cached tail is tail: it does not wrap, it leaves the buffer exactly full *)
(* or with room for one more header, and it overwrites nothing kept.        *)
Fits_IgnoresTail(head, tail, len) ==   \* mutant: the unread past is not looked at
  /\ Header + len <= ToEnd(head)
  /\ Header + len = ToEnd(head) \/ 2 * Header + len <= ToEnd(head)
  /\ head + Header + len <= MaxHead

Fits(head, tail, len) ==
  /\ Header + len <= ToEnd(head)
  /\ Header + len = ToEnd(head) \/ 2 * Header + len <= ToEnd(head)
  /\ head + Header + len <= tail + Capacity
  /\ head + Header + len <= MaxHead

Free(head, tail) == Capacity - (head - tail)

(* The end of the buffer is too short for a record: it becomes a pad.       *)
AtPad(head) == ToEnd(head) <= PadRoom
PadLen(head) == ToEnd(head) - Header

(* Payload bytes the writer may use at head, once no pad is due.            *)
Room_OneHeader(head, tail) ==   \* mutant: leaves room for one header only
  IF head >= MaxHead \/ AtPad(head)
  THEN 0
  ELSE Floor0(Lesser(Free(head, tail), ToEnd(head)) - Header)

Room(head, tail) ==
  IF head >= MaxHead \/ AtPad(head)
  THEN 0
  ELSE Floor0(Lesser(Free(head, tail), ToEnd(head)) - PadRoom)

(* What available() answers once it has padded the buffer's end at head.    *)
LapRoom(head, tail) ==
  Floor0(Lesser(Free(head, tail) - ToEnd(head), Capacity) - PadRoom)

(* The position up to which a reader that saw head and must keep everything *)
(* from keep on may release: half the buffer stays behind the head.         *)
Retain(head, keep) == Lesser(Floor0(head - Capacity \div 2), keep)
=============================================================================
