--------------------------- MODULE PaneLinkProofs ---------------------------
(***************************************************************************)
(* Proofs about PaneLink, for every buffer, every length of a marker and   *)
(* every number of requests: no caller of commit asks for a record that    *)
(* does not fit, the death of the program is told last, and nothing that   *)
(* was said is lost: no head, no full frame and no request.                *)
(***************************************************************************)
EXTENDS PaneLink, RingFormatProofs, FilterProofs

-----------------------------------------------------------------------------
(* A pane's commits are not refused.  The argument: available() answers a   *)
(* room every part of which is placed well at the head (RoomPlaced), or     *)
(* behind the pad it commits (LapRoomPlaced); nothing moves the head before *)
(* its caller commits; and no caller takes more than the answer.            *)

Counts ==
  /\ {head, tail, wtail, seen, ptyLeft, room} \subseteq Nat
  /\ \A r \in recs : r.at \in Nat
  /\ Header <= ToEnd(head)

Nexts == {"route", "dead", "clear", "flush"}

Jobs ==
  /\ job.min \in Nat \ {0} /\ job.next \in Nexts
  /\ pend.len \in Nat /\ pend.then \in Nexts \cup {"use", "avail", "poll"}

After == pend.at + Header + pend.len

Committing ==
  /\ pc = "publish" => pend.at = head /\ Placed(head, wtail, pend.len)
  /\ pc = "published" => After = head

RoomGood ==
  /\ pc = "use" => \A n \in 1 .. room : Placed(head, wtail, n)
  /\ pc \in {"publish", "published"} /\ pend.then = "use" =>
       \A n \in 1 .. room : Placed(After, wtail, n)

RefusalInv == Counts /\ Jobs /\ Committing /\ RoomGood

(* Nothing is committed at the start.                                       *)
LEMMA RefusalInit == Init => RefusalInv
<1> SUFFICES ASSUME Init PROVE RefusalInv
  OBVIOUS
<1>1. \A b \in Budgets : b["output"] \in Nat
  BY LengthsAssumption DEF Requests
<1>2. Header <= ToEnd(0)
  <2>1. 0 % Capacity = 0
    <3>1. (Capacity * 0 + 0) % Capacity = 0
      BY ModUnique, FormatAssumption
    <3> QED BY <3>1, FormatAssumption
  <2> QED BY <2>1, FormatAssumption DEF ToEnd
<1>3. Counts
  BY <1>1, <1>2 DEF Init, Counts
<1> QED BY <1>3 DEF Init, RefusalInv, Jobs, Committing, RoomGood, None, Idling, Nexts

(* A step that commits nothing and asks nothing.                            *)
LEMMA RefusalKept ==
  ASSUME RefusalInv,
         UNCHANGED <<head, tail, wtail, seen, ptyLeft, room, recs, pend>>,
         job'.min \in Nat \ {0}, job'.next \in Nexts,
         pc' = pc \/ pc' \notin {"use", "publish", "published"}
  PROVE  RefusalInv'
BY DEF RefusalInv, Counts, Jobs, Committing, RoomGood, After

(* A step that starts to commit a record that is placed well.               *)
LEMMA RefusalWrite ==
  ASSUME RefusalInv, NEW kind, NEW len \in Nat, NEW then \in Nexts \cup {"avail"},
         Write(kind, len, then), Placed(head, wtail, len),
         UNCHANGED <<head, tail, wtail, seen, room, recs, job>>, ptyLeft' \in Nat
  PROVE  RefusalInv'
<1>1. /\ pend'.len = len /\ pend'.at = head /\ pend'.then = then /\ pc' = "publish"
  BY DEF Write
<1> QED BY <1>1 DEF RefusalInv, Counts, Jobs, Committing, RoomGood, Nexts

(* What available() answers can be used.                                    *)
LEMMA AvailableGood == RefusalInv /\ Available => RefusalInv'
<1> SUFFICES ASSUME RefusalInv, Available PROVE RefusalInv'
  OBVIOUS
<1>1. /\ head \in Nat /\ tail \in Nat /\ Header <= ToEnd(head) /\ ToEnd(head) \in 1 .. Capacity
  BY ToEndType DEF RefusalInv, Counts
<1>2. /\ wtail' = tail
      /\ UNCHANGED <<head, tail, seen, ptyLeft, recs, job>>
  BY DEF Available, ring, pty, server
<1>3. CASE PadDue
  <2>1. /\ room' = LapRoom(head, tail) /\ pc' = "publish"
        /\ pend' = [kind |-> "pad", len |-> PadLen(head), at |-> head, then |-> "use"]
    BY <1>3 DEF Available, Write
  <2>2. pend'.len = PadLen(head) /\ pend'.at = head /\ pend'.then = "use"
    BY <2>1
  <2>3. Placed(head, tail, PadLen(head))
    BY <1>3, FitsIsPlaced DEF PadDue
  <2>4. PadLen(head) \in Nat /\ head + Header + PadLen(head) = head + ToEnd(head)
    BY <1>1, FormatAssumption DEF PadLen
  <2>5. \A n \in 1 .. room' : Placed(head + Header + PadLen(head), tail, n)
    BY <1>1, <2>1, <2>4, LapRoomPlaced
  <2>6. room' \in Nat
    BY <1>1, <2>1, RoomType
  <2> QED BY <1>2, <2>1, <2>2, <2>3, <2>4, <2>5, <2>6
          DEF RefusalInv, Counts, Jobs, Committing, RoomGood, After
<1>4. CASE ~PadDue
  <2>1. room' = Room(head, tail) /\ pc' = "use" /\ pend' = pend
    BY <1>4 DEF Available
  <2>2. room' \in Nat
    BY <1>1, <2>1, RoomType
  <2>3. \A n \in 1 .. room' : Placed(head, tail, n)
    BY <1>1, <2>1, RoomPlaced
  <2> QED BY <1>2, <2>1, <2>2, <2>3 DEF RefusalInv, Counts, Jobs, Committing, RoomGood
<1> QED BY <1>3, <1>4

(* The program's output takes no more than the answer.                      *)
LEMMA ReadPtyGood ==
  ASSUME RefusalInv, NEW n \in 0 .. ptyLeft, NEW ended \in BOOLEAN, ReadPty(n, ended)
  PROVE  RefusalInv'
<1>1. /\ pc = "use" /\ room > 0 /\ n <= Lesser(room, ptyLeft) /\ ptyLeft' = ptyLeft - n
      /\ UNCHANGED <<head, tail, wtail, seen, room, recs, job>>
  BY DEF ReadPty, ring, server
<1>2. /\ ptyLeft \in Nat /\ room \in Nat /\ n \in Nat /\ n <= room /\ ptyLeft' \in Nat
  BY <1>1 DEF RefusalInv, Counts, Lesser
<1>3. job.next \in Nexts
  BY DEF RefusalInv, Jobs
<1>4. CASE n = 0
  <2>1. pc' = job.next /\ pend' = pend
    BY <1>4 DEF ReadPty
  <2>2. ptyLeft' = ptyLeft
    BY <1>1, <1>2, <1>4
  <2> QED BY <1>1, <1>3, <2>1, <2>2, RefusalKept DEF RefusalInv, Jobs, Nexts
<1>5. CASE n # 0
  <2>1. Write("bytes", n, job.next)
    BY <1>5 DEF ReadPty
  <2>2. Placed(head, wtail, n)
    BY <1>1, <1>2, <1>5 DEF RefusalInv, RoomGood
  <2> QED BY <1>1, <1>2, <1>3, <2>1, <2>2, RefusalWrite
<1> QED BY <1>4, <1>5

(* clear_history takes no more than the answer, or pads it.                 *)
LEMMA ClearGood == RefusalInv /\ Clear => RefusalInv'
<1> SUFFICES ASSUME RefusalInv, Clear PROVE RefusalInv'
  OBVIOUS
<1>1. /\ pc = "use" /\ room > 0
      /\ UNCHANGED <<head, tail, wtail, seen, room, recs, job, ptyLeft>>
  BY DEF Clear, ring, pty, server
<1>2. /\ room \in Nat /\ ClearLen \in Nat \ {0} /\ job.next \in Nexts /\ ptyLeft' \in Nat
  BY <1>1, LengthsAssumption DEF RefusalInv, Counts, Jobs
<1>3. CASE room >= ClearLen
  <2>1. Write("bytes", ClearLen, job.next)
    BY <1>3 DEF Clear
  <2>2. Placed(head, wtail, ClearLen)
    BY <1>1, <1>2, <1>3 DEF RefusalInv, RoomGood
  <2> QED BY <1>1, <1>2, <2>1, <2>2, RefusalWrite
<1>4. CASE ~(room >= ClearLen)
  <2>1. Write("pad", room, "avail")
    BY <1>4 DEF Clear, Filler
  <2>2. Placed(head, wtail, room)
    BY <1>1, <1>2 DEF RefusalInv, RoomGood
  <2> QED BY <1>1, <1>2, <2>1, <2>2, RefusalWrite
<1> QED BY <1>3, <1>4

(* A marker is committed only where it fits.                                *)
LEMMA PutMarkerGood == RefusalInv /\ PutMarker => RefusalInv'
<1> SUFFICES ASSUME RefusalInv, PutMarker PROVE RefusalInv'
  OBVIOUS
<1>1. /\ pc = "use" /\ (Enough \/ "stopping" \in flags)
      /\ UNCHANGED <<head, tail, wtail, seen, room, recs, job, ptyLeft>>
  BY DEF PutMarker, ring, pty, server
<1>2. /\ room \in Nat /\ job.min \in Nat \ {0} /\ job.next \in Nexts /\ ptyLeft' \in Nat
  BY <1>1 DEF RefusalInv, Counts, Jobs
<1>3. CASE "stopping" \in flags
  <2>1. pc' = "stopped" /\ pend' = pend
    BY <1>3 DEF PutMarker
  <2> QED BY <1>1, <1>2, <2>1, RefusalKept
<1>4. CASE "stopping" \notin flags
  <2>1. Write(job.t, job.min, job.next)
    BY <1>4 DEF PutMarker
  <2>2. Placed(head, wtail, job.min)
    BY <1>1, <1>2, <1>4 DEF RefusalInv, RoomGood, Enough
  <2> QED BY <1>1, <1>2, <2>1, <2>2, RefusalWrite
<1> QED BY <1>3, <1>4

(* The head moves behind the record, and leaves a place for a header.       *)
LEMMA PublishGood == RefusalInv /\ Publish => RefusalInv'
<1> SUFFICES ASSUME RefusalInv, Publish PROVE RefusalInv'
  OBVIOUS
<1>1. /\ pc = "publish" /\ pc' = "published"
      /\ head' = head + Header + pend.len
      /\ recs' = recs \cup {[kind |-> pend.kind, at |-> pend.at]}
      /\ UNCHANGED <<tail, wtail, seen, ptyLeft, room, job, pend>>
  BY DEF Publish, pty, server
<1>2. /\ head \in Nat /\ wtail \in Nat /\ pend.len \in Nat /\ pend.at = head
      /\ Placed(head, wtail, pend.len)
  BY <1>1 DEF RefusalInv, Counts, Jobs, Committing
<1>3. head' \in Nat /\ Header <= ToEnd(head')
  BY <1>1, <1>2, HeaderFitsAfter, FormatAssumption
<1>4. \A r \in recs' : r.at \in Nat
  BY <1>1, <1>2 DEF RefusalInv, Counts
<1> QED BY <1>1, <1>2, <1>3, <1>4 DEF RefusalInv, Counts, Jobs, Committing, RoomGood, After

(* After a commit the caller goes on where it said.                         *)
LEMMA PublishedGood == RefusalInv /\ Published => RefusalInv'
<1> SUFFICES ASSUME RefusalInv, Published PROVE RefusalInv'
  OBVIOUS
<1>1. /\ pc = "published" /\ pc' = pend.then
      /\ UNCHANGED <<head, tail, wtail, seen, recs, ptyLeft, room, job, pend>>
  BY DEF Published, ring, pty, server
<1>2. pend.then \in Nexts \cup {"use", "avail", "poll"} /\ After = head
  BY <1>1 DEF RefusalInv, Jobs, Committing
<1> QED BY <1>1, <1>2 DEF RefusalInv, Counts, Jobs, Committing, RoomGood, After, Nexts

(* The server's tail only gives room.                                       *)
LEMMA ScanStoreGood == RefusalInv /\ ScanStore => RefusalInv'
<1> SUFFICES ASSUME RefusalInv, ScanStore PROVE RefusalInv'
  OBVIOUS
<1>1. PICK to \in Boundaries : tail' = to /\ recs' = {r \in recs : r.at >= to}
  BY DEF ScanStore
<1>2. to \in Nat
  BY DEF Boundaries, RefusalInv, Counts
<1>3. UNCHANGED <<head, seen, ptyLeft, pc, job, room, wtail, pend>>
  BY DEF ScanStore, pty, pane
<1> QED BY <1>1, <1>2, <1>3 DEF RefusalInv, Counts, Jobs, Committing, RoomGood, After

(* Every step keeps RefusalInv.                                             *)
LEMMA RefusalStep == RefusalInv /\ [Next]_vars => RefusalInv'
<1> SUFFICES ASSUME RefusalInv, [Next]_vars PROVE RefusalInv'
  OBVIOUS
<1>0. /\ job.min \in Nat \ {0} /\ job.next \in Nexts
      /\ {ResizeLen, DeadLen, ClearLen} \subseteq Nat \ {0}
  BY LengthsAssumption DEF RefusalInv, Jobs
<1>1. CASE ChildExits
  BY <1>0, <1>1, RefusalKept DEF ChildExits, ring, server
<1>2. CASE Wake
  BY <1>0, <1>2, RefusalKept DEF Wake, ring, pty, server, Idling, Nexts
<1>3. CASE Stop
  BY <1>0, <1>3, RefusalKept DEF Stop, ring, pty, server
<1>4. CASE Route
  <2>1. /\ UNCHANGED <<head, tail, wtail, seen, ptyLeft, room, recs, pend>>
        /\ \/ UNCHANGED <<pc, job>>
           \/ \E req : Start("resize", ResizeLen, req, "route")
           \/ Start("clear", ClearLen, 0, "route")
    BY <1>4 DEF Route, ring, pty, server
  <2> QED BY <1>0, <2>1, RefusalKept DEF Start, Nexts
<1>5. CASE Routed
  BY <1>0, <1>5, RefusalKept DEF Routed, ring, pty, server, Idling, Nexts
<1>6. CASE Settle
  BY <1>0, <1>6, RefusalKept DEF Settle, ring, pty, server
<1>7. CASE Available
  BY <1>7, AvailableGood
<1>8. CASE NoRoom
  BY <1>0, <1>8, RefusalKept DEF NoRoom, ring, pty, server, Nexts
<1>9. ASSUME NEW n \in 0 .. ptyLeft, NEW ended \in BOOLEAN, ReadPty(n, ended) PROVE RefusalInv'
  BY <1>9, ReadPtyGood
<1>10. CASE Clear
  BY <1>10, ClearGood
<1>11. CASE Block
  BY <1>0, <1>11, RefusalKept DEF Block, ring, pty, server
<1>12. CASE PutMarker
  BY <1>12, PutMarkerGood
<1>13. CASE Blocked
  BY <1>0, <1>13, RefusalKept DEF Blocked, ring, pty, server
<1>14. CASE Publish
  BY <1>14, PublishGood
<1>15. CASE Published
  BY <1>15, PublishedGood
<1>16. CASE Dead
  BY <1>0, <1>16, RefusalKept DEF Dead, Start, ring, pty, server, Nexts
<1>17. CASE ClearDue
  BY <1>0, <1>17, RefusalKept DEF ClearDue, Start, ring, pty, server, Nexts
<1>18. CASE Flush
  BY <1>0, <1>18, RefusalKept DEF Flush, ring, pty, server
<1>19. ASSUME NEW t \in Requests, Send(t) PROVE RefusalInv'
  BY <1>0, <1>19, RefusalKept DEF Send, ring, pty, pane
<1>20. CASE ScanLoad
  BY <1>20 DEF ScanLoad, ring, pty, pane, RefusalInv, Counts, Jobs, Committing, RoomGood, After
<1>21. CASE ScanStore
  BY <1>21, ScanStoreGood
<1>22. CASE ReadFrame \/ ReadEnds \/ DispatchOutput \/ Dispatched \/ Tick
  BY <1>0, <1>22, RefusalKept
     DEF ReadFrame, ReadEnds, DispatchOutput, Dispatched, Tick, ring, pty, pane
<1>23. CASE UNCHANGED vars
  BY <1>0, <1>23, RefusalKept DEF vars, ring, pty, pane, server
<1> QED
  BY <1>1, <1>2, <1>3, <1>4, <1>5, <1>6, <1>7, <1>8, <1>9, <1>10, <1>11, <1>12, <1>13, <1>14,
     <1>15, <1>16, <1>17, <1>18, <1>19, <1>20, <1>21, <1>22, <1>23
     DEF Next, PaneStep, ServerStep

(* No commit of the pane is refused while the head is below the last        *)
(* position, whichever caller makes it after whichever wait: output, a      *)
(* marker, the pad of a lap or the filler of a clear (Out::published).      *)
THEOREM NoneRefused == Spec => [](head + Header + pend.len <= MaxHead => NeverRefused)
<1>1. RefusalInv => (head + Header + pend.len <= MaxHead => NeverRefused)
  BY FitsIsPlaced DEF RefusalInv, Committing, NeverRefused
<1> QED BY <1>1, RefusalInit, RefusalStep, PTL DEF Spec

-----------------------------------------------------------------------------
(* What is on its way on the socket.                                        *)

Said == {"head", "full", "dead"}

Sending == Range(output) \cup Range(toServer)

SocketTypes == output \in Seq(Said) /\ toServer \in Seq(Said)

(* The elements of two sequences in a row.                                  *)
LEMMA RangeConcat ==
  ASSUME NEW S, NEW s \in Seq(S), NEW t \in Seq(S)
  PROVE  Range(s \o t) = Range(s) \cup Range(t) /\ s \o t \in Seq(S)
<1>1. /\ s \o t \in Seq(S) /\ Len(s \o t) = Len(s) + Len(t) /\ Len(s) \in Nat /\ Len(t) \in Nat
      /\ DOMAIN s = 1 .. Len(s) /\ DOMAIN t = 1 .. Len(t)
      /\ DOMAIN (s \o t) = 1 .. Len(s) + Len(t)
      /\ \A i \in 1 .. Len(s) : (s \o t)[i] = s[i]
      /\ \A i \in 1 .. Len(t) : (s \o t)[Len(s) + i] = t[i]
  OBVIOUS
<1>2. ASSUME NEW i \in 1 .. Len(s) + Len(t) PROVE (s \o t)[i] \in Range(s) \cup Range(t)
  <2>1. CASE i \in 1 .. Len(s)
    BY <1>1, <2>1 DEF Range
  <2>2. CASE i \notin 1 .. Len(s)
    <3>1. i - Len(s) \in 1 .. Len(t) /\ Len(s) + (i - Len(s)) = i
      BY <1>1, <2>2
    <3>2. (s \o t)[i] = t[i - Len(s)]
      BY <1>1, <3>1
    <3> QED BY <1>1, <3>1, <3>2 DEF Range
  <2> QED BY <2>1, <2>2
<1>3. Range(s \o t) \subseteq Range(s) \cup Range(t)
  BY <1>1, <1>2 DEF Range
<1>4. Range(s) \subseteq Range(s \o t)
  BY <1>1 DEF Range
<1>5. Range(t) \subseteq Range(s \o t)
  <2>1. \A i \in 1 .. Len(t) : Len(s) + i \in 1 .. Len(s) + Len(t)
    BY <1>1
  <2> QED BY <1>1, <2>1 DEF Range
<1> QED BY <1>1, <1>3, <1>4, <1>5

(* A tail has no new element.                                               *)
LEMMA RangeTail ==
  ASSUME NEW S, NEW s \in Seq(S), s # <<>>
  PROVE  /\ Tail(s) \in Seq(S) /\ Head(s) \in S
         /\ Range(s) = {Head(s)} \cup Range(Tail(s))
<1>1. /\ Tail(s) \in Seq(S) /\ Head(s) = s[1] /\ Len(s) \in Nat /\ Len(s) >= 1
      /\ Len(Tail(s)) = Len(s) - 1 /\ DOMAIN s = 1 .. Len(s) /\ DOMAIN Tail(s) = 1 .. Len(s) - 1
      /\ \A i \in 1 .. Len(s) - 1 : Tail(s)[i] = s[i + 1]
      /\ Head(s) \in S
  OBVIOUS
<1>2. ASSUME NEW i \in 1 .. Len(s) PROVE s[i] \in {Head(s)} \cup Range(Tail(s))
  <2>1. CASE i = 1
    BY <1>1, <2>1
  <2>2. CASE i # 1
    <3>1. i - 1 \in 1 .. Len(s) - 1 /\ Tail(s)[i - 1] = s[(i - 1) + 1] /\ (i - 1) + 1 = i
      BY <1>1, <2>2
    <3> QED BY <1>1, <3>1 DEF Range
  <2> QED BY <2>1, <2>2
<1>3. Range(s) \subseteq {Head(s)} \cup Range(Tail(s))
  BY <1>1, <1>2 DEF Range
<1>4. Range(Tail(s)) \subseteq Range(s)
  <2>1. \A i \in 1 .. Len(s) - 1 : i + 1 \in 1 .. Len(s)
    BY <1>1
  <2> QED BY <1>1, <2>1 DEF Range
<1>5. Head(s) \in Range(s)
  BY <1>1 DEF Range
<1> QED BY <1>1, <1>3, <1>4, <1>5

(* Sequences of none and of one.                                            *)
LEMMA RangeEnds ==
  /\ \A x \in Said : <<x>> \in Seq(Said) /\ Range(<<x>>) = {x}
  /\ <<>> \in Seq(Said) /\ Range(<<>>) = {}
  /\ \A s \in Seq(Said), x \in Said : Append(s, x) = s \o <<x>>
BY DEF Range

(* What is said in two sequences in a row.                                  *)
LEMMA SaidConcat ==
  \A s, t \in Seq(Said) : s \o t \in Seq(Said) /\ Range(s \o t) = Range(s) \cup Range(t)
BY RangeConcat

(* The socket starts empty.                                                 *)
LEMMA SocketInit == Init => SocketTypes /\ Sending = {}
BY RangeEnds DEF Init, SocketTypes, Sending

(* What the pane adds to the socket, what the server takes, and nothing else. *)
LEMMA SocketStep ==
  ASSUME SocketTypes, [Next]_vars
  PROVE  /\ SocketTypes'
         /\ \/ Published /\ Sending' = Sending \cup (IF Idle THEN {"head"} ELSE {})
                                      \cup (IF pend.kind = "dead" THEN {"dead"} ELSE {})
            \/ (NoRoom \/ Block) /\ Sending' \in {Sending, Sending \cup {"full"}}
            \/ /\ ReadFrame /\ toServer # <<>>
               /\ Sending = Sending' \cup {Head(toServer)}
            \/ ~Published /\ ~ReadFrame /\ Sending' = Sending
<1>1. ASSUME UNCHANGED <<output, toServer>> PROVE SocketTypes' /\ Sending' = Sending
  BY <1>1 DEF SocketTypes, Sending
<1>2. CASE Published
  <2> DEFINE h == IF Idle THEN <<"head">> ELSE <<>>
             H == IF Idle THEN {"head"} ELSE {}
             D == IF pend.kind = "dead" THEN {"dead"} ELSE {}
  <2>1. toServer' = toServer /\ output' = (output \o h) \o Told
    BY <1>2 DEF Published
  <2>2. h \in Seq(Said) /\ Range(h) = H /\ Told \in Seq(Said) /\ Range(Told) = D
    BY RangeEnds DEF Told, Said
  <2>3. output \in Seq(Said) /\ toServer \in Seq(Said)
    BY DEF SocketTypes
  <2> HIDE DEF h, H, D
  <2>4. output \o h \in Seq(Said) /\ Range(output \o h) = Range(output) \cup H
    BY <2>2, <2>3, SaidConcat
  <2>5. output' \in Seq(Said) /\ Range(output') = Range(output \o h) \cup D
    BY <2>1, <2>2, <2>4, SaidConcat
  <2>6. Range(toServer') = Range(toServer)
    BY <2>1
  <2>7. Sending' = Sending \cup H \cup D
    BY <2>4, <2>5, <2>6 DEF Sending
  <2>8. SocketTypes'
    BY <2>1, <2>3, <2>5 DEF SocketTypes
  <2> QED BY <1>2, <2>7, <2>8 DEF H, D
<1>3. CASE NoRoom \/ Block
  <2>1. toServer' = toServer /\ output' \in {output, Append(output, "full")}
    BY <1>3 DEF NoRoom, Block, AnnounceFull, Announce, server
  <2>2. CASE output' = output
    BY <1>1, <1>3, <2>1, <2>2
  <2>3. CASE output' = Append(output, "full")
    <3>1. /\ <<"full">> \in Seq(Said) /\ Range(<<"full">>) = {"full"}
          /\ output' = output \o <<"full">> /\ output \in Seq(Said)
      BY <2>3, RangeEnds DEF SocketTypes, Said
    <3>2. output' \in Seq(Said) /\ Range(output') = Range(output) \cup {"full"}
      BY <3>1, SaidConcat, Zenon
    <3> QED BY <1>3, <2>1, <3>2, Zenon DEF SocketTypes, Sending
  <2> QED BY <2>1, <2>2, <2>3
<1>4. CASE Blocked \/ Flush
  <2>1. toServer' = toServer \o output /\ output' = <<>>
    BY <1>4 DEF Blocked, Flush
  <2>2. SocketTypes' /\ Sending' = Sending
    <3>1. toServer' \in Seq(Said) /\ Range(toServer') = Range(toServer) \cup Range(output)
      BY <2>1, RangeConcat DEF SocketTypes
    <3>2. output' \in Seq(Said) /\ Range(output') = {}
      BY <2>1, RangeEnds
    <3> QED BY <3>1, <3>2, Zenon DEF SocketTypes, Sending
  <2>3. ~Published /\ ~ReadFrame
    BY <1>4 DEF Blocked, Flush, Published, ReadFrame, pane, server
  <2> QED BY <2>2, <2>3
<1>5. CASE ReadFrame
  <2>1. toServer # <<>> /\ toServer' = Tail(toServer) /\ output' = output
    BY <1>5 DEF ReadFrame, pane
  <2>2. /\ toServer' \in Seq(Said) /\ Range(toServer) = {Head(toServer)} \cup Range(toServer')
    BY <2>1, RangeTail DEF SocketTypes
  <2> QED BY <1>5, <2>1, <2>2, Zenon DEF SocketTypes, Sending
<1>6. CASE ~(Published \/ NoRoom \/ Block \/ Blocked \/ Flush \/ ReadFrame)
  <2>1. UNCHANGED <<output, toServer>>
    BY <1>6 DEF Next, PaneStep, ServerStep, vars, pane, ChildExits, Wake, Stop, Route, Routed,
                Settle, Available, ReadPty, Clear, PutMarker, Publish, Dead, ClearDue, Send,
                ReadEnds, ScanLoad, ScanStore, DispatchOutput, Dispatched, Tick
  <2> QED BY <1>1, <1>6, <2>1
<1> QED BY <1>2, <1>3, <1>4, <1>5, <1>6

-----------------------------------------------------------------------------
(* The death is told last.  The end of the pty is read after everything the *)
(* program wrote, and the marker waits for it.                              *)

PtyOver == ptyLeft = 0 /\ child = "exited"

DeathInv ==
  /\ SocketTypes
  /\ "eof" \in flags => PtyOver
  /\ job.t = "dead" \/ pend.kind = "dead" \/ life = "dead" => "eof" \in flags
  /\ died \/ "dead" \in Sending => life = "dead"

(* The program starts alive.                                                *)
LEMMA DeathInit == Init => DeathInv
BY SocketInit DEF Init, DeathInv, Idling, None

(* A program that is over and read stays so.                                *)
LEMMA OverStays ==
  ASSUME PtyOver, RefusalInv, [Next]_vars
  PROVE  PtyOver'
<1>1. ASSUME NEW n \in 0 .. ptyLeft, NEW ended \in BOOLEAN, ReadPty(n, ended) PROVE PtyOver'
  <2>1. ptyLeft' = ptyLeft - n /\ child' = child
    BY <1>1 DEF ReadPty
  <2>2. ptyLeft = 0 /\ n = 0 /\ child = "exited"
    BY DEF PtyOver
  <2> QED BY <2>1, <2>2 DEF PtyOver
<1>2. CASE ~ \E n \in 0 .. ptyLeft, ended \in BOOLEAN : ReadPty(n, ended)
  <2>1. ChildExits \/ UNCHANGED pty
    BY <1>2 DEF Next, PaneStep, ServerStep, vars, Wake, Stop, Route, Routed,
                Settle, Available, NoRoom, Clear, Block, PutMarker, Blocked, Publish, Published,
                Dead, ClearDue, Flush, Send, ReadFrame,
                ReadEnds, ScanLoad, ScanStore, DispatchOutput, Dispatched, Tick
  <2> QED BY <2>1 DEF ChildExits, pty, PtyOver
<1> QED BY <1>1, <1>2

(* Once the end was read it stays read; it is read only at the end.         *)
LEMMA EofStep ==
  ASSUME RefusalInv, [Next]_vars
  PROVE  /\ "eof" \in flags => "eof" \in flags'
         /\ "eof" \in flags' => "eof" \in flags \/ PtyOver'
<1>1. ASSUME NEW n \in 0 .. ptyLeft, NEW ended \in BOOLEAN, ReadPty(n, ended)
      PROVE  /\ "eof" \in flags => "eof" \in flags'
             /\ "eof" \in flags' => "eof" \in flags \/ PtyOver'
  <2>1. /\ flags' = (IF ended THEN flags \cup {"eof"} ELSE flags)
        /\ ptyLeft' = ptyLeft - n /\ child' = child
        /\ ended => PtyEnded \/ (child = "exited" /\ n = ptyLeft)
    BY <1>1 DEF ReadPty
  <2>2. ptyLeft \in Nat /\ n \in Nat /\ n <= ptyLeft
    BY <1>1 DEF RefusalInv, Counts
  <2>3. ended => PtyOver'
    BY <2>1, <2>2 DEF PtyEnded, PtyOver
  <2> QED BY <2>1, <2>3
<1>2. CASE Route
  <2>1. flags' \in {flags \ {"full"}, flags \cup {"stopping"}, flags \cup {"clear"}, flags}
    BY <1>2 DEF Route, FlagsAfter
  <2> QED BY <2>1
<1>3. CASE ChildExits \/ Wake \/ Settle \/ NoRoom \/ Block \/ Clear \/ Blocked
  <2>1. ("eof" \in flags) <=> ("eof" \in flags')
    BY <1>3 DEF ChildExits, Wake, Settle, NoRoom, Block, Clear, Blocked, AnnounceFull
  <2> QED BY <2>1
<1>4. CASE ~(\/ \E n \in 0 .. ptyLeft, ended \in BOOLEAN : ReadPty(n, ended)
             \/ Route \/ ChildExits \/ Wake \/ Settle \/ NoRoom \/ Block \/ Clear \/ Blocked)
  <2>1. flags' = flags
    BY <1>4 DEF Next, PaneStep, ServerStep, vars, pane, Stop, Routed,
                Available, PutMarker, Publish, Published, Dead, ClearDue, Flush, Send, ReadFrame,
                ReadEnds, ScanLoad, ScanStore, DispatchOutput, Dispatched, Tick
  <2> QED BY <2>1
<1> QED BY <1>1, <1>2, <1>3, <1>4

(* Where "dead" comes from: the end of the pty and of the program, then the *)
(* job, then the marker, then the life.                                     *)
LEMMA DeadComes ==
  ASSUME [Next]_vars
  PROVE  /\ job'.t = "dead" => job.t = "dead" \/ "eof" \in flags
         /\ pend'.kind = "dead" => pend.kind = "dead" \/ job.t = "dead"
         /\ life' = "dead" => life = "dead" \/ child = "dead" \/ pend.kind = "dead"
         /\ life = "dead" => life' = "dead"
<1>1. job'.t = "dead" => job.t = "dead" \/ "eof" \in flags
  <2>1. CASE Wake \/ Routed
    BY <2>1 DEF Wake, Routed, Idling
  <2>2. CASE Route
    <3>1. job' = job \/ job'.t \in {"resize", "clear"}
      BY <2>2 DEF Route, Start
    <3> QED BY <3>1
  <2>3. CASE Dead \/ ClearDue
    <3>1. job' = job \/ job'.t = "clear" \/ "eof" \in flags
      BY <2>3 DEF Dead, ClearDue, Start, Died
    <3> QED BY <3>1
  <2>4. CASE ~(Wake \/ Routed \/ Route \/ Dead \/ ClearDue)
    <3>1. job' = job
      BY <2>4 DEF Next, PaneStep, ServerStep, vars, pane, ChildExits, Stop, Settle,
                  Available, NoRoom, Clear, Block, PutMarker, Blocked, ReadPty, Publish,
                  Published, Flush, Send, ReadFrame,
                  ReadEnds, ScanLoad, ScanStore, DispatchOutput, Dispatched, Tick
    <3> QED BY <3>1
  <2> QED BY <2>1, <2>2, <2>3, <2>4
<1>2. pend'.kind = "dead" => pend.kind = "dead" \/ job.t = "dead"
  <2>1. CASE Available \/ Clear \/ PutMarker
    <3>1. pend' = pend \/ pend'.kind \in {"pad", "bytes", job.t}
      BY <2>1 DEF Available, Clear, PutMarker, Write, Filler
    <3> QED BY <3>1
  <2>2. ASSUME NEW n \in 0 .. ptyLeft, NEW ended \in BOOLEAN, ReadPty(n, ended)
        PROVE  pend' = pend \/ pend'.kind = "bytes"
    BY <2>2 DEF ReadPty, Write
  <2>3. CASE ~(\/ \E n \in 0 .. ptyLeft, ended \in BOOLEAN : ReadPty(n, ended)
               \/ Available \/ Clear \/ PutMarker)
    <3>1. pend' = pend
      BY <2>3 DEF Next, PaneStep, ServerStep, vars, pane, ChildExits, Wake, Stop, Route, Routed,
                  Settle, NoRoom, Block, Blocked, Publish, Published, Dead, ClearDue, Flush,
                  Send, ReadFrame, ReadEnds, ScanLoad, ScanStore, DispatchOutput, Dispatched,
                  Tick
    <3> QED BY <3>1
  <2> QED BY <2>1, <2>2, <2>3
<1>3. /\ life' = "dead" => life = "dead" \/ child = "dead" \/ pend.kind = "dead"
      /\ life = "dead" => life' = "dead"
  <2>1. CASE Settle \/ Published
    BY <2>1 DEF Settle, Published
  <2>2. CASE ~(Settle \/ Published)
    <3>1. life' = life
      BY <2>2 DEF Next, PaneStep, ServerStep, vars, pane, ChildExits, Wake, Stop, Route, Routed,
                  Available, NoRoom, Clear, Block, PutMarker, Blocked, ReadPty, Publish, Dead,
                  ClearDue, Flush, Send, ReadFrame, ReadEnds, ScanLoad, ScanStore,
                  DispatchOutput, Dispatched, Tick
    <3> QED BY <3>1
  <2> QED BY <2>1, <2>2
<1> QED BY <1>1, <1>2, <1>3

ChildInv == child \in {"running", "exited"}

(* No step brings the program back.                                         *)
LEMMA ChildStep == ChildInv /\ [Next]_vars => ChildInv'
<1> SUFFICES ASSUME ChildInv, [Next]_vars PROVE ChildInv'
  OBVIOUS
<1>1. child' \in {child, "exited"}
  BY DEF Next, PaneStep, ServerStep, vars, pty, ChildExits, Wake, Stop, Route, Routed,
         Settle, Available, NoRoom, Clear, Block, PutMarker, Blocked, ReadPty, Publish,
         Published, Dead, ClearDue, Flush, Send, ReadFrame, ReadEnds, ScanLoad, ScanStore,
         DispatchOutput, Dispatched, Tick
<1> QED BY <1>1 DEF ChildInv

(* Every step keeps the order of output, marker and dead frame.             *)
LEMMA DeathStep == RefusalInv /\ ChildInv /\ DeathInv /\ [Next]_vars => DeathInv'
<1> SUFFICES ASSUME RefusalInv, ChildInv, DeathInv, [Next]_vars PROVE DeathInv'
  OBVIOUS
<1>1. SocketTypes'
  BY SocketStep DEF DeathInv
<1>2. "eof" \in flags' => PtyOver'
  BY EofStep, OverStays DEF DeathInv
<1>3. job'.t = "dead" \/ pend'.kind = "dead" \/ life' = "dead" => "eof" \in flags'
  BY EofStep, DeadComes DEF DeathInv, ChildInv
<1>4. died' \/ "dead" \in Sending' => life' = "dead"
  <2>1. CASE Published
    <3>1. pend.kind = "dead" => life' = "dead"
      BY <2>1 DEF Published
    <3>2. /\ died' = died
          /\ "dead" \in Sending' => "dead" \in Sending \/ pend.kind = "dead"
      <4>1. died' = died /\ ~ReadFrame /\ ~NoRoom /\ ~Block
        BY <2>1 DEF Published, server, ReadFrame, NoRoom, Block, pane
      <4> QED BY <4>1, SocketStep DEF DeathInv
    <3> QED BY <3>1, <3>2, DeadComes DEF DeathInv
  <2>2. CASE ReadFrame
    <3>1. /\ died' = (died \/ Head(toServer) = "dead") /\ toServer # <<>>
          /\ ~Published /\ ~NoRoom /\ ~Block
      BY <2>2 DEF ReadFrame, pane, Published, NoRoom, Block, server, Announce
    <3>2. Sending = Sending' \cup {Head(toServer)}
      BY <2>2, <3>1, SocketStep DEF DeathInv
    <3> QED BY <3>1, <3>2, DeadComes DEF DeathInv
  <2>3. CASE ~Published /\ ~ReadFrame
    <3>1. "dead" \in Sending' => "dead" \in Sending
      BY <2>3, SocketStep DEF DeathInv
    <3>2. died' = died
      BY <2>3 DEF Next, PaneStep, ServerStep, vars, server, ChildExits, Wake, Stop, Route, Routed,
                  Settle, Available, NoRoom, Clear, Block, PutMarker, Blocked, ReadPty, Publish,
                  Dead, ClearDue, Flush, Send, ReadEnds, ScanLoad, ScanStore,
                  DispatchOutput, Dispatched, Tick
    <3> QED BY <3>1, <3>2, DeadComes DEF DeathInv
  <2> QED BY <2>1, <2>2, <2>3
<1> QED BY <1>1, <1>2, <1>3, <1>4 DEF DeathInv

(* The Dead marker and the dead frame come after the last byte of output,   *)
(* and the frame after the marker (Pane::dead, Out::published).             *)
THEOREM DeathIsLast == Spec => []DeadIsLast
<1>1. Init => ChildInv
  BY DEF Init, ChildInv
<1>2. DeathInv => DeadIsLast
  <2> SUFFICES ASSUME DeathInv PROVE DeadIsLast
    OBVIOUS
  <2>1. Range(output \o toServer) = Sending
    BY SaidConcat DEF DeathInv, SocketTypes, Sending
  <2> QED BY <2>1 DEF DeathInv, DeadIsLast, PtyOver
<1> QED BY <1>1, <1>2, RefusalInit, RefusalStep, ChildStep, DeathInit, DeathStep, PTL DEF Spec

-----------------------------------------------------------------------------
(* A server that will not look at the ring again has seen all of it.  It    *)
(* stops its ticker only after a scan that found nothing new; the head it   *)
(* saw is then the one it stored in Read, so that the next commit finds it  *)
(* there and says so.                                                       *)

Loading == {"full", "output", "tick"}

Quiet ==
  /\ open /\ outputs = 0 /\ {"head", "full"} \cap Sending = {}
  /\ (~ticker /\ scan = "none") \/ (scan = "tick store" /\ ~busy)

QuietInv ==
  /\ SocketTypes
  /\ ticker \in BOOLEAN /\ busy \in BOOLEAN /\ outputs \in Nat
  /\ scan \in {"none", "full store", "output store", "tick store"} \cup Loading
  /\ IF scan \in {"none"} \cup Loading THEN read = observed ELSE seen = observed
  /\ scan \in {"output", "output store", "tick", "tick store"} => ticker
  /\ Quiet =>
       /\ read = observed
       /\ observed = head \/ (pc = "published" /\ observed = pend.at)

(* Which step stores what each kind of scan has loaded.                     *)
LEMMA StoringIs ==
  /\ Storing["full"] = "full store" /\ Storing["output"] = "output store"
  /\ Storing["tick"] = "tick store"
  /\ Range(Storing) = {"full store", "output store", "tick store"}
<1>1. /\ Storing["full"] = "full store" /\ Storing["output"] = "output store"
      /\ Storing["tick"] = "tick store" /\ DOMAIN Storing = {"full", "output", "tick"}
  BY DEF Storing
<1> QED BY <1>1 DEF Range

(* At the start there is nothing to observe.                                *)
LEMMA QuietInit == Init => QuietInv
<1> SUFFICES ASSUME Init PROVE QuietInv
  OBVIOUS
<1>1. /\ head = 0 /\ read = 0 /\ seen = 0 /\ observed = 0 /\ outputs = 0
      /\ scan = "none" /\ busy \in BOOLEAN /\ ticker \in BOOLEAN
  BY DEF Init
<1>2. SocketTypes
  BY SocketInit
<1> QED BY <1>1, <1>2 DEF QuietInv, Loading

(* A step that leaves the server's view of the ring alone.                  *)
LEMMA QuietKept ==
  ASSUME QuietInv, SocketTypes', open' => open, {"head", "full"} \cap Sending \subseteq Sending',
         UNCHANGED <<head, read, seen, observed, busy, ticker, scan, outputs>>,
         UNCHANGED <<pc, pend>> \/ pc # "published"
  PROVE  QuietInv'
BY DEF QuietInv, Quiet

(* Every step keeps QuietInv.                                               *)
LEMMA QuietStep == RefusalInv /\ QuietInv /\ [Next]_vars => QuietInv'
<1> SUFFICES ASSUME RefusalInv, QuietInv, [Next]_vars PROVE QuietInv'
  OBVIOUS
<1>0. SocketTypes /\ SocketTypes'
  BY SocketStep DEF QuietInv
<1>1. CASE Published
  <2>1. /\ UNCHANGED <<head, read, seen, observed, busy, ticker, scan, outputs, open, pend>>
        /\ pc = "published"
    BY <1>1 DEF Published, ring, server
  <2>2. Sending' = Sending \cup (IF Idle THEN {"head"} ELSE {})
                    \cup (IF pend.kind = "dead" THEN {"dead"} ELSE {})
    <3>1. ~ReadFrame /\ ~NoRoom /\ ~Block
      BY <1>1 DEF Published, server, ReadFrame, NoRoom, Block, pane
    <3> QED BY <1>0, <1>1, <3>1, SocketStep
  <2>3. CASE read = pend.at
    <3>1. "head" \in Sending'
      BY <2>2, <2>3 DEF Idle
    <3> QED BY <1>0, <2>1, <3>1 DEF QuietInv, Quiet
  <2>4. CASE read # pend.at
    BY <1>0, <2>1, <2>2, <2>4 DEF QuietInv, Quiet
  <2> QED BY <2>3, <2>4
<1>2. CASE Publish
  <2>1. /\ pc = "publish" /\ pc' = "published" /\ pend.at = head
        /\ UNCHANGED <<read, seen, observed, busy, ticker, scan, outputs, open, pend>>
        /\ ~Published /\ ~ReadFrame /\ ~NoRoom /\ ~Block
    BY <1>2 DEF Publish, server, RefusalInv, Committing, Published, ReadFrame, NoRoom, Block, pane
  <2>2. Sending' = Sending
    BY <1>0, <2>1, SocketStep
  <2> QED BY <1>0, <2>1, <2>2 DEF QuietInv, Quiet
<1>3. CASE NoRoom \/ Block
  <2>1. /\ UNCHANGED <<head, read, seen, observed, busy, ticker, scan, outputs, open>>
        /\ pc = "use" /\ ~Published /\ ~ReadFrame
    BY <1>3 DEF NoRoom, Block, ring, server, Published, ReadFrame, pane
  <2>2. Sending \subseteq Sending'
    BY <1>0, <2>1, SocketStep
  <2> QED BY <1>0, <2>1, <2>2, QuietKept
<1>4. CASE ReadFrame
  <2>1. /\ open /\ scan = "none" /\ toServer # <<>>
        /\ outputs' = outputs + (IF Head(toServer) = "head" THEN 1 ELSE 0)
        /\ scan' = IF Head(toServer) = "full" THEN "full" ELSE "none"
        /\ UNCHANGED <<head, read, seen, observed, busy, ticker, open, pc, pend>>
        /\ ~Published /\ ~NoRoom /\ ~Block
    BY <1>4 DEF ReadFrame, ring, pane, Published, NoRoom, Block, server
  <2>2. Sending = Sending' \cup {Head(toServer)}
    BY <1>0, <1>4, <2>1, SocketStep
  <2>3. outputs \in Nat
    BY DEF QuietInv
  <2>4. CASE Head(toServer) = "head"
    BY <1>0, <2>1, <2>3, <2>4 DEF QuietInv, Quiet, Loading
  <2>5. CASE Head(toServer) = "full"
    BY <1>0, <2>1, <2>3, <2>5 DEF QuietInv, Quiet, Loading
  <2>6. CASE Head(toServer) \notin {"head", "full"}
    <3>1. {"head", "full"} \cap Sending \subseteq Sending'
      BY <2>2, <2>6
    <3>2. outputs' = outputs /\ scan' = scan
      BY <2>1, <2>3, <2>6
    <3> QED BY <1>0, <2>1, <3>1, <3>2, QuietKept
  <2> QED BY <2>4, <2>5, <2>6
<1>5. CASE ~(Published \/ Publish \/ NoRoom \/ Block \/ ReadFrame)
  <2>1. Sending' = Sending
    BY <1>0, <1>5, SocketStep
  <2>2. CASE ScanLoad
    <3>1. /\ scan \in Loading /\ scan' = Storing[scan]
          /\ seen' = head /\ observed' = head /\ busy' = (head # observed)
          /\ UNCHANGED <<head, read, ticker, outputs, open, pc, pend>>
      BY <2>2 DEF ScanLoad, ring, pane, Loading
    <3>2. read = observed
      BY <3>1 DEF QuietInv
    <3>3. /\ scan' \in {"full store", "output store", "tick store"}
          /\ scan' = "tick store" => scan = "tick"
          /\ scan' = "output store" => scan = "output"
      BY <3>1, StoringIs DEF Loading
    <3> QED BY <1>0, <2>1, <3>1, <3>2, <3>3 DEF QuietInv, Quiet, Loading
  <2>3. CASE ScanStore
    <3>1. /\ scan \in {"full store", "output store", "tick store"} /\ scan' = "none"
          /\ read' = seen
          /\ UNCHANGED <<head, seen, observed, busy, open, pc, pend>>
      BY <2>3, StoringIs DEF ScanStore, pane
    <3>2. outputs' = outputs + (IF scan = "full store" THEN 1 ELSE 0)
      BY <2>3, StoringIs DEF ScanStore
    <3>3. ticker' = (IF scan = "tick store" THEN busy ELSE ticker)
      BY <2>3, StoringIs DEF ScanStore, Ticking
    <3>4. seen = observed
      BY <3>1 DEF QuietInv, Loading
    <3>5. outputs \in Nat
      BY DEF QuietInv
    <3>6. /\ outputs' \in Nat
          /\ scan = "full store" => outputs' # 0
          /\ scan # "full store" => outputs' = outputs
      <4>1. CASE scan = "full store"
        <5>1. outputs' = outputs + 1
          BY <3>2, <4>1
        <5>2. outputs' \in Nat /\ outputs' # 0
          BY <3>5, <5>1
        <5> QED BY <4>1, <5>2
      <4>2. CASE scan # "full store"
        <5>1. outputs' = outputs + 0
          BY <3>2, <4>2
        <5>2. outputs' \in Nat /\ outputs' = outputs
          BY <3>5, <5>1
        <5> QED BY <4>2, <5>2
      <4> QED BY <4>1, <4>2
    <3>7. ticker \in BOOLEAN /\ busy \in BOOLEAN /\ ticker' \in BOOLEAN
      BY <3>3 DEF QuietInv
    <3>8. Quiet' => Quiet
      <4>1. CASE scan = "tick store"
        <5>1. ticker' = busy
          BY <3>3, <4>1
        <5> QED BY <2>1, <3>1, <3>6, <4>1, <5>1, Zenon DEF Quiet
      <4>2. CASE scan = "output store"
        <5>1. ticker' = ticker /\ ticker
          BY <3>3, <4>2 DEF QuietInv
        <5> QED BY <3>1, <5>1, Zenon DEF Quiet
      <4>3. CASE scan = "full store"
        BY <3>6, <4>3 DEF Quiet
      <4> QED BY <3>1, <4>1, <4>2, <4>3
    <3> QED BY <1>0, <3>1, <3>4, <3>6, <3>7, <3>8 DEF QuietInv
  <2>4. CASE DispatchOutput
    <3>1. /\ scan = "none" /\ outputs > 0 /\ outputs' = outputs - 1 /\ ticker' = TRUE
          /\ scan' \in {"output", "none"}
          /\ UNCHANGED <<head, read, seen, observed, busy, open, pc, pend>>
      BY <2>4 DEF DispatchOutput, ring, pane
    <3>2. ~Quiet'
      BY <3>1 DEF Quiet
    <3>3. outputs' \in Nat /\ ticker' \in BOOLEAN /\ read = observed /\ busy \in BOOLEAN
      BY <3>1 DEF QuietInv
    <3> QED BY <1>0, <3>1, <3>2, <3>3 DEF QuietInv, Loading
  <2>5. CASE Tick
    <3>1. /\ scan = "none" /\ ticker /\ scan' = "tick"
          /\ UNCHANGED <<head, read, seen, observed, busy, ticker, outputs, open, pc, pend>>
      BY <2>5 DEF Tick, ring, pane
    <3> QED BY <1>0, <3>1 DEF QuietInv, Quiet, Loading
  <2>6. CASE ~(ScanLoad \/ ScanStore \/ DispatchOutput \/ Tick)
    <3>1. UNCHANGED <<head, read, seen, observed, busy, ticker, scan, outputs>>
      BY <1>5, <2>6 DEF Next, PaneStep, ServerStep, vars, ring, server, ChildExits, Wake, Stop,
         Route, Routed, Settle, Available, Clear, PutMarker, Blocked, ReadPty, Dead,
         ClearDue, Flush, Send, ReadEnds, Dispatched
    <3>2. (\E t \in Requests : Send(t)) \/ open' = open
      BY <1>5, <2>6 DEF Next, PaneStep, ServerStep, vars, server, ChildExits, Wake, Stop,
         Route, Routed, Settle, Available, Clear, PutMarker, Blocked, ReadPty, Dead,
         ClearDue, Flush, ReadEnds, Dispatched
    <3>3. open' => open
      BY <3>2 DEF Send
    <3>4. UNCHANGED <<pc, pend>> \/ pc # "published"
      BY <1>5, <2>6 DEF Next, PaneStep, ServerStep, vars, pane, ChildExits, Wake, Stop,
         Route, Routed, Settle, Available, Clear, PutMarker, Blocked, ReadPty, Dead,
         ClearDue, Flush, Send, ReadEnds, Dispatched
    <3> QED BY <1>0, <2>1, <3>1, <3>3, <3>4, QuietKept
  <2> QED BY <2>2, <2>3, <2>4, <2>5, <2>6
<1> QED BY <1>1, <1>2, <1>3, <1>4, <1>5

(* When no timer, frame or event will make the server scan, it has observed *)
(* every head: no commit stays unnoticed, however its two accesses and the  *)
(* two ends of a scan interleave (Commit::Idle, Delivery::scan, tick).      *)
THEOREM NoneUnnoticed == Spec => []QuietIsCaughtUp
<1>1. QuietInv => QuietIsCaughtUp
  <2> SUFFICES ASSUME QuietInv PROVE QuietIsCaughtUp
    OBVIOUS
  <2>1. Range(output \o toServer) = Sending
    BY SaidConcat DEF QuietInv, SocketTypes, Sending
  <2> QED BY <2>1 DEF QuietInv, Quiet, QuietIsCaughtUp
<1> QED BY <1>1, RefusalInit, RefusalStep, QuietInit, QuietStep, PTL DEF Spec

-----------------------------------------------------------------------------
(* Fulls and requests are not lost.  Both are counted: what is in flight of *)
(* a full frame and its answer is one exactly while the pane believes the   *)
(* ring is full, and each number of a request is at one place, whichever    *)
(* queues the turn and its nested wait move it through.                     *)

Asked  == [t : Requests, req : Nat \ {0}]
Frames == Asked \cup {TailFrame}
Later  == {f \in Asked : f.t # "exit"}

FrameTypes ==
  /\ toPane \in Seq(Frames) /\ input \in Seq(Frames) /\ deferred \in Seq(Later)
  /\ applied \in Seq(Nat \ {0}) /\ sent \in Nat
  /\ job.req \in Nat /\ (job.t = "resize" => job.req # 0)

(* Where the turn is while it has a job.                                    *)
Holding == {"avail", "use", "blocked", "publish", "published"}

(* Frames are read in a turn that comes to them; what a commit goes on with *)
(* is what its job says, but for the pads.                                  *)
Turn ==
  /\ input # <<>> => pc \in {"route", "stopped"} \/ (pc \in Holding /\ job.next = "route")
  /\ job.t \in {"pty", "urgent", "clear", "resize", "dead"}
  /\ job.t = "resize" => job.next = "route"
  /\ pc = "settle" => job.t \in {"pty", "urgent"}
  /\ pc \in {"publish", "published"} =>
       \/ pend.kind = "pad" /\ pend.then \in {"use", "avail"}
       \/ pend.kind = "bytes" /\ pend.then = job.next /\ job.t \in {"pty", "urgent", "clear"}
       \/ pend.kind = job.t /\ pend.kind \in {"resize", "dead"} /\ pend.then = job.next

(* The turn starts idle, with empty queues.                                 *)
LEMMA TurnInit == Init => Turn /\ FrameTypes
BY DEF Init, Turn, FrameTypes, Idling, Holding

(* A step inside of the pane's turn that reads and requests nothing.        *)
LEMMA TurnGoesOn ==
  ASSUME Turn, job' = job, input' = input, pc' # "settle",
         \/ pc' = pc /\ pend' = pend
         \/ pc' \in Holding \ {"publish", "published"} /\ pc \in Holding
         \/ pc' = job.next /\ pc \in Holding /\ job.next \in Nexts
         \/ pc' = "stopped"
  PROVE  Turn'
BY DEF Turn, Holding, Nexts

(* Every step of the pane, the server and the program keeps Turn.           *)
LEMMA TurnStep == RefusalInv /\ Turn /\ [Next]_vars => Turn'
<1> SUFFICES ASSUME RefusalInv, Turn, [Next]_vars PROVE Turn'
  OBVIOUS
<1>0. job.next \in Nexts
  BY DEF RefusalInv, Jobs
<1>1. CASE Wake
  BY <1>1 DEF Wake, Turn, Idling, Holding
<1>2. CASE Stop \/ Block
  BY <1>2, TurnGoesOn DEF Stop, Block, Holding
<1>3. CASE Route
  <2>1. \/ pc = "route" /\ UNCHANGED <<pc, job>>
        \/ \E req : Start("resize", ResizeLen, req, "route")
        \/ Start("clear", ClearLen, 0, "route")
    BY <1>3 DEF Route
  <2> QED BY <2>1 DEF Turn, Start, Holding
<1>4. CASE Routed
  BY <1>4 DEF Routed, Turn, Idling, Holding
<1>5. CASE Settle
  BY <1>5 DEF Settle, Turn, Holding
<1>6. CASE Available
  <2>1. /\ job' = job /\ input' = input /\ pc = "avail"
        /\ \/ pc' = "use"
           \/ pc' = "publish" /\ pend'.kind = "pad" /\ pend'.then = "use"
    BY <1>6 DEF Available, Write
  <2> QED BY <2>1 DEF Turn, Holding
<1>7. CASE NoRoom
  <2>1. job' = job /\ input' = input /\ pc = "use" /\ pc' = job.next
    BY <1>7 DEF NoRoom
  <2> QED BY <1>0, <2>1, TurnGoesOn DEF Holding, Nexts
<1>8. ASSUME NEW n \in 0 .. ptyLeft, NEW ended \in BOOLEAN, ReadPty(n, ended) PROVE Turn'
  <2>1. /\ job' = job /\ input' = input /\ pc = "use" /\ job.t \in {"pty", "urgent"}
        /\ \/ pc' = job.next
           \/ pc' = "publish" /\ pend'.kind = "bytes" /\ pend'.then = job.next
    BY <1>8 DEF ReadPty, Write
  <2>2. CASE pc' = job.next
    BY <1>0, <2>1, <2>2, TurnGoesOn DEF Holding, Nexts
  <2>3. CASE pc' = "publish" /\ pend'.kind = "bytes" /\ pend'.then = job.next
    BY <2>1, <2>3 DEF Turn, Holding
  <2> QED BY <2>1, <2>2, <2>3
<1>9. CASE Clear
  <2>1. /\ job' = job /\ input' = input /\ pc = "use" /\ pc' = "publish" /\ job.t = "clear"
        /\ \/ pend'.kind = "bytes" /\ pend'.then = job.next
           \/ pend'.kind = "pad" /\ pend'.then = "avail"
    BY <1>9 DEF Clear, Filler, Write
  <2> QED BY <2>1 DEF Turn, Holding
<1>10. CASE PutMarker
  <2>1. /\ job' = job /\ input' = input /\ pc = "use" /\ job.t \in {"resize", "dead"}
        /\ \/ pc' = "stopped"
           \/ pc' = "publish" /\ pend'.kind = job.t /\ pend'.then = job.next
    BY <1>10 DEF PutMarker, Write
  <2> QED BY <2>1 DEF Turn, Holding
<1>11. CASE Blocked
  <2>1. job' = job /\ pc = "blocked" /\ pc' = "avail" /\ input' \in {input, <<>>}
    BY <1>11 DEF Blocked
  <2> QED BY <2>1 DEF Turn, Holding
<1>12. CASE Publish
  BY <1>12 DEF Publish, Turn, Holding
<1>13. CASE Published
  <2>1. job' = job /\ input' = input /\ pc = "published" /\ pc' = pend.then
    BY <1>13 DEF Published
  <2>2. pend.then \in {"use", "avail", job.next}
    BY <2>1 DEF Turn
  <2> QED BY <1>0, <2>1, <2>2, TurnGoesOn DEF Holding, Nexts
<1>14. CASE Dead \/ ClearDue
  <2>1. /\ input' = input /\ pc \in {"dead", "clear"} /\ pc' \in {"clear", "flush", "avail"}
        /\ \/ job' = job
           \/ job'.t \in {"dead", "clear"}
    BY <1>14 DEF Dead, ClearDue, Start
  <2>2. input = <<>>
    BY <2>1 DEF Turn, Holding
  <2> QED BY <2>1, <2>2 DEF Turn, Holding
<1>15. CASE Flush
  BY <1>15 DEF Flush, Turn, Holding
<1>16. CASE ~(\/ \E n \in 0 .. ptyLeft, ended \in BOOLEAN : ReadPty(n, ended)
              \/ Wake \/ Stop \/ Block \/ Route \/ Routed \/ Settle \/ Available \/ NoRoom \/ Clear
              \/ PutMarker \/ Blocked \/ Publish \/ Published \/ Dead \/ ClearDue \/ Flush)
  <2>1. UNCHANGED <<pc, job, pend, input>>
    BY <1>16 DEF Next, PaneStep, ServerStep, vars, pane, ChildExits, Send, ReadFrame,
                 ReadEnds, ScanLoad, ScanStore, DispatchOutput, Dispatched, Tick
  <2> QED BY <2>1 DEF Turn
<1> QED BY <1>1, <1>2, <1>3, <1>4, <1>5, <1>6, <1>7, <1>8, <1>9, <1>10, <1>11, <1>12, <1>13,
           <1>14, <1>15, <1>16

(* Range of the community modules and Elems of the lemmas are one set.      *)
LEMMA RangeIs ==
  ASSUME NEW X, NEW s \in Seq(X)
  PROVE  Range(s) = Elems(s)
BY DEF Range, Elems

(* What wait_space goes through is all that arrived with what control() has *)
(* not come to, and what it keeps is the part that may wait.                *)
KeptFrames == {f \in Range(Nested) : f.t \notin Acting}

(* The queues before and after a turn of wait_space.                        *)
LEMMA BlockedMoves ==
  ASSUME FrameTypes, Blocked
  PROVE  /\ Nested \in Seq(Frames) /\ Range(Nested) = Elems(Nested)
         /\ toPane' = <<>> /\ input' \in Seq(Frames)
         /\ \A S : /\ {Hits(input', S), Hits(Nested, S), Hits(input, S), Hits(toPane, S)} \subseteq Nat
                   /\ Hits(toPane', S) = 0
                   /\ Hits(input', S) + Hits(Nested, S) = Hits(input, S) + Hits(toPane, S)
         /\ deferred' = deferred \o Only(Nested, KeptFrames)
         /\ Only(Nested, KeptFrames) \in Seq(Later)
<1>1. /\ toPane' = <<>> /\ input' = (IF toPane = <<>> THEN input ELSE <<>>)
      /\ deferred' = deferred \o Only(Nested, KeptFrames)
  BY DEF Blocked, KeptFrames
<1>2. toPane \in Seq(Frames) /\ input \in Seq(Frames) /\ <<>> \in Seq(Frames)
  BY DEF FrameTypes
<1>3. Nested \in Seq(Frames) /\ input' \in Seq(Frames)
  <2>1. input \o toPane \in Seq(Frames)
    BY <1>2
  <2> QED BY <1>1, <1>2, <2>1 DEF Nested
<1>4. Range(Nested) = Elems(Nested)
  BY <1>3, RangeIs
<1>5. ASSUME NEW S
      PROVE  /\ {Hits(input', S), Hits(Nested, S), Hits(input, S), Hits(toPane, S)} \subseteq Nat
             /\ Hits(toPane', S) = 0
             /\ Hits(input', S) + Hits(Nested, S) = Hits(input, S) + Hits(toPane, S)
  <2>1. {Hits(input', S), Hits(Nested, S), Hits(input, S), Hits(toPane, S)} \subseteq Nat
    BY <1>2, <1>3, HitsType
  <2>2. Hits(<<>>, S) = 0
    BY HitsOne
  <2>3. CASE toPane = <<>>
    <3>1. Nested = <<>> /\ input' = input
      BY <1>1, <2>3 DEF Nested
    <3> QED BY <1>1, <2>1, <2>2, <2>3, <3>1
  <2>4. CASE toPane # <<>>
    <3>1. Nested = input \o toPane /\ input' = <<>>
      BY <1>1, <2>4 DEF Nested
    <3>2. Hits(input \o toPane, S) = Hits(input, S) + Hits(toPane, S)
      BY <1>2, HitsConcat
    <3> QED BY <1>1, <2>1, <2>2, <3>1, <3>2
  <2> QED BY <2>3, <2>4
<1>6. Only(Nested, KeptFrames) \in Seq(Later)
  <2>1. Only(Nested, KeptFrames) \in Seq(Frames)
    BY <1>3, ElemsOnly
  <2>2. Elems(Only(Nested, KeptFrames)) = Elems(Nested) \cap KeptFrames
    BY <1>3, ElemsOnly
  <2>3. Elems(Nested) \subseteq Frames
    BY <1>3 DEF Elems
  <2>4. Elems(Only(Nested, KeptFrames)) \subseteq Later
    BY <2>2, <2>3 DEF KeptFrames, Frames, Later, TailFrame, Acting, Asked
  <2> QED BY <2>1, <2>4, Narrowed
<1> QED BY <1>1, <1>3, <1>4, <1>5, <1>6

(* No step puts a frame of another kind into a queue of the pane.           *)
LEMMA FrameTypesStep == FrameTypes /\ Turn /\ [Next]_vars => FrameTypes'
<1> SUFFICES ASSUME FrameTypes, Turn, [Next]_vars PROVE FrameTypes'
  OBVIOUS
<1>0. /\ <<>> \in Seq(Frames) /\ <<>> \in Seq(Later) /\ Seq(Later) \subseteq Seq(Frames)
      /\ TailFrame \in Frames
      /\ \A f \in Frames : f.req \in Nat /\ (f.t # "tail" => f.req # 0)
  <2>1. Later \subseteq Frames
    BY DEF Later, Frames
  <2> QED BY <2>1 DEF Frames, TailFrame, Asked
<1>1. CASE Wake
  BY <1>0, <1>1 DEF Wake, FrameTypes, Idling, load
<1>2. CASE Route
  <2>1. /\ input # <<>> /\ input' = Tail(input) /\ UNCHANGED <<toPane, deferred, sent>>
        /\ \/ applied' = applied
           \/ Head(input).t # "tail" /\ applied' = Append(applied, Head(input).req)
        /\ \/ job' = job
           \/ Head(input).t # "tail" /\ Start("resize", ResizeLen, Head(input).req, "route")
           \/ Start("clear", ClearLen, 0, "route")
    BY <1>2 DEF Route, load
  <2>2. Head(input) \in Frames /\ input' \in Seq(Frames)
    BY <2>1 DEF FrameTypes
  <2>3. Head(input).req \in Nat /\ (Head(input).t # "tail" => Head(input).req # 0)
    BY <1>0, <2>2
  <2>4. job'.req \in Nat /\ (job'.t = "resize" => job'.req # 0)
    BY <2>1, <2>3 DEF FrameTypes, Start
  <2>5. applied' \in Seq(Nat \ {0})
    BY <2>1, <2>3, Appended DEF FrameTypes
  <2> QED BY <2>1, <2>2, <2>4, <2>5 DEF FrameTypes
<1>3. CASE Routed
  <2>1. /\ UNCHANGED <<toPane, applied, sent>>
        /\ \/ input' = deferred /\ deferred' = <<>> /\ job' = job
           \/ job'.t # "resize" /\ job'.req = 0 /\ UNCHANGED <<input, deferred>>
    BY <1>3 DEF Routed, Idling, load
  <2>2. /\ input' \in Seq(Frames) /\ deferred' \in Seq(Later)
        /\ job'.req \in Nat /\ (job'.t = "resize" => job'.req # 0)
    <3>1. CASE input' = deferred /\ deferred' = <<>> /\ job' = job
      BY <1>0, <3>1 DEF FrameTypes
    <3>2. CASE job'.t # "resize" /\ job'.req = 0 /\ UNCHANGED <<input, deferred>>
      BY <3>2 DEF FrameTypes
    <3> QED BY <2>1, <3>1, <3>2
  <2> QED BY <2>1, <2>2 DEF FrameTypes
<1>4. CASE Blocked
  <2>1. UNCHANGED <<applied, sent, job>>
    BY <1>4 DEF Blocked, load
  <2>2. /\ toPane' = <<>> /\ input' \in Seq(Frames) /\ deferred' = deferred \o Only(Nested, KeptFrames)
        /\ Only(Nested, KeptFrames) \in Seq(Later)
    BY <1>4, BlockedMoves
  <2>3. deferred' \in Seq(Later)
    BY <2>2 DEF FrameTypes
  <2> QED BY <1>0, <2>1, <2>2, <2>3 DEF FrameTypes
<1>5. CASE Published
  <2>1. /\ \/ applied' = applied
           \/ job.t = "resize" /\ applied' = Append(applied, job.req)
        /\ UNCHANGED <<toPane, input, deferred, sent, job>>
    BY <1>5 DEF Published, load, Turn
  <2>2. applied' \in Seq(Nat \ {0})
    BY <2>1, Appended DEF FrameTypes
  <2> QED BY <2>1, <2>2 DEF FrameTypes
<1>6. CASE Dead \/ ClearDue
  <2>1. /\ UNCHANGED <<toPane, input, deferred, applied, sent>>
        /\ job' = job \/ (job'.t # "resize" /\ job'.req = 0)
    BY <1>6 DEF Dead, ClearDue, Start, load
  <2> QED BY <2>1 DEF FrameTypes
<1>7. ASSUME NEW t \in Requests, Send(t) PROVE FrameTypes'
  <2>1. /\ toPane' = Append(toPane, [t |-> t, req |-> sent + 1]) /\ sent' = sent + 1
        /\ UNCHANGED <<input, deferred, applied, job>>
    BY <1>7 DEF Send, pane
  <2>2. [t |-> t, req |-> sent + 1] \in Frames
    BY DEF FrameTypes, Frames, Asked
  <2> QED BY <2>1, <2>2 DEF FrameTypes
<1>8. CASE ScanStore
  <2>1. /\ toPane' \in {toPane, Append(toPane, TailFrame)}
        /\ UNCHANGED <<input, deferred, applied, sent, job>>
    BY <1>8 DEF ScanStore, pane, load, TailFrame
  <2>2. toPane' \in Seq(Frames)
    BY <1>0, <2>1, Appended DEF FrameTypes
  <2> QED BY <2>1, <2>2 DEF FrameTypes
<1>9. CASE ~(\/ Wake \/ Route \/ Routed \/ Blocked \/ Published \/ Dead \/ ClearDue \/ ScanStore
             \/ \E t \in Requests : Send(t))
  <2>1. UNCHANGED <<toPane, input, deferred, applied, sent, job>>
    BY <1>9 DEF Next, PaneStep, ServerStep, vars, pane, load, ChildExits, Stop, Settle, Available,
                NoRoom, Clear, Block, PutMarker, ReadPty, Publish, Flush, ReadFrame, ReadEnds,
                ScanLoad, DispatchOutput, Dispatched, Tick
  <2> QED BY <2>1 DEF FrameTypes
<1> QED BY <1>1, <1>2, <1>3, <1>4, <1>5, <1>6, <1>7, <1>8, <1>9

(* One question about room is under way exactly while the pane believes the *)
(* ring is full.                                                            *)
Fulls == {"full"}
Tails == {TailFrame}

Asking == IF scan \in {"full", "full store"} THEN 1 ELSE 0

FullInv ==
  Hits(output, Fulls) + Hits(toServer, Fulls) + Hits(toPane, Tails) + Hits(input, Tails) + Asking
  = IF "full" \in flags THEN 1 ELSE 0

(* What the equation of the fulls adds up is natural numbers.               *)
LEMMA HitsAre ==
  ASSUME SocketTypes, FrameTypes
  PROVE  /\ {Hits(output, Fulls), Hits(toServer, Fulls), Hits(toPane, Tails), Hits(input, Tails)} \subseteq Nat
         /\ Asking \in {0, 1}
<1>1. /\ output \in Seq(Said) /\ toServer \in Seq(Said)
      /\ toPane \in Seq(Frames) /\ input \in Seq(Frames)
  BY DEF SocketTypes, FrameTypes
<1>2. Asking \in {0, 1}
  BY DEF Asking
<1> QED BY <1>1, <1>2, HitsType

(* At the start nothing is full and nothing asked.                          *)
LEMMA FullInit == Init => FullInv
BY HitsOne DEF Init, FullInv, Asking

(* A step that moves no such frame.                                         *)
LEMMA FullKept ==
  ASSUME FullInv, UNCHANGED <<toPane, input, output, toServer>>, Asking' = Asking,
         "full" \in flags' <=> "full" \in flags
  PROVE  FullInv'
BY DEF FullInv

(* The nested poll takes every answer that has come, and clears full.       *)
LEMMA FullBlocked ==
  ASSUME SocketTypes, FrameTypes, FullInv, Blocked
  PROVE  FullInv'
<1>1. /\ toServer' = toServer \o output /\ output' = <<>> /\ scan' = scan
      /\ "full" \in flags' <=> "full" \in flags /\ ~ \E f \in Range(Nested) : f.t = "tail"
  BY DEF Blocked, server, Acting
<1>2. Hits(toServer', Fulls) = Hits(toServer, Fulls) + Hits(output, Fulls) /\ Hits(output', Fulls) = 0
  <2>1. Hits(toServer \o output, Fulls) = Hits(toServer, Fulls) + Hits(output, Fulls)
    BY HitsConcat DEF SocketTypes
  <2> QED BY <1>1, <2>1, HitsOne
<1>3. /\ Nested \in Seq(Frames) /\ Range(Nested) = Elems(Nested)
      /\ {Hits(input', Tails), Hits(Nested, Tails), Hits(input, Tails), Hits(toPane, Tails)} \subseteq Nat
      /\ Hits(toPane', Tails) = 0
      /\ Hits(input', Tails) + Hits(Nested, Tails) = Hits(input, Tails) + Hits(toPane, Tails)
  BY BlockedMoves
<1>4. Hits(Nested, Tails) = 0 <=> ~ \E f \in Range(Nested) : f.t = "tail"
  <2>1. Hits(Nested, Tails) = 0 <=> Elems(Nested) \cap Tails = {}
    BY <1>3, HitsType
  <2>2. \A f \in Elems(Nested) : f.t = "tail" <=> f \in Tails
    <3>1. Elems(Nested) \subseteq Frames
      BY <1>3 DEF Elems
    <3>2. \A f \in Frames : f.t = "tail" <=> f \in Tails
      BY DEF Frames, Asked, Requests, Tails, TailFrame
    <3> QED BY <3>1, <3>2
  <2> QED BY <1>3, <2>1, <2>2
<1>5. Asking' = Asking
  BY <1>1 DEF Asking
<1>6. /\ {Hits(output, Fulls), Hits(toServer, Fulls)} \subseteq Nat /\ Asking \in {0, 1}
  BY HitsAre
<1>7. CASE Hits(Nested, Tails) = 0
  <2>1. "full" \in flags' <=> "full" \in flags
    BY <1>1, <1>4, <1>7
  <2> QED BY <1>2, <1>3, <1>5, <1>6, <1>7, <2>1 DEF FullInv
<1>8. CASE Hits(Nested, Tails) # 0
  <2>1. "full" \notin flags'
    BY <1>1, <1>4, <1>8
  <2> DEFINE o == Hits(output, Fulls)
             s == Hits(toServer, Fulls)
             p == Hits(toPane, Tails)
             i == Hits(input, Tails)
             i1 == Hits(input', Tails)
             k == Hits(Nested, Tails)
             flag == IF "full" \in flags THEN 1 ELSE 0
  <2>2. /\ {o, s, p, i, i1, k} \subseteq Nat /\ Asking \in {0, 1} /\ flag \in {0, 1}
        /\ o + s + p + i + Asking = flag /\ i1 + k = i + p /\ k # 0
    BY <1>3, <1>6, <1>8 DEF FullInv
  <2> HIDE DEF o, s, p, i, i1, k, flag
  <2>3. 0 + (s + o) + 0 + i1 + Asking = 0
    BY <2>2
  <2> QED BY <1>2, <1>3, <1>5, <2>1, <2>3 DEF FullInv, o, s, i1
<1> QED BY <1>7, <1>8

(* One question goes from said to asked to answered, and never splits.      *)
LEMMA FullStep ==
  ASSUME SocketTypes, FrameTypes, Turn, QuietInv, FullInv, [Next]_vars
  PROVE  FullInv'
<1>0. /\ {Hits(output, Fulls), Hits(toServer, Fulls), Hits(toPane, Tails), Hits(input, Tails)} \subseteq Nat
      /\ Asking \in {0, 1}
  BY HitsAre
<1>1. CASE Wake
  <2>1. /\ input = <<>> /\ input' = toPane /\ toPane' = <<>> /\ UNCHANGED <<output, toServer, scan>>
        /\ "full" \in flags' <=> "full" \in flags
    BY <1>1 DEF Wake, Turn, Holding, server
  <2>2. Hits(input', Tails) = Hits(toPane, Tails) /\ Hits(toPane', Tails) = 0 /\ Hits(input, Tails) = 0
    BY <2>1, HitsOne
  <2>3. Asking' = Asking
    BY <2>1 DEF Asking
  <2> QED BY <1>0, <2>1, <2>2, <2>3 DEF FullInv
<1>2. CASE Route
  <2>1. /\ input # <<>> /\ input' = Tail(input) /\ UNCHANGED <<output, toServer, toPane, scan>>
        /\ flags' = FlagsAfter(Head(input))
    BY <1>2 DEF Route, server
  <2>2. Head(input) \in Frames /\ input' \in Seq(Frames)
    BY <2>1 DEF FrameTypes
  <2>3. /\ Hits(input, Tails) = Hits(input', Tails) + (IF Head(input) \in Tails THEN 1 ELSE 0)
        /\ Hits(input', Tails) \in Nat
    BY <2>1, <2>2, HitsEnds, HitsType DEF FrameTypes
  <2>4. Asking' = Asking
    BY <2>1 DEF Asking
  <2>5. CASE Head(input) \in Tails
    <3>1. "full" \notin flags'
      BY <2>1, <2>5 DEF Tails, TailFrame, FlagsAfter
    <3> QED BY <1>0, <2>1, <2>3, <2>4, <2>5, <3>1 DEF FullInv
  <2>6. CASE Head(input) \notin Tails
    <3>1. Head(input).t # "tail"
      BY <2>2, <2>6 DEF Tails, Frames, Asked, Requests
    <3>2. "full" \in flags' <=> "full" \in flags
      BY <2>1, <3>1 DEF FlagsAfter
    <3> QED BY <1>0, <2>1, <2>3, <2>4, <2>6, <3>2 DEF FullInv
  <2> QED BY <2>5, <2>6
<1>3. CASE Routed
  <2>1. /\ input = <<>> /\ UNCHANGED <<output, toServer, toPane, scan, flags>>
        /\ input' \in {input, deferred}
    BY <1>3 DEF Routed, server
  <2>2. Hits(input, Tails) = 0 /\ Hits(deferred, Tails) = 0
    <3>1. Elems(deferred) \cap Tails = {}
      BY DEF FrameTypes, Elems, Tails, TailFrame, Later, Asked
    <3>2. Hits(deferred, Tails) = 0 <=> Elems(deferred) \cap Tails = {}
      BY HitsType DEF FrameTypes
    <3> QED BY <2>1, <3>1, <3>2, HitsOne
  <2>3. Hits(input', Tails) = Hits(input, Tails)
    BY <2>1, <2>2
  <2>4. Asking' = Asking
    BY <2>1 DEF Asking
  <2> QED BY <1>0, <2>1, <2>3, <2>4 DEF FullInv
<1>4. CASE NoRoom \/ Block
  <2>1. /\ UNCHANGED <<toServer, toPane, input, scan>> /\ flags' = flags \cup {"full"}
        /\ output' = IF "full" \in flags THEN output ELSE Append(output, "full")
    BY <1>4 DEF NoRoom, Block, AnnounceFull, Announce, server
  <2>2. Asking' = Asking
    BY <2>1 DEF Asking
  <2>3. CASE "full" \in flags
    BY <2>1, <2>2, <2>3 DEF FullInv
  <2>4. CASE "full" \notin flags
    <3>1. Hits(output', Fulls) = Hits(output, Fulls) + 1
      <4>1. "full" \in Said /\ "full" \in Fulls
        BY DEF Said, Fulls
      <4>2. output' = Append(output, "full")
        BY <2>1, <2>4
      <4> QED BY <4>1, <4>2, HitsEnds DEF SocketTypes
    <3> QED BY <1>0, <2>1, <2>2, <2>4, <3>1 DEF FullInv
  <2> QED BY <2>3, <2>4
<1>5. CASE Blocked
  BY <1>5, FullBlocked
<1>6. CASE Published
  <2>1. /\ UNCHANGED <<toServer, toPane, input, scan, flags>>
        /\ output' = (output \o (IF Idle THEN <<"head">> ELSE <<>>)) \o Told
    BY <1>6 DEF Published, server
  <2> DEFINE h == IF Idle THEN <<"head">> ELSE <<>>
  <2>2. h \in Seq(Said) /\ Told \in Seq(Said) /\ Hits(h, Fulls) = 0 /\ Hits(Told, Fulls) = 0
    <3>1. h \in {<<"head">>, <<>>} /\ Told \in {<<"dead">>, <<>>}
      BY DEF Told
    <3>2. \A s \in {<<"head">>, <<"dead">>, <<>>} : s \in Seq(Said) /\ Hits(s, Fulls) = 0
      BY HitsOne, RangeEnds DEF Said, Fulls
    <3> HIDE DEF h
    <3> QED BY <3>1, <3>2
  <2>0. output' = (output \o h) \o Told
    BY <2>1
  <2> HIDE DEF h
  <2>3. output \o h \in Seq(Said) /\ Hits(output \o h, Fulls) = Hits(output, Fulls) + Hits(h, Fulls)
    <3>1. output \in Seq(Said)
      BY DEF SocketTypes
    <3> QED BY <2>2, <3>1, HitsConcat, SaidConcat
  <2>4. Hits(output', Fulls) = Hits(output \o h, Fulls) + Hits(Told, Fulls)
    BY <2>0, <2>2, <2>3, HitsConcat
  <2>5. Hits(output', Fulls) = Hits(output, Fulls)
    BY <1>0, <2>2, <2>3, <2>4
  <2>6. Asking' = Asking
    BY <2>1 DEF Asking
  <2> QED BY <2>1, <2>5, <2>6 DEF FullInv
<1>7. CASE Flush
  <2>1. /\ UNCHANGED <<toPane, input, scan, flags>> /\ toServer' = toServer \o output /\ output' = <<>>
    BY <1>7 DEF Flush, server
  <2>2. Hits(toServer', Fulls) = Hits(toServer, Fulls) + Hits(output, Fulls) /\ Hits(output', Fulls) = 0
    <3>1. Hits(toServer \o output, Fulls) = Hits(toServer, Fulls) + Hits(output, Fulls)
      BY HitsConcat DEF SocketTypes
    <3> QED BY <2>1, <3>1, HitsOne
  <2>3. Asking' = Asking
    BY <2>1 DEF Asking
  <2> QED BY <1>0, <2>1, <2>2, <2>3 DEF FullInv
<1>8. ASSUME NEW t \in Requests, Send(t) PROVE FullInv'
  <2>1. /\ toPane' = Append(toPane, [t |-> t, req |-> sent + 1])
        /\ UNCHANGED <<toServer, output, input, scan, flags>>
    BY <1>8 DEF Send, pane
  <2>2. [t |-> t, req |-> sent + 1] \in Frames /\ [t |-> t, req |-> sent + 1] \notin Tails
    BY DEF FrameTypes, Frames, Asked, Tails, TailFrame, Requests
  <2>3. Hits(toPane', Tails) = Hits(toPane, Tails) + 0
    BY <2>1, <2>2, HitsEnds DEF FrameTypes
  <2>4. Asking' = Asking
    BY <2>1 DEF Asking
  <2> QED BY <1>0, <2>1, <2>3, <2>4 DEF FullInv
<1>9. CASE ReadFrame
  <2>1. /\ scan = "none" /\ toServer # <<>> /\ toServer' = Tail(toServer)
        /\ scan' = (IF Head(toServer) = "full" THEN "full" ELSE "none")
        /\ UNCHANGED <<output, toPane, input, flags>>
    BY <1>9 DEF ReadFrame, pane
  <2>2. /\ Hits(toServer, Fulls) = Hits(toServer', Fulls) + (IF Head(toServer) \in Fulls THEN 1 ELSE 0)
        /\ Hits(toServer', Fulls) \in Nat
    <3>1. toServer' \in Seq(Said)
      BY <2>1 DEF SocketTypes
    <3>2. Hits(toServer, Fulls) = Hits(Tail(toServer), Fulls) + (IF Head(toServer) \in Fulls THEN 1 ELSE 0)
      BY <2>1, HitsEnds DEF SocketTypes
    <3> QED BY <2>1, <3>1, <3>2, HitsType
  <2>3. Asking = 0 /\ Asking' = IF Head(toServer) \in Fulls THEN 1 ELSE 0
    BY <2>1 DEF Asking, Fulls
  <2> QED BY <1>0, <2>1, <2>2, <2>3 DEF FullInv
<1>10. CASE ScanLoad
  <2>1. /\ scan \in Loading /\ scan' = Storing[scan] /\ UNCHANGED <<toServer, output, toPane, input, flags>>
    BY <1>10 DEF ScanLoad, pane, Loading
  <2>2. Asking' = Asking
    BY <2>1, StoringIs DEF Asking, Loading
  <2> QED BY <2>1, <2>2, FullKept
<1>11. CASE ScanStore
  <2>1. /\ scan \in {"full store", "output store", "tick store"} /\ scan' = "none"
        /\ toPane' = (IF scan = "full store" THEN Append(toPane, TailFrame) ELSE toPane)
        /\ UNCHANGED <<toServer, output, input, flags>>
    BY <1>11, StoringIs DEF ScanStore, Answers, TailFrame, pane
  <2>2. Hits(toPane', Tails) = Hits(toPane, Tails) + IF scan = "full store" THEN 1 ELSE 0
    <3>1. TailFrame \in Frames /\ TailFrame \in Tails
      BY DEF Frames, Tails
    <3>2. Hits(Append(toPane, TailFrame), Tails) = Hits(toPane, Tails) + 1
      BY <3>1, HitsEnds DEF FrameTypes
    <3>3. CASE scan = "full store"
      BY <2>1, <3>2, <3>3
    <3>4. CASE scan # "full store"
      <4>1. toPane' = toPane
        BY <2>1, <3>4
      <4>2. Hits(toPane', Tails) = Hits(toPane, Tails)
        BY <4>1
      <4>3. Hits(toPane, Tails) \in Nat
        BY <1>0
      <4>4. (IF scan = "full store" THEN 1 ELSE 0) = 0
        BY <3>4
      <4>5. Hits(toPane, Tails) = Hits(toPane, Tails) + 0
        BY <4>3
      <4> QED BY <4>2, <4>4, <4>5
    <3> QED BY <3>3, <3>4
  <2>3. Asking' = 0 /\ Asking = IF scan = "full store" THEN 1 ELSE 0
    BY <2>1 DEF Asking
  <2>4. Hits(toPane', Tails) = Hits(toPane, Tails) + Asking
    BY <2>2, <2>3
  <2>5. /\ Hits(output', Fulls) = Hits(output, Fulls) /\ Hits(toServer', Fulls) = Hits(toServer, Fulls)
        /\ Hits(input', Tails) = Hits(input, Tails) /\ ("full" \in flags' <=> "full" \in flags)
    BY <2>1
  <2>6. Hits(output, Fulls) + Hits(toServer, Fulls) + (Hits(toPane, Tails) + Asking) + Hits(input, Tails) + 0
        = Hits(output, Fulls) + Hits(toServer, Fulls) + Hits(toPane, Tails) + Hits(input, Tails) + Asking
    BY <1>0
  <2> QED BY <2>3, <2>4, <2>5, <2>6 DEF FullInv
<1>12. CASE DispatchOutput \/ Tick
  <2>1. /\ UNCHANGED <<toServer, output, toPane, input, flags>>
        /\ scan = "none" /\ scan' \in {"none", "output", "tick"}
    BY <1>12 DEF DispatchOutput, Tick, pane
  <2>2. Asking' = Asking
    BY <2>1 DEF Asking
  <2> QED BY <2>1, <2>2, FullKept
<1>13. CASE ~(\/ Wake \/ Route \/ Routed \/ NoRoom \/ Block \/ Blocked \/ Published \/ Flush
              \/ ReadFrame \/ ScanLoad \/ ScanStore \/ DispatchOutput \/ Tick
              \/ \E t \in Requests : Send(t))
  <2>1. UNCHANGED <<toPane, input, output, toServer, scan>>
    BY <1>13 DEF Next, PaneStep, ServerStep, vars, pane, server, ChildExits, Stop, Settle, Available,
                 Clear, PutMarker, ReadPty, Publish, Dead, ClearDue, ReadEnds, Dispatched
  <2>2. "full" \in flags' <=> "full" \in flags
    BY <1>13 DEF Next, PaneStep, ServerStep, vars, pane, server, ChildExits, Stop, Settle, Available,
                 Clear, PutMarker, ReadPty, Publish, Dead, ClearDue, ReadEnds, Dispatched
  <2>3. Asking' = Asking
    BY <2>1 DEF Asking
  <2> QED BY <2>1, <2>2, <2>3, FullKept
<1> QED BY <1>1, <1>2, <1>3, <1>4, <1>5, <1>6, <1>7, <1>8, <1>9, <1>10, <1>11, <1>12, <1>13
           DEF Next, PaneStep, ServerStep

(* Each request is at one place while the pane runs: applied, on the socket,*)
(* read, deferred, or the resize that waits for room.                       *)
Numbered(n) == {f \in Frames : f.req = n}

Held(n) == IF job.t = "resize" /\ pc \in Holding /\ job.req = n THEN 1 ELSE 0

Owed(n) ==
  Hits(applied, {n}) + Hits(input, Numbered(n)) + Hits(deferred, Numbered(n))
    + Hits(toPane, Numbered(n)) + Held(n)

Running == pc # "stopped" /\ "stopping" \notin flags

OnceEach == Running => \A n \in Nat \ {0} : Owed(n) = IF n <= sent THEN 1 ELSE 0

(* What the equation of the requests adds up is natural numbers.            *)
LEMMA OwedTypes ==
  ASSUME FrameTypes, NEW n
  PROVE  /\ Hits(applied, {n}) \in Nat /\ Hits(input, Numbered(n)) \in Nat
         /\ Hits(deferred, Numbered(n)) \in Nat /\ Hits(toPane, Numbered(n)) \in Nat
         /\ Held(n) \in {0, 1}
<1>1. /\ applied \in Seq(Nat \ {0}) /\ input \in Seq(Frames) /\ deferred \in Seq(Later)
      /\ toPane \in Seq(Frames)
  BY DEF FrameTypes
<1>2. Held(n) \in {0, 1}
  BY DEF Held
<1> QED BY <1>1, <1>2, HitsType

(* At the start nothing was sent.                                           *)
LEMMA OnceInit == Init => OnceEach
<1> SUFFICES ASSUME Init, NEW n \in Nat \ {0} PROVE Owed(n) = IF n <= sent THEN 1 ELSE 0
  BY DEF OnceEach
<1>1. /\ applied = <<>> /\ input = <<>> /\ deferred = <<>> /\ toPane = <<>> /\ sent = 0
      /\ pc = "poll"
  BY DEF Init
<1>2. Owed(n) = 0
  BY <1>1, HitsOne DEF Owed, Held, Holding
<1> QED BY <1>1, <1>2

(* A pane that was told to stop goes on stopping.                           *)
LEMMA StopStays == [Next]_vars /\ Running' => Running
<1> SUFFICES ASSUME [Next]_vars, ~Running PROVE ~Running'
  OBVIOUS
<1>1. ASSUME NEW n \in 0 .. ptyLeft, NEW ended \in BOOLEAN, ReadPty(n, ended) PROVE ~Running'
  BY <1>1 DEF ReadPty, Running
<1>2. CASE Route
  <2>1. /\ flags' \in {flags \ {"full"}, flags \cup {"stopping"}, flags \cup {"clear"}, flags}
        /\ pc = "route"
    BY <1>2 DEF Route, FlagsAfter
  <2> QED BY <2>1 DEF Running
<1>3. CASE ChildExits \/ Wake \/ Settle \/ NoRoom \/ Block \/ Clear \/ Blocked
  BY <1>3 DEF ChildExits, Wake, Settle, NoRoom, Block, Clear, Blocked, AnnounceFull, Running
<1>4. CASE Stop \/ Routed \/ Available \/ PutMarker \/ Publish \/ Published \/ Dead \/ ClearDue \/ Flush
  BY <1>4 DEF Stop, Routed, Available, PutMarker, Publish, Published, Dead, ClearDue, Flush, Running
<1>5. CASE ~(\/ \E n \in 0 .. ptyLeft, ended \in BOOLEAN : ReadPty(n, ended)
             \/ Route \/ ChildExits \/ Wake \/ Settle \/ NoRoom \/ Block \/ Clear \/ Blocked
             \/ Stop \/ Routed \/ Available \/ PutMarker \/ Publish \/ Published \/ Dead
             \/ ClearDue \/ Flush)
  <2>1. flags' = flags /\ pc' = pc
    BY <1>5 DEF Next, PaneStep, ServerStep, vars, pane, Send, ReadFrame,
                ReadEnds, ScanLoad, ScanStore, DispatchOutput, Dispatched, Tick
  <2> QED BY <2>1 DEF Running
<1> QED BY <1>1, <1>2, <1>3, <1>4, <1>5

(* A step that changes the place of no request.                             *)
LEMMA OnceKept ==
  ASSUME OnceEach, Running' => Running, UNCHANGED <<applied, input, deferred, toPane, sent>>,
         \/ UNCHANGED <<job, pc>>
         \/ pc \in Holding /\ pc' \in Holding \cup {"stopped"} /\ job' = job
         \/ (job.t # "resize" \/ pc \notin Holding) /\ (job'.t # "resize" \/ pc' \notin Holding)
  PROVE  OnceEach'
<1> SUFFICES ASSUME Running', NEW n \in Nat \ {0} PROVE (Owed(n) = IF n <= sent THEN 1 ELSE 0)'
  BY DEF OnceEach
<1>1. Held(n)' = Held(n)
  BY DEF Held, Running
<1>2. Owed(n) = IF n <= sent THEN 1 ELSE 0
  BY DEF OnceEach
<1> QED BY <1>1, <1>2 DEF Owed

(* One that moves requests from place to place.                             *)
LEMMA OnceMoved ==
  ASSUME OnceEach, Running' => Running, sent' = sent,
         Running' => \A n \in Nat \ {0} : Owed(n)' = Owed(n)
  PROVE  OnceEach'
BY DEF OnceEach

(* control() applies the first frame, or holds it as a resize.              *)
LEMMA OnceRoute ==
  ASSUME FrameTypes, OnceEach, Running' => Running, Route
  PROVE  OnceEach'
<1>1. /\ pc = "route" /\ input # <<>> /\ input' = Tail(input)
      /\ UNCHANGED <<deferred, toPane, sent>>
  BY DEF Route, load
<1> DEFINE f == Head(input)
<1>2. f \in Frames /\ input' \in Seq(Frames)
  BY <1>1 DEF FrameTypes
<1>3. /\ f.t = "tail" => f.req = 0
      /\ applied' = IF f.t \in {"tail", "resize"} THEN applied ELSE Append(applied, f.req)
      /\ f.t = "resize" => job'.t = "resize" /\ job'.req = f.req /\ pc' = "avail"
      /\ f.t # "resize" => job'.t # "resize" \/ pc' = "route"
  <2>1. f.t = "tail" => f.req = 0
    BY <1>2 DEF Frames, Asked, Requests, TailFrame
  <2>2. CASE f.t = "resize"
    BY <2>2 DEF Route, Start
  <2>3. CASE f.t = "clear"
    BY <2>3 DEF Route, Start
  <2>4. CASE f.t \notin {"resize", "clear"}
    BY <2>1, <2>4 DEF Route
  <2> QED BY <2>1, <2>2, <2>3, <2>4
<1> SUFFICES ASSUME NEW n \in Nat \ {0} PROVE Owed(n)' = Owed(n)
  BY <1>1, OnceMoved
<1> HIDE DEF f
<1> DEFINE one == IF f.req = n THEN 1 ELSE 0
<1>4. Hits(input, Numbered(n)) = Hits(input', Numbered(n)) + one /\ Hits(input', Numbered(n)) \in Nat
  <2>1. Hits(input, Numbered(n)) = Hits(Tail(input), Numbered(n)) + (IF f \in Numbered(n) THEN 1 ELSE 0)
    BY <1>1, HitsEnds DEF FrameTypes, f
  <2>2. f \in Numbered(n) <=> f.req = n
    BY <1>2 DEF Numbered
  <2>3. Hits(input', Numbered(n)) \in Nat
    BY <1>2, HitsType
  <2> QED BY <1>1, <2>1, <2>2, <2>3
<1>5. Hits(applied', {n}) + Held(n)' = Hits(applied, {n}) + Held(n) + one
  <2>1. Held(n) = 0
    BY <1>1 DEF Held, Holding
  <2>2. Hits(applied, {n}) \in Nat
    BY OwedTypes
  <2>3. CASE f.t = "resize"
    <3>1. Held(n)' = one
      BY <1>3, <2>3 DEF Held, Holding
    <3>2. applied' = applied
      BY <1>3, <2>3
    <3>3. one \in {0, 1}
      OBVIOUS
    <3> HIDE DEF one
    <3> QED BY <2>1, <2>2, <3>1, <3>2, <3>3
  <2>4. CASE f.t # "resize"
    <3>1. Held(n)' = 0
      BY <1>3, <2>4 DEF Held, Holding
    <3>2. CASE f.t = "tail"
      <4>1. applied' = applied /\ one = 0
        BY <1>3, <3>2
      <4> HIDE DEF one
      <4> QED BY <2>1, <2>2, <3>1, <4>1
    <3>3. CASE f.t # "tail"
      <4>1. applied' = Append(applied, f.req) /\ f.req \in Nat
        BY <1>2, <1>3, <2>4, <3>3 DEF Frames, Asked, TailFrame
      <4>2. Hits(Append(applied, f.req), {n}) = Hits(applied, {n}) + (IF f.req \in {n} THEN 1 ELSE 0)
        <5>1. applied \in Seq(Nat \ {0}) /\ f.req \in Nat \ {0}
          BY <1>2, <3>3 DEF FrameTypes, Frames, Asked, TailFrame
        <5> QED BY <5>1, HitsEnds
      <4>3. Hits(applied', {n}) = Hits(applied, {n}) + one
        BY <4>1, <4>2
      <4>4. one \in {0, 1}
        OBVIOUS
      <4> HIDE DEF one
      <4> QED BY <2>1, <2>2, <3>1, <4>3, <4>4
    <3> QED BY <3>2, <3>3
  <2> QED BY <2>3, <2>4
<1>6. /\ Hits(deferred', Numbered(n)) = Hits(deferred, Numbered(n))
      /\ Hits(toPane', Numbered(n)) = Hits(toPane, Numbered(n))
  BY <1>1
<1>7. one \in {0, 1} /\ Held(n)' \in {0, 1} /\ Hits(applied', {n}) \in Nat
  <2>1. applied' \in Seq(Nat \ {0})
    <3>1. f.t # "tail" => f.req \in Nat \ {0}
      BY <1>2 DEF Frames, Asked, TailFrame
    <3>2. applied' = applied \/ (f.t # "tail" /\ applied' = Append(applied, f.req))
      BY <1>3
    <3> QED BY <3>1, <3>2, Appended DEF FrameTypes
  <2> QED BY <2>1, HitsType DEF Held
<1> HIDE DEF one
<1> QED BY <1>4, <1>5, <1>6, <1>7, OwedTypes DEF Owed

(* wait_space applies, defers or drops each frame it reads, once.           *)
LEMMA OnceBlocked ==
  ASSUME FrameTypes, OnceEach, Running' => Running, Blocked
  PROVE  OnceEach'
<1>1. /\ UNCHANGED <<job, sent, applied>> /\ pc = "blocked" /\ pc' = "avail"
  BY DEF Blocked, load
<1> SUFFICES ASSUME Running', NEW n \in Nat \ {0} PROVE Owed(n)' = Owed(n)
  BY <1>1, OnceMoved
<1>2. /\ Nested \in Seq(Frames) /\ Range(Nested) = Elems(Nested)
      /\ deferred' = deferred \o Only(Nested, KeptFrames)
      /\ Only(Nested, KeptFrames) \in Seq(Later)
  BY BlockedMoves
<1>3. Hits(Only(Nested, KeptFrames), Numbered(n)) = Hits(Nested, Numbered(n))
  <2>1. Hits(Only(Nested, KeptFrames), Numbered(n)) = Hits(Nested, Numbered(n) \cap KeptFrames)
    BY <1>2, HitsOnly
  <2>2. \A f \in Elems(Nested) : f.t # "exit"
    BY <1>2 DEF Blocked, Acting, Running
  <2>3. \A f \in Elems(Nested) : f \in Numbered(n) <=> f \in Numbered(n) \cap KeptFrames
    <3>1. ASSUME NEW f \in Elems(Nested), f \in Numbered(n) PROVE f \in KeptFrames
      <4>1. f \in Frames /\ f.req # 0
        BY <3>1 DEF Numbered
      <4>2. f.t # "tail"
        BY <4>1 DEF Frames, Asked, Requests, TailFrame
      <4> QED BY <1>2, <2>2, <4>2 DEF KeptFrames, Acting
    <3> QED BY <3>1
  <2> QED BY <2>1, <2>3, HitsSame
<1>4. Hits(deferred', Numbered(n)) = Hits(deferred, Numbered(n)) + Hits(Nested, Numbered(n))
  <2>1. Hits(deferred \o Only(Nested, KeptFrames), Numbered(n))
        = Hits(deferred, Numbered(n)) + Hits(Only(Nested, KeptFrames), Numbered(n))
    BY <1>2, HitsConcat DEF FrameTypes
  <2> QED BY <1>2, <1>3, <2>1
<1>5. /\ {Hits(input', Numbered(n)), Hits(Nested, Numbered(n)), Hits(input, Numbered(n)),
          Hits(toPane, Numbered(n))} \subseteq Nat
      /\ Hits(toPane', Numbered(n)) = 0
      /\ Hits(input', Numbered(n)) + Hits(Nested, Numbered(n))
         = Hits(input, Numbered(n)) + Hits(toPane, Numbered(n))
  BY BlockedMoves
<1>6. Held(n)' = Held(n) /\ Hits(applied', {n}) = Hits(applied, {n})
  BY <1>1 DEF Held, Holding
<1> QED BY <1>4, <1>5, <1>6, OwedTypes DEF Owed

(* Every step carries each request to one place.                            *)
LEMMA OnceStep ==
  ASSUME RefusalInv, FrameTypes, Turn, QuietInv, OnceEach, [Next]_vars
  PROVE  OnceEach'
<1>0. Running' => Running
  BY StopStays
<1>1. CASE Wake
  <2>1. /\ input = <<>> /\ input' = toPane /\ toPane' = <<>> /\ UNCHANGED <<deferred, applied, sent>>
        /\ pc \notin Holding /\ pc' \notin Holding
    BY <1>1 DEF Wake, Turn, Holding, load
  <2>2. ASSUME NEW n \in Nat \ {0} PROVE Owed(n)' = Owed(n)
    <3>1. Held(n)' = 0 /\ Held(n) = 0
      BY <2>1 DEF Held
    <3>2. /\ Hits(input', Numbered(n)) = Hits(toPane, Numbered(n))
          /\ Hits(toPane', Numbered(n)) = 0 /\ Hits(input, Numbered(n)) = 0
      BY <2>1, HitsOne
    <3>3. /\ Hits(deferred', Numbered(n)) = Hits(deferred, Numbered(n))
          /\ Hits(applied', {n}) = Hits(applied, {n})
      BY <2>1
    <3> QED BY <3>1, <3>2, <3>3, OwedTypes DEF Owed
  <2> QED BY <1>0, <2>1, <2>2, OnceMoved
<1>2. CASE Route
  BY <1>0, <1>2, OnceRoute
<1>3. CASE Routed
  <2>1. CASE deferred # <<>>
    <3>1. /\ input = <<>> /\ input' = deferred /\ deferred' = <<>> /\ UNCHANGED <<toPane, applied, sent>>
          /\ pc \notin Holding /\ pc' \notin Holding
      BY <1>3, <2>1 DEF Routed, Holding, load
    <3>2. ASSUME NEW n \in Nat \ {0} PROVE Owed(n)' = Owed(n)
      <4>1. Held(n)' = 0 /\ Held(n) = 0
        BY <3>1 DEF Held
      <4>2. /\ Hits(input', Numbered(n)) = Hits(deferred, Numbered(n))
            /\ Hits(deferred', Numbered(n)) = 0 /\ Hits(input, Numbered(n)) = 0
        BY <3>1, HitsOne
      <4>3. /\ Hits(toPane', Numbered(n)) = Hits(toPane, Numbered(n))
            /\ Hits(applied', {n}) = Hits(applied, {n})
        BY <3>1
      <4> QED BY <4>1, <4>2, <4>3, OwedTypes DEF Owed
    <3> QED BY <1>0, <3>1, <3>2, OnceMoved
  <2>2. CASE deferred = <<>>
    <3>1. UNCHANGED <<input, deferred, toPane, applied, sent>> /\ pc \notin Holding /\ pc' \notin Holding
      BY <1>3, <2>2 DEF Routed, Holding, load
    <3> QED BY <1>0, <3>1, OnceKept
  <2> QED BY <2>1, <2>2
<1>4. CASE NoRoom \/ Clear \/ Settle
  <2>1. UNCHANGED <<input, deferred, toPane, applied, sent, job>> /\ job.t # "resize"
    BY <1>4 DEF NoRoom, Clear, Settle, Turn, load
  <2> QED BY <1>0, <2>1, OnceKept
<1>5. ASSUME NEW n \in 0 .. ptyLeft, NEW ended \in BOOLEAN, ReadPty(n, ended) PROVE OnceEach'
  <2>1. UNCHANGED <<input, deferred, toPane, applied, sent, job>> /\ job.t # "resize"
    BY <1>5 DEF ReadPty, load
  <2> QED BY <1>0, <2>1, OnceKept
<1>6. CASE Available \/ Block \/ PutMarker \/ Publish
  <2>1. /\ UNCHANGED <<input, deferred, toPane, applied, sent, job>>
        /\ pc \in Holding /\ pc' \in Holding \cup {"stopped"}
    BY <1>6 DEF Available, Block, PutMarker, Publish, Write, Holding, load
  <2> QED BY <1>0, <2>1, OnceKept
<1>7. CASE Blocked
  BY <1>0, <1>7, OnceBlocked
<1>8. CASE Published
  <2>1. /\ pc = "published" /\ pc' = pend.then /\ UNCHANGED <<input, deferred, toPane, sent, job>>
        /\ applied' = IF pend.kind = "resize" THEN Append(applied, job.req) ELSE applied
    BY <1>8 DEF Published, load
  <2>2. CASE pend.kind = "resize"
    <3>1. job.t = "resize" /\ pc' = "route" /\ applied' = Append(applied, job.req)
      BY <2>1, <2>2 DEF Turn
    <3>2. ASSUME NEW n \in Nat \ {0} PROVE Owed(n)' = Owed(n)
      <4>1. Held(n)' = 0 /\ Held(n) = IF job.req \in {n} THEN 1 ELSE 0
        BY <2>1, <3>1 DEF Held, Holding
      <4>2. Hits(applied', {n}) = Hits(applied, {n}) + IF job.req \in {n} THEN 1 ELSE 0
        <5>1. applied \in Seq(Nat \ {0}) /\ job.req \in Nat \ {0}
          BY <3>1 DEF FrameTypes
        <5> QED BY <3>1, <5>1, HitsEnds
      <4>3. /\ Hits(toPane', Numbered(n)) = Hits(toPane, Numbered(n))
            /\ Hits(input', Numbered(n)) = Hits(input, Numbered(n))
            /\ Hits(deferred', Numbered(n)) = Hits(deferred, Numbered(n))
        BY <2>1
      <4>4. Hits(applied', {n}) = Hits(applied, {n}) + Held(n)
        BY <4>1, <4>2
      <4> QED BY <4>1, <4>3, <4>4, OwedTypes DEF Owed
    <3> QED BY <1>0, <2>1, <3>2, OnceMoved
  <2>3. CASE pend.kind # "resize"
    <3>1. job.t # "resize" \/ pc' \in Holding
      BY <2>1, <2>3 DEF Turn, Holding
    <3>2. applied' = applied /\ pc \in Holding
      BY <2>1, <2>3 DEF Holding
    <3> QED BY <1>0, <2>1, <3>1, <3>2, OnceKept
  <2> QED BY <2>2, <2>3
<1>9. CASE Dead \/ ClearDue
  <2>1. /\ UNCHANGED <<input, deferred, toPane, applied, sent>> /\ pc \notin Holding
        /\ job'.t # "resize" \/ pc' \notin Holding
    BY <1>9 DEF Dead, ClearDue, Start, Holding, load
  <2> QED BY <1>0, <2>1, OnceKept
<1>10. CASE Stop \/ Flush
  <2>1. /\ UNCHANGED <<input, deferred, toPane, applied, sent>>
        /\ pc \notin Holding /\ pc' \notin Holding
    BY <1>10 DEF Stop, Flush, Holding, load
  <2> QED BY <1>0, <2>1, OnceKept
<1>11. ASSUME NEW t \in Requests, Send(t) PROVE OnceEach'
  <2>1. /\ toPane' = Append(toPane, [t |-> t, req |-> sent + 1]) /\ sent' = sent + 1
        /\ UNCHANGED <<input, deferred, applied, pc, job, flags>>
    BY <1>11 DEF Send, pane
  <2>2. sent \in Nat /\ [t |-> t, req |-> sent + 1] \in Frames
    BY DEF FrameTypes, Frames, Asked
  <2> SUFFICES ASSUME Running', NEW n \in Nat \ {0} PROVE (Owed(n) = IF n <= sent THEN 1 ELSE 0)'
    BY DEF OnceEach
  <2>3. Owed(n) = IF n <= sent THEN 1 ELSE 0
    BY <1>0 DEF OnceEach
  <2>4. Hits(toPane', Numbered(n)) = Hits(toPane, Numbered(n)) + IF sent + 1 = n THEN 1 ELSE 0
    <3>1. Hits(toPane', Numbered(n)) = Hits(toPane, Numbered(n))
             + IF [t |-> t, req |-> sent + 1] \in Numbered(n) THEN 1 ELSE 0
      BY <2>1, <2>2, HitsEnds DEF FrameTypes
    <3>2. [t |-> t, req |-> sent + 1] \in Numbered(n) <=> sent + 1 = n
      BY <2>2 DEF Numbered
    <3> QED BY <3>1, <3>2
  <2>5. /\ Hits(applied', {n}) = Hits(applied, {n}) /\ Held(n)' = Held(n)
        /\ Hits(input', Numbered(n)) = Hits(input, Numbered(n))
        /\ Hits(deferred', Numbered(n)) = Hits(deferred, Numbered(n))
    BY <2>1 DEF Held
  <2>6. Owed(n)' = Owed(n) + IF sent + 1 = n THEN 1 ELSE 0
    BY <2>4, <2>5, OwedTypes DEF Owed
  <2> QED BY <2>1, <2>2, <2>3, <2>6
<1>12. CASE ScanStore
  <2>1. /\ toPane' \in {toPane, Append(toPane, TailFrame)}
        /\ UNCHANGED <<input, deferred, applied, sent, job, pc>>
    BY <1>12 DEF ScanStore, pane, load, TailFrame
  <2>2. ASSUME NEW n \in Nat \ {0} PROVE Owed(n)' = Owed(n)
    <3>1. TailFrame \in Frames /\ TailFrame \notin Numbered(n)
      BY DEF Frames, Numbered, TailFrame
    <3>2. Hits(Append(toPane, TailFrame), Numbered(n)) = Hits(toPane, Numbered(n)) + 0
      BY <3>1, HitsEnds DEF FrameTypes
    <3>3. Hits(toPane', Numbered(n)) = Hits(toPane, Numbered(n))
      <4>1. Hits(toPane, Numbered(n)) \in Nat
        BY OwedTypes
      <4>2. Hits(Append(toPane, TailFrame), Numbered(n)) = Hits(toPane, Numbered(n))
        BY <3>2, <4>1
      <4> QED BY <2>1, <4>2
    <3>4. /\ Hits(applied', {n}) = Hits(applied, {n}) /\ Held(n)' = Held(n)
          /\ Hits(input', Numbered(n)) = Hits(input, Numbered(n))
          /\ Hits(deferred', Numbered(n)) = Hits(deferred, Numbered(n))
      BY <2>1 DEF Held
    <3> QED BY <3>3, <3>4 DEF Owed
  <2> QED BY <1>0, <2>1, <2>2, OnceMoved
<1>13. CASE ~(\/ \E n \in 0 .. ptyLeft, ended \in BOOLEAN : ReadPty(n, ended)
              \/ \E t \in Requests : Send(t)
              \/ Wake \/ Route \/ Routed \/ NoRoom \/ Clear \/ Settle \/ Available \/ Block \/ PutMarker
              \/ Publish \/ Blocked \/ Published \/ Dead \/ ClearDue \/ Stop \/ Flush \/ ScanStore)
  <2>1. UNCHANGED <<toPane, input, deferred, applied, sent, job, pc>>
    BY <1>13 DEF Next, PaneStep, ServerStep, vars, pane, load, ChildExits, ReadFrame, ReadEnds,
                ScanLoad, DispatchOutput, Dispatched, Tick
  <2> QED BY <1>0, <2>1, OnceKept
<1> QED BY <1>1, <1>2, <1>3, <1>4, <1>5, <1>6, <1>7, <1>8, <1>9, <1>10, <1>11, <1>12, <1>13

(* Requests that are each at one place are counted once.                    *)
LEMMA OnceCounts ==
  ASSUME FrameTypes, Turn, OnceEach, Running
  PROVE  /\ Range(applied) \cup Waiting \cup Resizing = 1 .. sent
         /\ Len(applied) + Cardinality(Waiting) + Cardinality(Resizing) = sent
<1> DEFINE A == Range(applied)
<1>1. /\ applied \in Seq(Nat \ {0}) /\ input \in Seq(Frames) /\ deferred \in Seq(Later)
      /\ toPane \in Seq(Frames) /\ sent \in Nat /\ Len(applied) \in Nat
      /\ A = Elems(applied) /\ A \subseteq Nat \ {0}
  <2>1. applied \in Seq(Nat \ {0})
    BY DEF FrameTypes
  <2>2. A = Elems(applied) /\ Elems(applied) \subseteq Nat \ {0}
    BY <2>1, RangeIs DEF Elems
  <2> QED BY <2>1, <2>2 DEF FrameTypes
<1>2. ASSUME NEW n \in Nat \ {0}
      PROVE  /\ n \in A <=> Hits(applied, {n}) # 0
             /\ n \in Waiting <=> \/ Hits(input, Numbered(n)) # 0
                                  \/ Hits(deferred, Numbered(n)) # 0
                                  \/ Hits(toPane, Numbered(n)) # 0
             /\ n \in Resizing <=> Held(n) # 0 /\ n \notin A
  <2>1. n \in A <=> Hits(applied, {n}) # 0
    BY <1>1, HitsType
  <2>2. /\ Hits(input, Numbered(n)) # 0 <=> \E f \in Elems(input) : f.req = n
        /\ Hits(deferred, Numbered(n)) # 0 <=> \E f \in Elems(deferred) : f.req = n
        /\ Hits(toPane, Numbered(n)) # 0 <=> \E f \in Elems(toPane) : f.req = n
    <3>1. /\ Elems(input) \subseteq Frames /\ Elems(toPane) \subseteq Frames
          /\ Elems(deferred) \subseteq Frames
      BY <1>1 DEF Elems, Later, Frames
    <3>2. /\ Hits(input, Numbered(n)) = 0 <=> Elems(input) \cap Numbered(n) = {}
          /\ Hits(deferred, Numbered(n)) = 0 <=> Elems(deferred) \cap Numbered(n) = {}
          /\ Hits(toPane, Numbered(n)) = 0 <=> Elems(toPane) \cap Numbered(n) = {}
      BY <1>1, HitsType
    <3> QED BY <3>1, <3>2 DEF Numbered
  <2>3. Range(input) = Elems(input) /\ Range(deferred) = Elems(deferred) /\ Range(toPane) = Elems(toPane)
    BY <1>1, RangeIs
  <2>4. n \in Resizing <=> Held(n) # 0 /\ n \notin A
    BY DEF Resizing, Held, Holding
  <2> QED BY <2>1, <2>2, <2>3, <2>4 DEF Waiting
<1>3. Waiting \subseteq Nat \ {0} /\ Resizing \subseteq Nat \ {0}
  <2>1. \A f \in Elems(input) \cup Elems(deferred) \cup Elems(toPane) : f.req \in Nat
    BY <1>1 DEF Elems, Frames, Later, Asked, TailFrame
  <2>2. Range(input) = Elems(input) /\ Range(deferred) = Elems(deferred) /\ Range(toPane) = Elems(toPane)
    BY <1>1, RangeIs
  <2>3. Waiting \subseteq Nat \ {0}
    BY <2>1, <2>2 DEF Waiting
  <2>4. Resizing \subseteq Nat \ {0}
    BY DEF Resizing, FrameTypes
  <2> QED BY <2>3, <2>4
<1> HIDE DEF A
<1>4. ASSUME NEW n \in Nat \ {0}
      PROVE  /\ n \in A \/ n \in Waiting \/ n \in Resizing <=> n <= sent
             /\ ~(n \in A /\ n \in Waiting) /\ ~(n \in Resizing /\ n \in A)
             /\ ~(n \in Resizing /\ n \in Waiting)
             /\ Hits(applied, {n}) <= 1
  <2> DEFINE a == Hits(applied, {n})
             i == Hits(input, Numbered(n))
             d == Hits(deferred, Numbered(n))
             p == Hits(toPane, Numbered(n))
             h == Held(n)
  <2>1. a \in Nat /\ i \in Nat /\ d \in Nat /\ p \in Nat /\ h \in {0, 1}
    BY OwedTypes
  <2>2. a + i + d + p + h = IF n <= sent THEN 1 ELSE 0
    BY DEF OnceEach, Owed
  <2>3. /\ n \in A <=> a # 0
        /\ n \in Waiting <=> i # 0 \/ d # 0 \/ p # 0
        /\ n \in Resizing <=> h # 0 /\ n \notin A
    BY <1>2
  <2> HIDE DEF a, i, d, p, h
  <2>4. /\ (a # 0 \/ i # 0 \/ d # 0 \/ p # 0 \/ h # 0) <=> n <= sent
        /\ ~(a # 0 /\ (i # 0 \/ d # 0 \/ p # 0)) /\ ~(h # 0 /\ a # 0)
        /\ ~(h # 0 /\ (i # 0 \/ d # 0 \/ p # 0)) /\ a <= 1
    BY <1>1, <2>1, <2>2
  <2> QED BY <2>3, <2>4 DEF a
<1>5. A \cup Waiting \cup Resizing = 1 .. sent
  <2>1. \A n \in Nat \ {0} : n \in 1 .. sent <=> n <= sent
    BY <1>1
  <2>2. 1 .. sent \subseteq Nat \ {0}
    BY <1>1
  <2> QED BY <1>1, <1>3, <1>4, <2>1, <2>2
<1>6. /\ A \cap Waiting = {} /\ (A \cup Waiting) \cap Resizing = {}
  BY <1>1, <1>3, <1>4
<1>7. IsFiniteSet(1 .. sent) /\ Cardinality(1 .. sent) = sent
  <2>1. IsFiniteSet(1 .. sent) /\ Cardinality(1 .. sent) = IF 1 > sent THEN 0 ELSE sent - 1 + 1
    <3>1. 1 \in Int /\ sent \in Int
      BY <1>1
    <3> QED BY <3>1, FS_Interval
  <2> QED BY <1>1, <2>1
<1>8. /\ IsFiniteSet(A) /\ IsFiniteSet(Waiting) /\ IsFiniteSet(Resizing)
      /\ Cardinality(A) \in Nat /\ Cardinality(Waiting) \in Nat /\ Cardinality(Resizing) \in Nat
  <2>1. IsFiniteSet(A) /\ IsFiniteSet(Waiting) /\ IsFiniteSet(Resizing)
    BY <1>5, <1>7, FS_Subset
  <2> QED BY <2>1, FS_CardinalityType
<1>9. Cardinality(A) = Len(applied)
  <2>1. \A j, k \in 1 .. Len(applied) : applied[j] = applied[k] => j = k
    <3> SUFFICES ASSUME NEW j \in 1 .. Len(applied), NEW k \in 1 .. Len(applied), applied[j] = applied[k]
                 PROVE  j = k
      OBVIOUS
    <3>1. applied[j] \in Nat \ {0}
      BY <1>1
    <3>2. Hits(applied, {applied[j]}) <= 1
      BY <1>4, <3>1
    <3>3. \A m, o \in 1 .. Len(applied) :
            applied[m] \in {applied[j]} /\ applied[o] \in {applied[j]} => m = o
      BY <1>1, <3>2, HitsType
    <3> QED BY <3>3
  <2>2. applied \in Bijection(1 .. Len(applied), A)
    <3>1. applied \in [1 .. Len(applied) -> A]
      BY <1>1 DEF Elems
    <3>2. \A x \in A : \E k \in 1 .. Len(applied) : applied[k] = x
      BY <1>1 DEF Elems
    <3> QED BY <2>1, <3>1, <3>2 DEF Bijection, Injection, Surjection, IsInjective
  <2>3. ExistsBijection(1 .. Len(applied), A)
    BY <2>2 DEF ExistsBijection
  <2> QED BY <1>1, <2>3, FS_CountingElements
<1>10. Cardinality(A \cup Waiting) = Cardinality(A) + Cardinality(Waiting) /\ IsFiniteSet(A \cup Waiting)
  BY <1>6, <1>8, SizesAdd
<1>11. Cardinality((A \cup Waiting) \cup Resizing) = Cardinality(A \cup Waiting) + Cardinality(Resizing)
  BY <1>6, <1>8, <1>10, SizesAdd
<1> QED BY <1>1, <1>5, <1>7, <1>8, <1>9, <1>10, <1>11 DEF A

(* A sequence is hit as often as an element occurs in it.                   *)
LEMMA TimesAre ==
  ASSUME SocketTypes, FrameTypes
  PROVE  /\ Times(output \o toServer, "full") = Hits(output, Fulls) + Hits(toServer, Fulls)
         /\ Times(toPane \o input, TailFrame) = Hits(toPane, Tails) + Hits(input, Tails)
<1>1. /\ output \in Seq(Said) /\ toServer \in Seq(Said)
      /\ toPane \in Seq(Frames) /\ input \in Seq(Frames)
  BY DEF SocketTypes, FrameTypes
<1>2. ASSUME NEW X, NEW s \in Seq(X), NEW x PROVE Times(s, x) = Hits(s, {x})
  <2>1. {i \in DOMAIN s : s[i] = x} = Spots(s, {x})
    BY DEF Spots
  <2> QED BY <2>1 DEF Times, Hits
<1>3. output \o toServer \in Seq(Said) /\ toPane \o input \in Seq(Frames)
  BY <1>1
<1>4. Times(output \o toServer, "full") = Hits(output \o toServer, Fulls)
  BY <1>2, <1>3 DEF Fulls
<1>5. Times(toPane \o input, TailFrame) = Hits(toPane \o input, Tails)
  BY <1>2, <1>3 DEF Tails
<1> QED BY <1>1, <1>4, <1>5, HitsConcat

PaneInv ==
  /\ RefusalInv /\ QuietInv /\ FrameTypes /\ Turn /\ FullInv /\ OnceEach

(* The parts together are inductive.                                        *)
LEMMA PaneInvHolds == Spec => []PaneInv
<1>1. Init => PaneInv
  BY RefusalInit, QuietInit, TurnInit, FullInit, OnceInit DEF PaneInv
<1>2. PaneInv /\ [Next]_vars => PaneInv'
  BY RefusalStep, QuietStep, FrameTypesStep, TurnStep, FullStep, OnceStep DEF PaneInv, QuietInv
<1> QED BY <1>1, <1>2, PTL DEF Spec

(* The pane believes that the ring is full exactly while one question about *)
(* it is under way: no full frame, scan or answer is lost or doubled,       *)
(* whichever wait reads the socket (Out::announce_full, nested_control).    *)
THEOREM FullsAnswered == Spec => []FullIsOutstanding
<1>1. PaneInv => FullIsOutstanding
  <2> SUFFICES ASSUME PaneInv PROVE FullIsOutstanding
    OBVIOUS
  <2>1. SocketTypes /\ FrameTypes /\ FullInv
    BY DEF PaneInv, QuietInv
  <2>2. /\ Times(output \o toServer, "full") = Hits(output, Fulls) + Hits(toServer, Fulls)
        /\ Times(toPane \o input, TailFrame) = Hits(toPane, Tails) + Hits(input, Tails)
    BY <2>1, TimesAre
  <2>3. (IF scan \in {"full", Storing["full"]} THEN 1 ELSE 0) = Asking
    BY StoringIs DEF Asking
  <2>4. /\ {Hits(output, Fulls), Hits(toServer, Fulls), Hits(toPane, Tails), Hits(input, Tails)} \subseteq Nat
        /\ Asking \in {0, 1}
    BY <2>1, HitsAre
  <2>5. Hits(output, Fulls) + Hits(toServer, Fulls) + (Hits(toPane, Tails) + Hits(input, Tails)) + Asking
        = Hits(output, Fulls) + Hits(toServer, Fulls) + Hits(toPane, Tails) + Hits(input, Tails) + Asking
    BY <2>4
  <2> QED BY <2>1, <2>2, <2>3, <2>5 DEF FullInv, FullIsOutstanding
<1> QED BY <1>1, PaneInvHolds, PTL

(* Nothing is lost between server and pane while the head is below the last *)
(* position: no commit is refused, no head is left unnoticed, no full is    *)
(* forgotten, and each request is applied once or waits at one place.       *)
THEOREM NothingIsLost == Spec => [](head + Header + pend.len <= MaxHead => NothingLost)
<1>1. PaneInv => (pc # "stopped" /\ "stopping" \notin flags =>
        /\ Range(applied) \cup Waiting \cup Resizing = 1 .. sent
        /\ Len(applied) + Cardinality(Waiting) + Cardinality(Resizing) = sent)
  BY OnceCounts DEF PaneInv, Running
<1>2. (head + Header + pend.len <= MaxHead => NeverRefused) /\ QuietIsCaughtUp /\ FullIsOutstanding
      /\ (pc # "stopped" /\ "stopping" \notin flags =>
        /\ Range(applied) \cup Waiting \cup Resizing = 1 .. sent
        /\ Len(applied) + Cardinality(Waiting) + Cardinality(Resizing) = sent)
      => (head + Header + pend.len <= MaxHead => NothingLost)
  BY Zenon DEF NothingLost
<1> QED BY <1>1, <1>2, PaneInvHolds, NoneRefused, NoneUnnoticed, FullsAnswered, PTL
=============================================================================
