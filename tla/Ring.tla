-------------------------------- MODULE Ring --------------------------------
(***************************************************************************)
(* One pane's shared ring: a Writer in the pane process and a Reader in    *)
(* the server, which meet in three sequentially consistent words (Head,    *)
(* Tail, Read) and a data buffer with no lock.  Every access to a word is  *)
(* a step of its own, so the two interleave as they do in the program.     *)
(*                                                                         *)
(* A cell of the buffer holds the position last written to it.  A reader   *)
(* that finds p in the cell of position p reads what the writer published  *)
(* there; anything else is an overwritten or an unwritten byte.            *)
(***************************************************************************)
EXTENDS RingFormat

CONSTANT Kinds   (* the kinds of record the pane commits                    *)

ASSUME KindsAssumption == Kinds \subseteq Kind

VARIABLES
  (* the shared mapping *)
  Head, Tail, Read,
  cells,
  (* Writer *)
  woff,      (* bytes of output committed so far                            *)
  wtail,     (* the Tail it loaded last                                     *)
  filled,    (* payload bytes staged after the header of the next record    *)
  room,      (* what available() last answered, 0 after the next commit     *)
  wpc, pend, (* where commit() is, and the record it commits                *)
  (* Reader *)
  seen,      (* the Head it loaded last                                     *)
  settled, settledOff, (* a position and its offset, cached by end_offset   *)
  evicted,   (* end of the last bytes or marker record released             *)
  rpc, rtail, (* where advance() is, and the tail it moves to               *)
  (* history *)
  log,       (* every record committed                                      *)
  wake,      (* a commit found the reader idle since the last Read store    *)
  looked     (* the reader loaded Head since its last Read store            *)

words   == <<Head, Tail, Read>>
writer  == <<woff, wtail, filled, room, wpc, pend>>
reader  == <<seen, settled, settledOff, evicted, rpc, rtail>>
vars    == <<Head, Tail, Read, cells, woff, wtail, filled, room, wpc, pend,
             seen, settled, settledOff, evicted, rpc, rtail, log, wake, looked>>

Cell(pos) == pos % Capacity

(* The buffer after the bytes of positions from .. to - 1 are written.      *)
Written(from, to) ==
  [c \in DOMAIN cells |->
     IF \E p \in from .. to - 1 : Cell(p) = c
     THEN CHOOSE p \in from .. to - 1 : Cell(p) = c
     ELSE cells[c]]

NoRecord == [kind |-> "pad", len |-> 0, off |-> 0, at |-> 0]

Init ==
  /\ Head = 0 /\ Tail = 0 /\ Read = 0
  /\ cells = [c \in 0 .. Capacity - 1 |-> -1]
  /\ woff = 0 /\ wtail = 0 /\ filled = 0 /\ room = 0
  /\ wpc = "ready" /\ pend = NoRecord
  /\ seen = 0 /\ settled = 0 /\ settledOff = 0 /\ evicted = 0
  /\ rpc = "ready" /\ rtail = 0
  /\ log = {}
  /\ wake = FALSE /\ looked = FALSE

-----------------------------------------------------------------------------
(* Writer.                                                                  *)

(* available(): load Tail, then either answer the room at the head or, at   *)
(* the end of the buffer, start the commit of a pad that fills it.          *)
Available ==
  /\ wpc = "ready"
  /\ wtail' = Tail
  /\ IF /\ AtPad(Head)
        /\ ToEnd(Head) <= Free(Head, Tail)
        /\ Fits(Head, Tail, PadLen(Head))
     THEN /\ pend' = [kind |-> "pad", len |-> PadLen(Head), off |-> woff, at |-> Head]
          /\ cells' = Written(Head + Header, Head + ToEnd(Head))
          /\ filled' = (IF filled < PadLen(Head) THEN PadLen(Head) ELSE filled)
          /\ wpc' = "header"
          /\ room' = LapRoom(Head, Tail)
     ELSE /\ room' = Room(Head, Tail)
          /\ UNCHANGED <<pend, cells, filled, wpc>>
  /\ UNCHANGED <<words, woff, reader, log, wake, looked>>

(* fill() and write_at(): n more payload bytes into the window.             *)
Fill_AtHead(n) ==   \* mutant: stages over the place of the header
  /\ wpc = "ready"
  /\ Fits(Head, wtail, filled + n)
  /\ cells' = Written(Head + filled, Head + filled + n)
  /\ filled' = filled + n
  /\ UNCHANGED <<words, woff, wtail, room, wpc, pend, reader, log, wake, looked>>

Fill(n) ==
  /\ wpc = "ready"
  /\ Fits(Head, wtail, filled + n)
  /\ cells' = Written(Head + Header + filled, Head + Header + filled + n)
  /\ filled' = filled + n
  /\ UNCHANGED <<words, woff, wtail, room, wpc, pend, reader, log, wake, looked>>

(* publish() and put(): commit what is staged as a record.  A refused       *)
(* commit changes nothing and is not a step.                                *)
Commit(kind) ==
  /\ wpc = "ready"
  /\ filled > 0
  /\ Fits(Head, wtail, filled)
  /\ pend' = [kind |-> kind, len |-> filled, off |-> woff, at |-> Head]
  /\ room' = 0
  /\ wpc' = "header"
  /\ UNCHANGED <<words, cells, woff, wtail, filled, reader, log, wake, looked>>

WriteHeader ==
  /\ wpc = "header"
  /\ cells' = Written(pend.at, pend.at + Header)
  /\ wpc' = "publish"
  /\ UNCHANGED <<words, woff, wtail, filled, room, pend, reader, log, wake, looked>>

StoreHead ==
  /\ wpc = "publish"
  /\ Head' = EndOf(pend)
  /\ log' = log \cup {pend}
  /\ wpc' = "published"
  /\ UNCHANGED <<Tail, Read, cells, woff, wtail, filled, room, pend, reader, wake, looked>>

(* The load that decides Idle or Published.                                 *)
LoadRead_NewHead ==   \* mutant: compares Read with the head after the commit
  /\ wpc = "published"
  /\ wake' = (wake \/ Read = EndOf(pend))
  /\ woff' = OffAfter(pend)
  /\ filled' = 0
  /\ wpc' = "ready"
  /\ UNCHANGED <<words, cells, wtail, room, pend, reader, log, looked>>

LoadRead_LateOffset ==   \* mutant: the next record has the offset of this one
  /\ wpc = "published"
  /\ wake' = (wake \/ Read = pend.at)
  /\ woff' = pend.off
  /\ filled' = 0
  /\ wpc' = "ready"
  /\ UNCHANGED <<words, cells, wtail, room, pend, reader, log, looked>>

LoadRead ==
  /\ wpc = "published"
  /\ wake' = (wake \/ Read = pend.at)
  /\ woff' = OffAfter(pend)
  /\ filled' = 0
  /\ wpc' = "ready"
  /\ UNCHANGED <<words, cells, wtail, room, pend, reader, log, looked>>

-----------------------------------------------------------------------------
(* Reader.                                                                  *)

(* Positions between records among those the reader saw.                    *)
Boundaries == {r.at : r \in {q \in log : q.at < seen}} \cup {seen}

(* A walk over the headers from low to high passes these records ...        *)
Passed(low, high) == {r \in log : low <= r.at /\ r.at < high}

(* ... stops at the first boundary that is not before pos ...               *)
StopsAt(to, low, pos) ==
  /\ to \in Boundaries /\ low <= to /\ pos <= to
  /\ \A b \in Boundaries : low <= b /\ pos <= b => to <= b

(* ... and ends at the offset after the last record, off if there is none.  *)
OffsetsAt(low, high, off) ==
  IF Passed(low, high) = {}
  THEN {off}
  ELSE {OffAfter(r) : r \in {q \in Passed(low, high) : EndOf(q) = high}}

(* The end of the last bytes or marker record it passes.                    *)
LostEnds(low, high) ==
  LET lost == {r \in Passed(low, high) : r.kind \in DataKind}
  IN  IF lost = {}
      THEN {evicted}
      ELSE {e \in {EndOf(r) : r \in lost} : \A r \in lost : EndOf(r) <= e}

(* head(), with the walk of end_offset() or without.                        *)
LoadHead ==
  /\ rpc = "ready"
  /\ seen' = Head
  /\ looked' = TRUE
  /\ UNCHANGED <<words, cells, writer, settled, settledOff, evicted, rpc, rtail, log, wake>>

EndOffset ==
  /\ rpc = "ready"
  /\ seen' = Head
  /\ looked' = TRUE
  /\ settled' = Head
  /\ settledOff' \in OffsetsAt(settled, Head, settledOff)
  /\ UNCHANGED <<words, cells, writer, evicted, rpc, rtail, log, wake>>

(* advance(): the walk that decides the new tail and what it costs, ...     *)
Release_AnyKind(to) ==   \* mutant: a released slice or pad counts as lost output
  /\ rtail' = to
  /\ evicted' = to
  /\ IF settled < to
     THEN /\ settled' = to
          /\ settledOff' \in OffsetsAt(Tail, to, settledOff)
     ELSE UNCHANGED <<settled, settledOff>>

Release(to) ==
  /\ rtail' = to
  /\ evicted' \in LostEnds(Tail, to)
  /\ IF settled < to
     THEN /\ settled' = to
          /\ settledOff' \in OffsetsAt(Tail, to, settledOff)
     ELSE UNCHANGED <<settled, settledOff>>

Advance(keep) ==
  /\ rpc = "ready"
  /\ \E to \in Boundaries :
       /\ StopsAt(to, Tail, Retain(seen, keep))
       /\ IF Tail < to
          THEN Release(to) /\ rpc' = "tail"
          ELSE rpc' = "read" /\ UNCHANGED <<settled, settledOff, evicted, rtail>>
  /\ UNCHANGED <<words, cells, writer, seen, log, wake, looked>>

(* ... the Tail store, skipped when it does not move, ...                   *)
StoreTail ==
  /\ rpc = "tail"
  /\ Tail' = rtail
  /\ rpc' = "read"
  /\ UNCHANGED <<Head, Read, cells, writer, seen, settled, settledOff, evicted, rtail, log, wake, looked>>

(* ... and last the Read store.                                             *)
StoreRead ==
  /\ rpc = "read"
  /\ Read' = seen
  /\ wake' = FALSE
  /\ looked' = FALSE
  /\ rpc' = "ready"
  /\ UNCHANGED <<Head, Tail, cells, writer, seen, settled, settledOff, evicted, rtail, log>>

-----------------------------------------------------------------------------
WriterStep ==
  \/ Available
  \/ \E n \in 1 .. Capacity : Fill(n)
  \/ \E kind \in Kinds : Commit(kind)
  \/ WriteHeader
  \/ StoreHead
  \/ LoadRead

ReaderStep ==
  \/ LoadHead
  \/ EndOffset
  \/ \E keep \in Boundaries : Advance(keep)
  \/ StoreTail
  \/ StoreRead

Next == WriterStep \/ ReaderStep

Spec == Init /\ [][Next]_vars
-----------------------------------------------------------------------------
(* Properties.                                                              *)

Record == [kind : Kind, len : Nat, off : Nat, at : Nat]

(* The variables keep their ranges.                                         *)
TypeOK ==
  /\ Head \in Nat /\ Tail \in Nat /\ Read \in Nat
  /\ cells \in [0 .. Capacity - 1 -> Int]
  /\ woff \in Nat /\ wtail \in Nat /\ filled \in Nat /\ room \in Nat
  /\ wpc \in {"ready", "header", "publish", "published"}
  /\ pend \in Record
  /\ seen \in Nat /\ settled \in Nat /\ settledOff \in Nat /\ evicted \in Nat
  /\ rpc \in {"ready", "tail", "read"} /\ rtail \in Nat
  /\ log \in SUBSET Record
  /\ wake \in BOOLEAN /\ looked \in BOOLEAN

(* The two sides' stale copies never disagree dangerously: what the writer  *)
(* believes released was released, what the reader believes published was   *)
(* published, and the writer's next bytes end before the oldest byte that   *)
(* may still be read.  (Writer::fits against Reader::advance.)              *)
Windows ==
  /\ wtail <= Tail /\ Tail <= seen /\ seen <= Head
  /\ Head <= wtail + Capacity
  /\ wpc = "ready" /\ filled > 0 => Head + Header + filled <= wtail + Capacity
  /\ Read <= seen

(* Every byte from the tail to the head is the byte that was published at   *)
(* its position, at every moment: no lap of the writer reaches it, and the  *)
(* Head store comes after the header and the payload it publishes.          *)
Intact == \A p \in Tail .. Head - 1 : cells[Cell(p)] = p

(* The records tile the positions, none wraps the end of the buffer, a      *)
(* header always fits at the head, and byte offsets count exactly the       *)
(* payload of the bytes records (Writer::commit, the pad of room()).        *)
LogWellFormed ==
  /\ \A r \in log :
       /\ (r.at = 0 /\ r.off = 0) \/ \E q \in log : EndOf(q) = r.at /\ OffAfter(q) = r.off
       /\ EndOf(r) = Head \/ \E q \in log : q.at = EndOf(r)
       /\ Header + r.len <= ToEnd(r.at)
  /\ Header <= ToEnd(Head)
  /\ wpc # "published" => \A r \in log : EndOf(r) = Head => OffAfter(r) = woff

(* The reader's cached offset is the offset of a position it can still walk *)
(* from (Reader::end_offset, the fix-up in Reader::advance).                *)
SettledExact ==
  /\ rpc # "tail" => Tail <= settled
  /\ settled <= seen
  /\ \A r \in log :
       /\ r.at = settled => r.off = settledOff
       /\ EndOf(r) = settled => OffAfter(r) = settledOff

(* A reader that looked once more after its Read store, and is about to     *)
(* sleep because it saw nothing new, is woken for any record it missed: the *)
(* writer said Idle, or is between its Head store and the Read load that    *)
(* will say it (the comment on sequential consistency in mapping.rs).       *)
NoLostWakeup ==
  looked /\ Read = seen /\ seen < Head =>
    wake \/ (wpc = "published" /\ pend.at = Read)

(* A cursor is behind exactly when a bytes or marker record at or after it  *)
(* was released: pads and snapshot slices before the tail lose a view       *)
(* nothing (Reader::evicted, Reader::reachable).                            *)
EvictedExact ==
  rpc # "tail" =>
    \A b \in {r.at : r \in log} \cup {Head} :
      b < evicted <=> \E r \in log : r.kind \in DataKind /\ b <= r.at /\ r.at < Tail

(* What available() answered can be used: a record with at most that        *)
(* payload is not refused.  A refused commit stops the pane (Out::published)*)
RoomIsUsable ==
  wpc = "ready" =>
    \A n \in 1 .. room : Head + Header + n <= MaxHead => Fits(Head, wtail, n)

(* Both caches the reader takes decisions from are exact at once.           *)
CachesExact == SettledExact /\ EvictedExact

(* The tail never passes a record that begins in the newest half of the     *)
(* buffer, so a view that is less than half a buffer late resumes without a *)
(* snapshot (Reader::advance).                                              *)
KeepsHalf ==
  [][\A r \in Passed(Tail, Tail') : r.at < seen - Capacity \div 2]_Tail

(* The ring implements the record log that its users are written against:   *)
(* for them a record appears whole at the Head store, the tail moves at the *)
(* Tail store, and every other access is invisible.                         *)
Promise == INSTANCE RecordLog WITH head <- Head, tail <- Tail

ImplementsLog == Promise!LogSpec
=============================================================================
