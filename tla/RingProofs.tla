----------------------------- MODULE RingProofs -----------------------------
(***************************************************************************)
(* Proofs about Ring for every header length, capacity and bound that      *)
(* FormatAssumption admits, every set of record kinds, and every number of *)
(* laps.  The argument: positions less than a capacity apart have cells of *)
(* their own (ModInjective); a commit that fits ends at most a capacity    *)
(* after the Tail the writer loaded, which is at most the Tail there is;   *)
(* so no write reaches a byte that may still be read.                      *)
(***************************************************************************)
EXTENDS Ring, RingFormatProofs

-----------------------------------------------------------------------------
(* Types.                                                                   *)

LEMMA WrittenType ==
  ASSUME TypeOK, NEW from \in Int, NEW to \in Int
  PROVE  Written(from, to) \in [0 .. Capacity - 1 -> Int]
<1> SUFFICES ASSUME NEW c \in 0 .. Capacity - 1
             PROVE  (IF \E p \in from .. to - 1 : Cell(p) = c
                     THEN CHOOSE p \in from .. to - 1 : Cell(p) = c
                     ELSE cells[c]) \in Int
  BY DEF Written, TypeOK
<1>1. CASE \E p \in from .. to - 1 : Cell(p) = c
  <2>1. (CHOOSE p \in from .. to - 1 : Cell(p) = c) \in from .. to - 1
    BY <1>1
  <2> QED BY <1>1, <2>1
<1>2. CASE ~ \E p \in from .. to - 1 : Cell(p) = c
  BY <1>2 DEF TypeOK
<1> QED BY <1>1, <1>2

LEMMA RecordType ==
  ASSUME NEW r \in Record
  PROVE  /\ r.at \in Nat /\ r.len \in Nat /\ r.off \in Nat
         /\ EndOf(r) \in Nat /\ OffAfter(r) \in Nat /\ r.at < EndOf(r)
BY FormatAssumption DEF Record, EndOf, OffAfter

LEMMA ReaderTypes ==
  ASSUME TypeOK
  PROVE  /\ Boundaries \subseteq Nat
         /\ \A low, high, off \in Nat : OffsetsAt(low, high, off) \subseteq Nat
         /\ \A low, high \in Nat : LostEnds(low, high) \subseteq Nat
<1>1. Boundaries \subseteq Nat
  BY RecordType DEF Boundaries, TypeOK
<1>2. ASSUME NEW low \in Nat, NEW high \in Nat, NEW off \in Nat
      PROVE  OffsetsAt(low, high, off) \subseteq Nat
  BY RecordType DEF OffsetsAt, Passed, TypeOK
<1>3. ASSUME NEW low \in Nat, NEW high \in Nat
      PROVE  LostEnds(low, high) \subseteq Nat
  BY RecordType DEF LostEnds, Passed, TypeOK
<1> QED BY <1>1, <1>2, <1>3

-----------------------------------------------------------------------------
(* The inductive invariant: the types and windows of Ring, with what they   *)
(* rest on between the accesses of a commit and of an advance.              *)

HeaderFits == Header <= ToEnd(Head)

(* From the moment it is decided to its Head store, the record fits where   *)
(* it is put; after the store it is the last one.                           *)
Committing ==
  /\ wpc \in {"header", "publish"} => pend.at = Head /\ Fits(Head, wtail, pend.len)
  /\ wpc = "published" => EndOf(pend) = Head

(* The Tail about to be stored moves forward to a position the reader saw.  *)
Releasing == rpc = "tail" => Tail <= rtail /\ rtail <= seen

RingInv == TypeOK /\ HeaderFits /\ Committing /\ Releasing /\ Windows

LEMMA RingInit == Init => RingInv
<1> SUFFICES ASSUME Init PROVE RingInv
  OBVIOUS
<1> USE FormatAssumption DEF Init
<1>1. TypeOK
  <2>1. cells \in [0 .. Capacity - 1 -> Int]
    OBVIOUS
  <2>2. pend \in Record
    BY DEF NoRecord, Record, Kind
  <2>3. log \in SUBSET Record
    OBVIOUS
  <2> QED BY <2>1, <2>2, <2>3 DEF TypeOK
<1>2. ToEnd(0) = Capacity
  <2>1. (Capacity * 0 + 0) % Capacity = 0
    BY ModUnique
  <2>2. 0 % Capacity = 0
    BY <2>1
  <2> QED BY <2>2 DEF ToEnd
<1>3. HeaderFits
  BY <1>2 DEF HeaderFits
<1> QED BY <1>1, <1>3 DEF RingInv, Committing, Releasing, Windows

LEMMA AvailableInv == RingInv /\ Available => RingInv'
<1> SUFFICES ASSUME RingInv, Available PROVE RingInv'
  OBVIOUS
<1> USE DEF RingInv
<1> DEFINE due == /\ AtPad(Head)
                  /\ ToEnd(Head) <= Free(Head, Tail)
                  /\ Fits(Head, Tail, PadLen(Head))
           pad == [kind |-> "pad", len |-> PadLen(Head), off |-> woff, at |-> Head]
<1>1. Head \in Nat /\ Tail \in Nat /\ woff \in Nat /\ filled \in Nat
  BY DEF TypeOK
<1>2. PadLen(Head) \in Nat /\ pad \in Record
  BY <1>1, ToEndType, FormatAssumption DEF PadLen, HeaderFits, Record, Kind
<1>3. /\ wtail' = Tail /\ wpc = "ready"
      /\ UNCHANGED <<Head, Tail, Read>> /\ UNCHANGED woff
      /\ UNCHANGED <<seen, settled, settledOff, evicted, rpc, rtail>>
      /\ UNCHANGED <<log, wake, looked>>
  BY DEF Available, words, reader
<1>4. CASE due
  <2>1. /\ pend' = pad /\ wpc' = "header" /\ room' = LapRoom(Head, Tail)
        /\ cells' = Written(Head + Header, Head + ToEnd(Head))
        /\ filled' \in {filled, PadLen(Head)}
    BY <1>4 DEF Available
  <2>2. Fits(Head, Tail, PadLen(Head))
    BY <1>4
  <2> HIDE DEF due
  <2>3. cells' \in [0 .. Capacity - 1 -> Int]
    <3>1. Head + Header \in Int /\ Head + ToEnd(Head) \in Int
      BY <1>1, ToEndType, FormatAssumption
    <3> QED BY <2>1, <3>1, WrittenType
  <2>4. Committing'
    BY <1>2, <1>3, <2>1, <2>2 DEF Committing
  <2> HIDE DEF pad
  <2>5. TypeOK'
    BY <1>1, <1>2, <1>3, <2>1, <2>3, RoomType DEF TypeOK
  <2>6. Windows' /\ HeaderFits' /\ Releasing'
    BY <1>1, <1>3, <2>1, FormatAssumption DEF Windows, HeaderFits, Releasing, TypeOK
  <2> QED BY <2>4, <2>5, <2>6
<1>5. CASE ~due
  <2>1. room' = Room(Head, Tail) /\ UNCHANGED <<pend, cells, filled, wpc>>
    BY <1>5 DEF Available
  <2> HIDE DEF due, pad
  <2>2. TypeOK'
    BY <1>1, <1>3, <2>1, RoomType DEF TypeOK
  <2>3. Windows' /\ HeaderFits' /\ Releasing' /\ Committing'
    BY <1>1, <1>3, <2>1, FormatAssumption DEF Windows, HeaderFits, Releasing, Committing, TypeOK
  <2> QED BY <2>2, <2>3
<1> QED BY <1>4, <1>5

LEMMA FillInv == ASSUME NEW n \in 1 .. Capacity, RingInv, Fill(n) PROVE RingInv'
<1> USE DEF RingInv
<1>1. /\ wpc = "ready" /\ filled' = filled + n /\ Fits(Head, wtail, filled + n)
      /\ cells' = Written(Head + Header + filled, Head + Header + filled + n)
      /\ UNCHANGED <<Head, Tail, Read>> /\ UNCHANGED <<woff, wtail, room, wpc, pend>>
      /\ UNCHANGED <<seen, settled, settledOff, evicted, rpc, rtail>>
      /\ UNCHANGED <<log, wake, looked>>
  BY DEF Fill, words, reader
<1>2. cells' \in [0 .. Capacity - 1 -> Int]
  <2>1. Head + Header + filled \in Int /\ Head + Header + filled + n \in Int
    BY FormatAssumption DEF TypeOK
  <2> QED BY <1>1, <2>1, WrittenType
<1>3. TypeOK'
  BY <1>1, <1>2, FormatAssumption DEF TypeOK
<1>4. Windows' /\ HeaderFits' /\ Releasing' /\ Committing'
  BY <1>1, FormatAssumption DEF Windows, HeaderFits, Releasing, Committing, TypeOK, Fits
<1> QED BY <1>3, <1>4

LEMMA CommitInv == ASSUME NEW kind \in Kinds, RingInv, Commit(kind) PROVE RingInv'
<1> USE DEF RingInv
<1> DEFINE new == [kind |-> kind, len |-> filled, off |-> woff, at |-> Head]
<1>1. /\ Fits(Head, wtail, filled) /\ pend' = new /\ room' = 0 /\ wpc' = "header"
      /\ UNCHANGED <<Head, Tail, Read>> /\ UNCHANGED <<cells, woff, wtail, filled>>
      /\ UNCHANGED <<seen, settled, settledOff, evicted, rpc, rtail>>
      /\ UNCHANGED <<log, wake, looked>>
  BY DEF Commit, words, reader
<1>2. new \in Record
  BY KindsAssumption DEF TypeOK, Record
<1>3. Committing'
  BY <1>1 DEF Committing
<1> HIDE DEF new
<1>4. TypeOK'
  BY <1>1, <1>2 DEF TypeOK
<1>5. Windows' /\ HeaderFits' /\ Releasing'
  BY <1>1 DEF Windows, HeaderFits, Releasing
<1> QED BY <1>3, <1>4, <1>5

LEMMA WriteHeaderInv == ASSUME RingInv, WriteHeader PROVE RingInv'
<1> USE DEF RingInv
<1>1. /\ wpc = "header" /\ wpc' = "publish" /\ cells' = Written(pend.at, pend.at + Header)
      /\ UNCHANGED <<Head, Tail, Read>> /\ UNCHANGED <<woff, wtail, filled, room, pend>>
      /\ UNCHANGED <<seen, settled, settledOff, evicted, rpc, rtail>>
      /\ UNCHANGED <<log, wake, looked>>
  BY DEF WriteHeader, words, reader
<1>2. cells' \in [0 .. Capacity - 1 -> Int]
  <2>1. pend.at \in Int /\ pend.at + Header \in Int
    BY RecordType, FormatAssumption DEF TypeOK
  <2> QED BY <1>1, <2>1, WrittenType
<1>3. TypeOK'
  BY <1>1, <1>2 DEF TypeOK
<1>4. Windows' /\ HeaderFits' /\ Releasing' /\ Committing'
  BY <1>1 DEF Windows, HeaderFits, Releasing, Committing
<1> QED BY <1>3, <1>4

LEMMA StoreHeadInv == ASSUME RingInv, StoreHead PROVE RingInv'
<1> USE DEF RingInv
<1>1. /\ wpc = "publish" /\ wpc' = "published" /\ Head' = EndOf(pend) /\ log' = log \cup {pend}
      /\ UNCHANGED <<Tail, Read>> /\ UNCHANGED <<cells, woff, wtail, filled, room, pend>>
      /\ UNCHANGED <<seen, settled, settledOff, evicted, rpc, rtail>>
      /\ UNCHANGED <<wake, looked>>
  BY DEF StoreHead, reader
<1>2. /\ pend.at = Head /\ Fits(Head, wtail, pend.len)
      /\ pend \in Record /\ pend.len \in Nat /\ Head \in Nat /\ wtail \in Nat
  BY <1>1, RecordType DEF Committing, TypeOK
<1>3. Head' \in Nat /\ Head < Head' /\ Head' = Head + Header + pend.len /\ Head' <= wtail + Capacity
  BY <1>1, <1>2, FormatAssumption DEF EndOf, Fits
<1>4. TypeOK'
  BY <1>1, <1>2, <1>3 DEF TypeOK
<1>5. HeaderFits'
  BY <1>2, <1>3, HeaderFitsAfter, FitsIsPlaced DEF HeaderFits
<1>6. Windows'
  BY <1>1, <1>3 DEF Windows, TypeOK
<1>7. Releasing' /\ Committing'
  BY <1>1 DEF Releasing, Committing, EndOf
<1> QED BY <1>4, <1>5, <1>6, <1>7

LEMMA LoadReadInv == ASSUME RingInv, LoadRead PROVE RingInv'
<1> USE DEF RingInv
<1>1. /\ wpc' = "ready" /\ filled' = 0 /\ woff' = OffAfter(pend)
      /\ wake' = (wake \/ Read = pend.at)
      /\ UNCHANGED <<Head, Tail, Read>> /\ UNCHANGED <<cells, wtail, room, pend>>
      /\ UNCHANGED <<seen, settled, settledOff, evicted, rpc, rtail>>
      /\ UNCHANGED <<log, looked>>
  BY DEF LoadRead, words, reader
<1>2. woff' \in Nat
  BY <1>1, RecordType DEF TypeOK
<1>3. wake' \in BOOLEAN
  BY <1>1 DEF TypeOK
<1>4. TypeOK'
  BY <1>1, <1>2, <1>3 DEF TypeOK
<1>5. Windows' /\ HeaderFits' /\ Releasing' /\ Committing'
  BY <1>1 DEF Windows, HeaderFits, Releasing, Committing
<1> QED BY <1>4, <1>5

LEMMA LookInv == ASSUME RingInv, LoadHead \/ EndOffset PROVE RingInv'
<1> USE DEF RingInv
<1>1. /\ rpc = "ready" /\ seen' = Head /\ looked' = TRUE
      /\ UNCHANGED <<Head, Tail, Read>> /\ UNCHANGED <<cells, evicted, rpc, rtail, log, wake>>
      /\ UNCHANGED <<woff, wtail, filled, room, wpc, pend>>
  BY DEF LoadHead, EndOffset, words, writer
<1>2. settled' \in Nat /\ settledOff' \in Nat
  BY ReaderTypes DEF LoadHead, EndOffset, TypeOK
<1>3. TypeOK'
  BY <1>1, <1>2 DEF TypeOK
<1>4. Windows' /\ HeaderFits' /\ Releasing' /\ Committing'
  BY <1>1 DEF Windows, HeaderFits, Releasing, Committing, TypeOK
<1> QED BY <1>3, <1>4

LEMMA AdvanceInv == ASSUME NEW keep \in Boundaries, RingInv, Advance(keep) PROVE RingInv'
<1> USE DEF RingInv
<1>1. /\ UNCHANGED <<Head, Tail, Read>> /\ UNCHANGED <<cells, seen, log, wake, looked>>
      /\ UNCHANGED <<woff, wtail, filled, room, wpc, pend>>
  BY DEF Advance, words, writer
<1>2. PICK to \in Boundaries :
        /\ StopsAt(to, Tail, Retain(seen, keep))
        /\ IF Tail < to
           THEN Release(to) /\ rpc' = "tail"
           ELSE rpc' = "read" /\ UNCHANGED <<settled, settledOff, evicted, rtail>>
  BY DEF Advance
<1>3. to \in Nat /\ Tail <= to /\ to <= seen
  BY <1>2, ReaderTypes DEF StopsAt, Boundaries, TypeOK
<1>4. CASE Tail < to
  <2>1. rpc' = "tail" /\ rtail' = to
    BY <1>2, <1>4 DEF Release
  <2>2. evicted' \in Nat
    BY <1>2, <1>3, <1>4, ReaderTypes DEF Release, TypeOK
  <2>3. settled' \in Nat /\ settledOff' \in Nat
    BY <1>2, <1>3, <1>4, ReaderTypes DEF Release, TypeOK
  <2>4. TypeOK'
    BY <1>1, <1>3, <2>1, <2>2, <2>3 DEF TypeOK
  <2> QED BY <1>1, <1>3, <2>1, <2>4 DEF Windows, HeaderFits, Releasing, Committing
<1>5. CASE ~(Tail < to)
  <2>1. rpc' = "read" /\ UNCHANGED <<settled, settledOff, evicted, rtail>>
    BY <1>2, <1>5
  <2>2. TypeOK'
    BY <1>1, <2>1 DEF TypeOK
  <2> QED BY <1>1, <2>1, <2>2 DEF Windows, HeaderFits, Releasing, Committing
<1> QED BY <1>4, <1>5

LEMMA StoreTailInv == ASSUME RingInv, StoreTail PROVE RingInv'
<1> USE DEF RingInv
<1>1. /\ rpc = "tail" /\ Tail' = rtail /\ rpc' = "read"
      /\ UNCHANGED <<Head, Read, cells, seen, settled, settledOff, evicted, rtail, log, wake, looked>>
      /\ UNCHANGED <<woff, wtail, filled, room, wpc, pend>>
  BY DEF StoreTail, writer
<1>2. TypeOK'
  BY <1>1 DEF TypeOK
<1>3. Windows' /\ HeaderFits' /\ Releasing' /\ Committing'
  BY <1>1 DEF Windows, HeaderFits, Releasing, Committing, TypeOK
<1> QED BY <1>2, <1>3

LEMMA StoreReadInv == ASSUME RingInv, StoreRead PROVE RingInv'
<1> USE DEF RingInv
<1>1. /\ Read' = seen /\ wake' = FALSE /\ looked' = FALSE /\ rpc' = "ready"
      /\ UNCHANGED <<Head, Tail, cells, seen, settled, settledOff, evicted, rtail, log>>
      /\ UNCHANGED <<woff, wtail, filled, room, wpc, pend>>
  BY DEF StoreRead, writer
<1>2. TypeOK'
  BY <1>1 DEF TypeOK
<1>3. Windows' /\ HeaderFits' /\ Releasing' /\ Committing'
  BY <1>1 DEF Windows, HeaderFits, Releasing, Committing, TypeOK
<1> QED BY <1>2, <1>3

LEMMA RingStep == RingInv /\ [Next]_vars => RingInv'
<1> SUFFICES ASSUME RingInv, [Next]_vars PROVE RingInv'
  OBVIOUS
<1>1. CASE Available
  BY <1>1, AvailableInv
<1>2. ASSUME NEW n \in 1 .. Capacity, Fill(n) PROVE RingInv'
  BY <1>2, FillInv
<1>3. ASSUME NEW kind \in Kinds, Commit(kind) PROVE RingInv'
  BY <1>3, CommitInv
<1>4. CASE WriteHeader
  BY <1>4, WriteHeaderInv
<1>5. CASE StoreHead
  BY <1>5, StoreHeadInv
<1>6. CASE LoadRead
  BY <1>6, LoadReadInv
<1>7. CASE LoadHead \/ EndOffset
  BY <1>7, LookInv
<1>8. ASSUME NEW keep \in Boundaries, Advance(keep) PROVE RingInv'
  BY <1>8, AdvanceInv
<1>9. CASE StoreTail
  BY <1>9, StoreTailInv
<1>10. CASE StoreRead
  BY <1>10, StoreReadInv
<1>11. CASE UNCHANGED vars
  BY <1>11 DEF vars, RingInv, TypeOK, Windows, HeaderFits, Releasing, Committing
<1> QED
  BY <1>1, <1>2, <1>3, <1>4, <1>5, <1>6, <1>7, <1>8, <1>9, <1>10, <1>11
     DEF Next, WriterStep, ReaderStep

THEOREM RingInvariant == Spec => []RingInv
BY RingInit, RingStep, PTL DEF Spec

(* Every variable keeps its range: no subtraction of Writer or Reader       *)
(* underflows, however far the ring has run.                                *)
THEOREM TypesHold == Spec => []TypeOK
BY RingInvariant, PTL DEF RingInv

(* The stale copies each side acts on are safe: the writer's bytes end      *)
(* before the oldest byte that may still be read (Writer::fits against      *)
(* Reader::advance).                                                        *)
THEOREM WindowsHold == Spec => []Windows
BY RingInvariant, PTL DEF RingInv

-----------------------------------------------------------------------------
(* Wakeups.                                                                 *)

LEMMA WakeupStep == RingInv /\ NoLostWakeup /\ [Next]_vars => NoLostWakeup'
<1> SUFFICES ASSUME RingInv, NoLostWakeup, [Next]_vars PROVE NoLostWakeup'
  OBVIOUS
<1> USE DEF NoLostWakeup
<1>1. CASE Available
  BY <1>1 DEF Available, words, reader
<1>2. ASSUME NEW n \in 1 .. Capacity, Fill(n) PROVE NoLostWakeup'
  BY <1>2 DEF Fill, words, reader
<1>3. ASSUME NEW kind \in Kinds, Commit(kind) PROVE NoLostWakeup'
  BY <1>3 DEF Commit, words, reader
<1>4. CASE WriteHeader
  BY <1>4 DEF WriteHeader, words, reader
<1>5. CASE StoreHead
  <2>1. pend.at = Head /\ wpc # "published" /\ seen <= Head /\ seen \in Nat /\ Head \in Nat
    BY <1>5 DEF StoreHead, RingInv, Committing, Windows, TypeOK
  <2>2. wpc' = "published" /\ UNCHANGED <<pend, wake, looked, Read, seen>>
    BY <1>5 DEF StoreHead, reader
  <2>3. CASE seen = Head
    BY <2>1, <2>2, <2>3
  <2>4. CASE seen < Head
    BY <2>1, <2>2, <2>4
  <2> QED BY <2>1, <2>3, <2>4
<1>6. CASE LoadRead
  BY <1>6 DEF LoadRead, words, reader
<1>7. CASE LoadHead \/ EndOffset
  BY <1>7 DEF LoadHead, EndOffset, words, RingInv, TypeOK
<1>8. ASSUME NEW keep \in Boundaries, Advance(keep) PROVE NoLostWakeup'
  BY <1>8 DEF Advance, words, writer
<1>9. CASE StoreTail
  BY <1>9 DEF StoreTail, writer
<1>10. CASE StoreRead
  BY <1>10 DEF StoreRead
<1>11. CASE UNCHANGED vars
  BY <1>11 DEF vars
<1> QED
  BY <1>1, <1>2, <1>3, <1>4, <1>5, <1>6, <1>7, <1>8, <1>9, <1>10, <1>11
     DEF Next, WriterStep, ReaderStep

(* A reader that goes to sleep is woken for every record it missed (the     *)
(* comment on sequential consistency in mapping.rs).                        *)
THEOREM WakeupsHold == Spec => []NoLostWakeup
<1>1. Init => NoLostWakeup
  BY DEF Init, NoLostWakeup
<1> QED BY RingInvariant, WakeupStep, <1>1, PTL DEF Spec

-----------------------------------------------------------------------------
(* What is retained.                                                        *)

(* What an advance under way releases begins in the older half.             *)
ReleasesOld ==
  rpc = "tail" => \A r \in Passed(Tail, rtail) : r.at < seen - Capacity \div 2

LEMMA RetainBound ==
  ASSUME NEW s \in Nat, NEW keep \in Nat, NEW p \in Nat, p < Retain(s, keep)
  PROVE  p < s - Capacity \div 2
BY FormatAssumption DEF Retain, Lesser, Floor0

LEMMA AdvanceReleasesOld ==
  ASSUME NEW keep \in Boundaries, RingInv, Advance(keep)
  PROVE  ReleasesOld'
<1> SUFFICES ASSUME rpc' = "tail", NEW r \in log, Tail <= r.at, r.at < rtail'
             PROVE  r.at < seen - Capacity \div 2
  BY DEF ReleasesOld, Passed, Advance, words
<1>1. PICK to \in Boundaries : /\ StopsAt(to, Tail, Retain(seen, keep))
                               /\ Tail < to /\ rtail' = to
  BY DEF Advance, Release
<1>2. /\ to \in Nat /\ to <= seen /\ r.at \in Nat /\ seen \in Nat /\ keep \in Nat
      /\ Retain(seen, keep) \in Int
  BY <1>1, ReaderTypes, RecordType, FormatAssumption, SMTT(30)
     DEF RingInv, TypeOK, Boundaries, Retain, Lesser, Floor0
<1>3. r.at \in Boundaries
  BY <1>1, <1>2 DEF Boundaries, RingInv, TypeOK
<1>4. r.at < Retain(seen, keep)
  BY <1>1, <1>2, <1>3 DEF StopsAt
<1> QED BY <1>2, <1>4, RetainBound

LEMMA ReleasesOldStep == RingInv /\ ReleasesOld /\ [Next]_vars => ReleasesOld'
<1> SUFFICES ASSUME RingInv, ReleasesOld, [Next]_vars PROVE ReleasesOld'
  OBVIOUS
<1>1. ASSUME UNCHANGED <<Tail, seen, rpc, rtail, log>> PROVE ReleasesOld'
  BY <1>1 DEF ReleasesOld, Passed
<1>2. CASE Available
  BY <1>1, <1>2 DEF Available, words, reader
<1>3. ASSUME NEW n \in 1 .. Capacity, Fill(n) PROVE ReleasesOld'
  BY <1>1, <1>3 DEF Fill, words, reader
<1>4. ASSUME NEW kind \in Kinds, Commit(kind) PROVE ReleasesOld'
  BY <1>1, <1>4 DEF Commit, words, reader
<1>5. CASE WriteHeader
  BY <1>1, <1>5 DEF WriteHeader, words, reader
<1>6. CASE StoreHead
  <2>1. /\ log' = log \cup {pend} /\ UNCHANGED <<Tail, seen, rpc, rtail>>
        /\ pend.at = Head
    BY <1>6 DEF StoreHead, reader, RingInv, Committing
  <2>2. rpc = "tail" => rtail <= pend.at
    BY <2>1 DEF RingInv, Releasing, Windows, TypeOK
  <2> QED BY <2>1, <2>2, RecordType DEF ReleasesOld, Passed, RingInv, TypeOK
<1>7. CASE LoadRead
  BY <1>1, <1>7 DEF LoadRead, words, reader
<1>8. CASE LoadHead \/ EndOffset
  BY <1>8 DEF LoadHead, EndOffset, ReleasesOld
<1>9. ASSUME NEW keep \in Boundaries, Advance(keep) PROVE ReleasesOld'
  BY <1>9, AdvanceReleasesOld
<1>10. CASE StoreTail
  BY <1>10 DEF StoreTail, ReleasesOld
<1>11. CASE StoreRead
  BY <1>11 DEF StoreRead, ReleasesOld
<1>12. CASE UNCHANGED vars
  BY <1>1, <1>12 DEF vars
<1> QED
  BY <1>2, <1>3, <1>4, <1>5, <1>6, <1>7, <1>8, <1>9, <1>10, <1>11, <1>12
     DEF Next, WriterStep, ReaderStep

LEMMA TailStep ==
  ReleasesOld /\ [Next]_vars => [\A r \in Passed(Tail, Tail') : r.at < seen - Capacity \div 2]_Tail
<1> SUFFICES ASSUME ReleasesOld, [Next]_vars, Tail' # Tail
             PROVE  \A r \in Passed(Tail, Tail') : r.at < seen - Capacity \div 2
  OBVIOUS
<1>1. StoreTail
  BY DEF vars, Next, WriterStep, ReaderStep, Available, Fill, Commit, WriteHeader, StoreHead,
         LoadRead, LoadHead, EndOffset, Advance, StoreRead, words
<1> QED BY <1>1 DEF StoreTail, ReleasesOld

(* The tail never passes a record that begins in the newest half of the     *)
(* buffer, so a view half a buffer late resumes without a snapshot          *)
(* (Reader::advance).                                                       *)
THEOREM HalfIsKept == Spec => KeepsHalf
<1>1. Init => ReleasesOld
  BY DEF Init, ReleasesOld
<1>2. Spec => []ReleasesOld
  BY <1>1, RingInvariant, ReleasesOldStep, PTL DEF Spec
<1> QED BY <1>2, TailStep, PTL DEF Spec, KeepsHalf

-----------------------------------------------------------------------------
(* What available() answers.                                                *)

(* The room answered with a pad is good once the pad is committed.          *)
RoomAfterPad ==
  wpc # "ready" =>
    \A n \in 1 .. room :
      EndOf(pend) + Header + n <= MaxHead => Fits(EndOf(pend), wtail, n)

LEMMA RoomInit == Init => RoomIsUsable /\ RoomAfterPad
BY DEF Init, RoomIsUsable, RoomAfterPad

LEMMA RoomStep ==
  RingInv /\ RoomIsUsable /\ RoomAfterPad /\ [Next]_vars => RoomIsUsable' /\ RoomAfterPad'
<1> SUFFICES ASSUME RingInv, RoomIsUsable, RoomAfterPad, [Next]_vars
             PROVE  RoomIsUsable' /\ RoomAfterPad'
  OBVIOUS
<1>1. ASSUME UNCHANGED <<Head, wtail, room, wpc, pend>> PROVE RoomIsUsable' /\ RoomAfterPad'
  BY <1>1 DEF RoomIsUsable, RoomAfterPad
<1>2. CASE Available
  <2>1. Head \in Nat /\ Tail \in Nat /\ Head' = Head /\ wtail' = Tail /\ wpc = "ready"
    BY <1>2 DEF Available, words, RingInv, TypeOK
  <2>2. CASE /\ room' = LapRoom(Head, Tail) /\ wpc' = "header"
             /\ pend' = [kind |-> "pad", len |-> PadLen(Head), off |-> woff, at |-> Head]
    <3>1. EndOf(pend)' = Head + ToEnd(Head)
      BY <2>1, <2>2, ToEndType, FormatAssumption DEF EndOf, PadLen
    <3> QED BY <2>1, <2>2, <3>1, LapRoomFits DEF RoomIsUsable, RoomAfterPad
  <2>3. CASE room' = Room(Head, Tail) /\ UNCHANGED wpc
    BY <2>1, <2>3, RoomFits DEF RoomIsUsable, RoomAfterPad
  <2> QED BY <1>2, <2>2, <2>3 DEF Available
<1>3. ASSUME NEW n \in 1 .. Capacity, Fill(n) PROVE RoomIsUsable' /\ RoomAfterPad'
  BY <1>1, <1>3 DEF Fill, words
<1>4. ASSUME NEW kind \in Kinds, Commit(kind) PROVE RoomIsUsable' /\ RoomAfterPad'
  BY <1>4 DEF Commit, RoomIsUsable, RoomAfterPad
<1>5. CASE WriteHeader
  BY <1>5 DEF WriteHeader, RoomIsUsable, RoomAfterPad
<1>6. CASE StoreHead
  BY <1>6 DEF StoreHead, RoomIsUsable, RoomAfterPad
<1>7. CASE LoadRead
  BY <1>7 DEF LoadRead, words, RoomIsUsable, RoomAfterPad, RingInv, Committing
<1>8. CASE LoadHead \/ EndOffset
  BY <1>1, <1>8 DEF LoadHead, EndOffset, words, writer
<1>9. ASSUME NEW keep \in Boundaries, Advance(keep) PROVE RoomIsUsable' /\ RoomAfterPad'
  BY <1>1, <1>9 DEF Advance, words, writer
<1>10. CASE StoreTail
  BY <1>1, <1>10 DEF StoreTail, writer
<1>11. CASE StoreRead
  BY <1>1, <1>11 DEF StoreRead, writer
<1>12. CASE UNCHANGED vars
  BY <1>1, <1>12 DEF vars
<1> QED
  BY <1>2, <1>3, <1>4, <1>5, <1>6, <1>7, <1>8, <1>9, <1>10, <1>11, <1>12
     DEF Next, WriterStep, ReaderStep

(* What available() answered is not refused: a refusal stops the pane       *)
(* (Out::published).                                                        *)
THEOREM RoomHolds == Spec => []RoomIsUsable
BY RingInvariant, RoomInit, RoomStep, PTL DEF Spec

-----------------------------------------------------------------------------
(* The bytes.                                                               *)

LEMMA CellInjective ==
  ASSUME NEW p \in Int, NEW q \in Int, p < q, q < p + Capacity
  PROVE  Cell(p) # Cell(q)
<1>1. Capacity \in Nat \ {0}
  BY FormatAssumption
<1> QED BY <1>1, ModInjective DEF Cell

LEMMA CellType ==
  ASSUME NEW p \in Int
  PROVE  Cell(p) \in 0 .. Capacity - 1
<1>1. Capacity \in Nat \ {0}
  BY FormatAssumption
<1> QED BY <1>1, ModDef DEF Cell

LEMMA CellsDomain ==
  ASSUME TypeOK, NEW p \in Int
  PROVE  Cell(p) \in DOMAIN cells
<1>1. DOMAIN cells = 0 .. Capacity - 1
  BY DEF TypeOK
<1> QED BY <1>1, CellType

(* A write of at most a lap leaves each of its positions in its cell, ...   *)
LEMMA WrittenIn ==
  ASSUME TypeOK, NEW from \in Int, NEW to \in Int, to <= from + Capacity,
         NEW p \in from .. to - 1
  PROVE  Written(from, to)[Cell(p)] = p
<1> DEFINE c == CHOOSE q \in from .. to - 1 : Cell(q) = Cell(p)
<1>0. p \in Int /\ Capacity \in Int
  BY FormatAssumption
<1>1. c \in from .. to - 1 /\ Cell(c) = Cell(p)
  OBVIOUS
<1>2. Cell(p) \in DOMAIN cells
  BY <1>0, CellsDomain
<1>3. Written(from, to)[Cell(p)] = c
  BY <1>2 DEF Written
<1> HIDE DEF c
<1>4. c \in Int /\ c < p + Capacity /\ p < c + Capacity
  BY <1>0, <1>1
<1>5. ~(c < p)
  BY <1>0, <1>1, <1>4, CellInjective
<1>6. ~(p < c)
  BY <1>0, <1>1, <1>4, CellInjective
<1>7. c = p
  BY <1>0, <1>4, <1>5, <1>6
<1> QED BY <1>3, <1>7

(* ... and the positions within a lap before and after it alone.            *)
LEMMA WrittenOut ==
  ASSUME TypeOK, NEW from \in Int, NEW to \in Int, NEW p \in Int,
         \/ p < from /\ to <= p + Capacity
         \/ to <= p /\ p < from + Capacity
  PROVE  Written(from, to)[Cell(p)] = cells[Cell(p)]
<1>0. Capacity \in Int
  BY FormatAssumption
<1>1. ASSUME NEW q \in from .. to - 1 PROVE Cell(q) # Cell(p)
  <2>1. q \in Int
    OBVIOUS
  <2>2. CASE p < q /\ q < p + Capacity
    BY <2>1, <2>2, CellInjective
  <2>3. CASE q < p /\ p < q + Capacity
    BY <2>1, <2>3, CellInjective
  <2> QED BY <1>0, <2>1, <2>2, <2>3
<1>2. Cell(p) \in DOMAIN cells
  BY CellsDomain
<1> QED BY <1>1, <1>2 DEF Written

(* The bytes of these positions are in the buffer. *)
Holds(from, to) == \A p \in from .. to - 1 : cells[Cell(p)] = p

(* What is staged behind the head, and what a commit has written so far.    *)
Staged ==
  /\ Holds(Tail, Head)
  /\ wpc = "ready" => Holds(Head + Header, Head + Header + filled)
  /\ wpc \in {"header", "publish"} => Holds(Head + Header, EndOf(pend))
  /\ wpc = "publish" => Holds(Head, Head + Header)

LEMMA StagedStep == RingInv /\ Staged /\ [Next]_vars => Staged'
<1> SUFFICES ASSUME RingInv, Staged, [Next]_vars PROVE Staged'
  OBVIOUS
<1>0. /\ Head \in Nat /\ Tail \in Nat /\ wtail \in Nat /\ filled \in Nat /\ Header \in Nat \ {0}
      /\ wtail <= Tail /\ Tail <= Head /\ Capacity \in Nat /\ TypeOK
  BY FormatAssumption DEF RingInv, TypeOK, Windows
<1>1. ASSUME UNCHANGED <<Head, Tail, cells, filled, wpc, pend>> PROVE Staged'
  BY <1>1 DEF Staged, Holds
<1>2. CASE Available
  <2>1. UNCHANGED <<Head, Tail>>
    BY <1>2 DEF Available, words
  <2>2. CASE /\ wpc' = "header" /\ cells' = Written(Head + Header, Head + ToEnd(Head))
             /\ ToEnd(Head) <= Free(Head, Tail)
             /\ pend' = [kind |-> "pad", len |-> PadLen(Head), off |-> woff, at |-> Head]
    <3>1. /\ EndOf(pend') = Head + ToEnd(Head) /\ ToEnd(Head) \in Nat
          /\ Head + ToEnd(Head) <= Tail + Capacity /\ ToEnd(Head) <= Capacity
      BY <1>0, <2>1, <2>2, ToEndType DEF EndOf, PadLen, Free
    <3>2. ASSUME NEW p \in Tail .. Head - 1 PROVE cells'[Cell(p)] = p
      BY <1>0, <2>2, <3>1, <3>2, WrittenOut DEF Staged, Holds
    <3>3. ASSUME NEW p \in Head + Header .. Head + ToEnd(Head) - 1 PROVE cells'[Cell(p)] = p
      BY <1>0, <2>2, <3>1, <3>3, WrittenIn
    <3>4. Holds(Tail, Head)'
      BY <2>1, <3>2 DEF Holds, Cell
    <3>5. \A p \in Head + Header .. EndOf(pend') - 1 : cells'[Cell(p)] = p
      BY <1>0, <3>1, <3>3
    <3>6. Holds(Head + Header, EndOf(pend))'
      BY <2>1, <3>5 DEF Holds, Cell, EndOf
    <3> QED BY <2>2, <3>4, <3>6 DEF Staged
  <2>3. CASE UNCHANGED <<pend, cells, filled, wpc>>
    BY <1>1, <2>1, <2>3
  <2> QED BY <1>2, <2>2, <2>3 DEF Available
<1>3. ASSUME NEW n \in 1 .. Capacity, Fill(n) PROVE Staged'
  <2> DEFINE from == Head + Header + filled
  <2>1. /\ wpc = "ready" /\ wpc' = "ready" /\ UNCHANGED <<Head, Tail>> /\ filled' = filled + n
        /\ cells' = Written(from, from + n)
    BY <1>3 DEF Fill, words
  <2>2. from \in Nat /\ from + n <= Tail + Capacity /\ from + n <= Head + Capacity
    BY <1>0, <1>3, ToEndType DEF Fill, Fits
  <2>3. ASSUME NEW p \in Tail .. Head - 1 PROVE cells'[Cell(p)] = p
    <3>1. cells[Cell(p)] = p
      BY <2>3 DEF Staged, Holds
    <3>2. p \in Int /\ p < from /\ from + n <= p + Capacity
      BY <1>0, <1>3, <2>2, <2>3
    <3> QED BY <1>0, <2>1, <2>2, <3>1, <3>2, WrittenOut
  <2>4. ASSUME NEW p \in Head + Header .. from - 1 PROVE cells'[Cell(p)] = p
    <3>1. cells[Cell(p)] = p
      BY <2>1, <2>4 DEF Staged, Holds
    <3>2. p \in Int /\ p < from /\ from + n <= p + Capacity
      BY <1>0, <1>3, <2>2, <2>4
    <3> QED BY <1>0, <2>1, <2>2, <3>1, <3>2, WrittenOut
  <2>5. ASSUME NEW p \in from .. from + n - 1 PROVE cells'[Cell(p)] = p
    BY <1>0, <2>1, <2>2, <2>5, WrittenIn
  <2> QED BY <1>0, <2>1, <2>3, <2>4, <2>5 DEF Staged, Holds, Cell
<1>4. ASSUME NEW kind \in Kinds, Commit(kind) PROVE Staged'
  BY <1>0, <1>4 DEF Commit, words, Staged, Holds, EndOf, Cell
<1>5. CASE WriteHeader
  <2>1. /\ wpc = "header" /\ wpc' = "publish" /\ UNCHANGED <<Head, Tail, pend>>
        /\ pend.at = Head /\ cells' = Written(Head, Head + Header)
    BY <1>5 DEF WriteHeader, words, RingInv, Committing
  <2>2. /\ EndOf(pend) \in Nat /\ Head + Header <= EndOf(pend)
        /\ EndOf(pend) <= Tail + Capacity /\ EndOf(pend) <= Head + Capacity
    <3>1. pend.len \in Nat /\ EndOf(pend) = Head + Header + pend.len
      BY <2>1 DEF TypeOK, RingInv, Record, EndOf
    <3>2. EndOf(pend) <= wtail + Capacity
      BY <1>0, <2>1, <3>1 DEF RingInv, Committing, Fits
    <3> QED BY <1>0, <3>1, <3>2 DEF TypeOK
  <2>3. ASSUME NEW p \in Tail .. Head - 1 PROVE cells'[Cell(p)] = p
    <3>1. cells[Cell(p)] = p
      BY <2>3 DEF Staged, Holds
    <3>2. p \in Int /\ p < Head /\ Head + Header <= p + Capacity
      BY <1>0, <2>2, <2>3
    <3> QED BY <1>0, <2>1, <3>1, <3>2, WrittenOut
  <2>4. ASSUME NEW p \in Head .. Head + Header - 1 PROVE cells'[Cell(p)] = p
    BY <1>0, <2>1, <2>2, <2>4, WrittenIn
  <2>5. ASSUME NEW p \in Head + Header .. EndOf(pend) - 1 PROVE cells'[Cell(p)] = p
    <3>1. cells[Cell(p)] = p
      BY <2>1, <2>5 DEF Staged, Holds
    <3>2. p \in Int /\ Head + Header <= p /\ p < Head + Capacity
      BY <1>0, <2>2, <2>5
    <3> QED BY <1>0, <2>1, <3>1, <3>2, WrittenOut
  <2> QED BY <1>0, <2>1, <2>3, <2>4, <2>5 DEF Staged, Holds, Cell, EndOf
<1>6. CASE StoreHead
  <2>1. /\ wpc = "publish" /\ wpc' = "published" /\ UNCHANGED <<Tail, cells>> /\ Head' = EndOf(pend)
        /\ EndOf(pend) \in Nat
    BY <1>6, RecordType DEF StoreHead, RingInv, TypeOK
  <2>2. ASSUME NEW p \in Tail .. EndOf(pend) - 1 PROVE cells[Cell(p)] = p
    BY <1>0, <2>1, <2>2 DEF Staged, Holds
  <2> QED BY <2>1, <2>2 DEF Staged, Holds, Cell
<1>7. CASE LoadRead
  <2>1. wpc' = "ready" /\ filled' = 0 /\ UNCHANGED <<Head, Tail, cells>>
    BY <1>7 DEF LoadRead, words
  <2> QED BY <1>0, <2>1 DEF Staged, Holds, Cell
<1>8. CASE LoadHead \/ EndOffset
  BY <1>1, <1>8 DEF LoadHead, EndOffset, words, writer
<1>9. ASSUME NEW keep \in Boundaries, Advance(keep) PROVE Staged'
  BY <1>1, <1>9 DEF Advance, words, writer
<1>10. CASE StoreTail
  <2>1. /\ Tail' = rtail /\ Tail <= rtail /\ rtail \in Nat
        /\ UNCHANGED <<Head, cells, filled, wpc, pend>>
    BY <1>10 DEF StoreTail, writer, RingInv, Releasing, TypeOK
  <2> QED BY <1>0, <2>1 DEF Staged, Holds, Cell
<1>11. CASE StoreRead
  BY <1>1, <1>11 DEF StoreRead, writer
<1>12. CASE UNCHANGED vars
  BY <1>1, <1>12 DEF vars
<1> QED
  BY <1>2, <1>3, <1>4, <1>5, <1>6, <1>7, <1>8, <1>9, <1>10, <1>11, <1>12
     DEF Next, WriterStep, ReaderStep

(* Every byte from the tail to the head is the one published at its         *)
(* position: no write of a later lap reaches it before it is released, and  *)
(* the Head store comes after the header and payload it publishes.          *)
THEOREM BytesHold == Spec => []Intact
<1>1. Init => Staged
  <2> SUFFICES ASSUME Init PROVE Staged
    OBVIOUS
  <2>1. Tail = 0 /\ Head = 0 /\ Header \in Nat /\ filled = 0 /\ wpc = "ready"
    BY FormatAssumption DEF Init
  <2>2. Holds(Tail, Head)
    BY <2>1 DEF Holds
  <2>3. Holds(Head + Header, Head + Header + filled)
    BY <2>1 DEF Holds
  <2> QED BY <2>1, <2>2, <2>3 DEF Staged
<1>2. Staged => Intact
  BY DEF Staged, Holds, Intact
<1> QED BY <1>1, <1>2, RingInvariant, StagedStep, PTL DEF Spec

-----------------------------------------------------------------------------
(* The log.  Ring implements RecordLog: the Head store publishes a record,  *)
(* the Tail store releases a prefix, and every other access to the words,   *)
(* the buffer or the caches is a stutter.  And what the reader caches of    *)
(* the log, instead of walking it again, is what a walk would find.         *)

(* The offset the writer counts is that of the head, except between the     *)
(* Head store and the end of the commit.                                    *)
Numbered ==
  /\ wpc # "published" => woff \in Promise!Ends
  /\ wpc \in {"header", "publish"} => pend.off = woff
  /\ wpc = "published" => pend \in log

(* What the reader saw and what it is about to release to are boundaries.   *)
Bounded ==
  /\ seen \in Promise!Starts
  /\ rpc = "tail" => rtail \in Promise!Starts /\ Tail < rtail

LEMMA NumberedStep == RingInv /\ Numbered /\ [Next]_vars => Numbered'
<1> SUFFICES ASSUME RingInv, Numbered, [Next]_vars PROVE Numbered'
  OBVIOUS
<1>1. ASSUME UNCHANGED <<log, Head>> PROVE Promise!Ends' = Promise!Ends
  BY <1>1 DEF Promise!Ends, Promise!EndOf, Promise!OffAfter
<1>2. ASSUME UNCHANGED <<log, Head, woff, wpc, pend>> PROVE Numbered'
  BY <1>1, <1>2 DEF Numbered
<1>3. CASE Available
  <2>1. UNCHANGED <<log, Head, woff>> /\ wpc = "ready"
    BY <1>3 DEF Available, words
  <2>2. \/ wpc' = "ready"
        \/ wpc' = "header" /\ pend'.off = woff
    BY <1>3 DEF Available
  <2> QED BY <1>1, <2>1, <2>2 DEF Numbered
<1>4. ASSUME NEW n \in 1 .. Capacity, Fill(n) PROVE Numbered'
  BY <1>2, <1>4 DEF Fill, words
<1>5. ASSUME NEW kind \in Kinds, Commit(kind) PROVE Numbered'
  <2>1. /\ UNCHANGED <<log, Head, woff>> /\ wpc = "ready"
        /\ wpc' = "header" /\ pend'.off = woff
    BY <1>5 DEF Commit, words
  <2> QED BY <1>1, <2>1 DEF Numbered
<1>6. CASE WriteHeader
  <2>1. UNCHANGED <<log, Head, woff, pend>> /\ wpc = "header" /\ wpc' = "publish"
    BY <1>6 DEF WriteHeader, words
  <2> QED BY <1>1, <2>1 DEF Numbered
<1>7. CASE StoreHead
  BY <1>7 DEF StoreHead, Numbered
<1>8. CASE LoadRead
  <2>1. /\ UNCHANGED <<log, Head>> /\ wpc = "published" /\ wpc' = "ready"
        /\ woff' = OffAfter(pend)
    BY <1>8 DEF LoadRead, words
  <2>2. pend \in log /\ EndOf(pend) = Head
    BY <2>1 DEF Numbered, RingInv, Committing
  <2>3. OffAfter(pend) \in Promise!Ends
    BY <2>2 DEF Promise!Ends, Promise!EndOf, Promise!OffAfter, EndOf, OffAfter
  <2> QED BY <1>1, <2>1, <2>3 DEF Numbered
<1>9. CASE LoadHead \/ EndOffset
  BY <1>2, <1>9 DEF LoadHead, EndOffset, words, writer
<1>10. ASSUME NEW keep \in Boundaries, Advance(keep) PROVE Numbered'
  BY <1>2, <1>10 DEF Advance, words, writer
<1>11. CASE StoreTail
  BY <1>2, <1>11 DEF StoreTail, writer
<1>12. CASE StoreRead
  BY <1>2, <1>12 DEF StoreRead, writer
<1>13. CASE UNCHANGED vars
  BY <1>2, <1>13 DEF vars
<1> QED
  BY <1>3, <1>4, <1>5, <1>6, <1>7, <1>8, <1>9, <1>10, <1>11, <1>12, <1>13
     DEF Next, WriterStep, ReaderStep

LEMMA BoundedStep == RingInv /\ Bounded /\ [Next]_vars => Bounded'
<1> SUFFICES ASSUME RingInv, Bounded, [Next]_vars PROVE Bounded'
  OBVIOUS
<1>1. ASSUME UNCHANGED <<log, Head>> PROVE Promise!Starts' = Promise!Starts
  BY <1>1 DEF Promise!Starts
<1>2. ASSUME UNCHANGED <<log, Head, Tail, seen, rpc, rtail>> PROVE Bounded'
  BY <1>1, <1>2 DEF Bounded
<1>3. CASE Available
  BY <1>2, <1>3 DEF Available, words, reader
<1>4. ASSUME NEW n \in 1 .. Capacity, Fill(n) PROVE Bounded'
  BY <1>2, <1>4 DEF Fill, words, reader
<1>5. ASSUME NEW kind \in Kinds, Commit(kind) PROVE Bounded'
  BY <1>2, <1>5 DEF Commit, words, reader
<1>6. CASE WriteHeader
  BY <1>2, <1>6 DEF WriteHeader, words, reader
<1>7. CASE StoreHead
  <2>1. /\ log' = log \cup {pend} /\ UNCHANGED <<Tail, seen, rpc, rtail>>
        /\ pend.at = Head
    BY <1>7 DEF StoreHead, reader, RingInv, Committing
  <2>2. Promise!Starts \subseteq Promise!Starts'
    BY <2>1 DEF Promise!Starts
  <2> QED BY <2>1, <2>2 DEF Bounded
<1>8. CASE LoadRead
  BY <1>2, <1>8 DEF LoadRead, words, reader
<1>9. CASE LoadHead \/ EndOffset
  <2>1. UNCHANGED <<log, Head>> /\ seen' = Head /\ rpc' = "ready"
    BY <1>9 DEF LoadHead, EndOffset, words
  <2> QED BY <2>1 DEF Bounded, Promise!Starts
<1>10. ASSUME NEW keep \in Boundaries, Advance(keep) PROVE Bounded'
  <2>1. UNCHANGED <<log, Head, Tail, seen>>
    BY <1>10 DEF Advance, words
  <2>2. PICK to \in Boundaries : IF Tail < to
                                 THEN rtail' = to
                                 ELSE rpc' = "read"
    BY <1>10 DEF Advance, Release
  <2>3. to \in Promise!Starts
    BY <2>2 DEF Boundaries, Promise!Starts, Bounded
  <2> QED BY <1>1, <2>1, <2>2, <2>3 DEF Bounded
<1>11. CASE StoreTail
  BY <1>1, <1>11 DEF StoreTail, Bounded
<1>12. CASE StoreRead
  BY <1>1, <1>12 DEF StoreRead, Bounded
<1>13. CASE UNCHANGED vars
  BY <1>2, <1>13 DEF vars
<1> QED
  BY <1>3, <1>4, <1>5, <1>6, <1>7, <1>8, <1>9, <1>10, <1>11, <1>12, <1>13
     DEF Next, WriterStep, ReaderStep

-----------------------------------------------------------------------------
LEMMA StoreHeadPublishes ==
  ASSUME RingInv, Numbered, StoreHead
  PROVE  /\ Promise!Publish(pend.kind, pend.len)
         /\ pend.kind \in Kind /\ pend.len \in 0 .. Capacity
<1>1. /\ Head' = EndOf(pend) /\ log' = log \cup {pend} /\ Tail' = Tail /\ wpc = "publish"
  BY DEF StoreHead
<1>2. /\ pend.at = Head /\ Fits(Head, wtail, pend.len) /\ pend \in Record
      /\ wtail \in Nat /\ Tail \in Nat /\ Head \in Nat /\ wtail <= Tail
  BY <1>1 DEF RingInv, Committing, TypeOK, Windows
<1>3. pend.len \in Nat /\ pend.kind \in Kind
  BY <1>2 DEF Record
<1>4. ToEnd(Head) \in 1 .. Capacity
  BY <1>2, ToEndType
<1>5. pend.len \in 0 .. Capacity
  BY <1>2, <1>3, <1>4, FormatAssumption DEF Fits
<1>6. Head + Header + pend.len <= Tail + Capacity
  BY <1>2, <1>3, FormatAssumption DEF Fits
<1>7. pend.off \in Promise!Ends
  BY <1>1 DEF Numbered
<1>8. pend = [kind |-> pend.kind, len |-> pend.len, off |-> pend.off, at |-> Head]
  BY <1>2 DEF Record
<1>9. Head' = Head + Header + pend.len
  BY <1>1, <1>2 DEF EndOf
<1> QED BY <1>1, <1>3, <1>5, <1>6, <1>7, <1>8, <1>9 DEF Promise!Publish

LEMMA StoreTailReleases ==
  ASSUME RingInv, ReleasesOld, Bounded, StoreTail
  PROVE  Promise!Release(rtail) /\ rtail \in Promise!Starts
<1>1. rpc = "tail" /\ Tail' = rtail /\ UNCHANGED <<log, Head>>
  BY DEF StoreTail
<1>2. rtail \in Promise!Starts /\ Tail < rtail
  BY <1>1 DEF Bounded
<1>3. rtail \in Nat /\ seen \in Nat /\ Head \in Nat /\ rtail <= seen /\ seen <= Head
  BY <1>1 DEF RingInv, TypeOK, Windows, Releasing
<1>4. ASSUME NEW r \in log, Tail <= r.at, r.at < rtail
      PROVE  r.at < Head - Capacity \div 2
  <2>1. r.at < seen - Capacity \div 2
    BY <1>1, <1>4 DEF ReleasesOld, Passed
  <2>2. r.at \in Nat
    BY <1>4, RecordType DEF RingInv, TypeOK
  <2> QED BY <1>3, <2>1, <2>2, FormatAssumption
<1>5. rtail <= Head
  BY <1>3
<1> QED BY <1>1, <1>2, <1>4, <1>5 DEF Promise!Release

LEMMA LogStep ==
  RingInv /\ ReleasesOld /\ Numbered /\ Bounded /\ [Next]_vars
    => [Promise!LogNext]_(Promise!ring)
<1> SUFFICES ASSUME RingInv, ReleasesOld, Numbered, Bounded, [Next]_vars
             PROVE  Promise!LogNext \/ UNCHANGED <<log, Head, Tail>>
  BY DEF Promise!ring
<1>1. CASE StoreHead
  BY <1>1, StoreHeadPublishes DEF Promise!LogNext, Promise!Kind, Kind
<1>2. CASE StoreTail
  BY <1>2, StoreTailReleases DEF Promise!LogNext
<1>3. CASE ~StoreHead /\ ~StoreTail
  BY <1>3 DEF vars, Next, WriterStep, ReaderStep, Available, Fill, Commit, WriteHeader,
              LoadRead, LoadHead, EndOffset, Advance, StoreRead, words
<1> QED BY <1>1, <1>2, <1>3

(* For whoever uses the ring it is the log of RecordLog: records appear     *)
(* whole, with consecutive offsets, never over what is kept, and the tail   *)
(* moves forward from record to record behind the newest half               *)
(* (Writer::commit, Reader::advance).                                       *)
THEOREM LogImplemented == Spec => ImplementsLog
<1>1. Init => Promise!LogInit
  BY DEF Init, Promise!LogInit
<1>2. Init => ReleasesOld
  BY DEF Init, ReleasesOld
<1>3. Init => Numbered
  BY DEF Init, Numbered, Promise!Ends
<1>4. Init => Bounded
  BY DEF Init, Bounded, Promise!Starts
<1> QED
  BY <1>1, <1>2, <1>3, <1>4, RingInvariant, ReleasesOldStep, NumberedStep, BoundedStep, LogStep,
     PTL DEF Spec, ImplementsLog, Promise!LogSpec

-----------------------------------------------------------------------------
(* The records tile the positions up to the head, and their offsets follow  *)
(* on one another.                                                          *)

Starts == {r.at : r \in log} \cup {Head}

Tiled ==
  /\ \A r \in log : EndOf(r) <= Head
  /\ \A r, q \in log : r = q \/ EndOf(r) <= q.at \/ EndOf(q) <= r.at
  /\ \A b \in Starts : b = 0 \/ \E q \in log : EndOf(q) = b
  /\ \A r \in log : \/ r.at = 0 /\ r.off = 0
                    \/ \E q \in log : EndOf(q) = r.at /\ OffAfter(q) = r.off

LEMMA StartsType ==
  ASSUME TypeOK
  PROVE  Starts \subseteq Nat /\ Head \in Starts /\ Promise!Starts = Starts
BY RecordType DEF TypeOK, Starts, Promise!Starts

LEMMA TiledStep == RingInv /\ Numbered /\ Tiled /\ [Next]_vars => Tiled'
<1> SUFFICES ASSUME RingInv, Numbered, Tiled, [Next]_vars PROVE Tiled'
  OBVIOUS
<1>1. CASE StoreHead
  <2>1. /\ log' = log \cup {pend} /\ Head' = EndOf(pend) /\ pend.at = Head
        /\ pend \in Record /\ wpc = "publish"
    BY <1>1 DEF StoreHead, RingInv, Committing, TypeOK
  <2>2. /\ pend.at \in Nat /\ EndOf(pend) \in Nat /\ pend.at < EndOf(pend)
        /\ \A r \in log : r.at \in Nat /\ EndOf(r) \in Nat /\ r.at < EndOf(r)
    BY <2>1, RecordType DEF RingInv, TypeOK
  <2>3. \A r \in log' : EndOf(r) <= Head'
    BY <2>1, <2>2 DEF Tiled
  <2>4. \A r, q \in log' : r = q \/ EndOf(r) <= q.at \/ EndOf(q) <= r.at
    BY <2>1, <2>2 DEF Tiled
  <2>5. \A b \in Starts' : b = 0 \/ \E q \in log' : EndOf(q) = b
    <3>1. Starts' = Starts \cup {EndOf(pend)}
      BY <2>1 DEF Starts
    <3> QED BY <2>1, <3>1 DEF Tiled
  <2>6. \/ pend.at = 0 /\ pend.off = 0
        \/ \E q \in log : EndOf(q) = pend.at /\ OffAfter(q) = pend.off
    <3>1. pend.off \in Promise!Ends
      BY <2>1 DEF Numbered
    <3>2. CASE log = {}
      <4>1. Head = 0
        BY <3>2 DEF Tiled, Starts
      <4> QED BY <2>1, <3>1, <3>2, <4>1 DEF Promise!Ends
    <3>3. CASE log # {}
      BY <2>1, <3>1, <3>3 DEF Promise!Ends, Promise!EndOf, Promise!OffAfter, EndOf, OffAfter
    <3> QED BY <3>2, <3>3
  <2>7. \A r \in log' : \/ r.at = 0 /\ r.off = 0
                        \/ \E q \in log' : EndOf(q) = r.at /\ OffAfter(q) = r.off
    BY <2>1, <2>6 DEF Tiled
  <2> QED BY <2>3, <2>4, <2>5, <2>7 DEF Tiled
<1>2. CASE ~StoreHead
  <2>1. UNCHANGED <<log, Head>>
    BY <1>2 DEF vars, Next, WriterStep, ReaderStep, Available, Fill, Commit, WriteHeader,
                LoadRead, LoadHead, EndOffset, Advance, StoreTail, StoreRead, words
  <2> QED BY <2>1 DEF Tiled, Starts
<1> QED BY <1>1, <1>2

-----------------------------------------------------------------------------
(* What the reader caches: the offset at a position, and the end of the last*)
(* output that was released.                                                *)

Released == IF rpc = "tail" THEN rtail ELSE Tail

(* off is the offset of position pos.                                       *)
Exact(pos, off) ==
  /\ pos = 0 => off = 0
  /\ \A r \in log : EndOf(r) = pos => OffAfter(r) = off

(* lost says which cursors are behind a tail at pos.                        *)
Tells(lost, pos) ==
  /\ lost <= pos
  /\ \A b \in Starts :
       b < lost <=> \E r \in log : r.kind \in DataKind /\ b <= r.at /\ r.at < pos

CacheInv ==
  /\ Tail \in Starts /\ settled \in Starts /\ settled <= seen
  /\ Released <= settled
  /\ Exact(settled, settledOff)
  /\ Tells(evicted, Released)

(* A walk from a boundary finds the offset where it ends.                   *)
LEMMA WalkExact ==
  ASSUME TypeOK, Tiled, NEW low \in Starts, NEW high \in Starts, low <= high, high <= Head,
         NEW old, low = high => Exact(high, old), NEW new \in OffsetsAt(low, high, old)
  PROVE  Exact(high, new)
<1>1. low \in Nat /\ high \in Nat /\ Head \in Nat
  BY StartsType DEF TypeOK
<1>2. CASE Passed(low, high) = {}
  <2>1. low = high
    BY <1>1, <1>2 DEF Passed, Starts
  <2> QED BY <1>2, <2>1 DEF OffsetsAt
<1>3. CASE Passed(low, high) # {}
  <2>1. PICK q \in log : EndOf(q) = high /\ OffAfter(q) = new
    BY <1>3 DEF OffsetsAt, Passed
  <2>2. \A r \in log : r.at \in Nat /\ EndOf(r) \in Nat /\ r.at < EndOf(r)
    BY RecordType DEF TypeOK
  <2>3. \A r \in log : EndOf(r) = high => r = q
    BY <2>1, <2>2 DEF Tiled
  <2> QED BY <2>1, <2>2, <2>3 DEF Exact
<1> QED BY <1>2, <1>3

(* The last data record passed decides who is behind.                       *)
LEMMA WalkTells ==
  ASSUME TypeOK, Tiled, NEW from \in Starts, NEW to \in Starts, from < to, to <= Head,
         Tells(evicted, from), NEW lost \in LostEnds(from, to)
  PROVE  Tells(lost, to)
<1>1. from \in Nat /\ to \in Nat /\ Head \in Nat /\ evicted \in Nat /\ Starts \subseteq Nat
  BY StartsType DEF TypeOK
<1>2. \A r \in log : r.at \in Nat /\ EndOf(r) \in Nat /\ r.at < EndOf(r)
  BY RecordType DEF TypeOK
<1>3. \A b \in Starts, r \in log : r.at < b => EndOf(r) <= b
  <2> SUFFICES ASSUME NEW b \in Starts, NEW r \in log, r.at < b PROVE EndOf(r) <= b
    OBVIOUS
  <2>1. CASE b = Head
    BY <2>1 DEF Tiled
  <2>2. CASE b # Head
    <3>1. PICK q \in log : q.at = b
      BY <2>2 DEF Starts
    <3>2. q # r /\ ~(EndOf(q) <= r.at)
      BY <1>1, <1>2, <3>1
    <3> QED BY <3>1, <3>2 DEF Tiled
  <2> QED BY <2>1, <2>2
<1>4. CASE {r \in Passed(from, to) : r.kind \in DataKind} = {}
  <2>1. lost = evicted
    BY <1>4 DEF LostEnds
  <2>2. \A r \in log : r.kind \in DataKind => (r.at < to <=> r.at < from)
    BY <1>1, <1>2, <1>4 DEF Passed
  <2> QED BY <1>1, <2>1, <2>2 DEF Tells
<1>5. CASE {r \in Passed(from, to) : r.kind \in DataKind} # {}
  <2>1. PICK m \in log : /\ m.kind \in DataKind /\ from <= m.at /\ m.at < to /\ lost = EndOf(m)
                         /\ \A r \in log : r.kind \in DataKind /\ from <= r.at /\ r.at < to
                              => EndOf(r) <= lost
    BY <1>5 DEF LostEnds, Passed
  <2>2. lost <= to
    BY <1>3, <2>1
  <2>3. ASSUME NEW b \in Starts, b < lost
        PROVE  \E r \in log : r.kind \in DataKind /\ b <= r.at /\ r.at < to
    <3>1. b <= m.at
      BY <1>1, <1>2, <1>3, <2>1, <2>3
    <3> QED BY <2>1, <3>1
  <2>4. ASSUME NEW b \in Starts, NEW r \in log, r.kind \in DataKind, b <= r.at, r.at < to
        PROVE  b < lost
    <3>1. CASE from <= r.at
      BY <1>1, <1>2, <2>1, <2>4, <3>1
    <3>2. CASE r.at < from
      BY <1>1, <1>2, <2>1, <2>4, <3>2
    <3> QED BY <1>1, <1>2, <3>1, <3>2
  <2> QED BY <2>2, <2>3, <2>4 DEF Tells
<1> QED BY <1>4, <1>5

LEMMA CacheKept ==
  ASSUME CacheInv, UNCHANGED <<log, Head, settled, settledOff, evicted>>,
         Released' = Released, Tail' \in Starts, settled <= seen'
  PROVE  CacheInv'
<1>1. Starts' = Starts
  BY DEF Starts
<1> QED BY <1>1 DEF CacheInv, Exact, Tells

LEMMA CacheStoreHead ==
  ASSUME RingInv, Numbered, Tiled, CacheInv, StoreHead
  PROVE  CacheInv'
<1>1. /\ log' = log \cup {pend} /\ Head' = EndOf(pend) /\ pend.at = Head
      /\ UNCHANGED <<Tail, seen, settled, settledOff, evicted, rpc, rtail>>
      /\ pend \in Record
  BY DEF StoreHead, reader, RingInv, Committing, TypeOK
<1>2. /\ EndOf(pend) \in Nat /\ Head \in Nat /\ Head < EndOf(pend) /\ Starts \subseteq Nat
      /\ evicted \in Nat /\ settled \in Nat /\ seen \in Nat /\ seen <= Head
      /\ Released \in Nat /\ Released <= Head
  BY <1>1, RecordType, StartsType DEF RingInv, TypeOK, Windows, Released, CacheInv
<1>3. Released' = Released /\ Starts' = Starts \cup {EndOf(pend)}
  BY <1>1 DEF Released, Starts
<1>4. Exact(settled, settledOff)'
  BY <1>1, <1>2 DEF CacheInv, Exact
<1>5. Tells(evicted, Released)'
  <2>1. evicted <= Released
    BY DEF CacheInv, Tells
  <2>2. ASSUME NEW b \in Starts'
        PROVE  b < evicted <=>
                 \E r \in log' : r.kind \in DataKind /\ b <= r.at /\ r.at < Released
    <3>1. (\E r \in log' : r.kind \in DataKind /\ b <= r.at /\ r.at < Released)
            <=> \E r \in log : r.kind \in DataKind /\ b <= r.at /\ r.at < Released
      BY <1>1, <1>2
    <3>2. CASE b \in Starts
      BY <3>1, <3>2 DEF CacheInv, Tells
    <3>3. CASE b = EndOf(pend)
      <4>1. ~(b < evicted)
        BY <1>2, <2>1, <3>3
      <4>2. \A r \in log : r.at \in Nat /\ r.at < EndOf(r) /\ EndOf(r) \in Nat /\ EndOf(r) <= Head
        BY RecordType DEF RingInv, TypeOK, Tiled
      <4> QED BY <1>2, <3>1, <3>3, <4>1, <4>2
    <3> QED BY <1>3, <2>2, <3>2, <3>3
  <2> QED BY <1>1, <1>3, <2>1, <2>2 DEF Tells
<1> QED BY <1>1, <1>3, <1>4, <1>5 DEF CacheInv

LEMMA CacheAdvance ==
  ASSUME RingInv, Bounded, Tiled, CacheInv, NEW keep \in Boundaries, Advance(keep)
  PROVE  CacheInv'
<1>1. /\ UNCHANGED <<Head, Tail, seen, log>> /\ rpc = "ready"
      /\ Starts' = Starts /\ TypeOK
  BY DEF Advance, words, Starts, RingInv
<1>2. PICK to \in Boundaries :
        IF Tail < to
        THEN Release(to) /\ rpc' = "tail"
        ELSE rpc' = "read" /\ UNCHANGED <<settled, settledOff, evicted, rtail>>
  BY DEF Advance
<1>3. to \in Starts /\ Starts \subseteq Nat
  BY <1>1, StartsType DEF Boundaries, Starts, Bounded
<1>4. /\ Released = Tail /\ Tail <= settled /\ settled <= seen /\ seen <= Head
      /\ {Tail, settled, seen, Head} \subseteq Nat
  BY <1>1 DEF Released, CacheInv, RingInv, Windows, TypeOK
<1>5. to <= seen
  BY <1>1, <1>3, <1>4, RecordType, ReaderTypes DEF Boundaries, TypeOK
<1>6. CASE Tail < to
  <2>1. /\ rtail' = to /\ rpc' = "tail" /\ evicted' \in LostEnds(Tail, to)
        /\ IF settled < to
           THEN settled' = to /\ settledOff' \in OffsetsAt(Tail, to, settledOff)
           ELSE UNCHANGED <<settled, settledOff>>
    BY <1>2, <1>6 DEF Release
  <2>2. Tells(evicted', to)
    BY <1>1, <1>3, <1>4, <1>5, <1>6, <2>1, WalkTells DEF CacheInv
  <2>3. Exact(settled', settledOff')
    <3>1. CASE settled < to
      <4>1. settled' = to /\ settledOff' \in OffsetsAt(Tail, to, settledOff)
        BY <2>1, <3>1
      <4>2. Tail \in Starts /\ Tail <= to /\ Tail # to /\ to <= Head
        BY <1>3, <1>4, <1>5, <1>6 DEF CacheInv
      <4> QED BY <1>1, <1>3, <4>1, <4>2, WalkExact
    <3>2. CASE ~(settled < to)
      BY <2>1, <3>2 DEF CacheInv
    <3> QED BY <3>1, <3>2
  <2>4. settled' \in Starts /\ to <= settled' /\ settled' <= seen
    BY <1>3, <1>4, <1>5, <2>1 DEF CacheInv
  <2>5. Released' = to
    BY <2>1 DEF Released
  <2> QED BY <1>1, <2>2, <2>3, <2>4, <2>5 DEF CacheInv, Exact, Tells
<1>7. CASE ~(Tail < to)
  <2>1. rpc' = "read" /\ UNCHANGED <<settled, settledOff, evicted, rtail>>
    BY <1>2, <1>7
  <2> QED BY <1>1, <1>4, <2>1, CacheKept DEF Released, CacheInv
<1> QED BY <1>6, <1>7

LEMMA CacheStep ==
  RingInv /\ Numbered /\ Bounded /\ Tiled /\ CacheInv /\ [Next]_vars => CacheInv'
<1> SUFFICES ASSUME RingInv, Numbered, Bounded, Tiled, CacheInv, [Next]_vars PROVE CacheInv'
  OBVIOUS
<1>1. /\ Tail \in Starts /\ settled <= seen /\ settled <= Head /\ seen <= Head
      /\ settled \in Nat /\ Head \in Nat /\ TypeOK
  BY DEF CacheInv, RingInv, Windows, TypeOK
<1>2. CASE StoreHead
  BY <1>2, CacheStoreHead
<1>3. CASE LoadHead
  BY <1>1, <1>3, CacheKept DEF LoadHead, words, Released
<1>4. CASE EndOffset
  <2>1. /\ UNCHANGED <<Head, Tail, log, evicted, rpc, rtail>> /\ seen' = Head
        /\ settled' = Head /\ settledOff' \in OffsetsAt(settled, Head, settledOff)
    BY <1>4 DEF EndOffset, words
  <2>2. Exact(Head, settledOff')
    <3>1. settled \in Starts /\ Head \in Starts /\ Head <= Head
      BY <1>1, StartsType DEF CacheInv
    <3>2. settled = Head => Exact(Head, settledOff)
      BY DEF CacheInv
    <3> QED BY <1>1, <2>1, <3>1, <3>2, WalkExact
  <2>3. Released' = Released /\ Starts' = Starts /\ Head \in Starts
    BY <2>1 DEF Released, Starts
  <2>4. Released <= Head
    BY <1>1 DEF CacheInv, Released, RingInv, Releasing, Windows, TypeOK
  <2> QED BY <1>1, <2>1, <2>2, <2>3, <2>4 DEF CacheInv, Exact, Tells
<1>5. ASSUME NEW keep \in Boundaries, Advance(keep) PROVE CacheInv'
  BY <1>5, CacheAdvance
<1>6. CASE StoreTail
  <2>1. /\ Tail' = rtail /\ Released' = Released
        /\ UNCHANGED <<Head, log, seen, settled, settledOff, evicted>>
    BY <1>6 DEF StoreTail, Released
  <2>2. rtail \in Starts
    BY <1>1, <1>6, StartsType DEF StoreTail, Bounded
  <2> QED BY <1>1, <2>1, <2>2, CacheKept
<1>7. CASE StoreRead
  BY <1>1, <1>7, CacheKept DEF StoreRead, Released
<1>8. ASSUME UNCHANGED <<Head, Tail, log, reader>> PROVE CacheInv'
  BY <1>1, <1>8, CacheKept DEF reader, Released
<1>9. CASE \/ Available \/ (\E n \in 1 .. Capacity : Fill(n))
           \/ (\E kind \in Kinds : Commit(kind)) \/ WriteHeader \/ LoadRead \/ UNCHANGED vars
  <2>1. UNCHANGED <<Head, Tail, log, reader>>
    BY <1>9 DEF Available, Fill, Commit, WriteHeader, LoadRead, vars, words, reader
  <2> QED BY <1>8, <2>1
<1> QED
  BY <1>2, <1>3, <1>4, <1>5, <1>6, <1>7, <1>9 DEF Next, WriterStep, ReaderStep

(* The reader's shortcuts are exact: the offset it cached is that of the    *)
(* position it cached it for, and a cursor is behind exactly when output    *)
(* after it was released (Reader::end_offset, Reader::advance,              *)
(* Reader::reachable).                                                      *)
THEOREM CachesHold == Spec => []CachesExact
<1>1. Init => Numbered /\ Bounded /\ Tiled /\ CacheInv
  BY DEF Init, Numbered, Bounded, Promise!Ends, Promise!Starts, Tiled, Starts, CacheInv,
         Released, Exact, Tells
<1>2. RingInv /\ Tiled /\ CacheInv => CachesExact
  <2> SUFFICES ASSUME RingInv, Tiled, CacheInv PROVE CachesExact
    OBVIOUS
  <2>1. SettledExact
    <3>1. rpc # "tail" => Tail <= settled
      BY DEF CacheInv, Released
    <3>2. ASSUME NEW r \in log, r.at = settled PROVE r.off = settledOff
      BY <3>2 DEF Tiled, CacheInv, Exact
    <3> QED BY <3>1, <3>2 DEF SettledExact, CacheInv, Exact
  <2>2. EvictedExact
    BY DEF EvictedExact, CacheInv, Tells, Released, Starts
  <2> QED BY <2>1, <2>2 DEF CachesExact
<1> QED
  BY <1>1, <1>2, RingInvariant, NumberedStep, BoundedStep, TiledStep, CacheStep, PTL DEF Spec
=============================================================================
