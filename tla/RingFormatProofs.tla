-------------------------- MODULE RingFormatProofs --------------------------
(***************************************************************************)
(* Facts about the arithmetic of RingFormat, for every header length,      *)
(* capacity and bound that FormatAssumption admits: the place of a position*)
(* in the buffer, the end of the lap, and what the answers of available()  *)
(* are good for.  RingProofs and PaneLinkProofs rest on them.              *)
(***************************************************************************)
EXTENDS RingFormat, TLAPS

-----------------------------------------------------------------------------
(* Arithmetic of the places in the buffer.                                  *)

LEMMA ModDef ==
  ASSUME NEW C \in Nat \ {0}, NEW x \in Int
  PROVE  /\ x = C * (x \div C) + (x % C)
         /\ x \div C \in Int
         /\ x % C \in 0 .. C - 1
OBVIOUS

LEMMA ModUnique ==
  ASSUME NEW C \in Nat \ {0}, NEW q \in Int, NEW r \in 0 .. C - 1
  PROVE  (C * q + r) % C = r
OBVIOUS

(* A step that stays in the lap adds up, ...                                *)
LEMMA ModAdd ==
  ASSUME NEW C \in Nat \ {0}, NEW x \in Int, NEW d \in Nat, d < C - (x % C)
  PROVE  (x + d) % C = (x % C) + d
<1> DEFINE q == x \div C
           r == x % C
<1>1. q \in Int /\ r \in 0 .. C - 1 /\ x = C * q + r
  BY ModDef
<1>2. x + d = C * q + (r + d) /\ r + d \in 0 .. C - 1
  BY <1>1
<1> HIDE DEF q
<1> QED BY <1>1, <1>2, ModUnique

(* ... one to the end of the lap starts the next.                           *)
LEMMA ModWrap ==
  ASSUME NEW C \in Nat \ {0}, NEW x \in Int
  PROVE  (x + (C - (x % C))) % C = 0
<1> DEFINE q == x \div C
<1>1. x + (C - (x % C)) = C * (q + 1) + 0
  BY ModDef
<1>2. q + 1 \in Int /\ 0 \in 0 .. C - 1
  BY ModDef
<1> QED BY <1>1, <1>2, ModUnique

LEMMA Distribute ==
  ASSUME NEW C \in Int, NEW a \in Int, NEW b \in Int, NEW r \in Int
  PROVE  (C * b + r) - (C * a + r) = C * (b - a)
OBVIOUS

(* Positions less than a lap apart have different places.                   *)
LEMMA ModInjective ==
  ASSUME NEW C \in Nat \ {0}, NEW x \in Int, NEW y \in Int, x < y, y < x + C
  PROVE  x % C # y % C
<1> DEFINE k == (y \div C) - (x \div C)
<1> SUFFICES ASSUME x % C = y % C PROVE FALSE
  OBVIOUS
<1>1. /\ x = C * (x \div C) + (x % C) /\ y = C * (y \div C) + (x % C)
      /\ x \div C \in Int /\ y \div C \in Int /\ x % C \in Int
  BY ModDef
<1>2. y - x = C * k /\ k \in Int
  BY <1>1, Distribute
<1>3. CASE k <= 0
  <2>1. C * k <= 0
    BY <1>2, <1>3
  <2> QED BY <1>2, <2>1
<1>4. CASE k >= 1
  <2>1. C * k >= C
    BY <1>2, <1>4
  <2> QED BY <1>2, <2>1
<1> QED BY <1>2, <1>3, <1>4

-----------------------------------------------------------------------------
(* Room, pads and laps.                                                     *)

LEMMA ToEndType ==
  ASSUME NEW pos \in Nat
  PROVE  ToEnd(pos) \in 1 .. Capacity
BY FormatAssumption DEF ToEnd

LEMMA RoomType ==
  ASSUME NEW pos \in Nat, NEW tail \in Nat
  PROVE  Room(pos, tail) \in Nat /\ LapRoom(pos, tail) \in Nat
BY ToEndType, FormatAssumption DEF Room, LapRoom, Floor0, Lesser, Free, PadRoom

(* The distance to the end of the buffer after d more bytes.                *)
LEMMA ToEndAfter ==
  ASSUME NEW pos \in Nat, NEW d \in Nat, d <= ToEnd(pos)
  PROVE  ToEnd(pos + d) = (IF d = ToEnd(pos) THEN Capacity ELSE ToEnd(pos) - d)
<1>1. Capacity \in Nat \ {0}
  BY FormatAssumption
<1>2. CASE d = ToEnd(pos)
  <2> pos \in Int
    OBVIOUS
  <2>1. (pos + (Capacity - (pos % Capacity))) % Capacity = 0
    BY <1>1, ModWrap, Zenon
  <2>2. (pos + d) % Capacity = 0
    BY <1>2, <2>1 DEF ToEnd
  <2> QED BY <1>1, <1>2, <2>2 DEF ToEnd
<1>3. CASE d < ToEnd(pos)
  <2>1. (pos + d) % Capacity = (pos % Capacity) + d
    BY <1>1, <1>3, ModAdd DEF ToEnd
  <2>2. pos % Capacity \in Int
    BY <1>1, ModDef
  <2> QED BY <1>1, <1>3, <2>1, <2>2 DEF ToEnd
<1> QED BY <1>2, <1>3, ToEndType

(* Fits, without the bound that no ring reaches in its life.                *)
Placed(head, tail, len) ==
  /\ Header + len <= ToEnd(head)
  /\ Header + len = ToEnd(head) \/ 2 * Header + len <= ToEnd(head)
  /\ head + Header + len <= tail + Capacity

LEMMA FitsIsPlaced ==
  ASSUME NEW pos, NEW tail, NEW len
  PROVE  Fits(pos, tail, len) <=> Placed(pos, tail, len) /\ pos + Header + len <= MaxHead
BY DEF Fits, Placed

(* Where a record that fits ends, there is room for the next header.        *)
LEMMA HeaderFitsAfter ==
  ASSUME NEW pos \in Nat, NEW tail \in Nat, NEW len \in Nat, Placed(pos, tail, len)
  PROVE  Header <= ToEnd(pos + Header + len)
<1>1. Header + len \in Nat /\ Header + len <= ToEnd(pos)
  BY FormatAssumption DEF Placed
<1>2. ToEnd(pos + (Header + len))
        = (IF Header + len = ToEnd(pos) THEN Capacity ELSE ToEnd(pos) - (Header + len))
  BY <1>1, ToEndAfter
<1>3. pos + (Header + len) = pos + Header + len
  BY FormatAssumption
<1> QED BY <1>1, <1>2, <1>3, ToEndType, FormatAssumption DEF Placed

LEMMA RoomPlaced ==
  ASSUME NEW pos \in Nat, NEW tail \in Nat, NEW n \in 1 .. Room(pos, tail)
  PROVE  Placed(pos, tail, n)
BY ToEndType, FormatAssumption DEF Room, Placed, Floor0, Lesser, Free, PadRoom, AtPad

LEMMA LapRoomPlaced ==
  ASSUME NEW pos \in Nat, NEW tail \in Nat, NEW n \in 1 .. LapRoom(pos, tail)
  PROVE  Placed(pos + ToEnd(pos), tail, n)
<1>1. ToEnd(pos) \in Nat /\ ToEnd(pos) <= ToEnd(pos)
  BY ToEndType, FormatAssumption
<1>2. ToEnd(pos + ToEnd(pos)) = Capacity
  BY <1>1, ToEndAfter
<1> QED BY <1>1, <1>2, FormatAssumption DEF LapRoom, Placed, Floor0, Lesser, Free, PadRoom

LEMMA RoomFits ==
  ASSUME NEW pos \in Nat, NEW tail \in Nat, NEW n \in 1 .. Room(pos, tail),
         pos + Header + n <= MaxHead
  PROVE  Fits(pos, tail, n)
BY RoomPlaced, FitsIsPlaced

LEMMA LapRoomFits ==
  ASSUME NEW pos \in Nat, NEW tail \in Nat, NEW n \in 1 .. LapRoom(pos, tail),
         pos + ToEnd(pos) + Header + n <= MaxHead
  PROVE  Fits(pos + ToEnd(pos), tail, n)
BY LapRoomPlaced, FitsIsPlaced
=============================================================================
