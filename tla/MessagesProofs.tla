--------------------------- MODULE MessagesProofs ---------------------------
(* What holds of the messages of agents, whatever the panes, the clients    *)
(* and the sizes of the queues.                                             *)
EXTENDS Messages, FilterProofs

-----------------------------------------------------------------------------
(* The operations of a queue keep it consistent.                            *)
Entries == [id : Ids, seq : Nat, place : Places]

IsBox(box) ==
  /\ box = [stream  |-> box.stream,
            last    |-> box.last,
            fifo    |-> box.fifo,
            bytes   |-> box.bytes,
            known   |-> box.known,
            settled |-> box.settled]
  /\ box.last \in Nat /\ box.bytes \in Nat
  /\ box.fifo \in Seq(Entries)
  /\ box.known \in [Ids -> Known]
  /\ box.settled \in Seq(Ids)

(* An entry stands for a pending id, ...                                    *)
Sits(box, e, k) ==
  /\ box.known[e.id] = [is |-> "Pending", seq |-> e.seq]
  /\ e.place # "Fresh" => k <= Window
  /\ e.place = "Out" => box.stream # None
  /\ e.seq <= box.last

(* ... and one behind it came later and is not written before it.           *)
Before(e, f) ==
  /\ e.seq < f.seq
  /\ f.place # "Fresh" => e.place # "Fresh"
  /\ f.place = "Out" => e.place = "Out"

Queued(box) ==
  /\ \A k \in 1 .. Len(box.fifo) : Sits(box, box.fifo[k], k)
  /\ \A j, k \in 1 .. Len(box.fifo) : j < k => Before(box.fifo[j], box.fifo[k])
  /\ \A i \in Ids : box.known[i].is = "Pending" =>
        \E k \in 1 .. Len(box.fifo) : box.fifo[k].id = i

Remembers(box) ==
  /\ \A k \in 1 .. Len(box.settled) : box.known[box.settled[k]].is \in Outcomes
  /\ \A i \in Ids : box.known[i].is \in Outcomes =>
        \E k \in 1 .. Len(box.settled) : box.settled[k] = i
  /\ \A j, k \in 1 .. Len(box.settled) : box.settled[j] = box.settled[k] => j = k
  /\ Len(box.settled) <= Remembered

Bounds(box) ==
  /\ box.bytes = Bytes(box.fifo)
  /\ Len(box.fifo) <= CapMessages /\ box.bytes <= CapBytes

BoxInv(box) == IsBox(box) /\ Queued(box) /\ Remembers(box) /\ Bounds(box)

-----------------------------------------------------------------------------
(* Every entry has a size.                                                  *)
LEMMA SizesAre == \A s \in Seq(Entries) : \A k \in 1 .. Len(s) : SizeOf[s[k].id] \in Nat
<1> SUFFICES ASSUME NEW s \in Seq(Entries), NEW k \in 1 .. Len(s) PROVE SizeOf[s[k].id] \in Nat
  OBVIOUS
<1>1. s[k] \in Entries
  OBVIOUS
<1>2. s[k].id \in Ids
  BY <1>1 DEF Entries
<1> QED BY <1>2, InboxAssumption

(* The recursive function of Bytes exists: the sizes of the prefixes.       *)
LEMMA BytesUnfolds ==
  ASSUME NEW s \in Seq(Entries)
  PROVE  \E f : /\ f \in [0 .. Len(s) -> Nat]
                /\ f[0] = 0
                /\ \A n \in 1 .. Len(s) : f[n] = f[n - 1] + SizeOf[s[n].id]
                /\ Bytes(s) = f[Len(s)]
<1> DEFINE m == Len(s)
           Good(f, n) == /\ f \in [0 .. n -> Nat]
                         /\ f[0] = 0
                         /\ \A k \in 1 .. n : f[k] = f[k - 1] + SizeOf[s[k].id]
           T == {n \in Nat : n <= m => \E f : Good(f, n)}
<1>0. m \in Nat
  OBVIOUS
<1>a. \A k \in 1 .. m : SizeOf[s[k].id] \in Nat
  BY SizesAre
<1>1. 0 \in T
  <2>1. Good([n \in 0 .. 0 |-> 0], 0)
    OBVIOUS
  <2> QED BY <2>1
<1>2. ASSUME NEW n \in Nat, n \in T PROVE n + 1 \in T
  <2> HIDE DEF Good
  <2> SUFFICES ASSUME n + 1 <= m PROVE \E f : Good(f, n + 1)
    OBVIOUS
  <2>1. PICK f : Good(f, n)
    BY <1>0, <1>2
  <2> USE DEF Good
  <2> DEFINE g == [k \in 0 .. n + 1 |-> IF k = n + 1 THEN f[n] + SizeOf[s[n + 1].id] ELSE f[k]]
  <2>2. n + 1 \in 1 .. m /\ n \in 0 .. n /\ SizeOf[s[n + 1].id] \in Nat
    BY <1>0, <1>a
  <2>3. g \in [0 .. n + 1 -> Nat]
    BY <2>1, <2>2
  <2>4. ASSUME NEW k \in 1 .. n + 1 PROVE g[k] = g[k - 1] + SizeOf[s[k].id]
    <3>1. CASE k = n + 1
      <4>1. k - 1 = n
        BY <3>1
      <4> QED BY <3>1, <4>1
    <3>2. CASE k # n + 1
      <4>1. k \in 1 .. n /\ k - 1 \in 0 .. n /\ k - 1 # n + 1
        BY <3>2
      <4> QED BY <2>1, <3>2, <4>1
    <3> QED BY <3>1, <3>2
  <2>5. g[0] = 0
    BY <2>1
  <2> QED BY <2>3, <2>4, <2>5
<1>3. m \in T
  <2> HIDE DEF T, m
  <2> QED BY <1>0, <1>1, <1>2, NatInduct
<1>4. PICK f : Good(f, m)
  BY <1>0, <1>3
<1>5. f = [n \in 0 .. Len(s) |-> IF n = 0 THEN 0 ELSE f[n - 1] + SizeOf[s[n].id]]
  BY <1>0, <1>4
<1> DEFINE u == CHOOSE g : g = [n \in 0 .. Len(s) |->
                                  IF n = 0 THEN 0 ELSE g[n - 1] + SizeOf[s[n].id]]
<1>6. u = [n \in 0 .. Len(s) |-> IF n = 0 THEN 0 ELSE u[n - 1] + SizeOf[s[n].id]]
  BY <1>5
<1>7. Bytes(s) = u[Len(s)]
  BY Zenon DEF Bytes
<1> HIDE DEF u
<1>8. \A n \in 0 .. m : u[n] = IF n = 0 THEN 0 ELSE u[n - 1] + SizeOf[s[n].id]
  BY <1>6, Zenon
<1>9. u[0] = 0 /\ \A n \in 1 .. m : u[n] = u[n - 1] + SizeOf[s[n].id]
  <2>1. 0 \in 0 .. m /\ \A n \in 1 .. m : n \in 0 .. m /\ n # 0
    BY <1>0
  <2> QED BY <1>8, <2>1, Zenon
<1> DEFINE V == {n \in Nat : n <= m => u[n] \in Nat}
<1>10. \A n \in Nat : n \in V => n + 1 \in V
  <2> SUFFICES ASSUME NEW n \in Nat, n \in V, n + 1 <= m PROVE u[n + 1] \in Nat
    OBVIOUS
  <2>1. n + 1 \in 1 .. m /\ u[n] \in Nat
    BY <1>0
  <2>2. PICK k \in 1 .. m : k = n + 1 /\ k - 1 = n
    BY <2>1
  <2>3. u[k] = u[k - 1] + SizeOf[s[k].id] /\ SizeOf[s[k].id] \in Nat
    BY <1>9, <1>a
  <2> QED BY <2>1, <2>2, <2>3
<1>11. Nat \subseteq V
  <2>1. 0 \in V
    BY <1>9
  <2> HIDE DEF V
  <2> QED BY <1>10, <2>1, NatInduct
<1>12. u \in [0 .. m -> Nat]
  <2>1. \A n \in 0 .. m : u[n] \in Nat
    BY <1>0, <1>11
  <2> QED BY <1>6, <2>1
<1> QED BY <1>7, <1>9, <1>12

(* No messages, no bytes.                                                   *)
LEMMA BytesEmpty == Bytes(<<>>) = 0
<1>1. PICK f : f[0] = 0 /\ Bytes(<<>>) = f[Len(<<>>)]
  <2>1. <<>> \in Seq(Entries)
    OBVIOUS
  <2> QED BY <2>1, BytesUnfolds
<1> QED BY <1>1

(* The sum depends on the ids alone, ...                                    *)
LEMMA BytesSame ==
  ASSUME NEW s \in Seq(Entries), NEW t \in Seq(Entries), Len(s) <= Len(t),
         \A k \in 1 .. Len(s) : s[k].id = t[k].id
  PROVE  /\ Len(s) = Len(t) => Bytes(s) = Bytes(t)
         /\ Len(t) = Len(s) + 1 => Bytes(t) = Bytes(s) + SizeOf[t[Len(t)].id]
         /\ Bytes(s) \in Nat
<1>1. PICK f : /\ f \in [0 .. Len(s) -> Nat] /\ f[0] = 0
               /\ \A n \in 1 .. Len(s) : f[n] = f[n - 1] + SizeOf[s[n].id]
               /\ Bytes(s) = f[Len(s)]
  BY BytesUnfolds
<1>2. PICK g : /\ g \in [0 .. Len(t) -> Nat] /\ g[0] = 0
               /\ \A n \in 1 .. Len(t) : g[n] = g[n - 1] + SizeOf[t[n].id]
               /\ Bytes(t) = g[Len(t)]
  BY BytesUnfolds
<1> DEFINE T == {n \in Nat : n <= Len(s) => f[n] = g[n]}
<1>3. 0 \in T
  BY <1>1, <1>2
<1>4. ASSUME NEW n \in Nat, n \in T PROVE n + 1 \in T
  <2> SUFFICES ASSUME n + 1 <= Len(s) PROVE f[n + 1] = g[n + 1]
    OBVIOUS
  <2>1. PICK k \in 1 .. Len(s) : k = n + 1 /\ k - 1 = n /\ k \in 1 .. Len(t)
    OBVIOUS
  <2>2. f[n] = g[n]
    BY <1>4
  <2>3. f[k] = f[k - 1] + SizeOf[s[k].id] /\ g[k] = g[k - 1] + SizeOf[t[k].id]
    BY <1>1, <1>2, <2>1
  <2> QED BY <2>1, <2>2, <2>3
<1>5. Len(s) \in T
  <2> HIDE DEF T
  <2> QED BY <1>3, <1>4, NatInduct
<1>6. f[Len(s)] = g[Len(s)] /\ f[Len(s)] \in Nat
  BY <1>1, <1>5
<1>7. Len(t) = Len(s) + 1 => g[Len(t)] = g[Len(s)] + SizeOf[t[Len(t)].id]
  <2> SUFFICES ASSUME Len(t) = Len(s) + 1 PROVE g[Len(t)] = g[Len(s)] + SizeOf[t[Len(t)].id]
    OBVIOUS
  <2>1. Len(t) \in 1 .. Len(t) /\ Len(t) - 1 = Len(s)
    OBVIOUS
  <2> QED BY <1>2, <2>1
<1> QED BY <1>1, <1>2, <1>6, <1>7

(* ... and what is taken out is what it weighs less.                        *)
LEMMA BytesWithout ==
  ASSUME NEW s \in Seq(Entries), NEW t \in Seq(Entries), NEW i \in 1 .. Len(s),
         Len(s) = Len(t) + 1,
         \A k \in 1 .. Len(t) : t[k].id = IF k < i THEN s[k].id ELSE s[k + 1].id
  PROVE  Bytes(s) = Bytes(t) + SizeOf[s[i].id] /\ Bytes(t) \in Nat /\ SizeOf[s[i].id] \in Nat
<1>1. PICK f : /\ f \in [0 .. Len(s) -> Nat] /\ f[0] = 0
               /\ \A n \in 1 .. Len(s) : f[n] = f[n - 1] + SizeOf[s[n].id]
               /\ Bytes(s) = f[Len(s)]
  BY BytesUnfolds
<1>2. PICK g : /\ g \in [0 .. Len(t) -> Nat] /\ g[0] = 0
               /\ \A n \in 1 .. Len(t) : g[n] = g[n - 1] + SizeOf[t[n].id]
               /\ Bytes(t) = g[Len(t)]
  BY BytesUnfolds
<1>3. \A k \in 1 .. Len(s) : SizeOf[s[k].id] \in Nat
  BY SizesAre
<1> DEFINE x == SizeOf[s[i].id]
           T == {n \in Nat : n <= Len(t) =>
                    IF n < i THEN f[n] = g[n] ELSE f[n + 1] = g[n] + x}
<1>4. \A n \in 1 .. Len(t) : g[n - 1] \in Nat
  <2>1. \A n \in 1 .. Len(t) : n - 1 \in 0 .. Len(t)
    OBVIOUS
  <2> QED BY <1>2, <2>1
<1>5. 0 \in T
  BY <1>1, <1>2
<1>6. ASSUME NEW n \in Nat, n \in T PROVE n + 1 \in T
  <2> SUFFICES ASSUME n + 1 <= Len(t)
               PROVE  IF n + 1 < i THEN f[n + 1] = g[n + 1] ELSE f[n + 1 + 1] = g[n + 1] + x
    OBVIOUS
  <2>1. PICK k \in 1 .. Len(t) : k = n + 1 /\ k - 1 = n /\ k \in 1 .. Len(s)
    OBVIOUS
  <2>2. g[k] = g[n] + SizeOf[t[k].id] /\ f[k] = f[n] + SizeOf[s[k].id] /\ g[n] \in Nat
    BY <1>1, <1>2, <1>4, <2>1
  <2>3. PICK j \in 1 .. Len(s) : j = k + 1 /\ j - 1 = k
    BY <2>1
  <2>4. f[j] = f[k] + SizeOf[s[j].id]
    BY <1>1, <2>3
  <2>5. CASE k < i
    <3>1. n < i /\ f[n] = g[n] /\ t[k].id = s[k].id
      BY <1>6, <2>1, <2>5
    <3> QED BY <2>1, <2>2, <2>5, <3>1
  <2>6. CASE k >= i
    <3>1. t[k].id = s[j].id
      BY <2>1, <2>3, <2>6
    <3>2. f[k] = g[n] + x
      <4>1. CASE n < i
        <5>1. k = i /\ f[n] = g[n]
          BY <1>6, <2>1, <2>6, <4>1
        <5> QED BY <2>2, <5>1
      <4>2. CASE ~(n < i)
        BY <1>6, <2>1, <4>2
      <4> QED BY <4>1, <4>2
    <3>3. SizeOf[s[j].id] \in Nat /\ x \in Nat
      BY <1>3
    <3>4. f[j] = g[k] + x
      BY <2>2, <2>4, <3>1, <3>2, <3>3, SMTT(40)
    <3> QED BY <2>1, <2>3, <2>6, <3>4
  <2> QED BY <2>1, <2>5, <2>6
<1>7. Len(t) \in T
  <2> HIDE DEF T
  <2> QED BY <1>5, <1>6, NatInduct
<1>8. IF Len(t) < i THEN f[Len(t)] = g[Len(t)] ELSE f[Len(s)] = g[Len(t)] + x
  BY <1>7
<1>9. CASE Len(t) < i
  <2>1. i = Len(s) /\ i - 1 = Len(t)
    BY <1>9
  <2>2. f[i] = f[i - 1] + x
    BY <1>1
  <2> QED BY <1>1, <1>2, <1>3, <1>8, <1>9, <2>1, <2>2
<1> QED BY <1>1, <1>2, <1>3, <1>8, <1>9

-----------------------------------------------------------------------------
(* An id is unknown, pending or settled, and each with its number.          *)
LEMMA KnownAre ==
  /\ \A x \in Known : x = [is |-> x.is, seq |-> x.seq] /\ x.seq \in Nat
  /\ \A x \in Known : x.is \in {"Unknown", "Pending"} \union Outcomes
  /\ \A x \in Known : x.is = "Unknown" => x = Unknown
  /\ Unknown \in Known /\ Unknown.is = "Unknown" /\ "Pending" \notin Outcomes
  /\ \A n \in Nat \ {0}, o \in {"Pending"} \union Outcomes : [is |-> o, seq |-> n] \in Known
BY DEF Known, Unknown, Outcomes

(* What the invariant says of one entry.                                    *)
LEMMA EntriesAre ==
  ASSUME NEW box, BoxInv(box), NEW k \in 1 .. Len(box.fifo)
  PROVE  /\ box.fifo[k] \in Entries /\ box.fifo[k].id \in Ids /\ box.fifo[k].seq \in Nat
         /\ box.fifo[k].place \in Places /\ Sits(box, box.fifo[k], k)
         /\ box.known[box.fifo[k].id].is = "Pending"
         /\ box.known[box.fifo[k].id].seq = box.fifo[k].seq
<1>1. box.fifo[k] \in Entries
  BY DEF BoxInv, IsBox
<1>2. Sits(box, box.fifo[k], k)
  BY DEF BoxInv, Queued
<1>3. box.known[box.fifo[k].id] = [is |-> "Pending", seq |-> box.fifo[k].seq]
  BY <1>2 DEF Sits
<1> QED BY <1>1, <1>2, <1>3 DEF Entries

(* The entry of a pending id is the one that carries it.                    *)
LEMMA EntryIs ==
  ASSUME NEW box, BoxInv(box), NEW id \in Ids, box.known[id].is = "Pending"
  PROVE  /\ Entry(box, id) \in 1 .. Len(box.fifo)
         /\ box.fifo[Entry(box, id)].id = id
         /\ box.fifo[Entry(box, id)].seq = box.known[id].seq
         /\ \A j \in 1 .. Len(box.fifo) : box.fifo[j].id = id => j = Entry(box, id)
<1>1. PICK j \in 1 .. Len(box.fifo) : box.fifo[j].id = id
  BY DEF BoxInv, Queued
<1>2. \A k \in 1 .. Len(box.fifo) :
         box.fifo[k].id = id => box.known[id].seq = box.fifo[k].seq
  BY EntriesAre
<1>3. \A k, l \in 1 .. Len(box.fifo) : box.fifo[k].seq = box.fifo[l].seq => k = l
  <2> SUFFICES ASSUME NEW k \in 1 .. Len(box.fifo), NEW l \in 1 .. Len(box.fifo), k < l
               PROVE  box.fifo[k].seq # box.fifo[l].seq
    OBVIOUS
  <2>1. box.fifo[k].seq < box.fifo[l].seq
    BY DEF BoxInv, Queued, Before
  <2> QED BY <2>1, EntriesAre
<1>4. DOMAIN box.fifo = 1 .. Len(box.fifo)
  BY DEF BoxInv, IsBox
<1>5. Entry(box, id) \in 1 .. Len(box.fifo) /\ box.fifo[Entry(box, id)].seq = box.known[id].seq
  BY <1>1, <1>2, <1>4 DEF Entry
<1> QED BY <1>1, <1>2, <1>3, <1>5

(* Inbox::default is consistent.                                            *)
LEMMA EmptyInv == BoxInv(Empty)
<1>1. /\ Empty.last = 0 /\ Empty.fifo = <<>> /\ Empty.bytes = 0 /\ Empty.settled = <<>>
      /\ Empty.known = [i \in Ids |-> Unknown]
  BY DEF Empty
<1>2. IsBox(Empty)
  BY KnownAre DEF Empty, IsBox
<1>3. Queued(Empty)
  BY <1>1, KnownAre DEF Queued
<1>4. Remembers(Empty)
  BY <1>1, InboxAssumption, KnownAre DEF Remembers, Outcomes
<1>5. Bounds(Empty)
  BY <1>1, BytesEmpty, InboxAssumption DEF Bounds
<1> QED BY <1>2, <1>3, <1>4, <1>5 DEF BoxInv

(* Inbox::clear leaves a consistent queue without stream, ids and messages. *)
LEMMA ClearedInv ==
  ASSUME NEW box, BoxInv(box)
  PROVE  /\ BoxInv(Cleared(box))
         /\ Cleared(box).stream = None
         /\ Cleared(box).known = [i \in Ids |-> Unknown]
         /\ Cleared(box).fifo = <<>>
<1> DEFINE new == Cleared(box)
<1>1. /\ new.last = box.last /\ new.fifo = <<>> /\ new.bytes = 0 /\ new.settled = <<>>
      /\ new.known = [i \in Ids |-> Unknown] /\ new.stream = None
  BY DEF Cleared, Empty
<1>2. IsBox(new)
  <2>1. new = [stream |-> new.stream, last |-> new.last, fifo |-> new.fifo,
               bytes |-> new.bytes, known |-> new.known, settled |-> new.settled]
    BY DEF Cleared, Empty
  <2>2. box.last \in Nat
    BY DEF BoxInv, IsBox
  <2>3. /\ new.known \in [Ids -> Known]
        /\ new.last \in Nat /\ new.bytes \in Nat
        /\ new.fifo \in Seq(Entries) /\ new.settled \in Seq(Ids)
    <3> HIDE DEF new
    <3> QED BY <1>1, <2>2, KnownAre
  <2> HIDE DEF new
  <2> QED BY <2>1, <2>3 DEF IsBox
<1> HIDE DEF new
<1>3. Queued(new)
  BY <1>1, KnownAre DEF Queued
<1>4. Remembers(new)
  BY <1>1, InboxAssumption, KnownAre DEF Remembers, Outcomes
<1>5. Bounds(new)
  BY <1>1, BytesEmpty, InboxAssumption DEF Bounds
<1> QED BY <1>1, <1>2, <1>3, <1>4, <1>5 DEF BoxInv, new

(* The same messages in the same order, written or not.                     *)
Replaced(box, new) ==
  /\ new.last = box.last /\ new.bytes = box.bytes
  /\ new.known = box.known /\ new.settled = box.settled
  /\ Len(new.fifo) = Len(box.fifo)
  /\ \A k \in 1 .. Len(box.fifo) :
        new.fifo[k].id = box.fifo[k].id /\ new.fifo[k].seq = box.fifo[k].seq

(* A change of the places alone keeps a queue consistent if what is written *)
(* stays the head of the queue.                                             *)
LEMMA ReplacedInv ==
  ASSUME NEW box, NEW new, BoxInv(box), IsBox(new), Replaced(box, new),
         \A k \in 1 .. Len(box.fifo) :
            LET e == new.fifo[k]
            IN  /\ e.place # "Fresh" => k <= Window
                /\ e.place = "Out" => new.stream # None,
         \A j, k \in 1 .. Len(box.fifo) : j < k =>
            /\ new.fifo[k].place # "Fresh" => new.fifo[j].place # "Fresh"
            /\ new.fifo[k].place = "Out" => new.fifo[j].place = "Out"
  PROVE  BoxInv(new)
<1>1. Queued(new)
  BY DEF BoxInv, Queued, Sits, Before, Replaced
<1>2. Remembers(new)
  BY DEF BoxInv, Remembers, Replaced
<1>3. Bytes(new.fifo) = Bytes(box.fifo)
  BY BytesSame DEF BoxInv, IsBox, Replaced
<1>4. Bounds(new)
  BY <1>3 DEF BoxInv, Bounds, Replaced
<1> QED BY <1>1, <1>2, <1>4 DEF BoxInv

(* Inbox::open: the new stream got nothing yet.                             *)
LEMMA OpenedInv ==
  ASSUME NEW box, BoxInv(box), NEW c, box.stream = None, c # None
  PROVE  /\ BoxInv(Opened(box, c)) /\ Opened(box, c).stream = c
         /\ Opened(box, c).fifo = box.fifo /\ Replaced(box, Opened(box, c))
         /\ \A k \in 1 .. Len(box.fifo) : box.fifo[k].place # "Out"
<1> DEFINE new == Opened(box, c)
<1>1. /\ new.last = box.last /\ new.fifo = box.fifo /\ new.bytes = box.bytes
      /\ new.settled = box.settled /\ new.known = box.known /\ new.stream = c /\ IsBox(new)
  BY DEF Opened, BoxInv, IsBox
<1> HIDE DEF new
<1>2. Replaced(box, new)
  BY <1>1 DEF Replaced
<1>3. \A k \in 1 .. Len(box.fifo) : box.fifo[k].place # "Out"
  BY DEF BoxInv, Queued, Sits
<1>4. BoxInv(new)
  <2>1. \A k \in 1 .. Len(box.fifo) : box.fifo[k].place # "Fresh" => k <= Window
    BY DEF BoxInv, Queued, Sits
  <2>2. \A j, k \in 1 .. Len(box.fifo) : j < k => Before(box.fifo[j], box.fifo[k])
    BY DEF BoxInv, Queued
  <2> QED BY <1>1, <1>2, <2>1, <2>2, ReplacedInv DEF Before
<1> QED BY <1>1, <1>2, <1>3, <1>4 DEF new

(* Inbox::next_write until it answers nothing: everything in the window is  *)
(* written.                                                                 *)
LEMMA PumpedIs ==
  ASSUME NEW box, BoxInv(box)
  PROVE  /\ BoxInv(Pumped(box)) /\ Pumped(box).stream = box.stream
         /\ Replaced(box, Pumped(box))
         /\ \A k \in 1 .. Len(box.fifo) :
               Pumped(box).fifo[k].place =
                 IF box.stream # None /\ k <= Window THEN "Out" ELSE box.fifo[k].place
<1>1. CASE box.stream = None
  <2>1. Pumped(box) = box
    BY <1>1 DEF Pumped
  <2> QED BY <1>1, <2>1 DEF Replaced
<1>2. CASE box.stream # None
  <2> DEFINE new == Pumped(box)
             q == [k \in DOMAIN box.fifo |->
                     IF k <= Window THEN [box.fifo[k] EXCEPT !.place = "Out"] ELSE box.fifo[k]]
  <2>1. new = [box EXCEPT !.fifo = q]
    BY <1>2 DEF Pumped
  <2>2. DOMAIN box.fifo = 1 .. Len(box.fifo) /\ Len(box.fifo) \in Nat
    BY DEF BoxInv, IsBox
  <2>3. ASSUME NEW k \in 1 .. Len(box.fifo)
        PROVE  /\ q[k] \in Entries /\ q[k].id = box.fifo[k].id /\ q[k].seq = box.fifo[k].seq
               /\ q[k].place = IF k <= Window THEN "Out" ELSE box.fifo[k].place
    <3>1. box.fifo[k] \in Entries
      BY DEF BoxInv, IsBox
    <3> QED BY <2>2, <3>1 DEF Entries, Places
  <2>4. q \in Seq(Entries) /\ Len(q) = Len(box.fifo)
    <3>1. q = [k \in 1 .. Len(box.fifo) |-> q[k]] /\ \A k \in 1 .. Len(box.fifo) : q[k] \in Entries
      BY <2>2, <2>3
    <3> HIDE DEF q
    <3> QED BY <2>2, <3>1
  <2>5. /\ new.last = box.last /\ new.fifo = q /\ new.bytes = box.bytes
        /\ new.settled = box.settled /\ new.known = box.known /\ new.stream = box.stream
        /\ IsBox(new)
    <3> HIDE DEF q, new
    <3> QED BY <2>1, <2>4 DEF BoxInv, IsBox
  <2> HIDE DEF q, new
  <2>6. Replaced(box, new)
    BY <2>3, <2>4, <2>5 DEF Replaced
  <2>7. \A k \in 1 .. Len(box.fifo) : new.fifo[k].place # "Fresh" => k <= Window
    BY <2>3, <2>5 DEF BoxInv, Queued, Sits
  <2>8. ASSUME NEW j \in 1 .. Len(box.fifo), NEW k \in 1 .. Len(box.fifo), j < k
        PROVE  /\ new.fifo[k].place # "Fresh" => new.fifo[j].place # "Fresh"
               /\ new.fifo[k].place = "Out" => new.fifo[j].place = "Out"
    <3>1. Before(box.fifo[j], box.fifo[k])
      BY <2>8 DEF BoxInv, Queued
    <3>2. Window \in Nat
      BY InboxAssumption
    <3>3. CASE j <= Window
      BY <2>3, <2>5, <3>3
    <3>4. CASE ~(j <= Window)
      <4>1. ~(k <= Window)
        BY <2>8, <3>2, <3>4
      <4> QED BY <2>3, <2>5, <3>1, <3>4, <4>1 DEF Before
    <3> QED BY <3>3, <3>4
  <2>9. BoxInv(new)
    BY <1>2, <2>5, <2>6, <2>7, <2>8, ReplacedInv
  <2> QED BY <1>2, <2>3, <2>5, <2>6, <2>9 DEF new
<1> QED BY <1>1, <1>2

(* Inbox::close keeps every message in its place in the queue.              *)
LEMMA ClosedIs ==
  ASSUME NEW box, BoxInv(box)
  PROVE  /\ BoxInv(Closed(box)) /\ Closed(box).stream = None
         /\ Replaced(box, Closed(box))
<1> DEFINE new == Closed(box)
           q == [k \in DOMAIN box.fifo |->
                            IF \A j \in 1..k : box.fifo[j].place = "Out"
                            THEN [box.fifo[k] EXCEPT !.place = "Back"]
                            ELSE box.fifo[k]]
<1>1. new = [box EXCEPT !.stream = None, !.fifo = q]
  BY DEF Closed
<1>2. DOMAIN box.fifo = 1 .. Len(box.fifo) /\ Len(box.fifo) \in Nat
  BY DEF BoxInv, IsBox
<1>3. \A j, k \in 1 .. Len(box.fifo) : j < k => Before(box.fifo[j], box.fifo[k])
  BY DEF BoxInv, Queued
<1>4. ASSUME NEW k \in 1 .. Len(box.fifo)
      PROVE  /\ q[k] \in Entries /\ q[k].id = box.fifo[k].id /\ q[k].seq = box.fifo[k].seq
             /\ q[k].place = IF box.fifo[k].place = "Out" THEN "Back" ELSE box.fifo[k].place
  <2>1. box.fifo[k] \in Entries
    BY DEF BoxInv, IsBox
  <2>2. (\A j \in 1..k : box.fifo[j].place = "Out") <=> box.fifo[k].place = "Out"
    <3>1. k \in 1 .. k /\ \A j \in 1 .. k : j \in 1 .. Len(box.fifo) /\ (j = k \/ j < k)
      OBVIOUS
    <3> QED BY <1>3, <3>1 DEF Before
  <2>3. q[k] = IF box.fifo[k].place = "Out" THEN [box.fifo[k] EXCEPT !.place = "Back"] ELSE box.fifo[k]
    BY <1>2, <2>2
  <2> HIDE DEF q
  <2> QED BY <2>1, <2>3 DEF Entries, Places
<1>5. q \in Seq(Entries) /\ Len(q) = Len(box.fifo)
  <2>1. DOMAIN q = 1 .. Len(box.fifo) /\ \A k \in 1 .. Len(box.fifo) : q[k] \in Entries
    BY <1>2, <1>4
  <2>2. q = [k \in 1 .. Len(box.fifo) |-> q[k]]
    BY <1>2
  <2> HIDE DEF q
  <2> QED BY <1>2, <2>1, <2>2
<1> HIDE DEF q
<1>6. /\ new.last = box.last /\ new.fifo = q /\ new.bytes = box.bytes
      /\ new.settled = box.settled /\ new.known = box.known /\ new.stream = None
      /\ IsBox(new)
  <2> HIDE DEF new
  <2> QED BY <1>1, <1>5 DEF BoxInv, IsBox
<1> HIDE DEF new
<1>7. Replaced(box, new)
  BY <1>4, <1>5, <1>6 DEF Replaced
<1>8. \A k \in 1 .. Len(box.fifo) :
         /\ new.fifo[k].place # "Fresh" => k <= Window
         /\ new.fifo[k].place # "Out"
  BY <1>4, <1>6 DEF BoxInv, Queued, Sits
<1>9. \A j, k \in 1 .. Len(box.fifo) :
         j < k /\ new.fifo[k].place # "Fresh" => new.fifo[j].place # "Fresh"
  BY <1>3, <1>4, <1>6 DEF Before
<1>10. BoxInv(new)
  BY <1>6, <1>7, <1>8, <1>9, ReplacedInv
<1> QED BY <1>6, <1>7, <1>10 DEF new

(* A message that is new goes behind the others.                            *)
LEMMA AdmittedIs ==
  ASSUME NEW box, BoxInv(box), NEW id \in Ids, Admission(box, id) = "New"
  PROVE  LET new == Admitted(box, id)
             seq == box.last + 1
         IN  /\ BoxInv(new) /\ new.stream = box.stream /\ new.last = seq
             /\ new.fifo = Append(box.fifo, [id |-> id, seq |-> seq, place |-> "Fresh"])
             /\ new.known = [box.known EXCEPT ![id] = [is |-> "Pending", seq |-> seq]]
             /\ new.settled = box.settled /\ box.known[id] = Unknown
<1> DEFINE new == Admitted(box, id)
           seq == box.last + 1
           e == [id |-> id, seq |-> seq, place |-> "Fresh"]
<1>1. /\ box.known[id] = Unknown /\ ~IsFull(box, id)
      /\ new = [box EXCEPT !.last = seq, !.bytes = box.bytes + SizeOf[id],
                           !.known = [box.known EXCEPT ![id] = [is |-> "Pending", seq |-> seq]],
                           !.fifo = Append(box.fifo, e)]
  <2>1. box.known[id] = Unknown /\ ~IsFull(box, id)
    BY DEF Admission
  <2>2. DOMAIN box = {"stream", "last", "fifo", "bytes", "known", "settled"}
    BY DEF BoxInv, IsBox
  <2>3. new = [box EXCEPT !.last = @ + 1,
                     !.bytes = @ + SizeOf[id],
                     !.known[id] = [is |-> "Pending", seq |-> box.last + 1],
                     !.fifo = Append(@, [id |-> id, seq |-> box.last + 1, place |-> "Fresh"])]
    BY DEF Admitted
  <2> QED BY <2>1, <2>2, <2>3
<1>2. seq \in Nat \ {0} /\ e \in Entries /\ SizeOf[id] \in Nat /\ box.last \in Nat
  BY InboxAssumption DEF BoxInv, IsBox, Entries, Places
<1>3. e.id = id /\ e.seq = seq /\ e.place = "Fresh"
  OBVIOUS
<1>4. [is |-> "Pending", seq |-> seq] \in Known
  BY <1>2, KnownAre
<1> HIDE DEF new, e, seq
<1> DEFINE q == Append(box.fifo, e)
<1>5. /\ box.fifo \in Seq(Entries) /\ q \in Seq(Entries) /\ Len(q) = Len(box.fifo) + 1
      /\ q[Len(q)] = e
      /\ \A k \in 1 .. Len(box.fifo) : q[k] = box.fifo[k]
      /\ Len(box.fifo) \in Nat
  BY <1>2 DEF BoxInv, IsBox
<1> HIDE DEF q
<1> DEFINE kn == [box.known EXCEPT ![id] = [is |-> "Pending", seq |-> seq]]
           w == box.bytes + SizeOf[id]
<1>a. kn \in [Ids -> Known] /\ w \in Nat /\ seq \in Nat
  BY <1>2, <1>4 DEF BoxInv, IsBox
<1>b. new = [box EXCEPT !.last = seq, !.bytes = w, !.known = kn, !.fifo = q]
  BY <1>1 DEF q
<1>6. /\ new.last = seq /\ new.fifo = q /\ new.bytes = box.bytes + SizeOf[id]
      /\ new.settled = box.settled
      /\ new.known = [box.known EXCEPT ![id] = [is |-> "Pending", seq |-> seq]]
      /\ new.stream = box.stream
      /\ IsBox(new)
  <2> HIDE DEF kn, w
  <2>1. /\ new.last = seq /\ new.fifo = q /\ new.bytes = w /\ new.settled = box.settled
        /\ new.known = kn /\ new.stream = box.stream /\ IsBox(new)
    BY <1>a, <1>b, <1>5 DEF BoxInv, IsBox
  <2> QED BY <2>1 DEF kn, w
<1>7. /\ new.known[id] = [is |-> "Pending", seq |-> seq]
      /\ \A i \in Ids : i # id => new.known[i] = box.known[i]
      /\ box.known[id].is = "Unknown"
  BY <1>1, <1>6, KnownAre DEF BoxInv, IsBox
<1>8. \A k \in 1 .. Len(q) : k = Len(q) \/ k \in 1 .. Len(box.fifo)
  BY <1>5
<1>9. \A k \in 1 .. Len(box.fifo) : /\ Sits(box, box.fifo[k], k) /\ box.fifo[k].id \in Ids
                                    /\ box.fifo[k].seq \in Nat
  BY EntriesAre
<1>10. ASSUME NEW k \in 1 .. Len(box.fifo) PROVE box.fifo[k].id # id
  <2>1. box.known[box.fifo[k].id].is = "Pending"
    BY EntriesAre
  <2> QED BY <1>7, <2>1
<1>11. Queued(new)
  <2>1. ASSUME NEW k \in 1 .. Len(q) PROVE Sits(new, q[k], k)
    <3>1. CASE k = Len(q)
      BY <1>2, <1>3, <1>5, <1>6, <1>7, <3>1 DEF Sits
    <3>2. CASE k \in 1 .. Len(box.fifo)
      <4>1. new.known[box.fifo[k].id] = box.known[box.fifo[k].id]
        BY <1>7, <1>9, <1>10, <3>2
      <4>2. box.fifo[k].seq <= new.last
        <5>1. box.fifo[k].seq \in Nat /\ box.fifo[k].seq <= box.last
          BY <1>9, <3>2 DEF Sits
        <5> QED BY <1>2, <1>6, <5>1 DEF seq
      <4> QED BY <1>5, <1>6, <1>9, <3>2, <4>1, <4>2 DEF Sits
    <3> QED BY <1>8, <3>1, <3>2
  <2>2. ASSUME NEW j \in 1 .. Len(q), NEW k \in 1 .. Len(q), j < k PROVE Before(q[j], q[k])
    <3>1. j \in 1 .. Len(box.fifo)
      BY <1>5, <2>2
    <3>2. CASE k = Len(q)
      <4>1. box.fifo[j].seq < seq
        <5>1. box.fifo[j].seq <= box.last /\ box.fifo[j].seq \in Nat
          BY <1>9, <3>1 DEF Sits
        <5> QED BY <1>2, <5>1 DEF seq
      <4> QED BY <1>3, <1>5, <3>1, <3>2, <4>1 DEF Before
    <3>3. CASE k \in 1 .. Len(box.fifo)
      BY <1>5, <2>2, <3>1, <3>3 DEF BoxInv, Queued
    <3> QED BY <1>8, <3>2, <3>3
  <2>3. ASSUME NEW i \in Ids, new.known[i].is = "Pending"
        PROVE  \E k \in 1 .. Len(q) : q[k].id = i
    <3>1. Len(q) \in 1 .. Len(q) /\ \A k \in 1 .. Len(box.fifo) : k \in 1 .. Len(q)
      BY <1>5
    <3>2. CASE i = id
      BY <1>3, <1>5, <3>1, <3>2
    <3>3. CASE i # id
      <4>1. PICK k \in 1 .. Len(box.fifo) : box.fifo[k].id = i
        BY <1>7, <2>3, <3>3 DEF BoxInv, Queued
      <4> QED BY <1>5, <3>1, <4>1
    <3> QED BY <3>2, <3>3
  <2> QED BY <1>6, <2>1, <2>2, <2>3 DEF Queued
<1>12. Remembers(new)
  <2>1. new.known[id].is \notin Outcomes /\ box.known[id].is \notin Outcomes
    BY <1>7, KnownAre DEF Outcomes
  <2>2. \A k \in 1 .. Len(box.settled) : box.settled[k] \in Ids
    BY DEF BoxInv, IsBox
  <2> QED BY <1>6, <1>7, <2>1, <2>2 DEF BoxInv, Remembers
<1>13. Bounds(new)
  <2>1. Bytes(q) = Bytes(box.fifo) + SizeOf[id]
    BY <1>3, <1>5, BytesSame
  <2>2. Len(q) <= CapMessages /\ box.bytes + SizeOf[id] <= CapBytes
    BY <1>1, <1>2, <1>5, InboxAssumption DEF IsFull, BoxInv, IsBox
  <2> QED BY <1>6, <2>1, <2>2 DEF BoxInv, Bounds
<1>14. BoxInv(new)
  BY <1>6, <1>11, <1>12, <1>13 DEF BoxInv
<1> QED BY <1>1, <1>6, <1>14 DEF new, q, e, seq

(* VecDeque::remove moves what is behind up by one place.                   *)
LEMMA RemovedIs ==
  ASSUME NEW X, NEW s \in Seq(X), NEW i \in 1 .. Len(s)
  PROVE  /\ RemoveAt(s, i) \in Seq(X) /\ Len(s) = Len(RemoveAt(s, i)) + 1
         /\ \A k \in 1 .. Len(RemoveAt(s, i)) :
               RemoveAt(s, i)[k] = IF k < i THEN s[k] ELSE s[k + 1]
<1> DEFINE a == SubSeq(s, 1, i - 1)
           b == SubSeq(s, i + 1, Len(s))
<1>1. a \in Seq(X) /\ Len(a) = i - 1 /\ \A k \in 1 .. i - 1 : a[k] = s[k]
  OBVIOUS
<1>2. b \in Seq(X) /\ Len(b) = Len(s) - i /\ \A k \in 1 .. Len(s) - i : b[k] = s[i + k]
  OBVIOUS
<1>3. RemoveAt(s, i) = a \o b
  BY DEF RemoveAt
<1> HIDE DEF a, b
<1>4. /\ a \o b \in Seq(X) /\ Len(a \o b) = Len(s) - 1 /\ Len(s) \in Nat
  <2>1. a \o b \in Seq(X) /\ Len(a \o b) = Len(a) + Len(b) /\ Len(s) \in Nat
    <3>1. a \in Seq(X) /\ b \in Seq(X)
      BY <1>1, <1>2
    <3>2. Len(s) \in Nat
      OBVIOUS
    <3> QED BY <3>1, <3>2, ElemsConcat
  <2> QED BY <1>1, <1>2, <2>1
<1>5. ASSUME NEW k \in 1 .. Len(s) - 1 PROVE (a \o b)[k] = IF k < i THEN s[k] ELSE s[k + 1]
  <2>1. CASE k < i
    <3>1. k \in 1 .. i - 1 /\ k \in 1 .. Len(a) /\ k \in 1 .. Len(a) + Len(b)
      BY <1>1, <1>2, <2>1
    <3> QED BY <1>1, <1>2, <2>1, <3>1
  <2>2. CASE ~(k < i)
    <3>1. /\ k - (i - 1) \in 1 .. Len(s) - i /\ i + (k - (i - 1)) = k + 1
          /\ k \in 1 .. Len(a) + Len(b) /\ k > Len(a)
      BY <1>1, <1>2, <2>2
    <3>2. (a \o b)[k] = b[k - Len(a)]
      BY <1>1, <1>2, <3>1
    <3>3. b[k - (i - 1)] = s[k + 1]
      BY <1>2, <3>1
    <3> QED BY <1>1, <2>2, <3>2, <3>3
  <2> QED BY <2>1, <2>2
<1>6. Len(RemoveAt(s, i)) = Len(s) - 1 /\ RemoveAt(s, i) \in Seq(X)
  BY <1>3, <1>4
<1>7. Len(s) = Len(RemoveAt(s, i)) + 1
  BY <1>4, <1>6
<1> QED BY <1>3, <1>5, <1>6, <1>7

(* A message that is answered leaves the queue, and its id stays known.     *)
LEMMA SettledIs ==
  ASSUME NEW box, BoxInv(box), NEW id \in Ids, Settles(box, id), NEW outcome \in Outcomes
  PROVE  LET new == Settled(box, id, outcome)
             i == Entry(box, id)
         IN  /\ BoxInv(new) /\ new.stream = box.stream /\ new.last = box.last
             /\ Len(box.fifo) = Len(new.fifo) + 1
             /\ \A k \in 1 .. Len(new.fifo) :
                   new.fifo[k] = IF k < i THEN box.fifo[k] ELSE box.fifo[k + 1]
             /\ new.known[id] = [is |-> outcome, seq |-> box.known[id].seq]
             /\ \A j \in Ids \ {id} :
                   \/ new.known[j] = box.known[j]
                   \/ new.known[j] = Unknown /\ box.known[j].is \in Outcomes
             /\ i \in 1 .. Len(box.fifo) /\ box.fifo[i].id = id
             /\ box.fifo[i].seq = box.known[id].seq /\ box.fifo[i].place # "Fresh"
<1> DEFINE new == Settled(box, id, outcome)
           i == Entry(box, id)
           q == RemoveAt(box.fifo, i)
           ring == Append(box.settled, id)
           evict == Len(ring) > Remembered
           known == [box.known EXCEPT ![id].is = outcome]
           kn == IF evict THEN [known EXCEPT ![Head(ring)] = Unknown] ELSE known
           rg == IF evict THEN Tail(ring) ELSE ring
           w == box.bytes - SizeOf[id]
<1>1. new = [box EXCEPT !.fifo = q, !.bytes = w, !.settled = rg, !.known = kn]
  <2>1. DOMAIN box = {"stream", "last", "fifo", "bytes", "known", "settled"}
    BY DEF BoxInv, IsBox
  <2>2. new = [box EXCEPT !.fifo = RemoveAt(@, Entry(box, id)),
                    !.bytes = @ - SizeOf[id],
                    !.settled = IF evict THEN Tail(ring) ELSE ring,
                    !.known = IF evict THEN [known EXCEPT ![Head(ring)] = Unknown] ELSE known]
    BY DEF Settled
  <2> HIDE DEF new, ring, evict, known
  <2> QED BY <2>1, <2>2
<1>2. /\ i \in 1 .. Len(box.fifo) /\ box.fifo[i].id = id
      /\ box.fifo[i].seq = box.known[id].seq /\ box.fifo[i].place # "Fresh"
      /\ \A j \in 1 .. Len(box.fifo) : box.fifo[j].id = id => j = i
      /\ box.known[id].is = "Pending"
  BY EntryIs DEF Settles
<1>3. /\ box.fifo \in Seq(Entries) /\ box.settled \in Seq(Ids) /\ box.known \in [Ids -> Known]
      /\ Len(box.fifo) \in Nat /\ Len(box.settled) \in Nat /\ IsBox(box) /\ box.bytes \in Nat
  BY DEF BoxInv, IsBox
<1> HIDE DEF new, i
<1>4. /\ q \in Seq(Entries) /\ Len(box.fifo) = Len(q) + 1 /\ Len(q) \in Nat
      /\ \A k \in 1 .. Len(q) : q[k] = IF k < i THEN box.fifo[k] ELSE box.fifo[k + 1]
  BY <1>2, <1>3, RemovedIs, SMTT(40)
<1> HIDE DEF q
<1>5. /\ ring \in Seq(Ids) /\ Len(ring) = Len(box.settled) + 1 /\ ring[Len(ring)] = id
      /\ \A k \in 1 .. Len(box.settled) : ring[k] = box.settled[k]
  BY <1>3
<1>6. /\ known \in [Ids -> Known] /\ known[id] = [is |-> outcome, seq |-> box.known[id].seq]
      /\ \A j \in Ids \ {id} : known[j] = box.known[j]
  <2>1. box.known[id] \in Known /\ box.known[id] = [is |-> "Pending", seq |-> box.known[id].seq]
    BY <1>2, <1>3, KnownAre
  <2>2. box.known[id].seq \in Nat \ {0}
    BY <1>2, <2>1 DEF Known, Unknown
  <2>3. [is |-> outcome, seq |-> box.known[id].seq] \in Known
    BY <2>2, KnownAre
  <2>4. [box.known[id] EXCEPT !.is = outcome] = [is |-> outcome, seq |-> box.known[id].seq]
    BY <2>1
  <2> QED BY <1>3, <2>3, <2>4
<1> HIDE DEF known, ring
<1>7. \A k \in 1 .. Len(box.settled) : /\ box.settled[k] \in Ids
                                       /\ box.known[box.settled[k]].is \in Outcomes
                                       /\ box.settled[k] # id
  BY <1>2, <1>3, KnownAre DEF BoxInv, Remembers
<1>8. /\ \A j, k \in 1 .. Len(ring) : ring[j] = ring[k] => j = k
      /\ \A k \in 1 .. Len(ring) : ring[k] \in Ids /\ known[ring[k]].is \in Outcomes
      /\ \A j \in Ids : known[j].is \in Outcomes => \E k \in 1 .. Len(ring) : ring[k] = j
  <2>1. /\ \A k \in 1 .. Len(ring) : k = Len(ring) \/ k \in 1 .. Len(box.settled)
        /\ Len(ring) \in 1 .. Len(ring)
        /\ \A k \in 1 .. Len(box.settled) : k \in 1 .. Len(ring)
    BY <1>3, <1>5
  <2>2. \A j, k \in 1 .. Len(box.settled) : box.settled[j] = box.settled[k] => j = k
    BY DEF BoxInv, Remembers
  <2>3. \A j \in Ids : box.known[j].is \in Outcomes => \E k \in 1 .. Len(box.settled) : box.settled[k] = j
    BY DEF BoxInv, Remembers
  <2>4. \A j, k \in 1 .. Len(ring) : ring[j] = ring[k] => j = k
    BY <1>5, <1>7, <2>1, <2>2
  <2>5. \A k \in 1 .. Len(ring) : ring[k] \in Ids /\ known[ring[k]].is \in Outcomes
    BY <1>5, <1>6, <1>7, <2>1, SMTT(30)
  <2>6. ASSUME NEW j \in Ids, known[j].is \in Outcomes PROVE \E k \in 1 .. Len(ring) : ring[k] = j
    <3>1. CASE j = id
      BY <1>5, <2>1, <3>1
    <3>2. CASE j # id
      <4>1. box.known[j].is \in Outcomes
        BY <1>6, <2>6, <3>2
      <4> QED BY <1>5, <2>1, <2>3, <4>1
    <3> QED BY <3>1, <3>2
  <2> QED BY <2>4, <2>5, <2>6
<1>9. /\ kn \in [Ids -> Known] /\ rg \in Seq(Ids) /\ Len(rg) <= Remembered
      /\ kn[id] = [is |-> outcome, seq |-> box.known[id].seq]
      /\ \A j \in Ids \ {id} : \/ kn[j] = box.known[j]
                               \/ kn[j] = Unknown /\ box.known[j].is \in Outcomes
      /\ \A k \in 1 .. Len(rg) : kn[rg[k]].is \in Outcomes
      /\ \A j \in Ids : kn[j].is \in Outcomes => \E k \in 1 .. Len(rg) : rg[k] = j
      /\ \A j, k \in 1 .. Len(rg) : rg[j] = rg[k] => j = k
  <2>1. Remembered \in Nat \ {0}
    BY InboxAssumption
  <2>2. CASE ~evict
    BY <1>3, <1>5, <1>6, <1>8, <2>1, <2>2, SMTT(40)
  <2>3. CASE evict
    <3>1. /\ ring # <<>> /\ Head(ring) = ring[1] /\ 1 \in 1 .. Len(ring) /\ ring[1] # id
      <4>1. Len(ring) \in Nat /\ Len(ring) > 1 /\ Len(box.settled) \in Nat \ {0}
        BY <1>3, <1>5, <2>1, <2>3
      <4>2. ring # <<>> /\ Head(ring) = ring[1] /\ 1 \in 1 .. Len(ring)
        BY <1>5, <4>1
      <4>3. 1 \in 1 .. Len(box.settled) /\ ring[1] = box.settled[1]
        BY <1>5, <4>1
      <4> QED BY <1>7, <4>2, <4>3
    <3>2. /\ rg \in Seq(Ids) /\ Len(rg) = Len(ring) - 1
          /\ \A k \in 1 .. Len(rg) : rg[k] = ring[k + 1] /\ k + 1 \in 1 .. Len(ring) /\ k + 1 # 1
      BY <1>5, <2>3, <3>1
    <3>3. kn = [known EXCEPT ![ring[1]] = Unknown]
      BY <2>3, <3>1
    <3>4. /\ kn \in [Ids -> Known] /\ kn[ring[1]] = Unknown /\ ring[1] \in Ids
          /\ \A j \in Ids : j # ring[1] => kn[j] = known[j]
      <4> HIDE DEF kn
      <4> QED BY <1>6, <1>8, <3>1, <3>3, KnownAre
    <3> HIDE DEF kn, rg
    <3>5. Unknown.is \notin Outcomes
      BY KnownAre DEF Outcomes
    <3>6. Len(rg) <= Remembered
      BY <1>3, <1>5, <2>1, <3>2 DEF BoxInv, Remembers
    <3>7. \A k \in 1 .. Len(rg) : rg[k] # ring[1] /\ kn[rg[k]].is \in Outcomes
      BY <1>8, <3>1, <3>2, <3>4
    <3>8. ASSUME NEW j \in Ids, kn[j].is \in Outcomes PROVE \E k \in 1 .. Len(rg) : rg[k] = j
      <4>1. j # ring[1] /\ known[j].is \in Outcomes
        BY <3>4, <3>5, <3>8
      <4>2. PICK k \in 1 .. Len(ring) : ring[k] = j
        BY <1>8, <4>1
      <4>3. k - 1 \in 1 .. Len(rg) /\ (k - 1) + 1 = k
        BY <1>5, <3>2, <4>1, <4>2
      <4> QED BY <3>2, <4>2, <4>3
    <3>9. \A j, k \in 1 .. Len(rg) : rg[j] = rg[k] => j = k
      <4> SUFFICES ASSUME NEW j \in 1 .. Len(rg), NEW k \in 1 .. Len(rg), rg[j] = rg[k] PROVE j = k
        OBVIOUS
      <4>1. j + 1 = k + 1
        BY <1>8, <3>2
      <4> QED BY <4>1
    <3>10. /\ kn[id] = known[id]
           /\ \A j \in Ids \ {id} : \/ kn[j] = box.known[j]
                                    \/ kn[j] = Unknown /\ box.known[j].is \in Outcomes
      BY <1>6, <1>8, <3>1, <3>4
    <3> QED BY <1>6, <3>2, <3>4, <3>6, <3>7, <3>8, <3>9, <3>10
  <2> QED BY <2>2, <2>3
<1> HIDE DEF kn, rg
<1>10. /\ Bytes(q) \in Nat /\ SizeOf[id] \in Nat /\ Bytes(box.fifo) = Bytes(q) + SizeOf[id]
  <2>1. \A k \in 1 .. Len(q) : q[k].id = IF k < i THEN box.fifo[k].id ELSE box.fifo[k + 1].id
    BY <1>4
  <2> QED BY <1>2, <1>3, <1>4, <2>1, BytesWithout
<1>11. w = Bytes(q) /\ w \in Nat /\ w <= CapBytes
  BY <1>10, InboxAssumption DEF BoxInv, Bounds
<1> HIDE DEF w
<1>12. /\ new.last = box.last /\ new.fifo = q /\ new.bytes = w /\ new.settled = rg
       /\ new.known = kn /\ new.stream = box.stream /\ IsBox(new)
  BY <1>1, <1>3, <1>4, <1>9, <1>11 DEF IsBox
<1>13. ASSUME NEW k \in 1 .. Len(q)
       PROVE  \E l \in 1 .. Len(box.fifo) :
                 /\ l = (IF k < i THEN k ELSE k + 1) /\ q[k] = box.fifo[l]
                 /\ l # i /\ k <= l /\ box.fifo[l].id # id
  <2>1. CASE k < i
    <3>1. k \in 1 .. Len(box.fifo) /\ k # i
      BY <1>2, <2>1
    <3> QED BY <1>2, <1>4, <2>1, <3>1
  <2>2. CASE ~(k < i)
    <3>1. k + 1 \in 1 .. Len(box.fifo) /\ k + 1 # i /\ k <= k + 1
      BY <1>2, <1>4, <2>2
    <3> QED BY <1>2, <1>4, <2>2, <3>1
  <2> QED BY <2>1, <2>2
<1>14. Queued(new)
  <2>1. ASSUME NEW k \in 1 .. Len(q) PROVE Sits(new, q[k], k)
    <3>1. PICK l \in 1 .. Len(box.fifo) : q[k] = box.fifo[l] /\ k <= l /\ box.fifo[l].id # id
      BY <1>13
    <3>2. Sits(box, box.fifo[l], l) /\ box.fifo[l].id \in Ids
          /\ box.known[box.fifo[l].id].is \notin Outcomes
      BY EntriesAre, KnownAre
    <3>3. kn[box.fifo[l].id] = box.known[box.fifo[l].id]
      BY <1>9, <3>1, <3>2
    <3>4. box.fifo[l].place # "Fresh" => k <= Window
      BY <3>1, <3>2, InboxAssumption DEF Sits
    <3> QED BY <1>12, <3>1, <3>2, <3>3, <3>4 DEF Sits
  <2>2. ASSUME NEW j \in 1 .. Len(q), NEW k \in 1 .. Len(q), j < k PROVE Before(q[j], q[k])
    <3>1. PICK l \in 1 .. Len(box.fifo) : q[j] = box.fifo[l] /\ l = (IF j < i THEN j ELSE j + 1)
      BY <1>13
    <3>2. PICK m \in 1 .. Len(box.fifo) : q[k] = box.fifo[m] /\ m = (IF k < i THEN k ELSE k + 1)
      BY <1>13
    <3>3. l < m
      BY <1>2, <2>2, <3>1, <3>2
    <3> QED BY <3>1, <3>2, <3>3 DEF BoxInv, Queued
  <2>3. ASSUME NEW j \in Ids, kn[j].is = "Pending" PROVE \E k \in 1 .. Len(q) : q[k].id = j
    <3>1. j # id /\ box.known[j].is = "Pending"
      BY <1>9, <2>3, KnownAre
    <3>2. PICK l \in 1 .. Len(box.fifo) : box.fifo[l].id = j
      BY <3>1 DEF BoxInv, Queued
    <3>3. l # i
      BY <1>2, <3>1, <3>2
    <3>4. CASE l < i
      <4>1. l \in 1 .. Len(q)
        BY <1>2, <1>4, <3>4
      <4> QED BY <1>4, <3>2, <3>4, <4>1
    <3>5. CASE ~(l < i)
      <4>1. l - 1 \in 1 .. Len(q) /\ ~(l - 1 < i) /\ (l - 1) + 1 = l
        BY <1>2, <1>4, <3>3, <3>5
      <4> QED BY <1>4, <3>2, <4>1
    <3> QED BY <3>4, <3>5
  <2> QED BY <1>12, <2>1, <2>2, <2>3 DEF Queued
<1>15. Remembers(new)
  BY <1>9, <1>12 DEF Remembers
<1>16. Bounds(new)
  <2>1. Len(q) <= CapMessages
    BY <1>3, <1>4, InboxAssumption DEF BoxInv, Bounds
  <2> QED BY <1>11, <1>12, <2>1 DEF Bounds
<1>17. BoxInv(new)
  BY <1>12, <1>14, <1>15, <1>16 DEF BoxInv
<1> QED BY <1>2, <1>4, <1>9, <1>12, <1>17 DEF new, i

(* What is written now: of the first Window those that are not written.     *)
LEMMA DueIs ==
  ASSUME NEW box, BoxInv(box)
  PROVE  /\ Due(box) \in Seq(Entries)
         /\ box.stream = None => Due(box) = <<>>
         /\ \E h : /\ h \in [1 .. Len(Due(box)) -> 1 .. Len(box.fifo)]
                   /\ \A k \in 1 .. Len(Due(box)) :
                         /\ Due(box)[k] = box.fifo[h[k]]
                         /\ box.fifo[h[k]].place # "Out" /\ h[k] <= Window
                   /\ \A j, k \in 1 .. Len(Due(box)) : j < k => h[j] < h[k]
                   /\ \A i \in 1 .. Len(box.fifo) :
                         box.stream # None /\ i <= Window /\ box.fifo[i].place # "Out" =>
                           \E k \in 1 .. Len(Due(box)) : h[k] = i
<1> DEFINE d == Due(box)
           Taken(h) == /\ h \in [1 .. Len(d) -> 1 .. Len(box.fifo)]
                       /\ \A k \in 1 .. Len(d) :
                             /\ d[k] = box.fifo[h[k]]
                             /\ box.fifo[h[k]].place # "Out" /\ h[k] <= Window
                       /\ \A j, k \in 1 .. Len(d) : j < k => h[j] < h[k]
                       /\ \A i \in 1 .. Len(box.fifo) :
                             box.stream # None /\ i <= Window /\ box.fifo[i].place # "Out" =>
                               \E k \in 1 .. Len(d) : h[k] = i
<1> SUFFICES /\ d \in Seq(Entries)
             /\ box.stream = None => d = <<>>
             /\ \E h : Taken(h)
  OBVIOUS
<1>0. box.fifo \in Seq(Entries) /\ Len(box.fifo) \in Nat /\ Window \in Nat
  BY InboxAssumption DEF BoxInv, IsBox
<1>1. CASE box.stream = None
  <2>1. d = <<>>
    BY <1>1 DEF Due
  <2>2. d \in Seq(Entries) /\ Len(d) = 0
    BY <2>1
  <2> HIDE DEF d
  <2>3. Taken(<<>>)
    BY <1>1, <2>2
  <2> HIDE DEF Taken
  <2> QED BY <1>1, <2>1, <2>2, <2>3
<1>2. CASE box.stream # None
  <2> DEFINE m == IF Len(box.fifo) < Window THEN Len(box.fifo) ELSE Window
             s == SubSeq(box.fifo, 1, m)
             S == {entry \in ToSet(box.fifo) : entry.place # "Out"}
  <2>1. d = Only(s, S)
    BY <1>2 DEF Due
  <2>2. m \in Nat /\ m <= Len(box.fifo) /\ m <= Window
        /\ \A i \in 1 .. Len(box.fifo) : i <= Window => i \in 1 .. m
    BY <1>0
  <2> HIDE DEF m
  <2>3. s \in Seq(Entries) /\ Len(s) = m /\ \A k \in 1 .. m : s[k] = box.fifo[k]
    BY <1>0, <2>2
  <2>4. \A k \in 1 .. Len(box.fifo) : box.fifo[k] \in S <=> box.fifo[k].place # "Out"
    BY <1>0 DEF ToSet
  <2> HIDE DEF s, S, d
  <2>5. d \in Seq(Entries)
    BY <2>1, <2>3, OnlyPicks
  <2>6. PICK h : /\ h \in [1 .. Len(d) -> 1 .. Len(s)]
                 /\ \A k \in 1 .. Len(d) : d[k] = s[h[k]] /\ d[k] \in S
                 /\ \A j, k \in 1 .. Len(d) : j < k => h[j] < h[k]
                 /\ \A i \in 1 .. Len(s) : s[i] \in S => \E k \in 1 .. Len(d) : h[k] = i
    BY <2>1, <2>3, OnlyPicks
  <2>7. \A i \in 1 .. m : i \in 1 .. Len(box.fifo) /\ i <= Window
    BY <1>0, <2>2
  <2>8. \A k \in 1 .. Len(d) : /\ h[k] \in 1 .. m
                                     /\ d[k] = box.fifo[h[k]]
                                     /\ box.fifo[h[k]].place # "Out"
    BY <2>3, <2>4, <2>6, <2>7
  <2>9. h \in [1 .. Len(d) -> 1 .. Len(box.fifo)]
    BY <2>3, <2>6, <2>7
  <2>10. \A i \in 1 .. Len(box.fifo) :
            i <= Window /\ box.fifo[i].place # "Out" => \E k \in 1 .. Len(d) : h[k] = i
    BY <2>2, <2>3, <2>4, <2>6
  <2>11. \A k \in 1 .. Len(d) : h[k] <= Window
    BY <2>7, <2>8
  <2>12. Taken(h)
    BY <2>6, <2>8, <2>9, <2>10, <2>11
  <2> HIDE DEF Taken
  <2> QED BY <1>2, <2>5, <2>12
<1> QED BY <1>1, <1>2

(* The invariant of the proofs is the one that the runs check.              *)
LEMMA ConsistentIs == ASSUME NEW box, BoxInv(box) PROVE Consistent(box)
<1> DEFINE n == Len(box.fifo)
<1>0. DOMAIN box.settled = 1 .. Len(box.settled) /\ \A k \in 1 .. Len(box.settled) : box.settled[k] \in Ids
  BY DEF BoxInv, IsBox
<1>1. \A k \in 1..n :
        /\ box.known[box.fifo[k].id] = [is |-> "Pending", seq |-> box.fifo[k].seq]
        /\ box.fifo[k].place = "Out" => k <= Window /\ box.stream # None
        /\ box.fifo[k].seq <= box.last
  BY EntriesAre DEF Sits
<1>2. \A j, k \in 1..n : j < k => Before(box.fifo[j], box.fifo[k])
  BY DEF BoxInv, Queued
<1>3. {i \in Ids : box.known[i].is = "Pending"} = {box.fifo[k].id : k \in 1..n}
  <2>1. \A i \in Ids : box.known[i].is = "Pending" => \E k \in 1 .. n : box.fifo[k].id = i
    BY DEF BoxInv, Queued
  <2>2. \A k \in 1 .. n : box.fifo[k].id \in Ids /\ box.known[box.fifo[k].id].is = "Pending"
    BY EntriesAre
  <2> HIDE DEF n
  <2> QED BY <2>1, <2>2
<1>4. {i \in Ids : box.known[i].is \in Outcomes} = ToSet(box.settled)
  <2>1. ToSet(box.settled) = {box.settled[k] : k \in 1 .. Len(box.settled)}
    BY <1>0 DEF ToSet
  <2> QED BY <1>0, <2>1 DEF BoxInv, Remembers
<1>5. IsInjective(box.settled) /\ Len(box.settled) <= Remembered
  BY <1>0 DEF BoxInv, Remembers, IsInjective
<1>6. box.bytes = Bytes(box.fifo) /\ n <= CapMessages /\ box.bytes <= CapBytes
  BY DEF BoxInv, Bounds
<1> QED BY <1>1, <1>2, <1>3, <1>4, <1>5, <1>6, Zenon DEF Consistent, Before

-----------------------------------------------------------------------------
(* The ranges of the variables.                                             *)
Tasks == [op : {"serve", "finish"}, conn : Conns]
         \union [op : {"answer"}, conn : Conns, pane : Panes, id : Ids, seq : Nat, state : States]
         \union [op : {"show"}, pane : Panes, open : BOOLEAN]
         \union [op : {"flush", "stop", "remove"}, pane : Panes]
         \union [op : {"delete"}, panes : Seq(Panes)]
         \union [op : {"reap"}]

Types ==
  /\ inbox = [p \in Panes |-> inbox[p]]
  /\ \A p \in Panes : BoxInv(inbox[p]) /\ inbox[p].stream \in Conns \union {None}
  /\ proc \in [Panes -> {"Live", "Dead", "Gone"}]
  /\ listed \subseteq Panes
  /\ phase \in [Conns -> {"Head", "Handling", "Stream", "Closed"}]
  /\ out \in [Conns -> {"Open", "Draining", "Shut"}]
  /\ role \in [Conns -> Panes \union {None}]
  /\ \A c \in Conns : role[c] # None <=> phase[c] = "Stream"
  /\ input \in [Conns -> Seq(Requests)]
  /\ waits \in Seq(Waits) /\ todo \in Seq(Tasks)
  /\ shown \in [Panes -> BOOLEAN]
  /\ sent \in [Conns -> Seq(Nat)]
  /\ reply.state \in States \union {None}
  /\ \A v \in verdicts : v.is \in Outcomes

(* No stream, no parent and no answer is a connection, a pane or an         *)
(* outcome.                                                                 *)
LEMMA NoneIs == None \notin Conns /\ None \notin Panes /\ None \notin Outcomes
BY MessagesAssumption

(* The fields of a request by its kind.                                     *)
LEMMA RequestsAre ==
  \A r \in Requests : /\ r.op \in {"post", "open", "delete"}
                      /\ r.op \in {"post", "open"} => r.pane \in Panes
                      /\ r.op = "post" => r.id \in Ids
                      /\ r.op = "delete" => r.panes \in Seq(Panes) /\ r \in Tasks
BY DEF Requests, Tasks

(* The fields of a task by its kind.                                        *)
LEMMA TasksAre ==
  \A t \in Tasks :
     /\ t.op \in {"serve", "finish", "answer"} => t.conn \in Conns
     /\ t.op \in {"answer", "show", "flush", "stop", "remove"} => t.pane \in Panes
     /\ t.op = "answer" => t.id \in Ids /\ t.seq \in Nat /\ t.state \in States
     /\ t.op = "show" => t.open \in BOOLEAN
     /\ t.op = "delete" => t.panes \in Seq(Panes)
BY DEF Tasks

(* What the handlers put on the stack are tasks.                            *)
LEMMA TasksMade ==
  /\ \A c \in Conns : Serve(c) \in Tasks /\ Finish(c) \in Tasks
  /\ \A p \in Panes : /\ Flush(p) \in Tasks /\ Stop(p) \in Tasks /\ Drop(p) \in Tasks
                      /\ \A open \in BOOLEAN : Show(p, open) \in Tasks
  /\ \A w \in Waits, state \in States : Answer(w, state) \in Tasks
  /\ \A ps \in Seq(Panes) : Delete(ps) \in Tasks
  /\ Reap \in Tasks
BY DEF Tasks, Serve, Finish, Flush, Stop, Drop, Show, Answer, Delete, Reap, Waits

(* The fields of the tasks that the handlers make.                          *)
LEMMA TaskOps ==
  /\ \A c : Serve(c).op = "serve" /\ Serve(c).conn = c /\ Finish(c).op = "finish" /\ Finish(c).conn = c
  /\ \A p : /\ Flush(p).op = "flush" /\ Stop(p).op = "stop" /\ Drop(p).op = "remove"
            /\ Flush(p).pane = p /\ Stop(p).pane = p /\ Drop(p).pane = p
            /\ \A open : Show(p, open).op = "show" /\ Show(p, open).pane = p /\ Show(p, open).open = open
  /\ \A w, state : LET t == Answer(w, state)
                   IN  /\ t.op = "answer" /\ t.conn = w.conn /\ t.pane = w.pane /\ t.id = w.id
                       /\ t.seq = w.seq /\ t.state = state
  /\ \A ps : Delete(ps).op = "delete" /\ Delete(ps).panes = ps
  /\ Reap.op = "reap"
BY DEF Serve, Finish, Flush, Stop, Drop, Show, Answer, Delete, Reap

-----------------------------------------------------------------------------
(* No two waits, and no two answers, are of one connection; the end of a    *)
(* turn removes connections when nothing else is left to do.                *)
WaitsApart(s) == \A j, k \in 1 .. Len(s) : s[j].conn = s[k].conn => j = k

AnswersApart(s) ==
  \A j, k \in 1 .. Len(s) :
     s[j].op = "answer" /\ s[k].op = "answer" /\ s[j].conn = s[k].conn => j = k

ReapLast(s) == \A k \in 1 .. Len(s) : s[k].op = "reap" => k = Len(s)

(* Every place of a concatenation is a place of one of its parts.           *)
LEMMA ConcatPlaces ==
  ASSUME NEW X, NEW a \in Seq(X), NEW b \in Seq(X)
  PROVE  /\ Len(a \o b) = Len(a) + Len(b) /\ Len(a) \in Nat /\ Len(b) \in Nat
         /\ \A k \in 1 .. Len(a) : (a \o b)[k] = a[k] /\ a[k] \in Elems(a)
         /\ \A k \in 1 .. Len(b) : (a \o b)[Len(a) + k] = b[k] /\ b[k] \in Elems(b)
         /\ \A k \in 1 .. Len(a \o b) : k \in 1 .. Len(a) \/ \E i \in 1 .. Len(b) : k = Len(a) + i
<1> DEFINE r == a \o b
<1>1. /\ Len(r) = Len(a) + Len(b)
      /\ \A k \in 1 .. Len(a) : r[k] = a[k]
      /\ \A k \in 1 .. Len(b) : r[Len(a) + k] = b[k]
  BY ElemsConcat
<1>2. Len(a) \in Nat /\ Len(b) \in Nat
  OBVIOUS
<1> HIDE DEF r
<1>3. \A k \in 1 .. Len(r) : k \in 1 .. Len(a) \/ \E i \in 1 .. Len(b) : k = Len(a) + i
  <2> SUFFICES ASSUME NEW k \in 1 .. Len(r), k \notin 1 .. Len(a)
               PROVE  \E i \in 1 .. Len(b) : k = Len(a) + i
    OBVIOUS
  <2>1. k - Len(a) \in 1 .. Len(b) /\ k = Len(a) + (k - Len(a))
    BY <1>1, <1>2
  <2> QED BY <2>1
<1> QED BY <1>1, <1>2, <1>3 DEF r, Elems

(* Answers stay apart when two stacks are put together.                     *)
LEMMA ApartConcat ==
  ASSUME NEW a \in Seq(Tasks), NEW b \in Seq(Tasks), AnswersApart(a), AnswersApart(b),
         \A t \in Elems(a), u \in Elems(b) :
            t.op = "answer" /\ u.op = "answer" => t.conn # u.conn
  PROVE  AnswersApart(a \o b)
<1> DEFINE r == a \o b
<1>1. /\ Len(r) = Len(a) + Len(b) /\ Len(a) \in Nat /\ Len(b) \in Nat
      /\ \A k \in 1 .. Len(a) : r[k] = a[k] /\ a[k] \in Elems(a)
      /\ \A k \in 1 .. Len(b) : r[Len(a) + k] = b[k] /\ b[k] \in Elems(b)
      /\ \A k \in 1 .. Len(r) : k \in 1 .. Len(a) \/ \E i \in 1 .. Len(b) : k = Len(a) + i
  BY ConcatPlaces
<1> HIDE DEF r
<1> SUFFICES ASSUME NEW j \in 1 .. Len(r), NEW k \in 1 .. Len(r),
                    r[j].op = "answer", r[k].op = "answer", r[j].conn = r[k].conn
             PROVE  j = k
  BY DEF AnswersApart, r
<1>2. CASE j \in 1 .. Len(a) /\ k \in 1 .. Len(a)
  BY <1>1, <1>2 DEF AnswersApart
<1>3. CASE j \in 1 .. Len(a) /\ k \notin 1 .. Len(a)
  BY <1>1, <1>3
<1>4. CASE j \notin 1 .. Len(a) /\ k \in 1 .. Len(a)
  BY <1>1, <1>4
<1>5. CASE j \notin 1 .. Len(a) /\ k \notin 1 .. Len(a)
  <2>1. PICK i \in 1 .. Len(b), l \in 1 .. Len(b) : j = Len(a) + i /\ k = Len(a) + l
    BY <1>1, <1>5
  <2>2. i = l
    BY <1>1, <2>1 DEF AnswersApart
  <2> QED BY <2>1, <2>2
<1> QED BY <1>2, <1>3, <1>4, <1>5

(* A task that is done leaves the others apart, and nothing is left behind  *)
(* the end of the turn.                                                     *)
LEMMA ApartTail ==
  ASSUME NEW s \in Seq(Tasks), s # <<>>, AnswersApart(s), ReapLast(s)
  PROVE  /\ AnswersApart(Tail(s)) /\ ReapLast(Tail(s))
         /\ \A t \in Elems(Tail(s)) : Head(s).op = "answer" /\ t.op = "answer" => Head(s).conn # t.conn
         /\ Head(s).op = "reap" => Tail(s) = <<>>
<1> DEFINE r == Tail(s)
<1>1. /\ Len(r) = Len(s) - 1 /\ Len(s) \in Nat \ {0} /\ Head(s) = s[1] /\ r \in Seq(Tasks)
      /\ \A k \in 1 .. Len(r) : r[k] = s[k + 1]
  BY ElemsTail
<1> HIDE DEF r
<1>2. \A k \in 1 .. Len(r) : k + 1 \in 1 .. Len(s) /\ k + 1 # 1 /\ (k + 1 = Len(s) => k = Len(r))
  BY <1>1
<1>3. AnswersApart(r)
  <2> SUFFICES ASSUME NEW j \in 1 .. Len(r), NEW k \in 1 .. Len(r),
                      r[j].op = "answer", r[k].op = "answer", r[j].conn = r[k].conn
               PROVE  j = k
    BY DEF AnswersApart
  <2>1. j + 1 = k + 1
    BY <1>1, <1>2 DEF AnswersApart
  <2> QED BY <2>1
<1>4. ReapLast(r)
  BY <1>1, <1>2 DEF ReapLast
<1>5. 1 \in 1 .. Len(s)
  BY <1>1
<1>6. \A t \in Elems(r) : Head(s).op = "answer" /\ t.op = "answer" => Head(s).conn # t.conn
  BY <1>1, <1>2, <1>5 DEF AnswersApart, Elems
<1>7. Head(s).op = "reap" => Len(r) = 0
  BY <1>1, <1>5 DEF ReapLast
<1>8. Len(r) = 0 => r = <<>>
  BY <1>1
<1> QED BY <1>3, <1>4, <1>6, <1>7, <1>8 DEF r

(* What is put in front leaves the end of the turn last.                    *)
LEMMA ReapConcat ==
  ASSUME NEW a \in Seq(Tasks), NEW b \in Seq(Tasks), ReapLast(b),
         \A t \in Elems(a) : t.op # "reap"
  PROVE  ReapLast(a \o b)
<1> DEFINE r == a \o b
<1>1. /\ Len(r) = Len(a) + Len(b) /\ Len(a) \in Nat /\ Len(b) \in Nat
      /\ \A k \in 1 .. Len(a) : r[k] = a[k] /\ a[k] \in Elems(a)
      /\ \A k \in 1 .. Len(b) : r[Len(a) + k] = b[k]
      /\ \A k \in 1 .. Len(r) : k \in 1 .. Len(a) \/ \E i \in 1 .. Len(b) : k = Len(a) + i
  BY ConcatPlaces
<1> HIDE DEF r
<1> SUFFICES ASSUME NEW k \in 1 .. Len(r), r[k].op = "reap" PROVE k = Len(r)
  BY DEF ReapLast, r
<1>2. PICK i \in 1 .. Len(b) : k = Len(a) + i
  BY <1>1
<1>3. i = Len(b)
  BY <1>1, <1>2 DEF ReapLast
<1> QED BY <1>1, <1>2, <1>3

(* The set of a sequence is the set of its elements.                        *)
LEMMA ToSetIs == ASSUME NEW X, NEW s \in Seq(X) PROVE ToSet(s) = Elems(s) /\ Elems(s) \subseteq X
<1>1. DOMAIN s = 1 .. Len(s)
  OBVIOUS
<1> QED BY <1>1 DEF ToSet, Elems

(* Waits stay apart when some of them end.                                  *)
LEMMA OnlyApart ==
  ASSUME NEW s \in Seq(Waits), WaitsApart(s), NEW S
  PROVE  WaitsApart(Only(s, S))
<1> DEFINE r == Only(s, S)
<1>1. PICK h : /\ h \in [1 .. Len(r) -> 1 .. Len(s)]
               /\ \A k \in 1 .. Len(r) : r[k] = s[h[k]] /\ r[k] \in S
               /\ \A j, k \in 1 .. Len(r) : j < k => h[j] < h[k]
  BY OnlyPicks
<1>2. r \in Seq(Waits) /\ Len(r) \in Nat
  BY OnlyPicks
<1> HIDE DEF r
<1> SUFFICES ASSUME NEW j \in 1 .. Len(r), NEW k \in 1 .. Len(r), r[j].conn = r[k].conn
             PROVE  j = k
  BY DEF WaitsApart, r
<1>3. h[j] = h[k]
  BY <1>1 DEF WaitsApart
<1>4. h[j] \in 1 .. Len(s) /\ h[k] \in 1 .. Len(s)
  BY <1>1
<1>5. ~(j < k) /\ ~(k < j)
  BY <1>1, <1>3, <1>4
<1> QED BY <1>2, <1>5

(* Waits that are over leave the list and are answered, once each.          *)
Answers(over, state) == [k \in DOMAIN over |-> Answer(over[k], state)]

(* Waits that end are answered once each, and the others stay.              *)
LEMMA AnswersAre ==
  ASSUME NEW s \in Seq(Waits), WaitsApart(s), NEW hit \in SUBSET Elems(s), NEW state \in States
  PROVE  LET over == Only(s, hit)
             answers == Answers(over, state)
             left == Only(s, ToSet(s) \ hit)
         IN  /\ left \in Seq(Waits) /\ WaitsApart(left) /\ Elems(left) = Elems(s) \ hit
             /\ answers \in Seq(Tasks) /\ AnswersApart(answers)
             /\ Elems(answers) = {Answer(w, state) : w \in hit}
             /\ \A t \in Elems(answers) : t.op = "answer"
<1> DEFINE over == Only(s, hit)
           answers == Answers(over, state)
           left == Only(s, ToSet(s) \ hit)
<1>1. /\ left \in Seq(Waits) /\ Elems(left) = Elems(s) \ hit /\ WaitsApart(left)
      /\ over \in Seq(Waits) /\ Elems(over) = hit /\ WaitsApart(over)
  <2>1. ToSet(s) = Elems(s)
    BY ToSetIs
  <2>2. \A S : Only(s, S) \in Seq(Waits) /\ Elems(Only(s, S)) = Elems(s) \cap S
    BY ElemsOnly
  <2>3. \A S : WaitsApart(Only(s, S))
    BY OnlyApart
  <2>4. Elems(s) \cap (ToSet(s) \ hit) = Elems(s) \ hit /\ Elems(s) \cap hit = hit
    BY <2>1
  <2> QED BY <2>2, <2>3, <2>4
<1>2. DOMAIN over = 1 .. Len(over) /\ Len(over) \in Nat /\ \A k \in 1 .. Len(over) : over[k] \in Waits
  BY <1>1
<1> HIDE DEF over, left
<1>3. answers = [k \in 1 .. Len(over) |-> Answer(over[k], state)]
  BY <1>2 DEF Answers
<1>4. /\ answers \in Seq(Tasks) /\ Len(answers) = Len(over)
      /\ \A k \in 1 .. Len(over) : answers[k] = Answer(over[k], state)
  BY <1>2, <1>3, TasksMade
<1> HIDE DEF answers
<1>5. \A k \in 1 .. Len(over) : answers[k].op = "answer" /\ answers[k].conn = over[k].conn
  BY <1>4, TaskOps
<1>6. AnswersApart(answers)
  BY <1>1, <1>4, <1>5 DEF AnswersApart, WaitsApart
<1>7. Elems(answers) = {Answer(w, state) : w \in hit}
  BY <1>1, <1>4 DEF Elems
<1>8. \A t \in Elems(answers) : t.op = "answer"
  BY <1>4, <1>5 DEF Elems
<1> QED BY <1>1, <1>4, <1>6, <1>7, <1>8 DEF over, answers, left

-----------------------------------------------------------------------------
(* What is told of an id follows from its entry.                            *)
Holds(box, id, seq) ==
  /\ box.known[id] = [is |-> "Pending", seq |-> seq]
  /\ \E k \in 1 .. Len(box.fifo) : box.fifo[k].id = id /\ box.fifo[k].place = "Out"

(* What Inbox::status tells of a known id is what happened to its message.  *)
LEMMA StatusIs ==
  ASSUME NEW box, BoxInv(box), NEW id \in Ids, box.known[id] # Unknown
  PROVE  /\ Status(box, id) \in Outcomes \union {"Delivered", "Queued"}
         /\ box.known[id].seq \in Nat
         /\ Status(box, id) \in Outcomes => box.known[id].is = Status(box, id)
         /\ Status(box, id) = "Delivered" => Holds(box, id, box.known[id].seq)
<1>1. /\ box.known[id] = [is |-> box.known[id].is, seq |-> box.known[id].seq]
      /\ box.known[id].is \in {"Pending"} \union Outcomes /\ box.known[id].seq \in Nat
  BY KnownAre DEF BoxInv, IsBox
<1>2. CASE box.known[id].is = "Pending"
  <2>1. /\ Entry(box, id) \in 1 .. Len(box.fifo) /\ box.fifo[Entry(box, id)].id = id
    BY <1>2, EntryIs
  <2>2. Status(box, id) = IF box.fifo[Entry(box, id)].place = "Out" THEN "Delivered" ELSE "Queued"
    BY <1>2 DEF Status
  <2> QED BY <1>1, <1>2, <2>1, <2>2 DEF Holds, Outcomes
<1>3. CASE box.known[id].is # "Pending"
  <2>1. Status(box, id) = box.known[id].is
    BY <1>3 DEF Status
  <2> QED BY <1>1, <1>3, <2>1 DEF Outcomes
<1> QED BY <1>2, <1>3

(* A sender waits for a message that counts as delivered.                   *)
LEMMA HoldsIs ==
  ASSUME NEW box, BoxInv(box), NEW id \in Ids, NEW seq, Holds(box, id, seq)
  PROVE  Status(box, id) = "Delivered"
<1>1. box.known[id].is = "Pending"
  BY DEF Holds
<1>2. PICK k \in 1 .. Len(box.fifo) : box.fifo[k].id = id /\ box.fifo[k].place = "Out"
  BY DEF Holds
<1>3. k = Entry(box, id)
  BY <1>1, <1>2, EntryIs
<1> QED BY <1>1, <1>2, <1>3 DEF Status

-----------------------------------------------------------------------------
(* What a change of a queue leaves of the messages in it.                   *)
Full(box) == \A k \in 1 .. Len(box.fifo) : k <= Window => box.fifo[k].place = "Out"

Numbers(box) == {box.fifo[k].seq : k \in 1 .. Len(box.fifo)}

Grows(box, new) ==
  /\ \A id \in Ids, seq \in Nat : Holds(box, id, seq) => Holds(new, id, seq)
  /\ \A id \in Ids : new.known[id].is \in Outcomes => new.known[id] = box.known[id]
  /\ Numbers(box) \subseteq Numbers(new)

(* A write takes no message away, changes no verdict, and fills the window. *)
LEMMA PumpedGrows ==
  ASSUME NEW box, BoxInv(box)
  PROVE  /\ BoxInv(Pumped(box)) /\ Pumped(box).stream = box.stream
         /\ box.stream # None => Full(Pumped(box))
         /\ Grows(box, Pumped(box))
<1> DEFINE new == Pumped(box)
<1>1. /\ BoxInv(new) /\ new.stream = box.stream /\ new.known = box.known
      /\ Len(new.fifo) = Len(box.fifo)
      /\ \A k \in 1 .. Len(box.fifo) :
            /\ new.fifo[k].place = IF box.stream # None /\ k <= Window THEN "Out" ELSE box.fifo[k].place
            /\ new.fifo[k].id = box.fifo[k].id /\ new.fifo[k].seq = box.fifo[k].seq
  BY PumpedIs DEF Replaced
<1> HIDE DEF new
<1>2. \A id \in Ids, seq \in Nat : Holds(box, id, seq) => Holds(new, id, seq)
  BY <1>1 DEF Holds
<1>3. Numbers(box) \subseteq Numbers(new)
  BY <1>1 DEF Numbers
<1> QED BY <1>1, <1>2, <1>3 DEF Grows, Full, new

(* A new message takes no other away and changes no verdict.                *)
LEMMA AdmittedGrows ==
  ASSUME NEW box, BoxInv(box), NEW id \in Ids, Admission(box, id) = "New"
  PROVE  /\ BoxInv(Admitted(box, id)) /\ Admitted(box, id).stream = box.stream
         /\ Grows(box, Admitted(box, id))
         /\ Admitted(box, id).known[id] # Unknown
<1> DEFINE new == Admitted(box, id)
           e == [id |-> id, seq |-> box.last + 1, place |-> "Fresh"]
<1>1. /\ BoxInv(new) /\ new.stream = box.stream
      /\ new.fifo = Append(box.fifo, e)
      /\ new.known = [box.known EXCEPT ![id] = [is |-> "Pending", seq |-> box.last + 1]]
      /\ box.known[id] = Unknown
  BY AdmittedIs
<1> HIDE DEF new
<1>2. box.known \in [Ids -> Known] /\ box.last \in Nat /\ box.fifo \in Seq(Entries) /\ Len(box.fifo) \in Nat
  BY DEF BoxInv, IsBox
<1>3. /\ new.known[id] = [is |-> "Pending", seq |-> box.last + 1]
      /\ \A i \in Ids : i # id => new.known[i] = box.known[i]
  BY <1>1, <1>2
<1>4. \A k \in 1 .. Len(box.fifo) : k \in 1 .. Len(new.fifo) /\ new.fifo[k] = box.fifo[k]
  <2>1. e \in Entries
    BY <1>2 DEF Entries, Places
  <2> HIDE DEF e
  <2> QED BY <1>1, <1>2, <2>1
<1>5. new.known[id] # Unknown /\ new.known[id].is \notin Outcomes
  BY <1>3 DEF Unknown, Outcomes
<1>6. \A i \in Ids, seq \in Nat : Holds(box, i, seq) => Holds(new, i, seq)
  <2>1. \A seq \in Nat : ~Holds(box, id, seq)
    BY <1>1 DEF Holds, Unknown
  <2> QED BY <1>3, <1>4, <2>1 DEF Holds
<1>7. \A i \in Ids : new.known[i].is \in Outcomes => new.known[i] = box.known[i]
  BY <1>3, <1>5
<1>8. Numbers(box) \subseteq Numbers(new)
  BY <1>4 DEF Numbers
<1> QED BY <1>1, <1>5, <1>6, <1>7, <1>8 DEF Grows, new

(* Nor does a new message that is written at once.                          *)
LEMMA EnqueuedGrows ==
  ASSUME NEW p \in Panes, BoxInv(inbox[p]), NEW id \in Ids, Admission(inbox[p], id) = "New"
  PROVE  /\ BoxInv(Enqueued(p, id)) /\ Enqueued(p, id).stream = inbox[p].stream
         /\ Grows(inbox[p], Enqueued(p, id))
         /\ inbox[p].stream # None => Full(Enqueued(p, id))
         /\ Enqueued(p, id).known[id] # Unknown
<1> DEFINE new == Admitted(inbox[p], id)
<1>1. BoxInv(new) /\ new.stream = inbox[p].stream /\ Grows(inbox[p], new) /\ new.known[id] # Unknown
  BY AdmittedGrows
<1> HIDE DEF new
<1>2. /\ BoxInv(Pumped(new)) /\ Pumped(new).stream = new.stream
      /\ new.stream # None => Full(Pumped(new)) /\ Grows(new, Pumped(new))
      /\ Grows(new, Pumped(new)) /\ Pumped(new).known = new.known
  BY <1>1, PumpedGrows, PumpedIs DEF Replaced
<1>3. Grows(inbox[p], Pumped(new))
  BY <1>1, <1>2, Zenon DEF Grows
<1> QED BY <1>1, <1>2, <1>3 DEF Enqueued, new

(* Nor does a stream that opens and gets what waits.                        *)
LEMMA OpenedGrows ==
  ASSUME NEW box, BoxInv(box), NEW c, box.stream = None, c # None
  PROVE  LET new == Pumped(Opened(box, c))
         IN  BoxInv(new) /\ new.stream = c /\ Full(new) /\ Grows(box, new)
<1> DEFINE mid == Opened(box, c)
<1>1. /\ BoxInv(mid) /\ mid.stream = c /\ mid.fifo = box.fifo /\ mid.known = box.known
  BY OpenedInv DEF Replaced
<1> HIDE DEF mid
<1>2. Grows(box, mid)
  BY <1>1 DEF Grows, Holds, Numbers
<1>3. BoxInv(Pumped(mid)) /\ Pumped(mid).stream = c /\ Full(Pumped(mid)) /\ Grows(mid, Pumped(mid))
  BY <1>1, PumpedGrows
<1>4. Grows(box, Pumped(mid))
  BY <1>2, <1>3, Zenon DEF Grows
<1> QED BY <1>3, <1>4 DEF mid

(* An answer takes one written message out of the window and changes no     *)
(* other verdict.                                                           *)
LEMMA SettledShrinks ==
  ASSUME NEW box, BoxInv(box), NEW id \in Ids, Settles(box, id), NEW outcome \in Outcomes
  PROVE  LET new == Settled(box, id, outcome)
             seq == box.known[id].seq
         IN  /\ BoxInv(new) /\ new.stream = box.stream /\ new.last = box.last
             /\ \A i \in Ids \ {id}, n \in Nat : Holds(box, i, n) => Holds(new, i, n)
             /\ \A i \in Ids \ {id} : new.known[i].is \in Outcomes => new.known[i] = box.known[i]
             /\ new.known[id] = [is |-> outcome, seq |-> seq]
             /\ Numbers(box) \ {seq} \subseteq Numbers(new)
             /\ \A k \in 1 .. Len(new.fifo) : \E j \in 1 .. Len(box.fifo) : new.fifo[k] = box.fifo[j]
             /\ \E k \in 1 .. Len(box.fifo) : box.fifo[k].seq = seq /\ k <= Window
<1> DEFINE new == Settled(box, id, outcome)
           seq == box.known[id].seq
           i == Entry(box, id)
<1>1. /\ BoxInv(new) /\ new.stream = box.stream /\ new.last = box.last
      /\ Len(box.fifo) = Len(new.fifo) + 1
      /\ \A k \in 1 .. Len(new.fifo) :
            new.fifo[k] = IF k < i THEN box.fifo[k] ELSE box.fifo[k + 1]
      /\ new.known[id] = [is |-> outcome, seq |-> seq]
      /\ \A j \in Ids \ {id} :
            \/ new.known[j] = box.known[j]
            \/ new.known[j] = Unknown /\ box.known[j].is \in Outcomes
      /\ i \in 1 .. Len(box.fifo) /\ box.fifo[i].id = id
      /\ box.fifo[i].seq = seq /\ box.fifo[i].place # "Fresh"
  BY SettledIs
<1>2. i <= Window
  BY <1>1, EntriesAre DEF Sits
<1>3. Len(new.fifo) \in Nat
  BY <1>1 DEF BoxInv, IsBox
<1> HIDE DEF new, i, seq
<1>4. ASSUME NEW k \in 1 .. Len(new.fifo) PROVE \E j \in 1 .. Len(box.fifo) : new.fifo[k] = box.fifo[j]
  <2>1. k \in 1 .. Len(box.fifo) /\ k + 1 \in 1 .. Len(box.fifo)
    BY <1>1, <1>3
  <2> QED BY <1>1, <2>1
<1>5. ASSUME NEW j \in 1 .. Len(box.fifo), j # i
      PROVE  \E k \in 1 .. Len(new.fifo) : new.fifo[k] = box.fifo[j]
  <2>1. CASE j < i
    <3>1. j \in 1 .. Len(new.fifo)
      BY <1>1, <1>3, <2>1
    <3> QED BY <1>1, <2>1, <3>1
  <2>2. CASE j > i
    <3>1. j - 1 \in 1 .. Len(new.fifo) /\ ~(j - 1 < i) /\ (j - 1) + 1 = j
      BY <1>1, <1>3, <2>2
    <3> QED BY <1>1, <3>1
  <2> QED BY <1>1, <1>5, <2>1, <2>2
<1>6. ASSUME NEW j \in Ids \ {id}, NEW n \in Nat, Holds(box, j, n) PROVE Holds(new, j, n)
  <2>1. PICK l \in 1 .. Len(box.fifo) : box.fifo[l].id = j /\ box.fifo[l].place = "Out"
    BY <1>6 DEF Holds
  <2>2. l # i
    BY <1>1, <2>1
  <2>3. box.known[j].is \notin Outcomes
    BY <1>6 DEF Holds, Outcomes
  <2>4. new.known[j] = box.known[j]
    BY <1>1, <2>3
  <2>5. PICK k \in 1 .. Len(new.fifo) : new.fifo[k] = box.fifo[l]
    BY <1>5, <2>2
  <2> QED BY <1>6, <2>1, <2>4, <2>5 DEF Holds
<1>7. \A j \in Ids \ {id} : new.known[j].is \in Outcomes => new.known[j] = box.known[j]
  BY <1>1 DEF Unknown, Outcomes
<1>8. Numbers(box) \ {seq} \subseteq Numbers(new)
  <2> SUFFICES ASSUME NEW j \in 1 .. Len(box.fifo), box.fifo[j].seq # seq
               PROVE  box.fifo[j].seq \in Numbers(new)
    BY DEF Numbers
  <2>1. PICK k \in 1 .. Len(new.fifo) : new.fifo[k] = box.fifo[j]
    BY <1>1, <1>5
  <2> QED BY <2>1 DEF Numbers
<1> QED BY <1>1, <1>2, <1>4, <1>6, <1>7, <1>8 DEF new, seq

(* A stream that closes takes no message away.                              *)
LEMMA ClosedGrows ==
  ASSUME NEW box, BoxInv(box)
  PROVE  /\ BoxInv(Closed(box)) /\ Closed(box).stream = None
         /\ Closed(box).known = box.known /\ Numbers(Closed(box)) = Numbers(box)
<1> DEFINE new == Closed(box)
<1>1. /\ BoxInv(new) /\ new.stream = None /\ new.known = box.known /\ Len(new.fifo) = Len(box.fifo)
      /\ \A k \in 1 .. Len(box.fifo) : new.fifo[k].seq = box.fifo[k].seq
  BY ClosedIs DEF Replaced
<1> HIDE DEF new
<1>2. Numbers(new) = Numbers(box)
  BY <1>1 DEF Numbers
<1> QED BY <1>1, <1>2 DEF new

-----------------------------------------------------------------------------
(* What a stream got of a queue.                                            *)
Rising(s) == \A j, k \in 1 .. Len(s) : j < k => s[j] < s[k]

SentOK(box, s, life) ==
  /\ \A n \in Elems(s) : n <= box.last
  /\ \A k \in 1 .. Len(box.fifo) :
        /\ box.fifo[k].place # "Out" => \A n \in Elems(s) : n < box.fifo[k].seq
        /\ box.fifo[k].place = "Out" /\ life = "Open" => box.fifo[k].seq \in Elems(s)

(* Later messages behind earlier ones are in order.                         *)
LEMMA RisingConcat ==
  ASSUME NEW a \in Seq(Nat), NEW b \in Seq(Nat), Rising(a), Rising(b),
         \A m \in Elems(a), n \in Elems(b) : m < n
  PROVE  Rising(a \o b)
<1> DEFINE r == a \o b
<1>1. /\ Len(r) = Len(a) + Len(b) /\ Len(a) \in Nat /\ Len(b) \in Nat
      /\ \A k \in 1 .. Len(a) : r[k] = a[k] /\ a[k] \in Elems(a)
      /\ \A k \in 1 .. Len(b) : r[Len(a) + k] = b[k] /\ b[k] \in Elems(b)
      /\ \A k \in 1 .. Len(r) : k \in 1 .. Len(a) \/ \E i \in 1 .. Len(b) : k = Len(a) + i
  BY ConcatPlaces
<1> HIDE DEF r
<1> SUFFICES ASSUME NEW j \in 1 .. Len(r), NEW k \in 1 .. Len(r), j < k PROVE r[j] < r[k]
  BY DEF Rising, r
<1>2. CASE k \in 1 .. Len(a)
  <2>1. j \in 1 .. Len(a)
    BY <1>2
  <2> QED BY <1>1, <1>2, <2>1 DEF Rising
<1>3. CASE k \notin 1 .. Len(a)
  <2>1. PICK l \in 1 .. Len(b) : k = Len(a) + l
    BY <1>1, <1>3
  <2>2. CASE j \in 1 .. Len(a)
    BY <1>1, <2>1, <2>2
  <2>3. CASE j \notin 1 .. Len(a)
    <3>1. PICK i \in 1 .. Len(b) : j = Len(a) + i
      BY <1>1, <2>3
    <3>2. i < l
      BY <1>1, <2>1, <3>1
    <3> QED BY <1>1, <2>1, <3>1, <3>2 DEF Rising
  <2> QED BY <2>2, <2>3
<1> QED BY <1>2, <1>3

(* A write sends what is due, all or the first of it; what it does not send *)
(* is lost with the output.                                                 *)
LEMMA WriteIs ==
  ASSUME NEW box, BoxInv(box), box.stream \in Conns \union {None}, Write(box),
         sent \in [Conns -> Seq(Nat)], out \in [Conns -> {"Open", "Draining", "Shut"}],
         box.stream # None => Rising(sent[box.stream]) /\ SentOK(box, sent[box.stream], out[box.stream])
  PROVE  /\ sent' \in [Conns -> Seq(Nat)] /\ out' \in [Conns -> {"Open", "Draining", "Shut"}]
         /\ \A d \in Conns : out'[d] = "Open" => out[d] = "Open"
         /\ \A d \in Conns : d # box.stream => sent'[d] = sent[d] /\ out'[d] = out[d]
         /\ box.stream # None =>
              /\ Rising(sent'[box.stream])
              /\ SentOK(Pumped(box), sent'[box.stream], out'[box.stream])
<1> DEFINE c == box.stream
           d == Due(box)
           frames == [k \in DOMAIN d |-> d[k].seq]
           new == Pumped(box)
<1>1. /\ BoxInv(new) /\ new.stream = c /\ new.last = box.last /\ Len(new.fifo) = Len(box.fifo)
      /\ \A k \in 1 .. Len(box.fifo) :
            /\ new.fifo[k].seq = box.fifo[k].seq
            /\ new.fifo[k].place = IF c # None /\ k <= Window THEN "Out" ELSE box.fifo[k].place
  BY PumpedIs DEF Replaced
<1>2. /\ d \in Seq(Entries)
      /\ c = None => d = <<>>
      /\ \E h : /\ h \in [1 .. Len(d) -> 1 .. Len(box.fifo)]
                /\ \A k \in 1 .. Len(d) :
                      /\ d[k] = box.fifo[h[k]]
                      /\ box.fifo[h[k]].place # "Out" /\ h[k] <= Window
                /\ \A j, k \in 1 .. Len(d) : j < k => h[j] < h[k]
                /\ \A i \in 1 .. Len(box.fifo) :
                      c # None /\ i <= Window /\ box.fifo[i].place # "Out" =>
                        \E k \in 1 .. Len(d) : h[k] = i
  BY DueIs
<1>3. Write(box) = (IF c = None \/ frames = <<>> \/ out[c] # "Open" THEN UNCHANGED <<out, sent>>
                    ELSE \E n \in 0..Len(frames) :
                           /\ sent' = [sent EXCEPT ![c] = @ \o SubSeq(frames, 1, n)]
                           /\ out' = [out EXCEPT ![c] = IF n < Len(frames) THEN "Shut" ELSE @])
  BY DEF Write
<1>4. /\ box.fifo \in Seq(Entries) /\ Len(box.fifo) \in Nat /\ box.last \in Nat
      /\ \A k \in 1 .. Len(box.fifo) : box.fifo[k].seq \in Nat /\ box.fifo[k].seq <= box.last
      /\ \A j, k \in 1 .. Len(box.fifo) : j < k => box.fifo[j].seq < box.fifo[k].seq
  <2>1. box.fifo \in Seq(Entries) /\ Len(box.fifo) \in Nat /\ box.last \in Nat
    BY DEF BoxInv, IsBox
  <2>2. \A k \in 1 .. Len(box.fifo) : box.fifo[k].seq \in Nat /\ box.fifo[k].seq <= box.last
    BY EntriesAre DEF Sits
  <2>3. \A j, k \in 1 .. Len(box.fifo) : j < k => box.fifo[j].seq < box.fifo[k].seq
    BY DEF BoxInv, Queued, Before
  <2> QED BY <2>1, <2>2, <2>3
<1>5. DOMAIN d = 1 .. Len(d) /\ Len(d) \in Nat
  BY <1>2
<1> HIDE DEF new, d
<1>6. PICK h : /\ h \in [1 .. Len(d) -> 1 .. Len(box.fifo)]
               /\ \A k \in 1 .. Len(d) :
                     /\ d[k] = box.fifo[h[k]]
                     /\ box.fifo[h[k]].place # "Out" /\ h[k] <= Window
               /\ \A j, k \in 1 .. Len(d) : j < k => h[j] < h[k]
               /\ \A i \in 1 .. Len(box.fifo) :
                     c # None /\ i <= Window /\ box.fifo[i].place # "Out" =>
                       \E k \in 1 .. Len(d) : h[k] = i
  BY <1>2
<1>7. /\ frames \in Seq(Nat) /\ Len(frames) = Len(d)
      /\ \A k \in 1 .. Len(d) : frames[k] = box.fifo[h[k]].seq /\ h[k] \in 1 .. Len(box.fifo)
  <2>1. frames = [k \in 1 .. Len(d) |-> d[k].seq]
    BY <1>5
  <2>2. \A k \in 1 .. Len(d) : d[k].seq = box.fifo[h[k]].seq /\ h[k] \in 1 .. Len(box.fifo)
    BY <1>6
  <2> QED BY <1>4, <1>5, <2>1, <2>2, SMTT(30)
<1> HIDE DEF frames
<1>8. CASE c = None
  BY <1>3, <1>8
<1>9. CASE c # None /\ (frames = <<>> \/ out[c] # "Open")
  <2>1. sent' = sent /\ out' = out
    BY <1>3, <1>9
  <2>2. frames = <<>> => Len(d) = 0
    BY <1>7
  <2>3. frames = <<>> => \A k \in 1 .. Len(box.fifo) : new.fifo[k].place = box.fifo[k].place
    BY <1>1, <1>6, <1>9, <2>2
  <2>4. SentOK(new, sent[c], out[c])
    BY <1>1, <1>9, <2>3 DEF SentOK
  <2> QED BY <1>9, <2>1, <2>4 DEF new
<1>10. CASE c # None /\ frames # <<>> /\ out[c] = "Open"
  <2>1. PICK n \in 0 .. Len(frames) :
            /\ sent' = [sent EXCEPT ![c] = @ \o SubSeq(frames, 1, n)]
            /\ out' = [out EXCEPT ![c] = IF n < Len(frames) THEN "Shut" ELSE @]
    BY <1>3, <1>10
  <2> DEFINE f == SubSeq(frames, 1, n)
  <2>2. f \in Seq(Nat) /\ Len(f) = n /\ \A k \in 1 .. n : f[k] = frames[k] /\ k \in 1 .. Len(d)
    BY <1>5, <1>7
  <2>3. c \in Conns /\ sent[c] \in Seq(Nat)
    BY <1>10
  <2>4. /\ sent'[c] = sent[c] \o f
        /\ out'[c] = IF n < Len(frames) THEN "Shut" ELSE "Open"
        /\ \A e \in Conns : e # c => sent'[e] = sent[e] /\ out'[e] = out[e]
    BY <1>10, <2>1, <2>3
  <2>5. sent' \in [Conns -> Seq(Nat)] /\ out' \in [Conns -> {"Open", "Draining", "Shut"}]
    <3>1. sent[c] \o f \in Seq(Nat)
      BY <2>2, <2>3
    <3> HIDE DEF f
    <3> QED BY <1>10, <2>1, <2>3, <3>1 DEF f
  <2> HIDE DEF f
  <2>6. \A j, k \in 1 .. n : j < k => f[j] < f[k]
    <3> SUFFICES ASSUME NEW j \in 1 .. n, NEW k \in 1 .. n, j < k PROVE f[j] < f[k]
      OBVIOUS
    <3>1. h[j] < h[k]
      BY <1>6, <2>2
    <3> QED BY <1>4, <1>7, <2>2, <3>1
  <2>7. \A m \in Elems(f) : \E k \in 1 .. n : m = box.fifo[h[k]].seq /\ k \in 1 .. Len(d)
    BY <1>7, <2>2 DEF Elems
  <2>8. \A l \in Elems(sent[c]), m \in Elems(f) : l < m
    <3>1. \A k \in 1 .. Len(box.fifo) :
             box.fifo[k].place # "Out" => \A l \in Elems(sent[c]) : l < box.fifo[k].seq
      BY <1>10 DEF SentOK
    <3>2. \A m \in Elems(f) : \E k \in 1 .. Len(box.fifo) :
             m = box.fifo[k].seq /\ box.fifo[k].place # "Out"
      BY <1>6, <1>7, <2>7
    <3> QED BY <3>1, <3>2
  <2>9. Rising(sent'[c])
    BY <1>10, <2>2, <2>3, <2>4, <2>6, <2>8, RisingConcat DEF Rising
  <2>10. Elems(sent'[c]) = Elems(sent[c]) \union Elems(f)
    BY <2>2, <2>3, <2>4, ElemsConcat
  <2>11. SentOK(new, sent'[c], out'[c])
    <3>1. \A m \in Elems(sent'[c]) : m <= new.last
      BY <1>1, <1>4, <1>7, <1>10, <2>7, <2>10 DEF SentOK
    <3>2. ASSUME NEW k \in 1 .. Len(box.fifo), new.fifo[k].place # "Out", NEW m \in Elems(sent'[c])
          PROVE  m < new.fifo[k].seq
      <4>1. ~(k <= Window) /\ box.fifo[k].place # "Out"
        BY <1>1, <1>10, <3>2
      <4>2. CASE m \in Elems(sent[c])
        BY <1>1, <1>10, <4>1, <4>2 DEF SentOK
      <4>3. CASE m \in Elems(f)
        <5>1. PICK j \in 1 .. Len(d) : m = box.fifo[h[j]].seq
          BY <2>7, <4>3
        <5>2. h[j] \in 1 .. Len(box.fifo) /\ h[j] < k
          BY <1>4, <1>6, <1>7, <4>1, InboxAssumption
        <5> QED BY <1>1, <1>4, <5>1, <5>2
      <4> QED BY <2>10, <4>2, <4>3
    <3>3. ASSUME NEW k \in 1 .. Len(box.fifo), new.fifo[k].place = "Out", out'[c] = "Open"
          PROVE  new.fifo[k].seq \in Elems(sent'[c])
      <4>1. n = Len(d)
        BY <1>7, <2>1, <2>4, <3>3
      <4>2. CASE box.fifo[k].place = "Out"
        BY <1>1, <1>10, <2>10, <4>2 DEF SentOK
      <4>3. CASE box.fifo[k].place # "Out"
        <5>1. PICK j \in 1 .. Len(d) : h[j] = k
          BY <1>1, <1>6, <1>10, <3>3, <4>3
        <5>2. f[j] = box.fifo[k].seq
          BY <1>7, <2>2, <4>1, <5>1
        <5>3. f[j] \in Elems(f)
          BY <2>2, <4>1 DEF Elems
        <5> QED BY <1>1, <2>10, <5>2, <5>3
      <4> QED BY <4>2, <4>3
    <3> QED BY <1>1, <3>1, <3>2, <3>3 DEF SentOK
  <2> QED BY <1>10, <2>4, <2>5, <2>9, <2>11 DEF new
<1> QED BY <1>8, <1>9, <1>10

(* A new message is behind all that the stream got.                         *)
LEMMA AdmittedSent ==
  ASSUME NEW box, BoxInv(box), NEW id \in Ids, Admission(box, id) = "New",
         NEW s \in Seq(Nat), NEW life, SentOK(box, s, life)
  PROVE  SentOK(Admitted(box, id), s, life)
<1> DEFINE new == Admitted(box, id)
           e == [id |-> id, seq |-> box.last + 1, place |-> "Fresh"]
<1>1. new.last = box.last + 1 /\ new.fifo = Append(box.fifo, e)
  BY AdmittedIs
<1> HIDE DEF new
<1>2. box.last \in Nat /\ box.fifo \in Seq(Entries) /\ e \in Entries
  BY DEF BoxInv, IsBox, Entries, Places
<1>3. \A n \in Elems(s) : n \in Nat /\ n <= box.last
  BY DEF SentOK, Elems
<1>4. e.place = "Fresh" /\ e.seq = box.last + 1
  OBVIOUS
<1> HIDE DEF e
<1>5. /\ Len(new.fifo) = Len(box.fifo) + 1 /\ Len(box.fifo) \in Nat
      /\ new.fifo[Len(box.fifo) + 1] = e
      /\ \A k \in 1 .. Len(box.fifo) : new.fifo[k] = box.fifo[k]
  BY <1>1, <1>2
<1>6. \A k \in 1 .. Len(new.fifo) : k \in 1 .. Len(box.fifo) \/ k = Len(box.fifo) + 1
  BY <1>5
<1>7. \A n \in Elems(s) : n <= box.last + 1 /\ n < box.last + 1
  BY <1>2, <1>3
<1>8. \A k \in 1 .. Len(new.fifo) :
        /\ new.fifo[k].place # "Out" => \A n \in Elems(s) : n < new.fifo[k].seq
        /\ new.fifo[k].place = "Out" /\ life = "Open" => new.fifo[k].seq \in Elems(s)
  <2> SUFFICES ASSUME NEW k \in 1 .. Len(new.fifo)
      PROVE  /\ new.fifo[k].place # "Out" => \A n \in Elems(s) : n < new.fifo[k].seq
             /\ new.fifo[k].place = "Out" /\ life = "Open" => new.fifo[k].seq \in Elems(s)
    OBVIOUS
  <2>1. CASE k \in 1 .. Len(box.fifo)
    BY <1>5, <2>1 DEF SentOK
  <2>2. CASE k = Len(box.fifo) + 1
    BY <1>4, <1>5, <1>7, <2>2
  <2> QED BY <1>6, <2>1, <2>2
<1> QED BY <1>1, <1>7, <1>8 DEF SentOK, new

-----------------------------------------------------------------------------
(* The inductive invariant.  The turn: ...                                  *)
Turns ==
  /\ ReapLast(todo) /\ WaitsApart(waits) /\ AnswersApart(todo) /\ TrueTo(reply)
  /\ \A t \in Elems(todo) : t.op = "answer" => phase[t.conn] = "Handling" /\ TrueTo(t)
  /\ \A t \in Elems(todo) : t.op \in {"stop", "remove"} => t.pane \notin listed
  /\ \A w \in Elems(waits) :
        /\ phase[w.conn] = "Handling"
        /\ proc[w.pane] # "Gone" => Holds(inbox[w.pane], w.id, w.seq)
        /\ \A t \in Elems(todo) : t.op = "answer" => t.conn # w.conn
  /\ \A c \in Conns : phase[c] = "Handling" =>
        \/ \E w \in Elems(waits) : w.conn = c
        \/ \E t \in Elems(todo) : t.op = "answer" /\ t.conn = c

(* ... the streams, ...                                                     *)
Streams ==
  /\ \A p \in Panes : inbox[p].stream # None =>
        /\ phase[inbox[p].stream] = "Stream" /\ role[inbox[p].stream] = p
        /\ SentOK(inbox[p], sent[inbox[p].stream], out[inbox[p].stream])
        /\ Full(inbox[p]) \/ Flush(p) \in Elems(todo)
  /\ \A p \in Panes : proc[p] = "Gone" => inbox[p] = Empty
  /\ \A c \in Conns : Rising(sent[c]) /\ (phase[c] # "Stream" => sent[c] = <<>>)
  /\ \A c \in Conns : phase[c] = "Stream" /\ out[c] = "Open" =>
        \/ inbox[role[c]].stream = c
        \/ Finish(c) \in Elems(todo)
        \/ proc[role[c]] = "Gone"

(* ... and what the receivers said.                                         *)
Verdict(p, i, x) == [pane |-> p, id |-> i, seq |-> x.seq, is |-> x.is]

Settlements ==
  \A p \in Panes, i \in Ids :
     inbox[p].known[i].is \in Outcomes => Verdict(p, i, inbox[p].known[i]) \in verdicts

MessagesInv == Types /\ Turns /\ Streams /\ Settlements

(* What the next step leaves of a queue that it does not end.               *)
Steady(r) ==
  /\ BoxInv(inbox'[r]) /\ Grows(inbox[r], inbox'[r]) /\ inbox'[r].stream = inbox[r].stream
  /\ proc[r] = "Gone" => inbox'[r] = inbox[r]
  /\ inbox[r].stream # None =>
        /\ SentOK(inbox'[r], sent'[inbox[r].stream], out'[inbox[r].stream])
        /\ Full(inbox[r]) => Full(inbox'[r])

(* A queue that a step does not touch goes on.                              *)
LEMMA SteadyOne ==
  ASSUME MessagesInv, NEW r \in Panes, inbox'[r] = inbox[r],
         \A c \in Conns : /\ out'[c] = "Open" => out[c] = "Open"
                          /\ inbox[r].stream = c => sent'[c] = sent[c]
  PROVE  Steady(r)
<1>1. BoxInv(inbox[r]) /\ inbox[r].stream \in Conns \union {None}
  BY DEF MessagesInv, Types
<1>2. Grows(inbox[r], inbox[r])
  <2>1. \A i \in Ids : inbox[r].known[i] = inbox[r].known[i]
    OBVIOUS
  <2> QED BY Zenon DEF Grows
<1>3. inbox[r].stream # None =>
        SentOK(inbox[r], sent'[inbox[r].stream], out'[inbox[r].stream])
  BY <1>1 DEF MessagesInv, Streams, SentOK
<1> QED BY <1>1, <1>2, <1>3, Zenon DEF Steady

(* What the task at hand leaves on the stack.                               *)
LEMMA NowIs ==
  ASSUME MessagesInv, todo # <<>>
  PROVE  /\ Now \in Tasks /\ Rest \in Seq(Tasks) /\ AnswersApart(Rest) /\ ReapLast(Rest)
         /\ Elems(todo) = {Now} \union Elems(Rest)
         /\ Now.op = "reap" => Rest = <<>>
         /\ \A t \in Elems(Rest) : Now.op = "answer" /\ t.op = "answer" => Now.conn # t.conn
         /\ Elems(todo) \subseteq Tasks /\ Elems(Rest) \subseteq Tasks
<1>1. todo \in Seq(Tasks) /\ AnswersApart(todo) /\ ReapLast(todo)
  BY DEF MessagesInv, Types, Turns
<1>2. /\ Head(todo) \in Tasks /\ Tail(todo) \in Seq(Tasks)
      /\ Elems(todo) = {Head(todo)} \union Elems(Tail(todo))
  BY <1>1, ElemsTail
<1>3. Elems(todo) \subseteq Tasks /\ Elems(Tail(todo)) \subseteq Tasks
  BY <1>1, <1>2, ToSetIs
<1>4. /\ AnswersApart(Tail(todo)) /\ ReapLast(Tail(todo))
      /\ \A t \in Elems(Tail(todo)) :
           Head(todo).op = "answer" /\ t.op = "answer" => Head(todo).conn # t.conn
      /\ Head(todo).op = "reap" => Tail(todo) = <<>>
  BY <1>1, ApartTail
<1> QED BY <1>2, <1>3, <1>4 DEF Now, Rest

(* Tasks that are no answers go in front.                                   *)
LEMMA PushIs ==
  ASSUME NEW a \in Seq(Tasks), NEW b \in Seq(Tasks), AnswersApart(b), ReapLast(b),
         \A t \in Elems(a) : t.op # "answer" /\ t.op # "reap"
  PROVE  /\ a \o b \in Seq(Tasks) /\ AnswersApart(a \o b) /\ ReapLast(a \o b)
         /\ Elems(a \o b) = Elems(a) \union Elems(b)
<1>1. AnswersApart(a)
  BY DEF AnswersApart, Elems
<1> QED BY <1>1, ApartConcat, ReapConcat, ElemsConcat

(* The waits that end become answers in front of what is left to do, one    *)
(* per sender.                                                              *)
LEMMA ReleaseIs ==
  ASSUME MessagesInv, NEW hit \in SUBSET Elems(waits), NEW state \in States,
         NEW rest \in Seq(Tasks), AnswersApart(rest), ReapLast(rest),
         \A t \in Elems(rest) : t.op = "answer" => t \in Elems(todo),
         Release(hit, state, rest)
  PROVE  /\ waits' \in Seq(Waits) /\ WaitsApart(waits') /\ Elems(waits') = Elems(waits) \ hit
         /\ todo' \in Seq(Tasks) /\ AnswersApart(todo') /\ ReapLast(todo')
         /\ Elems(todo') = {Answer(w, state) : w \in hit} \union Elems(rest)
<1> DEFINE over == Only(waits, hit)
           answers == Answers(over, state)
           left == Only(waits, ToSet(waits) \ hit)
<1>1. waits \in Seq(Waits) /\ WaitsApart(waits)
  BY DEF MessagesInv, Types, Turns
<1>2. /\ left \in Seq(Waits) /\ WaitsApart(left) /\ Elems(left) = Elems(waits) \ hit
      /\ answers \in Seq(Tasks) /\ AnswersApart(answers)
      /\ Elems(answers) = {Answer(w, state) : w \in hit}
      /\ \A t \in Elems(answers) : t.op = "answer"
  BY <1>1, AnswersAre, ZenonT(40)
<1>3. waits' = left /\ todo' = answers \o rest
  BY DEF Release, Answers
<1> HIDE DEF over, answers, left
<1>4. \A t \in Elems(answers), u \in Elems(rest) :
         t.op = "answer" /\ u.op = "answer" => t.conn # u.conn
  BY <1>2, TaskOps DEF MessagesInv, Turns
<1>5. AnswersApart(todo')
  BY <1>2, <1>3, <1>4, ApartConcat
<1>6. ReapLast(todo')
  BY <1>2, <1>3, ReapConcat
<1> QED BY <1>2, <1>3, <1>5, <1>6, ElemsConcat

(* The streams of two panes are two connections.                            *)
LEMMA StreamsApart ==
  ASSUME MessagesInv, NEW p \in Panes, NEW r \in Panes, inbox[p].stream # None,
         inbox[p].stream = inbox[r].stream
  PROVE  p = r
BY DEF MessagesInv, Streams

(* A queue that is written to its stream goes on, and so do the others.     *)
LEMMA WrittenSteady ==
  ASSUME MessagesInv, NEW p \in Panes, NEW box, BoxInv(box), box.stream = inbox[p].stream,
         Grows(inbox[p], box), inbox'[p] = Pumped(box), Write(box),
         proc[p] = "Gone" => Pumped(box) = inbox[p],
         box.stream # None => SentOK(box, sent[box.stream], out[box.stream])
  PROVE  /\ sent' \in [Conns -> Seq(Nat)] /\ out' \in [Conns -> {"Open", "Draining", "Shut"}]
         /\ \A d \in Conns : out'[d] = "Open" => out[d] = "Open"
         /\ \A d \in Conns : Rising(sent'[d]) /\ (phase[d] # "Stream" => sent'[d] = sent[d])
         /\ Steady(p) /\ (inbox[p].stream # None => Full(inbox'[p]))
         /\ \A r \in Panes : r # p /\ inbox'[r] = inbox[r] => Steady(r)
<1>1. /\ box.stream \in Conns \union {None}
      /\ sent \in [Conns -> Seq(Nat)] /\ out \in [Conns -> {"Open", "Draining", "Shut"}]
  BY DEF MessagesInv, Types
<1>2. \A d \in Conns : Rising(sent[d])
  BY DEF MessagesInv, Streams
<1>3. box.stream # None => Rising(sent[box.stream]) /\ phase[box.stream] = "Stream"
  BY <1>1, <1>2 DEF MessagesInv, Streams
<1>4. /\ sent' \in [Conns -> Seq(Nat)] /\ out' \in [Conns -> {"Open", "Draining", "Shut"}]
      /\ \A d \in Conns : out'[d] = "Open" => out[d] = "Open"
      /\ \A d \in Conns : d # box.stream => sent'[d] = sent[d] /\ out'[d] = out[d]
      /\ box.stream # None =>
           /\ Rising(sent'[box.stream])
           /\ SentOK(Pumped(box), sent'[box.stream], out'[box.stream])
  BY <1>1, <1>3, WriteIs
<1>5. /\ BoxInv(Pumped(box)) /\ Pumped(box).stream = box.stream
      /\ box.stream # None => Full(Pumped(box))
      /\ Grows(box, Pumped(box))
  BY PumpedGrows
<1>6. Grows(inbox[p], Pumped(box))
  BY <1>5, Zenon DEF Grows
<1>7. Steady(p)
  BY <1>4, <1>5, <1>6 DEF Steady
<1>8. ASSUME NEW r \in Panes, r # p, inbox'[r] = inbox[r] PROVE Steady(r)
  <2>1. BoxInv(inbox[r]) /\ inbox[r].stream \in Conns \union {None}
    BY DEF MessagesInv, Types
  <2>2. Grows(inbox[r], inbox[r])
    <3>1. \A i \in Ids : inbox[r].known[i] = inbox[r].known[i]
      OBVIOUS
    <3> QED BY Zenon DEF Grows
  <2>3. inbox[r].stream # None => SentOK(inbox[r], sent'[inbox[r].stream], out'[inbox[r].stream])
    <3> SUFFICES ASSUME inbox[r].stream # None
                 PROVE  SentOK(inbox[r], sent'[inbox[r].stream], out'[inbox[r].stream])
      OBVIOUS
    <3>1. inbox[r].stream # box.stream
      BY <1>8, StreamsApart
    <3>2. SentOK(inbox[r], sent[inbox[r].stream], out[inbox[r].stream])
      BY DEF MessagesInv, Streams
    <3> QED BY <1>4, <2>1, <3>1, <3>2
  <2> QED BY <1>8, <2>1, <2>2, <2>3, Zenon DEF Steady
<1>9. \A d \in Conns : Rising(sent'[d]) /\ (phase[d] # "Stream" => sent'[d] = sent[d])
  <2> SUFFICES ASSUME NEW d \in Conns
               PROVE  Rising(sent'[d]) /\ (phase[d] # "Stream" => sent'[d] = sent[d])
    OBVIOUS
  <2>1. CASE d = box.stream
    BY <1>3, <1>4, <2>1, NoneIs
  <2>2. CASE d # box.stream
    BY <1>2, <1>4, <2>2
  <2> QED BY <2>1, <2>2
<1> QED BY <1>4, <1>5, <1>7, <1>8, <1>9

(* A new message that is written at once leaves its queue and the others in *)
(* order.                                                                   *)
LEMMA EnqueuedSteady ==
  ASSUME MessagesInv, NEW p \in Panes, NEW id \in Ids, Admission(inbox[p], id) = "New",
         proc[p] = "Live", inbox'[p] = Enqueued(p, id), Write(Admitted(inbox[p], id))
  PROVE  /\ sent' \in [Conns -> Seq(Nat)] /\ out' \in [Conns -> {"Open", "Draining", "Shut"}]
         /\ \A d \in Conns : out'[d] = "Open" => out[d] = "Open"
         /\ \A d \in Conns : Rising(sent'[d]) /\ (phase[d] # "Stream" => sent'[d] = sent[d])
         /\ Steady(p) /\ (inbox[p].stream # None => Full(inbox'[p]))
         /\ \A r \in Panes : r # p /\ inbox'[r] = inbox[r] => Steady(r)
<1> DEFINE box == Admitted(inbox[p], id)
<1>1. BoxInv(inbox[p]) /\ inbox[p].stream \in Conns \union {None} /\ sent \in [Conns -> Seq(Nat)]
  BY DEF MessagesInv, Types
<1>2. BoxInv(box) /\ box.stream = inbox[p].stream /\ Grows(inbox[p], box)
  BY <1>1, AdmittedGrows
<1>3. box.stream # None => SentOK(box, sent[box.stream], out[box.stream])
  <2> SUFFICES ASSUME inbox[p].stream # None
               PROVE  SentOK(box, sent[inbox[p].stream], out[inbox[p].stream])
    BY <1>2
  <2>1. SentOK(inbox[p], sent[inbox[p].stream], out[inbox[p].stream])
    BY DEF MessagesInv, Streams
  <2>2. sent[inbox[p].stream] \in Seq(Nat)
    BY <1>1
  <2> QED BY <1>1, <2>1, <2>2, AdmittedSent
<1>4. inbox'[p] = Pumped(box) /\ Write(box)
  BY DEF Enqueued
<1> HIDE DEF box
<1> QED BY <1>2, <1>3, <1>4, WrittenSteady

(* What a step without a write leaves of the outputs, and one with it.      *)
Outputs ==
  /\ sent' \in [Conns -> Seq(Nat)] /\ out' \in [Conns -> {"Open", "Draining", "Shut"}]
  /\ \A d \in Conns : out'[d] = "Open" => out[d] = "Open"
  /\ \A d \in Conns : Rising(sent'[d]) /\ (phase[d] # "Stream" => sent'[d] = sent[d])

(* A step that writes nothing leaves the outputs in order.                  *)
LEMMA OutputsQuiet ==
  ASSUME MessagesInv, sent' = sent, out' = out
  PROVE  Outputs
BY DEF Outputs, MessagesInv, Types, Streams

(* The tasks of a pane whose stream is to be closed.                        *)
LEMMA CloseStreamIs ==
  ASSUME MessagesInv, NEW p \in Panes
  PROVE  /\ CloseStream(p) \in Seq(Tasks)
         /\ \A t \in Elems(CloseStream(p)) :
               \/ inbox[p].stream # None /\ t = Finish(inbox[p].stream)
               \/ t = Show(p, FALSE)
         /\ inbox[p].stream # None => Finish(inbox[p].stream) \in Elems(CloseStream(p))
         /\ \A t \in Elems(CloseStream(p)) : t.op \in {"finish", "show"}
<1>1. inbox[p].stream \in Conns \union {None}
  BY DEF MessagesInv, Types
<1>2. CASE inbox[p].stream = None
  BY <1>2, ElemsNone DEF CloseStream
<1>3. CASE inbox[p].stream # None
  <2> DEFINE f == Finish(inbox[p].stream)
             g == Show(p, FALSE)
  <2>1. f \in Tasks /\ g \in Tasks /\ f.op = "finish" /\ g.op = "show"
    <3>1. f \in Tasks /\ f.op = "finish"
      BY <1>1, <1>3, TasksMade, TaskOps
    <3>2. g \in Tasks
      BY TasksMade
    <3>3. g.op = "show"
      BY DEF Show
    <3> QED BY <3>1, <3>2, <3>3
  <2>2. CloseStream(p) = <<f, g>>
    BY <1>3 DEF CloseStream
  <2> HIDE DEF f, g
  <2>3. <<f, g>> \in Seq(Tasks) /\ Len(<<f, g>>) = 2 /\ <<f, g>>[1] = f /\ <<f, g>>[2] = g
    BY <2>1
  <2>4. Elems(<<f, g>>) = {f, g}
    BY <2>3 DEF Elems
  <2> QED BY <1>3, <2>1, <2>2, <2>3, <2>4 DEF f, g
<1> QED BY <1>2, <1>3

(* The end of a pane: its queue is cleared, its waits are answered Gone,    *)
(* and of the other queues only that of the parent grows.                   *)
LEMMA EndedIs ==
  ASSUME MessagesInv, NEW p \in Panes, NEW tell \in BOOLEAN, NEW rest \in Seq(Tasks),
         AnswersApart(rest), ReapLast(rest),
         \A t \in Elems(rest) : t.op = "answer" => t \in Elems(todo),
         Ended(p, tell, rest)
  PROVE  /\ inbox' = [r \in Panes |-> inbox'[r]] /\ inbox'[p] = Cleared(inbox[p])
         /\ Outputs
         /\ \A r \in Panes : r # p => Steady(r)
         /\ waits' \in Seq(Waits) /\ WaitsApart(waits')
         /\ Elems(waits') = {w \in Elems(waits) : w.pane # p}
         /\ todo' \in Seq(Tasks) /\ AnswersApart(todo') /\ ReapLast(todo')
         /\ Elems(todo') = {Answer(w, "Gone") : w \in {v \in Elems(waits) : v.pane = p}}
                           \union Elems(CloseStream(p)) \union Elems(rest)
<1> DEFINE q == Parent[p]
           told == tell /\ q # None /\ proc[q] = "Live"
           new == told /\ Admission(inbox[q], EndedId[p]) = "New"
           hit == {w \in ToSet(waits) : w.pane = p}
<1>1. /\ inbox' = [r \in Panes |->
                     IF r = p THEN Cleared(inbox[p])
                     ELSE IF new /\ r = q THEN Enqueued(q, EndedId[p])
                     ELSE inbox[r]]
      /\ IF new THEN Write(Admitted(inbox[q], EndedId[p])) ELSE UNCHANGED <<out, sent>>
      /\ Release(hit, "Gone", CloseStream(p) \o rest)
  BY DEF Ended
<1>2. /\ CloseStream(p) \o rest \in Seq(Tasks) /\ AnswersApart(CloseStream(p) \o rest)
      /\ ReapLast(CloseStream(p) \o rest)
      /\ Elems(CloseStream(p) \o rest) = Elems(CloseStream(p)) \union Elems(rest)
      /\ \A t \in Elems(CloseStream(p)) : t.op # "answer"
  BY CloseStreamIs, PushIs
<1>3. hit = {v \in Elems(waits) : v.pane = p}
  BY ToSetIs DEF MessagesInv, Types
<1>4. /\ waits' \in Seq(Waits) /\ WaitsApart(waits') /\ Elems(waits') = Elems(waits) \ hit
      /\ todo' \in Seq(Tasks) /\ AnswersApart(todo') /\ ReapLast(todo')
      /\ Elems(todo') = {Answer(w, "Gone") : w \in hit} \union Elems(CloseStream(p) \o rest)
  <2>1. "Gone" \in States /\ hit \in SUBSET Elems(waits)
    BY <1>3 DEF States
  <2>2. \A t \in Elems(CloseStream(p) \o rest) : t.op = "answer" => t \in Elems(todo)
    BY <1>2
  <2> HIDE DEF hit
  <2> QED BY <1>1, <1>2, <2>1, <2>2, ReleaseIs, ZenonT(40)
<1>5. Outputs /\ \A r \in Panes : r # p => Steady(r)
  <2>1. CASE new
    <3>1. /\ q \in Panes /\ q # p /\ EndedId[p] \in Ids /\ proc[q] = "Live"
          /\ Admission(inbox[q], EndedId[p]) = "New"
      BY <2>1, MessagesAssumption
    <3>2. inbox'[q] = Enqueued(q, EndedId[p]) /\ Write(Admitted(inbox[q], EndedId[p]))
      BY <1>1, <2>1, <3>1
    <3>3. \A r \in Panes : r # p /\ r # q => inbox'[r] = inbox[r]
      BY <1>1
    <3> HIDE DEF q
    <3>4. Outputs /\ Steady(q) /\ \A r \in Panes : r # q /\ inbox'[r] = inbox[r] => Steady(r)
      BY <3>1, <3>2, EnqueuedSteady DEF Outputs
    <3> QED BY <3>3, <3>4
  <2>2. CASE ~new
    <3>1. sent' = sent /\ out' = out
      BY <1>1, <2>2
    <3>2. \A r \in Panes : r # p => inbox'[r] = inbox[r]
      BY <1>1, <2>2
    <3>3. Outputs
      BY <3>1, OutputsQuiet
    <3>4. \A r \in Panes : r # p => Steady(r)
      BY <3>1, <3>2, SteadyOne
    <3> QED BY <3>3, <3>4
  <2> QED BY <2>1, <2>2
<1>6. inbox' = [r \in Panes |-> inbox'[r]] /\ inbox'[p] = Cleared(inbox[p])
  BY <1>1
<1>7. Elems(waits) \ hit = {w \in Elems(waits) : w.pane # p}
  BY <1>3
<1> HIDE DEF hit
<1> QED BY <1>2, <1>3, <1>4, <1>5, <1>6, <1>7

-----------------------------------------------------------------------------
(* A step that leaves the queues alone, ...                                 *)
LEMMA QuietQueues ==
  ASSUME MessagesInv, UNCHANGED <<inbox, proc, sent, verdicts, role>>,
         waits' \in Seq(Waits), todo' \in Seq(Tasks),
         phase' \in [Conns -> {"Head", "Handling", "Stream", "Closed"}],
         out' \in [Conns -> {"Open", "Draining", "Shut"}],
         input' \in [Conns -> Seq(Requests)], shown' \in [Panes -> BOOLEAN],
         listed' \subseteq Panes, reply'.state \in States \union {None},
         \A c \in Conns : phase'[c] = "Stream" <=> phase[c] = "Stream",
         \A c \in Conns : phase[c] = "Stream" /\ out'[c] = "Open" => out[c] = "Open",
         \A p \in Panes : Flush(p) \in Elems(todo) => Flush(p) \in Elems(todo'),
         \A c \in Conns : Finish(c) \in Elems(todo) /\ out'[c] = "Open" => Finish(c) \in Elems(todo')
  PROVE  Types' /\ Streams' /\ Settlements'
<1>1. Types'
  BY DEF MessagesInv, Types
<1>2. Settlements'
  BY DEF MessagesInv, Settlements
<1>3. ASSUME NEW p \in Panes, inbox[p].stream # None
      PROVE  /\ phase'[inbox[p].stream] = "Stream" /\ role[inbox[p].stream] = p
             /\ SentOK(inbox[p], sent[inbox[p].stream], out'[inbox[p].stream])
             /\ Full(inbox[p]) \/ Flush(p) \in Elems(todo')
  <2>1. inbox[p].stream \in Conns
    BY <1>3 DEF MessagesInv, Types
  <2>2. /\ phase[inbox[p].stream] = "Stream" /\ role[inbox[p].stream] = p
        /\ SentOK(inbox[p], sent[inbox[p].stream], out[inbox[p].stream])
        /\ Full(inbox[p]) \/ Flush(p) \in Elems(todo)
    BY <1>3 DEF MessagesInv, Streams
  <2>3. SentOK(inbox[p], sent[inbox[p].stream], out'[inbox[p].stream])
    BY <2>1, <2>2 DEF SentOK
  <2> QED BY <2>1, <2>2, <2>3
<1>4. \A c \in Conns : phase'[c] = "Stream" /\ out'[c] = "Open" =>
        \/ inbox[role[c]].stream = c
        \/ Finish(c) \in Elems(todo')
        \/ proc[role[c]] = "Gone"
  BY DEF MessagesInv, Streams
<1>5. \A c \in Conns : Rising(sent[c]) /\ (phase'[c] # "Stream" => sent[c] = <<>>)
  BY DEF MessagesInv, Streams
<1>6. \A p \in Panes : proc[p] = "Gone" => inbox[p] = Empty
  BY DEF MessagesInv, Streams
<1>7. Streams'
  BY <1>3, <1>4, <1>5, <1>6 DEF Streams
<1> QED BY <1>1, <1>2, <1>7

(* ... one that leaves the waits alone, ...                                 *)
LEMMA QuietTurns ==
  ASSUME MessagesInv, waits' = waits, verdicts' = verdicts,
         todo' \in Seq(Tasks), AnswersApart(todo'), ReapLast(todo'), TrueTo(reply)',
         \A c \in Conns : phase'[c] = "Handling" <=> phase[c] = "Handling",
         \A t \in Tasks : t.op = "answer" => (t \in Elems(todo') <=> t \in Elems(todo)),
         \A t \in Elems(todo') : t.op \in {"stop", "remove"} => t.pane \notin listed',
         \A w \in Elems(waits) : proc'[w.pane] # "Gone" =>
            /\ proc[w.pane] # "Gone"
            /\ Holds(inbox[w.pane], w.id, w.seq) => Holds(inbox'[w.pane], w.id, w.seq)
  PROVE  Turns'
<1>0. /\ Elems(waits) \subseteq Waits /\ Elems(todo) \subseteq Tasks /\ Elems(todo') \subseteq Tasks
      /\ \A w \in Waits : w.conn \in Conns
  BY ToSetIs DEF MessagesInv, Types, Waits
<1>1. \A t \in Elems(todo') : t.op = "answer" => phase'[t.conn] = "Handling" /\ TrueTo(t)'
  BY <1>0, TasksAre DEF MessagesInv, Turns, TrueTo
<1>2. \A w \in Elems(waits) :
        /\ phase'[w.conn] = "Handling"
        /\ proc'[w.pane] # "Gone" => Holds(inbox'[w.pane], w.id, w.seq)
        /\ \A t \in Elems(todo') : t.op = "answer" => t.conn # w.conn
  BY <1>0 DEF MessagesInv, Turns
<1>3. \A c \in Conns : phase'[c] = "Handling" =>
        \/ \E w \in Elems(waits) : w.conn = c
        \/ \E t \in Elems(todo') : t.op = "answer" /\ t.conn = c
  BY <1>0 DEF MessagesInv, Turns
<1>4. WaitsApart(waits)
  BY DEF MessagesInv, Turns
<1> QED BY <1>1, <1>2, <1>3, <1>4 DEF Turns

(* The last reply is true.                                                  *)
LEMMA ReplyIs == ASSUME MessagesInv PROVE TrueTo(reply) /\ reply.state \in States \union {None}
BY DEF MessagesInv, Types, Turns

(* ... and a task that is done, if it answers no one and leaves the queues. *)
LEMMA DoneStep ==
  ASSUME MessagesInv, todo # <<>>, Now.op # "answer", todo' = Rest,
         UNCHANGED <<inbox, proc, listed, phase, role, input, waits, sent, verdicts, reply>>,
         out' \in [Conns -> {"Open", "Draining", "Shut"}], shown' \in [Panes -> BOOLEAN],
         \A c \in Conns : out'[c] = "Open" => out[c] = "Open",
         \A p \in Panes : Now = Flush(p) => FALSE,
         \A c \in Conns : Now = Finish(c) => out'[c] # "Open"
  PROVE  MessagesInv'
<1>1. /\ Rest \in Seq(Tasks) /\ AnswersApart(Rest) /\ ReapLast(Rest)
      /\ Elems(todo) = {Now} \union Elems(Rest)
  BY NowIs
<1>2. TrueTo(reply)'
  BY ReplyIs DEF TrueTo
<1>3. \A t \in Elems(Rest) : t.op \in {"stop", "remove"} => t.pane \notin listed
  BY <1>1 DEF MessagesInv, Turns
<1>4. Turns'
  <2> HIDE DEF Now, Rest
  <2> QED BY <1>1, <1>2, <1>3, QuietTurns
<1>5. Types' /\ Streams' /\ Settlements'
  <2>1. /\ waits \in Seq(Waits) /\ listed \subseteq Panes /\ input \in [Conns -> Seq(Requests)]
        /\ phase \in [Conns -> {"Head", "Handling", "Stream", "Closed"}]
    BY DEF MessagesInv, Types
  <2> HIDE DEF Now, Rest
  <2> QED BY <1>1, <2>1, ReplyIs, QuietQueues
<1> QED BY <1>4, <1>5 DEF MessagesInv

(* A connection has nothing to serve.                                       *)
LEMMA ServedStep == ASSUME MessagesInv, NEW c \in Conns, Served(c) PROVE MessagesInv'
<1>1. /\ todo # <<>> /\ Now.op = "serve" /\ todo' = Rest
      /\ UNCHANGED <<inbox, proc, listed, phase, out, role, input, waits, shown, sent, verdicts, reply>>
  BY DEF Served, Doing, Now
<1>2. /\ \A p \in Panes : Now # Flush(p)
      /\ \A d \in Conns : Now # Finish(d)
  BY <1>1, TaskOps
<1>3. out \in [Conns -> {"Open", "Draining", "Shut"}] /\ shown \in [Panes -> BOOLEAN]
  BY DEF MessagesInv, Types
<1> HIDE DEF Now, Rest
<1> QED BY <1>1, <1>2, <1>3, DoneStep

(* No connection is left to remove.                                         *)
LEMMA ReapedStep == ASSUME MessagesInv, Reaped PROVE MessagesInv'
<1>1. /\ todo # <<>> /\ Now.op = "reap" /\ todo' = Rest
      /\ UNCHANGED <<inbox, proc, listed, phase, out, role, input, waits, shown, sent, verdicts, reply>>
  BY DEF Reaped, Doing, Now
<1>2. /\ \A p \in Panes : Now # Flush(p)
      /\ \A d \in Conns : Now # Finish(d)
  BY <1>1, TaskOps
<1>3. out \in [Conns -> {"Open", "Draining", "Shut"}] /\ shown \in [Panes -> BOOLEAN]
  BY DEF MessagesInv, Types
<1> HIDE DEF Now, Rest
<1> QED BY <1>1, <1>2, <1>3, DoneStep

(* The inbox event of a pane.                                               *)
LEMMA ShowInboxStep == ASSUME MessagesInv, ShowInbox PROVE MessagesInv'
<1>1. /\ todo # <<>> /\ Now.op = "show" /\ todo' = Rest
      /\ shown' = [shown EXCEPT ![Now.pane] = Now.open]
      /\ UNCHANGED <<inbox, proc, listed, phase, out, role, input, waits, sent, verdicts, reply>>
  BY DEF ShowInbox, Doing, Now
<1>2. /\ \A p \in Panes : Now # Flush(p)
      /\ \A d \in Conns : Now # Finish(d)
  BY <1>1, TaskOps
<1>3. out \in [Conns -> {"Open", "Draining", "Shut"}] /\ shown \in [Panes -> BOOLEAN]
  BY DEF MessagesInv, Types
<1>4. Now \in Tasks
  BY <1>1, NowIs
<1> HIDE DEF Now, Rest
<1>5. Now.open \in BOOLEAN
  BY <1>1, <1>4, TasksAre
<1>6. shown' \in [Panes -> BOOLEAN]
  BY <1>1, <1>3, <1>5
<1> QED BY <1>1, <1>2, <1>3, <1>6, DoneStep

(* A stream is closed: the output takes no more frames.                     *)
LEMMA FinishStreamStep == ASSUME MessagesInv, FinishStream PROVE MessagesInv'
<1>1. /\ todo # <<>> /\ Now.op = "finish" /\ todo' = Rest
      /\ IF out[Now.conn] = "Open"
         THEN out' \in {[out EXCEPT ![Now.conn] = life] : life \in {"Draining", "Shut"}}
         ELSE out' = out
      /\ UNCHANGED <<inbox, proc, listed, phase, role, input, waits, shown, sent, verdicts, reply>>
  BY DEF FinishStream, Doing, Now, Sealed
<1>2. /\ \A p \in Panes : Now # Flush(p)
      /\ \A d \in Conns : Now = Finish(d) => Now.conn = d
  BY <1>1, TaskOps
<1>3. out \in [Conns -> {"Open", "Draining", "Shut"}] /\ shown \in [Panes -> BOOLEAN]
  BY DEF MessagesInv, Types
<1>4. Now \in Tasks
  BY <1>1, NowIs
<1> HIDE DEF Now, Rest
<1>5. Now.conn \in Conns
  BY <1>1, <1>4, TasksAre
<1>6. /\ out' \in [Conns -> {"Open", "Draining", "Shut"}]
      /\ \A d \in Conns : out'[d] = "Open" => out[d] = "Open"
      /\ out'[Now.conn] # "Open"
  BY <1>1, <1>3, <1>5
<1> QED BY <1>1, <1>2, <1>3, <1>6, DoneStep

(* A stack of one task.                                                     *)
LEMMA SoleTask ==
  ASSUME NEW t \in Tasks
  PROVE  <<t>> \in Seq(Tasks) /\ AnswersApart(<<t>>) /\ ReapLast(<<t>>) /\ Elems(<<t>>) = {t}
<1>1. <<t>> \in Seq(Tasks) /\ Elems(<<t>>) = {t} /\ Len(<<t>>) = 1
  BY ElemsOne
<1> QED BY <1>1 DEF AnswersApart, ReapLast

(* The empty stack.                                                         *)
LEMMA NoTask ==
  <<>> \in Seq(Tasks) /\ AnswersApart(<<>>) /\ ReapLast(<<>>) /\ Elems(<<>>) = {}
<1>1. <<>> \in Seq(Tasks) /\ Elems(<<>>) = {} /\ Len(<<>>) = 0
  BY ElemsNone
<1> QED BY <1>1 DEF AnswersApart, ReapLast

(* Between two turns: nothing or one task is left to do.                    *)
Idle ==
  /\ UNCHANGED <<inbox, proc, listed, role, waits, shown, sent, verdicts>>
  /\ todo = <<>>
  /\ todo' = <<>> \/ \E t \in Tasks : todo' = <<t>> /\ t.op \in {"serve", "reap"}
  /\ phase' \in [Conns -> {"Head", "Handling", "Stream", "Closed"}]
  /\ \A c \in Conns : phase'[c] = phase[c] \/ (phase[c] = "Closed" /\ phase'[c] = "Head")
  /\ out' \in [Conns -> {"Open", "Draining", "Shut"}]
  /\ input' \in [Conns -> Seq(Requests)]
  /\ \A c \in Conns : phase[c] = "Stream" /\ out'[c] = "Open" => out[c] = "Open"
  /\ TrueTo(reply)' /\ reply'.state \in States \union {None}

(* A step between two turns that starts at most one task keeps the          *)
(* invariant.                                                               *)
LEMMA IdleStep ==
  ASSUME MessagesInv, Idle
  PROVE  MessagesInv'
<1> USE DEF Idle
<1>1. Elems(todo) = {}
  BY NoTask
<1>2. /\ todo' \in Seq(Tasks) /\ AnswersApart(todo') /\ ReapLast(todo')
      /\ \A t \in Elems(todo') : t.op \in {"serve", "reap"}
  <2>1. CASE todo' = <<>>
    BY <2>1, NoTask
  <2>2. CASE \E t \in Tasks : todo' = <<t>> /\ t.op \in {"serve", "reap"}
    BY <2>2, SoleTask
  <2> QED BY <2>1, <2>2
<1>3. \A c \in Conns : /\ phase'[c] = "Handling" <=> phase[c] = "Handling"
                       /\ phase'[c] = "Stream" <=> phase[c] = "Stream"
  OBVIOUS
<1>4. Turns'
  BY <1>1, <1>2, <1>3, QuietTurns
<1>5. Types' /\ Streams' /\ Settlements'
  <2>1. waits \in Seq(Waits) /\ listed \subseteq Panes /\ shown \in [Panes -> BOOLEAN]
    BY DEF MessagesInv, Types
  <2> QED BY <1>1, <1>2, <1>3, <2>1, QuietQueues
<1> QED BY <1>4, <1>5 DEF MessagesInv

(* A client sends requests.                                                 *)
LEMMA RequestStep == ASSUME MessagesInv, NEW c \in Conns, Request(c) PROVE MessagesInv'
<1>1. /\ todo = <<>> /\ todo' = <<Serve(c)>> /\ reply' = NoReply
      /\ \E batch \in Batches : input' = [input EXCEPT ![c] = batch]
      /\ UNCHANGED <<inbox, proc, listed, phase, out, role, waits, shown, sent, verdicts>>
  BY DEF Request
<1>2. /\ phase \in [Conns -> {"Head", "Handling", "Stream", "Closed"}]
      /\ out \in [Conns -> {"Open", "Draining", "Shut"}] /\ input \in [Conns -> Seq(Requests)]
  BY DEF MessagesInv, Types
<1>3. input' \in [Conns -> Seq(Requests)]
  BY <1>1, <1>2, MessagesAssumption
<1>4. TrueTo(reply)' /\ reply'.state \in States \union {None}
  BY <1>1, NoneIs DEF TrueTo, NoReply
<1>5. Serve(c) \in Tasks /\ Serve(c).op = "serve"
  BY TasksMade, TaskOps
<1>6. \E t \in Tasks : todo' = <<t>> /\ t.op \in {"serve", "reap"}
  BY <1>1, <1>5
<1>7. /\ phase' \in [Conns -> {"Head", "Handling", "Stream", "Closed"}]
      /\ out' \in [Conns -> {"Open", "Draining", "Shut"}]
      /\ \A d \in Conns : phase'[d] = phase[d] /\ out'[d] = out[d]
  BY <1>1, <1>2
<1> QED BY <1>1, <1>3, <1>4, <1>6, <1>7, IdleStep DEF Idle

(* A text that is no answer closes its stream.                              *)
LEMMA RejectStep == ASSUME MessagesInv, NEW c \in Conns, Reject(c) PROVE MessagesInv'
<1>1. /\ todo = <<>> /\ todo' = <<>>
      /\ out' \in {[out EXCEPT ![c] = life] : life \in {"Draining", "Shut"}}
      /\ UNCHANGED <<inbox, proc, listed, phase, role, input, waits, shown, sent, verdicts, reply>>
  BY DEF Reject, Sealed
<1>2. /\ phase \in [Conns -> {"Head", "Handling", "Stream", "Closed"}]
      /\ out \in [Conns -> {"Open", "Draining", "Shut"}] /\ input \in [Conns -> Seq(Requests)]
  BY DEF MessagesInv, Types
<1>3. /\ out' \in [Conns -> {"Open", "Draining", "Shut"}]
      /\ \A d \in Conns : out'[d] = "Open" => out[d] = "Open"
  BY <1>1, <1>2
<1>4. TrueTo(reply)' /\ reply'.state \in States \union {None}
  BY <1>1, ReplyIs DEF TrueTo
<1>5. /\ phase' \in [Conns -> {"Head", "Handling", "Stream", "Closed"}]
      /\ input' \in [Conns -> Seq(Requests)]
      /\ \A d \in Conns : phase'[d] = phase[d]
  BY <1>1, <1>2
<1> QED BY <1>1, <1>3, <1>4, <1>5, IdleStep DEF Idle

(* A connection breaks.                                                     *)
LEMMA HangupStep == ASSUME MessagesInv, NEW c \in Conns, Hangup(c) PROVE MessagesInv'
<1>1. /\ todo = <<>> /\ todo' = <<>> /\ out' = [out EXCEPT ![c] = "Shut"]
      /\ UNCHANGED <<inbox, proc, listed, phase, role, input, waits, shown, sent, verdicts, reply>>
  BY DEF Hangup
<1>2. /\ phase \in [Conns -> {"Head", "Handling", "Stream", "Closed"}]
      /\ out \in [Conns -> {"Open", "Draining", "Shut"}] /\ input \in [Conns -> Seq(Requests)]
  BY DEF MessagesInv, Types
<1>3. /\ out' \in [Conns -> {"Open", "Draining", "Shut"}]
      /\ \A d \in Conns : out'[d] = "Open" => out[d] = "Open"
  BY <1>1, <1>2
<1>4. TrueTo(reply)' /\ reply'.state \in States \union {None}
  BY <1>1, ReplyIs DEF TrueTo
<1>5. /\ phase' \in [Conns -> {"Head", "Handling", "Stream", "Closed"}]
      /\ input' \in [Conns -> Seq(Requests)]
      /\ \A d \in Conns : phase'[d] = phase[d]
  BY <1>1, <1>2
<1> QED BY <1>1, <1>3, <1>4, <1>5, IdleStep DEF Idle

(* A connection is accepted.                                                *)
LEMMA AcceptStep == ASSUME MessagesInv, NEW c \in Conns, Accept(c) PROVE MessagesInv'
<1>1. /\ todo = <<>> /\ todo' = <<>> /\ phase[c] = "Closed"
      /\ phase' = [phase EXCEPT ![c] = "Head"] /\ out' = [out EXCEPT ![c] = "Open"]
      /\ UNCHANGED <<inbox, proc, listed, role, input, waits, shown, sent, verdicts, reply>>
  BY DEF Accept
<1>2. /\ phase \in [Conns -> {"Head", "Handling", "Stream", "Closed"}]
      /\ out \in [Conns -> {"Open", "Draining", "Shut"}] /\ input \in [Conns -> Seq(Requests)]
  BY DEF MessagesInv, Types
<1>3. /\ out' \in [Conns -> {"Open", "Draining", "Shut"}]
      /\ phase' \in [Conns -> {"Head", "Handling", "Stream", "Closed"}]
      /\ \A d \in Conns : phase'[d] = phase[d] \/ (phase[d] = "Closed" /\ phase'[d] = "Head")
      /\ \A d \in Conns : phase[d] = "Stream" /\ out'[d] = "Open" => out[d] = "Open"
  <2>1. \A d \in Conns : d # c => phase'[d] = phase[d] /\ out'[d] = out[d]
    BY <1>1, <1>2
  <2>2. phase'[c] = "Head" /\ out' \in [Conns -> {"Open", "Draining", "Shut"}]
    BY <1>1, <1>2
  <2>3. phase' \in [Conns -> {"Head", "Handling", "Stream", "Closed"}]
    BY <1>1, <1>2
  <2>4. \A d \in Conns : phase'[d] = phase[d] \/ (phase[d] = "Closed" /\ phase'[d] = "Head")
    BY <1>1, <2>1, <2>2
  <2>5. \A d \in Conns : phase[d] = "Stream" /\ out'[d] = "Open" => out[d] = "Open"
    BY <1>1, <2>1
  <2> QED BY <2>2, <2>3, <2>4, <2>5
<1>4. TrueTo(reply)' /\ reply'.state \in States \union {None}
  BY <1>1, ReplyIs DEF TrueTo
<1> QED BY <1>1, <1>2, <1>3, <1>4, IdleStep DEF Idle

(* The end of a turn.                                                       *)
LEMMA EndTurnStep == ASSUME MessagesInv, EndTurn PROVE MessagesInv'
<1>1. /\ todo = <<>> /\ todo' = <<Reap>>
      /\ UNCHANGED <<inbox, proc, listed, phase, out, role, input, waits, shown, sent, verdicts, reply>>
  BY DEF EndTurn
<1>2. /\ phase \in [Conns -> {"Head", "Handling", "Stream", "Closed"}]
      /\ out \in [Conns -> {"Open", "Draining", "Shut"}] /\ input \in [Conns -> Seq(Requests)]
  BY DEF MessagesInv, Types
<1>3. TrueTo(reply)' /\ reply'.state \in States \union {None}
  BY <1>1, ReplyIs DEF TrueTo
<1>4. Reap \in Tasks /\ Reap.op = "reap"
  BY TasksMade, TaskOps
<1>5. \E t \in Tasks : todo' = <<t>> /\ t.op \in {"serve", "reap"}
  BY <1>1, <1>4
<1>6. /\ phase' \in [Conns -> {"Head", "Handling", "Stream", "Closed"}]
      /\ out' \in [Conns -> {"Open", "Draining", "Shut"}] /\ input' \in [Conns -> Seq(Requests)]
      /\ \A d \in Conns : phase'[d] = phase[d] /\ out'[d] = out[d]
  BY <1>1, <1>2
<1> QED BY <1>1, <1>3, <1>5, <1>6, IdleStep DEF Idle

(* The request of a connection that is served.                              *)
LEMMA ServingIs ==
  ASSUME MessagesInv, NEW c \in Conns, Serving(c)
  PROVE  /\ Head(input[c]) \in Requests /\ Tail(input[c]) \in Seq(Requests)
         /\ phase[c] = "Head" /\ out[c] = "Open" /\ todo # <<>> /\ Now.op = "serve"
<1>1. input[c] \in Seq(Requests) /\ input[c] # <<>> /\ phase[c] = "Head" /\ out[c] = "Open"
      /\ todo # <<>> /\ Now.op = "serve"
  BY DEF MessagesInv, Types, Serving, Doing, Now
<1>2. Head(input[c]) \in Requests /\ Tail(input[c]) \in Seq(Requests)
  BY <1>1, ElemsTail
<1> QED BY <1>1, <1>2

(* A request to delete panes goes on the stack.                             *)
LEMMA ServeDeleteStep == ASSUME MessagesInv, NEW c \in Conns, ServeDelete(c) PROVE MessagesInv'
<1> DEFINE r == Head(input[c])
<1>1. /\ Serving(c) /\ r.op = "delete" /\ input' = [input EXCEPT ![c] = Tail(@)]
      /\ todo' = <<r>> \o todo
      /\ UNCHANGED <<inbox, proc, listed, phase, out, role, waits, shown, sent, verdicts, reply>>
  BY DEF ServeDelete
<1>2. r \in Requests /\ Tail(input[c]) \in Seq(Requests)
  BY <1>1, ServingIs
<1> HIDE DEF r
<1>3. r \in Tasks
  BY <1>1, <1>2, RequestsAre
<1>4. todo \in Seq(Tasks) /\ AnswersApart(todo) /\ ReapLast(todo)
  BY DEF MessagesInv, Types, Turns
<1>5. /\ todo' \in Seq(Tasks) /\ AnswersApart(todo') /\ ReapLast(todo')
      /\ Elems(todo') = {r} \union Elems(todo)
  BY <1>1, <1>3, <1>4, SoleTask, PushIs
<1>6. /\ phase \in [Conns -> {"Head", "Handling", "Stream", "Closed"}]
      /\ out \in [Conns -> {"Open", "Draining", "Shut"}] /\ input \in [Conns -> Seq(Requests)]
      /\ waits \in Seq(Waits) /\ listed \subseteq Panes /\ shown \in [Panes -> BOOLEAN]
  BY DEF MessagesInv, Types
<1>7. input' \in [Conns -> Seq(Requests)]
  BY <1>1, <1>2, <1>6
<1>8. TrueTo(reply)' /\ reply'.state \in States \union {None}
  BY <1>1, ReplyIs DEF TrueTo
<1>9. Turns'
  <2>1. \A t \in Elems(todo') : t.op \in {"stop", "remove"} => t.pane \notin listed'
    BY <1>1, <1>5 DEF MessagesInv, Turns
  <2> QED BY <1>1, <1>5, <1>8, <2>1, QuietTurns
<1>10. Types' /\ Streams' /\ Settlements'
  BY <1>1, <1>5, <1>6, <1>7, <1>8, QuietQueues
<1> QED BY <1>9, <1>10 DEF MessagesInv

(* Panes leave the document before they are stopped.                        *)
LEMMA DeletePanesStep == ASSUME MessagesInv, DeletePanes PROVE MessagesInv'
<1> DEFINE panes == Now.panes
           removal == Only(panes, listed)
           stops == [k \in DOMAIN removal |-> Stop(removal[k])]
<1>1. /\ todo # <<>> /\ Now.op = "delete" /\ listed' = listed \ ToSet(panes)
      /\ todo' = stops \o Rest
      /\ UNCHANGED <<inbox, proc, phase, out, role, input, waits, shown, sent, verdicts, reply>>
  BY DEF DeletePanes, Doing, Now
<1>2. Now \in Tasks /\ Rest \in Seq(Tasks) /\ AnswersApart(Rest) /\ ReapLast(Rest)
      /\ Elems(todo) = {Now} \union Elems(Rest)
  BY <1>1, NowIs
<1> HIDE DEF Now, Rest
<1>3. panes \in Seq(Panes)
  BY <1>1, <1>2, TasksAre
<1> HIDE DEF panes
<1>4. removal \in Seq(Panes) /\ Elems(removal) = Elems(panes) \cap listed /\ ToSet(panes) = Elems(panes)
  BY <1>3, ElemsOnly, ToSetIs
<1> HIDE DEF removal
<1>5. /\ stops \in Seq(Tasks)
      /\ \A t \in Elems(stops) : \E p \in Elems(removal) : t = Stop(p)
  <2>1. DOMAIN removal = 1 .. Len(removal) /\ Len(removal) \in Nat
        /\ \A k \in 1 .. Len(removal) : removal[k] \in Panes /\ removal[k] \in Elems(removal)
    BY <1>4 DEF Elems
  <2>2. stops = [k \in 1 .. Len(removal) |-> Stop(removal[k])]
    BY <2>1
  <2>3. stops \in Seq(Tasks) /\ Len(stops) = Len(removal)
        /\ \A k \in 1 .. Len(removal) : stops[k] = Stop(removal[k])
    BY <2>1, <2>2, TasksMade
  <2> QED BY <2>1, <2>3 DEF Elems
<1> HIDE DEF stops
<1>6. \A t \in Elems(stops) : t.op = "stop" /\ t.pane \in Elems(removal)
  BY <1>5, TaskOps
<1>7. /\ todo' \in Seq(Tasks) /\ AnswersApart(todo') /\ ReapLast(todo')
      /\ Elems(todo') = Elems(stops) \union Elems(Rest)
  BY <1>1, <1>2, <1>5, <1>6, PushIs
<1>8. /\ phase \in [Conns -> {"Head", "Handling", "Stream", "Closed"}]
      /\ out \in [Conns -> {"Open", "Draining", "Shut"}] /\ input \in [Conns -> Seq(Requests)]
      /\ waits \in Seq(Waits) /\ listed' \subseteq Panes /\ shown \in [Panes -> BOOLEAN]
  BY <1>1 DEF MessagesInv, Types
<1>9. TrueTo(reply)' /\ reply'.state \in States \union {None}
  BY <1>1, ReplyIs DEF TrueTo
<1>10. Turns'
  <2>1. \A t \in Elems(Rest) : t.op \in {"stop", "remove"} => t.pane \notin listed
    BY <1>2 DEF MessagesInv, Turns
  <2>2. \A t \in Elems(todo') : t.op \in {"stop", "remove"} => t.pane \notin listed'
    BY <1>1, <1>4, <1>6, <1>7, <2>1
  <2>3. \A t \in Tasks : t.op = "answer" => (t \in Elems(todo') <=> t \in Elems(todo))
    BY <1>1, <1>2, <1>6, <1>7
  <2> QED BY <1>1, <1>7, <1>9, <2>2, <2>3, QuietTurns
<1>11. Types' /\ Streams' /\ Settlements'
  <2>1. /\ \A p \in Panes : Flush(p) \in Elems(todo) => Flush(p) \in Elems(todo')
        /\ \A c \in Conns : Finish(c) \in Elems(todo) => Finish(c) \in Elems(todo')
    BY <1>1, <1>2, <1>7, TaskOps
  <2> QED BY <1>1, <1>7, <1>8, <1>9, <2>1, QuietQueues
<1> QED BY <1>10, <1>11 DEF MessagesInv

(* A sender has its one answer and is served again.                         *)
LEMMA AnswerSenderStep == ASSUME MessagesInv, AnswerSender PROVE MessagesInv'
<1>1. /\ todo # <<>> /\ Now.op = "answer" /\ phase' = [phase EXCEPT ![Now.conn] = "Head"]
      /\ reply' = [conn |-> Now.conn, pane |-> Now.pane, id |-> Now.id, seq |-> Now.seq,
                   state |-> Now.state]
      /\ todo' = <<Serve(Now.conn)>> \o Rest
      /\ UNCHANGED <<inbox, proc, listed, out, role, input, waits, shown, sent, verdicts>>
  BY DEF AnswerSender, Doing, Now, Replied
<1>2. Now \in Tasks /\ Rest \in Seq(Tasks) /\ AnswersApart(Rest) /\ ReapLast(Rest)
      /\ Elems(todo) = {Now} \union Elems(Rest)
      /\ \A t \in Elems(Rest) : t.op = "answer" => Now.conn # t.conn
      /\ Elems(Rest) \subseteq Tasks
  BY <1>1, NowIs
<1> HIDE DEF Now, Rest
<1>3. Now.conn \in Conns /\ Now.state \in States /\ phase[Now.conn] = "Handling" /\ TrueTo(Now)
  BY <1>1, <1>2, TasksAre DEF MessagesInv, Turns
<1>4. Serve(Now.conn) \in Tasks /\ Serve(Now.conn).op = "serve"
  BY <1>3, TasksMade, TaskOps
<1>5. /\ todo' \in Seq(Tasks) /\ AnswersApart(todo') /\ ReapLast(todo')
      /\ Elems(todo') = {Serve(Now.conn)} \union Elems(Rest)
  BY <1>1, <1>2, <1>4, SoleTask, PushIs
<1>6. /\ phase \in [Conns -> {"Head", "Handling", "Stream", "Closed"}]
      /\ out \in [Conns -> {"Open", "Draining", "Shut"}] /\ input \in [Conns -> Seq(Requests)]
      /\ waits \in Seq(Waits) /\ listed \subseteq Panes /\ shown \in [Panes -> BOOLEAN]
  BY DEF MessagesInv, Types
<1>7. /\ phase' \in [Conns -> {"Head", "Handling", "Stream", "Closed"}] /\ phase'[Now.conn] = "Head"
      /\ \A c \in Conns : c # Now.conn => phase'[c] = phase[c]
  BY <1>1, <1>3, <1>6
<1>8. TrueTo(reply)' /\ reply'.state \in States \union {None}
  BY <1>1, <1>3 DEF TrueTo
<1>9. Turns'
  <2>1. \A t \in Elems(todo') : t.op = "answer" =>
          t \in Elems(Rest) /\ t.conn \in Conns /\ t.conn # Now.conn
    BY <1>2, <1>4, <1>5, TasksAre
  <2>2. \A t \in Elems(todo') : t.op = "answer" => phase'[t.conn] = "Handling" /\ TrueTo(t)'
    BY <1>1, <1>2, <1>7, <2>1 DEF MessagesInv, Turns, TrueTo
  <2>3. \A t \in Elems(todo') : t.op \in {"stop", "remove"} => t.pane \notin listed
    BY <1>2, <1>4, <1>5 DEF MessagesInv, Turns
  <2>4. \A w \in Elems(waits) : w.conn \in Conns /\ w.conn # Now.conn
    <3>1. Elems(waits) \subseteq Waits /\ \A w \in Waits : w.conn \in Conns
      BY <1>6, ToSetIs DEF Waits
    <3>2. \A w \in Elems(waits) : w.conn # Now.conn
      BY <1>1, <1>2 DEF MessagesInv, Turns
    <3> QED BY <3>1, <3>2
  <2>5. \A w \in Elems(waits) :
          /\ phase'[w.conn] = "Handling"
          /\ proc[w.pane] # "Gone" => Holds(inbox[w.pane], w.id, w.seq)
          /\ \A t \in Elems(todo') : t.op = "answer" => t.conn # w.conn
    BY <1>2, <1>7, <2>1, <2>4 DEF MessagesInv, Turns
  <2>6. \A c \in Conns : phase'[c] = "Handling" =>
          \/ \E w \in Elems(waits) : w.conn = c
          \/ \E t \in Elems(todo') : t.op = "answer" /\ t.conn = c
    BY <1>2, <1>5, <1>7 DEF MessagesInv, Turns
  <2>7. WaitsApart(waits)
    BY DEF MessagesInv, Turns
  <2> QED BY <1>1, <1>5, <1>8, <2>2, <2>3, <2>5, <2>6, <2>7 DEF Turns
<1>10. Types' /\ Streams' /\ Settlements'
  <2>1. \A p \in Panes : Flush(p) \in Elems(todo) => Flush(p) \in Elems(todo')
    BY <1>1, <1>2, <1>5, TaskOps
  <2>2. \A c \in Conns : Finish(c) \in Elems(todo) => Finish(c) \in Elems(todo')
    BY <1>1, <1>2, <1>5, TaskOps
  <2>3. \A c \in Conns : phase'[c] = "Stream" <=> phase[c] = "Stream"
    BY <1>3, <1>7
  <2> QED BY <1>1, <1>5, <1>6, <1>7, <1>8, <2>1, <2>2, <2>3, QuietQueues
<1> QED BY <1>9, <1>10 DEF MessagesInv

(* A deadline ends the wait of its connection with Delivered.               *)
LEMMA MessageDueStep == ASSUME MessagesInv, NEW c \in Conns, MessageDue(c) PROVE MessagesInv'
<1> DEFINE hit == {w \in ToSet(waits) : w.conn = c}
<1>1. /\ todo = <<>> /\ Release(hit, "Delivered", <<>>)
      /\ UNCHANGED <<inbox, proc, listed, phase, out, role, input, shown, sent, verdicts, reply>>
  BY DEF MessageDue
<1>2. waits \in Seq(Waits) /\ ToSet(waits) = Elems(waits) /\ Elems(waits) \subseteq Waits
  BY ToSetIs DEF MessagesInv, Types
<1>3. hit \in SUBSET Elems(waits) /\ hit = {w \in Elems(waits) : w.conn = c}
  BY <1>2
<1> HIDE DEF hit
<1>4. /\ waits' \in Seq(Waits) /\ WaitsApart(waits') /\ Elems(waits') = Elems(waits) \ hit
      /\ todo' \in Seq(Tasks) /\ AnswersApart(todo') /\ ReapLast(todo')
      /\ Elems(todo') = {Answer(w, "Delivered") : w \in hit}
  <2>1. "Delivered" \in States
    BY DEF States
  <2>2. \A t \in Elems(<<>>) : t.op = "answer" => t \in Elems(todo)
    BY NoTask
  <2>3. /\ waits' \in Seq(Waits) /\ WaitsApart(waits') /\ Elems(waits') = Elems(waits) \ hit
        /\ todo' \in Seq(Tasks) /\ AnswersApart(todo') /\ ReapLast(todo')
        /\ Elems(todo') = {Answer(w, "Delivered") : w \in hit} \union Elems(<<>>)
    BY <1>1, <1>3, <2>1, <2>2, NoTask, ReleaseIs
  <2> QED BY <2>3, NoTask
<1>5. Elems(todo) = {}
  BY <1>1, NoTask
<1>6. /\ phase \in [Conns -> {"Head", "Handling", "Stream", "Closed"}]
      /\ out \in [Conns -> {"Open", "Draining", "Shut"}] /\ input \in [Conns -> Seq(Requests)]
      /\ listed \subseteq Panes /\ shown \in [Panes -> BOOLEAN]
  BY DEF MessagesInv, Types
<1>7. TrueTo(reply)' /\ reply'.state \in States \union {None}
  BY <1>1, ReplyIs DEF TrueTo
<1>8. \A t \in Elems(todo') : \E w \in hit : t = Answer(w, "Delivered") /\ t.op = "answer"
                                /\ t.conn = w.conn /\ t.state = "Delivered"
  BY <1>4, TaskOps
<1>9. Turns'
  <2>1. \A t \in Elems(todo') : t.op = "answer" => phase'[t.conn] = "Handling" /\ TrueTo(t)'
    BY <1>1, <1>3, <1>8 DEF MessagesInv, Turns, TrueTo, Outcomes
  <2>2. \A w \in Elems(waits') :
          /\ phase[w.conn] = "Handling"
          /\ proc[w.pane] # "Gone" => Holds(inbox[w.pane], w.id, w.seq)
          /\ \A t \in Elems(todo') : t.op = "answer" => t.conn # w.conn
    BY <1>3, <1>4, <1>8 DEF MessagesInv, Turns
  <2>3. \A d \in Conns : phase[d] = "Handling" =>
          \/ \E w \in Elems(waits') : w.conn = d
          \/ \E t \in Elems(todo') : t.op = "answer" /\ t.conn = d
    <3> SUFFICES ASSUME NEW d \in Conns, phase[d] = "Handling"
                 PROVE  \/ \E w \in Elems(waits') : w.conn = d
                        \/ \E t \in Elems(todo') : t.op = "answer" /\ t.conn = d
      OBVIOUS
    <3>1. PICK w \in Elems(waits) : w.conn = d
      BY <1>5 DEF MessagesInv, Turns
    <3>2. CASE w \in hit
      <4>1. Answer(w, "Delivered") \in Elems(todo')
        BY <1>4, <3>2
      <4> QED BY <3>1, <4>1, TaskOps
    <3>3. CASE w \notin hit
      BY <1>4, <3>1, <3>3
    <3> QED BY <3>2, <3>3
  <2> QED BY <1>1, <1>4, <1>7, <1>8, <2>1, <2>2, <2>3 DEF Turns
<1>10. Types' /\ Streams' /\ Settlements'
  BY <1>1, <1>4, <1>5, <1>6, <1>7, QuietQueues
<1> QED BY <1>9, <1>10 DEF MessagesInv

-----------------------------------------------------------------------------
(* A queue that ends: its stream is to be finished.                         *)
Ends(r) ==
  /\ BoxInv(inbox'[r]) /\ inbox'[r].stream = None
  /\ \A i \in Ids : inbox'[r].known[i].is \notin Outcomes
  /\ \/ inbox[r].stream = None
     \/ Finish(inbox[r].stream) \in Elems(todo')
     \/ proc'[r] = "Gone"

(* A step that lets every queue go on or ends it, with its stream to be     *)
(* finished, keeps ranges, streams and verdicts.                            *)
LEMMA QueuesStep ==
  ASSUME MessagesInv, inbox' = [r \in Panes |-> inbox'[r]],
         \A r \in Panes : Steady(r) \/ Ends(r),
         \A r \in Panes : proc'[r] = "Gone" => (Steady(r) /\ proc[r] = "Gone") \/ inbox'[r] = Empty,
         \A r \in Panes : proc[r] = "Gone" => proc'[r] = "Gone",
         Outputs, role' = role, verdicts' = verdicts,
         waits' \in Seq(Waits), todo' \in Seq(Tasks),
         proc' \in [Panes -> {"Live", "Dead", "Gone"}],
         phase' \in [Conns -> {"Head", "Handling", "Stream", "Closed"}],
         input' \in [Conns -> Seq(Requests)], shown' \in [Panes -> BOOLEAN],
         listed' \subseteq Panes, reply'.state \in States \union {None},
         \A c \in Conns : phase'[c] = "Stream" <=> phase[c] = "Stream",
         \A p \in Panes : Flush(p) \in Elems(todo) => \/ Flush(p) \in Elems(todo')
                                                      \/ Full(inbox'[p])
                                                      \/ inbox'[p].stream = None,
         \A c \in Conns : Finish(c) \in Elems(todo) => Finish(c) \in Elems(todo')
  PROVE  Types' /\ Streams' /\ Settlements'
<1>0. /\ sent' \in [Conns -> Seq(Nat)] /\ out' \in [Conns -> {"Open", "Draining", "Shut"}]
      /\ \A d \in Conns : out'[d] = "Open" => out[d] = "Open"
      /\ \A d \in Conns : Rising(sent'[d]) /\ (phase[d] # "Stream" => sent'[d] = sent[d])
  BY DEF Outputs
<1>1. \A r \in Panes : BoxInv(inbox'[r]) /\ inbox'[r].stream \in Conns \union {None}
  BY DEF MessagesInv, Types, Steady, Ends
<1>2. Types'
  BY <1>0, <1>1 DEF MessagesInv, Types
<1>3. Settlements'
  <2> SUFFICES ASSUME NEW p \in Panes, NEW i \in Ids, inbox'[p].known[i].is \in Outcomes
               PROVE  Verdict(p, i, inbox'[p].known[i]) \in verdicts
    BY DEF Settlements
  <2>1. Steady(p)
    BY DEF Ends
  <2>2. inbox'[p].known[i] = inbox[p].known[i]
    BY <2>1 DEF Steady, Grows
  <2> QED BY <2>2 DEF MessagesInv, Settlements
<1>4. ASSUME NEW p \in Panes, inbox'[p].stream # None
      PROVE  /\ phase'[inbox'[p].stream] = "Stream" /\ role[inbox'[p].stream] = p
             /\ SentOK(inbox'[p], sent'[inbox'[p].stream], out'[inbox'[p].stream])
             /\ Full(inbox'[p]) \/ Flush(p) \in Elems(todo')
  <2>1. Steady(p)
    BY <1>4 DEF Ends
  <2>2. /\ inbox'[p].stream = inbox[p].stream /\ inbox[p].stream # None
        /\ SentOK(inbox'[p], sent'[inbox[p].stream], out'[inbox[p].stream])
        /\ Full(inbox[p]) => Full(inbox'[p])
    BY <1>4, <2>1 DEF Steady
  <2>3. inbox[p].stream \in Conns
    BY <2>2 DEF MessagesInv, Types
  <2>4. /\ phase[inbox[p].stream] = "Stream" /\ role[inbox[p].stream] = p
        /\ Full(inbox[p]) \/ Flush(p) \in Elems(todo)
    BY <2>2 DEF MessagesInv, Streams
  <2> QED BY <1>4, <2>2, <2>3, <2>4
<1>5. ASSUME NEW c \in Conns, phase'[c] = "Stream", out'[c] = "Open"
      PROVE  \/ inbox'[role[c]].stream = c
             \/ Finish(c) \in Elems(todo')
             \/ proc'[role[c]] = "Gone"
  <2>1. phase[c] = "Stream" /\ out[c] = "Open"
    BY <1>0, <1>5
  <2>2. role[c] \in Panes
    BY <2>1 DEF MessagesInv, Types
  <2>3. \/ inbox[role[c]].stream = c
        \/ Finish(c) \in Elems(todo)
        \/ proc[role[c]] = "Gone"
    BY <2>1 DEF MessagesInv, Streams
  <2>4. CASE inbox[role[c]].stream = c
    <3>1. CASE Steady(role[c])
      BY <2>4, <3>1 DEF Steady
    <3>2. CASE Ends(role[c])
      BY <2>4, <3>2, NoneIs DEF Ends
    <3> QED BY <2>2, <3>1, <3>2
  <2> QED BY <2>2, <2>3, <2>4
<1>6. \A c \in Conns : phase'[c] # "Stream" => sent'[c] = <<>>
  BY <1>0 DEF MessagesInv, Streams
<1>7. \A p \in Panes : proc'[p] = "Gone" => inbox'[p] = Empty
  BY DEF MessagesInv, Streams, Steady
<1>8. Streams'
  BY <1>0, <1>4, <1>5, <1>6, <1>7 DEF Streams
<1> QED BY <1>2, <1>3, <1>8

(* The fields of a wait.                                                    *)
LEMMA WaitsAre ==
  ASSUME MessagesInv
  PROVE  \A w \in Elems(waits) : /\ w.conn \in Conns /\ w.pane \in Panes
                                 /\ w.id \in Ids /\ w.seq \in Nat
<1>1. Elems(waits) \subseteq Waits
  BY ToSetIs DEF MessagesInv, Types
<1>2. \A w \in Waits : w.conn \in Conns /\ w.pane \in Panes /\ w.id \in Ids /\ w.seq \in Nat
  BY DEF Waits
<1> QED BY <1>1, <1>2

(* flush_messages writes what is due.                                       *)
LEMMA FlushMessagesStep == ASSUME MessagesInv, FlushMessages PROVE MessagesInv'
<1> DEFINE p == Now.pane
<1>1. /\ todo # <<>> /\ Now.op = "flush" /\ todo' = Rest
      /\ inbox' = [inbox EXCEPT ![p] = Pumped(@)] /\ Write(inbox[p])
      /\ UNCHANGED <<proc, listed, phase, role, input, waits, shown, verdicts, reply>>
  BY DEF FlushMessages, Doing, Now
<1>2. Now \in Tasks /\ Rest \in Seq(Tasks) /\ AnswersApart(Rest) /\ ReapLast(Rest)
      /\ Elems(todo) = {Now} \union Elems(Rest)
  BY <1>1, NowIs
<1>3. \A q \in Panes : Now = Flush(q) => p = q
  BY TaskOps
<1>4. \A c \in Conns : Now # Finish(c)
  BY <1>1, TaskOps
<1> HIDE DEF Now, Rest
<1>5. p \in Panes
  BY <1>1, <1>2, TasksAre
<1> HIDE DEF p
<1>6. /\ inbox = [r \in Panes |-> inbox[r]] /\ BoxInv(inbox[p])
      /\ waits \in Seq(Waits) /\ listed \subseteq Panes /\ input \in [Conns -> Seq(Requests)]
      /\ phase \in [Conns -> {"Head", "Handling", "Stream", "Closed"}]
      /\ proc \in [Panes -> {"Live", "Dead", "Gone"}] /\ shown \in [Panes -> BOOLEAN]
  BY <1>5 DEF MessagesInv, Types
<1>7. /\ inbox' = [r \in Panes |-> inbox'[r]] /\ inbox'[p] = Pumped(inbox[p])
      /\ \A r \in Panes : r # p => inbox'[r] = inbox[r]
  BY <1>1, <1>5, <1>6
<1>8. proc[p] = "Gone" => inbox[p] = Empty /\ Pumped(inbox[p]) = inbox[p]
  BY <1>5 DEF MessagesInv, Streams, Pumped, Empty
<1>9. Outputs /\ (\A r \in Panes : Steady(r)) /\ (inbox[p].stream # None => Full(inbox'[p]))
  <2>1. Grows(inbox[p], inbox[p])
    <3>1. \A i \in Ids : inbox[p].known[i] = inbox[p].known[i]
      OBVIOUS
    <3> QED BY Zenon DEF Grows
  <2>2. inbox[p].stream # None => SentOK(inbox[p], sent[inbox[p].stream], out[inbox[p].stream])
    BY <1>5 DEF MessagesInv, Streams
  <2>3. /\ Outputs /\ Steady(p) /\ (inbox[p].stream # None => Full(inbox'[p]))
        /\ \A r \in Panes : r # p /\ inbox'[r] = inbox[r] => Steady(r)
    BY <1>1, <1>5, <1>6, <1>7, <1>8, <2>1, <2>2, WrittenSteady DEF Outputs
  <2> QED BY <1>7, <2>3
<1>10. inbox'[p].stream = inbox[p].stream
  BY <1>5, <1>9 DEF Steady
<1>11. TrueTo(reply)' /\ reply'.state \in States \union {None}
  BY <1>1, ReplyIs DEF TrueTo
<1>12. Types' /\ Streams' /\ Settlements'
  <2>1. /\ \A q \in Panes : Flush(q) \in Elems(todo) => \/ Flush(q) \in Elems(todo')
                                                      \/ Full(inbox'[q])
                                                      \/ inbox'[q].stream = None
        /\ \A c \in Conns : Finish(c) \in Elems(todo) => Finish(c) \in Elems(todo')
    BY <1>1, <1>2, <1>3, <1>4, <1>9, <1>10
  <2>2. \A r \in Panes : proc'[r] = "Gone" => (Steady(r) /\ proc[r] = "Gone") \/ inbox'[r] = Empty
    BY <1>1, <1>9
  <2> QED BY <1>1, <1>2, <1>6, <1>7, <1>9, <1>11, <2>1, <2>2, QueuesStep
<1>13. Turns'
  <2>1. \A t \in Elems(Rest) : t.op \in {"stop", "remove"} => t.pane \notin listed
    BY <1>2 DEF MessagesInv, Turns
  <2>2. \A w \in Elems(waits) : w.pane \in Panes /\ w.id \in Ids /\ w.seq \in Nat
    BY WaitsAre
  <2>3. \A w \in Elems(waits) : Holds(inbox[w.pane], w.id, w.seq) => Holds(inbox'[w.pane], w.id, w.seq)
    BY <1>9, <2>2 DEF Steady, Grows
  <2> QED BY <1>1, <1>2, <1>11, <2>1, <2>3, QuietTurns
<1> QED BY <1>12, <1>13 DEF MessagesInv

(* A pane leaves the table, and its queue with it.                          *)
LEMMA RemovePaneStep == ASSUME MessagesInv, RemovePane PROVE MessagesInv'
<1> DEFINE p == Now.pane
<1>1. /\ todo # <<>> /\ Now.op = "remove" /\ todo' = Rest
      /\ inbox' = [inbox EXCEPT ![p] = Empty] /\ proc' = [proc EXCEPT ![p] = "Gone"]
      /\ UNCHANGED <<listed, phase, out, role, input, waits, shown, sent, verdicts, reply>>
  BY DEF RemovePane, Doing, Now
<1>2. Now \in Tasks /\ Rest \in Seq(Tasks) /\ AnswersApart(Rest) /\ ReapLast(Rest)
      /\ Elems(todo) = {Now} \union Elems(Rest)
  BY <1>1, NowIs
<1>3. /\ \A q \in Panes : Now # Flush(q)
      /\ \A c \in Conns : Now # Finish(c)
  BY <1>1, TaskOps
<1> HIDE DEF Now, Rest
<1>4. p \in Panes
  BY <1>1, <1>2, TasksAre
<1> HIDE DEF p
<1>5. /\ inbox = [r \in Panes |-> inbox[r]]
      /\ waits \in Seq(Waits) /\ listed \subseteq Panes /\ input \in [Conns -> Seq(Requests)]
      /\ phase \in [Conns -> {"Head", "Handling", "Stream", "Closed"}]
      /\ proc \in [Panes -> {"Live", "Dead", "Gone"}] /\ shown \in [Panes -> BOOLEAN]
  BY DEF MessagesInv, Types
<1>6. /\ inbox' = [r \in Panes |-> inbox'[r]] /\ inbox'[p] = Empty
      /\ \A r \in Panes : r # p => inbox'[r] = inbox[r]
  BY <1>1, <1>4, <1>5
<1>7. /\ proc' \in [Panes -> {"Live", "Dead", "Gone"}] /\ proc'[p] = "Gone"
      /\ \A r \in Panes : r # p => proc'[r] = proc[r]
  BY <1>1, <1>4, <1>5
<1>8. Ends(p)
  <2>1. Empty.stream = None /\ \A i \in Ids : Empty.known[i] = Unknown
    BY DEF Empty
  <2> QED BY <1>6, <1>7, <2>1, EmptyInv, KnownAre DEF Ends, Outcomes
<1>9. \A r \in Panes : r # p => Steady(r)
  BY <1>1, <1>6, SteadyOne
<1>10. Outputs
  BY <1>1, OutputsQuiet
<1>11. TrueTo(reply)' /\ reply'.state \in States \union {None}
  BY <1>1, ReplyIs DEF TrueTo
<1>12. Types' /\ Streams' /\ Settlements'
  <2>1. /\ \A q \in Panes : Flush(q) \in Elems(todo) => Flush(q) \in Elems(todo')
        /\ \A c \in Conns : Finish(c) \in Elems(todo) => Finish(c) \in Elems(todo')
    BY <1>1, <1>2, <1>3
  <2>2. \A r \in Panes : proc'[r] = "Gone" => (Steady(r) /\ proc[r] = "Gone") \/ inbox'[r] = Empty
    BY <1>6, <1>7, <1>9
  <2>3. \A r \in Panes : Steady(r) \/ Ends(r)
    BY <1>8, <1>9
  <2>4. \A r \in Panes : proc[r] = "Gone" => proc'[r] = "Gone"
    BY <1>7
  <2> QED BY <1>1, <1>2, <1>5, <1>6, <1>7, <1>10, <1>11, <2>1, <2>2, <2>3, <2>4, QueuesStep
<1>13. Turns'
  <2>1. \A t \in Elems(Rest) : t.op \in {"stop", "remove"} => t.pane \notin listed
    BY <1>2 DEF MessagesInv, Turns
  <2>2. \A w \in Elems(waits) : w.pane \in Panes
    BY WaitsAre
  <2>3. \A w \in Elems(waits) : proc'[w.pane] # "Gone" =>
           /\ proc[w.pane] # "Gone"
           /\ Holds(inbox[w.pane], w.id, w.seq) => Holds(inbox'[w.pane], w.id, w.seq)
    BY <1>6, <1>7, <2>2
  <2> QED BY <1>1, <1>2, <1>11, <2>1, <2>3, QuietTurns
<1> QED BY <1>12, <1>13 DEF MessagesInv

(* The end of a queue, with the answers to those who waited for it.         *)
LEMMA EndedStep ==
  ASSUME MessagesInv, NEW p \in Panes, NEW tell \in BOOLEAN, NEW rest \in Seq(Tasks),
         AnswersApart(rest), ReapLast(rest), Ended(p, tell, rest),
         \A t \in Elems(rest) : t.op = "answer" => t \in Elems(todo),
         \A t \in Elems(todo) : t.op = "answer" => t \in Elems(rest),
         \A t \in Elems(rest) : t.op \in {"stop", "remove"} => t.pane \notin listed,
         \A q \in Panes : Flush(q) \in Elems(todo) => Flush(q) \in Elems(rest),
         \A c \in Conns : Finish(c) \in Elems(todo) => Finish(c) \in Elems(rest),
         UNCHANGED <<listed, phase, role, input, shown, verdicts, reply>>,
         proc' \in [Panes -> {"Live", "Dead", "Gone"}],
         \A r \in Panes : proc'[r] = "Gone" <=> proc[r] = "Gone"
  PROVE  MessagesInv'
<1>1. /\ inbox' = [r \in Panes |-> inbox'[r]] /\ inbox'[p] = Cleared(inbox[p])
      /\ Outputs
      /\ \A r \in Panes : r # p => Steady(r)
      /\ waits' \in Seq(Waits) /\ WaitsApart(waits')
      /\ Elems(waits') = {w \in Elems(waits) : w.pane # p}
      /\ todo' \in Seq(Tasks) /\ AnswersApart(todo') /\ ReapLast(todo')
      /\ Elems(todo') = {Answer(w, "Gone") : w \in {v \in Elems(waits) : v.pane = p}}
                        \union Elems(CloseStream(p)) \union Elems(rest)
  BY EndedIs
<1>2. /\ \A t \in Elems(CloseStream(p)) : t.op \in {"finish", "show"}
      /\ inbox[p].stream # None => Finish(inbox[p].stream) \in Elems(CloseStream(p))
  BY CloseStreamIs
<1>3. BoxInv(inbox[p]) /\ BoxInv(Cleared(inbox[p])) /\ Cleared(inbox[p]).stream = None
      /\ Cleared(inbox[p]).known = [i \in Ids |-> Unknown]
  BY ClearedInv DEF MessagesInv, Types
<1>4. Ends(p)
  BY <1>1, <1>2, <1>3, KnownAre DEF Ends, Outcomes
<1>5. TrueTo(reply)' /\ reply'.state \in States \union {None}
  BY ReplyIs DEF TrueTo
<1>6. \A w \in Elems(waits) : w.conn \in Conns /\ w.pane \in Panes /\ w.id \in Ids /\ w.seq \in Nat
  BY WaitsAre
<1>7. Types' /\ Streams' /\ Settlements'
  <2>1. /\ \A q \in Panes : Flush(q) \in Elems(todo) => Flush(q) \in Elems(todo')
        /\ \A c \in Conns : Finish(c) \in Elems(todo) => Finish(c) \in Elems(todo')
    BY <1>1
  <2>2. \A r \in Panes : proc'[r] = "Gone" => (Steady(r) /\ proc[r] = "Gone") \/ inbox'[r] = Empty
    <3>1. proc[p] = "Gone" => inbox'[p] = Empty
      BY <1>1 DEF MessagesInv, Streams, Cleared, Empty
    <3> QED BY <1>1, <3>1
  <2>3. \A r \in Panes : Steady(r) \/ Ends(r)
    BY <1>1, <1>4
  <2>4. /\ listed' \subseteq Panes /\ input' \in [Conns -> Seq(Requests)]
        /\ phase' \in [Conns -> {"Head", "Handling", "Stream", "Closed"}]
        /\ shown' \in [Panes -> BOOLEAN]
    BY DEF MessagesInv, Types
  <2> QED BY <1>1, <1>5, <2>1, <2>2, <2>3, <2>4, QueuesStep
<1>8. \A t \in Elems(todo') :
        \/ t \in Elems(rest)
        \/ t \in Elems(CloseStream(p))
        \/ \E w \in Elems(waits) : /\ w.pane = p /\ t.op = "answer" /\ t.conn = w.conn
                                   /\ t.state = "Gone"
  BY <1>1, TaskOps
<1>9. Turns'
  <2>1. \A t \in Elems(todo') : t.op = "answer" => phase[t.conn] = "Handling" /\ TrueTo(t)'
    BY <1>2, <1>8 DEF MessagesInv, Turns, TrueTo, Outcomes
  <2>2. \A t \in Elems(todo') : t.op \in {"stop", "remove"} => t.pane \notin listed
    BY <1>2, <1>8
  <2>3. ASSUME NEW w \in Elems(waits')
        PROVE  /\ phase[w.conn] = "Handling"
               /\ proc'[w.pane] # "Gone" => Holds(inbox'[w.pane], w.id, w.seq)
               /\ \A t \in Elems(todo') : t.op = "answer" => t.conn # w.conn
    <3>1. w \in Elems(waits) /\ w.pane # p /\ w.pane \in Panes /\ w.id \in Ids /\ w.seq \in Nat
      BY <1>1, <1>6
    <3>2. Steady(w.pane)
      BY <1>1, <3>1
    <3>3. proc[w.pane] # "Gone" => Holds(inbox[w.pane], w.id, w.seq)
      BY <3>1 DEF MessagesInv, Turns
    <3>4. proc'[w.pane] # "Gone" => Holds(inbox'[w.pane], w.id, w.seq)
      BY <3>1, <3>2, <3>3 DEF Steady, Grows
    <3>5. \A v \in Elems(waits) : v.conn = w.conn => v = w
      BY <3>1 DEF MessagesInv, Turns, WaitsApart, Elems
    <3>6. \A t \in Elems(todo') : t.op = "answer" => t.conn # w.conn
      BY <1>2, <1>8, <3>1, <3>5 DEF MessagesInv, Turns
    <3> QED BY <3>1, <3>4, <3>6 DEF MessagesInv, Turns
  <2>4. ASSUME NEW c \in Conns, phase[c] = "Handling"
        PROVE  \/ \E w \in Elems(waits') : w.conn = c
               \/ \E t \in Elems(todo') : t.op = "answer" /\ t.conn = c
    <3>1. CASE \E t \in Elems(todo) : t.op = "answer" /\ t.conn = c
      BY <1>1, <3>1
    <3>2. CASE \E w \in Elems(waits) : w.conn = c
      <4>1. PICK w \in Elems(waits) : w.conn = c
        BY <3>2
      <4>2. CASE w.pane = p
        <5>1. Answer(w, "Gone") \in Elems(todo')
          BY <1>1, <4>2
        <5> QED BY <4>1, <5>1, TaskOps
      <4>3. CASE w.pane # p
        BY <1>1, <4>1, <4>3
      <4> QED BY <4>2, <4>3
    <3> QED BY <2>4, <3>1, <3>2 DEF MessagesInv, Turns
  <2> QED BY <1>1, <1>5, <2>1, <2>2, <2>3, <2>4 DEF Turns
<1> QED BY <1>7, <1>9 DEF MessagesInv

(* The program of a pane ends.                                              *)
LEMMA DiesStep == ASSUME MessagesInv, NEW p \in Panes, Dies(p) PROVE MessagesInv'
<1>1. /\ todo = <<>> /\ proc[p] = "Live" /\ proc' = [proc EXCEPT ![p] = "Dead"]
      /\ \E rest \in {<<>>, <<Delete(<<p>>)>>} : Ended(p, TRUE, rest)
      /\ UNCHANGED <<listed, phase, role, input, shown, verdicts, reply>>
  BY DEF Dies
<1>2. Delete(<<p>>) \in Tasks /\ Delete(<<p>>).op = "delete"
  <2>1. <<p>> \in Seq(Panes)
    OBVIOUS
  <2> QED BY <2>1, TasksMade, TaskOps
<1>3. PICK rest \in {<<>>, <<Delete(<<p>>)>>} : Ended(p, TRUE, rest)
  BY <1>1
<1>4. /\ rest \in Seq(Tasks) /\ AnswersApart(rest) /\ ReapLast(rest)
      /\ \A t \in Elems(rest) : t.op = "delete"
  <2> DEFINE d == Delete(<<p>>)
  <2>1. d \in Tasks /\ d.op = "delete" /\ (rest = <<>> \/ rest = <<d>>)
    BY <1>2, <1>3
  <2> HIDE DEF d
  <2>2. CASE rest = <<>>
    BY <2>2, NoTask
  <2>3. CASE rest = <<d>>
    BY <2>1, <2>3, SoleTask
  <2> QED BY <2>1, <2>2, <2>3
<1>5. Elems(todo) = {}
  BY <1>1, NoTask
<1>6. proc \in [Panes -> {"Live", "Dead", "Gone"}]
  BY DEF MessagesInv, Types
<1>7. /\ proc' \in [Panes -> {"Live", "Dead", "Gone"}]
      /\ \A r \in Panes : proc'[r] = "Gone" <=> proc[r] = "Gone"
  BY <1>1, <1>6
<1> QED BY <1>1, <1>3, <1>4, <1>5, <1>7, EndedStep

(* A pane that is removed is stopped first.                                 *)
LEMMA StopPaneStep == ASSUME MessagesInv, StopPane PROVE MessagesInv'
<1> DEFINE p == Now.pane
           tell == TellsParent(p)
           rest == <<Drop(p)>> \o Rest
<1>1. /\ todo # <<>> /\ Now.op = "stop" /\ Ended(p, tell, rest)
      /\ UNCHANGED <<proc, listed, phase, role, input, shown, verdicts, reply>>
  BY DEF StopPane, Doing, Now
<1>2. Now \in Tasks /\ Rest \in Seq(Tasks) /\ AnswersApart(Rest) /\ ReapLast(Rest)
      /\ Elems(todo) = {Now} \union Elems(Rest)
  BY <1>1, NowIs
<1>3. /\ \A q \in Panes : Now # Flush(q)
      /\ \A c \in Conns : Now # Finish(c)
  BY <1>1, TaskOps
<1> HIDE DEF Now, Rest
<1>4. p \in Panes
  BY <1>1, <1>2, TasksAre
<1>5. p \notin listed
  BY <1>1, <1>2 DEF MessagesInv, Turns
<1>6. tell \in BOOLEAN
  BY DEF TellsParent
<1> HIDE DEF p, tell
<1>7. Drop(p) \in Tasks /\ Drop(p).op = "remove" /\ Drop(p).pane = p
  BY <1>4, TasksMade, TaskOps
<1>8. /\ rest \in Seq(Tasks) /\ AnswersApart(rest) /\ ReapLast(rest)
      /\ Elems(rest) = {Drop(p)} \union Elems(Rest)
  BY <1>2, <1>7, SoleTask, PushIs
<1> HIDE DEF rest
<1>9. \A t \in Elems(rest) : t.op \in {"stop", "remove"} => t.pane \notin listed
  BY <1>2, <1>5, <1>7, <1>8 DEF MessagesInv, Turns
<1>10. /\ \A t \in Elems(rest) : t.op = "answer" => t \in Elems(todo)
       /\ \A t \in Elems(todo) : t.op = "answer" => t \in Elems(rest)
       /\ \A q \in Panes : Flush(q) \in Elems(todo) => Flush(q) \in Elems(rest)
       /\ \A c \in Conns : Finish(c) \in Elems(todo) => Finish(c) \in Elems(rest)
  BY <1>1, <1>2, <1>3, <1>7, <1>8
<1>11. proc' \in [Panes -> {"Live", "Dead", "Gone"}]
  BY <1>1 DEF MessagesInv, Types
<1> QED BY <1>1, <1>4, <1>6, <1>8, <1>9, <1>10, <1>11, EndedStep

(* A sender starts to wait and has no other wait.                           *)
LEMMA WaitsAppend ==
  ASSUME NEW s \in Seq(Waits), NEW w \in Waits, WaitsApart(s), \A v \in Elems(s) : v.conn # w.conn
  PROVE  Append(s, w) \in Seq(Waits) /\ WaitsApart(Append(s, w)) /\ Elems(Append(s, w)) = Elems(s) \union {w}
<1> DEFINE r == Append(s, w)
<1>1. /\ r \in Seq(Waits) /\ Elems(r) = Elems(s) \union {w}
      /\ Len(r) = Len(s) + 1 /\ r[Len(s) + 1] = w
      /\ \A k \in 1 .. Len(s) : r[k] = s[k]
  BY ElemsAppend
<1>2. Len(s) \in Nat /\ \A k \in 1 .. Len(s) : s[k].conn # w.conn
  BY DEF Elems
<1> HIDE DEF r
<1>3. \A k \in 1 .. Len(r) : k \in 1 .. Len(s) \/ k = Len(s) + 1
  BY <1>1, <1>2
<1>4. WaitsApart(r)
  BY <1>1, <1>2, <1>3 DEF WaitsApart
<1> QED BY <1>1, <1>4 DEF r

(* post_message: a new message, a repeated one, or a refusal; the sender    *)
(* gets its answer or waits.                                                *)
LEMMA PostMessageStep == ASSUME MessagesInv, NEW c \in Conns, PostMessage(c) PROVE MessagesInv'
<1> DEFINE p == Head(input[c]).pane
           id == Head(input[c]).id
           kind == Admission(inbox[p], id)
           box == IF kind = "New" THEN Enqueued(p, id) ELSE inbox[p]
           status == Status(box, id)
<1>1. /\ Serving(c) /\ Head(input[c]).op = "post"
      /\ input' = [input EXCEPT ![c] = Tail(@)]
      /\ UNCHANGED <<proc, listed, role, todo, shown, verdicts>>
      /\ \/ /\ proc[p] # "Live" /\ Replied(c, p, id, 0, "Gone")
            /\ UNCHANGED <<inbox, phase, out, waits, sent>>
         \/ /\ kind = "Full" /\ Replied(c, p, id, 0, "Full")
            /\ UNCHANGED <<inbox, phase, out, waits, sent>>
         \/ /\ proc[p] = "Live" /\ kind # "Full"
            /\ inbox' = [inbox EXCEPT ![p] = box]
            /\ IF kind = "New" THEN Write(Admitted(inbox[p], id)) ELSE UNCHANGED <<out, sent>>
            /\ IF status = "Delivered"
               THEN /\ phase' = [phase EXCEPT ![c] = "Handling"]
                    /\ waits' = Append(waits, [conn |-> c, pane |-> p, id |-> id,
                                               seq |-> box.known[id].seq])
                    /\ UNCHANGED reply
               ELSE /\ Replied(c, p, id, box.known[id].seq, status)
                    /\ UNCHANGED <<phase, waits>>
  BY DEF PostMessage
<1>2. /\ Head(input[c]) \in Requests /\ Tail(input[c]) \in Seq(Requests) /\ phase[c] = "Head"
  BY <1>1, ServingIs
<1>3. p \in Panes /\ id \in Ids
  BY <1>1, <1>2, RequestsAre
<1>4. /\ inbox = [r \in Panes |-> inbox[r]] /\ BoxInv(inbox[p])
      /\ waits \in Seq(Waits) /\ todo \in Seq(Tasks) /\ listed \subseteq Panes
      /\ input \in [Conns -> Seq(Requests)]
      /\ phase \in [Conns -> {"Head", "Handling", "Stream", "Closed"}]
      /\ proc \in [Panes -> {"Live", "Dead", "Gone"}] /\ shown \in [Panes -> BOOLEAN]
      /\ out \in [Conns -> {"Open", "Draining", "Shut"}]
  BY <1>3 DEF MessagesInv, Types
<1>5. input' \in [Conns -> Seq(Requests)]
  BY <1>1, <1>2, <1>4
<1>6. /\ AnswersApart(todo) /\ ReapLast(todo) /\ WaitsApart(waits)
      /\ \A t \in Elems(todo) : t.op \in {"stop", "remove"} => t.pane \notin listed
      /\ \A w \in Elems(waits) : phase[w.conn] = "Handling"
      /\ \A t \in Elems(todo) : t.op = "answer" => phase[t.conn] = "Handling"
  BY DEF MessagesInv, Turns
<1>7. kind \in {"Repeat", "Full", "New"} /\ (kind = "Repeat" => inbox[p].known[id] # Unknown)
  BY DEF Admission
<1> HIDE DEF p, id, kind
<1>8. ASSUME UNCHANGED <<inbox, phase, out, waits, sent>>,
             Replied(c, p, id, 0, "Gone") \/ Replied(c, p, id, 0, "Full")
      PROVE  MessagesInv'
  <2>1. TrueTo(reply)' /\ reply'.state \in States \union {None}
    BY <1>8 DEF Replied, TrueTo, States, Outcomes
  <2>2. Turns'
    BY <1>1, <1>4, <1>6, <1>8, <2>1, QuietTurns
  <2>3. Types' /\ Streams' /\ Settlements'
    BY <1>1, <1>4, <1>5, <1>8, <2>1, QuietQueues
  <2> QED BY <2>2, <2>3 DEF MessagesInv
<1>9. ASSUME proc[p] = "Live", kind # "Full", inbox' = [inbox EXCEPT ![p] = box],
             IF kind = "New" THEN Write(Admitted(inbox[p], id)) ELSE UNCHANGED <<out, sent>>,
             IF status = "Delivered"
             THEN /\ phase' = [phase EXCEPT ![c] = "Handling"]
                  /\ waits' = Append(waits, [conn |-> c, pane |-> p, id |-> id,
                                             seq |-> box.known[id].seq])
                  /\ UNCHANGED reply
             ELSE /\ Replied(c, p, id, box.known[id].seq, status)
                  /\ UNCHANGED <<phase, waits>>
      PROVE  MessagesInv'
  <2> HIDE DEF box
  <2>1. /\ inbox' = [r \in Panes |-> inbox'[r]] /\ inbox'[p] = box
        /\ \A r \in Panes : r # p => inbox'[r] = inbox[r]
    BY <1>3, <1>4, <1>9
  <2>2. Outputs /\ (\A r \in Panes : Steady(r)) /\ box.known[id] # Unknown
    <3>1. CASE kind = "New"
      <4>1. Admission(inbox[p], id) = "New"
        BY <3>1 DEF kind
      <4>2. inbox'[p] = Enqueued(p, id) /\ Write(Admitted(inbox[p], id))
        BY <1>9, <2>1, <3>1 DEF box
      <4>3. Outputs /\ Steady(p) /\ \A r \in Panes : r # p /\ inbox'[r] = inbox[r] => Steady(r)
        BY <1>3, <1>9, <4>1, <4>2, EnqueuedSteady DEF Outputs
      <4>4. Enqueued(p, id).known[id] # Unknown
        BY <1>3, <1>4, <4>1, EnqueuedGrows
      <4> QED BY <2>1, <4>2, <4>3, <4>4
    <3>2. CASE kind # "New"
      <4>1. box = inbox[p] /\ out' = out /\ sent' = sent /\ inbox[p].known[id] # Unknown
        BY <1>7, <1>9, <3>2 DEF box
      <4>2. \A r \in Panes : Steady(r)
        BY <2>1, <4>1, SteadyOne
      <4> QED BY <4>1, <4>2, OutputsQuiet
    <3> QED BY <3>1, <3>2
  <2>3. BoxInv(box)
    BY <1>3, <2>1, <2>2 DEF Steady
  <2>4. /\ status \in Outcomes \union {"Delivered", "Queued"} /\ box.known[id].seq \in Nat
        /\ status \in Outcomes => box.known[id].is = status
        /\ status = "Delivered" => Holds(box, id, box.known[id].seq)
    BY <1>3, <2>2, <2>3, StatusIs
  <2> HIDE DEF status
  <2>5. \A w \in Elems(waits) : Holds(inbox[w.pane], w.id, w.seq) => Holds(inbox'[w.pane], w.id, w.seq)
    <3>1. \A w \in Elems(waits) : w.pane \in Panes /\ w.id \in Ids /\ w.seq \in Nat
      BY WaitsAre
    <3> QED BY <2>2, <3>1 DEF Steady, Grows
  <2>6. /\ \A r \in Panes : proc'[r] = "Gone" => (Steady(r) /\ proc[r] = "Gone") \/ inbox'[r] = Empty
        /\ \A r \in Panes : Steady(r) \/ Ends(r)
    BY <1>1, <2>2
  <2>7. CASE status = "Delivered"
    <3> DEFINE w == [conn |-> c, pane |-> p, id |-> id, seq |-> box.known[id].seq]
    <3>1. phase' = [phase EXCEPT ![c] = "Handling"] /\ waits' = Append(waits, w) /\ reply' = reply
      BY <1>9, <2>7
    <3>2. /\ w \in Waits /\ w.conn = c /\ w.pane = p /\ w.id = id /\ w.seq = box.known[id].seq
      BY <1>3, <2>4 DEF Waits
    <3> HIDE DEF w
    <3>3. /\ waits' \in Seq(Waits) /\ WaitsApart(waits') /\ Elems(waits') = Elems(waits) \union {w}
      <4>1. \A v \in Elems(waits) : v.conn # w.conn
        BY <1>2, <1>6, <3>2
      <4> QED BY <1>4, <1>6, <3>1, <3>2, <4>1, WaitsAppend
    <3>4. /\ phase' \in [Conns -> {"Head", "Handling", "Stream", "Closed"}]
          /\ \A d \in Conns : phase'[d] = "Stream" <=> phase[d] = "Stream"
          /\ \A d \in Conns : phase'[d] = "Handling" <=> (phase[d] = "Handling" \/ d = c)
      BY <1>2, <1>4, <3>1
    <3>5. TrueTo(reply)' /\ reply'.state \in States \union {None}
      BY <1>1, <3>1, ReplyIs DEF TrueTo
    <3>6. Types' /\ Streams' /\ Settlements'
      <4> HIDE DEF Outputs
      <4> QED BY <1>1, <1>4, <1>5, <2>1, <2>2, <2>6, <3>3, <3>4, <3>5, QueuesStep
    <3>7. Turns'
      <4>1. \A t \in Elems(todo) : t.op = "answer" => t.conn \in Conns
        BY <1>4, ToSetIs, TasksAre
      <4>2. \A t \in Elems(todo) : t.op = "answer" => phase'[t.conn] = "Handling" /\ TrueTo(t)'
        BY <1>1, <3>4, <4>1 DEF MessagesInv, Turns, TrueTo
      <4>3. ASSUME NEW v \in Elems(waits')
            PROVE  /\ phase'[v.conn] = "Handling"
                   /\ proc[v.pane] # "Gone" => Holds(inbox'[v.pane], v.id, v.seq)
                   /\ \A t \in Elems(todo) : t.op = "answer" => t.conn # v.conn
        <5>1. CASE v = w
          BY <1>2, <1>6, <2>1, <2>4, <2>7, <3>2, <3>4, <5>1
        <5>2. CASE v \in Elems(waits)
          <6>1. v.conn \in Conns
            BY <5>2, WaitsAre
          <6> QED BY <2>5, <3>4, <5>2, <6>1 DEF MessagesInv, Turns
        <5> QED BY <3>3, <5>1, <5>2
      <4>4. ASSUME NEW d \in Conns, phase'[d] = "Handling"
            PROVE  \/ \E v \in Elems(waits') : v.conn = d
                   \/ \E t \in Elems(todo) : t.op = "answer" /\ t.conn = d
        BY <3>2, <3>3, <3>4, <4>4 DEF MessagesInv, Turns
      <4> QED BY <1>1, <1>6, <3>3, <3>5, <4>2, <4>3, <4>4 DEF Turns
    <3> QED BY <3>6, <3>7 DEF MessagesInv
  <2>8. CASE status # "Delivered"
    <3>1. Replied(c, p, id, box.known[id].seq, status) /\ phase' = phase /\ waits' = waits
      BY <1>9, <2>8
    <3>2. reply'.state \in States \union {None}
      BY <2>4, <3>1 DEF Replied, States
    <3>3. Types' /\ Streams' /\ Settlements'
      <4> HIDE DEF Outputs
      <4> QED BY <1>1, <1>4, <1>5, <2>1, <2>2, <2>6, <3>1, <3>2, QueuesStep
    <3>4. TrueTo(reply)'
      <4>1. status \in Outcomes => Verdict(p, id, box.known[id]) \in verdicts
        BY <1>1, <1>3, <2>1, <2>4, <3>3 DEF Settlements
      <4> QED BY <1>1, <2>4, <3>1, <4>1 DEF TrueTo, Replied, Verdict
    <3>5. Turns'
      BY <1>1, <1>4, <1>6, <2>5, <3>1, <3>4, QuietTurns
    <3> QED BY <3>3, <3>5 DEF MessagesInv
  <2> QED BY <2>7, <2>8
<1> HIDE DEF box, status
<1> QED BY <1>1, <1>8, <1>9

(* A stream opens on a live pane without one and gets what the window lets  *)
(* through.                                                                 *)
LEMMA MessagesStep == ASSUME MessagesInv, NEW c \in Conns, Messages(c) PROVE MessagesInv'
<1> DEFINE p == Head(input[c]).pane
           box == Opened(inbox[p], c)
<1>1. /\ Serving(c) /\ Head(input[c]).op = "open"
      /\ input' = [input EXCEPT ![c] = Tail(@)]
      /\ IF AdmitsStream(p)
         THEN /\ inbox' = [inbox EXCEPT ![p] = Pumped(box)]
              /\ phase' = [phase EXCEPT ![c] = "Stream"]
              /\ role' = [role EXCEPT ![c] = p]
              /\ shown' = [shown EXCEPT ![p] = TRUE]
              /\ Write(box)
         ELSE UNCHANGED <<inbox, phase, out, role, shown, sent>>
      /\ UNCHANGED <<proc, listed, waits, todo, verdicts, reply>>
  BY DEF Messages
<1>2. Head(input[c]) \in Requests /\ Tail(input[c]) \in Seq(Requests) /\ phase[c] = "Head"
  BY <1>1, ServingIs
<1>3. p \in Panes
  BY <1>1, <1>2, RequestsAre
<1> HIDE DEF p
<1>4. /\ inbox = [r \in Panes |-> inbox[r]] /\ BoxInv(inbox[p])
      /\ waits \in Seq(Waits) /\ todo \in Seq(Tasks) /\ listed \subseteq Panes
      /\ input \in [Conns -> Seq(Requests)] /\ role \in [Conns -> Panes \union {None}]
      /\ phase \in [Conns -> {"Head", "Handling", "Stream", "Closed"}]
      /\ proc \in [Panes -> {"Live", "Dead", "Gone"}] /\ shown \in [Panes -> BOOLEAN]
      /\ out \in [Conns -> {"Open", "Draining", "Shut"}] /\ sent \in [Conns -> Seq(Nat)]
  BY <1>3 DEF MessagesInv, Types
<1>5. input' \in [Conns -> Seq(Requests)]
  BY <1>1, <1>2, <1>4
<1>6. /\ AnswersApart(todo) /\ ReapLast(todo)
      /\ \A t \in Elems(todo) : t.op \in {"stop", "remove"} => t.pane \notin listed
  BY DEF MessagesInv, Turns
<1>7. TrueTo(reply)' /\ reply'.state \in States \union {None}
  BY <1>1, ReplyIs DEF TrueTo
<1>8. CASE ~AdmitsStream(p)
  <2>1. Turns'
    BY <1>1, <1>4, <1>6, <1>7, <1>8, QuietTurns
  <2>2. Types' /\ Streams' /\ Settlements'
    BY <1>1, <1>4, <1>5, <1>7, <1>8, QuietQueues
  <2> QED BY <2>1, <2>2 DEF MessagesInv
<1>9. CASE AdmitsStream(p)
  <2>1. inbox[p].stream = None /\ proc[p] = "Live" /\ c # None
    BY <1>9, NoneIs DEF AdmitsStream
  <2>2. /\ BoxInv(box) /\ box.stream = c
        /\ BoxInv(Pumped(box)) /\ Pumped(box).stream = c /\ Full(Pumped(box))
        /\ Grows(inbox[p], Pumped(box))
        /\ \A k \in 1 .. Len(box.fifo) : box.fifo[k].place # "Out"
    <3>1. /\ BoxInv(box) /\ box.stream = c /\ box.fifo = inbox[p].fifo
          /\ \A k \in 1 .. Len(inbox[p].fifo) : inbox[p].fifo[k].place # "Out"
      BY <1>4, <2>1, OpenedInv
    <3>2. /\ BoxInv(Pumped(box)) /\ Pumped(box).stream = c /\ Full(Pumped(box))
          /\ Grows(inbox[p], Pumped(box))
      BY <1>4, <2>1, OpenedGrows
    <3> HIDE DEF box
    <3> QED BY <3>1, <3>2
  <2> HIDE DEF box
  <2>3. /\ inbox' = [r \in Panes |-> inbox'[r]] /\ inbox'[p] = Pumped(box)
        /\ \A r \in Panes : r # p => inbox'[r] = inbox[r]
    BY <1>1, <1>3, <1>4, <1>9
  <2>4. /\ phase' \in [Conns -> {"Head", "Handling", "Stream", "Closed"}] /\ phase'[c] = "Stream"
        /\ \A d \in Conns : d # c => phase'[d] = phase[d]
    BY <1>1, <1>4, <1>9
  <2>5. /\ role' \in [Conns -> Panes \union {None}] /\ role'[c] = p
        /\ \A d \in Conns : d # c => role'[d] = role[d]
    BY <1>1, <1>3, <1>4, <1>9
  <2>6. shown' \in [Panes -> BOOLEAN]
    BY <1>1, <1>3, <1>4, <1>9
  <2>7. Rising(sent[c]) /\ SentOK(box, sent[c], out[c])
    <3>1. Rising(sent[c]) /\ sent[c] = <<>>
      BY <1>2 DEF MessagesInv, Streams
    <3> QED BY <2>2, <3>1, NoTask DEF SentOK
  <2>8. /\ sent' \in [Conns -> Seq(Nat)] /\ out' \in [Conns -> {"Open", "Draining", "Shut"}]
        /\ \A d \in Conns : d # c => sent'[d] = sent[d] /\ out'[d] = out[d]
        /\ Rising(sent'[c]) /\ SentOK(Pumped(box), sent'[c], out'[c])
    <3>1. Write(box)
      BY <1>1, <1>9
    <3> QED BY <1>4, <2>1, <2>2, <2>7, <3>1, WriteIs
  <2>9. \A r \in Panes : inbox[r].stream # None => inbox[r].stream \in Conns /\ inbox[r].stream # c
    BY <1>2 DEF MessagesInv, Types, Streams
  <2>10. Types'
    <3>1. \A r \in Panes : BoxInv(inbox'[r]) /\ inbox'[r].stream \in Conns \union {None}
      BY <2>2, <2>3, ZenonT(40) DEF MessagesInv, Types
    <3>2. \A d \in Conns : role'[d] # None <=> phase'[d] = "Stream"
      <4>1. p # None
        BY <1>3, NoneIs
      <4>2. \A d \in Conns : role[d] # None <=> phase[d] = "Stream"
        BY DEF MessagesInv, Types
      <4> QED BY <2>4, <2>5, <4>1, <4>2
    <3> QED BY <1>1, <1>4, <1>5, <1>7, <2>3, <2>4, <2>5, <2>6, <2>8, <3>1, <3>2 DEF MessagesInv, Types
  <2>11. Turns'
    <3>1. \A w \in Elems(waits) : w.pane \in Panes /\ w.id \in Ids /\ w.seq \in Nat
      BY WaitsAre
    <3>2. \A w \in Elems(waits) : Holds(inbox[w.pane], w.id, w.seq) => Holds(inbox'[w.pane], w.id, w.seq)
      BY <2>2, <2>3, <3>1 DEF Grows
    <3>3. \A d \in Conns : phase'[d] = "Handling" <=> phase[d] = "Handling"
      BY <1>2, <2>4
    <3> QED BY <1>1, <1>4, <1>6, <1>7, <3>2, <3>3, QuietTurns
  <2>12. Settlements'
    <3> SUFFICES ASSUME NEW r \in Panes, NEW i \in Ids, inbox'[r].known[i].is \in Outcomes
                 PROVE  Verdict(r, i, inbox'[r].known[i]) \in verdicts
      BY <1>1 DEF Settlements
    <3>1. inbox'[r].known[i] = inbox[r].known[i]
      BY <2>2, <2>3 DEF Grows
    <3> QED BY <3>1 DEF MessagesInv, Settlements
  <2>13. Streams'
    <3>1. ASSUME NEW r \in Panes, inbox'[r].stream # None
          PROVE  /\ phase'[inbox'[r].stream] = "Stream" /\ role'[inbox'[r].stream] = r
                 /\ SentOK(inbox'[r], sent'[inbox'[r].stream], out'[inbox'[r].stream])
                 /\ Full(inbox'[r]) \/ Flush(r) \in Elems(todo')
      <4>1. CASE r = p
        BY <2>2, <2>3, <2>4, <2>5, <2>8, <4>1
      <4>2. CASE r # p
        <5>1. inbox'[r] = inbox[r] /\ inbox[r].stream # None
          BY <2>3, <3>1, <4>2
        <5>2. /\ phase[inbox[r].stream] = "Stream" /\ role[inbox[r].stream] = r
              /\ SentOK(inbox[r], sent[inbox[r].stream], out[inbox[r].stream])
              /\ Full(inbox[r]) \/ Flush(r) \in Elems(todo)
          BY <5>1 DEF MessagesInv, Streams
        <5>3. LET d == inbox[r].stream
              IN  phase'[d] = phase[d] /\ role'[d] = role[d] /\ sent'[d] = sent[d] /\ out'[d] = out[d]
          BY <2>4, <2>5, <2>8, <2>9, <5>1
        <5> QED BY <1>1, <5>1, <5>2, <5>3
      <4> QED BY <4>1, <4>2
    <3>2. \A r \in Panes : proc'[r] = "Gone" => inbox'[r] = Empty
      BY <1>1, <2>1, <2>3 DEF MessagesInv, Streams
    <3>3. \A d \in Conns : Rising(sent'[d]) /\ (phase'[d] # "Stream" => sent'[d] = <<>>)
      BY <2>4, <2>8 DEF MessagesInv, Streams
    <3>4. ASSUME NEW d \in Conns, phase'[d] = "Stream", out'[d] = "Open"
          PROVE  \/ inbox'[role'[d]].stream = d
                 \/ Finish(d) \in Elems(todo')
                 \/ proc'[role'[d]] = "Gone"
      <4>1. CASE d = c
        BY <2>2, <2>3, <2>5, <4>1
      <4>2. CASE d # c
        <5>1. phase[d] = "Stream" /\ out[d] = "Open" /\ role'[d] = role[d] /\ role[d] \in Panes
          BY <2>4, <2>5, <2>8, <3>4, <4>2 DEF MessagesInv, Types
        <5>2. \/ inbox[role[d]].stream = d
              \/ Finish(d) \in Elems(todo)
              \/ proc[role[d]] = "Gone"
          BY <5>1 DEF MessagesInv, Streams
        <5>3. inbox[role[d]].stream = d => role[d] # p
          BY <2>1, NoneIs
        <5> QED BY <1>1, <2>3, <5>1, <5>2, <5>3
      <4> QED BY <4>1, <4>2
    <3> QED BY <3>1, <3>2, <3>3, <3>4 DEF Streams
  <2> QED BY <2>10, <2>11, <2>12, <2>13 DEF MessagesInv
<1> QED BY <1>8, <1>9

(* A receiver answers a message: all who wait for it are answered, and the  *)
(* window moves on in a flush that is left to do.                           *)
LEMMA SettleStep ==
  ASSUME MessagesInv, NEW c \in Conns, todo = <<>>, phase[c] = "Stream",
         NEW id \in Ids, NEW outcome \in Outcomes, Settle(c, id, outcome),
         UNCHANGED <<proc, listed, phase, out, role, input, shown, sent, reply>>
  PROVE  MessagesInv'
<1> DEFINE p == role[c]
           box == inbox[p]
           new == Settled(box, id, outcome)
           n == box.known[id].seq
           hit == {w \in ToSet(waits) : WaitsFor(w, p, id)}
           v == [pane |-> p, id |-> id, seq |-> n, is |-> outcome]
<1>1. /\ Settles(box, id) /\ inbox' = [inbox EXCEPT ![p] = new]
      /\ verdicts' = verdicts \union {v}
      /\ Release(hit, outcome, <<Flush(p)>>)
  BY DEF Settle
<1>2. /\ inbox = [r \in Panes |-> inbox[r]] /\ p \in Panes /\ BoxInv(box)
      /\ waits \in Seq(Waits) /\ listed \subseteq Panes /\ input \in [Conns -> Seq(Requests)]
      /\ phase \in [Conns -> {"Head", "Handling", "Stream", "Closed"}]
      /\ proc \in [Panes -> {"Live", "Dead", "Gone"}] /\ shown \in [Panes -> BOOLEAN]
      /\ out \in [Conns -> {"Open", "Draining", "Shut"}] /\ sent \in [Conns -> Seq(Nat)]
  BY DEF MessagesInv, Types
<1> HIDE DEF p, box
<1>3. /\ BoxInv(new) /\ new.stream = box.stream /\ new.last = box.last
      /\ \A i \in Ids \ {id}, m \in Nat : Holds(box, i, m) => Holds(new, i, m)
      /\ \A i \in Ids \ {id} : new.known[i].is \in Outcomes => new.known[i] = box.known[i]
      /\ new.known[id] = [is |-> outcome, seq |-> n]
      /\ \A k \in 1 .. Len(new.fifo) : \E j \in 1 .. Len(box.fifo) : new.fifo[k] = box.fifo[j]
  <2> HIDE DEF new, n
  <2>1. Settles(box, id) /\ BoxInv(box)
    BY <1>1, <1>2
  <2> QED BY <2>1, SettledShrinks DEF new, n
<1>4. proc[p] # "Gone"
  <2> SUFFICES ASSUME box = Empty PROVE FALSE
    BY <1>2 DEF MessagesInv, Streams, box
  <2>1. Empty.known[id] = Unknown
    BY DEF Empty
  <2> QED BY <1>1, <2>1 DEF Settles, Unknown
<1>5. hit \in SUBSET Elems(waits) /\ hit = {w \in Elems(waits) : w.pane = p /\ w.id = id}
  BY <1>2, ToSetIs DEF WaitsFor
<1> HIDE DEF new, n, hit
<1>6. /\ inbox' = [r \in Panes |-> inbox'[r]] /\ inbox'[p] = new
      /\ \A r \in Panes : r # p => inbox'[r] = inbox[r]
  BY <1>1, <1>2
<1>7. Flush(p) \in Tasks /\ Flush(p).op = "flush"
  BY <1>2, TasksMade, TaskOps
<1>8. /\ waits' \in Seq(Waits) /\ WaitsApart(waits') /\ Elems(waits') = Elems(waits) \ hit
      /\ todo' \in Seq(Tasks) /\ AnswersApart(todo') /\ ReapLast(todo')
      /\ Elems(todo') = {Answer(w, outcome) : w \in hit} \union {Flush(p)}
  <2> DEFINE rest == <<Flush(p)>>
  <2>1. /\ rest \in Seq(Tasks) /\ AnswersApart(rest) /\ ReapLast(rest)
        /\ Elems(rest) = {Flush(p)}
    BY <1>7, SoleTask
  <2>2. outcome \in States /\ Release(hit, outcome, rest)
    BY <1>1 DEF States
  <2> HIDE DEF rest
  <2>3. \A t \in Elems(rest) : t.op = "answer" => t \in Elems(todo)
    BY <1>7, <2>1
  <2>4. /\ waits' \in Seq(Waits) /\ WaitsApart(waits') /\ Elems(waits') = Elems(waits) \ hit
        /\ todo' \in Seq(Tasks) /\ AnswersApart(todo') /\ ReapLast(todo')
        /\ Elems(todo') = {Answer(w, outcome) : w \in hit} \union Elems(rest)
    BY <1>5, <2>1, <2>2, <2>3, ReleaseIs, ZenonT(40)
  <2> QED BY <2>1, <2>4
<1>9. Elems(todo) = {}
  BY NoTask
<1>10. v \in verdicts' /\ verdicts \subseteq verdicts' /\ v.is \in Outcomes
       /\ v = [pane |-> p, id |-> id, seq |-> n, is |-> outcome]
  BY <1>1
<1>11. \A x \in verdicts' : x.is \in Outcomes
  BY <1>1 DEF MessagesInv, Types
<1> HIDE DEF v
<1>12. TrueTo(reply)' /\ reply'.state \in States \union {None}
  BY <1>10, ReplyIs DEF TrueTo
<1>13. \A w \in hit : /\ w \in Elems(waits) /\ w.pane = p /\ w.id = id /\ w.seq = n
                      /\ phase[w.conn] = "Handling"
  <2> SUFFICES ASSUME NEW w \in hit
               PROVE  /\ w \in Elems(waits) /\ w.pane = p /\ w.id = id /\ w.seq = n
                      /\ phase[w.conn] = "Handling"
    OBVIOUS
  <2>1. w \in Elems(waits) /\ w.pane = p /\ w.id = id
    BY <1>5
  <2>2. phase[w.conn] = "Handling" /\ Holds(inbox[p], id, w.seq)
    BY <1>4, <2>1 DEF MessagesInv, Turns
  <2>3. w.seq = inbox[p].known[id].seq
    BY <2>2 DEF Holds
  <2> QED BY <2>1, <2>2, <2>3 DEF n, box
<1>14. \A t \in Elems(todo') :
         \/ t = Flush(p)
         \/ \E w \in hit : /\ t.op = "answer" /\ t.conn = w.conn /\ t.pane = w.pane /\ t.id = w.id
                           /\ t.seq = w.seq /\ t.state = outcome
  BY <1>8, TaskOps
<1>15. Turns'
  <2>1. \A t \in Elems(todo') : t.op = "answer" => phase[t.conn] = "Handling" /\ TrueTo(t)'
    BY <1>7, <1>10, <1>13, <1>14 DEF TrueTo
  <2>2. \A t \in Elems(todo') : t.op \in {"stop", "remove"} => t.pane \notin listed
    BY <1>7, <1>14
  <2>3. ASSUME NEW w \in Elems(waits')
        PROVE  /\ phase[w.conn] = "Handling"
               /\ proc[w.pane] # "Gone" => Holds(inbox'[w.pane], w.id, w.seq)
               /\ \A t \in Elems(todo') : t.op = "answer" => t.conn # w.conn
    <3>1. /\ w \in Elems(waits) /\ w \notin hit
          /\ w.pane \in Panes /\ w.id \in Ids /\ w.seq \in Nat
      BY <1>8, WaitsAre
    <3>2. proc[w.pane] # "Gone" => Holds(inbox[w.pane], w.id, w.seq)
      BY <3>1 DEF MessagesInv, Turns
    <3>3. w.pane = p => w.id # id
      BY <1>5, <3>1
    <3>4. proc[w.pane] # "Gone" => Holds(inbox'[w.pane], w.id, w.seq)
      <4>1. CASE w.pane = p
        BY <1>3, <1>6, <3>1, <3>2, <3>3, <4>1 DEF box
      <4>2. CASE w.pane # p
        BY <1>6, <3>1, <3>2, <4>2
      <4> QED BY <4>1, <4>2
    <3>5. \A u \in Elems(waits) : u.conn = w.conn => u = w
      BY <3>1 DEF MessagesInv, Turns, WaitsApart, Elems
    <3>6. \A t \in Elems(todo') : t.op = "answer" => t.conn # w.conn
      BY <1>7, <1>13, <1>14, <3>1, <3>5
    <3> QED BY <3>1, <3>4, <3>6 DEF MessagesInv, Turns
  <2>4. ASSUME NEW d \in Conns, phase[d] = "Handling"
        PROVE  \/ \E w \in Elems(waits') : w.conn = d
               \/ \E t \in Elems(todo') : t.op = "answer" /\ t.conn = d
    <3>1. PICK w \in Elems(waits) : w.conn = d
      BY <1>9, <2>4 DEF MessagesInv, Turns
    <3>2. CASE w \in hit
      <4>1. Answer(w, outcome) \in Elems(todo')
        BY <1>8, <3>2
      <4> QED BY <3>1, <4>1, TaskOps
    <3>3. CASE w \notin hit
      BY <1>8, <3>1, <3>3
    <3> QED BY <3>2, <3>3
  <2> QED BY <1>8, <1>12, <2>1, <2>2, <2>3, <2>4 DEF Turns
<1>16. Types'
  <2>1. \A r \in Panes : BoxInv(inbox'[r]) /\ inbox'[r].stream \in Conns \union {None}
    BY <1>2, <1>3, <1>6 DEF MessagesInv, Types, box
  <2> QED BY <1>2, <1>6, <1>8, <1>11, <1>12, <2>1 DEF MessagesInv, Types
<1>17. Settlements'
  <2> SUFFICES ASSUME NEW r \in Panes, NEW i \in Ids, inbox'[r].known[i].is \in Outcomes
               PROVE  Verdict(r, i, inbox'[r].known[i]) \in verdicts'
    BY DEF Settlements
  <2>1. CASE r = p /\ i = id
    BY <1>3, <1>6, <1>10, <2>1 DEF Verdict
  <2>2. CASE ~(r = p /\ i = id)
    <3>1. inbox'[r].known[i] = inbox[r].known[i]
      BY <1>3, <1>6, <2>2 DEF box
    <3> QED BY <1>10, <3>1 DEF MessagesInv, Settlements
  <2> QED BY <2>1, <2>2
<1>18. Streams'
  <2>1. ASSUME NEW r \in Panes, inbox'[r].stream # None
        PROVE  /\ phase[inbox'[r].stream] = "Stream" /\ role[inbox'[r].stream] = r
               /\ SentOK(inbox'[r], sent[inbox'[r].stream], out[inbox'[r].stream])
               /\ Full(inbox'[r]) \/ Flush(r) \in Elems(todo')
    <3>1. inbox'[r].stream = inbox[r].stream
      BY <1>3, <1>6 DEF box
    <3>2. /\ phase[inbox[r].stream] = "Stream" /\ role[inbox[r].stream] = r
          /\ SentOK(inbox[r], sent[inbox[r].stream], out[inbox[r].stream])
          /\ Full(inbox[r])
      BY <1>9, <2>1, <3>1 DEF MessagesInv, Streams
    <3>3. CASE r = p
      <4>1. SentOK(new, sent[inbox[r].stream], out[inbox[r].stream])
        BY <1>3, <3>2, <3>3 DEF SentOK, box
      <4> QED BY <1>6, <1>8, <3>1, <3>2, <3>3, <4>1
    <3>4. CASE r # p
      BY <1>6, <3>2, <3>4
    <3> QED BY <3>3, <3>4
  <2>2. \A r \in Panes : proc[r] = "Gone" => inbox'[r] = Empty
    BY <1>4, <1>6 DEF MessagesInv, Streams
  <2>3. ASSUME NEW d \in Conns, phase[d] = "Stream", out[d] = "Open"
        PROVE  \/ inbox'[role[d]].stream = d
               \/ Finish(d) \in Elems(todo')
               \/ proc[role[d]] = "Gone"
    <3>1. role[d] \in Panes
      BY <2>3 DEF MessagesInv, Types
    <3>2. inbox[role[d]].stream = d \/ proc[role[d]] = "Gone"
      BY <1>9, <2>3 DEF MessagesInv, Streams
    <3> QED BY <1>3, <1>6, <3>1, <3>2 DEF box
  <2>4. \A d \in Conns : Rising(sent[d]) /\ (phase[d] # "Stream" => sent[d] = <<>>)
    BY DEF MessagesInv, Streams
  <2> QED BY <2>1, <2>2, <2>3, <2>4 DEF Streams
<1> QED BY <1>15, <1>16, <1>17, <1>18 DEF MessagesInv

(* The same as the handler of a text on a stream.                           *)
LEMMA StreamTextStep == ASSUME MessagesInv, NEW c \in Conns, StreamText(c) PROVE MessagesInv'
BY SettleStep DEF StreamText

(* A connection goes: its own wait is forgotten, and if it was the stream   *)
(* of a pane those who wait there are answered Queued.                      *)
LEMMA ReapConnStep == ASSUME MessagesInv, NEW c \in Conns, ReapConn(c) PROVE MessagesInv'
<1> DEFINE p == role[c]
           kept == Only(waits, {w \in ToSet(waits) : w.conn # c})
           hit == {w \in ToSet(kept) : Interrupts(c, w)}
           over == Only(kept, hit)
           answers == Answers(over, "Queued")
           left == Only(kept, ToSet(kept) \ hit)
           shows == IF IsStream(c) THEN <<Show(p, FALSE)>> ELSE <<>>
<1>1. /\ todo # <<>> /\ Now.op = "reap" /\ phase[c] # "Closed" /\ out[c] = "Shut"
      /\ phase' = [phase EXCEPT ![c] = "Closed"] /\ role' = [role EXCEPT ![c] = None]
      /\ input' = [input EXCEPT ![c] = <<>>] /\ sent' = [sent EXCEPT ![c] = <<>>]
      /\ waits' = left
      /\ inbox' = IF IsStream(c) THEN [inbox EXCEPT ![p] = Closed(@)] ELSE inbox
      /\ todo' = answers \o shows \o todo
      /\ UNCHANGED <<proc, listed, out, shown, verdicts, reply>>
  BY DEF ReapConn, Doing, Now, Answers
<1>2. /\ inbox = [r \in Panes |-> inbox[r]]
      /\ waits \in Seq(Waits) /\ todo \in Seq(Tasks) /\ listed \subseteq Panes
      /\ input \in [Conns -> Seq(Requests)] /\ role \in [Conns -> Panes \union {None}]
      /\ phase \in [Conns -> {"Head", "Handling", "Stream", "Closed"}]
      /\ proc \in [Panes -> {"Live", "Dead", "Gone"}] /\ shown \in [Panes -> BOOLEAN]
      /\ out \in [Conns -> {"Open", "Draining", "Shut"}] /\ sent \in [Conns -> Seq(Nat)]
      /\ \A d \in Conns : role[d] # None <=> phase[d] = "Stream"
  BY DEF MessagesInv, Types
<1>3. Elems(todo) = {Now} /\ \A t \in Elems(todo) : t.op = "reap"
  BY <1>1, NowIs, NoTask
<1>4. AnswersApart(todo) /\ ReapLast(todo) /\ WaitsApart(waits)
  BY DEF MessagesInv, Turns
<1>5. kept \in Seq(Waits) /\ WaitsApart(kept) /\ Elems(kept) = {w \in Elems(waits) : w.conn # c}
      /\ ToSet(kept) = Elems(kept)
  <2>1. ToSet(waits) = Elems(waits)
    BY <1>2, ToSetIs
  <2>2. kept \in Seq(Waits) /\ Elems(kept) = Elems(waits) \cap {w \in ToSet(waits) : w.conn # c}
    BY <1>2, ElemsOnly
  <2>3. WaitsApart(kept)
    BY <1>2, <1>4, OnlyApart
  <2> HIDE DEF kept
  <2> QED BY <2>1, <2>2, <2>3, ToSetIs
<1> HIDE DEF p
<1>6. IsStream(c) => /\ p \in Panes /\ phase[c] = "Stream" /\ inbox[p].stream = c
                     /\ proc[p] # "Gone" /\ c # None
  <2> SUFFICES ASSUME IsStream(c)
               PROVE  p \in Panes /\ phase[c] = "Stream" /\ inbox[p].stream = c
                      /\ proc[p] # "Gone" /\ c # None
    OBVIOUS
  <2>1. phase[c] = "Stream" /\ inbox[p].stream = c
    BY DEF IsStream, p
  <2>2. p \in Panes
    BY <1>2, <2>1 DEF p
  <2>3. Empty.stream = None /\ c # None
    BY NoneIs DEF Empty
  <2> QED BY <2>1, <2>2, <2>3 DEF MessagesInv, Streams
<1>7. hit \in SUBSET Elems(kept) /\ hit = {w \in Elems(kept) : IsStream(c) /\ w.pane = p}
  BY <1>5 DEF Interrupts, p
<1> HIDE DEF kept, hit
<1>8. /\ left \in Seq(Waits) /\ WaitsApart(left) /\ Elems(left) = Elems(kept) \ hit
      /\ answers \in Seq(Tasks) /\ AnswersApart(answers)
      /\ Elems(answers) = {Answer(w, "Queued") : w \in hit}
      /\ \A t \in Elems(answers) : t.op = "answer"
  <2>1. "Queued" \in States
    BY DEF States
  <2>2. kept \in Seq(Waits) /\ WaitsApart(kept) /\ hit \in SUBSET Elems(kept)
    BY <1>5, <1>7
  <2> QED BY <2>1, <2>2, AnswersAre, ZenonT(40)
<1> HIDE DEF over, answers, left
<1>9. shows \in Seq(Tasks) /\ \A t \in Elems(shows) : t.op = "show"
  <2> DEFINE s == Show(p, FALSE)
  <2>1. IsStream(c) => s \in Tasks /\ s.op = "show"
    <3>1. IsStream(c) => s \in Tasks
      BY <1>6, TasksMade
    <3>2. s.op = "show"
      BY DEF Show
    <3> HIDE DEF s
    <3> QED BY <3>1, <3>2
  <2>2. CASE IsStream(c)
    <3>1. shows = <<s>>
      BY <2>2
    <3> HIDE DEF s, shows
    <3>2. <<s>> \in Seq(Tasks) /\ Elems(<<s>>) = {s}
      BY <2>1, <2>2, SoleTask
    <3> QED BY <2>1, <2>2, <3>1, <3>2
  <2>3. CASE ~IsStream(c)
    BY <2>3, NoTask
  <2> QED BY <2>2, <2>3
<1> HIDE DEF shows
<1>10. /\ todo' \in Seq(Tasks) /\ AnswersApart(todo') /\ ReapLast(todo')
       /\ Elems(todo') = Elems(answers) \union Elems(shows) \union Elems(todo)
  <2> DEFINE first == answers \o shows
  <2>1. AnswersApart(shows)
    BY <1>9 DEF AnswersApart, Elems
  <2>2. first \in Seq(Tasks) /\ Elems(first) = Elems(answers) \union Elems(shows)
    BY <1>8, <1>9, ElemsConcat
  <2>3. AnswersApart(first)
    BY <1>8, <1>9, <2>1, ApartConcat
  <2> HIDE DEF first
  <2>4. todo' = first \o todo
    BY <1>1 DEF first
  <2>5. todo' \in Seq(Tasks) /\ Elems(todo') = Elems(first) \union Elems(todo)
    BY <1>2, <2>2, <2>4, ElemsConcat
  <2>6. AnswersApart(todo')
    BY <1>2, <1>3, <1>4, <2>2, <2>3, <2>4, ApartConcat
  <2>7. ReapLast(todo')
    BY <1>2, <1>4, <1>8, <1>9, <2>2, <2>4, ReapConcat
  <2> QED BY <2>2, <2>5, <2>6, <2>7
<1>11. /\ inbox' = [r \in Panes |-> inbox'[r]]
       /\ IsStream(c) => inbox'[p] = Closed(inbox[p])
       /\ \A r \in Panes : r # p \/ ~IsStream(c) => inbox'[r] = inbox[r]
  BY <1>1, <1>2, <1>6
<1>12. IsStream(c) => /\ BoxInv(inbox'[p]) /\ inbox'[p].stream = None
                      /\ inbox'[p].known = inbox[p].known
  <2> SUFFICES ASSUME IsStream(c)
               PROVE  BoxInv(inbox'[p]) /\ inbox'[p].stream = None /\ inbox'[p].known = inbox[p].known
    OBVIOUS
  <2>1. BoxInv(inbox[p])
    BY <1>6 DEF MessagesInv, Types
  <2> QED BY <1>11, <2>1, ClosedGrows
<1>13. /\ phase' \in [Conns -> {"Head", "Handling", "Stream", "Closed"}] /\ phase'[c] = "Closed"
       /\ role' \in [Conns -> Panes \union {None}] /\ role'[c] = None
       /\ sent' \in [Conns -> Seq(Nat)] /\ sent'[c] = <<>>
       /\ \A d \in Conns : d # c => phase'[d] = phase[d] /\ role'[d] = role[d] /\ sent'[d] = sent[d]
  BY <1>1, <1>2
<1>14. input' \in [Conns -> Seq(Requests)]
  BY <1>1, <1>2
<1>15. TrueTo(reply)' /\ reply'.state \in States \union {None}
  BY <1>1, ReplyIs DEF TrueTo
<1>16. \A t \in Elems(todo') : t.op \in {"answer", "stop", "remove"} =>
         \E w \in hit : t.op = "answer" /\ t.conn = w.conn /\ t.state = "Queued"
  BY <1>3, <1>8, <1>9, <1>10, TaskOps
<1>17. Types'
  <2>1. \A r \in Panes : BoxInv(inbox'[r]) /\ inbox'[r].stream \in Conns \union {None}
    BY <1>11, <1>12 DEF MessagesInv, Types
  <2>2. \A d \in Conns : role'[d] # None <=> phase'[d] = "Stream"
    BY <1>2, <1>13
  <2>3. \A v \in verdicts : v.is \in Outcomes
    BY DEF MessagesInv, Types
  <2> QED BY <1>1, <1>2, <1>8, <1>10, <1>11, <1>13, <1>14, <1>15, <2>1, <2>2, <2>3 DEF Types
<1>18. Turns'
  <2>1. \A w \in Elems(kept) : /\ w \in Elems(waits) /\ w.conn # c /\ w.conn \in Conns /\ w.pane \in Panes
                               /\ phase'[w.conn] = "Handling"
    <3>1. \A w \in Elems(kept) : w \in Elems(waits) /\ w.conn # c /\ w.conn \in Conns /\ w.pane \in Panes
      BY <1>5, WaitsAre
    <3> QED BY <1>13, <3>1 DEF MessagesInv, Turns
  <2>2. \A t \in Elems(todo') : t.op = "answer" => phase'[t.conn] = "Handling" /\ TrueTo(t)'
    BY <1>7, <1>16, <2>1 DEF TrueTo, Outcomes
  <2>3. \A t \in Elems(todo') : t.op \in {"stop", "remove"} => t.pane \notin listed'
    BY <1>16
  <2>4. ASSUME NEW w \in Elems(waits')
        PROVE  /\ phase'[w.conn] = "Handling"
               /\ proc'[w.pane] # "Gone" => Holds(inbox'[w.pane], w.id, w.seq)
               /\ \A t \in Elems(todo') : t.op = "answer" => t.conn # w.conn
    <3>1. w \in Elems(kept) /\ w \notin hit
      BY <1>1, <1>8
    <3>2. inbox'[w.pane] = inbox[w.pane]
      BY <1>7, <1>11, <2>1, <3>1
    <3>3. \A v \in Elems(waits) : v.conn = w.conn => v = w
      BY <2>1, <3>1 DEF MessagesInv, Turns, WaitsApart, Elems
    <3>4. \A t \in Elems(todo') : t.op = "answer" => t.conn # w.conn
      BY <1>7, <1>16, <2>1, <3>1, <3>3
    <3>5. proc'[w.pane] # "Gone" => Holds(inbox'[w.pane], w.id, w.seq)
      BY <1>1, <2>1, <3>1, <3>2 DEF MessagesInv, Turns
    <3> QED BY <2>1, <3>1, <3>4, <3>5
  <2>5. ASSUME NEW d \in Conns, phase'[d] = "Handling"
        PROVE  \/ \E w \in Elems(waits') : w.conn = d
               \/ \E t \in Elems(todo') : t.op = "answer" /\ t.conn = d
    <3>1. d # c /\ phase[d] = "Handling"
      BY <1>13, <2>5
    <3>2. PICK w \in Elems(waits) : w.conn = d
      BY <1>3, <3>1 DEF MessagesInv, Turns
    <3>3. w \in Elems(kept)
      BY <1>5, <3>1, <3>2
    <3>4. CASE w \in hit
      <4>1. Answer(w, "Queued") \in Elems(todo')
        BY <1>8, <1>10, <3>4
      <4> QED BY <3>2, <4>1, TaskOps
    <3>5. CASE w \notin hit
      BY <1>1, <1>8, <3>2, <3>3, <3>5
    <3> QED BY <3>4, <3>5
  <2> QED BY <1>1, <1>8, <1>10, <1>15, <2>2, <2>3, <2>4, <2>5 DEF Turns
<1>19. Settlements'
  <2> SUFFICES ASSUME NEW r \in Panes, NEW i \in Ids, inbox'[r].known[i].is \in Outcomes
               PROVE  Verdict(r, i, inbox'[r].known[i]) \in verdicts
    BY <1>1 DEF Settlements
  <2>1. inbox'[r].known[i] = inbox[r].known[i]
    BY <1>11, <1>12
  <2> QED BY <2>1 DEF MessagesInv, Settlements
<1>20. Streams'
  <2>1. ASSUME NEW r \in Panes, inbox'[r].stream # None
        PROVE  /\ phase'[inbox'[r].stream] = "Stream" /\ role'[inbox'[r].stream] = r
               /\ SentOK(inbox'[r], sent'[inbox'[r].stream], out'[inbox'[r].stream])
               /\ Full(inbox'[r]) \/ Flush(r) \in Elems(todo')
    <3> DEFINE d == inbox[r].stream
    <3>1. inbox'[r] = inbox[r]
      BY <1>11, <1>12, <2>1
    <3>2. /\ d \in Conns /\ phase[d] = "Stream" /\ role[d] = r
          /\ SentOK(inbox[r], sent[d], out[d]) /\ (Full(inbox[r]) \/ Flush(r) \in Elems(todo))
      BY <2>1, <3>1 DEF MessagesInv, Types, Streams
    <3>3. d # c
      <4> SUFFICES ASSUME d = c PROVE FALSE
        OBVIOUS
      <4>1. r = p /\ IsStream(c)
        BY <3>2 DEF p, IsStream
      <4> QED BY <1>12, <2>1, <4>1
    <3> QED BY <1>1, <1>10, <1>13, <3>1, <3>2, <3>3
  <2>2. \A r \in Panes : proc'[r] = "Gone" => inbox'[r] = Empty
    BY <1>1, <1>6, <1>11 DEF MessagesInv, Streams
  <2>3. \A d \in Conns : Rising(sent'[d]) /\ (phase'[d] # "Stream" => sent'[d] = <<>>)
    <3>1. Rising(<<>>)
      BY NoTask DEF Rising
    <3>2. \A d \in Conns : Rising(sent[d]) /\ (phase[d] # "Stream" => sent[d] = <<>>)
      BY DEF MessagesInv, Streams
    <3> QED BY <1>13, <3>1, <3>2
  <2>4. ASSUME NEW d \in Conns, phase'[d] = "Stream", out'[d] = "Open"
        PROVE  \/ inbox'[role'[d]].stream = d
               \/ Finish(d) \in Elems(todo')
               \/ proc'[role'[d]] = "Gone"
    <3>1. d # c /\ phase[d] = "Stream" /\ out[d] = "Open" /\ role'[d] = role[d] /\ role[d] \in Panes
      BY <1>1, <1>2, <1>13, <2>4
    <3>2. \/ inbox[role[d]].stream = d
          \/ Finish(d) \in Elems(todo)
          \/ proc[role[d]] = "Gone"
      BY <3>1 DEF MessagesInv, Streams
    <3>3. CASE inbox[role[d]].stream = d
      <4>1. role[d] # p \/ ~IsStream(c)
        BY <1>6, <3>1, <3>3
      <4> QED BY <1>11, <3>1, <3>3, <4>1
    <3> QED BY <1>1, <1>10, <3>1, <3>2, <3>3
  <2> QED BY <2>1, <2>2, <2>3, <2>4 DEF Streams
<1> QED BY <1>17, <1>18, <1>19, <1>20 DEF MessagesInv

-----------------------------------------------------------------------------
(* The server starts without messages.                                      *)
LEMMA InitStep == ASSUME Init PROVE MessagesInv
<1>1. /\ inbox = [p \in Panes |-> Empty] /\ proc = [p \in Panes |-> "Live"] /\ listed = Panes
      /\ phase = [c \in Conns |-> "Head"] /\ out = [c \in Conns |-> "Open"]
      /\ role = [c \in Conns |-> None] /\ input = [c \in Conns |-> <<>>]
      /\ waits = <<>> /\ todo = <<>> /\ shown = [p \in Panes |-> FALSE]
      /\ sent = [c \in Conns |-> <<>>] /\ verdicts = {} /\ reply = NoReply
  BY DEF Init
<1>2. \A p \in Panes : inbox[p] = Empty
  BY <1>1
<1>3. Empty.stream = None /\ \A i \in Ids : Empty.known[i] = Unknown
  BY DEF Empty
<1>4. <<>> \in Seq(Requests) /\ <<>> \in Seq(Waits) /\ <<>> \in Seq(Nat) /\ Elems(waits) = {} /\ Elems(todo) = {}
  BY <1>1, ElemsNone
<1>5. Types
  BY <1>1, <1>2, <1>3, <1>4, NoTask, EmptyInv DEF Types, NoReply
<1>6. Turns
  <2>1. TrueTo(reply)
    BY <1>1, NoneIs DEF TrueTo, NoReply
  <2>2. WaitsApart(waits) /\ AnswersApart(todo) /\ ReapLast(todo)
    BY <1>1, NoTask DEF WaitsApart
  <2> QED BY <1>1, <1>4, <2>1, <2>2 DEF Turns
<1>7. Streams
  <2>1. \A c \in Conns : Rising(sent[c]) /\ sent[c] = <<>>
    BY <1>1, NoTask DEF Rising
  <2> QED BY <1>1, <1>2, <1>3, <2>1 DEF Streams
<1>8. Settlements
  BY <1>2, <1>3, KnownAre DEF Settlements, Outcomes, Unknown
<1> QED BY <1>5, <1>6, <1>7, <1>8 DEF MessagesInv

(* A step of others changes nothing.                                        *)
LEMMA StutterStep == ASSUME MessagesInv, UNCHANGED vars PROVE MessagesInv'
<1> USE DEF vars
<1>1. Types'
  BY DEF MessagesInv, Types
<1>2. Turns'
  <2>1. \A t : TrueTo(t)' <=> TrueTo(t)
    BY DEF TrueTo
  <2>2. TrueTo(reply)' <=> TrueTo(reply)
    BY DEF TrueTo
  <2> QED BY <2>1, <2>2 DEF MessagesInv, Turns
<1>3. Streams'
  BY DEF MessagesInv, Streams
<1>4. Settlements'
  BY DEF MessagesInv, Settlements
<1> QED BY <1>1, <1>2, <1>3, <1>4 DEF MessagesInv

(* Every step keeps the invariant.                                          *)
LEMMA NextStep == ASSUME MessagesInv, Next PROVE MessagesInv'
<1>1. CASE \E c \in Conns : PostMessage(c) \/ Messages(c) \/ ServeDelete(c) \/ Served(c) \/ ReapConn(c)
  BY <1>1, PostMessageStep, MessagesStep, ServeDeleteStep, ServedStep, ReapConnStep
<1>2. CASE DeletePanes \/ StopPane \/ RemovePane \/ FinishStream
  BY <1>2, DeletePanesStep, StopPaneStep, RemovePaneStep, FinishStreamStep
<1>3. CASE ShowInbox \/ FlushMessages \/ AnswerSender \/ Reaped \/ EndTurn
  BY <1>3, ShowInboxStep, FlushMessagesStep, AnswerSenderStep, ReapedStep, EndTurnStep
<1>4. CASE \E c \in Conns : Request(c) \/ StreamText(c) \/ Reject(c) \/ Hangup(c) \/ Accept(c) \/ MessageDue(c)
  BY <1>4, RequestStep, StreamTextStep, RejectStep, HangupStep, AcceptStep, MessageDueStep
<1>5. CASE \E p \in Panes : Dies(p)
  BY <1>5, DiesStep
<1> QED BY <1>1, <1>2, <1>3, <1>4, <1>5 DEF Next, Turn, Environment

(* The invariant holds in every state, whatever the panes, the connections, *)
(* the requests and the sizes of queue, window and memory.                  *)
THEOREM MessagesInductive == Spec => []MessagesInv
<1>1. Init => MessagesInv
  BY InitStep
<1>2. MessagesInv /\ [Next]_vars => MessagesInv'
  BY NextStep, StutterStep
<1> QED BY <1>1, <1>2, PTL DEF Spec

(* Type correctness.                                                        *)
THEOREM MessagesTyped == Spec => []TypeOK
<1>1. MessagesInv => TypeOK
  <2> SUFFICES ASSUME MessagesInv PROVE TypeOK
    OBVIOUS
  <2>1. \A p \in Panes :
          /\ inbox[p].stream \in Conns \union {None}
          /\ inbox[p].last \in Nat /\ inbox[p].bytes \in Nat
          /\ inbox[p].fifo \in Seq([id : Ids, seq : Nat, place : Places])
          /\ \A i \in Ids : inbox[p].known[i] \in Known
          /\ inbox[p].settled \in Seq(Ids)
    BY DEF MessagesInv, Types, BoxInv, IsBox, Entries
  <2>2. \A c \in Conns : role[c] \in IF phase[c] = "Stream" THEN Panes ELSE {None}
    BY DEF MessagesInv, Types
  <2> QED BY <2>1, <2>2 DEF MessagesInv, Types, TypeOK
<1> QED BY <1>1, MessagesInductive, PTL

(* A sender in phase Handling has either one wait or one answer to come,    *)
(* and what it waits for is written and unanswered.                         *)
LEMMA WaitsMatchIs == ASSUME MessagesInv PROVE WaitsMatch
<1>1. waits \in Seq(Waits) /\ todo \in Seq(Tasks) /\ DOMAIN waits = 1 .. Len(waits) /\ DOMAIN todo = 1 .. Len(todo)
  BY DEF MessagesInv, Types
<1>2. ASSUME NEW k \in DOMAIN waits
      PROVE  LET w == waits[k]
             IN  /\ phase[w.conn] = "Handling"
                 /\ proc[w.pane] # "Gone" =>
                       /\ inbox[w.pane].known[w.id] = [is |-> "Pending", seq |-> w.seq]
                       /\ Status(inbox[w.pane], w.id) = "Delivered"
  <2> DEFINE w == waits[k]
  <2>1. w \in Elems(waits)
    BY <1>1 DEF Elems
  <2>2. w.pane \in Panes /\ w.id \in Ids
    BY <2>1, WaitsAre
  <2> HIDE DEF w
  <2>3. phase[w.conn] = "Handling" /\ (proc[w.pane] # "Gone" => Holds(inbox[w.pane], w.id, w.seq))
    BY <2>1 DEF MessagesInv, Turns
  <2>4. BoxInv(inbox[w.pane])
    BY <2>2 DEF MessagesInv, Types
  <2>5. proc[w.pane] # "Gone" => Status(inbox[w.pane], w.id) = "Delivered"
    BY <2>2, <2>3, <2>4, HoldsIs
  <2>6. Holds(inbox[w.pane], w.id, w.seq) =>
          inbox[w.pane].known[w.id] = [is |-> "Pending", seq |-> w.seq]
    BY DEF Holds
  <2> QED BY <2>3, <2>5, <2>6 DEF w
<1>3. ASSUME NEW c \in Conns, phase[c] = "Handling"
      PROVE  Cardinality({k \in DOMAIN waits : waits[k].conn = c})
               + Cardinality({k \in DOMAIN todo : todo[k].op = "answer" /\ todo[k].conn = c}) = 1
  <2> DEFINE A == {k \in DOMAIN waits : waits[k].conn = c}
             B == {k \in DOMAIN todo : todo[k].op = "answer" /\ todo[k].conn = c}
  <2>1. CASE \E w \in Elems(waits) : w.conn = c
    <3>1. PICK j \in 1 .. Len(waits) : waits[j].conn = c
      BY <2>1 DEF Elems
    <3>2. A = {j}
      BY <1>1, <3>1 DEF MessagesInv, Turns, WaitsApart
    <3>3. waits[j] \in Elems(waits)
      BY DEF Elems
    <3>4. \A t \in Elems(todo) : t.op = "answer" => t.conn # c
      BY <3>1, <3>3 DEF MessagesInv, Turns
    <3>5. B = {}
      BY <1>1, <3>4 DEF Elems
    <3> HIDE DEF A, B
    <3>6. Cardinality(A) = 1 /\ Cardinality(B) = 0
      BY <3>2, <3>5, FS_Singleton, FS_EmptySet
    <3> QED BY <3>6 DEF A, B
  <2>2. CASE ~\E w \in Elems(waits) : w.conn = c
    <3>1. \E t \in Elems(todo) : t.op = "answer" /\ t.conn = c
      BY <1>3, <2>2 DEF MessagesInv, Turns
    <3>2. PICK j \in 1 .. Len(todo) : todo[j].op = "answer" /\ todo[j].conn = c
      BY <3>1 DEF Elems
    <3>3. B = {j}
      BY <1>1, <3>2 DEF MessagesInv, Turns, AnswersApart
    <3>4. A = {}
      BY <1>1, <2>2 DEF Elems
    <3> HIDE DEF A, B
    <3>5. Cardinality(A) = 0 /\ Cardinality(B) = 1
      BY <3>3, <3>4, FS_Singleton, FS_EmptySet
    <3> QED BY <3>5 DEF A, B
  <2> QED BY <2>1, <2>2
<1> QED BY <1>2, <1>3 DEF WaitsMatch

(* Every queue is consistent after every handler: ids, ring, bytes, window  *)
(* and caps agree, and the waits of the senders agree with the queues.      *)
THEOREM QueuesHold == Spec => []QueueConsistent
<1>1. MessagesInv => QueueConsistent
  <2> SUFFICES ASSUME MessagesInv PROVE QueueConsistent
    OBVIOUS
  <2>1. \A p \in Panes : BoxInv(inbox[p])
    BY DEF MessagesInv, Types
  <2>2. \A p \in Panes : Consistent(inbox[p])
    BY <2>1, ConsistentIs
  <2> QED BY <2>2, WaitsMatchIs DEF QueueConsistent
<1> QED BY <1>1, MessagesInductive, PTL

(* A stream gets every message at most once and in the order of arrival,    *)
(* and all that counts as written while its output is open.                 *)
THEOREM WritesInOrder == Spec => []WrittenInOrder
<1>1. MessagesInv => WrittenInOrder
  <2> SUFFICES ASSUME MessagesInv, NEW c \in Conns
               PROVE  /\ \A j, k \in DOMAIN sent[c] : j < k => sent[c][j] < sent[c][k]
                      /\ \A p \in Panes : inbox[p].stream = c /\ out[c] = "Open" =>
                            \A e \in ToSet(inbox[p].fifo) :
                               e.place = "Out" => e.seq \in ToSet(sent[c])
    BY DEF WrittenInOrder
  <2>1. sent[c] \in Seq(Nat) /\ Rising(sent[c]) /\ DOMAIN sent[c] = 1 .. Len(sent[c])
    BY DEF MessagesInv, Types, Streams
  <2>2. ToSet(sent[c]) = Elems(sent[c])
    BY <2>1, ToSetIs
  <2>3. ASSUME NEW p \in Panes, inbox[p].stream = c, out[c] = "Open",
               NEW e \in ToSet(inbox[p].fifo), e.place = "Out"
        PROVE  e.seq \in Elems(sent[c])
    <3>1. SentOK(inbox[p], sent[c], out[c])
      BY <2>3, NoneIs DEF MessagesInv, Streams
    <3>2. inbox[p].fifo \in Seq(Entries)
      BY DEF MessagesInv, Types, BoxInv, IsBox
    <3>3. PICK k \in 1 .. Len(inbox[p].fifo) : e = inbox[p].fifo[k]
      BY <3>2, ToSetIs DEF Elems
    <3> QED BY <2>3, <3>1, <3>3 DEF SentOK
  <2> QED BY <2>1, <2>2, <2>3 DEF Rising
<1> QED BY <1>1, MessagesInductive, PTL

(* A sender is told Acked or Refused only if a receiver said so of the very *)
(* message it sent, not of an older one under the same id.                  *)
THEOREM AnswersHold == Spec => []AnswersTrue
<1>1. MessagesInv => AnswersTrue
  <2> SUFFICES ASSUME MessagesInv PROVE AnswersTrue
    OBVIOUS
  <2>1. todo \in Seq(Tasks) /\ DOMAIN todo = 1 .. Len(todo)
    BY DEF MessagesInv, Types
  <2> QED BY <2>1 DEF MessagesInv, Turns, AnswersTrue, Elems
<1> QED BY <1>1, MessagesInductive, PTL

(* A window without unwritten messages has nothing due.                     *)
LEMMA FullIsDone == ASSUME NEW box, BoxInv(box), box.stream # None => Full(box) PROVE Due(box) = <<>>
<1>1. CASE box.stream = None
  BY <1>1, DueIs
<1>2. CASE box.stream # None
  <2> DEFINE d == Due(box)
  <2>1. d \in Seq(Entries)
        /\ \E h : /\ h \in [1 .. Len(d) -> 1 .. Len(box.fifo)]
                  /\ \A k \in 1 .. Len(d) : box.fifo[h[k]].place # "Out" /\ h[k] <= Window
    BY DueIs
  <2> HIDE DEF d
  <2>2. ~(1 \in 1 .. Len(d))
    BY <1>2, <2>1 DEF Full
  <2>3. Len(d) = 0
    BY <2>1, <2>2
  <2>4. d = <<>>
    BY <2>1, <2>3
  <2> QED BY <2>4 DEF d
<1> QED BY <1>1, <1>2

(* The calls of flush_messages are enough: between two turns no stream      *)
(* lacks a message that the window lets through.                            *)
THEOREM NothingStays == Spec => []NothingStuck
<1>1. MessagesInv => NothingStuck
  <2> SUFFICES ASSUME MessagesInv, todo = <<>>, NEW p \in Panes PROVE Due(inbox[p]) = <<>>
    BY DEF NothingStuck
  <2>1. BoxInv(inbox[p])
    BY DEF MessagesInv, Types
  <2>2. inbox[p].stream # None => Full(inbox[p])
    BY NoTask DEF MessagesInv, Streams
  <2> QED BY <2>1, <2>2, FullIsDone
<1> QED BY <1>1, MessagesInductive, PTL

-----------------------------------------------------------------------------
(* A step keeps the messages of a queue, or settles them.                   *)
Keeps(p) ==
  \A n \in Numbers(inbox[p]) :
     n \in Numbers(inbox'[p]) \/ \E v \in verdicts' : v.pane = p /\ v.seq = n

(* A queue that only grows keeps its messages.                              *)
LEMMA GrownKeeps == ASSUME NEW p \in Panes, Numbers(inbox[p]) \subseteq Numbers(inbox'[p]) PROVE Keeps(p)
BY DEF Keeps

(* The end of a pane takes no message from another.                         *)
LEMMA EndedKeeps ==
  ASSUME MessagesInv, NEW p \in Panes, NEW tell \in BOOLEAN, NEW rest,
         Ended(p, tell, rest), NEW r \in Panes, r # p
  PROVE  Keeps(r)
<1> DEFINE q == Parent[p]
           told == tell /\ q # None /\ proc[q] = "Live"
           new == told /\ Admission(inbox[q], EndedId[p]) = "New"
<1>1. inbox' = [s \in Panes |->
                     IF s = p THEN Cleared(inbox[p])
                     ELSE IF new /\ s = q THEN Enqueued(q, EndedId[p])
                     ELSE inbox[s]]
  BY DEF Ended
<1>2. CASE new /\ r = q
  <2>1. BoxInv(inbox[r]) /\ EndedId[p] \in Ids
    BY MessagesAssumption DEF MessagesInv, Types
  <2>2. Admission(inbox[r], EndedId[p]) = "New" /\ inbox'[r] = Enqueued(r, EndedId[p])
    BY <1>1, <1>2
  <2>3. Numbers(inbox[r]) \subseteq Numbers(inbox'[r])
    BY <2>1, <2>2, EnqueuedGrows DEF Grows
  <2> QED BY <2>3, GrownKeeps
<1>3. CASE ~(new /\ r = q)
  <2>1. inbox'[r] = inbox[r]
    BY <1>1, <1>3
  <2> QED BY <2>1, GrownKeeps
<1> QED BY <1>2, <1>3

(* Nor does a post, ...                                                     *)
LEMMA PostKeeps == ASSUME MessagesInv, NEW c \in Conns, PostMessage(c), NEW r \in Panes PROVE Keeps(r)
<1> DEFINE p == Head(input[c]).pane
           id == Head(input[c]).id
<1>1. Serving(c) /\ Head(input[c]).op = "post"
  BY DEF PostMessage
<1>2. Head(input[c]) \in Requests
  BY <1>1, ServingIs
<1>3. p \in Panes /\ id \in Ids
  BY <1>1, <1>2, RequestsAre
<1>4. \/ inbox' = inbox
      \/ inbox' = [inbox EXCEPT ![p] = IF Admission(inbox[p], id) = "New" THEN Enqueued(p, id) ELSE inbox[p]]
  BY DEF PostMessage
<1> HIDE DEF p, id
<1>5. inbox = [s \in Panes |-> inbox[s]] /\ BoxInv(inbox[p])
  BY <1>3 DEF MessagesInv, Types
<1>6. CASE inbox'[r] = inbox[r]
  BY <1>6, GrownKeeps
<1>7. CASE inbox'[r] # inbox[r]
  <2>1. r = p /\ Admission(inbox[p], id) = "New" /\ inbox'[p] = Enqueued(p, id)
    BY <1>3, <1>4, <1>5, <1>7
  <2>2. Numbers(inbox[p]) \subseteq Numbers(inbox'[p])
    BY <1>3, <1>5, <2>1, EnqueuedGrows DEF Grows
  <2> QED BY <2>1, <2>2, GrownKeeps
<1> QED BY <1>6, <1>7

(* ... a stream that opens, ...                                             *)
LEMMA MessagesKeeps == ASSUME MessagesInv, NEW c \in Conns, Messages(c), NEW r \in Panes PROVE Keeps(r)
<1> DEFINE p == Head(input[c]).pane
<1>1. Serving(c) /\ Head(input[c]).op = "open"
  BY DEF Messages
<1>2. Head(input[c]) \in Requests
  BY <1>1, ServingIs
<1>3. p \in Panes
  BY <1>1, <1>2, RequestsAre
<1>4. \/ inbox' = inbox
      \/ inbox[p].stream = None /\ inbox' = [inbox EXCEPT ![p] = Pumped(Opened(inbox[p], c))]
  BY DEF Messages, AdmitsStream
<1> HIDE DEF p
<1>5. inbox = [s \in Panes |-> inbox[s]] /\ BoxInv(inbox[p])
  BY <1>3 DEF MessagesInv, Types
<1>6. CASE inbox'[r] = inbox[r]
  BY <1>6, GrownKeeps
<1>7. CASE inbox'[r] # inbox[r]
  <2>1. r = p /\ inbox[p].stream = None /\ inbox'[p] = Pumped(Opened(inbox[p], c))
    BY <1>3, <1>4, <1>5, <1>7
  <2>2. Numbers(inbox[p]) \subseteq Numbers(inbox'[p])
    BY <1>3, <1>5, <2>1, OpenedGrows, NoneIs DEF Grows
  <2> QED BY <2>1, <2>2, GrownKeeps
<1> QED BY <1>6, <1>7

(* ... a flush, ...                                                         *)
LEMMA FlushKeeps == ASSUME MessagesInv, FlushMessages, NEW r \in Panes PROVE Keeps(r)
<1> DEFINE p == Now.pane
<1>1. todo # <<>> /\ Now.op = "flush" /\ inbox' = [inbox EXCEPT ![p] = Pumped(@)]
  BY DEF FlushMessages, Doing, Now
<1>2. Now \in Tasks
  BY <1>1, NowIs
<1> HIDE DEF Now
<1>3. p \in Panes
  BY <1>1, <1>2, TasksAre
<1> HIDE DEF p
<1>4. inbox = [s \in Panes |-> inbox[s]] /\ BoxInv(inbox[p])
  BY <1>3 DEF MessagesInv, Types
<1>5. CASE r = p
  <2>1. Numbers(inbox[p]) \subseteq Numbers(inbox'[p])
    BY <1>1, <1>3, <1>4, PumpedGrows DEF Grows
  <2> QED BY <1>5, <2>1, GrownKeeps
<1>6. CASE r # p
  <2>1. inbox'[r] = inbox[r]
    BY <1>1, <1>3, <1>4, <1>6
  <2> QED BY <2>1, GrownKeeps
<1> QED BY <1>5, <1>6

(* ... or a stream that closes: written messages go back to the queue.      *)
LEMMA ReapKeeps == ASSUME MessagesInv, NEW c \in Conns, ReapConn(c), NEW r \in Panes PROVE Keeps(r)
<1> DEFINE p == role[c]
<1>1. inbox' = IF IsStream(c) THEN [inbox EXCEPT ![p] = Closed(@)] ELSE inbox
  BY DEF ReapConn
<1>2. IsStream(c) => p \in Panes
  BY DEF MessagesInv, Types, IsStream
<1> HIDE DEF p
<1>3. inbox = [s \in Panes |-> inbox[s]] /\ BoxInv(inbox[r])
  BY DEF MessagesInv, Types
<1>4. CASE r = p /\ IsStream(c)
  <2>1. Numbers(inbox[r]) \subseteq Numbers(inbox'[r])
    BY <1>1, <1>3, <1>4, ClosedGrows
  <2> QED BY <2>1, GrownKeeps
<1>5. CASE ~(r = p /\ IsStream(c))
  <2>1. inbox'[r] = inbox[r]
    BY <1>1, <1>2, <1>3, <1>5
  <2> QED BY <2>1, GrownKeeps
<1> QED BY <1>4, <1>5

(* A receiver takes the one it answers.                                     *)
LEMMA SettleKeeps == ASSUME MessagesInv, NEW c \in Conns, StreamText(c), NEW r \in Panes PROVE Keeps(r)
<1>1. PICK id \in Ids, outcome \in Outcomes : Settle(c, id, outcome)
  BY DEF StreamText
<1> DEFINE p == role[c]
           n == inbox[p].known[id].seq
           v == [pane |-> p, id |-> id, seq |-> n, is |-> outcome]
<1>2. /\ Settles(inbox[p], id) /\ inbox' = [inbox EXCEPT ![p] = Settled(inbox[p], id, outcome)]
      /\ v \in verdicts' /\ v.pane = p /\ v.seq = n
  BY <1>1 DEF Settle
<1>3. p \in Panes
  BY DEF MessagesInv, Types, StreamText
<1> HIDE DEF p, v, n
<1>4. inbox = [s \in Panes |-> inbox[s]] /\ BoxInv(inbox[p])
  BY <1>3 DEF MessagesInv, Types
<1>5. CASE r = p
  <2>1. Numbers(inbox[p]) \ {inbox[p].known[id].seq} \subseteq Numbers(inbox'[p])
    <3>1. inbox'[p] = Settled(inbox[p], id, outcome)
      BY <1>2, <1>3, <1>4
    <3>2. Settles(inbox[p], id) /\ BoxInv(inbox[p])
      BY <1>2, <1>4
    <3>3. Numbers(inbox[p]) \ {inbox[p].known[id].seq} \subseteq Numbers(Settled(inbox[p], id, outcome))
      BY <3>2, SettledShrinks
    <3> QED BY <3>1, <3>3
  <2> QED BY <1>2, <1>5, <2>1 DEF Keeps, n
<1>6. CASE r # p
  <2>1. inbox'[r] = inbox[r]
    BY <1>2, <1>3, <1>4, <1>6
  <2> QED BY <2>1, GrownKeeps
<1> QED BY <1>5, <1>6

(* Every step keeps the messages of a pane that stays alive in the          *)
(* document, but for the one that is settled.                               *)
LEMMA NextKeeps ==
  ASSUME MessagesInv, [Next]_vars, NEW p \in Panes, p \in listed', proc'[p] = "Live"
  PROVE  Keeps(p)
<1>1. CASE inbox' = inbox
  <2>1. inbox'[p] = inbox[p]
    BY <1>1
  <2> QED BY <2>1, GrownKeeps
<1>2. CASE \E c \in Conns : PostMessage(c) \/ Messages(c) \/ ReapConn(c) \/ StreamText(c)
  BY <1>2, PostKeeps, MessagesKeeps, ReapKeeps, SettleKeeps
<1>3. CASE \E c \in Conns : \/ ServeDelete(c) \/ Served(c) \/ Request(c) \/ Reject(c) \/ Hangup(c)
                            \/ Accept(c) \/ MessageDue(c)
  BY <1>1, <1>3 DEF ServeDelete, Served, Request, Reject, Hangup, Accept, MessageDue
<1>4. CASE DeletePanes \/ FinishStream \/ ShowInbox \/ AnswerSender \/ Reaped \/ EndTurn \/ UNCHANGED vars
  BY <1>1, <1>4 DEF DeletePanes, FinishStream, ShowInbox, AnswerSender, Reaped, EndTurn, vars
<1>5. CASE FlushMessages
  BY <1>5, FlushKeeps
<1>6. CASE RemovePane
  <2>1. inbox' = [inbox EXCEPT ![Now.pane] = Empty] /\ proc' = [proc EXCEPT ![Now.pane] = "Gone"]
    BY <1>6 DEF RemovePane
  <2>2. inbox = [r \in Panes |-> inbox[r]] /\ proc \in [Panes -> {"Live", "Dead", "Gone"}]
    BY DEF MessagesInv, Types
  <2>3. p # Now.pane
    BY <2>1, <2>2
  <2>4. inbox'[p] = inbox[p]
    BY <2>1, <2>2, <2>3
  <2> QED BY <2>4, GrownKeeps
<1>7. CASE StopPane
  <2>1. todo # <<>> /\ Now.op = "stop" /\ listed' = listed
        /\ Ended(Now.pane, TellsParent(Now.pane), <<Drop(Now.pane)>> \o Rest)
    BY <1>7 DEF StopPane, Doing, Now
  <2>2. Now \in Tasks /\ Now \in Elems(todo)
    BY <2>1, NowIs
  <2> HIDE DEF Now
  <2>3. Now.pane \in Panes /\ Now.pane \notin listed /\ TellsParent(Now.pane) \in BOOLEAN
    BY <2>1, <2>2, TasksAre DEF MessagesInv, Turns, TellsParent
  <2>4. p # Now.pane
    BY <2>1, <2>3
  <2> QED BY <2>1, <2>3, <2>4, EndedKeeps
<1>8. CASE \E r \in Panes : Dies(r)
  <2>1. PICK r \in Panes : Dies(r)
    BY <1>8
  <2>2. proc' = [proc EXCEPT ![r] = "Dead"] /\ \E rest \in {<<>>, <<Delete(<<r>>)>>} : Ended(r, TRUE, rest)
    BY <2>1 DEF Dies
  <2>3. p # r
    BY <2>2 DEF MessagesInv, Types
  <2> QED BY <2>2, <2>3, EndedKeeps
<1> QED BY <1>1, <1>2, <1>3, <1>4, <1>5, <1>6, <1>7, <1>8 DEF Next, Turn, Environment

(* Only a text on the open stream of a pane settles a message, and the      *)
(* message was written to that very stream.                                 *)
LEMMA VerdictWritten ==
  ASSUME MessagesInv, [Next]_vars, NEW v \in verdicts' \ verdicts
  PROVE  LET c == inbox[v.pane].stream
         IN  c # None /\ v.seq \in ToSet(sent[c])
<1>1. PICK c \in Conns : StreamText(c)
  BY DEF Next, Turn, Environment, vars, PostMessage, Messages, ServeDelete, Served, DeletePanes, StopPane,
         RemovePane, FinishStream, ShowInbox, FlushMessages, AnswerSender, ReapConn, Reaped, Request,
         Reject, Hangup, Accept, Dies, EndTurn, MessageDue
<1>2. PICK id \in Ids, outcome \in Outcomes : Settle(c, id, outcome)
  BY <1>1 DEF StreamText
<1> DEFINE p == role[c]
           n == inbox[p].known[id].seq
<1>3. Settles(inbox[p], id) /\ v.pane = p /\ v.seq = n
  BY <1>2 DEF Settle
<1>4. p \in Panes /\ c # None /\ phase[c] = "Stream" /\ out[c] = "Open" /\ todo = <<>>
  BY <1>1, NoneIs DEF MessagesInv, Types, StreamText
<1>5. sent[c] \in Seq(Nat) /\ ToSet(sent[c]) = Elems(sent[c])
  <2>1. sent[c] \in Seq(Nat)
    BY DEF MessagesInv, Types
  <2> QED BY <2>1, ToSetIs
<1> HIDE DEF p, n
<1>6. inbox[p] # Empty
  <2>1. Empty.known[id] = Unknown
    BY DEF Empty
  <2> QED BY <1>3, <2>1 DEF Settles, Unknown
<1>7. inbox[p].stream = c
  BY <1>4, <1>6, NoTask DEF MessagesInv, Streams, p
<1>8. Full(inbox[p]) /\ SentOK(inbox[p], sent[c], "Open") /\ BoxInv(inbox[p])
  BY <1>4, <1>7, NoTask DEF MessagesInv, Types, Streams
<1>9. PICK k \in 1 .. Len(inbox[p].fifo) : inbox[p].fifo[k].seq = n /\ k <= Window
  BY <1>2, <1>3, <1>8, SettledShrinks DEF n
<1>10. n \in Elems(sent[c])
  BY <1>8, <1>9 DEF Full, SentOK
<1> QED BY <1>3, <1>4, <1>5, <1>7, <1>10

(* A message leaves the queue of a live pane only for an answer of its      *)
(* receiver, and only what was written to the stream can be answered on it. *)
THEOREM EntriesLast == Spec => EntriesLeave
<1>1. MessagesInv /\ [Next]_vars =>
        [\A p \in Panes : p \in listed' /\ proc'[p] = "Live" =>
         \A e \in ToSet(inbox[p].fifo) :
            \/ \E f \in ToSet(inbox'[p].fifo) : f.seq = e.seq
            \/ \E v \in verdicts' : v.pane = p /\ v.seq = e.seq]_vars
  <2> SUFFICES ASSUME MessagesInv, [Next]_vars, NEW p \in Panes, p \in listed', proc'[p] = "Live",
                      NEW e \in ToSet(inbox[p].fifo)
               PROVE  \/ \E f \in ToSet(inbox'[p].fifo) : f.seq = e.seq
                      \/ \E v \in verdicts' : v.pane = p /\ v.seq = e.seq
    OBVIOUS
  <2>1. MessagesInv'
    BY NextStep, StutterStep
  <2>2. ToSet(inbox[p].fifo) = Elems(inbox[p].fifo) /\ ToSet(inbox'[p].fifo) = Elems(inbox'[p].fifo)
    <3>1. inbox[p].fifo \in Seq(Entries) /\ inbox'[p].fifo \in Seq(Entries)
      BY <2>1 DEF MessagesInv, Types, BoxInv, IsBox
    <3> QED BY <3>1, ToSetIs
  <2>3. e.seq \in Numbers(inbox[p])
    BY <2>2 DEF Elems, Numbers
  <2>4. e.seq \in Numbers(inbox'[p]) \/ \E v \in verdicts' : v.pane = p /\ v.seq = e.seq
    BY <2>3, NextKeeps DEF Keeps
  <2> QED BY <2>2, <2>4 DEF Elems, Numbers
<1>2. MessagesInv /\ [Next]_vars =>
        [\A v \in verdicts' \ verdicts :
           LET c == inbox[v.pane].stream
           IN  c # None /\ v.seq \in ToSet(sent[c])]_vars
  BY VerdictWritten
<1>3. Spec => OnlySettledLeave
  BY <1>1, MessagesInductive, PTL DEF Spec, OnlySettledLeave
<1>4. Spec => VerdictOnWritten
  BY <1>2, MessagesInductive, PTL DEF Spec, VerdictOnWritten
<1> QED BY <1>3, <1>4 DEF EntriesLeave
=============================================================================
