---------------------------- MODULE OutboxProofs ----------------------------
(***************************************************************************)
(* Proofs about the output of a connection.                                *)
(***************************************************************************)
EXTENDS Outbox, FilterProofs, SequenceTheorems

Joined(x, y, z) == (x \o y) \o z = x \o (y \o z)

(* Sequences are joined in any grouping.                                    *)
LEMMA Associative ==
  ASSUME NEW E, NEW x \in Seq(E), NEW y \in Seq(E), NEW z \in Seq(E)
  PROVE  Joined(x, y, z)
BY ConcatAssociative DEF Joined

(* The recursive function of FlattenSeq exists.                             *)
LEMMA FlattenUnfolds ==
  ASSUME NEW E, NEW ss \in Seq(Seq(E)), ss # <<>>
  PROVE  \E f : /\ f[1] = ss[1]
                /\ \A n \in 2 .. Len(ss) : f[n] = f[n - 1] \o ss[n]
                /\ FlattenSeq(ss) = f[Len(ss)]
<1> DEFINE Step(f, n) == IF n = 1 THEN ss[n] ELSE f[n - 1] \o ss[n]
           Good(f, m) == /\ f = [n \in 1 .. m |-> f[n]]
                         /\ \A n \in 1 .. m : f[n] = Step(f, n)
           T == {k \in Nat : \E f : Good(f, k + 1)}
<1>0. Len(ss) \in Nat \ {0}
  BY EmptySeq
<1>1. 0 \in T
  <2> DEFINE f == [n \in 1 .. 1 |-> ss[n]]
  <2>1. f = [n \in 1 .. 1 |-> f[n]] /\ f[1] = ss[1]
    OBVIOUS
  <2>2. \A n \in 1 .. 1 : n = 1
    OBVIOUS
  <2>3. Step(f, 1) = ss[1]
    BY Zenon
  <2> HIDE DEF f, Step
  <2>4. Good(f, 0 + 1)
    BY <2>1, <2>2, <2>3
  <2> HIDE DEF Good
  <2> QED BY <2>4
<1>2. ASSUME NEW k \in Nat, k \in T PROVE k + 1 \in T
  <2>1. PICK f : Good(f, k + 1)
    BY <1>2
  <2> DEFINE g == [n \in 1 .. k + 2 |-> IF n = k + 2 THEN Step(f, k + 2) ELSE f[n]]
  <2> HIDE DEF Step
  <2>2. /\ \A n \in 1 .. k + 1 : g[n] = f[n]
        /\ g[k + 2] = Step(f, k + 2)
        /\ g = [n \in 1 .. k + 2 |-> g[n]]
    OBVIOUS
  <2> HIDE DEF g
  <2>3. ASSUME NEW n \in 1 .. k + 2 PROVE g[n] = Step(g, n)
    <3>1. n = 1 \/ n - 1 \in 1 .. k + 1
      OBVIOUS
    <3>2. Step(g, n) = Step(f, n)
      BY <2>2, <3>1, Zenon DEF Step
    <3>3. n \in 1 .. k + 1 \/ n = k + 2
      OBVIOUS
    <3> QED BY <2>1, <2>2, <3>2, <3>3
  <2>4. Good(g, (k + 1) + 1)
    <3>1. (k + 1) + 1 = k + 2
      OBVIOUS
    <3> QED BY <2>2, <2>3, <3>1
  <2> HIDE DEF Good
  <2> QED BY <2>4
<1>3. PICK f : Good(f, Len(ss))
  <2>1. \A n \in Nat : n \in T => n + 1 \in T
    BY <1>2
  <2> HIDE DEF T
  <2>2. Nat \subseteq T
    BY <1>1, <2>1, NatInduct, Zenon
  <2> USE DEF T
  <2> HIDE DEF Good
  <2>3. Len(ss) - 1 + 1 = Len(ss) /\ Len(ss) - 1 \in Nat
    BY <1>0
  <2>4. \A k \in Nat : \E f : Good(f, k + 1)
    BY <2>2
  <2>5. \E f : Good(f, (Len(ss) - 1) + 1)
    BY <2>3, <2>4, Zenon
  <2> QED BY <2>3, <2>5, Zenon
<1>4. f = [n \in 1 .. Len(ss) |-> Step(f, n)]
  <2> HIDE DEF Step
  <2> QED BY <1>3
<1> DEFINE u == CHOOSE f1 : f1 = [n \in 1 .. Len(ss) |-> Step(f1, n)]
<1>5. u = [n \in 1 .. Len(ss) |-> Step(u, n)]
  <2> HIDE DEF Step
  <2> QED BY <1>4, Zenon
<1>6. FlattenSeq(ss) = u[Len(ss)]
  BY <1>0, Zenon DEF FlattenSeq
<1> HIDE DEF u
<1>7. \A n \in 1 .. Len(ss) : u[n] = Step(u, n)
  <2> HIDE DEF Step
  <2> QED BY <1>5, Zenon
<1>8. u[1] = ss[1] /\ \A n \in 2 .. Len(ss) : u[n] = u[n - 1] \o ss[n]
  <2>1. 1 \in 1 .. Len(ss) /\ \A n \in 2 .. Len(ss) : n \in 1 .. Len(ss) /\ n # 1
    BY <1>0
  <2> QED BY <1>7, <2>1, Zenon
<1> QED BY <1>6, <1>8, Zenon

(* What FlattenSeq gives is made of the elements of the sequences.          *)
LEMMA FlattenType ==
  ASSUME NEW E, NEW ss \in Seq(Seq(E))
  PROVE  FlattenSeq(ss) \in Seq(E) /\ FlattenSeq(<<>>) = <<>>
<1>1. FlattenSeq(<<>>) = <<>> /\ <<>> \in Seq(E) /\ Len(ss) \in Nat
  BY DEF FlattenSeq
<1>2. ASSUME ss # <<>> PROVE FlattenSeq(ss) \in Seq(E)
  <2>1. PICK f : /\ f[1] = ss[1]
                 /\ \A n \in 2 .. Len(ss) : f[n] = f[n - 1] \o ss[n]
                 /\ FlattenSeq(ss) = f[Len(ss)]
    BY <1>2, FlattenUnfolds
  <2> DEFINE T == {k \in Nat : k < Len(ss) => f[k + 1] \in Seq(E)}
  <2>2. Len(ss) \in Nat \ {0} /\ \A n \in 1 .. Len(ss) : ss[n] \in Seq(E)
    BY <1>2, EmptySeq
  <2>3. 0 \in T
    BY <2>1, <2>2
  <2>0. \A n \in 2 .. Len(ss) : f[n - 1] \in Seq(E) => f[n] \in Seq(E)
    <3> TAKE n \in 2 .. Len(ss)
    <3>1. f[n] = f[n - 1] \o ss[n]
      BY <2>1, Zenon
    <3>2. ss[n] \in Seq(E)
      BY <2>2
    <3> QED BY <3>1, <3>2
  <2>4. ASSUME NEW k \in Nat, k \in T PROVE k + 1 \in T
    <3>1. SUFFICES ASSUME k + 1 < Len(ss) PROVE f[k + 2] \in Seq(E)
      OBVIOUS
    <3>2. f[k + 1] \in Seq(E) /\ ss[k + 2] \in Seq(E) /\ k + 2 \in 2 .. Len(ss)
      BY <2>2, <2>4, <3>1
    <3>3. k + 2 - 1 = k + 1
      OBVIOUS
    <3> QED BY <2>0, <3>2, <3>3
  <2>5. Len(ss) - 1 \in T
    <3>1. \A n \in Nat : n \in T => n + 1 \in T
      BY <2>4
    <3> HIDE DEF T
    <3>2. Nat \subseteq T
      BY <2>3, <3>1, NatInduct, Zenon
    <3> QED BY <2>2, <3>2
  <2> QED BY <2>1, <2>2, <2>5
<1> QED BY <1>1, <1>2

(* One sequence more.                                                       *)
LEMMA FlattenAppend ==
  ASSUME NEW E, NEW ss \in Seq(Seq(E)), NEW s \in Seq(E)
  PROVE  FlattenSeq(Append(ss, s)) = FlattenSeq(ss) \o s
<1> DEFINE tt == Append(ss, s)
<1>1. /\ tt \in Seq(Seq(E)) /\ tt # <<>> /\ Len(tt) = Len(ss) + 1
      /\ tt[Len(ss) + 1] = s /\ \A i \in 1 .. Len(ss) : tt[i] = ss[i]
  BY AppendProperties
<1>2. PICK g : /\ g[1] = tt[1]
               /\ \A n \in 2 .. Len(tt) : g[n] = g[n - 1] \o tt[n]
               /\ FlattenSeq(tt) = g[Len(tt)]
  BY <1>1, FlattenUnfolds
<1> HIDE DEF tt
<1>3. CASE ss = <<>>
  <2>1. FlattenSeq(ss) = <<>> /\ Len(ss) = 0
    BY <1>3, FlattenType
  <2>2. FlattenSeq(tt) = s
    BY <1>1, <1>2, <2>1
  <2> QED BY <2>1, <2>2 DEF tt
<1>4. CASE ss # <<>>
  <2>1. PICK f : /\ f[1] = ss[1]
                 /\ \A n \in 2 .. Len(ss) : f[n] = f[n - 1] \o ss[n]
                 /\ FlattenSeq(ss) = f[Len(ss)]
    BY <1>4, FlattenUnfolds
  <2>2. Len(ss) \in Nat \ {0}
    BY <1>4, EmptySeq
  <2> DEFINE T == {k \in Nat : k < Len(ss) => g[k + 1] = f[k + 1]}
  <2>3. 0 \in T
    BY <1>1, <1>2, <2>1, <2>2
  <2>0. \A n \in 2 .. Len(ss) : g[n - 1] = f[n - 1] => g[n] = f[n]
    <3> TAKE n \in 2 .. Len(ss)
    <3>1. n \in 2 .. Len(tt) /\ n \in 1 .. Len(ss)
      BY <1>1, <2>2
    <3>2. f[n] = f[n - 1] \o ss[n] /\ g[n] = g[n - 1] \o tt[n] /\ tt[n] = ss[n]
      BY <1>1, <1>2, <2>1, <3>1, Zenon
    <3> QED BY <3>2, Zenon
  <2>4. ASSUME NEW k \in Nat, k \in T PROVE k + 1 \in T
    <3>1. SUFFICES ASSUME k + 1 < Len(ss) PROVE g[k + 2] = f[k + 2]
      OBVIOUS
    <3>2. k + 2 \in 2 .. Len(ss) /\ k + 2 \in 2 .. Len(tt) /\ k + 2 \in 1 .. Len(ss) /\ k + 2 - 1 = k + 1
      BY <1>1, <2>2, <3>1
    <3>3. g[k + 1] = f[k + 1]
      BY <2>4, <3>1
    <3> QED BY <2>0, <3>2, <3>3
  <2>5. Len(ss) - 1 \in T
    <3>1. \A n \in Nat : n \in T => n + 1 \in T
      BY <2>4
    <3> HIDE DEF T
    <3>2. Nat \subseteq T
      BY <2>3, <3>1, NatInduct, Zenon
    <3> QED BY <2>2, <3>2
  <2>6. g[Len(ss)] = f[Len(ss)]
    BY <2>2, <2>5
  <2>7. Len(tt) \in 2 .. Len(tt) /\ Len(tt) - 1 = Len(ss)
    BY <1>1, <2>2
  <2> QED BY <1>1, <1>2, <2>1, <2>6, <2>7 DEF tt
<1> QED BY <1>3, <1>4

(* FlattenSeq of two parts of a sequence.                                   *)
LEMMA FlattenConcat ==
  ASSUME NEW E, NEW ss \in Seq(Seq(E)), NEW tt \in Seq(Seq(E))
  PROVE  FlattenSeq(ss \o tt) = FlattenSeq(ss) \o FlattenSeq(tt)
<1> DEFINE T == {k \in Nat : k <= Len(tt) =>
                   FlattenSeq(ss \o SubSeq(tt, 1, k)) = FlattenSeq(ss) \o FlattenSeq(SubSeq(tt, 1, k))}
<1>1. 0 \in T
  <2>1. SubSeq(tt, 1, 0) = <<>>
    OBVIOUS
  <2>2. ss \o <<>> = ss /\ FlattenSeq(ss) \in Seq(E) /\ FlattenSeq(<<>>) = <<>>
    BY FlattenType
  <2>3. FlattenSeq(ss) \o <<>> = FlattenSeq(ss)
    BY <2>2
  <2> QED BY <2>1, <2>2, <2>3
<1>2. ASSUME NEW k \in Nat, k \in T PROVE k + 1 \in T
  <2>1. SUFFICES ASSUME k + 1 <= Len(tt)
                 PROVE  FlattenSeq(ss \o SubSeq(tt, 1, k + 1))
                          = FlattenSeq(ss) \o FlattenSeq(SubSeq(tt, 1, k + 1))
    OBVIOUS
  <2> DEFINE a == SubSeq(tt, 1, k)
             e == tt[k + 1]
  <2>2. a \in Seq(Seq(E)) /\ e \in Seq(E) /\ SubSeq(tt, 1, k + 1) = Append(a, e)
    BY <2>1
  <2> HIDE DEF a, e
  <2>3. ss \o Append(a, e) = Append(ss \o a, e) /\ ss \o a \in Seq(Seq(E))
    BY <2>2, SMTT(20)
  <2>4. FlattenSeq(ss \o a) = FlattenSeq(ss) \o FlattenSeq(a)
    BY <1>2, <2>1 DEF a
  <2>5. FlattenSeq(Append(ss \o a, e)) = FlattenSeq(ss \o a) \o e
    BY <2>2, <2>3, FlattenAppend
  <2>6. FlattenSeq(Append(a, e)) = FlattenSeq(a) \o e
    BY <2>2, FlattenAppend
  <2>7. FlattenSeq(ss) \in Seq(E) /\ FlattenSeq(a) \in Seq(E)
    BY <2>2, FlattenType
  <2>8. (FlattenSeq(ss) \o FlattenSeq(a)) \o e = FlattenSeq(ss) \o (FlattenSeq(a) \o e)
    <3>1. e \in Seq(E)
      BY <2>2
    <3>2. Joined(FlattenSeq(ss), FlattenSeq(a), e)
      BY <2>7, <3>1, Associative
    <3> QED BY <3>2, Zenon DEF Joined
  <2> QED BY <2>2, <2>3, <2>4, <2>5, <2>6, <2>8
<1>3. Len(tt) \in T
  <2>1. Len(tt) \in Nat /\ \A n \in Nat : n \in T => n + 1 \in T
    <3> HIDE DEF T
    <3> QED BY <1>2
  <2> HIDE DEF T
  <2>2. Nat \subseteq T
    BY <1>1, <2>1, NatInduct, Zenon
  <2> QED BY <2>1, <2>2
<1>4. SubSeq(tt, 1, Len(tt)) = tt
  OBVIOUS
<1>5. FlattenSeq(ss \o SubSeq(tt, 1, Len(tt))) = FlattenSeq(ss) \o FlattenSeq(SubSeq(tt, 1, Len(tt)))
  <2>1. Len(tt) \in Nat /\ Len(tt) <= Len(tt)
    OBVIOUS
  <2> QED BY <1>3, <2>1
<1> QED BY <1>4, <1>5, Zenon

(* One sequence is what it is.                                              *)
LEMMA FlattenOne ==
  ASSUME NEW E, NEW s \in Seq(E)
  PROVE  FlattenSeq(<<s>>) = s
<1>1. <<>> \in Seq(Seq(E)) /\ <<s>> = Append(<<>>, s) /\ <<>> \o s = s
  OBVIOUS
<1>2. FlattenSeq(<<>>) = <<>> /\ FlattenSeq(Append(<<>>, s)) = FlattenSeq(<<>>) \o s
  BY <1>1, FlattenType, FlattenAppend
<1> QED BY <1>1, <1>2

-----------------------------------------------------------------------------
(* Sequences that are cut in two.                                           *)

(* A sequence is what is before a place and what is from it.                *)
LEMMA Split ==
  ASSUME NEW E, NEW s \in Seq(E), NEW n \in 0 .. Len(s)
  PROVE  /\ SubSeq(s, 1, n) \in Seq(E) /\ Len(SubSeq(s, 1, n)) = n
         /\ From(s, n + 1) \in Seq(E) /\ Len(From(s, n + 1)) = Len(s) - n
         /\ s = SubSeq(s, 1, n) \o From(s, n + 1)
<1>1. SubSeq(s, 1, n) \in Seq(E) /\ Len(SubSeq(s, 1, n)) = n
  OBVIOUS
<1>2. From(s, n + 1) \in Seq(E) /\ Len(From(s, n + 1)) = Len(s) - n
  BY DEF From
<1>3. SubSeq(s, 1, n) \o SubSeq(s, n + 1, Len(s)) = SubSeq(s, 1, Len(s))
  <2>1. 1 \in 1 .. Len(s) + 1 /\ n \in 1 - 1 .. Len(s) /\ Len(s) \in n .. Len(s)
    OBVIOUS
  <2> QED BY <2>1, ConcatAdjacentSubSeq, Zenon
<1>4. SubSeq(s, 1, Len(s)) = s
  OBVIOUS
<1> QED BY <1>1, <1>2, <1>3, <1>4 DEF From

(* A sequence that was joined comes apart where it was joined.              *)
LEMMA Rejoin ==
  ASSUME NEW E, NEW x \in Seq(E), NEW y \in Seq(E)
  PROVE  /\ x \o y \in Seq(E) /\ Len(x \o y) = Len(x) + Len(y)
         /\ SubSeq(x \o y, 1, Len(x)) = x
         /\ From(x \o y, Len(x) + 1) = y
         /\ x \o <<>> = x /\ <<>> \o x = x
         /\ Len(x) \in Nat /\ Len(y) \in Nat
<1> DEFINE s == x \o y
<1>1. /\ s \in Seq(E) /\ Len(s) = Len(x) + Len(y) /\ Len(x) \in Nat /\ Len(y) \in Nat
      /\ \A i \in 1 .. Len(x) : s[i] = x[i]
      /\ \A i \in 1 .. Len(y) : s[Len(x) + i] = y[i]
  OBVIOUS
<1> HIDE DEF s
<1>2. SubSeq(s, 1, Len(x)) = x
  BY <1>1
<1>3. SubSeq(s, Len(x) + 1, Len(s)) = y
  BY <1>1
<1> QED BY <1>1, <1>2, <1>3 DEF s, From

(* The part of a joined sequence before a place in the first.               *)
LEMMA JoinCut ==
  ASSUME NEW E, NEW x \in Seq(E), NEW y \in Seq(E), NEW n \in 0 .. Len(x)
  PROVE  /\ SubSeq(x \o y, 1, n) = SubSeq(x, 1, n)
         /\ From(x \o y, n + 1) = From(x, n + 1) \o y
<1> DEFINE a == SubSeq(x, 1, n)
           b == From(x, n + 1)
<1>1. a \in Seq(E) /\ b \in Seq(E) /\ Len(a) = n /\ x = a \o b
  BY Split
<1> HIDE DEF a, b
<1>2. x \o y = a \o (b \o y)
  <2>1. Joined(a, b, y)
    BY <1>1, Associative
  <2> QED BY <1>1, <2>1, Zenon DEF Joined
<1>3. b \o y \in Seq(E)
  BY <1>1
<1> DEFINE c == b \o y
<1>4. SubSeq(a \o c, 1, Len(a)) = a /\ From(a \o c, Len(a) + 1) = c
  <2>1. c \in Seq(E)
    BY <1>3
  <2> HIDE DEF c
  <2> QED BY <1>1, <2>1, Rejoin
<1> QED BY <1>1, <1>2, <1>4, Zenon DEF a, b

(* The part of a joined sequence before a place in the second.              *)
LEMMA JoinCutIn ==
  ASSUME NEW E, NEW x \in Seq(E), NEW y \in Seq(E), NEW n \in 0 .. Len(y)
  PROVE  /\ SubSeq(x \o y, 1, Len(x) + n) = x \o SubSeq(y, 1, n)
         /\ From(x \o y, Len(x) + n + 1) = From(y, n + 1)
<1> DEFINE a == SubSeq(y, 1, n)
           b == From(y, n + 1)
<1>1. a \in Seq(E) /\ b \in Seq(E) /\ Len(a) = n /\ y = a \o b
  BY Split
<1> HIDE DEF a, b
<1>2. x \o y = (x \o a) \o b
  <2>1. Joined(x, a, b)
    BY <1>1, Associative
  <2> QED BY <1>1, <2>1, Zenon DEF Joined
<1>3. x \o a \in Seq(E) /\ Len(x \o a) = Len(x) + n
  BY <1>1, Rejoin, ZenonT(60)
<1> DEFINE c == x \o a
<1>4. SubSeq(c \o b, 1, Len(c)) = c /\ From(c \o b, Len(c) + 1) = b
  <2>1. c \in Seq(E)
    BY <1>3
  <2> HIDE DEF c
  <2> QED BY <1>1, <2>1, Rejoin
<1> QED BY <1>2, <1>3, <1>4 DEF a, b

(* Two parts, one behind the other.                                         *)
LEMMA CutTwice ==
  ASSUME NEW E, NEW s \in Seq(E), NEW n \in Nat, NEW k \in Nat, n + k <= Len(s)
  PROVE  /\ SubSeq(s, 1, n) \o SubSeq(From(s, n + 1), 1, k) = SubSeq(s, 1, n + k)
         /\ From(From(s, n + 1), k + 1) = From(s, n + k + 1)
<1> DEFINE a == SubSeq(s, 1, n)
           b == From(s, n + 1)
<1>1. n \in 0 .. Len(s) /\ k \in 0 .. Len(s) - n
  OBVIOUS
<1>2. a \in Seq(E) /\ b \in Seq(E) /\ Len(a) = n /\ Len(b) = Len(s) - n /\ s = a \o b
  BY <1>1, Split
<1> HIDE DEF a, b
<1>3. SubSeq(a \o b, 1, Len(a) + k) = a \o SubSeq(b, 1, k) /\ From(a \o b, Len(a) + k + 1) = From(b, k + 1)
  BY <1>1, <1>2, JoinCutIn, ZenonT(60)
<1> QED BY <1>2, <1>3, Zenon DEF a, b

-----------------------------------------------------------------------------
(* The inductive invariant.                                                 *)

Atoms   == Nat \X Nat
Texts   == [n : Nat, len : Nat \ {0}]
Letters == [n : Nat, len : Lens]
Pending == [parts : Seq(Atoms) \ {<<>>}, tail : BOOLEAN]
Queues  == [chunks : Seq(Pending), taken : Nat, bytes : Nat,
            policy : {"plain", "view", "draining", "sealed"},
            spill : Seq(Letters), spilled : Nat, goodbye : [n : Nat, len : Nat],
            accepted : Seq(Texts), lost : BOOLEAN]

Bodies(msgs) == [i \in DOMAIN msgs |-> Parts(msgs[i])]
Parcels(cs)  == [i \in DOMAIN cs |-> cs[i].parts]
Ending(q)    == IF q.policy = "draining" THEN <<Parts(q.goodbye)>> ELSE <<>>

(* What is in the queue, in the file and behind them, piece by piece.       *)
Pieces(q) == (Parcels(q.chunks) \o Bodies(q.spill)) \o Ending(q)
Stream(q) == FlattenSeq(Pieces(q))

(* The ends of messages that were taken on.                                 *)
Boundary(msgs, w) == \E j \in 0 .. Len(msgs) : w = Whole(SubSeq(msgs, 1, j))

(* w is the wire up to the first piece.  Every piece ends where a message   *)
(* does, and the first begins where one does unless it is a tail.           *)
Cut(q) == q.chunks # <<>> /\ q.chunks[1].tail

Kept(q, w, rest) ==
  /\ Whole(q.accepted) = (w \o Stream(q)) \o rest
  /\ \A i \in 1 .. Len(Pieces(q)) : Boundary(q.accepted, w \o FlattenSeq(SubSeq(Pieces(q), 1, i)))
  /\ Pieces(q) # <<>> /\ ~Cut(q) => Boundary(q.accepted, w)

(* After an overflow of a view the farewell ends the pieces.                *)
Given(q, w, rest) ==
  /\ q.policy = "sealed" /\ q.spill = <<>> /\ rest = <<>>
  /\ \E j \in 0 .. Len(q.accepted) :
       w \o Stream(q) = Whole(Append(SubSeq(q.accepted, 1, j), Farewell))

(* After any other nothing is left.                                         *)
Dropped(q, sent, rest) ==
  /\ q.lost /\ q.policy = "sealed" /\ q.chunks = <<>> /\ q.spill = <<>> /\ rest = <<>>
  /\ q.bytes = 0 /\ IsPrefix(sent, Whole(q.accepted))

Line(q, sent, rest, w) ==
  /\ sent = w \o SubSeq(Stream(q), 1, q.taken)
  /\ IF q.lost THEN Given(q, w, rest) ELSE Kept(q, w, rest)

Counted(q) ==
  /\ IF q.chunks = <<>> THEN q.taken = 0 ELSE q.taken < Len(q.chunks[1].parts)
  /\ q.bytes + q.taken = Len(Flat(q.chunks))

Roomy(b) == b <= Cap \/ \E len \in Lens : b <= len

(* A farewell or a close frame is no reason to refuse.                      *)
Extra(pol) == IF pol \in {"draining", "sealed"} THEN 2 ELSE 0

Limits(q) ==
  /\ Roomy(q.bytes - Extra(q.policy))
  /\ Len(Whole(q.spill)) <= q.spilled /\ q.spilled <= Limit
  /\ q.spill # <<>> => q.policy \in {"view", "draining"}
  /\ q.policy = "draining" => q.spill # <<>> /\ q.goodbye.len = 1
  /\ q.lost => q.policy = "sealed"

QueueInv(q, sent, rest) ==
  /\ q \in Queues
  /\ Limits(q)
  /\ Dropped(q, sent, rest) \/ (Counted(q) /\ \E w \in Seq(Atoms) : Line(q, sent, rest, w))

Stages ==
  /\ pixels # <<>> => phase = "streaming"
  /\ phase = "streaming" => policy = "plain"
  /\ phase # "ws" => policy \in {"plain", "sealed"}
  /\ wire \in Seq(Atoms) /\ pixels \in Seq(Atoms) /\ next \in Nat

OutboxInv == Stages /\ QueueInv(Now, wire, pixels)

-----------------------------------------------------------------------------
(* Messages, chunks and their parts.                                        *)

(* Parts of messages are joined in any grouping.                            *)
LEMMA AtomsJoin == \A x, y, z \in Seq(Atoms) : Joined(x, y, z)
BY Associative

(* The parts of a message are as many as its length.                        *)
LEMMA PartsAre ==
  ASSUME NEW m \in [n : Nat, len : Nat]
  PROVE  Parts(m) \in Seq(Atoms) /\ Len(Parts(m)) = m.len /\ (m.len # 0 => Parts(m) # <<>>)
<1>1. \A i \in 1 .. m.len : <<m.n, i>> \in Atoms
  BY DEF Atoms
<1> QED BY <1>1 DEF Parts

(* Messages that a client sends and the close frames are messages.          *)
LEMMA LettersAre == Letters \subseteq Texts /\ Texts \subseteq [n : Nat, len : Nat] /\ Seq(Letters) \subseteq Seq(Texts)
<1>1. Letters \subseteq Texts /\ Texts \subseteq [n : Nat, len : Nat]
  BY OutboxAssumption DEF Letters, Texts
<1> QED BY <1>1

(* The parts of messages, message by message.                               *)
LEMMA BodiesAre ==
  ASSUME NEW msgs \in Seq(Texts)
  PROVE  /\ Bodies(msgs) \in Seq(Seq(Atoms)) /\ Len(Bodies(msgs)) = Len(msgs)
         /\ \A m \in Texts : Bodies(Append(msgs, m)) = Append(Bodies(msgs), Parts(m))
         /\ \A i \in Nat \ {0}, j \in 0 .. Len(msgs) : Bodies(SubSeq(msgs, i, j)) = SubSeq(Bodies(msgs), i, j)
         /\ Whole(msgs) = FlattenSeq(Bodies(msgs))
<1>1. \A i \in 1 .. Len(msgs) : Parts(msgs[i]) \in Seq(Atoms)
  BY PartsAre, LettersAre
<1>2. Bodies(msgs) \in Seq(Seq(Atoms)) /\ Len(Bodies(msgs)) = Len(msgs)
  BY <1>1 DEF Bodies
<1>3. ASSUME NEW m \in Texts PROVE Bodies(Append(msgs, m)) = Append(Bodies(msgs), Parts(m))
  BY DEF Bodies
<1>4. ASSUME NEW i \in Nat \ {0}, NEW j \in 0 .. Len(msgs)
      PROVE  Bodies(SubSeq(msgs, i, j)) = SubSeq(Bodies(msgs), i, j)
  BY DEF Bodies
<1>5. Whole(msgs) = FlattenSeq(Bodies(msgs))
  BY DEF Whole, Bodies
<1> QED BY <1>2, <1>3, <1>4, <1>5

(* The parts of chunks, chunk by chunk: no chunk is empty.                  *)
LEMMA ParcelsAre ==
  ASSUME NEW cs \in Seq(Pending)
  PROVE  /\ Parcels(cs) \in Seq(Seq(Atoms)) /\ Len(Parcels(cs)) = Len(cs)
         /\ \A i \in 1 .. Len(cs) : Parcels(cs)[i] = cs[i].parts /\ cs[i].parts \in Seq(Atoms) \ {<<>>}
         /\ \A c \in Pending : Parcels(Append(cs, c)) = Append(Parcels(cs), c.parts)
         /\ \A i \in Nat \ {0}, j \in 0 .. Len(cs) : Parcels(SubSeq(cs, i, j)) = SubSeq(Parcels(cs), i, j)
         /\ Flat(cs) = FlattenSeq(Parcels(cs))
<1>1. \A i \in 1 .. Len(cs) : cs[i] \in Pending /\ cs[i].parts \in Seq(Atoms) \ {<<>>}
  <2>1. \A c \in Pending : c.parts \in Seq(Atoms) \ {<<>>}
    BY DEF Pending
  <2>2. \A i \in 1 .. Len(cs) : cs[i] \in Pending
    OBVIOUS
  <2> QED BY <2>1, <2>2
<1>2. /\ Parcels(cs) \in Seq(Seq(Atoms)) /\ Len(Parcels(cs)) = Len(cs)
      /\ \A i \in 1 .. Len(cs) : Parcels(cs)[i] = cs[i].parts
  BY <1>1 DEF Parcels
<1>3. ASSUME NEW c \in Pending PROVE Parcels(Append(cs, c)) = Append(Parcels(cs), c.parts)
  BY DEF Parcels
<1>4. ASSUME NEW i \in Nat \ {0}, NEW j \in 0 .. Len(cs)
      PROVE  Parcels(SubSeq(cs, i, j)) = SubSeq(Parcels(cs), i, j)
  BY DEF Parcels
<1>5. Flat(cs) = FlattenSeq(Parcels(cs))
  BY DEF Flat, Parcels
<1> QED BY <1>1, <1>2, <1>3, <1>4, <1>5

(* The stream of messages grows by the parts of the one that is added.      *)
LEMMA WholeIs ==
  ASSUME NEW msgs \in Seq(Texts)
  PROVE  /\ Whole(msgs) \in Seq(Atoms) /\ Whole(<<>>) = <<>>
         /\ \A m \in Texts : Whole(Append(msgs, m)) = Whole(msgs) \o Parts(m)
<1>1. Whole(msgs) \in Seq(Atoms) 
  BY BodiesAre, FlattenType
<1>2. Whole(<<>>) = <<>>
  <2>1. <<>> \in Seq(Texts) /\ Bodies(<<>>) = <<>> /\ <<>> \in Seq(Seq(Atoms))
    BY DEF Bodies
  <2> QED BY <2>1, BodiesAre, FlattenType
<1>3. ASSUME NEW m \in Texts PROVE Whole(Append(msgs, m)) = Whole(msgs) \o Parts(m)
  <2>1. Append(msgs, m) \in Seq(Texts) /\ Parts(m) \in Seq(Atoms)
    BY PartsAre, LettersAre
  <2>2. Whole(Append(msgs, m)) = FlattenSeq(Append(Bodies(msgs), Parts(m)))
    BY <2>1, BodiesAre
  <2> QED BY <2>1, <2>2, BodiesAre, FlattenAppend
<1> QED BY <1>1, <1>2, <1>3

(* The parts of chunks are those of one chunk after the other.              *)
LEMMA FlatIs ==
  ASSUME NEW cs \in Seq(Pending)
  PROVE  /\ Flat(cs) \in Seq(Atoms) /\ Flat(<<>>) = <<>>
         /\ \A c \in Pending : Flat(Append(cs, c)) = Flat(cs) \o c.parts
<1>1. Flat(cs) \in Seq(Atoms)
  BY ParcelsAre, FlattenType
<1>2. Flat(<<>>) = <<>>
  <2>1. <<>> \in Seq(Pending) /\ Parcels(<<>>) = <<>> /\ <<>> \in Seq(Seq(Atoms))
    BY DEF Parcels
  <2> QED BY <2>1, ParcelsAre, FlattenType
<1>3. ASSUME NEW c \in Pending PROVE Flat(Append(cs, c)) = Flat(cs) \o c.parts
  <2>1. Append(cs, c) \in Seq(Pending) /\ c.parts \in Seq(Atoms)
    BY DEF Pending
  <2>2. Flat(Append(cs, c)) = FlattenSeq(Append(Parcels(cs), c.parts))
    BY <2>1, ParcelsAre
  <2> QED BY <2>1, <2>2, ParcelsAre, FlattenAppend, ZenonT(60)
<1> QED BY <1>1, <1>2, <1>3

(* A queue's fields.                                                        *)
LEMMA QueuesAre ==
  ASSUME NEW q \in Queues
  PROVE  /\ q.chunks \in Seq(Pending) /\ q.taken \in Nat /\ q.bytes \in Nat
         /\ q.policy \in {"plain", "view", "draining", "sealed"}
         /\ q.spill \in Seq(Letters) /\ q.spill \in Seq(Texts) /\ q.spilled \in Nat
         /\ q.goodbye \in [n : Nat, len : Nat] /\ q.accepted \in Seq(Texts) /\ q.lost \in BOOLEAN
BY LettersAre DEF Queues

(* The pieces, and the stream they make.                                    *)
LEMMA PiecesAre ==
  ASSUME NEW q \in Queues
  PROVE  /\ Pieces(q) \in Seq(Seq(Atoms)) /\ Stream(q) \in Seq(Atoms)
         /\ Len(Pieces(q)) >= Len(q.chunks)
         /\ \E z \in Seq(Atoms) : Stream(q) = Flat(q.chunks) \o z
         /\ Stream(q) = (Flat(q.chunks) \o Whole(q.spill)) \o FlattenSeq(Ending(q))
         /\ Ending(q) \in Seq(Seq(Atoms)) /\ Flat(q.chunks) \in Seq(Atoms) /\ Whole(q.spill) \in Seq(Atoms)
<1> DEFINE a == Parcels(q.chunks)
           b == Bodies(q.spill)
           e == Ending(q)
<1>1. /\ a \in Seq(Seq(Atoms)) /\ Len(a) = Len(q.chunks) /\ FlattenSeq(a) = Flat(q.chunks)
      /\ b \in Seq(Seq(Atoms)) /\ FlattenSeq(b) = Whole(q.spill)
  BY QueuesAre, ParcelsAre, BodiesAre
<1>2. e \in Seq(Seq(Atoms))
  BY QueuesAre, PartsAre DEF Ending
<1>3. Pieces(q) = (a \o b) \o e
  BY DEF Pieces
<1> HIDE DEF a, b, e
<1>4. a \o b \in Seq(Seq(Atoms)) /\ Len(a \o b) = Len(a) + Len(b) /\ Len(b) \in Nat /\ Len(e) \in Nat
      /\ Len(a) \in Nat
  BY <1>1, <1>2, Rejoin, ZenonT(60)
<1> DEFINE c == a \o b
<1> HIDE DEF c
<1>5. c \in Seq(Seq(Atoms)) /\ c \o e \in Seq(Seq(Atoms)) /\ Len(c \o e) = Len(c) + Len(e)
  BY <1>2, <1>4 DEF c
<1>6. FlattenSeq(c) = FlattenSeq(a) \o FlattenSeq(b) /\ FlattenSeq(c \o e) = FlattenSeq(c) \o FlattenSeq(e)
  BY <1>1, <1>2, <1>5, FlattenConcat DEF c
<1>7. FlattenSeq(a) \in Seq(Atoms) /\ FlattenSeq(b) \in Seq(Atoms) /\ FlattenSeq(e) \in Seq(Atoms)
  BY <1>1, <1>2, FlattenType
<1>8. (FlattenSeq(a) \o FlattenSeq(b)) \o FlattenSeq(e) = FlattenSeq(a) \o (FlattenSeq(b) \o FlattenSeq(e))
  <2>1. Joined(FlattenSeq(a), FlattenSeq(b), FlattenSeq(e))
    BY <1>7, AtomsJoin
  <2> QED BY <2>1, Zenon DEF Joined
<1>9. FlattenSeq(b) \o FlattenSeq(e) \in Seq(Atoms)
  BY <1>7, ConcatProperties, Zenon
<1>10. Pieces(q) = c \o e
  BY <1>3 DEF c
<1>11. Stream(q) = (FlattenSeq(a) \o FlattenSeq(b)) \o FlattenSeq(e)
  BY <1>6, <1>10 DEF Stream
<1>12. Stream(q) \in Seq(Atoms)
  BY <1>5, <1>10, FlattenType DEF Stream
<1>13. Len(Pieces(q)) >= Len(q.chunks)
  BY <1>1, <1>4, <1>5, <1>10 DEF c
<1>14. \E z \in Seq(Atoms) : Stream(q) = Flat(q.chunks) \o z
  BY <1>1, <1>8, <1>9, <1>11
<1> QED BY <1>1, <1>2, <1>5, <1>7, <1>10, <1>11, <1>12, <1>13, <1>14 DEF e

(* An end of a message stays one when another is taken on.                  *)
LEMMA BoundaryGrows ==
  ASSUME NEW msgs \in Seq(Texts), NEW m \in Texts
  PROVE  /\ \A w : Boundary(msgs, w) => Boundary(Append(msgs, m), w)
         /\ Boundary(msgs, Whole(msgs))
<1>1. ASSUME NEW w, Boundary(msgs, w) PROVE Boundary(Append(msgs, m), w)
  <2>1. PICK j \in 0 .. Len(msgs) : w = Whole(SubSeq(msgs, 1, j))
    BY <1>1 DEF Boundary
  <2>2. j \in 0 .. Len(Append(msgs, m)) /\ SubSeq(Append(msgs, m), 1, j) = SubSeq(msgs, 1, j)
    OBVIOUS
  <2> QED BY <2>1, <2>2 DEF Boundary
<1>2. Boundary(msgs, Whole(msgs))
  <2>1. Len(msgs) \in 0 .. Len(msgs) /\ SubSeq(msgs, 1, Len(msgs)) = msgs
    OBVIOUS
  <2> QED BY <2>1 DEF Boundary
<1> QED BY <1>1, <1>2

(* One message more is one piece more.                                      *)
LEMMA KeptMore ==
  ASSUME NEW q \in Queues, NEW q2 \in Queues, NEW w \in Seq(Atoms), NEW m \in Texts,
         Kept(q, w, <<>>), Pieces(q2) = Append(Pieces(q), Parts(m)),
         q2.accepted = Append(q.accepted, m), Cut(q) => Cut(q2)
  PROVE  Kept(q2, w, <<>>) /\ Stream(q2) = Stream(q) \o Parts(m)
<1> DEFINE p == Pieces(q)
           acc == q.accepted
<1>1. /\ p \in Seq(Seq(Atoms)) /\ acc \in Seq(Texts) /\ Parts(m) \in Seq(Atoms)
      /\ Append(acc, m) \in Seq(Texts) /\ Stream(q) \in Seq(Atoms)
  BY QueuesAre, PiecesAre, PartsAre, LettersAre
<1>2. Stream(q2) = Stream(q) \o Parts(m)
  BY <1>1, FlattenAppend DEF Stream
<1>3. w \o Stream(q) \in Seq(Atoms) /\ (w \o Stream(q)) \o <<>> = w \o Stream(q)
  BY <1>1
<1>4. Whole(acc) = w \o Stream(q)
  BY <1>3 DEF Kept
<1>5. (w \o Stream(q)) \o Parts(m) = w \o (Stream(q) \o Parts(m))
  <2>1. Joined(w, Stream(q), Parts(m))
    BY <1>1, AtomsJoin
  <2> QED BY <2>1, Zenon DEF Joined
<1>6. Whole(Append(acc, m)) = w \o Stream(q2)
  <2>1. Whole(Append(acc, m)) = Whole(acc) \o Parts(m)
    BY <1>1, WholeIs
  <2> QED BY <1>2, <1>4, <1>5, <2>1, Zenon
<1>7. (w \o Stream(q2)) \o <<>> = w \o Stream(q2)
  <2>1. w \o Stream(q2) \in Seq(Atoms)
    BY <1>1, <1>6, WholeIs
  <2> QED BY <2>1
<1>8. ASSUME NEW i \in 1 .. Len(Pieces(q2))
      PROVE  Boundary(q2.accepted, w \o FlattenSeq(SubSeq(Pieces(q2), 1, i)))
  <2>1. CASE i \in 1 .. Len(p)
    <3>1. SubSeq(Append(p, Parts(m)), 1, i) = SubSeq(p, 1, i)
      BY <1>1, <2>1
    <3>2. Boundary(acc, w \o FlattenSeq(SubSeq(p, 1, i)))
      BY <2>1 DEF Kept
    <3> QED BY <1>1, <3>1, <3>2, BoundaryGrows
  <2>2. CASE i = Len(p) + 1
    <3>1. SubSeq(Append(p, Parts(m)), 1, i) = Append(p, Parts(m))
      BY <1>1, <2>2
    <3>2. w \o FlattenSeq(SubSeq(Pieces(q2), 1, i)) = Whole(Append(acc, m))
      BY <1>6, <3>1 DEF Stream
    <3> QED BY <1>1, <3>2, BoundaryGrows
  <2>3. Len(Append(p, Parts(m))) = Len(p) + 1 /\ Len(p) \in Nat
    BY <1>1
  <2> QED BY <2>1, <2>2, <2>3
<1>9. ASSUME ~Cut(q2) PROVE Boundary(q2.accepted, w)
  <2>1. CASE p = <<>>
    <3>1. Stream(q) = <<>>
      BY <2>1, <1>1, FlattenType DEF Stream
    <3>2. w = Whole(acc)
      BY <1>4, <3>1
    <3> QED BY <1>1, <3>2, BoundaryGrows
  <2>2. CASE p # <<>>
    <3>1. Boundary(acc, w)
      BY <1>9, <2>2 DEF Kept
    <3> QED BY <1>1, <3>1, BoundaryGrows
  <2> QED BY <2>1, <2>2
<1> QED BY <1>2, <1>6, <1>7, <1>8, <1>9 DEF Kept

(* A queue with no file behind it holds all there is.                       *)
LEMMA PlainPieces ==
  ASSUME NEW q \in Queues, q.spill = <<>>, q.policy # "draining"
  PROVE  Pieces(q) = Parcels(q.chunks) /\ Stream(q) = Flat(q.chunks)
<1>1. Parcels(q.chunks) \in Seq(Seq(Atoms)) /\ Flat(q.chunks) = FlattenSeq(Parcels(q.chunks))
  BY QueuesAre, ParcelsAre
<1>2. Bodies(q.spill) = <<>> /\ Ending(q) = <<>>
  BY DEF Bodies, Ending
<1>3. Parcels(q.chunks) \o <<>> = Parcels(q.chunks)
  BY <1>1
<1>4. Pieces(q) = Parcels(q.chunks)
  BY <1>2, <1>3 DEF Pieces
<1> QED BY <1>1, <1>4 DEF Stream

(* What was sent of the queue lies within it.                               *)
LEMMA CountedIs ==
  ASSUME NEW q \in Queues, Counted(q)
  PROVE  /\ q.taken \in 0 .. Len(Flat(q.chunks)) /\ q.taken \in 0 .. Len(Stream(q))
         /\ q.bytes = Len(Flat(q.chunks)) - q.taken /\ Len(Flat(q.chunks)) \in Nat
         /\ From(Flat(q.chunks), q.taken + 1) \in Seq(Atoms)
         /\ q.bytes = Len(From(Flat(q.chunks), q.taken + 1))
<1>1. q.taken \in Nat /\ q.bytes \in Nat /\ Flat(q.chunks) \in Seq(Atoms)
  BY QueuesAre, PiecesAre
<1>2. Len(Flat(q.chunks)) \in Nat /\ q.bytes + q.taken = Len(Flat(q.chunks))
  BY <1>1 DEF Counted
<1>3. PICK z \in Seq(Atoms) : Stream(q) = Flat(q.chunks) \o z
  BY PiecesAre
<1>4. Len(Stream(q)) = Len(Flat(q.chunks)) + Len(z) /\ Len(z) \in Nat
  BY <1>1, <1>3, Rejoin
<1>5. q.taken \in 0 .. Len(Flat(q.chunks)) /\ q.taken \in 0 .. Len(Stream(q))
  BY <1>1, <1>2, <1>4
<1>6. /\ From(Flat(q.chunks), q.taken + 1) \in Seq(Atoms)
      /\ Len(From(Flat(q.chunks), q.taken + 1)) = Len(Flat(q.chunks)) - q.taken
  BY <1>1, <1>5, Split, ZenonT(60)
<1>7. q.bytes = Len(Flat(q.chunks)) - q.taken
  BY <1>1, <1>2
<1> QED BY <1>2, <1>5, <1>6, <1>7, Zenon

(* A message that is put behind the others keeps the line.                  *)
LEMMA LineMore ==
  ASSUME NEW q \in Queues, NEW q2 \in Queues, NEW sent, NEW w \in Seq(Atoms), NEW m \in Texts,
         Counted(q), ~q.lost, ~q2.lost, q2.taken = q.taken, Line(q, sent, <<>>, w),
         Pieces(q2) = Append(Pieces(q), Parts(m)),
         q2.accepted = Append(q.accepted, m), Cut(q) => Cut(q2)
  PROVE  Line(q2, sent, <<>>, w)
<1>1. Kept(q, w, <<>>) /\ sent = w \o SubSeq(Stream(q), 1, q.taken)
  BY DEF Line
<1>2. Kept(q2, w, <<>>) /\ Stream(q2) = Stream(q) \o Parts(m)
  BY <1>1, KeptMore
<1>3. Stream(q) \in Seq(Atoms) /\ Parts(m) \in Seq(Atoms)
  BY PiecesAre, PartsAre, LettersAre
<1>4. SubSeq(Stream(q2), 1, q.taken) = SubSeq(Stream(q), 1, q.taken)
  BY <1>2, <1>3, CountedIs, JoinCut, ZenonT(60)
<1> QED BY <1>1, <1>2, <1>4 DEF Line

(* The head stays the head.                                                 *)
LEMMA HeadOfAppend ==
  ASSUME NEW S, NEW s \in Seq(S), NEW c \in S
  PROVE  Append(s, c) # <<>> /\ Append(s, c)[1] = (IF s = <<>> THEN c ELSE s[1])
<1>1. /\ Append(s, c) \in Seq(S) /\ Len(Append(s, c)) = Len(s) + 1 /\ Append(s, c)[Len(s) + 1] = c
      /\ \A i \in 1 .. Len(s) : Append(s, c)[i] = s[i]
  BY AppendProperties
<1>2. Len(s) \in Nat /\ (s = <<>> <=> Len(s) = 0)
  BY EmptySeq
<1> DEFINE t == Append(s, c)
<1> HIDE DEF t
<1>3. t # <<>>
  <2>1. Len(t) # 0
    BY <1>1, <1>2 DEF t
  <2> QED BY <2>1
<1>4. CASE s = <<>>
  <2>1. Len(s) + 1 = 1
    BY <1>2, <1>4
  <2>2. t[1] = c
    BY <1>1, <2>1, Zenon DEF t
  <2> QED BY <1>3, <1>4, <2>2, Zenon DEF t
<1>5. CASE s # <<>>
  <2>1. 1 \in 1 .. Len(s)
    BY <1>2, <1>5
  <2>2. t[1] = s[1]
    BY <1>1, <2>1, Zenon DEF t
  <2> QED BY <1>3, <1>5, <2>2, Zenon DEF t
<1> QED BY <1>4, <1>5

(* One chunk more.                                                          *)
LEMMA CountedMore ==
  ASSUME NEW q \in Queues, NEW q2 \in Queues, NEW c \in Pending, Counted(q),
         q2.chunks = Append(q.chunks, c), q2.taken = q.taken, q2.bytes = q.bytes + Len(c.parts)
  PROVE  Counted(q2) /\ (Cut(q) => Cut(q2))
<1>1. q.chunks \in Seq(Pending) /\ q.taken \in Nat /\ q.bytes \in Nat /\ c.parts \in Seq(Atoms) \ {<<>>}
  BY QueuesAre DEF Pending
<1>2. Flat(q2.chunks) = Flat(q.chunks) \o c.parts /\ Flat(q.chunks) \in Seq(Atoms)
  BY <1>1, FlatIs
<1>3. /\ Len(Flat(q2.chunks)) = Len(Flat(q.chunks)) + Len(c.parts)
      /\ Len(Flat(q.chunks)) \in Nat /\ Len(c.parts) \in Nat /\ Len(c.parts) # 0
  BY <1>1, <1>2
<1>4. q2.bytes + q2.taken = Len(Flat(q2.chunks))
  <2>1. q.bytes + q.taken = Len(Flat(q.chunks))
    BY Zenon DEF Counted
  <2> DEFINE b == q.bytes
             t == q.taken
             n == Len(c.parts)
             f == Len(Flat(q.chunks))
  <2>2. b \in Nat /\ t \in Nat /\ n \in Nat /\ f \in Nat /\ b + t = f
    BY <1>1, <1>3, <2>1, Zenon
  <2>3. Len(Flat(q2.chunks)) = f + n /\ q2.bytes = b + n /\ q2.taken = t
    BY <1>3, Zenon
  <2> HIDE DEF b, t, n, f
  <2>4. (b + n) + t = f + n
    BY <2>2
  <2> QED BY <2>3, <2>4, Zenon
<1>5. q2.chunks # <<>> /\ q2.chunks[1] = (IF q.chunks = <<>> THEN c ELSE q.chunks[1])
  BY <1>1, HeadOfAppend
<1>6. q2.taken < Len(q2.chunks[1].parts)
  <2>1. CASE q.chunks = <<>>
    BY <1>1, <1>3, <1>5, <2>1 DEF Counted
  <2>2. CASE q.chunks # <<>>
    BY <1>1, <1>5, <2>2 DEF Counted
  <2> QED BY <2>1, <2>2
<1>7. Cut(q) => Cut(q2)
  BY <1>5 DEF Cut
<1> QED BY <1>4, <1>5, <1>6, <1>7 DEF Counted

(* A queue that gave nothing up has its pieces in order.                    *)
LEMMA KeptIs ==
  ASSUME NEW q, NEW sent, NEW rest, QueueInv(q, sent, rest), ~q.lost
  PROVE  q \in Queues /\ Counted(q) /\ Limits(q) /\ \E w \in Seq(Atoms) : Line(q, sent, rest, w)
BY DEF QueueInv, Dropped

(* A chunk with parts is one that can wait.                                 *)
LEMMA PendingIs ==
  ASSUME NEW parts \in Seq(Atoms) \ {<<>>}, NEW tail \in BOOLEAN
  PROVE  Chunk(parts, tail) \in Pending /\ Chunk(parts, tail).parts = parts /\ Chunk(parts, tail).tail = tail
BY DEF Chunk, Pending

(* A chunk that holds a message is put behind the others.                   *)
Behind(q, m, tail, pol) ==
  [Queued(q, Parts(m), tail) EXCEPT !.accepted = Append(q.accepted, m), !.policy = pol]

(* Queue::push that queues, and finish(), keep the invariant.               *)
LEMMA QueuedKeeps ==
  ASSUME NEW q, NEW sent, QueueInv(q, sent, <<>>), ~q.lost, q.spill = <<>>, q.policy # "draining",
         NEW m \in Texts, NEW tail \in BOOLEAN, NEW pol \in {"plain", "view", "sealed"},
         Roomy(q.bytes + m.len - Extra(pol))
  PROVE  QueueInv(Behind(q, m, tail, pol), sent, <<>>)
<1> DEFINE c == Chunk(Parts(m), tail)
           q2 == Behind(q, m, tail, pol)
<1>1. q \in Queues /\ Counted(q) /\ Limits(q)
  BY KeptIs
<1>2. PICK w \in Seq(Atoms) : Line(q, sent, <<>>, w)
  BY KeptIs
<1>3. Parts(m) \in Seq(Atoms) \ {<<>>} /\ Len(Parts(m)) = m.len /\ m.len \in Nat \ {0}
  BY PartsAre, LettersAre DEF Texts
<1>4. c \in Pending /\ c.parts = Parts(m)
  BY <1>3, PendingIs
<1>5. /\ q2 \in Queues /\ q2.chunks = Append(q.chunks, c) /\ q2.taken = q.taken
      /\ q2.bytes = q.bytes + m.len /\ q2.policy = pol /\ q2.spill = <<>> /\ q2.spilled = q.spilled
      /\ q2.accepted = Append(q.accepted, m) /\ q2.lost = q.lost
  <2>1. q.bytes + m.len \in Nat /\ Append(q.chunks, c) \in Seq(Pending) /\ Append(q.accepted, m) \in Seq(Texts)
    BY <1>1, <1>3, <1>4, QueuesAre
  <2>2. q2 = [q EXCEPT !.bytes = q.bytes + m.len, !.chunks = Append(q.chunks, c),
                       !.accepted = Append(q.accepted, m), !.policy = pol]
    BY <1>1, <1>3 DEF Behind, Queued, Queues
  <2> HIDE DEF c, q2
  <2> QED BY <1>1, <2>1, <2>2 DEF Queues
<1> HIDE DEF c, q2
<1>6. Counted(q2) /\ (Cut(q) => Cut(q2))
  <2>1. q2.bytes = q.bytes + Len(c.parts)
    BY <1>3, <1>4, <1>5, Zenon
  <2> QED BY <1>1, <1>4, <1>5, <2>1, CountedMore, Zenon
<1>7. Pieces(q2) = Append(Pieces(q), Parts(m))
  <2>1. Pieces(q) = Parcels(q.chunks) /\ Pieces(q2) = Parcels(q2.chunks)
    BY <1>1, <1>5, PlainPieces
  <2>2. q.chunks \in Seq(Pending)
    BY <1>1, QueuesAre
  <2>3. Parcels(Append(q.chunks, c)) = Append(Parcels(q.chunks), c.parts)
    BY <1>4, <2>2, ParcelsAre
  <2> QED BY <1>4, <1>5, <2>1, <2>3, Zenon
<1>8. Line(q2, sent, <<>>, w)
  BY <1>1, <1>2, <1>5, <1>6, <1>7, LineMore
<1>9. Limits(q2)
  <2>1. Len(Whole(q2.spill)) <= q2.spilled /\ q2.spilled <= Limit
    BY <1>1, <1>5 DEF Limits
  <2>2. Roomy(q2.bytes - Extra(q2.policy))
    <3>1. q2.bytes = q.bytes + m.len /\ q2.policy = pol
      BY <1>5
    <3>2. q.bytes \in Nat /\ m.len \in Nat /\ Extra(pol) \in Nat
      BY <1>1, <1>3, QueuesAre DEF Extra
    <3> QED BY <3>1, <3>2, OutboxAssumption DEF Roomy
  <2> QED BY <1>1, <1>5, <2>1, <2>2 DEF Limits
<1> QED BY <1>5, <1>6, <1>8, <1>9 DEF QueueInv, q2

(* A message goes to the file.                                              *)
LEMMA StoredKeeps ==
  ASSUME NEW q, NEW sent, QueueInv(q, sent, <<>>), q.policy = "view", NEW m \in Letters,
         q.spilled + m.len <= Limit
  PROVE  QueueInv(Stored(q, m), sent, <<>>)
<1> DEFINE q2 == Stored(q, m)
<1>1. q \in Queues /\ ~q.lost /\ Counted(q) /\ Limits(q)
  BY KeptIs DEF QueueInv, Limits
<1>2. PICK w \in Seq(Atoms) : Line(q, sent, <<>>, w)
  BY <1>1, KeptIs
<1>3. m \in Texts /\ Parts(m) \in Seq(Atoms) /\ Len(Parts(m)) = m.len /\ m.len \in Nat
  BY PartsAre, LettersAre DEF Texts
<1>4. /\ q2 \in Queues /\ q2.chunks = q.chunks /\ q2.taken = q.taken /\ q2.bytes = q.bytes
      /\ q2.policy = q.policy /\ q2.spill = Append(q.spill, m) /\ q2.spilled = q.spilled + m.len
      /\ q2.accepted = Append(q.accepted, m) /\ q2.lost = q.lost
  <2>1. /\ Append(q.spill, m) \in Seq(Letters) /\ Append(q.accepted, m) \in Seq(Texts)
        /\ q.spilled + m.len \in Nat
    BY <1>1, <1>3, QueuesAre
  <2> QED BY <1>1, <2>1 DEF Queues, Stored
<1> HIDE DEF q2
<1>5. Counted(q2) /\ (Cut(q) => Cut(q2))
  BY <1>1, <1>4, Zenon DEF Counted, Cut
<1>6. Pieces(q2) = Append(Pieces(q), Parts(m))
  <2> DEFINE a == Parcels(q.chunks)
             b == Bodies(q.spill)
  <2>0. q.chunks \in Seq(Pending) /\ q.spill \in Seq(Texts)
    BY <1>1, QueuesAre
  <2>1. a \in Seq(Seq(Atoms)) /\ b \in Seq(Seq(Atoms)) /\ Bodies(q2.spill) = Append(b, Parts(m))
    BY <1>3, <1>4, <2>0, ParcelsAre, BodiesAre
  <2>2. Ending(q) = <<>> /\ Ending(q2) = <<>>
    BY <1>4 DEF Ending
  <2>3. Pieces(q2) = (a \o Bodies(q2.spill)) \o <<>> /\ Pieces(q) = (a \o b) \o <<>>
    BY <1>4, <2>2, Zenon DEF Pieces
  <2> HIDE DEF a, b
  <2>4. (a \o b) \o <<>> = a \o b
    BY <2>1
  <2>5. a \o Append(b, Parts(m)) = Append(a \o b, Parts(m))
    BY <1>3, <2>1, SMTT(20)
  <2>6. Append(a \o b, Parts(m)) \o <<>> = Append(a \o b, Parts(m))
    BY <1>3, <2>1
  <2> QED BY <2>1, <2>3, <2>4, <2>5, <2>6, Zenon
<1>7. Line(q2, sent, <<>>, w)
  BY <1>1, <1>2, <1>3, <1>4, <1>5, <1>6, LineMore
<1>8. Limits(q2)
  <2>1. q.spill \in Seq(Texts) /\ q.spilled \in Nat /\ Len(Whole(q.spill)) <= q.spilled
    BY <1>1, QueuesAre DEF Limits
  <2>2. Whole(q2.spill) = Whole(q.spill) \o Parts(m) /\ Whole(q.spill) \in Seq(Atoms)
    BY <1>3, <1>4, <2>1, WholeIs
  <2>3. Len(Whole(q2.spill)) = Len(Whole(q.spill)) + m.len /\ Len(Whole(q.spill)) \in Nat
    BY <1>3, <2>2, Rejoin
  <2>4. Len(Whole(q2.spill)) <= q2.spilled
    BY <1>3, <1>4, <2>1, <2>3
  <2>5. q2.spill # <<>>
    <3>1. q.spill \in Seq(Texts) /\ m \in Texts
      BY <1>3, <2>1
    <3>2. Append(q.spill, m) # <<>>
      BY <3>1, AppendProperties
    <3> QED BY <1>4, <3>2
  <2> QED BY <1>1, <1>4, <2>4, <2>5 DEF Limits
<1> QED BY <1>4, <1>5, <1>7, <1>8 DEF QueueInv, q2

(* finish() behind a file: the tail waits for it.                           *)
LEMMA DrainingKeeps ==
  ASSUME NEW q, NEW sent, QueueInv(q, sent, <<>>), q.policy = "view", q.spill # <<>>,
         NEW m \in Texts, m.len = 1,
         NEW q2, q2 = [q EXCEPT !.accepted = Append(q.accepted, m), !.policy = "draining", !.goodbye = m]
  PROVE  QueueInv(q2, sent, <<>>)
<1>1. q \in Queues /\ ~q.lost /\ Counted(q) /\ Limits(q)
  BY KeptIs DEF QueueInv, Limits
<1>2. PICK w \in Seq(Atoms) : Line(q, sent, <<>>, w)
  BY <1>1, KeptIs
<1>3. Parts(m) \in Seq(Atoms) /\ m \in [n : Nat, len : Nat]
  BY PartsAre, LettersAre
<1>4. /\ q2 \in Queues /\ q2.chunks = q.chunks /\ q2.taken = q.taken /\ q2.bytes = q.bytes
      /\ q2.policy = "draining" /\ q2.spill = q.spill /\ q2.spilled = q.spilled
      /\ q2.accepted = Append(q.accepted, m) /\ q2.lost = q.lost /\ q2.goodbye = m
  <2>1. Append(q.accepted, m) \in Seq(Texts)
    BY <1>1, QueuesAre
  <2> QED BY <1>1, <1>3, <2>1 DEF Queues
<1>5. Counted(q2) /\ (Cut(q) => Cut(q2))
  BY <1>1, <1>4, Zenon DEF Counted, Cut
<1>6. Pieces(q2) = Append(Pieces(q), Parts(m))
  <2> DEFINE a == Parcels(q.chunks) \o Bodies(q.spill)
  <2>1. a \in Seq(Seq(Atoms))
    <3>1. Parcels(q.chunks) \in Seq(Seq(Atoms)) /\ Bodies(q.spill) \in Seq(Seq(Atoms))
      BY <1>1, QueuesAre, ParcelsAre, BodiesAre
    <3> QED BY <3>1
  <2>2. Ending(q) = <<>> /\ Ending(q2) = <<Parts(m)>>
    BY <1>4 DEF Ending
  <2>3. Pieces(q2) = a \o <<Parts(m)>> /\ Pieces(q) = a \o <<>>
    BY <1>4, <2>2, Zenon DEF Pieces
  <2> HIDE DEF a
  <2>4. a \o <<>> = a /\ a \o <<Parts(m)>> = Append(a, Parts(m))
    BY <1>3, <2>1
  <2> QED BY <2>3, <2>4, Zenon
<1>7. Line(q2, sent, <<>>, w)
  BY <1>1, <1>2, <1>3, <1>4, <1>5, <1>6, LineMore
<1>8. Limits(q2)
  <2>1. Roomy(q.bytes) /\ q.bytes \in Nat
    <3>1. q.bytes \in Nat /\ Roomy(q.bytes - 0)
      BY <1>1, QueuesAre DEF Limits, Extra
    <3> QED BY <3>1
  <2>2. Roomy(q2.bytes - 2)
    BY <1>4, <2>1, OutboxAssumption DEF Roomy
  <2> QED BY <1>1, <1>4, <2>2 DEF Limits, Extra
<1> QED BY <1>4, <1>5, <1>7, <1>8 DEF QueueInv

(* The stream is cut where a chunk ends.                                    *)
LEMMA StreamCut ==
  ASSUME NEW q \in Queues, NEW k \in 0 .. Len(q.chunks)
  PROVE  /\ SubSeq(Pieces(q), 1, k) = Parcels(SubSeq(q.chunks, 1, k))
         /\ From(Pieces(q), k + 1) = (Parcels(From(q.chunks, k + 1)) \o Bodies(q.spill)) \o Ending(q)
         /\ FlattenSeq(SubSeq(Pieces(q), 1, k)) = Flat(SubSeq(q.chunks, 1, k))
         /\ Flat(SubSeq(q.chunks, 1, k)) \in Seq(Atoms)
         /\ FlattenSeq(From(Pieces(q), k + 1)) \in Seq(Atoms) /\ From(Pieces(q), k + 1) \in Seq(Seq(Atoms))
         /\ Len(From(Pieces(q), k + 1)) = Len(Pieces(q)) - k /\ k \in 0 .. Len(Pieces(q))
         /\ Stream(q) = Flat(SubSeq(q.chunks, 1, k)) \o FlattenSeq(From(Pieces(q), k + 1))
         /\ Flat(q.chunks) = Flat(SubSeq(q.chunks, 1, k)) \o Flat(From(q.chunks, k + 1))
         /\ Flat(From(q.chunks, k + 1)) \in Seq(Atoms)
         /\ SubSeq(q.chunks, 1, k) \in Seq(Pending) /\ From(q.chunks, k + 1) \in Seq(Pending)
         /\ Len(From(q.chunks, k + 1)) = Len(q.chunks) - k
<1> DEFINE cs == q.chunks
           a == SubSeq(cs, 1, k)
           d == From(cs, k + 1)
           b == Bodies(q.spill)
           e == Ending(q)
<1>1. cs \in Seq(Pending) /\ b \in Seq(Seq(Atoms)) /\ e \in Seq(Seq(Atoms))
  <2>1. cs \in Seq(Pending) /\ q.spill \in Seq(Texts)
    BY QueuesAre
  <2>2. b \in Seq(Seq(Atoms))
    BY <2>1, BodiesAre
  <2>3. e \in Seq(Seq(Atoms))
    BY PiecesAre
  <2> QED BY <2>1, <2>2, <2>3
<1>2. a \in Seq(Pending) /\ d \in Seq(Pending) /\ cs = a \o d /\ Len(a) = k /\ Len(d) = Len(cs) - k /\ Len(cs) \in Nat
  <2>1. k \in 0 .. Len(cs) /\ Len(cs) \in Nat
    BY <1>1
  <2> HIDE DEF cs
  <2>2. /\ SubSeq(cs, 1, k) \in Seq(Pending) /\ Len(SubSeq(cs, 1, k)) = k
        /\ From(cs, k + 1) \in Seq(Pending) /\ Len(From(cs, k + 1)) = Len(cs) - k
        /\ cs = SubSeq(cs, 1, k) \o From(cs, k + 1)
    BY <1>1, <2>1, Split, ZenonT(60)
  <2> QED BY <2>1, <2>2, Zenon
<1>3. /\ Parcels(a) = SubSeq(Parcels(cs), 1, k) /\ Parcels(d) = From(Parcels(cs), k + 1)
      /\ Parcels(cs) \in Seq(Seq(Atoms)) /\ Len(Parcels(cs)) = Len(cs)
      /\ Parcels(a) \in Seq(Seq(Atoms)) /\ Parcels(d) \in Seq(Seq(Atoms))
      /\ FlattenSeq(Parcels(a)) = Flat(a) /\ FlattenSeq(Parcels(d)) = Flat(d) /\ FlattenSeq(Parcels(cs)) = Flat(cs)
  <2>0. \A i \in Nat \ {0}, j \in 0 .. Len(cs) : Parcels(SubSeq(cs, i, j)) = SubSeq(Parcels(cs), i, j)
    BY <1>1, ParcelsAre
  <2>1. Parcels(SubSeq(cs, 1, k)) = SubSeq(Parcels(cs), 1, k)
    BY <1>2, <2>0
  <2>2. Parcels(SubSeq(cs, k + 1, Len(cs))) = SubSeq(Parcels(cs), k + 1, Len(cs))
    <3>1. k + 1 \in Nat \ {0} /\ Len(cs) \in 0 .. Len(cs)
      BY <1>2
    <3> HIDE DEF cs
    <3> QED BY <2>0, <3>1
  <2>3. /\ Parcels(cs) \in Seq(Seq(Atoms)) /\ Len(Parcels(cs)) = Len(cs) /\ FlattenSeq(Parcels(cs)) = Flat(cs)
        /\ Parcels(a) \in Seq(Seq(Atoms)) /\ Parcels(d) \in Seq(Seq(Atoms))
        /\ FlattenSeq(Parcels(a)) = Flat(a) /\ FlattenSeq(Parcels(d)) = Flat(d)
    <3> HIDE DEF cs, a, d
    <3> QED BY <1>1, <1>2, ParcelsAre
  <2> QED BY <2>1, <2>2, <2>3 DEF From
<1>4. Pieces(q) = (Parcels(cs) \o b) \o e
  BY DEF Pieces
<1>5. k \in 0 .. Len(Parcels(cs))
  BY <1>2, <1>3
<1> HIDE DEF cs, a, d, b, e
<1>6. /\ SubSeq(Parcels(cs) \o b, 1, k) = Parcels(a)
      /\ From(Parcels(cs) \o b, k + 1) = Parcels(d) \o b
  BY <1>1, <1>3, <1>5, JoinCut
<1> DEFINE pb == Parcels(cs) \o b
<1>7. pb \in Seq(Seq(Atoms)) /\ k \in 0 .. Len(pb)
  <2>1. pb \in Seq(Seq(Atoms)) /\ Len(pb) = Len(Parcels(cs)) + Len(b) /\ Len(b) \in Nat
    <3>1. Parcels(cs) \in Seq(Seq(Atoms)) /\ b \in Seq(Seq(Atoms))
      BY <1>1, <1>3
    <3> QED BY <3>1, Rejoin
  <2> QED BY <1>2, <1>5, <2>1
<1>8. Pieces(q) = pb \o e
  BY <1>4
<1>9. SubSeq(pb, 1, k) = Parcels(a) /\ From(pb, k + 1) = Parcels(d) \o b
  BY <1>6
<1> HIDE DEF pb
<1>10. /\ SubSeq(Pieces(q), 1, k) = Parcels(a)
       /\ From(Pieces(q), k + 1) = (Parcels(d) \o b) \o e
  <2>1. SubSeq(pb \o e, 1, k) = SubSeq(pb, 1, k) /\ From(pb \o e, k + 1) = From(pb, k + 1) \o e
    BY <1>1, <1>7, JoinCut
  <2> QED BY <1>8, <1>9, <2>1, Zenon
<1>11. k \in 0 .. Len(Pieces(q)) /\ Pieces(q) \in Seq(Seq(Atoms))
  <2>1. Len(Pieces(q)) >= Len(cs) /\ Pieces(q) \in Seq(Seq(Atoms))
    BY PiecesAre DEF cs
  <2> QED BY <1>2, <2>1 DEF cs
<1>12. /\ SubSeq(Pieces(q), 1, k) \in Seq(Seq(Atoms)) /\ From(Pieces(q), k + 1) \in Seq(Seq(Atoms))
       /\ Pieces(q) = SubSeq(Pieces(q), 1, k) \o From(Pieces(q), k + 1)
       /\ Len(From(Pieces(q), k + 1)) = Len(Pieces(q)) - k
  BY <1>11, Split, ZenonT(60)
<1>13. Stream(q) = FlattenSeq(SubSeq(Pieces(q), 1, k)) \o FlattenSeq(From(Pieces(q), k + 1))
  BY <1>12, FlattenConcat DEF Stream
<1>14. /\ FlattenSeq(SubSeq(Pieces(q), 1, k)) = Flat(a) /\ Flat(a) \in Seq(Atoms) /\ Flat(d) \in Seq(Atoms)
       /\ FlattenSeq(From(Pieces(q), k + 1)) \in Seq(Atoms)
  BY <1>2, <1>3, <1>10, <1>12, FlattenType, FlatIs
<1>15. Flat(cs) = Flat(a) \o Flat(d)
  <2>1. Parcels(cs) = SubSeq(Parcels(cs), 1, k) \o From(Parcels(cs), k + 1)
    BY <1>3, <1>5, Split, ZenonT(60)
  <2>2. Parcels(cs) = Parcels(a) \o Parcels(d)
    BY <1>3, <2>1, Zenon
  <2>3. FlattenSeq(Parcels(a) \o Parcels(d)) = FlattenSeq(Parcels(a)) \o FlattenSeq(Parcels(d))
    BY <1>3, FlattenConcat
  <2> QED BY <1>3, <2>2, <2>3, Zenon
<1> QED BY <1>2, <1>10, <1>11, <1>12, <1>13, <1>14, <1>15, Zenon DEF cs, a, d, b, e

(* The first part of a joined sequence is a prefix of it.                   *)
LEMMA PrefixIs ==
  ASSUME NEW E, NEW x \in Seq(E), NEW y \in Seq(E)
  PROVE  IsPrefix(x, x \o y)
<1>1. Len(x \o y) = Len(x) + Len(y) /\ SubSeq(x \o y, 1, Len(x)) = x /\ Len(x) \in Nat /\ Len(y) \in Nat
  BY Rejoin
<1>2. SubSeq(x, 1, Len(x)) = x
  OBVIOUS
<1> QED BY <1>1, <1>2 DEF IsPrefix

(* The first element of a sequence, as a sequence.                          *)
LEMMA FirstOne ==
  ASSUME NEW S, NEW t \in Seq(S), t # <<>>
  PROVE  SubSeq(t, 1, 1) = Append(<<>>, t[1])
<1>1. Len(t) \in Nat \ {0} /\ t[1] \in S
  BY EmptySeq, ElementOfSeq
<1>2. SubSeq(t, 1, 1) \in Seq(S) /\ Len(SubSeq(t, 1, 1)) = 1 /\ SubSeq(t, 1, 1)[1] = t[1]
  BY <1>1, SubSeqProperties
<1>3. Append(<<>>, t[1]) \in Seq(S) /\ Len(Append(<<>>, t[1])) = 1 /\ Append(<<>>, t[1])[1] = t[1]
  BY <1>1
<1> DEFINE a == SubSeq(t, 1, 1)
           b == Append(<<>>, t[1])
<1> HIDE DEF a, b
<1>4. a \in Seq(S) /\ b \in Seq(S) /\ Len(a) = Len(b) /\ \A i \in 1 .. Len(a) : a[i] = b[i]
  BY <1>2, <1>3 DEF a, b
<1>5. a = b
  BY <1>4, SeqEqual, Zenon
<1> QED BY <1>5 DEF a, b

(* overflow(): of a view the chunk in flight and the farewell remain, of    *)
(* any other queue nothing.                                                 *)
LEMMA OverflowKeeps ==
  ASSUME NEW q, NEW sent \in Seq(Atoms), QueueInv(q, sent, <<>>), ~q.lost
  PROVE  QueueInv(Overflow(q), sent, <<>>) /\ Overflow(q).policy = "sealed"
<1> DEFINE o == Overflow(q)
           all == Whole(q.accepted)
           s == Stream(q)
<1>1. q \in Queues /\ Counted(q) /\ Limits(q)
  BY KeptIs
<1>2. PICK w \in Seq(Atoms) : Line(q, sent, <<>>, w)
  BY KeptIs
<1>3. /\ q.chunks \in Seq(Pending) /\ q.taken \in Nat /\ q.bytes \in Nat /\ q.accepted \in Seq(Texts)
      /\ q.spilled \in Nat /\ all \in Seq(Atoms) /\ s \in Seq(Atoms)
      /\ q.taken \in 0 .. Len(s) /\ Len(Flat(q.chunks)) \in Nat
      /\ q.bytes = Len(Flat(q.chunks)) - q.taken
  <2>1. /\ q.chunks \in Seq(Pending) /\ q.taken \in Nat /\ q.bytes \in Nat /\ q.accepted \in Seq(Texts)
        /\ q.spilled \in Nat
    BY <1>1, QueuesAre
  <2>2. all \in Seq(Atoms) /\ s \in Seq(Atoms)
    BY <1>1, <2>1, WholeIs, PiecesAre
  <2>3. /\ q.taken \in 0 .. Len(s) /\ Len(Flat(q.chunks)) \in Nat
        /\ q.bytes = Len(Flat(q.chunks)) - q.taken
    BY <1>1, CountedIs
  <2> QED BY <2>1, <2>2, <2>3
<1>4. sent = w \o SubSeq(s, 1, q.taken) /\ Kept(q, w, <<>>)
  BY <1>2 DEF Line
<1>5. all = w \o s
  <2>1. all = (w \o s) \o <<>>
    BY <1>4 DEF Kept
  <2>2. (w \o s) \o <<>> = w \o s
    <3>1. w \o s \in Seq(Atoms)
      BY <1>3
    <3> HIDE DEF s
    <3> QED BY <3>1
  <2> QED BY <2>1, <2>2, Zenon
<1> HIDE DEF s, all
<1>6. CASE q.policy # "view"
  <2>1. o = [q EXCEPT !.policy = "sealed", !.spill = <<>>, !.goodbye = NoTail,
                      !.chunks = <<>>, !.lost = TRUE, !.bytes = 0]
    BY <1>6 DEF Overflow
  <2>2. /\ o \in Queues /\ o.policy = "sealed" /\ o.spill = <<>> /\ o.chunks = <<>> /\ o.lost /\ o.bytes = 0
        /\ o.accepted = q.accepted /\ o.spilled = q.spilled
    <3>1. NoTail \in [n : Nat, len : Nat] /\ <<>> \in Seq(Letters) /\ <<>> \in Seq(Pending)
      BY DEF NoTail, Msg
    <3> HIDE DEF o
    <3> QED BY <1>1, <2>1, <3>1 DEF Queues
  <2>3. IsPrefix(sent, all)
    <3>1. SubSeq(s, 1, q.taken) \in Seq(Atoms) /\ From(s, q.taken + 1) \in Seq(Atoms)
          /\ s = SubSeq(s, 1, q.taken) \o From(s, q.taken + 1)
      BY <1>3, Split, ZenonT(60)
    <3>2. w \o (SubSeq(s, 1, q.taken) \o From(s, q.taken + 1))
            = (w \o SubSeq(s, 1, q.taken)) \o From(s, q.taken + 1)
      <4>1. Joined(w, SubSeq(s, 1, q.taken), From(s, q.taken + 1))
        BY <3>1, AtomsJoin
      <4> QED BY <4>1, Zenon DEF Joined
    <3>3. all = sent \o From(s, q.taken + 1)
      BY <1>4, <1>5, <3>1, <3>2, Zenon
    <3> QED BY <3>1, <3>3, PrefixIs
  <2>4. Limits(o)
    <3>1. Whole(<<>>) = <<>> /\ Len(<<>>) = 0
      BY <1>3, WholeIs
    <3>2. Roomy(0 - 2)
      BY OutboxAssumption DEF Roomy
    <3>3. q.spilled <= Limit
      BY <1>1 DEF Limits
    <3> HIDE DEF o
    <3> QED BY <1>3, <2>2, <3>1, <3>2, <3>3 DEF Limits, Extra
  <2>5. Dropped(o, sent, <<>>)
    BY <2>2, <2>3 DEF Dropped, all
  <2> QED BY <2>2, <2>4, <2>5 DEF QueueInv
<1>7. CASE q.policy = "view"
  <2> DEFINE fly  == InFlight(q)
             kept == IF fly THEN <<q.chunks[1]>> ELSE <<>>
             x    == IF fly THEN q.chunks[1].parts ELSE <<>>
             f    == Parts(Farewell)
             left == Len(x) - q.taken
  <2>1. f \in Seq(Atoms) \ {<<>>} /\ Len(f) = 2 /\ Farewell \in Texts
    <3>1. Farewell \in Texts /\ Farewell.len = 2 /\ Farewell \in [n : Nat, len : Nat]
      BY DEF Farewell, Msg, Texts
    <3>2. f \in Seq(Atoms) /\ Len(f) = 2
      BY <3>1, PartsAre
    <3>3. f # <<>>
      BY <3>1, PartsAre
    <3> QED BY <3>1, <3>2, <3>3
  <2>2. fly => q.chunks # <<>> /\ q.chunks[1] \in Pending /\ x \in Seq(Atoms) \ {<<>>} /\ q.taken < Len(x)
    <3>1. fly => q.chunks # <<>>
      BY DEF InFlight
    <3>2. fly => 1 \in 1 .. Len(q.chunks)
      BY <1>3, <3>1
    <3>3. fly => q.chunks[1] \in Pending /\ q.chunks[1].parts \in Seq(Atoms) \ {<<>>}
      <4>1. \A i \in 1 .. Len(q.chunks) : q.chunks[i] \in Pending /\ q.chunks[i].parts \in Seq(Atoms) \ {<<>>}
        BY <1>3, ParcelsAre, ElementOfSeq
      <4> QED BY <3>2, <4>1
    <3>4. q.chunks # <<>> => q.taken < Len(q.chunks[1].parts)
      BY <1>1 DEF Counted
    <3> QED BY <3>1, <3>3, <3>4
  <2>3. ~fly => q.taken = 0 /\ x = <<>> /\ ~Cut(q)
    <3>1. q.chunks = <<>> => q.taken = 0
      BY <1>1 DEF Counted
    <3>2. ~fly => q.taken = 0
      BY <1>3, <3>1 DEF InFlight
    <3>3. ~fly => ~Cut(q)
      BY <1>3 DEF InFlight, Cut
    <3> QED BY <3>2, <3>3
  <2>4. x \in Seq(Atoms) /\ Len(x) \in Nat /\ q.taken \in 0 .. Len(x) /\ left \in Nat
    <3>1. CASE fly
      <4>1. x \in Seq(Atoms) /\ q.taken < Len(x)
        BY <2>2, <3>1
      <4> HIDE DEF x
      <4> QED BY <1>3, <4>1
    <3>2. CASE ~fly
      <4>1. x = <<>> /\ q.taken = 0
        BY <2>3, <3>2, Zenon
      <4> HIDE DEF x
      <4> QED BY <4>1
    <3> QED BY <3>1, <3>2
  <2>5. /\ o.policy = "sealed" /\ o.spill = <<>> /\ o.chunks = Append(kept, Chunk(f, FALSE)) /\ o.lost
        /\ o.bytes = (IF fly THEN left ELSE 0) + Len(f)
        /\ o.accepted = q.accepted /\ o.spilled = q.spilled /\ o.taken = q.taken
        /\ o = [q EXCEPT !.policy = "sealed", !.spill = <<>>, !.goodbye = NoTail,
                         !.chunks = Append(kept, Chunk(f, FALSE)), !.lost = TRUE,
                         !.bytes = (IF fly THEN left ELSE 0) + Len(f)]
    <3>1. fly => Head(q.chunks) = q.chunks[1]
      BY <1>3, <2>2
    <3>2. CASE fly
      BY <1>1, <1>7, <3>1, <3>2 DEF Overflow, Queued, Queues
    <3>3. CASE ~fly
      BY <1>1, <1>7, <3>3 DEF Overflow, Queued, Queues
    <3> QED BY <3>2, <3>3
  <2> DEFINE c == Chunk(f, FALSE)
  <2>6. c \in Pending /\ c.parts = f /\ kept \in Seq(Pending)
    <3>1. c \in Pending /\ c.parts = f
      BY <2>1, PendingIs
    <3>2. kept \in Seq(Pending)
      BY <2>2
    <3> QED BY <3>1, <3>2
  <2>7. o \in Queues
    <3>1. NoTail \in [n : Nat, len : Nat] /\ <<>> \in Seq(Letters)
      BY DEF NoTail, Msg
    <3>2. Append(kept, c) \in Seq(Pending)
      <4> HIDE DEF kept, c
      <4> QED BY <2>6
    <3>3. (IF fly THEN left ELSE 0) + Len(f) \in Nat
      BY <2>1, <2>4
    <3> DEFINE n == (IF fly THEN left ELSE 0) + Len(f)
               cs == Append(kept, c)
    <3>4. /\ o = [q EXCEPT !.policy = "sealed", !.spill = <<>>, !.goodbye = NoTail,
                           !.chunks = cs, !.lost = TRUE, !.bytes = n]
          /\ n \in Nat /\ cs \in Seq(Pending)
      BY <2>5, <3>2, <3>3, Zenon
    <3> HIDE DEF o, cs, n
    <3> QED BY <1>1, <3>1, <3>4 DEF Queues
  <2>8. fly => /\ 1 \in 0 .. Len(q.chunks) /\ 1 \in 1 .. Len(Pieces(q))
               /\ Flat(SubSeq(q.chunks, 1, 1)) = x
    <3>1. SUFFICES ASSUME fly
                   PROVE  /\ 1 \in 0 .. Len(q.chunks) /\ 1 \in 1 .. Len(Pieces(q))
                          /\ Flat(SubSeq(q.chunks, 1, 1)) = x
      OBVIOUS
    <3>2. q.chunks # <<>> /\ q.chunks[1] \in Pending /\ x = q.chunks[1].parts /\ x \in Seq(Atoms)
      BY <2>2, <3>1
    <3>3. 1 \in 0 .. Len(q.chunks)
      BY <1>3, <3>2
    <3>4. 1 \in 0 .. Len(Pieces(q)) /\ Pieces(q) \in Seq(Seq(Atoms))
      BY <1>1, <3>3, StreamCut, PiecesAre
    <3>5. SubSeq(q.chunks, 1, 1) = Append(<<>>, q.chunks[1])
      BY <1>3, <3>2, FirstOne
    <3>6. Flat(Append(<<>>, q.chunks[1])) = Flat(<<>>) \o q.chunks[1].parts /\ Flat(<<>>) = <<>>
      <4>1. <<>> \in Seq(Pending)
        OBVIOUS
      <4> QED BY <3>2, <4>1, FlatIs
    <3>7. <<>> \o x = x
      BY <3>2
    <3>8. 1 \in 1 .. Len(Pieces(q))
      BY <3>4
    <3> QED BY <3>2, <3>3, <3>5, <3>6, <3>7, <3>8, Zenon
  <2>9. Boundary(q.accepted, w \o x)
    <3>1. CASE fly
      <4>1. Boundary(q.accepted, w \o FlattenSeq(SubSeq(Pieces(q), 1, 1)))
        BY <1>4, <2>8, <3>1 DEF Kept
      <4>2. FlattenSeq(SubSeq(Pieces(q), 1, 1)) = x
        BY <1>1, <2>8, <3>1, StreamCut
      <4> QED BY <4>1, <4>2, Zenon
    <3>2. CASE ~fly
      <4>1. w \o x = w
        BY <2>3, <3>2
      <4>2. CASE Pieces(q) = <<>>
        <5>1. s = <<>>
          BY <1>1, <4>2, PiecesAre, FlattenType DEF s, Stream
        <5>2. w = all
          BY <1>5, <5>1
        <5>3. Boundary(q.accepted, all)
          BY <1>3, <2>1, BoundaryGrows, Zenon DEF all
        <5> QED BY <4>1, <5>2, <5>3, Zenon
      <4>3. CASE Pieces(q) # <<>>
        BY <1>4, <2>3, <3>2, <4>1, <4>3 DEF Kept
      <4> QED BY <4>2, <4>3
    <3> QED BY <3>1, <3>2
  <2>10. Stream(o) = x \o f /\ Flat(o.chunks) = x \o f
    <3>1. Flat(kept) = x
      <4>1. CASE fly
        <5>1. kept = SubSeq(q.chunks, 1, 1)
          BY <1>3, <2>2, <4>1
        <5> QED BY <2>8, <4>1, <5>1
      <4>2. CASE ~fly
        BY <2>3, <2>6, <4>2, FlatIs
      <4> QED BY <4>1, <4>2
    <3>2. Flat(Append(kept, c)) = Flat(kept) \o c.parts
      <4> HIDE DEF kept, c
      <4> QED BY <2>6, FlatIs
    <3>3. Stream(o) = Flat(o.chunks)
      BY <2>5, <2>7, PlainPieces
    <3> QED BY <2>5, <2>6, <3>1, <3>2, <3>3, Zenon
  <2>11. SubSeq(s, 1, q.taken) = SubSeq(x \o f, 1, q.taken)
    <3>1. SubSeq(x \o f, 1, q.taken) = SubSeq(x, 1, q.taken)
      <4> HIDE DEF f, x
      <4> QED BY <2>1, <2>4, JoinCut
    <3>2. CASE fly
      <4>1. s = Flat(SubSeq(q.chunks, 1, 1)) \o FlattenSeq(From(Pieces(q), 1 + 1))
            /\ FlattenSeq(From(Pieces(q), 1 + 1)) \in Seq(Atoms)
        BY <1>1, <2>8, <3>2, StreamCut, Zenon DEF s
      <4> DEFINE z == FlattenSeq(From(Pieces(q), 1 + 1))
      <4>2. s = x \o z /\ z \in Seq(Atoms)
        BY <2>8, <3>2, <4>1, Zenon
      <4> HIDE DEF z, x
      <4>3. SubSeq(x \o z, 1, q.taken) = SubSeq(x, 1, q.taken)
        BY <2>4, <4>2, JoinCut
      <4> QED BY <3>1, <4>2, <4>3, Zenon
    <3>3. CASE ~fly
      <4>1. q.taken = 0
        BY <2>3, <3>3
      <4>2. SubSeq(s, 1, 0) = <<>> /\ SubSeq(x, 1, 0) = <<>>
        BY <1>3, <2>4, SubSeqEmpty
      <4> QED BY <3>1, <4>1, <4>2, Zenon
    <3> QED BY <3>2, <3>3
  <2>12. Line(o, sent, <<>>, w)
    <3>1. PICK j \in 0 .. Len(q.accepted) : w \o x = Whole(SubSeq(q.accepted, 1, j))
      BY <2>9 DEF Boundary
    <3>2. SubSeq(q.accepted, 1, j) \in Seq(Texts)
      BY <1>3, Split
    <3>3. Whole(Append(SubSeq(q.accepted, 1, j), Farewell)) = (w \o x) \o f
      BY <2>1, <3>1, <3>2, WholeIs
    <3>4. (w \o x) \o f = w \o (x \o f)
      <4> HIDE DEF x, f
      <4>1. Joined(w, x, f)
        BY <2>1, <2>4, AtomsJoin
      <4> QED BY <4>1, Zenon DEF Joined
    <3>5. Given(o, w, <<>>)
      <4>1. w \o Stream(o) = Whole(Append(SubSeq(o.accepted, 1, j), Farewell)) /\ j \in 0 .. Len(o.accepted)
        BY <2>5, <2>10, <3>3, <3>4
      <4>2. o.policy = "sealed" /\ o.spill = <<>>
        BY <2>5
      <4> HIDE DEF o
      <4> QED BY <4>1, <4>2 DEF Given
    <3>6. o.lost /\ o.taken = q.taken
      BY <2>5
    <3>7. sent = w \o SubSeq(Stream(o), 1, o.taken)
      BY <1>4, <2>10, <2>11, <3>6, Zenon
    <3> QED BY <3>5, <3>6, <3>7 DEF Line
  <2>13. Counted(o)
    <3>1. Len(x \o f) = Len(x) + Len(f)
      <4> HIDE DEF x, f
      <4> QED BY <2>1, <2>4, Rejoin, ZenonT(60)
    <3>2. o.bytes + o.taken = Len(Flat(o.chunks))
      <4>1. CASE fly
        <5>1. o.bytes = left + Len(f) /\ o.taken = q.taken
          BY <2>5, <4>1
        <5>2. o.taken \in Nat /\ Len(Flat(o.chunks)) = Len(x) + Len(f) /\ o.bytes = (Len(x) - o.taken) + Len(f)
          BY <1>3, <2>10, <3>1, <5>1
        <5>3. Len(x) \in Nat /\ Len(f) = 2
          BY <2>1, <2>4
        <5> HIDE DEF o, x, f
        <5> QED BY <5>2, <5>3
      <4>2. CASE ~fly
        <5>1. o.bytes = 0 + Len(f) /\ o.taken = 0 /\ Len(x) = 0
          BY <2>3, <2>5, <4>2
        <5> QED BY <2>1, <2>10, <3>1, <5>1
      <4> QED BY <4>1, <4>2
    <3>3. o.chunks # <<>> /\ o.chunks[1] = IF fly THEN q.chunks[1] ELSE c
      <4>1. o.chunks = Append(kept, c)
        BY <2>5
      <4>2. fly => kept = <<q.chunks[1]>>
        OBVIOUS
      <4>3. ~fly => kept = <<>>
        OBVIOUS
      <4>4. fly => kept # <<>> /\ kept[1] = q.chunks[1]
        BY <4>2
      <4> HIDE DEF o, c, kept, fly
      <4> DEFINE t == Append(kept, c)
      <4>5. t # <<>> /\ t[1] = (IF kept = <<>> THEN c ELSE kept[1])
        BY <2>6, HeadOfAppend
      <4> HIDE DEF t
      <4>6. o.chunks = t
        BY <4>1, Zenon DEF t
      <4> QED BY <4>3, <4>4, <4>5, <4>6
    <3>4. o.taken < Len(o.chunks[1].parts)
      <4>1. CASE fly
        BY <2>2, <2>5, <3>3, <4>1
      <4>2. CASE ~fly
        <5>1. o.taken = 0 /\ o.chunks[1] = c
          BY <2>3, <2>5, <3>3, <4>2
        <5>2. Len(c.parts) = 2
          BY <2>1, <2>6
        <5> HIDE DEF o, c
        <5> QED BY <5>1, <5>2
      <4> QED BY <4>1, <4>2
    <3> QED BY <3>2, <3>3, <3>4 DEF Counted
  <2>14. Limits(o)
    <3>1. Whole(<<>>) = <<>> /\ Len(<<>>) = 0
      BY <1>3, WholeIs
    <3>2. Roomy(q.bytes - 0)
      BY <1>1, <1>7 DEF Limits, Extra
    <3>3. (IF fly THEN left ELSE 0) <= q.bytes
      <4>1. CASE fly
        <5>1. Flat(q.chunks) = Flat(SubSeq(q.chunks, 1, 1)) \o Flat(From(q.chunks, 1 + 1))
              /\ Flat(From(q.chunks, 1 + 1)) \in Seq(Atoms)
          BY <1>1, <2>8, <4>1, StreamCut, Zenon
        <5>2. Len(Flat(q.chunks)) = Len(x) + Len(Flat(From(q.chunks, 1 + 1)))
              /\ Len(Flat(From(q.chunks, 1 + 1))) \in Nat
          <6>1. x = Flat(SubSeq(q.chunks, 1, 1))
            BY <2>8, <4>1
          <6> HIDE DEF x
          <6> QED BY <2>4, <5>1, <6>1, Rejoin
        <5>3. Len(x) \in Nat /\ q.taken \in Nat /\ q.bytes = Len(Flat(q.chunks)) - q.taken
          BY <1>3, <2>4
        <5>4. Len(x) - q.taken <= q.bytes
          <6> HIDE DEF x
          <6> QED BY <5>2, <5>3
        <5> QED BY <4>1, <5>4
      <4>2. CASE ~fly
        BY <1>3, <4>2
      <4> QED BY <4>1, <4>2
    <3>4. Roomy(o.bytes - 2)
      <4>1. o.bytes = (IF fly THEN left ELSE 0) + 2
        BY <2>1, <2>5
      <4> DEFINE n == IF fly THEN left ELSE 0
      <4>2. n <= q.bytes /\ o.bytes = n + 2 /\ n \in Nat
        BY <2>4, <3>3, <4>1
      <4> HIDE DEF n
      <4>3. o.bytes - 2 = n
        BY <4>2
      <4> QED BY <1>3, <3>2, <4>2, <4>3, OutboxAssumption DEF Roomy
    <3>5. q.spilled <= Limit
      BY <1>1 DEF Limits
    <3>6. /\ o.policy = "sealed" /\ o.spill = <<>> /\ o.spilled = q.spilled /\ o.lost
      BY <2>5
    <3> HIDE DEF o
    <3> QED BY <1>3, <3>1, <3>4, <3>5, <3>6 DEF Limits, Extra
  <2>15. QueueInv(o, sent, <<>>)
    <3> HIDE DEF o
    <3> QED BY <2>7, <2>12, <2>13, <2>14 DEF QueueInv
  <2> QED BY <2>5, <2>15
<1> QED BY <1>6, <1>7

(* A bounded set of numbers has a last one in a row.                        *)
LEMMA LastIn ==
  ASSUME NEW n \in Nat, NEW T \in SUBSET (0 .. n), NEW a \in T
  PROVE  \E k \in T : k < n => k + 1 \notin T
<1> SUFFICES ASSUME \A k \in T : k < n /\ k + 1 \in T
             PROVE  FALSE
  OBVIOUS
<1> DEFINE U == {i \in Nat : a + i \in T}
<1>1. 0 \in U /\ a \in Nat
  OBVIOUS
<1>2. ASSUME NEW i \in Nat, i \in U PROVE i + 1 \in U
  <2>1. (a + i) + 1 \in T
    BY <1>2
  <2>2. (a + i) + 1 = a + (i + 1)
    BY <1>1
  <2> QED BY <2>1, <2>2
<1>3. \A i \in Nat : i \in U => i + 1 \in U
  BY <1>2
<1> HIDE DEF U
<1>4. Nat \subseteq U
  BY <1>1, <1>3, NatInduct, Zenon
<1>5. a + (n + 1) \in T
  BY <1>4 DEF U
<1> QED BY <1>1, <1>5

(* Of growing counts one is the last that is not beyond a total.            *)
LEMMA LastWithin ==
  ASSUME NEW n \in Nat, NEW total \in Nat, NEW H \in [0 .. n -> Nat], H[0] = 0
  PROVE  \E k \in 0 .. n : H[k] <= total /\ (k < n => total < H[k + 1])
<1> DEFINE T == {k \in 0 .. n : H[k] <= total}
<1>1. T \in SUBSET (0 .. n) /\ 0 \in T
  OBVIOUS
<1> HIDE DEF T
<1>2. PICK k \in T : k < n => k + 1 \notin T
  BY <1>1, LastIn
<1>3. k \in 0 .. n /\ H[k] <= total
  BY <1>2 DEF T
<1>4. k < n => k + 1 \in 0 .. n /\ H[k + 1] \in Nat
  BY <1>3
<1>5. k < n => ~(H[k + 1] <= total)
  BY <1>2, <1>3, <1>4 DEF T
<1>6. k < n => total < H[k + 1]
  BY <1>4, <1>5
<1> QED BY <1>3, <1>6

(* written(): the chunks up to the one that the socket came to leave.       *)
Held(q, k) == Len(Flat(SubSeq(q.chunks, 1, k)))

Advanced(q, count, k) ==
  [q EXCEPT !.chunks = From(q.chunks, k + 1), !.taken = (q.taken + count) - Held(q, k),
            !.bytes = q.bytes - count]

(* Written drops the chunks that end before the count, and no other.        *)
LEMMA WrittenIs ==
  ASSUME NEW q \in Queues, Counted(q), NEW count \in 1 .. q.bytes
  PROVE  \E k \in 0 .. Len(q.chunks) :
           /\ Held(q, k) <= q.taken + count
           /\ k < Len(q.chunks) => q.taken + count < Held(q, k + 1)
           /\ Written(q, count) = Advanced(q, count, k)
<1> DEFINE n == Len(q.chunks)
           total == q.taken + count
           H == [k \in 0 .. n |-> Held(q, k)]
           P(k) == Held(q, k) <= total /\ (k < n => total < Held(q, k + 1))
           d == CHOOSE k \in 0 .. n : P(k)
<1>1. q.chunks \in Seq(Pending) /\ n \in Nat /\ total \in Nat
  BY QueuesAre
<1>2. \A k \in 0 .. n : Held(q, k) \in Nat
  <2> TAKE k \in 0 .. n
  <2>1. Flat(SubSeq(q.chunks, 1, k)) \in Seq(Atoms)
    BY StreamCut
  <2> QED BY <2>1 DEF Held
<1>3. Held(q, 0) = 0
  <2>1. SubSeq(q.chunks, 1, 0) = <<>>
    BY <1>1, SubSeqEmpty
  <2>2. Flat(<<>>) = <<>>
    BY <1>1, FlatIs
  <2>3. Len(<<>>) = 0
    OBVIOUS
  <2> QED BY <2>1, <2>2, <2>3, Zenon DEF Held
<1>4. \E k \in 0 .. n : P(k)
  <2> HIDE DEF n, total
  <2>1. H \in [0 .. n -> Nat] /\ H[0] = 0 /\ \A k \in 0 .. n : H[k] = Held(q, k)
    BY <1>1, <1>2, <1>3
  <2> HIDE DEF H
  <2>2. PICK k \in 0 .. n : H[k] <= total /\ (k < n => total < H[k + 1])
    BY <1>1, <2>1, LastWithin
  <2>3. k < n => k + 1 \in 0 .. n
    BY <1>1
  <2> QED BY <2>1, <2>2, <2>3
<1>5. d \in 0 .. n /\ P(d)
  <2> HIDE DEF P, n
  <2> QED BY <1>4, Zenon
<1>6. Written(q, count) = Advanced(q, count, d)
  BY Zenon DEF Written, Advanced, Held
<1> HIDE DEF d
<1> QED BY <1>5, <1>6

(* Transmit: the counts stay true.                                          *)
LEMMA AdvancedCounted ==
  ASSUME NEW q \in Queues, Counted(q), NEW count \in 1 .. q.bytes, NEW k \in 0 .. Len(q.chunks),
         Held(q, k) <= q.taken + count, k < Len(q.chunks) => q.taken + count < Held(q, k + 1)
  PROVE  /\ Advanced(q, count, k) \in Queues /\ Counted(Advanced(q, count, k))
         /\ Held(q, k) \in Nat
<1> DEFINE a == Advanced(q, count, k)
           x == SubSeq(q.chunks, 1, k)
           y == From(q.chunks, k + 1)
           h == Held(q, k)
           t == (q.taken + count) - h
<1>1. /\ q.chunks \in Seq(Pending) /\ q.taken \in Nat /\ q.bytes \in Nat /\ Len(q.chunks) \in Nat
      /\ Flat(q.chunks) \in Seq(Atoms) /\ q.bytes = Len(Flat(q.chunks)) - q.taken
      /\ Len(Flat(q.chunks)) \in Nat
  BY QueuesAre, CountedIs, PiecesAre
<1>2. /\ Flat(x) \in Seq(Atoms) /\ Flat(y) \in Seq(Atoms) /\ Flat(q.chunks) = Flat(x) \o Flat(y)
      /\ x \in Seq(Pending) /\ y \in Seq(Pending) /\ Len(y) = Len(q.chunks) - k
  BY StreamCut
<1>3. h = Len(Flat(x)) /\ h \in Nat /\ Len(Flat(y)) \in Nat /\ Len(Flat(q.chunks)) = h + Len(Flat(y))
  <2> HIDE DEF x, y
  <2>1. Len(Flat(q.chunks)) = Len(Flat(x)) + Len(Flat(y)) /\ Len(Flat(x)) \in Nat /\ Len(Flat(y)) \in Nat
    BY <1>2, Rejoin
  <2>2. h = Len(Flat(x))
    BY Zenon DEF Held, x
  <2> QED BY <2>1, <2>2
<1>4. t \in Nat /\ q.bytes - count \in Nat
  <2> HIDE DEF h
  <2> QED BY <1>1, <1>3 DEF h
<1>5. /\ a \in Queues /\ a.chunks = y /\ a.taken = t /\ a.bytes = q.bytes - count
  <2> DEFINE b == q.bytes - count
  <2>1. a = [q EXCEPT !.chunks = y, !.taken = t, !.bytes = b]
    BY Zenon DEF Advanced
  <2> HIDE DEF a, y, t, b
  <2> QED BY <1>2, <1>4, <2>1 DEF Queues, b
<1>6. (q.bytes - count) + t = Len(Flat(y))
  <2> DEFINE f == Len(Flat(q.chunks))
             g == Len(Flat(y))
  <2>1. q.bytes = f - q.taken /\ f = h + g /\ f \in Nat /\ g \in Nat /\ h \in Nat
    BY <1>1, <1>3, Zenon
  <2> HIDE DEF f, g, h
  <2>2. (q.bytes - count) + ((q.taken + count) - h) = g
    BY <1>1, <2>1
  <2> QED BY <2>2 DEF h, g
<1>7. CASE k = Len(q.chunks)
  <2>1. y = <<>>
    <3> HIDE DEF y
    <3> QED BY <1>1, <1>2, <1>7, EmptySeq
  <2>2. Len(Flat(y)) = 0
    <3>1. Flat(<<>>) = <<>> /\ Len(<<>>) = 0
      BY <1>1, FlatIs
    <3> QED BY <2>1, <3>1, Zenon
  <2> HIDE DEF y, t, h, a
  <2>3. t = 0
    BY <1>4, <1>6, <2>2
  <2> QED BY <1>3, <1>5, <1>6, <2>1, <2>3, Zenon DEF Counted, a, h
<1>8. CASE k < Len(q.chunks)
  <2>1. k + 1 \in 1 .. Len(q.chunks) /\ q.chunks[k + 1] \in Pending
    BY <1>1, <1>8
  <2>2. SubSeq(q.chunks, 1, k + 1) = Append(x, q.chunks[k + 1])
    BY <1>1, <2>1
  <2>3. Held(q, k + 1) = h + Len(q.chunks[k + 1].parts)
    <3>1. Flat(Append(x, q.chunks[k + 1])) = Flat(x) \o q.chunks[k + 1].parts
      BY <1>2, <2>1, FlatIs
    <3>2. q.chunks[k + 1].parts \in Seq(Atoms)
      BY <2>1 DEF Pending
    <3>3. Len(Flat(x) \o q.chunks[k + 1].parts) = Len(Flat(x)) + Len(q.chunks[k + 1].parts)
      BY <1>2, <3>2, Rejoin
    <3> QED BY <1>3, <2>2, <3>1, <3>3, Zenon DEF Held
  <2>4. y # <<>> /\ y[1] = q.chunks[k + 1]
    <3>1. Len(y) # 0
      BY <1>1, <1>2, <1>8
    <3>2. y[1] = q.chunks[(k + 1) + 1 - 1]
      BY <1>1, <2>1 DEF From
    <3> QED BY <3>1, <3>2
  <2>5. t < Len(y[1].parts)
    <3> DEFINE l == Len(q.chunks[k + 1].parts)
    <3>1. q.taken + count < h + l /\ l \in Nat
      <4>1. q.chunks[k + 1].parts \in Seq(Atoms)
        BY <2>1 DEF Pending
      <4>2. l \in Nat
        BY <4>1
      <4> QED BY <1>8, <2>3, <4>2
    <3> HIDE DEF h, l
    <3>2. (q.taken + count) - h < l
      BY <1>1, <1>3, <3>1
    <3> QED BY <2>4, <3>2 DEF h, l
  <2> HIDE DEF y, t, h, a
  <2> QED BY <1>3, <1>5, <1>6, <2>4, <2>5, Zenon DEF Counted, a, h
<1>9. k = Len(q.chunks) \/ k < Len(q.chunks)
  BY <1>1
<1> QED BY <1>7, <1>8, <1>9

(* Transmit: the pieces that were sent to the end leave.                    *)
LEMMA AdvancedPieces ==
  ASSUME NEW q \in Queues, NEW count \in Nat, NEW k \in 0 .. Len(q.chunks)
  PROVE  /\ Pieces(Advanced(q, count, k)) = From(Pieces(q), k + 1)
         /\ Stream(q) = Flat(SubSeq(q.chunks, 1, k)) \o Stream(Advanced(q, count, k))
         /\ k = 0 => /\ Pieces(Advanced(q, count, k)) = Pieces(q)
                     /\ Cut(Advanced(q, count, k)) <=> Cut(q)
<1> DEFINE a == Advanced(q, count, k)
<1>1. /\ a.chunks = From(q.chunks, k + 1) /\ a.spill = q.spill /\ a.policy = q.policy
      /\ a.goodbye = q.goodbye
  BY DEF Advanced, Queues
<1> HIDE DEF a
<1>2. Ending(a) = Ending(q)
  BY <1>1, Zenon DEF Ending
<1>3. Pieces(a) = (Parcels(From(q.chunks, k + 1)) \o Bodies(q.spill)) \o Ending(q)
  BY <1>1, <1>2, Zenon DEF Pieces
<1>4. Pieces(a) = From(Pieces(q), k + 1)
  BY <1>3, StreamCut, Zenon
<1>5. Stream(q) = Flat(SubSeq(q.chunks, 1, k)) \o FlattenSeq(From(Pieces(q), k + 1))
  BY StreamCut, Zenon
<1>6. k = 0 => a.chunks = q.chunks
  <2>1. q.chunks \in Seq(Pending)
    BY QueuesAre
  <2>2. SubSeq(q.chunks, 1, Len(q.chunks)) = q.chunks
    BY <2>1
  <2> QED BY <1>1, <2>2 DEF From
<1>7. k = 0 => Pieces(a) = Pieces(q) /\ (Cut(a) <=> Cut(q))
  BY <1>1, <1>2, <1>6, Zenon DEF Pieces, Cut
<1> QED BY <1>4, <1>5, <1>7, Zenon DEF Stream, a

(* Transmit: what the socket took is still one line with what waits.        *)
LEMMA AdvancedKept ==
  ASSUME NEW q \in Queues, NEW count \in Nat, NEW k \in 0 .. Len(q.chunks),
         Advanced(q, count, k) \in Queues, NEW w \in Seq(Atoms), NEW rest \in Seq(Atoms), Kept(q, w, rest)
  PROVE  Kept(Advanced(q, count, k), w \o Flat(SubSeq(q.chunks, 1, k)), rest)
<1> DEFINE a == Advanced(q, count, k)
           x == Flat(SubSeq(q.chunks, 1, k))
           p == Pieces(q)
           w2 == w \o x
<1>1. /\ Pieces(a) = From(p, k + 1) /\ Stream(q) = x \o Stream(a)
      /\ k = 0 => Pieces(a) = p /\ (Cut(a) <=> Cut(q))
  BY AdvancedPieces, Zenon
<1>2. /\ x \in Seq(Atoms) /\ x = FlattenSeq(SubSeq(p, 1, k)) /\ p \in Seq(Seq(Atoms)) /\ k \in 0 .. Len(p)
      /\ Stream(a) \in Seq(Atoms) /\ k \in Nat /\ Len(From(p, k + 1)) = Len(p) - k
  <2>1. /\ x \in Seq(Atoms) /\ FlattenSeq(SubSeq(p, 1, k)) = x /\ k \in 0 .. Len(p)
        /\ Len(From(p, k + 1)) = Len(p) - k
    BY StreamCut
  <2>2. p \in Seq(Seq(Atoms)) /\ Stream(a) \in Seq(Atoms)
    BY PiecesAre
  <2> HIDE DEF x, p, a
  <2> QED BY <2>1, <2>2
<1>3. a.accepted = q.accepted
  BY DEF Advanced, Queues
<1> HIDE DEF x, p, a
<1>4. w2 \in Seq(Atoms)
  BY <1>2
<1>5. w2 \o Stream(a) = w \o Stream(q)
  <2> DEFINE sa == Stream(a)
  <2>0. x \in Seq(Atoms) /\ sa \in Seq(Atoms)
    BY <1>2
  <2> HIDE DEF sa
  <2>1. (w \o x) \o sa = w \o (x \o sa)
    <3>1. Joined(w, x, sa)
      BY <2>0, AtomsJoin
    <3> QED BY <3>1, Zenon DEF Joined
  <2> QED BY <1>1, <2>1, Zenon DEF sa
<1>6. Whole(a.accepted) = (w2 \o Stream(a)) \o rest
  BY <1>3, <1>5, Zenon DEF Kept
<1>7. ASSUME NEW i \in 1 .. Len(Pieces(a))
      PROVE  Boundary(a.accepted, w2 \o FlattenSeq(SubSeq(Pieces(a), 1, i)))
  <2>1. i \in Nat /\ k + i \in 1 .. Len(p) /\ k + i <= Len(p)
    BY <1>1, <1>2
  <2>2. SubSeq(p, 1, k) \o SubSeq(From(p, k + 1), 1, i) = SubSeq(p, 1, k + i)
    BY <1>2, <2>1, CutTwice
  <2>3. SubSeq(p, 1, k) \in Seq(Seq(Atoms)) /\ SubSeq(From(p, k + 1), 1, i) \in Seq(Seq(Atoms))
    <3>1. SubSeq(p, 1, k) \in Seq(Seq(Atoms)) /\ From(p, k + 1) \in Seq(Seq(Atoms))
      BY <1>2, Split
    <3>2. i \in 0 .. Len(From(p, k + 1))
      BY <1>1
    <3> QED BY <3>1, <3>2, Split
  <2> DEFINE z == FlattenSeq(SubSeq(From(p, k + 1), 1, i))
  <2>4. FlattenSeq(SubSeq(p, 1, k + i)) = x \o z
    BY <1>2, <2>2, <2>3, FlattenConcat
  <2>5. z \in Seq(Atoms)
    BY <2>3, FlattenType
  <2> HIDE DEF z
  <2>6. w2 \o z = w \o (x \o z)
    <3>1. Joined(w, x, z)
      BY <1>2, <2>5, AtomsJoin
    <3> QED BY <3>1, Zenon DEF Joined
  <2>7. Boundary(q.accepted, w \o FlattenSeq(SubSeq(p, 1, k + i)))
    BY <2>1 DEF Kept, p
  <2> QED BY <1>1, <1>3, <2>4, <2>6, <2>7, Zenon DEF z
<1>8. ASSUME Pieces(a) # <<>>, ~Cut(a) PROVE Boundary(a.accepted, w2)
  <2>1. CASE k = 0
    <3>1. Boundary(q.accepted, w)
      BY <1>1, <1>8, <2>1 DEF Kept, p
    <3>2. x = <<>>
      <4>1. SubSeq(p, 1, 0) = <<>> /\ FlattenSeq(<<>>) = <<>>
        BY <1>2, SubSeqEmpty, FlattenType
      <4> QED BY <1>2, <2>1, <4>1, Zenon
    <3>3. w \o <<>> = w
      OBVIOUS
    <3> QED BY <1>3, <3>1, <3>2, <3>3, Zenon
  <2>2. CASE k # 0
    <3>1. k \in 1 .. Len(p)
      BY <1>2, <2>2
    <3>2. Boundary(q.accepted, w \o FlattenSeq(SubSeq(p, 1, k)))
      BY <3>1 DEF Kept, p
    <3> QED BY <1>2, <1>3, <3>2, Zenon
  <2> QED BY <2>1, <2>2
<1> HIDE DEF w2
<1>9. Kept(a, w2, rest)
  BY <1>6, <1>7, <1>8, Zenon DEF Kept
<1> QED BY <1>9 DEF w2, x, a

(* A queue that shrinks stays within its limits.                            *)
LEMMA RoomyLess ==
  ASSUME NEW b \in Int, NEW b2 \in Int, b2 <= b, Roomy(b)
  PROVE  Roomy(b2)
<1>1. Cap \in Int /\ Lens \subseteq Int
  BY OutboxAssumption
<1> QED BY <1>1 DEF Roomy

(* Transmit: the socket takes some of what waits.                           *)
LEMMA WrittenKeeps ==
  ASSUME NEW q, NEW sent \in Seq(Atoms), NEW rest \in Seq(Atoms), QueueInv(q, sent, rest), q.chunks # <<>>,
         NEW count \in 1 .. Len(From(Flat(q.chunks), q.taken + 1))
  PROVE  /\ QueueInv(Written(q, count), sent \o SubSeq(From(Flat(q.chunks), q.taken + 1), 1, count), rest)
         /\ Written(q, count).policy = q.policy
<1>1. /\ q \in Queues /\ Limits(q) /\ Counted(q)
      /\ \E w \in Seq(Atoms) : Line(q, sent, rest, w)
  BY DEF QueueInv, Dropped
<1>2. PICK w \in Seq(Atoms) : Line(q, sent, rest, w)
  BY <1>1
<1>3. count \in 1 .. q.bytes /\ count \in Nat /\ count <= q.bytes
  <2>1. count \in 1 .. q.bytes
    BY <1>1, CountedIs
  <2>2. q.bytes \in Nat
    BY <1>1, QueuesAre
  <2> QED BY <2>1, <2>2
<1>4. PICK k \in 0 .. Len(q.chunks) :
        /\ Held(q, k) <= q.taken + count
        /\ k < Len(q.chunks) => q.taken + count < Held(q, k + 1)
        /\ Written(q, count) = Advanced(q, count, k)
  BY <1>1, <1>3, WrittenIs
<1> DEFINE a  == Advanced(q, count, k)
           x  == Flat(SubSeq(q.chunks, 1, k))
           fl == Flat(q.chunks)
           t  == (q.taken + count) - Held(q, k)
           s2 == sent \o SubSeq(From(fl, q.taken + 1), 1, count)
           w2 == w \o x
<1>5. a \in Queues /\ Counted(a) /\ Held(q, k) \in Nat
  BY <1>1, <1>3, <1>4, AdvancedCounted
<1>6. /\ a.chunks = From(q.chunks, k + 1) /\ a.taken = t /\ a.bytes = q.bytes - count /\ a.policy = q.policy
      /\ a.spill = q.spill /\ a.spilled = q.spilled /\ a.goodbye = q.goodbye /\ a.accepted = q.accepted
      /\ a.lost = q.lost
  BY <1>1 DEF Advanced, Queues
<1>7. /\ x \in Seq(Atoms) /\ Stream(q) = x \o Stream(a) /\ Stream(a) \in Seq(Atoms) /\ Stream(q) \in Seq(Atoms)
      /\ fl \in Seq(Atoms) /\ q.taken \in Nat /\ q.bytes \in Nat
  <2>1. x \in Seq(Atoms) /\ Stream(q) = x \o Stream(a)
    BY <1>1, <1>3, AdvancedPieces, StreamCut
  <2>2. Stream(a) \in Seq(Atoms)
    BY <1>5, PiecesAre, Zenon
  <2>3. Stream(q) \in Seq(Atoms) /\ fl \in Seq(Atoms) /\ q.taken \in Nat /\ q.bytes \in Nat
    BY <1>1, PiecesAre, QueuesAre
  <2> QED BY <2>1, <2>2, <2>3
<1>8. /\ fl = x \o Flat(a.chunks) /\ Flat(a.chunks) \in Seq(Atoms) /\ Held(q, k) = Len(x)
  BY <1>1, <1>6, StreamCut, Zenon DEF Held
<1>9. s2 = w2 \o SubSeq(Stream(a), 1, t)
  <2>0. t \in 0 .. Len(Flat(a.chunks)) /\ q.taken + count <= Len(fl) /\ t \in Nat /\ q.taken \in 0 .. Len(fl)
        /\ Len(x) \in Nat /\ q.taken + count = Len(x) + t /\ q.taken + count \in 0 .. Len(fl)
    <3>1. a.taken \in 0 .. Len(Flat(a.chunks)) /\ Len(Flat(a.chunks)) \in Nat
      BY <1>5, CountedIs
    <3>2. q.taken \in 0 .. Len(fl) /\ q.bytes = Len(fl) - q.taken /\ Len(fl) \in Nat
      BY <1>1, CountedIs
    <3>3. Len(x) \in Nat
      BY <1>7
    <3> DEFINE n == Held(q, k)
               lf == Len(fl)
               lx == Len(x)
               tk == q.taken
               bt == q.bytes
    <3>4. n \in Nat /\ n = lx /\ n <= tk + count /\ lf \in Nat /\ bt = lf - tk
          /\ tk \in Nat /\ bt \in Nat /\ count \in Nat /\ count <= bt
      BY <1>3, <1>4, <1>5, <1>7, <1>8, <3>2, Zenon
    <3> HIDE DEF n, lf, lx, tk, bt
    <3>5. (tk + count) - n \in Nat /\ tk + count = n + ((tk + count) - n) /\ tk + count \in 0 .. lf
          /\ tk + count <= lf
      BY <3>4
    <3> QED BY <1>6, <3>1, <3>2, <3>3, <3>4, <3>5, Zenon DEF n, lf, lx, tk, bt
  <2>1. PICK z \in Seq(Atoms) : Stream(q) = fl \o z
    BY <1>1, PiecesAre
  <2>2. PICK y \in Seq(Atoms) : Stream(a) = Flat(a.chunks) \o y
    BY <1>5, PiecesAre
  <2> DEFINE fa == Flat(a.chunks)
             u  == SubSeq(fl, 1, q.taken)
             v  == SubSeq(From(fl, q.taken + 1), 1, count)
  <2> HIDE DEF t, x, fl, fa, a
  <2>3. SubSeq(fl \o z, 1, q.taken) = u
    BY <1>7, <2>0, JoinCut
  <2>4. u \o v = SubSeq(fl, 1, q.taken + count)
    BY <1>3, <1>7, <2>0, CutTwice
  <2>5. SubSeq(x \o fa, 1, Len(x) + t) = x \o SubSeq(fa, 1, t)
    BY <1>7, <1>8, <2>0, JoinCutIn DEF fa
  <2>6. SubSeq(fa \o y, 1, t) = SubSeq(fa, 1, t)
    BY <1>8, <2>0, JoinCut DEF fa
  <2>7. sent = w \o u
    BY <1>2, <2>1, <2>3, Zenon DEF Line
  <2>8. u \in Seq(Atoms) /\ v \in Seq(Atoms) /\ SubSeq(fa, 1, t) \in Seq(Atoms)
    <3>1. u \in Seq(Atoms) /\ From(fl, q.taken + 1) \in Seq(Atoms) /\ Len(From(fl, q.taken + 1)) = Len(fl) - q.taken
      BY <1>7, <2>0, Split
    <3>2. v \in Seq(Atoms)
      <4>1. count \in 0 .. Len(From(fl, q.taken + 1))
        BY DEF fl
      <4> QED BY <3>1, <4>1, Split
    <3>3. SubSeq(fa, 1, t) \in Seq(Atoms)
      BY <1>8, <2>0, Split DEF fa
    <3> QED BY <3>1, <3>2, <3>3
  <2>9. u \o v = x \o SubSeq(fa, 1, t)
    BY <1>8, <2>0, <2>4, <2>5, Zenon DEF fa
  <2> DEFINE g == SubSeq(fa, 1, t)
  <2> HIDE DEF u, v, g
  <2>10. (w \o u) \o v = w \o (u \o v)
    <3>1. Joined(w, u, v)
      BY <2>8, AtomsJoin
    <3> QED BY <3>1, Zenon DEF Joined
  <2>11. (w \o x) \o g = w \o (x \o g)
    <3>1. x \in Seq(Atoms) /\ g \in Seq(Atoms)
      BY <1>7, <2>8 DEF g
    <3> HIDE DEF x
    <3>2. Joined(w, x, g)
      BY <3>1, AtomsJoin
    <3> QED BY <3>2, Zenon DEF Joined
  <2>12. s2 = (w \o x) \o SubSeq(fa, 1, t)
    BY <2>7, <2>9, <2>10, <2>11, Zenon DEF g, v
  <2>13. SubSeq(Stream(a), 1, t) = SubSeq(fa, 1, t)
    BY <2>2, <2>6, Zenon DEF fa
  <2> QED BY <2>12, <2>13, Zenon
<1>10. w2 \in Seq(Atoms)
  <2> HIDE DEF x
  <2> QED BY <1>7
<1>11. IF a.lost THEN Given(a, w2, rest) ELSE Kept(a, w2, rest)
  <2>1. CASE q.lost
    <3>1. Given(q, w, rest)
      BY <1>2, <2>1 DEF Line
    <3>2. w2 \o Stream(a) = w \o Stream(q)
      <4> DEFINE sa == Stream(a)
      <4>0. x \in Seq(Atoms) /\ sa \in Seq(Atoms)
        BY <1>7
      <4> HIDE DEF sa, x
      <4>1. (w \o x) \o sa = w \o (x \o sa)
        <5>1. Joined(w, x, sa)
          BY <4>0, AtomsJoin
        <5> QED BY <5>1, Zenon DEF Joined
      <4> USE DEF sa
      <4> QED BY <1>7, <4>1, Zenon
    <3> QED BY <1>6, <2>1, <3>1, <3>2, Zenon DEF Given
  <2>2. CASE ~q.lost
    <3>1. Kept(q, w, rest)
      BY <1>2, <2>2 DEF Line
    <3>2. Kept(a, w2, rest)
      BY <1>1, <1>3, <1>5, <3>1, AdvancedKept
    <3> QED BY <1>6, <2>2, <3>2, Zenon
  <2> QED BY <2>1, <2>2
<1>12. Line(a, s2, rest, w2)
  BY <1>6, <1>9, <1>11, Zenon DEF Line
<1>13. Limits(a)
  <2>1. Roomy(a.bytes - Extra(a.policy))
    <3>1. Roomy(q.bytes - Extra(q.policy)) /\ Extra(q.policy) \in Int
      BY <1>1 DEF Limits, Extra
    <3> DEFINE bt == q.bytes
               e  == Extra(q.policy)
    <3>2. bt \in Nat /\ count \in Nat /\ e \in Int /\ Roomy(bt - e)
      BY <1>3, <1>7, <3>1, Zenon
    <3> HIDE DEF bt, e
    <3>3. bt - e \in Int /\ (bt - count) - e \in Int /\ (bt - count) - e <= bt - e
      BY <3>2
    <3>4. Roomy((bt - count) - e)
      BY <3>2, <3>3, RoomyLess
    <3> QED BY <1>6, <3>4, Zenon DEF bt, e
  <2> HIDE DEF a
  <2> QED BY <1>1, <1>6, <2>1 DEF Limits
<1> HIDE DEF a, s2, w2
<1>14. QueueInv(a, s2, rest)
  BY <1>5, <1>10, <1>12, <1>13 DEF QueueInv
<1> QED BY <1>4, <1>6, <1>14, Zenon DEF a, s2, fl

-----------------------------------------------------------------------------
(* fill().                                                                  *)

Loaded(msgs) == [i \in DOMAIN msgs |-> Chunk(Parts(msgs[i]), FALSE)]

ReadOf(q, n) ==
  [q EXCEPT !.spill = From(q.spill, n + 1),
            !.spilled = IF From(q.spill, n + 1) = <<>> THEN 0 ELSE q.spilled,
            !.bytes = q.bytes + Len(Whole(SubSeq(q.spill, 1, n))),
            !.chunks = Loaded(SubSeq(q.spill, 1, n))]

Ended(q) == [Queued(q, Parts(q.goodbye), TRUE) EXCEPT !.policy = "sealed", !.goodbye = NoTail]

(* Messages of the file become chunks, none of them a tail.                 *)
LEMMA LoadedIs ==
  ASSUME NEW msgs \in Seq(Letters)
  PROVE  /\ Loaded(msgs) \in Seq(Pending) /\ Len(Loaded(msgs)) = Len(msgs)
         /\ Parcels(Loaded(msgs)) = Bodies(msgs) /\ Flat(Loaded(msgs)) = Whole(msgs)
         /\ \A i \in 1 .. Len(msgs) : ~Loaded(msgs)[i].tail
<1>1. ASSUME NEW i \in 1 .. Len(msgs)
      PROVE  LET c == Chunk(Parts(msgs[i]), FALSE)
             IN  c \in Pending /\ c.parts = Parts(msgs[i]) /\ c.tail = FALSE
  <2>1. msgs[i] \in Texts /\ msgs[i] \in [n : Nat, len : Nat]
    BY LettersAre
  <2>2. Parts(msgs[i]) \in Seq(Atoms) \ {<<>>}
    BY <2>1, PartsAre DEF Texts
  <2> QED BY <2>2, PendingIs
<1>2. /\ Loaded(msgs) \in Seq(Pending) /\ Len(Loaded(msgs)) = Len(msgs)
      /\ \A i \in 1 .. Len(msgs) : Loaded(msgs)[i].parts = Parts(msgs[i]) /\ ~Loaded(msgs)[i].tail
  <2> DEFINE C(i) == Chunk(Parts(msgs[i]), FALSE)
  <2>1. \A i \in 1 .. Len(msgs) : C(i) \in Pending /\ C(i).parts = Parts(msgs[i]) /\ ~C(i).tail
    BY <1>1
  <2>2. Loaded(msgs) = [i \in 1 .. Len(msgs) |-> C(i)] /\ Len(msgs) \in Nat
    BY DEF Loaded
  <2> HIDE DEF C
  <2>3. Loaded(msgs) \in Seq(Pending) /\ Len(Loaded(msgs)) = Len(msgs)
    BY <2>1, <2>2
  <2>4. \A i \in 1 .. Len(msgs) : Loaded(msgs)[i] = C(i)
    BY <2>2
  <2> QED BY <2>1, <2>3, <2>4
<1>3. Parcels(Loaded(msgs)) = Bodies(msgs)
  <2>1. DOMAIN Loaded(msgs) = DOMAIN msgs /\ DOMAIN msgs = 1 .. Len(msgs)
    BY DEF Loaded
  <2> HIDE DEF Loaded
  <2> QED BY <1>2, <2>1 DEF Parcels, Bodies
<1>4. Flat(Loaded(msgs)) = Whole(msgs)
  <2>1. msgs \in Seq(Texts)
    BY LettersAre
  <2> QED BY <1>2, <1>3, <2>1, ParcelsAre, BodiesAre
<1> QED BY <1>2, <1>3, <1>4

(* The file cut in two.                                                     *)
LEMMA FileCut ==
  ASSUME NEW msgs \in Seq(Letters), NEW n \in 1 .. Len(msgs)
  PROVE  /\ SubSeq(msgs, 1, n) \in Seq(Letters) /\ From(msgs, n + 1) \in Seq(Letters)
         /\ Len(SubSeq(msgs, 1, n)) = n
         /\ Bodies(msgs) = Bodies(SubSeq(msgs, 1, n)) \o Bodies(From(msgs, n + 1))
         /\ Whole(msgs) = Whole(SubSeq(msgs, 1, n)) \o Whole(From(msgs, n + 1))
         /\ Whole(SubSeq(msgs, 1, n)) \in Seq(Atoms) /\ Whole(From(msgs, n + 1)) \in Seq(Atoms)
<1> DEFINE a == SubSeq(msgs, 1, n)
           b == From(msgs, n + 1)
<1>1. n \in 0 .. Len(msgs) /\ msgs \in Seq(Texts) /\ Len(msgs) \in Nat
  BY LettersAre
<1>2. a \in Seq(Letters) /\ b \in Seq(Letters) /\ Len(a) = n
  BY <1>1, Split
<1>3. a \in Seq(Texts) /\ b \in Seq(Texts)
  <2> HIDE DEF a, b
  <2> QED BY <1>2, LettersAre
<1>4. Bodies(a) = SubSeq(Bodies(msgs), 1, n) /\ Bodies(b) = From(Bodies(msgs), n + 1)
      /\ Bodies(msgs) \in Seq(Seq(Atoms)) /\ Len(Bodies(msgs)) = Len(msgs)
  <2>1. /\ \A i \in Nat \ {0}, j \in 0 .. Len(msgs) : Bodies(SubSeq(msgs, i, j)) = SubSeq(Bodies(msgs), i, j)
        /\ Bodies(msgs) \in Seq(Seq(Atoms)) /\ Len(Bodies(msgs)) = Len(msgs)
    BY <1>1, BodiesAre
  <2>2. 1 \in Nat \ {0} /\ n + 1 \in Nat \ {0} /\ Len(msgs) \in 0 .. Len(msgs)
    BY <1>1
  <2> QED BY <1>1, <2>1, <2>2 DEF From
<1>5. Bodies(msgs) = Bodies(a) \o Bodies(b)
  <2>1. n \in 0 .. Len(Bodies(msgs))
    BY <1>1, <1>4
  <2>2. Bodies(msgs) = SubSeq(Bodies(msgs), 1, n) \o From(Bodies(msgs), n + 1)
    BY <1>4, <2>1, Split, ZenonT(60)
  <2> QED BY <1>4, <2>2, Zenon
<1>6. /\ Whole(a) = FlattenSeq(Bodies(a)) /\ Whole(b) = FlattenSeq(Bodies(b)) /\ Whole(msgs) = FlattenSeq(Bodies(msgs))
      /\ Bodies(a) \in Seq(Seq(Atoms)) /\ Bodies(b) \in Seq(Seq(Atoms))
      /\ Whole(a) \in Seq(Atoms) /\ Whole(b) \in Seq(Atoms)
  <2> HIDE DEF a, b
  <2> QED BY <1>1, <1>3, BodiesAre, WholeIs
<1>7. FlattenSeq(Bodies(a) \o Bodies(b)) = FlattenSeq(Bodies(a)) \o FlattenSeq(Bodies(b))
  <2> HIDE DEF a, b
  <2> QED BY <1>6, FlattenConcat
<1>8. Whole(msgs) = Whole(a) \o Whole(b)
  BY <1>5, <1>6, <1>7, Zenon
<1> QED BY <1>2, <1>5, <1>6, <1>8, Zenon

(* fill() takes at least one message, and more than one within the piece.   *)
LEMMA FilledIs ==
  ASSUME NEW q \in Queues, q.spill # <<>>, NEW q2 \in Filled(q)
  PROVE  \/ q2 = Overflow(q)
         \/ \E n \in 1 .. Len(q.spill) :
              /\ Budgeted(q.spill, n)
              /\ q2 = IF From(q.spill, n + 1) = <<>> /\ q.policy = "draining"
                      THEN Ended(ReadOf(q, n)) ELSE ReadOf(q, n)
<1> DEFINE l == Len(q.spill)
           P(i) == Budgeted(q.spill, i) /\ (i < l => ~Budgeted(q.spill, i + 1))
           d == CHOOSE i \in 1 .. l : P(i)
<1>1. q.spill \in Seq(Letters) /\ l \in Nat \ {0}
  BY QueuesAre, EmptySeq
<1>2. \E i \in 1 .. l : P(i)
  <2> DEFINE T == {i \in 1 .. l : Budgeted(q.spill, i)}
  <2>1. T \in SUBSET (0 .. l) /\ 1 \in T
    <3>1. Budgeted(q.spill, 1)
      BY DEF Budgeted
    <3> HIDE DEF l
    <3> QED BY <1>1, <3>1
  <2> HIDE DEF T
  <2>2. PICK i \in T : i < l => i + 1 \notin T
    BY <1>1, <2>1, LastIn
  <2>3. i \in 1 .. l /\ Budgeted(q.spill, i)
    BY <2>2 DEF T
  <2>4. i < l => i + 1 \in 1 .. l
    BY <1>1, <2>3
  <2>5. i < l => ~Budgeted(q.spill, i + 1)
    BY <2>2, <2>4 DEF T
  <2> QED BY <2>3, <2>5
<1>3. d \in 1 .. l /\ P(d)
  <2> HIDE DEF P, l
  <2> QED BY <1>2, Zenon
<1>4. [i \in 1 .. d |-> Chunk(Parts(q.spill[i]), FALSE)] = Loaded(SubSeq(q.spill, 1, d))
  <2> HIDE DEF d, P
  <2>1. DOMAIN SubSeq(q.spill, 1, d) = 1 .. d /\ \A i \in 1 .. d : SubSeq(q.spill, 1, d)[i] = q.spill[i]
    BY <1>1, <1>3
  <2> QED BY <2>1 DEF Loaded
<1>5. CASE q2 # Overflow(q)
  <2>1. q2 = LET left == From(q.spill, d + 1)
                 read  == [q EXCEPT !.spill = left,
                         !.spilled = IF left = <<>> THEN 0 ELSE @,
                         !.bytes = @ + Len(Whole(SubSeq(q.spill, 1, d))),
                         !.chunks = [i \in 1 .. d |-> Chunk(Parts(q.spill[i]), FALSE)]]
             IN  IF left = <<>> /\ q.policy = "draining"
                 THEN [Queued(read, Parts(q.goodbye), TRUE) EXCEPT !.policy = "sealed",
                                                          !.goodbye = NoTail]
                 ELSE read
    BY <1>5, Zenon DEF Filled
  <2> HIDE DEF d
  <2>2. q2 = IF From(q.spill, d + 1) = <<>> /\ q.policy = "draining"
             THEN Ended(ReadOf(q, d)) ELSE ReadOf(q, d)
    <3>1. ReadOf(q, d).goodbye = q.goodbye
      BY DEF ReadOf, Queues
    <3> QED BY <1>4, <2>1, <3>1, Zenon DEF Ended, ReadOf
  <2> QED BY <1>3, <2>2
<1> QED BY <1>5

(* The same pieces are the same line, as long as the first is no new tail.  *)
LEMMA SamePieces ==
  ASSUME NEW q \in Queues, NEW q2 \in Queues, NEW sent, NEW w, NEW rest, Line(q, sent, rest, w),
         ~q.lost, ~q2.lost, q2.taken = q.taken, Pieces(q2) = Pieces(q), q2.accepted = q.accepted, ~Cut(q)
  PROVE  Line(q2, sent, rest, w)
<1>1. Stream(q2) = Stream(q)
  BY Zenon DEF Stream
<1> QED BY <1>1, Zenon DEF Line, Kept

(* fill(): the pieces are in the queue instead of the file.                 *)
LEMMA ReadKeeps ==
  ASSUME NEW q, NEW sent \in Seq(Atoms), QueueInv(q, sent, <<>>), q.chunks = <<>>, q.spill # <<>>,
         NEW n \in 1 .. Len(q.spill), Budgeted(q.spill, n)
  PROVE  LET r == ReadOf(q, n)
         IN  /\ r \in Queues /\ r.policy = q.policy /\ r.goodbye = q.goodbye /\ ~r.lost
             /\ r.spill = From(q.spill, n + 1) /\ (r.spill = <<>> => r.spilled = 0)
             /\ Counted(r) /\ Roomy(r.bytes) /\ ~Cut(r)
             /\ Len(Whole(r.spill)) <= r.spilled /\ r.spilled <= Limit
             /\ r.chunks # <<>>
             /\ \E w \in Seq(Atoms) : Line(r, sent, <<>>, w)
<1> DEFINE r    == ReadOf(q, n)
           head == SubSeq(q.spill, 1, n)
           left == From(q.spill, n + 1)
           cs   == Loaded(head)
<1>1. q \in Queues /\ Limits(q) /\ ~q.lost /\ Counted(q)
  <2>1. q \in Queues /\ Limits(q)
    BY DEF QueueInv
  <2>2. ~q.lost
    BY <2>1 DEF Limits, Queues
  <2> QED BY <2>1, <2>2, KeptIs
<1>2. PICK w \in Seq(Atoms) : Line(q, sent, <<>>, w)
  BY <1>1, KeptIs
<1>3. /\ q.spill \in Seq(Letters) /\ q.spill \in Seq(Texts) /\ q.taken = 0 /\ q.bytes = 0 /\ q.spilled \in Nat
      /\ q.goodbye \in [n : Nat, len : Nat]
  <2>1. Flat(<<>>) = <<>> /\ Len(<<>>) = 0
    BY <1>1, QueuesAre, FlatIs
  <2>2. q.taken = 0
    BY <1>1 DEF Counted
  <2>3. q.bytes + q.taken = Len(Flat(<<>>))
    BY <1>1 DEF Counted
  <2>4. /\ q.spill \in Seq(Letters) /\ q.spill \in Seq(Texts) /\ q.bytes \in Nat /\ q.spilled \in Nat
        /\ q.goodbye \in [n : Nat, len : Nat]
    BY <1>1, QueuesAre
  <2>5. q.bytes = 0
    <3>1. q.bytes + 0 = 0
      BY <2>1, <2>2, <2>3, Zenon
    <3> QED BY <2>4, <3>1
  <2> QED BY <2>2, <2>4, <2>5
<1>4. /\ head \in Seq(Letters) /\ left \in Seq(Letters) /\ Len(head) = n
      /\ Bodies(q.spill) = Bodies(head) \o Bodies(left)
      /\ Whole(q.spill) = Whole(head) \o Whole(left)
      /\ Whole(head) \in Seq(Atoms) /\ Whole(left) \in Seq(Atoms)
  BY <1>3, FileCut
<1> HIDE DEF head, left
<1>5. /\ cs \in Seq(Pending) /\ Len(cs) = n
      /\ Parcels(cs) = Bodies(head) /\ Flat(cs) = Whole(head)
      /\ \A i \in 1 .. n : ~cs[i].tail
  BY <1>4, LoadedIs
<1> DEFINE b == Len(Whole(head))
<1>6. b \in Nat /\ Roomy(b)
  <2>1. b \in Nat
    BY <1>4
  <2>2. CASE n = 1
    <3>1. head = Append(<<>>, q.spill[1]) /\ q.spill[1] \in Letters
      <4>1. head = SubSeq(q.spill, 1, 1)
        BY <2>2 DEF head
      <4>2. q.spill[1] \in Letters
        BY <1>3, EmptySeq
      <4> QED BY <1>3, <4>1, <4>2, FirstOne
    <3>2. q.spill[1] \in Texts /\ q.spill[1] \in [n : Nat, len : Nat] /\ q.spill[1].len \in Lens
      <4>1. q.spill[1] \in Texts /\ q.spill[1] \in [n : Nat, len : Nat]
        BY <3>1, LettersAre
      <4>2. q.spill[1].len \in Lens
        BY <3>1 DEF Letters
      <4> QED BY <4>1, <4>2
    <3> DEFINE m == q.spill[1]
    <3>3. m \in Texts /\ m \in [n : Nat, len : Nat] /\ m.len \in Lens /\ head = Append(<<>>, m)
      BY <3>1, <3>2
    <3> HIDE DEF m
    <3>4. <<>> \in Seq(Texts)
      OBVIOUS
    <3>5. Whole(head) = <<>> \o Parts(m)
      BY <3>3, <3>4, WholeIs
    <3>6. Parts(m) \in Seq(Atoms) /\ Len(Parts(m)) = m.len
      BY <3>3, PartsAre
    <3>7. <<>> \o Parts(m) = Parts(m)
      BY <3>6
    <3>8. b = m.len
      BY <3>5, <3>6, <3>7, Zenon
    <3> HIDE DEF b
    <3> QED BY <2>1, <3>3, <3>8 DEF Roomy
  <2>3. CASE n # 1
    <3>1. b <= Piece
      BY <2>3 DEF Budgeted, head
    <3> HIDE DEF b
    <3> QED BY <2>1, <3>1, OutboxAssumption DEF Roomy
  <2> QED BY <2>1, <2>2, <2>3
<1>7. /\ r \in Queues /\ r.chunks = cs /\ r.taken = 0 /\ r.bytes = b /\ r.policy = q.policy /\ r.spill = left
      /\ r.spilled = (IF left = <<>> THEN 0 ELSE q.spilled) /\ r.goodbye = q.goodbye
      /\ r.accepted = q.accepted /\ r.lost = q.lost
  <2> DEFINE sp == IF left = <<>> THEN 0 ELSE q.spilled
             b2 == q.bytes + b
  <2>1. r = [q EXCEPT !.spill = left, !.spilled = sp, !.bytes = b2, !.chunks = cs]
    BY Zenon DEF ReadOf, head, left
  <2>2. sp \in Nat /\ b2 = b /\ b2 \in Nat
    <3> HIDE DEF b
    <3> QED BY <1>3, <1>6
  <2> HIDE DEF r, sp, b2, b, cs
  <2>3. /\ r \in Queues /\ r.chunks = cs /\ r.taken = q.taken /\ r.bytes = b2 /\ r.policy = q.policy
        /\ r.spill = left /\ r.spilled = sp /\ r.goodbye = q.goodbye
        /\ r.accepted = q.accepted /\ r.lost = q.lost
    BY <1>1, <1>4, <1>5, <2>1, <2>2 DEF Queues
  <2> QED BY <1>3, <2>2, <2>3, Zenon DEF sp
<1> HIDE DEF r, cs
<1>8. r.chunks # <<>> /\ r.chunks[1] \in Pending /\ ~r.chunks[1].tail /\ ~Cut(r)
  <2>1. 1 \in 1 .. n /\ n # 0
    BY <1>3
  <2>2. cs # <<>> /\ cs[1] \in Pending /\ ~cs[1].tail
    BY <1>5, <2>1
  <2> QED BY <1>7, <2>2 DEF Cut
<1>9. Counted(r)
  <2>1. r.taken < Len(r.chunks[1].parts)
    <3>1. r.chunks[1].parts \in Seq(Atoms) \ {<<>>}
      BY <1>8 DEF Pending
    <3> QED BY <1>7, <3>1, EmptySeq
  <2>2. r.bytes + r.taken = Len(Flat(r.chunks))
    <3>1. Len(Flat(r.chunks)) = b
      BY <1>5, <1>7, Zenon
    <3> HIDE DEF b
    <3> QED BY <1>6, <1>7, <3>1
  <2> QED BY <1>8, <2>1, <2>2, Zenon DEF Counted
<1>10. Pieces(r) = Pieces(q)
  <2>1. Parcels(q.chunks) = <<>>
    BY DEF Parcels
  <2>2. Ending(r) = Ending(q)
    BY <1>7, Zenon DEF Ending
  <2>3. <<>> \o Bodies(q.spill) = Bodies(q.spill)
    <3>1. Bodies(q.spill) \in Seq(Seq(Atoms))
      BY <1>3, BodiesAre
    <3> QED BY <3>1
  <2> QED BY <1>4, <1>5, <1>7, <2>1, <2>2, <2>3, Zenon DEF Pieces
<1>11. Line(r, sent, <<>>, w)
  <2>1. ~Cut(q)
    BY DEF Cut
  <2>2. r.taken = q.taken /\ ~r.lost /\ r.accepted = q.accepted
    BY <1>1, <1>3, <1>7, Zenon
  <2> QED BY <1>1, <1>2, <1>7, <1>10, <2>1, <2>2, SamePieces
<1>12. Len(Whole(r.spill)) <= r.spilled /\ r.spilled <= Limit /\ (r.spill = <<>> => r.spilled = 0)
  <2>1. CASE left = <<>>
    <3>1. Whole(<<>>) = <<>> /\ Len(<<>>) = 0
      BY <1>3, WholeIs
    <3>2. Len(Whole(r.spill)) = 0 /\ r.spilled = 0
      BY <1>7, <2>1, <3>1, Zenon
    <3> QED BY <3>2, OutboxAssumption
  <2>2. CASE left # <<>>
    <3>1. Len(Whole(q.spill)) = Len(Whole(head)) + Len(Whole(left)) /\ Len(Whole(left)) \in Nat /\ b \in Nat
      BY <1>4, <1>6, Rejoin
    <3>2. Len(Whole(q.spill)) <= q.spilled /\ q.spilled <= Limit
      BY <1>1 DEF Limits
    <3>3. Len(Whole(left)) <= q.spilled
      BY <1>3, <3>1, <3>2
    <3> QED BY <1>7, <2>2, <3>2, <3>3
  <2> QED BY <2>1, <2>2
<1> QED BY <1>1, <1>6, <1>7, <1>8, <1>9, <1>11, <1>12 DEF r, left

(* fill(): behind the last message of a draining file comes the tail.       *)
LEMMA EndedKeeps ==
  ASSUME NEW r \in Queues, NEW sent, NEW w \in Seq(Atoms), Line(r, sent, <<>>, w), ~r.lost, Counted(r),
         ~Cut(r), Roomy(r.bytes), r.spill = <<>>, r.spilled = 0, r.policy = "draining", r.goodbye.len = 1
  PROVE  QueueInv(Ended(r), sent, <<>>) /\ Ended(r).policy = "sealed"
<1> DEFINE e == Ended(r)
           f == Parts(r.goodbye)
           c == Chunk(f, TRUE)
<1>1. /\ r.chunks \in Seq(Pending) /\ r.bytes \in Nat /\ r.goodbye \in [n : Nat, len : Nat]
      /\ r.accepted \in Seq(Texts)
  BY QueuesAre
<1>2. f \in Seq(Atoms) \ {<<>>} /\ Len(f) = 1
  <2>1. f \in Seq(Atoms) /\ Len(f) = r.goodbye.len /\ (r.goodbye.len # 0 => f # <<>>)
    BY <1>1, PartsAre
  <2> HIDE DEF f
  <2> QED BY <2>1
<1>3. c \in Pending /\ c.parts = f
  BY <1>2, PendingIs
<1>4. /\ e \in Queues /\ e.chunks = Append(r.chunks, c) /\ e.taken = r.taken /\ e.bytes = r.bytes + 1
      /\ e.policy = "sealed" /\ e.spill = <<>> /\ e.spilled = 0 /\ e.accepted = r.accepted /\ ~e.lost
  <2> DEFINE b == r.bytes + 1
             cs == Append(r.chunks, c)
  <2>1. e = [r EXCEPT !.bytes = b, !.chunks = cs, !.policy = "sealed", !.goodbye = NoTail]
    BY <1>2 DEF Ended, Queued, Queues
  <2>2. b \in Nat /\ cs \in Seq(Pending) /\ NoTail \in [n : Nat, len : Nat]
    <3>1. NoTail \in [n : Nat, len : Nat]
      BY DEF NoTail, Msg
    <3>2. cs \in Seq(Pending)
      <4> HIDE DEF c
      <4> QED BY <1>1, <1>3
    <3>3. b \in Nat
      BY <1>1
    <3> QED BY <3>1, <3>2, <3>3, Zenon
  <2> HIDE DEF e, b, cs
  <2>3. /\ e \in Queues /\ e.chunks = cs /\ e.taken = r.taken /\ e.bytes = b
        /\ e.policy = "sealed" /\ e.spill = <<>> /\ e.spilled = 0 /\ e.accepted = r.accepted /\ ~e.lost
    BY <2>1, <2>2 DEF Queues
  <2> QED BY <2>3, Zenon DEF b, cs
<1> HIDE DEF e, c, f
<1>5. Counted(e)
  <2>1. e.bytes = r.bytes + Len(c.parts)
    BY <1>2, <1>3, <1>4, Zenon
  <2> QED BY <1>3, <1>4, <2>1, CountedMore
<1>6. Pieces(e) = Pieces(r)
  <2> DEFINE a == Parcels(r.chunks)
  <2>1. a \in Seq(Seq(Atoms)) /\ Parcels(e.chunks) = Append(a, f)
    <3>1. Parcels(Append(r.chunks, c)) = Append(a, c.parts) /\ a \in Seq(Seq(Atoms))
      BY <1>1, <1>3, ParcelsAre
    <3> QED BY <1>3, <1>4, <3>1, Zenon
  <2>2. Pieces(e) = Parcels(e.chunks)
    BY <1>4, PlainPieces
  <2>3. Bodies(r.spill) = <<>> /\ Ending(r) = <<f>>
    BY DEF Bodies, Ending, f
  <2>4. Pieces(r) = (a \o <<>>) \o <<f>>
    BY <2>3, Zenon DEF Pieces
  <2> HIDE DEF a
  <2>5. (a \o <<>>) \o <<f>> = Append(a, f)
    BY <1>2, <2>1
  <2> QED BY <2>1, <2>2, <2>4, <2>5, Zenon
<1>7. Line(e, sent, <<>>, w)
  BY <1>4, <1>6, SamePieces
<1>8. Limits(e)
  <2>1. Whole(<<>>) = <<>> /\ Len(<<>>) = 0
    BY <1>1, WholeIs
  <2>2. Roomy(e.bytes - 2)
    <3>1. e.bytes - 2 \in Int /\ e.bytes - 2 <= r.bytes
      BY <1>1, <1>4
    <3> QED BY <1>1, <3>1, RoomyLess
  <2> QED BY <1>4, <2>1, <2>2, OutboxAssumption DEF Limits, Extra
<1> QED BY <1>4, <1>5, <1>7, <1>8 DEF QueueInv, e

(* Refill: the queue is filled from the file, or the file is given up.      *)
LEMMA FilledKeeps ==
  ASSUME NEW q, NEW sent \in Seq(Atoms), QueueInv(q, sent, <<>>), q.chunks = <<>>, Spilling(q),
         NEW q2 \in Filled(q)
  PROVE  QueueInv(q2, sent, <<>>) /\ (q2.policy = q.policy \/ q2.policy = "sealed")
<1>1. q \in Queues /\ Limits(q)
  BY DEF QueueInv
<1>2. q.spill # <<>> /\ ~q.lost
  BY <1>1 DEF Spilling, Limits, Queues
<1>3. CASE q2 = Overflow(q)
  BY <1>2, <1>3, OverflowKeeps
<1>4. ASSUME NEW n \in 1 .. Len(q.spill), Budgeted(q.spill, n),
             q2 = IF From(q.spill, n + 1) = <<>> /\ q.policy = "draining"
                  THEN Ended(ReadOf(q, n)) ELSE ReadOf(q, n)
      PROVE  QueueInv(q2, sent, <<>>) /\ (q2.policy = q.policy \/ q2.policy = "sealed")
  <2> DEFINE r == ReadOf(q, n)
  <2>1. /\ r \in Queues /\ r.policy = q.policy /\ r.goodbye = q.goodbye /\ ~r.lost
        /\ r.spill = From(q.spill, n + 1) /\ (r.spill = <<>> => r.spilled = 0)
        /\ Counted(r) /\ Roomy(r.bytes) /\ ~Cut(r)
        /\ Len(Whole(r.spill)) <= r.spilled /\ r.spilled <= Limit
        /\ \E w \in Seq(Atoms) : Line(r, sent, <<>>, w)
    BY <1>2, <1>4, ReadKeeps, Zenon
  <2> HIDE DEF r
  <2>2. PICK w \in Seq(Atoms) : Line(r, sent, <<>>, w)
    BY <2>1
  <2>3. CASE r.spill = <<>> /\ r.policy = "draining"
    <3>1. r.goodbye.len = 1
      BY <1>1, <2>1, <2>3 DEF Limits
    <3>2. QueueInv(Ended(r), sent, <<>>) /\ Ended(r).policy = "sealed"
      BY <2>1, <2>2, <2>3, <3>1, EndedKeeps
    <3>3. q2 = Ended(r)
      BY <1>4, <2>1, <2>3 DEF r
    <3> QED BY <3>2, <3>3, Zenon
  <2>4. CASE ~(r.spill = <<>> /\ r.policy = "draining")
    <3>1. q2 = r
      BY <1>4, <2>1, <2>4 DEF r
    <3>2. q.policy \in {"view", "draining"}
      BY <1>1, <1>2 DEF Limits
    <3>3. Roomy(r.bytes - Extra(r.policy))
      <4>1. r.bytes \in Nat
        BY <2>1, QueuesAre
      <4>2. r.bytes - Extra(r.policy) \in Int /\ r.bytes - Extra(r.policy) <= r.bytes
        BY <4>1 DEF Extra
      <4> QED BY <2>1, <4>1, <4>2, RoomyLess
    <3>4. r.policy = "draining" => r.goodbye.len = 1
      BY <1>1, <2>1 DEF Limits
    <3>5. Limits(r)
      BY <2>1, <2>4, <3>2, <3>3, <3>4 DEF Limits
    <3>6. QueueInv(r, sent, <<>>)
      BY <2>1, <2>2, <3>5 DEF QueueInv
    <3> QED BY <2>1, <3>1, <3>6, Zenon
  <2> QED BY <2>3, <2>4
<1> QED BY <1>1, <1>2, <1>3, <1>4, FilledIs

-----------------------------------------------------------------------------
(* push(), finish(), record().                                              *)

(* push(): queued, in the file, or given up.                                *)
LEMMA PushedKeeps ==
  ASSUME NEW q, NEW sent \in Seq(Atoms), QueueInv(q, sent, <<>>), ~Sealed(q), NEW m \in Letters, NEW fit,
         NEW q2 \in Pushed(q, m, fit)
  PROVE  /\ QueueInv(q2, sent, <<>>) /\ (q2.policy = q.policy \/ q2.policy = "sealed")
         /\ q2.policy # "draining"
<1>1. q \in Queues /\ Limits(q)
  BY DEF QueueInv
<1>2. q.policy \in {"plain", "view"} /\ ~q.lost
  BY <1>1 DEF Sealed, Limits, Queues
<1>3. m \in Texts /\ m.len \in Lens /\ m.len \in Nat /\ m \in [n : Nat, len : Nat]
  BY LettersAre DEF Letters, Texts
<1>4. q.bytes \in Nat
  BY <1>1, QueuesAre
<1>5. CASE q2 = Overflow(q)
  BY <1>2, <1>5, OverflowKeeps
<1>6. CASE Fits(q, m.len) /\ q2 # Overflow(q)
  <2>1. q.spill = <<>> /\ q.bytes + m.len <= Cap
    BY <1>6 DEF Fits, Spilling
  <2>2. q2 = Behind(q, m, FALSE, q.policy)
    <3>1. q2 = [Queued(q, Parts(m), FALSE) EXCEPT !.accepted = Append(@, m)]
      BY <1>6 DEF Pushed
    <3> QED BY <1>1, <3>1 DEF Behind, Queued, Queues
  <2>3. Extra(q.policy) = 0
    BY <1>2 DEF Extra
  <2>4. Roomy(q.bytes + m.len - Extra(q.policy))
    BY <1>3, <1>4, <2>1, <2>3 DEF Roomy
  <2>5. QueueInv(q2, sent, <<>>)
    BY <1>2, <1>3, <2>1, <2>2, <2>4, QueuedKeeps
  <2>6. q2.policy = q.policy
    BY <1>1, <2>2 DEF Behind, Queued, Queues
  <2> QED BY <1>2, <2>5, <2>6
<1>7. CASE ~Fits(q, m.len) /\ q2 # Overflow(q)
  <2>1. q.policy = "view" /\ q.spilled + m.len <= Limit /\ q2 = Stored(q, m)
    BY <1>7 DEF Pushed
  <2>2. QueueInv(q2, sent, <<>>)
    BY <2>1, StoredKeeps
  <2>3. q2.policy = q.policy
    BY <1>1, <2>1 DEF Stored, Queues
  <2> QED BY <1>2, <2>2, <2>3
<1> QED BY <1>5, <1>6, <1>7

(* Nothing waits: the socket has all that was taken on.                     *)
LEMMA EmptyIs ==
  ASSUME NEW q, NEW sent \in Seq(Atoms), NEW rest \in Seq(Atoms), QueueInv(q, sent, rest), IsEmpty(q), ~Sealed(q)
  PROVE  /\ q \in Queues /\ Limits(q) /\ ~q.lost /\ q.chunks = <<>> /\ q.taken = 0 /\ q.bytes = 0 /\ q.spill = <<>>
         /\ q.policy \in {"plain", "view"} /\ Pieces(q) = <<>> /\ Stream(q) = <<>>
         /\ Whole(q.accepted) = sent \o rest
<1>1. q \in Queues /\ Limits(q)
  BY DEF QueueInv
<1>2. ~q.lost /\ q.chunks = <<>> /\ q.spill = <<>> /\ q.policy \in {"plain", "view"}
  BY <1>1 DEF Sealed, IsEmpty, Spilling, Limits, Queues
<1>3. Counted(q) /\ \E w \in Seq(Atoms) : Line(q, sent, rest, w)
  BY <1>2, KeptIs
<1>4. Flat(<<>>) = <<>> /\ Len(<<>>) = 0 /\ q.bytes \in Nat
  BY <1>1, QueuesAre, FlatIs
<1>5. q.taken = 0 /\ q.bytes = 0
  <2>1. q.taken = 0 /\ q.bytes + q.taken = Len(Flat(<<>>))
    BY <1>2, <1>3 DEF Counted
  <2>2. q.bytes + 0 = 0
    BY <1>4, <2>1, Zenon
  <2> QED BY <1>4, <2>1, <2>2
<1>6. Pieces(q) = <<>> /\ Stream(q) = <<>>
  <2>1. Pieces(q) = Parcels(<<>>) /\ Stream(q) = Flat(<<>>)
    BY <1>1, <1>2, PlainPieces
  <2>2. Parcels(<<>>) = <<>>
    BY DEF Parcels
  <2> QED BY <1>4, <2>1, <2>2, Zenon
<1>7. Whole(q.accepted) = sent \o rest
  <2>1. PICK w \in Seq(Atoms) : Line(q, sent, rest, w)
    BY <1>3
  <2>2. sent = w \o SubSeq(<<>>, 1, 0) /\ Whole(q.accepted) = (w \o <<>>) \o rest
    BY <1>2, <1>5, <1>6, <2>1 DEF Line, Kept
  <2>3. SubSeq(<<>>, 1, 0) = <<>> /\ w \o <<>> = w
    OBVIOUS
  <2> QED BY <2>2, <2>3, Zenon
<1> QED BY <1>1, <1>2, <1>5, <1>6, <1>7

(* What the socket took of an empty queue is a line.                        *)
LEMMA EmptyKeeps ==
  ASSUME NEW q \in Queues, NEW sent \in Seq(Atoms), NEW rest \in Seq(Atoms), Limits(q), ~q.lost, q.chunks = <<>>,
         q.taken = 0, q.bytes = 0, q.spill = <<>>, q.policy # "draining", Whole(q.accepted) = sent \o rest
  PROVE  QueueInv(q, sent, rest)
<1>1. Flat(<<>>) = <<>> /\ Len(<<>>) = 0
  BY QueuesAre, FlatIs
<1>2. Pieces(q) = <<>> /\ Stream(q) = <<>>
  <2>1. Pieces(q) = Parcels(<<>>) /\ Stream(q) = Flat(<<>>)
    BY PlainPieces
  <2>2. Parcels(<<>>) = <<>>
    BY DEF Parcels
  <2> QED BY <1>1, <2>1, <2>2, Zenon
<1>3. Counted(q)
  BY <1>1 DEF Counted
<1>4. sent \o <<>> = sent /\ SubSeq(<<>>, 1, 0) = <<>>
  OBVIOUS
<1>5. Kept(q, sent, rest)
  BY <1>2, <1>4 DEF Kept
<1>6. Line(q, sent, rest, sent)
  BY <1>2, <1>4, <1>5 DEF Line
<1> QED BY <1>3, <1>6 DEF QueueInv

(* send_pixels(): a body is sent from its object.                           *)
LEMMA BodyKeeps ==
  ASSUME NEW q, NEW sent \in Seq(Atoms), QueueInv(q, sent, <<>>), ~q.lost, NEW m \in Texts
  PROVE  QueueInv([q EXCEPT !.accepted = Append(q.accepted, m)], sent, Parts(m))
<1> DEFINE a == [q EXCEPT !.accepted = Append(q.accepted, m)]
<1>1. q \in Queues /\ Counted(q) /\ Limits(q)
  BY KeptIs
<1>2. PICK w \in Seq(Atoms) : Line(q, sent, <<>>, w)
  BY KeptIs
<1>3. /\ a \in Queues /\ a.chunks = q.chunks /\ a.taken = q.taken /\ a.bytes = q.bytes
      /\ a.policy = q.policy /\ a.spill = q.spill /\ a.spilled = q.spilled
      /\ a.goodbye = q.goodbye /\ a.accepted = Append(q.accepted, m) /\ a.lost = q.lost
  <2>1. q.accepted \in Seq(Texts) /\ Append(q.accepted, m) \in Seq(Texts)
    BY <1>1, QueuesAre
  <2> QED BY <1>1, <2>1 DEF Queues
<1> HIDE DEF a
<1>4. Counted(a) /\ (Cut(a) <=> Cut(q)) /\ Limits(a) /\ Pieces(a) = Pieces(q) /\ Stream(a) = Stream(q)
  <2>1. Counted(a) /\ (Cut(a) <=> Cut(q)) /\ Limits(a)
    BY <1>1, <1>3, Zenon DEF Counted, Cut, Limits
  <2>2. Pieces(a) = Pieces(q)
    BY <1>3, Zenon DEF Pieces, Ending
  <2> QED BY <2>1, <2>2, Zenon DEF Stream
<1>5. q.accepted \in Seq(Texts) /\ Stream(q) \in Seq(Atoms) /\ Parts(m) \in Seq(Atoms)
  BY <1>1, QueuesAre, PiecesAre, PartsAre, LettersAre
<1>6. Kept(q, w, <<>>) /\ sent = w \o SubSeq(Stream(q), 1, q.taken)
  BY <1>2 DEF Line
<1>7. Whole(a.accepted) = (w \o Stream(q)) \o Parts(m)
  <2>1. Whole(Append(q.accepted, m)) = Whole(q.accepted) \o Parts(m)
    BY <1>5, WholeIs
  <2>2. Whole(q.accepted) = (w \o Stream(q)) \o <<>>
    BY <1>6 DEF Kept
  <2>3. (w \o Stream(q)) \o <<>> = w \o Stream(q)
    <3>1. w \o Stream(q) \in Seq(Atoms)
      BY <1>5
    <3> QED BY <3>1
  <2> QED BY <1>3, <2>1, <2>2, <2>3, Zenon
<1>8. \A v : Boundary(q.accepted, v) => Boundary(a.accepted, v)
  BY <1>3, <1>5, BoundaryGrows
<1>9. Kept(a, w, Parts(m))
  BY <1>4, <1>6, <1>7, <1>8, Zenon DEF Kept
<1>10. Line(a, sent, Parts(m), w)
  BY <1>3, <1>4, <1>6, <1>9, Zenon DEF Line
<1> QED BY <1>3, <1>4, <1>10, Zenon DEF QueueInv, a

(* upgrade(): a plain queue is a view's from now on.                        *)
LEMMA ViewKeeps ==
  ASSUME NEW q, NEW sent \in Seq(Atoms), QueueInv(q, sent, <<>>), q.policy = "plain"
  PROVE  QueueInv([q EXCEPT !.policy = "view"], sent, <<>>)
<1> DEFINE a == [q EXCEPT !.policy = "view"]
<1>1. q \in Queues /\ Limits(q) /\ ~q.lost /\ Counted(q)
  BY KeptIs DEF QueueInv, Limits
<1>2. PICK w \in Seq(Atoms) : Line(q, sent, <<>>, w)
  BY <1>1, KeptIs
<1>3. /\ a \in Queues /\ a.chunks = q.chunks /\ a.taken = q.taken /\ a.bytes = q.bytes
      /\ a.policy = "view" /\ a.spill = q.spill /\ a.spilled = q.spilled
      /\ a.goodbye = q.goodbye /\ a.accepted = q.accepted /\ a.lost = q.lost
  BY <1>1 DEF Queues
<1> HIDE DEF a
<1>4. Counted(a) /\ (Cut(a) <=> Cut(q)) /\ Pieces(a) = Pieces(q) /\ Stream(a) = Stream(q)
  <2>1. Counted(a) /\ (Cut(a) <=> Cut(q))
    BY <1>1, <1>3, Zenon DEF Counted, Cut
  <2>2. Ending(a) = <<>> /\ Ending(q) = <<>>
    BY <1>3 DEF Ending
  <2>3. Pieces(a) = Pieces(q)
    BY <1>3, <2>2, Zenon DEF Pieces
  <2> QED BY <2>1, <2>3, Zenon DEF Stream
<1>5. Limits(a)
  BY <1>1, <1>3 DEF Limits, Extra
<1>6. Line(a, sent, <<>>, w)
  <2>1. Kept(q, w, <<>>) /\ sent = w \o SubSeq(Stream(q), 1, q.taken)
    BY <1>1, <1>2 DEF Line
  <2> QED BY <1>1, <1>3, <1>4, <2>1, Zenon DEF Line, Kept
<1> QED BY <1>3, <1>4, <1>5, <1>6 DEF QueueInv, a

(* pull(): the socket takes of the body.                                    *)
LEMMA PulledKeeps ==
  ASSUME NEW q, NEW sent \in Seq(Atoms), NEW rest \in Seq(Atoms), QueueInv(q, sent, rest), IsEmpty(q), ~Sealed(q),
         NEW n \in 0 .. Len(rest)
  PROVE  QueueInv(q, sent \o SubSeq(rest, 1, n), From(rest, n + 1))
<1> DEFINE a == SubSeq(rest, 1, n)
           b == From(rest, n + 1)
<1>1. /\ q \in Queues /\ Limits(q) /\ ~q.lost /\ q.chunks = <<>> /\ q.taken = 0 /\ q.bytes = 0 /\ q.spill = <<>>
      /\ q.policy \in {"plain", "view"} /\ Whole(q.accepted) = sent \o rest
  BY EmptyIs
<1>2. a \in Seq(Atoms) /\ b \in Seq(Atoms) /\ rest = a \o b
  BY Split
<1> HIDE DEF a, b
<1>3. sent \o (a \o b) = (sent \o a) \o b
  <2>1. Joined(sent, a, b)
    BY <1>2, AtomsJoin
  <2> QED BY <2>1, Zenon DEF Joined
<1>4. sent \o a \in Seq(Atoms)
  BY <1>2
<1>5. Whole(q.accepted) = (sent \o a) \o b /\ q.policy # "draining"
  BY <1>1, <1>2, <1>3
<1>6. QueueInv(q, sent \o a, b)
  BY <1>1, <1>2, <1>4, <1>5, EmptyKeeps
<1> QED BY <1>6 DEF a, b

(* Messages one behind the other.                                           *)
LEMMA WholeConcat ==
  ASSUME NEW a \in Seq(Texts), NEW b \in Seq(Texts)
  PROVE  Whole(a \o b) = Whole(a) \o Whole(b) /\ a \o b \in Seq(Texts)
<1>1. /\ Bodies(a) \in Seq(Seq(Atoms)) /\ Bodies(b) \in Seq(Seq(Atoms)) /\ a \o b \in Seq(Texts)
      /\ Whole(a) = FlattenSeq(Bodies(a)) /\ Whole(b) = FlattenSeq(Bodies(b))
  BY BodiesAre
<1>2. Whole(a \o b) = FlattenSeq(Bodies(a \o b))
  BY <1>1, BodiesAre
<1>3. Bodies(a \o b) = Bodies(a) \o Bodies(b)
  <2> DEFINE x == Bodies(a \o b)
             y == Bodies(a) \o Bodies(b)
  <2>1. Len(a) \in Nat /\ Len(b) \in Nat /\ Len(Bodies(a)) = Len(a) /\ Len(Bodies(b)) = Len(b)
    BY BodiesAre
  <2>2. Len(a \o b) = Len(a) + Len(b)
    OBVIOUS
  <2>3. x \in Seq(Seq(Atoms)) /\ Len(x) = Len(a) + Len(b)
    BY <1>1, <2>2, BodiesAre
  <2>4. y \in Seq(Seq(Atoms)) /\ Len(y) = Len(a) + Len(b)
    <3> DEFINE p == Bodies(a)
               r == Bodies(b)
    <3>1. p \in Seq(Seq(Atoms)) /\ r \in Seq(Seq(Atoms))
      BY <1>1
    <3> HIDE DEF p, r
    <3>2. p \o r \in Seq(Seq(Atoms)) /\ Len(p \o r) = Len(p) + Len(r)
      BY <3>1, Rejoin
    <3> QED BY <2>1, <3>2, Zenon DEF p, r
  <2>5. ASSUME NEW i \in 1 .. Len(x) PROVE x[i] = y[i]
    <3>1. x[i] = Parts((a \o b)[i])
      <4>1. i \in DOMAIN (a \o b)
        BY <2>1, <2>2, <2>3
      <4> QED BY <4>1 DEF Bodies
    <3>2. CASE i <= Len(a)
      <4>1. i \in 1 .. Len(a)
        BY <2>1, <2>3, <3>2
      <4>2. (a \o b)[i] = a[i] /\ Bodies(a)[i] = Parts(a[i])
        BY <4>1 DEF Bodies
      <4>3. y[i] = Bodies(a)[i]
        BY <1>1, <2>1, <4>1, ConcatProperties
      <4> QED BY <3>1, <4>2, <4>3, Zenon
    <3>3. CASE ~(i <= Len(a))
      <4>1. i - Len(a) \in 1 .. Len(b) /\ i \in Len(a) + 1 .. Len(a) + Len(b)
        BY <2>1, <2>3, <3>3
      <4>2. (a \o b)[i] = b[i - Len(a)] /\ Bodies(b)[i - Len(a)] = Parts(b[i - Len(a)])
        BY <4>1 DEF Bodies
      <4>3. y[i] = Bodies(b)[i - Len(a)]
        BY <1>1, <2>1, <4>1, ConcatProperties
      <4> QED BY <3>1, <4>2, <4>3, Zenon
    <3> QED BY <3>2, <3>3
  <2> HIDE DEF x, y
  <2>6. x = y
    BY <2>3, <2>4, <2>5, SeqEqual
  <2> QED BY <2>6 DEF x, y
<1>4. FlattenSeq(Bodies(a) \o Bodies(b)) = FlattenSeq(Bodies(a)) \o FlattenSeq(Bodies(b))
  BY <1>1, FlattenConcat
<1> QED BY <1>1, <1>2, <1>3, <1>4, Zenon

(* record() and send_batch(): the socket takes the messages at once, and    *)
(* the queue has the rest of the last as a tail.                            *)
Direct(q, msgs, count) ==
  LET a    == [q EXCEPT !.accepted = q.accepted \o msgs]
      rest == From(Whole(msgs), count + 1)
  IN  IF rest = <<>> THEN a ELSE Queued(a, rest, TRUE)

(* Output::record and send_batch on an empty queue keep the invariant.      *)
LEMMA DirectKeeps ==
  ASSUME NEW q, NEW sent \in Seq(Atoms), QueueInv(q, sent, <<>>), IsEmpty(q), ~Sealed(q),
         NEW msgs \in Seq(Texts), NEW count \in 0 .. Len(Whole(msgs)), Roomy(Len(Whole(msgs)) - count)
  PROVE  /\ QueueInv(Direct(q, msgs, count), sent \o SubSeq(Whole(msgs), 1, count), <<>>)
         /\ Direct(q, msgs, count).policy = q.policy
<1> DEFINE all  == Whole(msgs)
           u    == SubSeq(all, 1, count)
           rest == From(all, count + 1)
           acc  == q.accepted \o msgs
           a    == [q EXCEPT !.accepted = acc]
           s2   == sent \o u
<1>1. /\ q \in Queues /\ Limits(q) /\ ~q.lost /\ q.chunks = <<>> /\ q.taken = 0 /\ q.bytes = 0 /\ q.spill = <<>>
      /\ q.policy \in {"plain", "view"} /\ Whole(q.accepted) = sent \o <<>>
  <2>1. <<>> \in Seq(Atoms)
    OBVIOUS
  <2> QED BY <2>1, EmptyIs
<1>2. all \in Seq(Atoms) /\ q.accepted \in Seq(Texts)
  BY <1>1, WholeIs, QueuesAre
<1>3. u \in Seq(Atoms) /\ rest \in Seq(Atoms) /\ all = u \o rest /\ Len(rest) = Len(all) - count
  <2> HIDE DEF all
  <2> QED BY <1>2, Split DEF all
<1>4. acc \in Seq(Texts) /\ Whole(acc) = Whole(q.accepted) \o all
  BY <1>2, WholeConcat
<1> HIDE DEF all, u, rest, acc
<1>5. s2 \in Seq(Atoms) /\ Whole(acc) = s2 \o rest
  <2>1. sent \o <<>> = sent
    OBVIOUS
  <2>2. sent \o (u \o rest) = (sent \o u) \o rest
    <3>1. Joined(sent, u, rest)
      BY <1>3, AtomsJoin
    <3> QED BY <3>1, Zenon DEF Joined
  <2>3. s2 \in Seq(Atoms)
    BY <1>3
  <2> QED BY <1>1, <1>3, <1>4, <2>1, <2>2, <2>3, Zenon
<1>6. /\ a \in Queues /\ a.chunks = <<>> /\ a.taken = 0 /\ a.bytes = 0
      /\ a.policy = q.policy /\ a.spill = <<>> /\ a.spilled = q.spilled
      /\ a.goodbye = q.goodbye /\ a.accepted = acc /\ ~a.lost
  BY <1>1, <1>4 DEF Queues
<1> HIDE DEF s2
<1>7. CASE rest = <<>>
  <2>1. Direct(q, msgs, count) = a
    BY <1>7, Zenon DEF Direct, rest, all, acc
  <2>2. Limits(a)
    BY <1>1, <1>6, Zenon DEF Limits
  <2>3. a.policy # "draining"
    BY <1>1, <1>6
  <2> HIDE DEF a
  <2>4. <<>> \in Seq(Atoms) /\ Whole(a.accepted) = s2 \o <<>>
    <3>1. <<>> \in Seq(Atoms)
      OBVIOUS
    <3> QED BY <1>5, <1>6, <1>7, <3>1, Zenon
  <2>5. QueueInv(a, s2, <<>>)
    BY <1>5, <1>6, <2>2, <2>3, <2>4, EmptyKeeps
  <2> QED BY <1>6, <2>1, <2>5, Zenon DEF s2, u, all
<1>8. CASE rest # <<>>
  <2> DEFINE c == Chunk(rest, TRUE)
             o == Queued(a, rest, TRUE)
             n == Len(rest)
  <2>1. Direct(q, msgs, count) = o
    BY <1>8, Zenon DEF Direct, rest, all, acc
  <2>2. c \in Pending /\ c.parts = rest /\ c.tail = TRUE
    BY <1>3, <1>8, PendingIs
  <2> HIDE DEF a, c
  <2>3. n \in Nat /\ n # 0
    BY <1>3, <1>8, EmptySeq
  <2>4. Append(<<>>, c) \in Seq(Pending) /\ Append(<<>>, c) # <<>> /\ Append(<<>>, c)[1] = c
    BY <2>2
  <2>5. /\ o \in Queues /\ o.chunks = Append(<<>>, c) /\ o.taken = 0 /\ o.bytes = n
        /\ o.policy = q.policy /\ o.spill = <<>> /\ o.spilled = q.spilled
        /\ o.accepted = acc /\ ~o.lost
    <3> DEFINE cs == Append(<<>>, c)
    <3>1. o = [a EXCEPT !.bytes = n, !.chunks = cs]
      <4>1. o = [a EXCEPT !.bytes = a.bytes + Len(rest), !.chunks = Append(a.chunks, Chunk(rest, TRUE))]
        BY <1>6 DEF Queued, Queues
      <4>2. a.bytes + Len(rest) = n
        BY <1>6, <2>3
      <4> QED BY <1>6, <4>1, <4>2, Zenon DEF c
    <3>2. cs \in Seq(Pending)
      BY <2>4
    <3> HIDE DEF o, cs, n
    <3>3. /\ o \in Queues /\ o.chunks = cs /\ o.taken = 0 /\ o.bytes = n
          /\ o.policy = q.policy /\ o.spill = <<>> /\ o.spilled = q.spilled
          /\ o.accepted = acc /\ ~o.lost
      BY <1>6, <2>3, <3>1, <3>2 DEF Queues
    <3> QED BY <3>3 DEF cs
  <2>6. Pieces(o) = Append(<<>>, rest) /\ Flat(o.chunks) = rest /\ Stream(o) = rest
    <3>1. o.policy # "draining"
      BY <1>1, <2>5
    <3>2. Pieces(o) = Parcels(o.chunks) /\ Stream(o) = Flat(o.chunks)
      <4> HIDE DEF o
      <4> QED BY <2>5, <3>1, PlainPieces
    <3>3. <<>> \in Seq(Pending) /\ Parcels(<<>>) = <<>>
      BY DEF Parcels
    <3>4. Parcels(Append(<<>>, c)) = Append(Parcels(<<>>), c.parts)
      BY <2>2, <3>3, ParcelsAre
    <3>5. Flat(Append(<<>>, c)) = Flat(<<>>) \o c.parts /\ Flat(<<>>) = <<>>
      BY <2>2, <3>3, FlatIs
    <3>6. <<>> \o rest = rest
      BY <1>3
    <3> QED BY <2>2, <2>5, <3>2, <3>3, <3>4, <3>5, <3>6, Zenon
  <2> HIDE DEF o
  <2>7. Counted(o)
    <3>1. o.bytes + o.taken = Len(Flat(o.chunks))
      <4>1. n + 0 = n
        BY <2>3
      <4> QED BY <2>5, <2>6, <4>1, Zenon
    <3>2. o.chunks # <<>> /\ o.taken < Len(o.chunks[1].parts)
      BY <2>2, <2>3, <2>4, <2>5
    <3> QED BY <3>1, <3>2 DEF Counted
  <2>8. Kept(o, s2, <<>>)
    <3>1. s2 \o rest \in Seq(Atoms)
      BY <1>3, <1>5
    <3>2. (s2 \o Stream(o)) \o <<>> = s2 \o rest
      <4>1. (s2 \o rest) \o <<>> = s2 \o rest
        BY <3>1
      <4> QED BY <2>6, <4>1, Zenon
    <3>3. Whole(o.accepted) = (s2 \o Stream(o)) \o <<>>
      BY <1>5, <2>5, <3>2, Zenon
    <3>4. ASSUME NEW i \in 1 .. Len(Pieces(o))
          PROVE  Boundary(o.accepted, s2 \o FlattenSeq(SubSeq(Pieces(o), 1, i)))
      <4>1. i = 1 /\ SubSeq(Pieces(o), 1, i) = Pieces(o)
        <5>1. Append(<<>>, rest) \in Seq(Seq(Atoms)) /\ Len(Append(<<>>, rest)) = 1
          BY <1>3
        <5>2. i = 1
          BY <2>6, <5>1
        <5>3. SubSeq(Append(<<>>, rest), 1, Len(Append(<<>>, rest))) = Append(<<>>, rest)
          <6> DEFINE t == Append(<<>>, rest)
          <6>1. t \in Seq(Seq(Atoms))
            BY <5>1
          <6> HIDE DEF t
          <6>2. SubSeq(t, 1, Len(t)) = t
            BY <6>1
          <6> QED BY <6>2 DEF t
        <5> QED BY <2>6, <5>1, <5>2, <5>3, Zenon
      <4>2. s2 \o FlattenSeq(SubSeq(Pieces(o), 1, i)) = Whole(acc)
        BY <1>5, <2>6, <4>1, Zenon DEF Stream
      <4>3. Boundary(acc, Whole(acc))
        <5>1. \E m : m \in Texts
          <6>1. [n |-> 0, len |-> 1] \in Texts
            BY DEF Texts
          <6> QED BY <6>1
        <5> QED BY <1>4, <5>1, BoundaryGrows
      <4> QED BY <2>5, <4>2, <4>3, Zenon
    <3>5. Cut(o)
      BY <2>2, <2>4, <2>5 DEF Cut
    <3> QED BY <3>3, <3>4, <3>5, Zenon DEF Kept
  <2>9. Line(o, s2, <<>>, s2)
    <3>1. SubSeq(Stream(o), 1, 0) = <<>> /\ s2 \o <<>> = s2
      <4>1. SubSeq(rest, 1, 0) = <<>>
        BY <1>3, SubSeqEmpty
      <4>2. s2 \o <<>> = s2
        BY <1>5
      <4> QED BY <2>6, <4>1, <4>2, Zenon
    <3> QED BY <2>5, <2>8, <3>1, Zenon DEF Line
  <2>10. Limits(o)
    <3>1. Roomy(o.bytes - Extra(o.policy))
      <4>1. Extra(o.policy) = 0
        BY <1>1, <2>5 DEF Extra
      <4>2. Roomy(n)
        BY <1>3 DEF all
      <4>3. n - 0 = n
        BY <2>3
      <4> QED BY <2>5, <4>1, <4>2, <4>3, Zenon
    <3>2. Len(Whole(o.spill)) <= o.spilled /\ o.spilled <= Limit
      BY <1>1, <2>5 DEF Limits
    <3> QED BY <1>1, <2>5, <3>1, <3>2 DEF Limits
  <2>11. QueueInv(o, s2, <<>>)
    BY <1>5, <2>5, <2>7, <2>9, <2>10 DEF QueueInv
  <2> QED BY <2>1, <2>5, <2>11, Zenon DEF s2, u, all
<1> QED BY <1>7, <1>8

(* finish(): the tail is queued, or waits behind the file.                  *)
LEMMA FinishedKeeps ==
  ASSUME NEW q, NEW sent \in Seq(Atoms), QueueInv(q, sent, <<>>), ~Sealed(q), NEW m \in Texts, m.len = 1,
         NEW q2, q2 = Finished([q EXCEPT !.accepted = Append(q.accepted, m)], m)
  PROVE  /\ QueueInv(q2, sent, <<>>)
         /\ q2.policy = "sealed" \/ (q2.policy = "draining" /\ q.policy = "view")
<1>1. q \in Queues /\ Limits(q)
  BY DEF QueueInv
<1>2. q.policy \in {"plain", "view"} /\ ~q.lost
  BY <1>1 DEF Sealed, Limits, Queues
<1>3. CASE q.spill # <<>>
  <2>1. q2 = [q EXCEPT !.accepted = Append(q.accepted, m), !.policy = "draining", !.goodbye = m]
    BY <1>1, <1>3 DEF Finished, Queues
  <2>2. q.policy = "view"
    BY <1>1, <1>2, <1>3 DEF Limits
  <2>3. QueueInv(q2, sent, <<>>)
    BY <1>3, <2>1, <2>2, DrainingKeeps
  <2>4. q2.policy = "draining"
    BY <1>1, <2>1 DEF Queues
  <2> QED BY <2>2, <2>3, <2>4
<1>4. CASE q.spill = <<>>
  <2>1. q2 = Behind(q, m, TRUE, "sealed")
    BY <1>1, <1>4 DEF Finished, Behind, Queued, Queues
  <2>2. Roomy(q.bytes + m.len - Extra("sealed"))
    <3>1. Roomy(q.bytes - Extra(q.policy)) /\ Extra(q.policy) = 0 /\ Extra("sealed") = 2 /\ q.bytes \in Nat
      BY <1>1, <1>2, QueuesAre DEF Limits, Extra
    <3> DEFINE b == q.bytes
    <3>2. Roomy(b - 0) /\ b \in Nat
      BY <3>1, Zenon
    <3> HIDE DEF b
    <3>3. b - 0 = b /\ b + 1 - 2 \in Int /\ b + 1 - 2 <= b
      BY <3>2
    <3>4. Roomy(b + 1 - 2)
      BY <3>2, <3>3, RoomyLess
    <3> QED BY <3>1, <3>4, Zenon DEF b
  <2>3. QueueInv(q2, sent, <<>>)
    BY <1>2, <1>4, <2>1, <2>2, QueuedKeeps
  <2>4. q2.policy = "sealed"
    BY <1>1, <2>1 DEF Behind, Queued, Queues
  <2> QED BY <2>3, <2>4
<1> QED BY <1>3, <1>4

-----------------------------------------------------------------------------
(* The steps.                                                               *)

(* The queue after a step is the one that the step names.                   *)
LEMMA BecomesIs ==
  ASSUME NEW q \in Queues, Becomes(q)
  PROVE  Now' = q /\ policy' = q.policy
BY DEF Becomes, Now, Queues

(* A step that leaves the queue alone leaves its record alone.              *)
LEMMA SameQueue ==
  ASSUME UNCHANGED <<queue, accepted, lost>>
  PROVE  Now' = Now /\ policy' = policy
BY DEF queue, Now

(* The fields of the queue are the variables.                               *)
LEMMA NowIs ==
  /\ Now.chunks = chunks /\ Now.taken = taken /\ Now.bytes = bytes /\ Now.policy = policy
  /\ Now.spill = spill /\ Now.spilled = spilled /\ Now.goodbye = goodbye
  /\ Now.accepted = accepted /\ Now.lost = lost
BY DEF Now

(* What the operations hand to the output are messages.                     *)
LEMMA MessagesAre ==
  ASSUME NEW n \in Nat
  PROVE  /\ \A len \in Lens : Msg(n, len) \in Letters /\ Msg(n, len) \in Texts /\ Msg(n, len).len = len
         /\ Close(n) \in Texts /\ Close(n).len = 1
<1>1. \A len \in Lens : Msg(n, len) \in Letters /\ Msg(n, len).len = len
  BY DEF Msg, Letters
<1>2. Close(n) \in Texts /\ Close(n).len = 1
  BY DEF Close, Msg, Texts
<1> QED BY <1>1, <1>2, LettersAre

(* What the phase says of the body and of the policy.                       *)
LEMMA StagesAre ==
  ASSUME OutboxInv
  PROVE  /\ Now \in Queues /\ wire \in Seq(Atoms) /\ pixels \in Seq(Atoms) /\ next \in Nat
         /\ QueueInv(Now, wire, pixels) /\ Limits(Now)
         /\ phase # "streaming" => pixels = <<>>
         /\ Sealed(Now) => pixels = <<>>
         /\ Spilling(Now) => phase = "ws" /\ pixels = <<>>
         /\ phase = "head" /\ ~Sealed(Now) => policy = "plain"
<1>1. /\ Now \in Queues /\ wire \in Seq(Atoms) /\ pixels \in Seq(Atoms) /\ next \in Nat
      /\ QueueInv(Now, wire, pixels) /\ Limits(Now)
  BY DEF OutboxInv, Stages, QueueInv
<1>2. phase # "streaming" => pixels = <<>>
  BY DEF OutboxInv, Stages
<1>3. Sealed(Now) => pixels = <<>>
  BY NowIs DEF OutboxInv, Stages, Sealed
<1>4. Spilling(Now) => policy \in {"view", "draining"}
  BY <1>1, NowIs DEF Spilling, Limits
<1>5. Spilling(Now) => phase = "ws"
  BY <1>4 DEF OutboxInv, Stages
<1>6. phase = "head" /\ ~Sealed(Now) => policy = "plain"
  BY NowIs DEF OutboxInv, Stages, Sealed
<1> QED BY <1>1, <1>2, <1>3, <1>5, <1>6

(* flush().                                                                 *)
LEMMA FlushKeeps ==
  ASSUME OutboxInv, FlushStep
  PROVE  OutboxInv'
<1> USE StagesAre, NowIs
<1>1. CASE Refill
  <2>1. PICK q \in Filled(Now) : Becomes(q)
    BY <1>1 DEF Refill
  <2>2. pixels = <<>> /\ Now.chunks = <<>> /\ Spilling(Now) /\ phase = "ws"
    BY <1>1 DEF Refill
  <2>3. QueueInv(q, wire, <<>>) /\ (q.policy = Now.policy \/ q.policy = "sealed")
    BY <2>2, FilledKeeps
  <2>4. Now' = q
    BY <2>1, <2>3, BecomesIs DEF QueueInv
  <2>5. wire' = wire /\ pixels' = pixels /\ phase' = phase /\ next' = next
    BY <1>1 DEF Refill, output
  <2> QED BY <2>2, <2>3, <2>4, <2>5 DEF OutboxInv, Stages
<1>2. CASE Transmit
  <2>1. PICK count \in 1 .. Len(Unsent) :
          /\ wire' = wire \o SubSeq(Unsent, 1, count)
          /\ Becomes(Written(Now, count))
    BY <1>2 DEF Transmit
  <2>2. Now.chunks # <<>> /\ Unsent = From(Flat(Now.chunks), Now.taken + 1)
    BY <1>2 DEF Transmit, Unsent
  <2>3. QueueInv(Written(Now, count), wire', pixels) /\ Written(Now, count).policy = Now.policy
    BY <2>1, <2>2, WrittenKeeps
  <2>4. Now' = Written(Now, count) /\ policy' = policy
    BY <2>1, <2>3, BecomesIs DEF QueueInv
  <2>5. pixels' = pixels /\ phase' = phase /\ next' = next
    BY <1>2 DEF Transmit, output
  <2>6. wire' \in Seq(Atoms)
    <3>1. Unsent \in Seq(Atoms) /\ count \in 0 .. Len(Unsent)
      <4>1. Counted(Now)
        BY <2>2 DEF QueueInv, Dropped
      <4> QED BY <2>2, <4>1, CountedIs
    <3>2. SubSeq(Unsent, 1, count) \in Seq(Atoms)
      BY <3>1, Split
    <3> QED BY <2>1, <3>2
  <2> QED BY <2>3, <2>4, <2>5, <2>6 DEF OutboxInv, Stages
<1>3. CASE EndFlush
  <2>1. PICK left \in Pulled :
          /\ pixels' = left
          /\ wire' = IF Sealed(Now) THEN wire
                     ELSE wire \o SubSeq(pixels, 1, Len(pixels) - Len(left))
    BY <1>3 DEF EndFlush
  <2>2. Now' = Now /\ policy' = policy /\ phase' = phase /\ next' = next
    BY <1>3, SameQueue DEF EndFlush
  <2>3. QueueInv(Now, wire', pixels') /\ wire' \in Seq(Atoms) /\ pixels' \in Seq(Atoms)
        /\ (pixels' # <<>> => pixels # <<>>)
    <3>1. CASE pixels' = pixels /\ wire' = wire
      BY <3>1
    <3>2. CASE left = pixels /\ ~Sealed(Now)
      <4>1. SubSeq(pixels, 1, 0) = <<>> /\ wire \o <<>> = wire /\ Len(pixels) - Len(pixels) = 0
        BY SubSeqEmpty
      <4>2. wire' = wire
        BY <2>1, <3>2, <4>1
      <4> QED BY <2>1, <3>1, <3>2, <4>2
    <3>3. CASE Sealed(Now)
      BY <2>1, <3>1, <3>3 DEF Pulled
    <3>4. CASE ~Sealed(Now) /\ left # pixels
      <4>1. pixels # <<>> /\ IsEmpty(Now)
        BY <2>1, <3>4 DEF Pulled
      <4>2. PICK i \in 1 .. Len(pixels) + 1 : left = From(pixels, i)
        BY <2>1, <3>4, <4>1 DEF Pulled
      <4> DEFINE n == i - 1
      <4>3. n \in 0 .. Len(pixels) /\ n + 1 = i
        BY <4>2
      <4> HIDE DEF n
      <4>4. /\ SubSeq(pixels, 1, n) \in Seq(Atoms) /\ left \in Seq(Atoms)
            /\ Len(left) = Len(pixels) - n
        BY <4>2, <4>3, Split
      <4>5. Len(pixels) - Len(left) = n
        BY <4>3, <4>4
      <4>6. wire' = wire \o SubSeq(pixels, 1, n)
        BY <2>1, <3>4, <4>5
      <4>7. QueueInv(Now, wire \o SubSeq(pixels, 1, n), From(pixels, n + 1))
        BY <3>4, <4>1, <4>3, PulledKeeps
      <4>8. wire \o SubSeq(pixels, 1, n) \in Seq(Atoms)
        BY <4>4
      <4> QED BY <2>1, <4>1, <4>2, <4>3, <4>4, <4>6, <4>7, <4>8
    <3> QED BY <3>2, <3>3, <3>4
  <2> QED BY <2>2, <2>3 DEF OutboxInv, Stages
<1> QED BY <1>1, <1>2, <1>3 DEF FlushStep

(* One message for an open output (SendHttp, Upgrade, SendText, Record).    *)
LEMMA PushStep ==
  ASSUME OutboxInv, ~Sealed(Now), pixels = <<>>, NEW len \in Lens, NEW fit, NEW q \in Pushed(Now, Msg(next, len), fit)
  PROVE  /\ QueueInv(q, wire, <<>>) /\ q \in Queues
         /\ q.policy = policy \/ q.policy = "sealed"
         /\ q.policy # "draining"
<1>1. Msg(next, len) \in Letters
  BY StagesAre, MessagesAre
<1>2. QueueInv(Now, wire, <<>>) /\ wire \in Seq(Atoms)
  BY StagesAre
<1>3. QueueInv(q, wire, <<>>) /\ (q.policy = Now.policy \/ q.policy = "sealed") /\ q.policy # "draining"
  BY <1>1, <1>2, PushedKeeps
<1> QED BY <1>3, NowIs DEF QueueInv

(* respond(), upgrade() and Ws::send keep the invariant.                    *)
LEMMA HttpKeeps ==
  ASSUME OutboxInv, NEW len \in Lens, SendHttp(len) \/ Upgrade(len) \/ SendText(len)
  PROVE  OutboxInv'
<1>1. /\ ~Sealed(Now) /\ phase \in {"head", "ws"} /\ pixels = <<>>
      /\ next \in Nat /\ next' = next + 1 /\ pixels' = pixels /\ wire' = wire
  BY StagesAre DEF SendHttp, Upgrade, SendText, IsOpen, Use, output
<1>2. next' \in Nat /\ wire' \in Seq(Atoms) /\ pixels' = <<>> /\ pixels' \in Seq(Atoms)
  BY <1>1, StagesAre
<1>3. CASE SendHttp(len)
  <2>1. PICK q \in Pushed(Now, Msg(next, len), "cap") : Becomes(q)
    BY <1>3 DEF SendHttp
  <2>2. /\ QueueInv(q, wire, <<>>) /\ q \in Queues
        /\ q.policy = policy \/ q.policy = "sealed"
        /\ q.policy # "draining"
    BY <1>1, PushStep
  <2>3. Now' = q /\ policy' = q.policy
    BY <2>1, <2>2, BecomesIs
  <2>4. phase = "head" /\ phase' \in {"head", "closing"} /\ policy = "plain"
    BY <1>1, <1>3, StagesAre DEF SendHttp
  <2> QED BY <1>1, <1>2, <2>2, <2>3, <2>4 DEF OutboxInv, Stages
<1>4. CASE Upgrade(len)
  <2>1. PICK q \in Pushed(Now, Msg(next, len), "cap"), role \in {"view", "plain"} :
          Becomes([q EXCEPT !.policy = IF Sealed(q) THEN @ ELSE role])
    BY <1>4 DEF Upgrade
  <2>2. /\ QueueInv(q, wire, <<>>) /\ q \in Queues
        /\ q.policy = policy \/ q.policy = "sealed"
        /\ q.policy # "draining"
    BY <1>1, PushStep
  <2>3. phase = "head" /\ phase' = "ws" /\ policy = "plain"
    BY <1>1, <1>4, StagesAre DEF Upgrade
  <2> DEFINE v == [q EXCEPT !.policy = IF Sealed(q) THEN @ ELSE role]
  <2>4. QueueInv(v, wire, <<>>)
    <3>1. CASE Sealed(q)
      <4>1. v = q
        BY <2>2, <3>1 DEF Queues
      <4> HIDE DEF v
      <4> QED BY <2>2, <4>1
    <3>2. CASE ~Sealed(q) /\ role = "plain"
      <4>1. q.policy = "plain" /\ v = [q EXCEPT !.policy = "plain"]
        BY <2>2, <2>3, <3>2 DEF Sealed
      <4>2. v = q
        BY <2>2, <4>1 DEF Queues
      <4> HIDE DEF v
      <4> QED BY <2>2, <4>2
    <3>3. CASE ~Sealed(q) /\ role = "view"
      <4>1. q.policy = "plain" /\ v = [q EXCEPT !.policy = "view"]
        BY <2>2, <2>3, <3>3 DEF Sealed
      <4>2. QueueInv([q EXCEPT !.policy = "view"], wire, <<>>)
        BY <2>2, <4>1, StagesAre, ViewKeeps
      <4> QED BY <4>1, <4>2, Zenon
    <3> QED BY <3>1, <3>2, <3>3
  <2> HIDE DEF v
  <2>5. Now' = v
    BY <2>1, <2>4, BecomesIs DEF QueueInv, v
  <2> QED BY <1>1, <1>2, <2>3, <2>4, <2>5 DEF OutboxInv, Stages
<1>5. CASE SendText(len)
  <2>1. PICK q \in Pushed(Now, Msg(next, len), "cap") : Becomes(q)
    BY <1>5 DEF SendText
  <2>2. /\ QueueInv(q, wire, <<>>) /\ q \in Queues
    BY <1>1, PushStep
  <2>3. Now' = q
    BY <2>1, <2>2, BecomesIs
  <2>4. phase' = "ws"
    BY <1>5 DEF SendText
  <2> QED BY <1>1, <1>2, <2>2, <2>3, <2>4 DEF OutboxInv, Stages
<1> QED BY <1>3, <1>4, <1>5

(* send_pixels() keeps the invariant.                                       *)
LEMMA PixelsKeep ==
  ASSUME OutboxInv, NEW len \in Lens, NEW body \in Lens, SendPixels(len, body)
  PROVE  OutboxInv'
<1> DEFINE m == Msg(next + 1, body)
<1>1. /\ ~Sealed(Now) /\ phase = "head" /\ pixels = <<>> /\ policy = "plain"
      /\ next \in Nat /\ next' = next + 2 /\ wire' = wire /\ wire \in Seq(Atoms)
  BY StagesAre DEF SendPixels, IsOpen, Use
<1>2. PICK q \in Pushed(Now, Msg(next, len), "cap") :
        IF Sealed(q)
        THEN Becomes(q) /\ UNCHANGED <<pixels, phase>>
        ELSE /\ Becomes([q EXCEPT !.accepted = Append(@, m)])
             /\ pixels' = Parts(m)
             /\ phase' = "streaming"
  BY DEF SendPixels
<1>3. /\ QueueInv(q, wire, <<>>) /\ q \in Queues
      /\ q.policy = policy \/ q.policy = "sealed"
      /\ q.policy # "draining"
  BY <1>1, PushStep
<1>4. next' \in Nat /\ m \in Texts /\ Parts(m) \in Seq(Atoms)
  <2>1. m \in Texts
    BY <1>1, MessagesAre
  <2> HIDE DEF m
  <2>2. Parts(m) \in Seq(Atoms)
    BY <2>1, LettersAre, PartsAre
  <2> QED BY <1>1, <2>1, <2>2
<1> HIDE DEF m
<1>5. CASE Sealed(q)
  <2>1. Now' = q /\ policy' = "sealed" /\ pixels' = <<>> /\ phase' = "head"
    BY <1>1, <1>2, <1>3, <1>5, BecomesIs DEF Sealed
  <2> QED BY <1>1, <1>3, <1>4, <2>1 DEF OutboxInv, Stages
<1>6. CASE ~Sealed(q)
  <2> DEFINE a == [q EXCEPT !.accepted = Append(q.accepted, m)]
  <2>1. q.policy = "plain" /\ ~q.lost
    <3>1. q.policy = "plain"
      BY <1>1, <1>3, <1>6 DEF Sealed
    <3> QED BY <1>3, <3>1 DEF QueueInv, Limits, Queues
  <2>2. QueueInv(a, wire, Parts(m))
    BY <1>1, <1>3, <1>4, <2>1, BodyKeeps
  <2>3. a.policy = "plain"
    BY <1>3, <2>1 DEF Queues
  <2>4. Becomes(a) /\ pixels' = Parts(m) /\ phase' = "streaming"
    BY <1>2, <1>6
  <2> HIDE DEF a
  <2>5. Now' = a /\ policy' = "plain"
    BY <2>2, <2>3, <2>4, BecomesIs DEF QueueInv
  <2> QED BY <1>1, <1>4, <2>2, <2>4, <2>5 DEF OutboxInv, Stages
<1> QED BY <1>5, <1>6

(* record(): the rest of a message that the socket took the begin of.       *)
LEMMA DirectOne ==
  ASSUME NEW q \in Queues, NEW m \in Texts, NEW count \in 0 .. m.len
  PROVE  /\ Direct(q, Append(<<>>, m), count)
              = IF count = m.len THEN [q EXCEPT !.accepted = Append(@, m)]
                ELSE [Queued(q, From(Parts(m), count + 1), TRUE) EXCEPT !.accepted = Append(@, m)]
         /\ Whole(Append(<<>>, m)) = Parts(m) /\ Append(<<>>, m) \in Seq(Texts)
         /\ Len(Parts(m)) = m.len
<1>1. m.len \in Nat /\ Parts(m) \in Seq(Atoms) /\ Len(Parts(m)) = m.len /\ q.accepted \in Seq(Texts)
  BY LettersAre, PartsAre, QueuesAre DEF Texts
<1>2. <<>> \in Seq(Texts) /\ Append(<<>>, m) \in Seq(Texts)
  OBVIOUS
<1>3. Whole(Append(<<>>, m)) = Parts(m)
  <2>1. Whole(Append(<<>>, m)) = <<>> \o Parts(m)
    BY <1>2, WholeIs
  <2>2. <<>> \o Parts(m) = Parts(m)
    BY <1>1
  <2> QED BY <2>1, <2>2, Zenon
<1>4. q.accepted \o Append(<<>>, m) = Append(q.accepted, m)
  BY <1>1
<1> DEFINE p == Parts(m)
           rest == From(p, count + 1)
<1>5. rest \in Seq(Atoms) /\ Len(rest) = m.len - count
  <2>1. p \in Seq(Atoms) /\ Len(p) = m.len
    BY <1>1
  <2> HIDE DEF p
  <2>2. count \in 0 .. Len(p)
    BY <2>1
  <2> QED BY <2>1, <2>2, Split
<1>6. rest = <<>> <=> count = m.len
  <2> HIDE DEF rest
  <2>1. rest = <<>> <=> Len(rest) = 0
    BY <1>5, EmptySeq
  <2> QED BY <1>1, <1>5, <2>1
<1>7. Direct(q, Append(<<>>, m), count)
        = IF rest = <<>> THEN [q EXCEPT !.accepted = Append(q.accepted, m)]
          ELSE Queued([q EXCEPT !.accepted = Append(q.accepted, m)], rest, TRUE)
  BY <1>3, <1>4, Zenon DEF Direct
<1> HIDE DEF rest
<1>8. Queued([q EXCEPT !.accepted = Append(q.accepted, m)], rest, TRUE)
        = [Queued(q, rest, TRUE) EXCEPT !.accepted = Append(q.accepted, m)]
  BY DEF Queued, Queues
<1>9. /\ [q EXCEPT !.accepted = Append(@, m)] = [q EXCEPT !.accepted = Append(q.accepted, m)]
      /\ [Queued(q, rest, TRUE) EXCEPT !.accepted = Append(@, m)]
           = [Queued(q, rest, TRUE) EXCEPT !.accepted = Append(q.accepted, m)]
  BY DEF Queued, Queues
<1> QED BY <1>1, <1>2, <1>3, <1>6, <1>7, <1>8, <1>9, Zenon DEF rest

(* record() keeps the invariant: at once, in part, queued or blocked.       *)
LEMMA RecordKeeps ==
  ASSUME OutboxInv, NEW len \in Lens, Record(len)
  PROVE  OutboxInv'
<1> DEFINE m == Msg(next, len)
<1>1. /\ ~Sealed(Now) /\ phase = "ws" /\ pixels = <<>> /\ phase' = phase /\ pixels' = pixels
      /\ next \in Nat /\ next' = next + 1 /\ wire \in Seq(Atoms) /\ QueueInv(Now, wire, <<>>) /\ Now \in Queues
  BY StagesAre DEF Record, IsOpen, Use
<1>2. next' \in Nat /\ m \in Texts /\ m.len = len /\ len \in Nat /\ Parts(m) \in Seq(Atoms) /\ Len(Parts(m)) = len
  <2>1. m \in Texts /\ m.len = len
    BY <1>1, MessagesAre
  <2> HIDE DEF m
  <2>2. Parts(m) \in Seq(Atoms) /\ Len(Parts(m)) = m.len /\ m.len \in Nat
    BY <2>1, LettersAre, PartsAre DEF Texts
  <2> QED BY <1>1, <2>1, <2>2
<1>3. PICK count \in (IF Available THEN 0 .. len ELSE {0}) :
        /\ wire' = wire \o SubSeq(Parts(m), 1, count)
        /\ IF count > 0
           THEN Becomes(IF count = len THEN [Now EXCEPT !.accepted = Append(@, m)]
                        ELSE [Queued(Now, From(Parts(m), count + 1), TRUE)
                                EXCEPT !.accepted = Append(@, m)])
           ELSE \/ UNCHANGED <<queue, accepted, lost, pc>>
                \/ \E q \in Pushed(Now, m, "spill") : Becomes(q)
  BY DEF Record
<1>4. CASE count > 0
  <2>1. Available /\ count \in 0 .. len
    BY <1>3, <1>4
  <2>2. IsEmpty(Now)
    BY <2>1 DEF Available, Waiting
  <2> HIDE DEF m
  <2> DEFINE d == Direct(Now, Append(<<>>, m), count)
  <2>3. /\ d = IF count = len THEN [Now EXCEPT !.accepted = Append(@, m)]
               ELSE [Queued(Now, From(Parts(m), count + 1), TRUE) EXCEPT !.accepted = Append(@, m)]
        /\ Whole(Append(<<>>, m)) = Parts(m) /\ Append(<<>>, m) \in Seq(Texts)
    BY <1>1, <1>2, <2>1, DirectOne
  <2>4. Roomy(len - count)
    BY <1>2, <2>1, OutboxAssumption DEF Roomy
  <2>5. QueueInv(d, wire \o SubSeq(Whole(Append(<<>>, m)), 1, count), <<>>)
    <3> DEFINE ms == Append(<<>>, m)
    <3>1. ms \in Seq(Texts) /\ count \in 0 .. Len(Whole(ms)) /\ Roomy(Len(Whole(ms)) - count)
      BY <1>2, <2>1, <2>3, <2>4
    <3> HIDE DEF ms
    <3> QED BY <1>1, <2>2, <3>1, DirectKeeps DEF ms
  <2> HIDE DEF d
  <2>6. QueueInv(d, wire', <<>>)
    BY <1>3, <2>3, <2>5
  <2>7. Becomes(d)
    BY <1>3, <1>4, <2>3, Zenon
  <2>8. Now' = d
    BY <2>6, <2>7, BecomesIs DEF QueueInv
  <2>9. wire' \in Seq(Atoms)
    <3>1. SubSeq(Parts(m), 1, count) \in Seq(Atoms)
      BY <1>2, <2>1, Split
    <3> QED BY <1>1, <1>3, <3>1
  <2> QED BY <1>1, <1>2, <2>6, <2>8, <2>9 DEF OutboxInv, Stages
<1>5. CASE ~(count > 0)
  <2>1. count = 0
    BY <1>2, <1>3, <1>5
  <2>2. wire' = wire
    <3>1. SubSeq(Parts(m), 1, 0) = <<>> /\ wire \o <<>> = wire
      BY <1>1, <1>2, SubSeqEmpty
    <3> QED BY <1>3, <2>1, <3>1
  <2>3. CASE UNCHANGED <<queue, accepted, lost, pc>>
    <3>1. Now' = Now
      BY <2>3, SameQueue
    <3> QED BY <1>1, <1>2, <2>2, <3>1 DEF OutboxInv, Stages
  <2>4. CASE \E q \in Pushed(Now, m, "spill") : Becomes(q)
    <3>1. PICK q \in Pushed(Now, m, "spill") : Becomes(q)
      BY <2>4
    <3>2. QueueInv(q, wire, <<>>) /\ q \in Queues
      BY <1>1, <3>1, PushStep
    <3>3. Now' = q
      BY <3>1, <3>2, BecomesIs
    <3> QED BY <1>1, <1>2, <2>2, <3>2, <3>3 DEF OutboxInv, Stages
  <2> QED BY <1>3, <1>5, <2>3, <2>4
<1> QED BY <1>4, <1>5

(* send_batch(): the messages that the socket reached.                      *)
LEMMA BatchIs ==
  ASSUME NEW m1 \in Letters, NEW m2 \in Letters, NEW count \in 0 .. Len(Parts(m1) \o Parts(m2)), NEW reached,
         reached = IF count = 0 THEN <<>> ELSE IF count <= m1.len THEN <<m1>> ELSE <<m1, m2>>
  PROVE  /\ reached \in Seq(Texts) /\ count \in 0 .. Len(Whole(reached))
         /\ Roomy(Len(Whole(reached)) - count)
         /\ SubSeq(Parts(m1) \o Parts(m2), 1, count) = SubSeq(Whole(reached), 1, count)
         /\ SubSeq(Parts(m1) \o Parts(m2), 1, count) \in Seq(Atoms)
<1> DEFINE p1 == Parts(m1)
           p2 == Parts(m2)
           both == p1 \o p2
<1>1. /\ m1 \in Texts /\ m2 \in Texts /\ m1.len \in Lens /\ m2.len \in Lens /\ m1.len \in Nat /\ m2.len \in Nat
      /\ p1 \in Seq(Atoms) /\ p2 \in Seq(Atoms) /\ Len(p1) = m1.len /\ Len(p2) = m2.len
  BY LettersAre, PartsAre DEF Letters, Texts
<1>2. both \in Seq(Atoms) /\ Len(both) = m1.len + m2.len
  <2> HIDE DEF p1, p2
  <2> QED BY <1>1, Rejoin, ZenonT(60)
<1>3. <<>> \in Seq(Texts) /\ <<m1>> \in Seq(Texts) /\ <<m1, m2>> \in Seq(Texts)
      /\ <<m1>> = Append(<<>>, m1) /\ <<m1, m2>> = Append(<<m1>>, m2)
  BY <1>1
<1>4. Whole(<<>>) = <<>> /\ Whole(<<m1>>) = p1 /\ Whole(<<m1, m2>>) = both
  <2>1. Whole(<<>>) = <<>>
    BY <1>3, WholeIs
  <2>2. Whole(<<m1>>) = <<>> \o p1 /\ <<>> \o p1 = p1
    <3>1. Whole(Append(<<>>, m1)) = Whole(<<>>) \o p1
      BY <1>1, <1>3, WholeIs
    <3>2. <<>> \o p1 = p1
      <4> HIDE DEF p1
      <4> QED BY <1>1
    <3> QED BY <1>3, <2>1, <3>1, <3>2, Zenon
  <2>3. Whole(<<m1, m2>>) = Whole(<<m1>>) \o p2
    BY <1>1, <1>3, WholeIs
  <2> QED BY <2>1, <2>2, <2>3, Zenon
<1>5. count \in Nat /\ count <= m1.len + m2.len
  BY <1>1, <1>2
<1>6. SubSeq(both, 1, count) \in Seq(Atoms)
  <2>1. count \in 0 .. Len(both)
    OBVIOUS
  <2> HIDE DEF both
  <2> QED BY <1>2, <2>1, Split
<1> HIDE DEF p1, p2
<1>7. CASE count = 0
  <2>1. SubSeq(both, 1, 0) = <<>> /\ SubSeq(<<>>, 1, 0) = <<>> /\ Len(<<>>) = 0
    BY <1>2, SubSeqEmpty
  <2>2. Roomy(0 - 0)
    BY OutboxAssumption DEF Roomy
  <2>3. reached = <<>> /\ Whole(reached) = <<>>
    BY <1>4, <1>7
  <2> QED BY <1>3, <1>6, <1>7, <2>1, <2>2, <2>3 DEF p1, p2
<1>8. CASE count # 0 /\ count <= m1.len
  <2>1. reached = <<m1>> /\ Whole(reached) = p1
    BY <1>4, <1>8
  <2>2. SubSeq(both, 1, count) = SubSeq(p1, 1, count)
    <3>1. count \in 0 .. Len(p1)
      BY <1>1, <1>5, <1>8
    <3> QED BY <1>1, <3>1, JoinCut
  <2>3. Roomy(m1.len - count)
    BY <1>1, <1>5, OutboxAssumption DEF Roomy
  <2>4. count \in 0 .. m1.len
    BY <1>1, <1>5, <1>8
  <2> QED BY <1>1, <1>3, <1>6, <2>1, <2>2, <2>3, <2>4, Zenon DEF p1, p2
<1>9. CASE count # 0 /\ ~(count <= m1.len)
  <2>1. reached = <<m1, m2>> /\ Whole(reached) = both
    BY <1>4, <1>9
  <2>2. Roomy((m1.len + m2.len) - count)
    <3>1. (m1.len + m2.len) - count <= m2.len
      BY <1>1, <1>5, <1>9
    <3> QED BY <1>1, <3>1, OutboxAssumption DEF Roomy
  <2> QED BY <1>2, <1>3, <1>6, <2>1, <2>2, Zenon DEF p1, p2
<1> QED BY <1>7, <1>8, <1>9

(* send_batch() keeps the invariant, wherever the socket stops.             *)
LEMMA BatchKeeps ==
  ASSUME OutboxInv, NEW len1 \in Lens, NEW len2 \in Lens, SendBatch(len1, len2)
  PROVE  OutboxInv'
<1> DEFINE m1 == Msg(next, len1)
           m2 == Msg(next + 1, len2)
           both == Parts(m1) \o Parts(m2)
           R(count) == IF count = 0 THEN <<>> ELSE IF count <= len1 THEN <<m1>> ELSE <<m1, m2>>
<1>1. /\ Available /\ phase = "ws" /\ pixels = <<>> /\ phase' = phase /\ pixels' = pixels
      /\ next \in Nat /\ next' = next + 2 /\ wire \in Seq(Atoms) /\ QueueInv(Now, wire, <<>>) /\ Now \in Queues
  BY StagesAre DEF SendBatch, Use
<1>2. next' \in Nat /\ m1 \in Letters /\ m2 \in Letters /\ m1.len = len1
  <2>1. next + 1 \in Nat
    BY <1>1
  <2> QED BY <1>1, <2>1, MessagesAre
<1>3. PICK count \in 0 .. Len(both) :
        /\ wire' = wire \o SubSeq(both, 1, count)
        /\ Becomes(LET rest == From(Whole(R(count)), count + 1)
                       q    == [Now EXCEPT !.accepted = @ \o R(count)]
                   IN  IF rest = <<>> THEN q ELSE Queued(q, rest, TRUE))
  BY DEF SendBatch
<1> DEFINE reached == R(count)
           d == Direct(Now, reached, count)
<1>4. Becomes(d)
  <2>1. [Now EXCEPT !.accepted = @ \o reached] = [Now EXCEPT !.accepted = Now.accepted \o reached]
    BY DEF Now
  <2> HIDE DEF R
  <2> QED BY <1>3, <2>1, Zenon DEF Direct
<1>5. /\ reached \in Seq(Texts) /\ count \in 0 .. Len(Whole(reached))
      /\ Roomy(Len(Whole(reached)) - count)
      /\ SubSeq(both, 1, count) = SubSeq(Whole(reached), 1, count)
      /\ SubSeq(both, 1, count) \in Seq(Atoms)
  <2>1. reached = IF count = 0 THEN <<>> ELSE IF count <= m1.len THEN <<m1>> ELSE <<m1, m2>>
    BY <1>2
  <2> HIDE DEF m1, m2, reached
  <2> QED BY <1>2, <2>1, BatchIs
<1> HIDE DEF reached, both, m1, m2, R
<1>6. IsEmpty(Now) /\ ~Sealed(Now)
  BY <1>1 DEF Available, Waiting, IsOpen
<1>7. QueueInv(d, wire \o SubSeq(Whole(reached), 1, count), <<>>)
  BY <1>1, <1>5, <1>6, DirectKeeps
<1> HIDE DEF d
<1>8. Now' = d
  BY <1>4, <1>7, BecomesIs DEF QueueInv
<1>9. QueueInv(d, wire', <<>>) /\ wire' \in Seq(Atoms)
  <2>1. wire' = wire \o SubSeq(both, 1, count)
    BY <1>3
  <2>2. QueueInv(d, wire', <<>>)
    BY <1>5, <1>7, <2>1, Zenon
  <2> DEFINE u == SubSeq(both, 1, count)
  <2>3. u \in Seq(Atoms) /\ wire' = wire \o u
    BY <1>5, <2>1, Zenon
  <2> HIDE DEF u
  <2> QED BY <1>1, <2>2, <2>3
<1> QED BY <1>1, <1>2, <1>8, <1>9 DEF OutboxInv, Stages

(* Ws::close_with.                                                          *)
LEMMA FinishKeeps ==
  ASSUME OutboxInv, Finish
  PROVE  OutboxInv'
<1> DEFINE m == Close(next)
           q == Finished([Now EXCEPT !.accepted = Append(@, m)], m)
<1>1. /\ ~Sealed(Now) /\ phase = "ws" /\ pixels = <<>> /\ phase' = phase /\ pixels' = pixels /\ wire' = wire
      /\ next \in Nat /\ next' = next + 1 /\ wire \in Seq(Atoms) /\ QueueInv(Now, wire, <<>>)
  BY StagesAre DEF Finish, IsOpen, Use, output
<1>2. m \in Texts /\ m.len = 1
  BY <1>1, MessagesAre
<1> HIDE DEF m
<1>3. q = Finished([Now EXCEPT !.accepted = Append(Now.accepted, m)], m)
  BY DEF Now
<1>4. Becomes(q)
  BY DEF Finish, m
<1> HIDE DEF q
<1>5. QueueInv(q, wire, <<>>)
  BY <1>1, <1>2, <1>3, FinishedKeeps
<1>6. Now' = q
  BY <1>4, <1>5, BecomesIs DEF QueueInv
<1>7. next' \in Nat
  BY <1>1
<1> QED BY <1>1, <1>5, <1>6, <1>7 DEF OutboxInv, Stages

(* Steps that leave the queue and the wire alone.                           *)
LEMMA OthersKeep ==
  ASSUME OutboxInv,
         Broken \/ Closes \/ Writable \/ EndStreaming \/ Settle \/ UNCHANGED vars
  PROVE  OutboxInv'
<1>1. UNCHANGED <<queue, accepted, lost, pixels, next, wire>>
  BY DEF Broken, Closes, Writable, EndStreaming, Settle, vars, queue, output, past
<1>2. Now' = Now /\ policy' = policy
  BY <1>1, SameQueue
<1>3. phase' = phase \/ (phase = "streaming" /\ phase' = "head" /\ pixels = <<>>)
  BY DEF Broken, Closes, Writable, EndStreaming, Settle, vars, Waiting
<1> QED BY <1>1, <1>2, <1>3 DEF OutboxInv, Stages

(* A new connection satisfies the invariant.                                *)
LEMMA InitHolds == Init => OutboxInv
<1>1. SUFFICES ASSUME Init PROVE OutboxInv
  OBVIOUS
<1>2. /\ <<>> \in Seq(Atoms) /\ <<>> \in Seq(Pending) /\ <<>> \in Seq(Letters) /\ <<>> \in Seq(Texts)
      /\ NoTail \in [n : Nat, len : Nat]
  BY DEF NoTail, Msg
<1>3. Now \in Queues
  BY <1>1, <1>2 DEF Init, Now, Queues
<1>4. /\ Now.chunks = <<>> /\ Now.taken = 0 /\ Now.bytes = 0 /\ Now.policy = "plain" /\ Now.spill = <<>>
      /\ Now.spilled = 0 /\ Now.accepted = <<>> /\ Now.lost = FALSE
  BY <1>1, NowIs DEF Init
<1>5. Whole(<<>>) = <<>> /\ Len(<<>>) = 0 /\ <<>> \o <<>> = <<>>
  <2>1. Whole(<<>>) = <<>>
    BY <1>2, WholeIs
  <2>2. Len(<<>>) = 0 /\ <<>> \o <<>> = <<>>
    OBVIOUS
  <2> QED BY <2>1, <2>2, Zenon
<1>6. Limits(Now)
  BY <1>4, <1>5, OutboxAssumption DEF Limits, Roomy, Extra
<1>7. QueueInv(Now, <<>>, <<>>)
  BY <1>2, <1>3, <1>4, <1>5, <1>6, EmptyKeeps
<1> QED BY <1>1, <1>2, <1>7 DEF Init, OutboxInv, Stages

(* Every step keeps the invariant.                                          *)
LEMMA NextKeeps == OutboxInv /\ [Next]_vars => OutboxInv'
<1>1. SUFFICES ASSUME OutboxInv, [Next]_vars PROVE OutboxInv'
  OBVIOUS
<1>2. CASE FlushStep
  BY <1>1, <1>2, FlushKeeps
<1>3. ASSUME NEW len \in Lens, SendHttp(len) \/ Upgrade(len) \/ SendText(len) PROVE OutboxInv'
  BY <1>1, <1>3, HttpKeeps
<1>4. ASSUME NEW len \in Lens, Record(len) PROVE OutboxInv'
  BY <1>1, <1>4, RecordKeeps
<1>5. ASSUME NEW len \in Lens, NEW body \in Lens, SendPixels(len, body) PROVE OutboxInv'
  BY <1>1, <1>5, PixelsKeep
<1>6. ASSUME NEW len \in Lens, NEW body \in Lens, SendBatch(len, body) PROVE OutboxInv'
  BY <1>1, <1>6, BatchKeeps
<1>7. CASE Finish
  BY <1>1, <1>7, FinishKeeps
<1>8. CASE Broken \/ Closes \/ Writable \/ EndStreaming \/ Settle \/ UNCHANGED vars
  BY <1>1, <1>8, OthersKeep
<1> QED BY <1>1, <1>2, <1>3, <1>4, <1>5, <1>6, <1>7, <1>8 DEF Next, Operation

(* Whatever is sent, however much a socket takes of it and whenever the     *)
(* file fails: the wire, the queue, the file and the body are one line.     *)
THEOREM OutboxHolds == Spec => []OutboxInv
<1>1. Init => OutboxInv
  BY InitHolds
<1>2. OutboxInv /\ [Next]_vars => OutboxInv'
  BY NextKeeps
<1> QED BY <1>1, <1>2, PTL DEF Spec

(* A part of a line is a prefix of it.                                      *)
LEMMA LinePrefix ==
  ASSUME NEW w \in Seq(Atoms), NEW s \in Seq(Atoms), NEW n \in 0 .. Len(s)
  PROVE  /\ IsPrefix(w \o SubSeq(s, 1, n), w \o s)
         /\ w \o s = (w \o SubSeq(s, 1, n)) \o From(s, n + 1)
<1> DEFINE a == SubSeq(s, 1, n)
           b == From(s, n + 1)
<1>1. a \in Seq(Atoms) /\ b \in Seq(Atoms) /\ s = a \o b
  BY Split
<1> HIDE DEF a, b
<1>2. w \o (a \o b) = (w \o a) \o b /\ w \o a \in Seq(Atoms)
  <2>1. Joined(w, a, b)
    BY <1>1, AtomsJoin
  <2>2. w \o a \in Seq(Atoms)
    BY <1>1, ConcatProperties, Zenon
  <2> QED BY <2>1, <2>2, Zenon DEF Joined
<1>3. IsPrefix(w \o a, (w \o a) \o b)
  BY <1>1, <1>2, PrefixIs
<1>4. w \o s = (w \o a) \o b
  BY <1>1, <1>2, Zenon
<1> QED BY <1>3, <1>4, Zenon DEF a, b

(* The pieces that are not sent are what waits, in order.                   *)
LEMMA WaitingIs ==
  ASSUME NEW q \in Queues, Counted(q)
  PROVE  From(Stream(q), q.taken + 1)
           = From(Flat(q.chunks), q.taken + 1) \o Whole(q.spill)
               \o (IF q.policy = "draining" THEN Parts(q.goodbye) ELSE <<>>)
<1> DEFINE f == Flat(q.chunks)
           s == Whole(q.spill)
           e == IF q.policy = "draining" THEN Parts(q.goodbye) ELSE <<>>
<1>1. /\ f \in Seq(Atoms) /\ s \in Seq(Atoms) /\ Stream(q) = (f \o s) \o FlattenSeq(Ending(q))
      /\ q.taken \in 0 .. Len(f)
  BY PiecesAre, CountedIs
<1>2. FlattenSeq(Ending(q)) = e /\ e \in Seq(Atoms)
  <2>1. Parts(q.goodbye) \in Seq(Atoms)
    BY QueuesAre, PartsAre
  <2>2. CASE q.policy = "draining"
    BY <2>1, <2>2, FlattenOne DEF Ending
  <2>3. CASE q.policy # "draining"
    <3>1. <<>> \in Seq(Seq(Atoms)) /\ <<>> \in Seq(Atoms)
      OBVIOUS
    <3> QED BY <2>3, <3>1, FlattenType DEF Ending
  <2> QED BY <2>2, <2>3
<1> HIDE DEF f, s, e
<1>3. f \o s \in Seq(Atoms) /\ Len(f \o s) = Len(f) + Len(s) /\ Len(f) \in Nat /\ Len(s) \in Nat
  BY <1>1, Rejoin
<1>4. From(f \o s, q.taken + 1) = From(f, q.taken + 1) \o s
  BY <1>1, JoinCut
<1> DEFINE g == f \o s
<1>5. g \in Seq(Atoms) /\ q.taken \in 0 .. Len(g)
  BY <1>1, <1>3
<1> HIDE DEF g
<1>6. From(g \o e, q.taken + 1) = From(g, q.taken + 1) \o e
  BY <1>2, <1>5, JoinCut
<1> QED BY <1>1, <1>2, <1>4, <1>6, Zenon DEF g, f, s, e

(* What the invariant says of the line gives what the peer has.             *)
LEMMA WireFollows == OutboxInv => WireTrue
<1>1. SUFFICES ASSUME OutboxInv PROVE WireTrue
  OBVIOUS
<1>2. /\ Now \in Queues /\ wire \in Seq(Atoms) /\ pixels \in Seq(Atoms) /\ QueueInv(Now, wire, pixels)
  BY <1>1, StagesAre
<1> DEFINE all   == Whole(accepted)
           waits == Unsent \o Whole(spill) \o (IF policy = "draining" THEN Parts(goodbye) ELSE <<>>)
<1>3. CASE ~lost
  <2>1. Counted(Now) /\ \E w \in Seq(Atoms) : Line(Now, wire, pixels, w)
    BY <1>2, <1>3, NowIs, KeptIs
  <2>2. PICK w \in Seq(Atoms) : Line(Now, wire, pixels, w)
    BY <2>1
  <2> DEFINE s == Stream(Now)
             n == Now.taken
  <2>3. s \in Seq(Atoms) /\ n \in 0 .. Len(s)
    BY <1>2, <2>1, PiecesAre, CountedIs
  <2>4. wire = w \o SubSeq(s, 1, n) /\ all = (w \o s) \o pixels
    BY <1>3, <2>2, NowIs DEF Line, Kept
  <2>5. From(s, n + 1) = waits
    BY <1>2, <2>1, WaitingIs, NowIs, Zenon DEF Unsent
  <2> HIDE DEF s, n, waits, all
  <2>6. w \o s = (w \o SubSeq(s, 1, n)) \o From(s, n + 1)
    BY <2>3, LinePrefix
  <2>7. all = (wire \o waits) \o pixels
    BY <2>4, <2>5, <2>6, Zenon
  <2> QED BY <1>3, <2>7 DEF WireTrue, all, waits
<1>4. CASE lost
  <2>1. CASE Dropped(Now, wire, pixels)
    BY <1>4, <2>1, NowIs DEF WireTrue, Dropped
  <2>2. CASE Counted(Now) /\ \E w \in Seq(Atoms) : Line(Now, wire, pixels, w)
    <3>1. PICK w \in Seq(Atoms) : Line(Now, wire, pixels, w)
      BY <2>2
    <3> DEFINE s == Stream(Now)
               n == Now.taken
    <3>2. s \in Seq(Atoms) /\ n \in 0 .. Len(s)
      BY <1>2, <2>2, PiecesAre, CountedIs
    <3>3. wire = w \o SubSeq(s, 1, n) /\ Given(Now, w, pixels)
      BY <1>4, <3>1, NowIs DEF Line
    <3>4. PICK j \in 0 .. Len(accepted) : w \o s = Whole(Append(SubSeq(accepted, 1, j), Farewell))
      BY <3>3, NowIs DEF Given
    <3> HIDE DEF s, n
    <3>5. IsPrefix(wire, w \o s)
      BY <3>2, <3>3, LinePrefix
    <3>6. IsPrefix(wire, Whole(Append(SubSeq(accepted, 1, j), Farewell)))
      BY <3>4, <3>5, Zenon
    <3> QED BY <1>4, <3>6 DEF WireTrue
  <2> QED BY <1>2, <2>1, <2>2 DEF QueueInv
<1> QED BY <1>3, <1>4

(* What the invariant says of the counts gives the limits.                  *)
LEMMA BoundsFollow == OutboxInv => Bounded
<1>1. SUFFICES ASSUME OutboxInv PROVE Bounded
  OBVIOUS
<1>2. /\ Now \in Queues /\ wire \in Seq(Atoms) /\ pixels \in Seq(Atoms) /\ QueueInv(Now, wire, pixels)
      /\ Limits(Now)
  BY <1>1, StagesAre
<1>3. bytes = Len(Unsent) /\ bytes \in Nat /\ taken \in Nat
  <2>1. bytes \in Nat /\ taken \in Nat /\ Unsent = From(Flat(Now.chunks), Now.taken + 1)
    BY <1>2, QueuesAre, NowIs DEF Unsent
  <2>2. CASE Counted(Now)
    BY <1>2, <2>1, <2>2, CountedIs, NowIs
  <2>3. CASE Dropped(Now, wire, pixels)
    <3>1. bytes = 0 /\ Now.chunks = <<>>
      BY <2>3, NowIs DEF Dropped
    <3>2. Flat(<<>>) = <<>>
      BY <1>2, QueuesAre, FlatIs
    <3>3. Unsent = SubSeq(<<>>, taken + 1, 0)
      <4>1. Len(<<>>) = 0
        OBVIOUS
      <4> QED BY <2>1, <3>1, <3>2, <4>1, NowIs, Zenon DEF From
    <3>4. SubSeq(<<>>, taken + 1, 0) = <<>>
      BY <2>1, SubSeqEmpty
    <3> QED BY <2>1, <3>1, <3>3, <3>4
  <2> QED BY <1>2, <2>1, <2>2, <2>3 DEF QueueInv
<1>4. ASSUME NEW len \in Lens, \A other \in Lens : other <= len
      PROVE  bytes <= (IF Cap < len THEN len ELSE Cap) + (IF Sealed(Now) THEN Farewell.len ELSE 0)
  <2>1. Roomy(bytes - Extra(policy))
    BY <1>2, NowIs DEF Limits
  <2>2. Extra(policy) = (IF Sealed(Now) THEN Farewell.len ELSE 0) /\ Extra(policy) \in Nat
    BY NowIs DEF Extra, Sealed, Farewell, Msg
  <2> DEFINE e == Extra(policy)
  <2>3. e \in Nat /\ Roomy(bytes - e)
    BY <2>1, <2>2
  <2> HIDE DEF e
  <2>4. bytes - e <= Cap \/ \E l \in Lens : bytes - e <= l
    BY <2>3 DEF Roomy
  <2>5. bytes - e <= Cap \/ bytes - e <= len
    BY <1>3, <1>4, <2>3, <2>4, OutboxAssumption
  <2>6. bytes <= (IF Cap < len THEN len ELSE Cap) + e
    BY <1>3, <2>3, <2>5, OutboxAssumption
  <2> QED BY <2>2, <2>6 DEF e
<1>5. Len(Whole(spill)) <= spilled /\ spilled <= Limit
  BY <1>2, NowIs DEF Limits
<1> QED BY <1>3, <1>4, <1>5 DEF Bounded

(* What the peer has, what waits in the queue, in the file and of the body  *)
(* are the messages that were taken on, whole and in order; after an        *)
(* overflow the peer has whole messages up to the farewell (Queue::push,    *)
(* overflow, finish, fill, written; Output::record, send_batch, pull).      *)
THEOREM WireHolds == Spec => []WireTrue
BY OutboxHolds, WireFollows, PTL

(* The counter that the cap is compared with is what the queue holds, and   *)
(* queue and file stay within their limits (Queue::push, fill, written).    *)
THEOREM BoundsHold == Spec => []Bounded
BY OutboxHolds, BoundsFollow, PTL
=============================================================================
