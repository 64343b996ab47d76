---------------------------- MODULE FilterProofs ----------------------------
EXTENDS Filter, WellFoundedInduction, FiniteSetTheorems, TLAPS

(* A set of naturals that is not empty has a least element.                 *)
LEMMA NatLeast ==
  ASSUME NEW T \in SUBSET Nat, T # {}
  PROVE  \E m \in T : \A k \in T : m <= k
<1> DEFINE X == {0 .. m : m \in T}
<1>1. X \subseteq FiniteSubsetsOf(Nat) /\ X # {}
  <2>1. \A m \in T : 0 .. m \in SUBSET Nat /\ IsFiniteSet(0 .. m)
    BY FS_Interval
  <2> QED BY <2>1 DEF FiniteSubsetsOf
<1>2. PICK x \in X : \A y \in X : ~ (<<y, x>> \in StrictSubsetOrdering(Nat))
  <2> HIDE DEF X
  <2> QED BY <1>1, FS_StrictSubsetOrderingWellFounded, WFMin
<1>3. PICK m \in T : x = 0 .. m
  OBVIOUS
<1>4. SUFFICES ASSUME NEW k \in T, k < m PROVE FALSE
  BY <1>3
<1>5. <<0 .. k, 0 .. m>> \in StrictSubsetOrdering(Nat)
  <2>1. m \in 0 .. m /\ m \notin 0 .. k /\ m \in Nat /\ k \in Nat
    BY <1>4
  <2>2. 0 .. k \subseteq 0 .. m /\ 0 .. k # 0 .. m
    BY <1>4, <2>1
  <2>3. 0 .. k \subseteq Nat /\ 0 .. m \subseteq Nat
    BY <2>1
  <2> QED BY <2>2, <2>3, Zenon DEF StrictSubsetOrdering
<1> QED BY <1>2, <1>3, <1>5

(* Induction in the form that the provers can use, over a set and not over  *)
(* a predicate.                                                             *)
LEMMA NatInduct ==
  ASSUME NEW S, 0 \in S, \A n \in Nat : n \in S => n + 1 \in S
  PROVE  Nat \subseteq S
<1>1. SUFFICES ASSUME Nat \ S # {} PROVE FALSE
  OBVIOUS
<1>2. PICK m \in Nat \ S : \A k \in Nat \ S : m <= k
  BY <1>1, NatLeast
<1>3. m - 1 \in Nat /\ m - 1 \in S
  BY <1>2
<1> QED BY <1>2, <1>3

(* The recursive function of Only exists: the prefixes of s, filtered one   *)
(* after another.                                                           *)
LEMMA OnlyUnfolds ==
  ASSUME NEW s, Len(s) \in Nat, NEW S
  PROVE  \E f : /\ DOMAIN f = 0 .. Len(s)
                /\ f[0] = <<>>
                /\ \A n \in 1 .. Len(s) :
                      f[n] = IF s[n] \in S THEN Append(f[n - 1], s[n]) ELSE f[n - 1]
                /\ Only(s, S) = f[Len(s)]
<1> DEFINE Step(f, n) == IF s[n] \in S THEN Append(f[n - 1], s[n]) ELSE f[n - 1]
           Good(f, m) == /\ f = [n \in 0 .. m |-> f[n]]
                         /\ f[0] = <<>>
                         /\ \A n \in 1 .. m : f[n] = Step(f, n)
           T == {m \in Nat : \E f : Good(f, m)}
<1>1. 0 \in T
  <2>1. Good([n \in 0 .. 0 |-> <<>>], 0)
    OBVIOUS
  <2> QED BY <2>1
<1>2. ASSUME NEW m \in Nat, m \in T PROVE m + 1 \in T
  <2>1. PICK f : Good(f, m)
    BY <1>2
  <2> DEFINE g == [n \in 0 .. m + 1 |-> IF n = m + 1 THEN Step(f, m + 1) ELSE f[n]]
  <2>2. /\ \A n \in 0 .. m : g[n] = f[n]
        /\ g[m + 1] = Step(f, m + 1)
        /\ g = [n \in 0 .. m + 1 |-> g[n]]
    OBVIOUS
  <2>3. ASSUME NEW n \in 1 .. m + 1 PROVE g[n] = Step(g, n)
    <3>1. n - 1 \in 0 .. m /\ (n \in 1 .. m \/ n = m + 1) /\ (n \in 1 .. m => n \in 0 .. m)
      OBVIOUS
    <3>2. Step(g, n) = Step(f, n)
      BY <2>2, <3>1
    <3> HIDE DEF Step, g
    <3> QED BY <2>1, <2>2, <3>1, <3>2
  <2>4. Good(g, m + 1)
    <3> HIDE DEF g, Step
    <3> QED BY <2>1, <2>2, <2>3
  <2> HIDE DEF g, Good
  <2> QED BY <2>4
<1>3. PICK f : Good(f, Len(s))
  BY <1>1, <1>2, NatInduct
<1>4. f = [n \in 0 .. Len(s) |->
             IF n = 0 THEN <<>>
             ELSE IF s[n] \in S THEN Append(f[n - 1], s[n]) ELSE f[n - 1]]
  BY <1>3
<1> DEFINE u == CHOOSE f1 : f1 = [n \in 0 .. Len(s) |->
             IF n = 0 THEN <<>>
             ELSE IF s[n] \in S THEN Append(f1[n - 1], s[n]) ELSE f1[n - 1]]
<1>5. u = [n \in 0 .. Len(s) |->
             IF n = 0 THEN <<>>
             ELSE IF s[n] \in S THEN Append(u[n - 1], s[n]) ELSE u[n - 1]]
  BY <1>4
<1>6. Only(s, S) = u[Len(s)]
  BY Zenon DEF Only
<1> HIDE DEF u
<1>7. DOMAIN u = 0 .. Len(s)
  BY <1>5
<1>8. \A n \in 0 .. Len(s) :
        u[n] = IF n = 0 THEN <<>>
               ELSE IF s[n] \in S THEN Append(u[n - 1], s[n]) ELSE u[n - 1]
  BY <1>5, Zenon
<1>9. /\ u[0] = <<>>
      /\ \A n \in 1 .. Len(s) :
            u[n] = IF s[n] \in S THEN Append(u[n - 1], s[n]) ELSE u[n - 1]
  <2>1. 0 \in 0 .. Len(s) /\ \A n \in 1 .. Len(s) : n \in 0 .. Len(s) /\ n # 0
    OBVIOUS
  <2> QED BY <1>8, <2>1, Zenon
<1> QED BY <1>6, <1>7, <1>9

(* What Vec::retain keeps: the elements of s that belong to S, each once    *)
(* and in the order of s. h names the place in s that each is taken from.   *)
LEMMA OnlyPicks ==
  ASSUME NEW X, NEW s \in Seq(X), NEW S
  PROVE  /\ Only(s, S) \in Seq(X)
         /\ \E h : /\ h \in [1 .. Len(Only(s, S)) -> 1 .. Len(s)]
                   /\ \A k \in 1 .. Len(Only(s, S)) :
                         Only(s, S)[k] = s[h[k]] /\ Only(s, S)[k] \in S
                   /\ \A j, k \in 1 .. Len(Only(s, S)) : j < k => h[j] < h[k]
                   /\ \A i \in 1 .. Len(s) :
                         s[i] \in S => \E k \in 1 .. Len(Only(s, S)) : h[k] = i
<1> DEFINE Picks(r, n, h) ==
             /\ h \in [1 .. Len(r) -> 1 .. n]
             /\ \A k \in 1 .. Len(r) : r[k] = s[h[k]] /\ r[k] \in S
             /\ \A j, k \in 1 .. Len(r) : j < k => h[j] < h[k]
             /\ \A i \in 1 .. n : s[i] \in S => \E k \in 1 .. Len(r) : h[k] = i
<1>1. PICK f : /\ DOMAIN f = 0 .. Len(s)
               /\ f[0] = <<>>
               /\ \A n \in 1 .. Len(s) :
                     f[n] = IF s[n] \in S THEN Append(f[n - 1], s[n]) ELSE f[n - 1]
               /\ Only(s, S) = f[Len(s)]
  BY OnlyUnfolds
<1> DEFINE T == {n \in Nat : n <= Len(s) => f[n] \in Seq(X) /\ \E h : Picks(f[n], n, h)}
<1>2. 0 \in T
  <2>1. Picks(f[0], 0, <<>>)
    BY <1>1
  <2>2. f[0] \in Seq(X)
    BY <1>1
  <2> HIDE DEF Picks
  <2> QED BY <2>1, <2>2
<1>3. ASSUME NEW n \in Nat, n \in T PROVE n + 1 \in T
  <2>1. SUFFICES ASSUME n + 1 <= Len(s)
                 PROVE  f[n + 1] \in Seq(X) /\ \E h : Picks(f[n + 1], n + 1, h)
    OBVIOUS
  <2>2. f[n] \in Seq(X) /\ s[n + 1] \in X /\ n + 1 \in 1 .. Len(s) /\ n + 1 - 1 = n
    BY <1>3, <2>1
  <2>3. PICK h : Picks(f[n], n, h)
    BY <1>3, <2>1
  <2>6. f[n + 1] = IF s[n + 1] \in S THEN Append(f[n], s[n + 1]) ELSE f[n]
    <3>1. PICK i \in 1 .. Len(s) : i = n + 1
      BY <2>2
    <3>2. i - 1 = n
      BY <3>1
    <3>3. f[i] = IF s[i] \in S THEN Append(f[i - 1], s[i]) ELSE f[i - 1]
      BY <1>1
    <3> QED BY <3>1, <3>2, <3>3, Zenon
  <2>4. CASE s[n + 1] \notin S
    <3>1. f[n + 1] = f[n]
      BY <2>2, <2>4, <2>6, Zenon
    <3>2. Picks(f[n + 1], n + 1, h)
      BY <2>2, <2>3, <2>4, <3>1
    <3> QED BY <2>2, <3>1, <3>2
  <2>5. CASE s[n + 1] \in S
    <3>1. f[n + 1] = Append(f[n], s[n + 1])
      BY <2>2, <2>5, <2>6, Zenon
    <3> DEFINE r == f[n + 1]
               g == [k \in 1 .. Len(r) |-> IF k = Len(r) THEN n + 1 ELSE h[k]]
    <3>2. /\ r \in Seq(X) /\ Len(r) = Len(f[n]) + 1 /\ r[Len(r)] = s[n + 1]
          /\ Len(f[n]) \in Nat
          /\ \A k \in 1 .. Len(f[n]) : r[k] = f[n][k]
      BY <2>2, <3>1
    <3>3. /\ Len(r) \in Nat /\ Len(r) \in 1 .. Len(r)
          /\ \A k \in 1 .. Len(r) : k = Len(r) \/ k \in 1 .. Len(f[n])
          /\ \A k \in 1 .. Len(f[n]) : k \in 1 .. Len(r) /\ k # Len(r)
      BY <3>2
    <3> HIDE DEF r
    <3>4. g \in [1 .. Len(r) -> 1 .. n + 1]
      BY <2>3, <3>2, <3>3
    <3>5. \A k \in 1 .. Len(r) : r[k] = s[g[k]] /\ r[k] \in S
      BY <2>3, <2>5, <3>2, <3>3
    <3>6. \A j, k \in 1 .. Len(r) : j < k => g[j] < g[k]
      <4> SUFFICES ASSUME NEW j \in 1 .. Len(r), NEW k \in 1 .. Len(r), j < k
                   PROVE  g[j] < g[k]
        OBVIOUS
      <4>0. j # Len(r)
        BY <3>3
      <4>1. j \in 1 .. Len(f[n]) /\ g[j] = h[j] /\ h[j] \in 1 .. n
        BY <2>3, <3>3, <4>0
      <4>2. CASE k = Len(r)
        BY <4>1, <4>2
      <4>3. CASE k # Len(r)
        BY <2>3, <3>2, <3>3, <4>1, <4>3
      <4> QED BY <4>2, <4>3
    <3>7. \A i \in 1 .. n + 1 : s[i] \in S => \E k \in 1 .. Len(r) : g[k] = i
      <4> SUFFICES ASSUME NEW i \in 1 .. n + 1, s[i] \in S
                   PROVE  \E k \in 1 .. Len(r) : g[k] = i
        OBVIOUS
      <4>1. CASE i = n + 1
        BY <3>3, <4>1
      <4>2. CASE i # n + 1
        <5>1. PICK k \in 1 .. Len(f[n]) : h[k] = i
          BY <2>3, <4>2
        <5> QED BY <3>3, <5>1
      <4> QED BY <4>1, <4>2
    <3> HIDE DEF g
    <3>8. Picks(r, n + 1, g)
      BY <3>4, <3>5, <3>6, <3>7
    <3> QED BY <3>2, <3>8, SMTT(30) DEF r
  <2> QED BY <2>4, <2>5
<1>4. Len(s) \in T
  <2> HIDE DEF T
  <2> QED BY <1>2, <1>3, NatInduct
<1> QED BY <1>1, <1>4

-----------------------------------------------------------------------------
(* Sequences as sets.                                                       *)
Elems(s) == {s[k] : k \in 1 .. Len(s)}

(* The elements and the places of a concatenation.                          *)
LEMMA ElemsConcat ==
  ASSUME NEW X, NEW a \in Seq(X), NEW b \in Seq(X)
  PROVE  /\ a \o b \in Seq(X) /\ Len(a \o b) = Len(a) + Len(b)
         /\ Elems(a \o b) = Elems(a) \union Elems(b)
         /\ \A k \in 1 .. Len(a) : (a \o b)[k] = a[k]
         /\ \A k \in 1 .. Len(b) : (a \o b)[Len(a) + k] = b[k]
         /\ \A k \in 1 .. Len(a) + Len(b) : k \in 1 .. Len(a) \/ k - Len(a) \in 1 .. Len(b)
<1>1. a \o b \in Seq(X) /\ Len(a \o b) = Len(a) + Len(b) /\ Len(a) \in Nat /\ Len(b) \in Nat
  OBVIOUS
<1>2. \A k \in 1 .. Len(a) : (a \o b)[k] = a[k] /\ k \in 1 .. Len(a) + Len(b)
  OBVIOUS
<1>3. ASSUME NEW k \in 1 .. Len(b)
      PROVE  (a \o b)[Len(a) + k] = b[k] /\ Len(a) + k \in 1 .. Len(a) + Len(b)
  <2>1. Len(a) + k \in 1 .. Len(a) + Len(b) /\ Len(a) + k > Len(a) /\ (Len(a) + k) - Len(a) = k
    BY <1>1
  <2> QED BY <1>1, <2>1
<1>4. \A k \in 1 .. Len(a) + Len(b) :
         k \in 1 .. Len(a) \/ (k - Len(a) \in 1 .. Len(b) /\ Len(a) + (k - Len(a)) = k)
  BY <1>1
<1>5. Elems(a \o b) \subseteq Elems(a) \union Elems(b)
  <2> SUFFICES ASSUME NEW k \in 1 .. Len(a \o b) PROVE (a \o b)[k] \in Elems(a) \union Elems(b)
    BY DEF Elems
  <2>1. CASE k \in 1 .. Len(a)
    BY <1>2, <2>1 DEF Elems
  <2>2. CASE k \notin 1 .. Len(a)
    <3>1. PICK j \in 1 .. Len(b) : Len(a) + j = k
      BY <1>1, <1>4, <2>2
    <3> QED BY <1>3, <3>1 DEF Elems
  <2> QED BY <2>1, <2>2
<1>6. Elems(a) \union Elems(b) \subseteq Elems(a \o b)
  <2>1. ASSUME NEW k \in 1 .. Len(a) PROVE a[k] \in Elems(a \o b)
    BY <1>1, <1>2 DEF Elems
  <2>2. ASSUME NEW k \in 1 .. Len(b) PROVE b[k] \in Elems(a \o b)
    BY <1>1, <1>3 DEF Elems
  <2> QED BY <2>1, <2>2 DEF Elems
<1> QED BY <1>1, <1>2, <1>3, <1>4, <1>5, <1>6

(* A sequence of one element.                                               *)
LEMMA ElemsOne ==
  ASSUME NEW X, NEW x \in X
  PROVE  <<x>> \in Seq(X) /\ Elems(<<x>>) = {x} /\ Len(<<x>>) = 1 /\ <<x>>[1] = x
BY DEF Elems

(* The empty sequence has no elements.                                      *)
LEMMA ElemsNone == \A X : <<>> \in Seq(X) /\ Elems(<<>>) = {} /\ Len(<<>>) = 0
BY DEF Elems

(* The elements and the places of a sequence that grows at its end.         *)
LEMMA ElemsAppend ==
  ASSUME NEW X, NEW s \in Seq(X), NEW x \in X
  PROVE  /\ Append(s, x) \in Seq(X) /\ Elems(Append(s, x)) = Elems(s) \union {x}
         /\ Len(Append(s, x)) = Len(s) + 1 /\ Append(s, x)[Len(s) + 1] = x
         /\ \A k \in 1 .. Len(s) : Append(s, x)[k] = s[k]
<1>1. /\ Append(s, x) \in Seq(X) /\ Len(Append(s, x)) = Len(s) + 1
      /\ Append(s, x)[Len(s) + 1] = x /\ Len(s) \in Nat
      /\ \A k \in 1 .. Len(s) : Append(s, x)[k] = s[k]
  OBVIOUS
<1> DEFINE r == Append(s, x)
<1> HIDE DEF r
<1>2. /\ \A k \in 1 .. Len(r) : k = Len(s) + 1 \/ k \in 1 .. Len(s)
      /\ Len(s) + 1 \in 1 .. Len(r) /\ \A k \in 1 .. Len(s) : k \in 1 .. Len(r)
  BY <1>1 DEF r
<1>3. Elems(r) = Elems(s) \union {x}
  BY <1>1, <1>2 DEF Elems, r
<1> QED BY <1>1, <1>3 DEF r

(* What the first element leaves.                                           *)
LEMMA ElemsTail ==
  ASSUME NEW X, NEW s \in Seq(X), s # <<>>
  PROVE  /\ Tail(s) \in Seq(X) /\ Head(s) \in X /\ Len(Tail(s)) = Len(s) - 1
         /\ Len(s) \in Nat \ {0} /\ Head(s) = s[1]
         /\ Elems(s) = {Head(s)} \union Elems(Tail(s))
         /\ \A k \in 1 .. Len(Tail(s)) : Tail(s)[k] = s[k + 1]
<1>1. /\ Tail(s) \in Seq(X) /\ Head(s) \in X /\ Len(Tail(s)) = Len(s) - 1
      /\ Len(s) \in Nat \ {0} /\ Head(s) = s[1]
      /\ \A k \in 1 .. Len(Tail(s)) : Tail(s)[k] = s[k + 1]
  OBVIOUS
<1>2. ASSUME NEW k \in 1 .. Len(s), k # 1 PROVE s[k] \in Elems(Tail(s))
  <2>1. k - 1 \in 1 .. Len(Tail(s)) /\ (k - 1) + 1 = k
    BY <1>1, <1>2
  <2> QED BY <1>1, <2>1 DEF Elems
<1>3. 1 \in 1 .. Len(s) /\ \A k \in 1 .. Len(Tail(s)) : k + 1 \in 1 .. Len(s)
  BY <1>1
<1>4. Elems(s) \subseteq {Head(s)} \union Elems(Tail(s))
  BY <1>1, <1>2 DEF Elems
<1>5. {Head(s)} \union Elems(Tail(s)) \subseteq Elems(s)
  BY <1>1, <1>3 DEF Elems
<1> QED BY <1>1, <1>4, <1>5

(* As a set, what Only keeps is what belongs to S.                          *)
LEMMA ElemsOnly ==
  ASSUME NEW X, NEW s \in Seq(X), NEW S
  PROVE  Only(s, S) \in Seq(X) /\ Elems(Only(s, S)) = Elems(s) \cap S
<1> DEFINE r == Only(s, S)
<1>0. /\ r \in Seq(X)
      /\ \E h : /\ h \in [1 .. Len(r) -> 1 .. Len(s)]
                /\ \A k \in 1 .. Len(r) : r[k] = s[h[k]] /\ r[k] \in S
                /\ \A j, k \in 1 .. Len(r) : j < k => h[j] < h[k]
                /\ \A i \in 1 .. Len(s) : s[i] \in S => \E k \in 1 .. Len(r) : h[k] = i
  BY OnlyPicks, SMTT(30)
<1> HIDE DEF r
<1>1. PICK h : /\ h \in [1 .. Len(r) -> 1 .. Len(s)]
               /\ \A k \in 1 .. Len(r) : r[k] = s[h[k]] /\ r[k] \in S
               /\ \A i \in 1 .. Len(s) : s[i] \in S => \E k \in 1 .. Len(r) : h[k] = i
  BY <1>0
<1>2. Elems(r) \subseteq Elems(s) \cap S
  BY <1>1 DEF Elems
<1>3. Elems(s) \cap S \subseteq Elems(r)
  BY <1>1 DEF Elems
<1> QED BY <1>0, <1>2, <1>3 DEF r

-----------------------------------------------------------------------------
(* How many elements of s belong to S.                                      *)
Spots(s, S) == {k \in 1 .. Len(s) : s[k] \in S}
Hits(s, S)   == Cardinality(Spots(s, S))

(* Hits are counted, there are none exactly when no element belongs to S,   *)
(* and two of them are at two places.                                       *)
LEMMA HitsType ==
  ASSUME NEW X, NEW s \in Seq(X), NEW S
  PROVE  /\ Hits(s, S) \in Nat /\ IsFiniteSet(Spots(s, S))
         /\ Hits(s, S) = 0 <=> Elems(s) \cap S = {}
         /\ Hits(s, S) <= 1 =>
              \A j, k \in 1 .. Len(s) : s[j] \in S /\ s[k] \in S => j = k
<1>1. Len(s) \in Nat /\ Spots(s, S) \in SUBSET (1 .. Len(s))
  BY DEF Spots
<1>2. IsFiniteSet(1 .. Len(s))
  BY <1>1, FS_Interval
<1>3. IsFiniteSet(Spots(s, S)) /\ Hits(s, S) \in Nat
  BY <1>1, <1>2, FS_Subset, FS_CardinalityType DEF Hits
<1>4. Hits(s, S) = 0 <=> Spots(s, S) = {}
  BY <1>3, FS_EmptySet DEF Hits
<1>5. Spots(s, S) = {} <=> Elems(s) \cap S = {}
  BY DEF Spots, Elems
<1>6. ASSUME Hits(s, S) <= 1, NEW j \in 1 .. Len(s), NEW k \in 1 .. Len(s), s[j] \in S, s[k] \in S
      PROVE  j = k
  <2>1. j \in Spots(s, S) /\ k \in Spots(s, S)
    BY <1>6 DEF Spots
  <2>2. Hits(s, S) = 1
    BY <1>3, <1>4, <1>6, <2>1
  <2>3. PICK x : Spots(s, S) = {x}
    BY <1>3, <2>2, FS_Singleton DEF Hits
  <2> QED BY <2>1, <2>3
<1> QED BY <1>3, <1>4, <1>5, <1>6

(* Sets of places that correspond one to one are of one size.               *)
LEMMA SameHits ==
  ASSUME NEW X, NEW s \in Seq(X), NEW S, NEW P, NEW g \in [Spots(s, S) -> P],
         \A j, k \in Spots(s, S) : g[j] = g[k] => j = k,
         \A i \in P : \E k \in Spots(s, S) : g[k] = i
  PROVE  IsFiniteSet(P) /\ Cardinality(P) = Hits(s, S)
<1>1. IsFiniteSet(Spots(s, S))
  BY HitsType
<1>2. g \in Bijection(Spots(s, S), P)
  BY DEF Bijection, Injection, Surjection, IsInjective
<1>3. ExistsBijection(Spots(s, S), P)
  BY <1>2 DEF ExistsBijection
<1> QED BY <1>1, <1>3, FS_Bijection DEF Hits

(* The hits of a concatenation are those of its parts.                      *)
LEMMA HitsConcat ==
  ASSUME NEW X, NEW a \in Seq(X), NEW b \in Seq(X), NEW S
  PROVE  Hits(a \o b, S) = Hits(a, S) + Hits(b, S)
<1> DEFINE g == [k \in Spots(b, S) |-> Len(a) + k]
           P == {k \in Spots(a \o b, S) : k > Len(a)}
<1>1. /\ a \o b \in Seq(X) /\ Len(a \o b) = Len(a) + Len(b)
      /\ \A k \in 1 .. Len(a) : (a \o b)[k] = a[k]
      /\ \A k \in 1 .. Len(b) : (a \o b)[Len(a) + k] = b[k]
  BY ElemsConcat
<1>2. Len(a) \in Nat /\ Len(b) \in Nat
  OBVIOUS
<1>3. ASSUME NEW k \in Spots(b, S) PROVE Len(a) + k \in P
  <2>1. k \in 1 .. Len(b) /\ b[k] \in S
    BY DEF Spots
  <2>2. Len(a) + k \in 1 .. Len(a) + Len(b) /\ Len(a) + k > Len(a)
    BY <1>2, <2>1
  <2> QED BY <1>1, <2>1, <2>2 DEF Spots
<1>4. ASSUME NEW i \in P PROVE \E k \in Spots(b, S) : Len(a) + k = i
  <2>1. i \in 1 .. Len(a) + Len(b) /\ i > Len(a) /\ (a \o b)[i] \in S
    BY <1>1 DEF Spots
  <2>2. i - Len(a) \in 1 .. Len(b) /\ Len(a) + (i - Len(a)) = i
    BY <1>2, <2>1
  <2>3. i - Len(a) \in Spots(b, S)
    BY <1>1, <2>1, <2>2 DEF Spots
  <2> QED BY <2>2, <2>3
<1>5. \A j, k \in Spots(b, S) : Len(a) + j = Len(a) + k => j = k
  BY <1>2 DEF Spots
<1>6. IsFiniteSet(P) /\ Cardinality(P) = Hits(b, S)
  <2>1. g \in [Spots(b, S) -> P] /\ \A k \in Spots(b, S) : g[k] = Len(a) + k
    BY <1>3
  <2> HIDE DEF g, P
  <2>2. /\ \A j, k \in Spots(b, S) : g[j] = g[k] => j = k
        /\ \A i \in P : \E k \in Spots(b, S) : g[k] = i
    BY <1>4, <1>5, <2>1
  <2> QED BY <2>1, <2>2, SameHits
<1>7. Spots(a \o b, S) = Spots(a, S) \union P /\ Spots(a, S) \cap P = {}
  <2>1. Spots(a, S) \subseteq Spots(a \o b, S)
    BY <1>1, <1>2 DEF Spots
  <2>2. \A k \in Spots(a \o b, S) : k > Len(a) \/ k \in Spots(a, S)
    BY <1>1, <1>2 DEF Spots
  <2>3. \A k \in Spots(a, S) : ~(k > Len(a))
    BY <1>2 DEF Spots
  <2> QED BY <2>1, <2>2, <2>3
<1>8. IsFiniteSet(Spots(a, S)) /\ Cardinality(Spots(a, S)) = Hits(a, S) /\ Hits(a, S) \in Nat
      /\ Hits(b, S) \in Nat
  BY HitsType DEF Hits
<1> HIDE DEF P
<1>9. Cardinality(Spots(a, S) \union P) = Hits(a, S) + Hits(b, S) - Cardinality({})
  BY <1>6, <1>7, <1>8, FS_Union
<1> QED BY <1>7, <1>8, <1>9, FS_EmptySet DEF Hits

(* No element and one element.                                              *)
LEMMA HitsOne ==
  /\ \A S : Hits(<<>>, S) = 0
  /\ \A x, S : Hits(<<x>>, S) = IF x \in S THEN 1 ELSE 0
<1>1. ASSUME NEW S PROVE Hits(<<>>, S) = 0
  BY FS_EmptySet DEF Hits, Spots
<1>2. ASSUME NEW x, NEW S PROVE Hits(<<x>>, S) = IF x \in S THEN 1 ELSE 0
  <2>1. Len(<<x>>) = 1 /\ <<x>>[1] = x /\ 1 .. 1 = {1}
    OBVIOUS
  <2>2. CASE x \in S
    <3>1. Spots(<<x>>, S) = {1}
      BY <2>1, <2>2 DEF Spots
    <3> QED BY <2>2, <3>1, FS_Singleton DEF Hits
  <2>3. CASE x \notin S
    <3>1. Spots(<<x>>, S) = {}
      BY <2>1, <2>3 DEF Spots
    <3> QED BY <2>3, <3>1, FS_EmptySet DEF Hits
  <2> QED BY <2>2, <2>3
<1> QED BY <1>1, <1>2

(* What an append adds and what the removal of the first element takes.     *)
LEMMA HitsEnds ==
  ASSUME NEW X, NEW s \in Seq(X), NEW S
  PROVE  /\ \A x \in X : Hits(Append(s, x), S) = Hits(s, S) + IF x \in S THEN 1 ELSE 0
         /\ s # <<>> => Hits(s, S) = Hits(Tail(s), S) + IF Head(s) \in S THEN 1 ELSE 0
<1>1. ASSUME NEW x \in X PROVE Hits(Append(s, x), S) = Hits(s, S) + IF x \in S THEN 1 ELSE 0
  <2>1. Append(s, x) = s \o <<x>> /\ <<x>> \in Seq(X)
    OBVIOUS
  <2>2. Hits(s \o <<x>>, S) = Hits(s, S) + Hits(<<x>>, S)
    BY <2>1, HitsConcat
  <2> QED BY <2>1, <2>2, HitsOne
<1>2. ASSUME s # <<>> PROVE Hits(s, S) = Hits(Tail(s), S) + IF Head(s) \in S THEN 1 ELSE 0
  <2>1. s = <<Head(s)>> \o Tail(s) /\ <<Head(s)>> \in Seq(X) /\ Tail(s) \in Seq(X)
    BY <1>2
  <2>2. Hits(<<Head(s)>> \o Tail(s), S) = Hits(<<Head(s)>>, S) + Hits(Tail(s), S)
    BY <2>1, HitsConcat
  <2>3. Hits(Tail(s), S) \in Nat
    BY <2>1, HitsType
  <2>4. Hits(<<Head(s)>>, S) = IF Head(s) \in S THEN 1 ELSE 0
    BY HitsOne
  <2>5. Hits(s, S) = Hits(<<Head(s)>>, S) + Hits(Tail(s), S)
    BY <2>1, <2>2
  <2> QED BY <2>3, <2>4, <2>5
<1> QED BY <1>1, <1>2

(* What Only keeps, it keeps as often as it was there.                      *)
LEMMA HitsOnly ==
  ASSUME NEW X, NEW s \in Seq(X), NEW T, NEW S
  PROVE  Hits(Only(s, T), S) = Hits(s, S \cap T)
<1> DEFINE r == Only(s, T)
<1>1. r \in Seq(X) /\ Len(r) \in Nat
  BY OnlyPicks
<1>2. PICK h : /\ h \in [1 .. Len(r) -> 1 .. Len(s)]
               /\ \A k \in 1 .. Len(r) : r[k] = s[h[k]] /\ r[k] \in T
               /\ \A j, k \in 1 .. Len(r) : j < k => h[j] < h[k]
               /\ \A i \in 1 .. Len(s) : s[i] \in T => \E k \in 1 .. Len(r) : h[k] = i
  BY OnlyPicks, SMTT(30)
<1> HIDE DEF r
<1> DEFINE g == [k \in Spots(r, S) |-> h[k]]
           P == Spots(s, S \cap T)
<1>3. g \in [Spots(r, S) -> P] /\ \A k \in Spots(r, S) : g[k] = h[k]
  BY <1>2 DEF Spots
<1>4. \A i \in P : \E k \in Spots(r, S) : h[k] = i
  BY <1>2 DEF Spots
<1>5. \A j, k \in Spots(r, S) : h[j] = h[k] => j = k
  <2> SUFFICES ASSUME NEW j \in 1 .. Len(r), NEW k \in 1 .. Len(r), h[j] = h[k], j # k PROVE FALSE
    BY DEF Spots
  <2>1. h[j] \in Nat /\ h[k] \in Nat /\ (j < k \/ k < j)
    BY <1>1, <1>2
  <2> QED BY <1>2, <2>1
<1> HIDE DEF g
<1>6. /\ \A j, k \in Spots(r, S) : g[j] = g[k] => j = k
      /\ \A i \in P : \E k \in Spots(r, S) : g[k] = i
  BY <1>3, <1>4, <1>5
<1> HIDE DEF P
<1>7. Cardinality(P) = Hits(r, S)
  <2>1. r \in Seq(X) /\ g \in [Spots(r, S) -> P]
    BY <1>1, <1>3
  <2> QED BY <1>6, <2>1, SameHits
<1> QED BY <1>7 DEF P, Hits, r

(* A sequence whose elements are all in a set is one over that set.         *)
LEMMA Narrowed ==
  ASSUME NEW X, NEW s \in Seq(X), NEW Y, Elems(s) \subseteq Y
  PROVE  s \in Seq(Y)
BY DEF Elems

(* What an append may make.                                                 *)
LEMMA Appended ==
  ASSUME NEW X, NEW s \in Seq(X), NEW x \in X, NEW t \in {s, Append(s, x)}
  PROVE  t \in Seq(X)
OBVIOUS

(* Sets that agree on the elements are hit as often.                        *)
LEMMA HitsSame ==
  ASSUME NEW s, NEW S, NEW T, \A x \in Elems(s) : x \in S <=> x \in T
  PROVE  Hits(s, S) = Hits(s, T)
<1>1. Spots(s, S) = Spots(s, T)
  BY DEF Spots, Elems
<1> QED BY <1>1 DEF Hits

(* Sets without a common element have their sizes added.                    *)
LEMMA SizesAdd ==
  ASSUME NEW S, NEW S2, IsFiniteSet(S), IsFiniteSet(S2), S \cap S2 = {}
  PROVE  /\ IsFiniteSet(S \cup S2)
         /\ Cardinality(S \cup S2) = Cardinality(S) + Cardinality(S2)
<1>1. /\ IsFiniteSet(S \cup S2)
      /\ Cardinality(S \cup S2) = Cardinality(S) + Cardinality(S2) - Cardinality(S \cap S2)
  BY FS_Union
<1>2. Cardinality(S \cap S2) = 0
  BY FS_EmptySet
<1>3. Cardinality(S) \in Nat /\ Cardinality(S2) \in Nat
  BY FS_CardinalityType
<1> QED BY <1>1, <1>2, <1>3
=============================================================================
