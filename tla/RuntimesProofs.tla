--------------------------- MODULE RuntimesProofs ---------------------------
(***************************************************************************)
(* Proofs about Runtimes, for any processes, panes, sessions and stages.   *)
(* Each process that the server started has one owner that will wait for   *)
(* it, nothing of an earlier start runs beside a stage or a watch, what    *)
(* waits will be answered, and the limiter counts the sessions that run    *)
(* while each queued session has one place.                                *)
(***************************************************************************)
EXTENDS Runtimes, FilterProofs

-----------------------------------------------------------------------------
(* The ranges of the variables.  A call names who it is about, if its kind  *)
(* does.                                                                    *)
OfSession == {"join", "release", "spawn", "pump", "finished", "gone", "proceed"}
OfLink == {"touch", "notice", "begin", "stage", "fail", "restart", "changed", "passed",
           "leave", "settle", "advance", "collect", "watched", "pumps", "bury", "watch",
           "down", "unlink", "delete"}

CallSet ==
  [op : OfLink, who : {None}, state : {""}]
  \cup [op : OfSession, who : Sessions, state : {""}]
  \cup [op : {"answer"}, who : Waiters \cup Sessions, state : {"down", "up", "failed"}]
  \cup [op : {"finish"}, who : Waiters \cup {None}, state : {"check"}]
  \cup [op : {"finish"}, who : Waiters, state : {"deliver"}]

ChildSet == [pid : Pids, job : {"check"}, who : Waiters \cup {None}]
            \cup [pid : Pids, job : {"deliver"}, who : Waiters]

Links == [phase : {"none", "cleaning", "stage", "up", "failed"}, n : Nat,
          helper : Pids \cup {None}, watch : Pids \cup {None},
          idle : BOOLEAN, occupied : BOOLEAN]

Sess == [stage : {"none", "open", "queued", "running", "ended"}, timer : BOOLEAN,
         retried : BOOLEAN, pid : Pids \cup {None}, late : BOOLEAN]

RolesOf == {"none", "stage", "watch", "stop", "delete", "check", "deliver", "session"}
Procs == [role : RolesOf, st : {"free", "run", "zombie"}]

Limiters == [running : Nat, waiting : Seq(Sessions), parked : Seq(Sessions)]

LinkTypes ==
  /\ link \in Links /\ queue \in Seq({"stop", "delete"})
  /\ reaping \subseteq Pids /\ dying \subseteq Pids /\ cleaning \subseteq Pids /\ leaving \subseteq Pids
  /\ children \subseteq ChildSet /\ IsFiniteSet(children)
  /\ proc \in [Pids -> Procs]

SessTypes == sess \in [Sessions -> Sess] /\ lim \in Limiters

CallTypes ==
  /\ passed \subseteq Waiters /\ waits \in Seq(Waiters \cup Sessions)
  /\ calls \in Seq(CallSet)

(* The least of the numbers that are free is one of them.                   *)
LEMMA NewPidIs ==
  ASSUME Free # {}
  PROVE  NewPid \in Pids /\ NewPid # None /\ proc[NewPid].st = "free" /\ NewPid \notin Listed
<1>1. Free \subseteq Nat
  BY RuntimesAssumption DEF Free
<1>2. \E m \in Free : \A k \in Free : m <= k
  BY <1>1, NatLeast
<1>3. NewPid \in Free
  BY <1>2 DEF NewPid, Min
<1> QED BY <1>3, RuntimesAssumption DEF Free

(* The limiter starts sessions that waited, and keeps the others.           *)
LEMMA MinIs ==
  ASSUME NEW a \in Int, NEW b \in Int
  PROVE  Min({a, b}) = IF a <= b THEN a ELSE b
<1>1. Min({a, b}) = CHOOSE x \in {a, b} : \A y \in {a, b} : x =< y
  BY DEF Min
<1>2. CASE a <= b
  <2>1. a \in {a, b} /\ \A y \in {a, b} : a =< y
    BY <1>2
  <2>2. \A x \in {a, b} : (\A y \in {a, b} : x =< y) => x = a
    BY <1>2
  <2> QED BY <1>1, <1>2, <2>1, <2>2
<1>3. CASE ~ (a <= b)
  <2>1. b \in {a, b} /\ \A y \in {a, b} : b =< y
    BY <1>3
  <2>2. \A x \in {a, b} : (\A y \in {a, b} : x =< y) => x = b
    BY <1>3
  <2> QED BY <1>1, <1>3, <2>1, <2>2
<1> QED BY <1>2, <1>3

(* A prefix of the sessions that come next starts.                          *)
LEMMA FittingIs ==
  ASSUME NEW l \in Limiters, NEW next \in Seq(Sessions), l.running < Cap
  PROVE  /\ Fitting(l, next) \in Seq(Sessions)
         /\ Len(Fitting(l, next)) = IF Len(next) <= Cap - l.running THEN Len(next) ELSE Cap - l.running
         /\ \A k \in 1 .. Len(Fitting(l, next)) : Fitting(l, next)[k] = next[k]
<1>1. Cap \in Nat /\ l.running \in Nat /\ Len(next) \in Nat
  BY CapAssumption DEF Limiters
<1> DEFINE n == IF Len(next) <= Cap - l.running THEN Len(next) ELSE Cap - l.running
<1>2. Fitting(l, next) = SubSeq(next, 1, n)
  BY <1>1, MinIs DEF Fitting
<1>3. n \in Nat /\ n <= Len(next)
  BY <1>1
<1> HIDE DEF n
<1>4. SubSeq(next, 1, n) \in Seq(Sessions) /\ Len(SubSeq(next, 1, n)) = n
      /\ \A k \in 1 .. n : SubSeq(next, 1, n)[k] = next[k]
  BY <1>3
<1> QED BY <1>2, <1>3, <1>4 DEF n

(* ToSet of the community modules is Elems of the lemmas.                   *)
LEMMA ToSetIs == ASSUME NEW X, NEW s \in Seq(X) PROVE ToSet(s) = Elems(s)
BY DEF ToSet, Elems

(* What fills the free slots is made of sessions that waited.               *)
LEMMA FillTypes ==
  ASSUME NEW l \in Limiters, NEW first \in BOOLEAN
  PROVE  Fill(l, first).start \in Seq(Sessions) /\ Fill(l, first).lim \in Limiters
<1> DEFINE next == IF first THEN l.parked \o l.waiting ELSE l.waiting
           start == IF l.running < Cap THEN Fitting(l, next) ELSE <<>>
           Left(q) == Only(q, ToSet(q) \ ToSet(start))
<1>1. l.waiting \in Seq(Sessions) /\ l.parked \in Seq(Sessions) /\ l.running \in Nat
  BY DEF Limiters
<1>2. next \in Seq(Sessions)
  BY <1>1
<1>3. start \in Seq(Sessions) /\ Len(start) \in Nat
  <2> HIDE DEF next
  <2> QED BY <1>2, FittingIs
<1>4. Fill(l, first) = [start |-> start,
         lim |-> [running |-> l.running + Len(start), waiting |-> Left(l.waiting), parked |-> Left(l.parked)]]
  BY DEF Fill
<1>5. Left(l.waiting) \in Seq(Sessions) /\ Left(l.parked) \in Seq(Sessions)
  <2> HIDE DEF start
  <2> QED BY <1>1, ElemsOnly
<1> HIDE DEF start, next, Left
<1> QED BY <1>1, <1>3, <1>4, <1>5 DEF Limiters

(* So is what a slot that becomes free lets start.                          *)
LEMMA LeaveTypes ==
  ASSUME NEW l \in Limiters
  PROVE  LeaveSlot(l).start \in Seq(Sessions) /\ LeaveSlot(l).lim \in Limiters
<1>1. Less(l.running) \in Nat
  BY DEF Limiters, Less
<1> DEFINE rest == [l EXCEPT !.running = Less(l.running)]
<1>2. rest \in Limiters
  BY <1>1 DEF Limiters
<1>3. LeaveSlot(l) = Fill(rest, TRUE)
  BY DEF LeaveSlot
<1> HIDE DEF rest
<1> QED BY <1>2, <1>3, FillTypes

(* The other operations of the limiter keep its lists lists of sessions.    *)
LEMMA LimiterTypes ==
  ASSUME NEW l \in Limiters, NEW t \in Sessions, NEW late \in BOOLEAN
  PROVE  /\ Join(l, t) \in Limiters /\ Forget(l, t) \in Limiters
         /\ Retry(l, t, late).start \in Seq(Sessions) /\ Retry(l, t, late).lim \in Limiters
<1>1. l.waiting \in Seq(Sessions) /\ l.parked \in Seq(Sessions) /\ l.running \in Nat
      /\ DOMAIN l = {"running", "waiting", "parked"}
  BY DEF Limiters
<1>0. \A n \in Nat, v, w \in Seq(Sessions) : /\ [l EXCEPT !.running = n] \in Limiters
                                          /\ [l EXCEPT !.waiting = v] \in Limiters
                                          /\ [l EXCEPT !.parked = w] \in Limiters
                                          /\ [l EXCEPT !.waiting = v, !.parked = w] \in Limiters
                                          /\ [l EXCEPT !.running = n, !.parked = w] \in Limiters
  BY DEF Limiters
<1>2. Join(l, t) \in Limiters
  <2>1. l.running + 1 \in Nat /\ Append(l.waiting, t) \in Seq(Sessions)
    BY <1>1
  <2>2. Join(l, t) = IF Joins(l) THEN [l EXCEPT !.running = l.running + 1]
                     ELSE [l EXCEPT !.waiting = Append(l.waiting, t)]
    BY DEF Join
  <2> QED BY <1>0, <2>1, <2>2
<1>3. Forget(l, t) \in Limiters
  <2>1. \A q \in Seq(Sessions) : Only(q, ToSet(q) \ {t}) \in Seq(Sessions)
    BY ElemsOnly
  <2> QED BY <1>1, <2>1 DEF Forget, Limiters
<1> DEFINE rest == [l EXCEPT !.running = Less(l.running)]
           again == [rest EXCEPT !.running = rest.running + 1]
           park == [rest EXCEPT !.parked = Append(rest.parked, t)]
<1>4. rest \in Limiters
  <2>1. Less(l.running) \in Nat
    BY <1>1 DEF Less
  <2> QED BY <1>0, <1>1, <2>1
<1>5. again \in Limiters /\ park \in Limiters
  <2> HIDE DEF rest
  <2>1. rest.running + 1 \in Nat /\ Append(rest.parked, t) \in Seq(Sessions)
    BY <1>4 DEF Limiters
  <2>2. \A n \in Nat, w \in Seq(Sessions) : /\ [rest EXCEPT !.running = n] \in Limiters
                                         /\ [rest EXCEPT !.parked = w] \in Limiters
    BY <1>4 DEF Limiters
  <2> QED BY <2>1, <2>2
<1>8. Retry(l, t, late) = IF Again(l, late)
        THEN [Fill(again, FALSE) EXCEPT !.start = <<t>> \o @] ELSE Fill(park, FALSE)
  BY DEF Retry
<1>9. \A first \in BOOLEAN : DOMAIN Fill(again, first) = {"start", "lim"}
  BY DEF Fill
<1>10. Fill(again, FALSE).start \in Seq(Sessions) /\ Fill(again, FALSE).lim \in Limiters
       /\ Fill(park, FALSE).start \in Seq(Sessions) /\ Fill(park, FALSE).lim \in Limiters
  <2> HIDE DEF again, park
  <2> QED BY <1>5, FillTypes
<1>11. <<t>> \o Fill(again, FALSE).start \in Seq(Sessions)
  BY <1>10, ElemsOne, ElemsConcat
<1> HIDE DEF again, park, rest
<1>12. Retry(l, t, late).start \in Seq(Sessions) /\ Retry(l, t, late).lim \in Limiters
  BY <1>8, <1>9, <1>10, <1>11
<1> QED BY <1>2, <1>3, <1>12

-----------------------------------------------------------------------------
(* What a call leaves for the handler to do.  Three kinds of calls are made *)
(* at once by the handlers that push them, which are four, and a deletion   *)
(* is the last call of its handler.                                         *)
AtOnce == {"stage", "watch", "finished"}
Makers == {"advance", "begin", "settle", "pump"}
Ending == {"down", "unlink", "release", "spawn", "pump", "finished", "answer", "changed",
           "passed", "join", "leave", "notice", "delete"}

(* Calls that change what the link is or who is answered: a later call of   *)
(* their handler tells it.                                                  *)
Needs  == {"advance", "begin", "stage", "fail", "restart", "settle", "collect", "watch", "finish"}
Askers == {"collect", "changed", "notice", "unlink"}

(* What a call may push.                                                    *)
May(op, to) ==
  /\ to # "delete" /\ (op \in Ending => to \in Ending)
  /\ to \in Needs => op \in Needs
  /\ to \in {"answer", "finish"} => op \in Askers
  /\ to = "answer" => op # "collect"
  /\ to \notin {"gone", "watched", "proceed"} /\ (to = "down" => op = "watched")
  /\ to = "release" => op \in {"down", "answer", "proceed", "spawn", "finished"}
  /\ to = "join" => op \in {"answer", "proceed"}
  /\ to = "spawn" => op \in {"join", "leave", "release", "gone", "finished"}
  /\ to = "leave" => op = "spawn"

Pushed(more, op) ==
  /\ more \in Seq(CallSet)
  /\ \A x \in Elems(more) : May(op, x.op)
  /\ \/ \A x \in Elems(more) : x.op \notin AtOnce
     \/ op \in Makers /\ \E x \in CallSet : more = <<x>>

(* The calls by their kind.                                                 *)
LEMMA CallsAre ==
  /\ \A op \in OfLink : Plain(op) \in CallSet /\ Plain(op).op = op
  /\ \A op \in OfSession, c \in Sessions :
        For(op, c) \in CallSet /\ For(op, c).op = op /\ For(op, c).who = c
  /\ \A w \in Waiters \cup Sessions, s \in {"down", "up", "failed"} :
        /\ Call("answer", w, s) \in CallSet /\ Call("answer", w, s).op = "answer"
        /\ Call("answer", w, s).who = w /\ Call("answer", w, s).state = s
  /\ \A c \in ChildSet : /\ Call("finish", c.who, c.job) \in CallSet
                         /\ Call("finish", c.who, c.job).op = "finish"
                         /\ Call("finish", c.who, c.job).who = c.who
BY DEF Plain, For, Call, CallSet, ChildSet, OfLink, OfSession

(* The call that a handler makes now, and who it is about.                  *)
LEMMA NowIs ==
  ASSUME CallTypes, NEW op, Do(op)
  PROVE  /\ calls # <<>> /\ Head(calls) \in CallSet /\ Head(calls).op = op
         /\ Tail(calls) \in Seq(CallSet)
         /\ Elems(calls) = {Head(calls)} \cup Elems(Tail(calls))
         /\ op \in OfSession => Who \in Sessions
         /\ op = "answer" => /\ Who \in Waiters \cup Sessions
                             /\ Head(calls).state \in {"down", "up", "failed"}
         /\ op = "finish" => Who \in Waiters \cup {None}
         /\ op = "finish" /\ Head(calls).state = "deliver" => Who \in Waiters
<1>1. calls # <<>> /\ Head(calls).op = op /\ calls \in Seq(CallSet)
  BY DEF Do, AtRest, CallTypes
<1>2. /\ Head(calls) \in CallSet /\ Tail(calls) \in Seq(CallSet)
      /\ Elems(calls) = {Head(calls)} \cup Elems(Tail(calls))
  BY <1>1, ElemsTail
<1>3. \A x \in CallSet : /\ x.op \in OfSession => x.who \in Sessions
                         /\ x.op = "answer" => /\ x.who \in Waiters \cup Sessions
                                               /\ x.state \in {"down", "up", "failed"}
                         /\ x.op = "finish" => x.who \in Waiters \cup {None}
                         /\ x.op = "finish" /\ x.state = "deliver" => x.who \in Waiters
  BY DEF CallSet, OfSession, OfLink
<1> QED BY <1>1, <1>2, <1>3 DEF Who

(* Nothing, one call, two or three: what most calls push.                   *)
LEMMA PushFew ==
  /\ \A op : Pushed(<<>>, op)
  /\ \A op, x : /\ x \in CallSet /\ May(op, x.op)
                /\ (x.op \in AtOnce => op \in Makers)
                => Pushed(<<x>>, op)
  /\ \A op, x, y : /\ {x, y} \subseteq CallSet /\ {x.op, y.op} \cap AtOnce = {}
                   /\ May(op, x.op) /\ May(op, y.op)
                   => Pushed(<<x, y>>, op)
<1>1. \A op : Pushed(<<>>, op)
  BY ElemsNone DEF Pushed
<1>2. ASSUME NEW op, NEW x \in CallSet, May(op, x.op),
             x.op \in AtOnce => op \in Makers
      PROVE  Pushed(<<x>>, op)
  BY <1>2, ElemsOne DEF Pushed
<1>3. ASSUME NEW op, NEW x \in CallSet, NEW y \in CallSet, {x.op, y.op} \cap AtOnce = {},
             May(op, x.op), May(op, y.op)
      PROVE  Pushed(<<x, y>>, op)
  <2>1. <<x, y>> \in Seq(CallSet) /\ Elems(<<x, y>>) = {x, y}
    BY DEF Elems
  <2> QED BY <1>3, <2>1 DEF Pushed
<1> QED BY <1>1, <1>2, <1>3

(* Two pushes in a row.                                                     *)
LEMMA PushBoth ==
  ASSUME NEW op, NEW a \in Seq(CallSet), NEW b \in Seq(CallSet),
         \A x \in Elems(a) \cup Elems(b) :
            x.op \notin AtOnce /\ May(op, x.op)
  PROVE  Pushed(a \o b, op)
<1>1. a \o b \in Seq(CallSet) /\ Elems(a \o b) = Elems(a) \cup Elems(b)
  BY ElemsConcat
<1> QED BY <1>1 DEF Pushed

(* A call of the same kind for each of some sessions, or answers to all who *)
(* wait.                                                                    *)
LEMMA ForEachIs ==
  ASSUME NEW op \in OfSession, NEW s \in Seq(Sessions)
  PROVE  /\ ForEach(op, s) \in Seq(CallSet)
         /\ Elems(ForEach(op, s)) = {For(op, c) : c \in Elems(s)}
         /\ \A x \in Elems(ForEach(op, s)) : x.op = op /\ x.who \in Sessions
<1>1. Len(s) \in Nat /\ DOMAIN s = 1 .. Len(s) /\ \A i \in 1 .. Len(s) : s[i] \in Sessions
  OBVIOUS
<1>2. ForEach(op, s) = [i \in 1 .. Len(s) |-> For(op, s[i])]
  BY <1>1 DEF ForEach
<1>3. \A i \in 1 .. Len(s) : For(op, s[i]) \in CallSet /\ For(op, s[i]).op = op
                            /\ For(op, s[i]).who \in Sessions
  BY <1>1, CallsAre
<1>4. ForEach(op, s) \in Seq(CallSet) /\ Len(ForEach(op, s)) = Len(s)
      /\ \A i \in 1 .. Len(s) : ForEach(op, s)[i] = For(op, s[i])
  BY <1>1, <1>2, <1>3
<1>5. Elems(ForEach(op, s)) = {For(op, c) : c \in Elems(s)}
  BY <1>4, <1>1, Zenon DEF Elems
<1> QED BY <1>3, <1>4, <1>5 DEF Elems

(* An answer for each who waits.                                            *)
LEMMA AnswersIs ==
  ASSUME NEW state \in {"down", "up", "failed"}, NEW s \in Seq(Waiters \cup Sessions)
  PROVE  /\ Answers(s, state) \in Seq(CallSet)
         /\ Elems(Answers(s, state)) = {Call("answer", w, state) : w \in Elems(s)}
         /\ \A x \in Elems(Answers(s, state)) : x.op = "answer" /\ x.who \in Elems(s) /\ x.state = state
<1>1. Len(s) \in Nat /\ DOMAIN s = 1 .. Len(s) /\ \A i \in 1 .. Len(s) : s[i] \in Waiters \cup Sessions
  OBVIOUS
<1>2. Answers(s, state) = [i \in 1 .. Len(s) |-> Call("answer", s[i], state)]
  BY <1>1 DEF Answers
<1>3. \A i \in 1 .. Len(s) : /\ Call("answer", s[i], state) \in CallSet
                             /\ Call("answer", s[i], state).op = "answer"
                             /\ Call("answer", s[i], state).who = s[i]
                             /\ Call("answer", s[i], state).state = state
  BY <1>1, CallsAre
<1>4. Answers(s, state) \in Seq(CallSet) /\ Len(Answers(s, state)) = Len(s)
      /\ \A i \in 1 .. Len(s) : Answers(s, state)[i] = Call("answer", s[i], state)
  BY <1>1, <1>2, <1>3
<1>5. Elems(Answers(s, state)) = {Call("answer", w, state) : w \in Elems(s)}
  BY <1>4, <1>1, Zenon DEF Elems
<1> QED BY <1>3, <1>4, <1>5 DEF Elems

(* A finite set as a sequence.                                              *)
LEMMA SetToSeqIs ==
  ASSUME NEW S, IsFiniteSet(S)
  PROVE  /\ SetToSeq(S) \in Seq(S) /\ Elems(SetToSeq(S)) = S
         /\ Len(SetToSeq(S)) = Cardinality(S)
         /\ \A j, k \in 1 .. Len(SetToSeq(S)) : SetToSeq(S)[j] = SetToSeq(S)[k] => j = k
<1>1. Cardinality(S) \in Nat
  BY FS_CardinalityType
<1>2. PICK f \in Bijection(1 .. Cardinality(S), S) : TRUE
  BY FS_CardinalityType DEF ExistsBijection
<1>3. f \in [1 .. Cardinality(S) -> S] /\ (\A x, y \in DOMAIN f : f[x] = f[y] => x = y)
  BY <1>2 DEF Bijection, Injection, IsInjective
<1>4. \E g \in [1 .. Cardinality(S) -> S] : IsInjective(g)
  BY <1>3 DEF IsInjective
<1> DEFINE s == SetToSeq(S)
           n == Cardinality(S)
<1>5. s \in [1 .. n -> S] /\ IsInjective(s)
  BY <1>4 DEF SetToSeq
<1>6. s \in Seq(S) /\ Len(s) = n
  BY <1>1, <1>5
<1>7. \A j, k \in 1 .. n : s[j] = s[k] => j = k
  BY <1>5 DEF IsInjective
<1>8. Elems(s) = S
  <2>1. IsFiniteSet(1 .. n) /\ Cardinality(1 .. n) = n
    BY <1>1, FS_Interval
  <2>2. s \in Injection(1 .. n, S)
    BY <1>5, <1>7 DEF Injection, IsInjective
  <2>3. s \in Surjection(1 .. n, S)
    BY <2>1, <2>2, FS_Injection
  <2> HIDE DEF s, n
  <2>4. \A y \in S : \E x \in 1 .. n : s[x] = y
    BY <2>3 DEF Surjection
  <2> QED BY <1>5, <1>6, <2>4 DEF Elems
<1> QED BY <1>6, <1>7, <1>8

(* What the call at hand leaves to do, for each kind of call.               *)
Leaves == \E more : Then(more) /\ Pushed(more, Head(calls).op)

(* A call leaves what it pushes.                                            *)
LEMMA LeavesIs ==
  ASSUME NEW op, Do(op), NEW more, Then(more), Pushed(more, op)
  PROVE  Leaves
BY DEF Leaves, Do

(* Some of the sessions, in a row.                                          *)
LEMMA RestOfSessions ==
  \A T \in SUBSET Sessions : /\ IsFiniteSet(T) /\ SetToSeq(T) \in Seq(Sessions)
                             /\ Elems(SetToSeq(T)) = T
<1> SUFFICES ASSUME NEW T \in SUBSET Sessions
             PROVE  IsFiniteSet(T) /\ SetToSeq(T) \in Seq(Sessions) /\ Elems(SetToSeq(T)) = T
  OBVIOUS
<1>1. IsFiniteSet(T)
  BY FS_Subset, RuntimesAssumption
<1>2. SetToSeq(T) \in Seq(T) /\ Elems(SetToSeq(T)) = T
  BY <1>1, SetToSeqIs
<1> QED BY <1>1, <1>2

(* What the calls after SIGCHLD leave to do.                                *)
LEMMA ReapLeaves ==
  ASSUME LinkTypes, CallTypes, ReapCall
  PROVE  Leaves
<1> DEFINE fin(c) == Call("finish", c.who, c.job)
<1>1. CASE Advance
  <2>1. PICK more : Then(more) /\ more \in {<<>>, <<Plain("stage")>>, <<Plain("watch")>>, <<Plain("fail")>>}
    BY <1>1 DEF Advance
  <2>2. Pushed(more, "advance")
    BY <2>1, PushFew, CallsAre DEF OfLink, May, Ending, Needs, Askers, AtOnce, Makers
  <2> QED BY <1>1, <2>1, <2>2, LeavesIs DEF Advance
<1>2. CASE GoUp
  <2>1. PICK more : Then(more) /\ more \in {<<>>, <<Plain("fail")>>}
    BY <1>2 DEF GoUp
  <2>2. Pushed(more, "watch")
    BY <2>1, PushFew, CallsAre DEF OfLink, May, Ending, Needs, Askers, AtOnce, Makers
  <2> QED BY <1>2, <2>1, <2>2, LeavesIs DEF GoUp
<1>3. CASE Collect
  <2> DEFINE done == {c \in children : Zombie(c.pid)}
  <2>1. PICK order \in [1 .. Cardinality(done) -> done] : Then([i \in DOMAIN order |-> fin(order[i])])
    BY <1>3 DEF Collect
  <2>2. Cardinality(done) \in Nat /\ done \subseteq ChildSet
    BY FS_Subset, FS_CardinalityType DEF LinkTypes
  <2> DEFINE n == Cardinality(done)
             more == [i \in DOMAIN order |-> fin(order[i])]
  <2>3. \A i \in 1 .. n : fin(order[i]) \in CallSet /\ fin(order[i]).op = "finish"
    BY <2>2, CallsAre
  <2>4. more \in Seq(CallSet) /\ Len(more) = n /\ \A i \in 1 .. n : more[i] = fin(order[i])
    <3>1. DOMAIN order = 1 .. n
      OBVIOUS
    <3> HIDE DEF done, fin
    <3> QED BY <2>2, <2>3, <3>1
  <2>5. \A x \in Elems(more) : x.op = "finish"
    <3> HIDE DEF more, n, fin
    <3> QED BY <2>3, <2>4 DEF Elems
  <2>6. Pushed(more, "collect")
    <3> HIDE DEF more
    <3> QED BY <2>4, <2>5 DEF Pushed, May, Ending, Needs, Askers, AtOnce
  <2> QED BY <1>3, <2>1, <2>6, LeavesIs DEF Collect
<1>4. CASE FinishCheck
  <2>1. PICK more : Then(more) /\ more \in {<<>>, <<Plain("restart")>>}
    BY <1>4 DEF FinishCheck
  <2>2. Pushed(more, "finish")
    BY <2>1, PushFew, CallsAre DEF OfLink, May, Ending, Needs, Askers, AtOnce, Makers
  <2> QED BY <1>4, <2>1, <2>2, LeavesIs DEF FinishCheck
<1>5. CASE FinishDeliver
  BY <1>5, PushFew, LeavesIs DEF FinishDeliver
<1>6. CASE Settle
  <2>1. PICK more : Then(more) /\ more \in {<<>>, <<Plain("stage")>>}
    BY <1>6 DEF Settle
  <2>2. Pushed(more, "settle")
    BY <2>1, PushFew, CallsAre DEF OfLink, May, Ending, Needs, Askers, AtOnce, Makers
  <2> QED BY <1>6, <2>1, <2>2, LeavesIs DEF Settle
<1>7. CASE WatchEnds
  <2>1. PICK more : Then(more) /\ more \in {<<>>, <<Plain("down")>>}
    BY <1>7 DEF WatchEnds
  <2>2. Pushed(more, "watched")
    BY <2>1, PushFew, CallsAre DEF OfLink, May, Ending, Needs, Askers, AtOnce, Makers
  <2> QED BY <1>7, <2>1, <2>2, LeavesIs DEF WatchEnds
<1>8. CASE PumpAll
  <2> DEFINE s == SetToSeq({c \in Sessions : Runs(c)})
  <2>1. s \in Seq(Sessions)
    BY RestOfSessions
  <2> HIDE DEF s
  <2>2. ForEach("pump", s) \in Seq(CallSet) /\ \A x \in Elems(ForEach("pump", s)) : x.op = "pump"
    BY <2>1, ForEachIs DEF OfSession
  <2>3. Pushed(ForEach("pump", s), "pumps")
    BY <2>2 DEF Pushed, May, Ending, Needs, Askers, AtOnce
  <2> QED BY <1>8, <2>3, LeavesIs DEF PumpAll, s
<1>9. CASE ReapLeaving
  BY <1>9, PushFew, LeavesIs DEF ReapLeaving
<1> QED BY <1>1, <1>2, <1>3, <1>4, <1>5, <1>6, <1>7, <1>8, <1>9 DEF ReapCall

(* What the calls of the link leave to do.                                  *)
LEMMA LinkLeaves ==
  ASSUME LinkTypes, SessTypes, CallTypes, LinkCall
  PROVE  Leaves
<1>1. CASE Begin
  <2>1. PICK more : Then(more) /\ more \in {<<>>, <<Plain("stage")>>}
    BY <1>1 DEF Begin
  <2>2. Pushed(more, "begin")
    BY <2>1, PushFew, CallsAre DEF OfLink, May, Ending, Needs, Askers, AtOnce, Makers
  <2> QED BY <1>1, <2>1, <2>2, LeavesIs DEF Begin
<1>2. CASE StartStage
  <2>1. PICK more : Then(more) /\ more \in {<<>>, <<Plain("fail")>>}
    BY <1>2 DEF StartStage
  <2>2. Pushed(more, "stage")
    BY <2>1, PushFew, CallsAre DEF OfLink, May, Ending, Needs, Askers, AtOnce, Makers
  <2> QED BY <1>2, <2>1, <2>2, LeavesIs DEF StartStage
<1>3. CASE Fail
  BY <1>3, PushFew, LeavesIs DEF Fail
<1>4. CASE Restart
  <2>1. PICK more : Then(more) /\ more \in {<<>>, <<Plain("begin")>>}
    BY <1>4 DEF Restart
  <2>2. Pushed(more, "restart")
    BY <2>1, PushFew, CallsAre DEF OfLink, May, Ending, Needs, Askers, AtOnce, Makers
  <2> QED BY <1>4, <2>1, <2>2, LeavesIs DEF Restart
<1>5. CASE ForceDown
  <2> DEFINE queued == {c \in Sessions : Queued(c)}
             others == {c \in Sessions : Using(c)} \ queued
             s == SetToSeq(queued) \o SetToSeq(others)
  <2>1. s \in Seq(Sessions)
    <3>1. SetToSeq(queued) \in Seq(Sessions) /\ SetToSeq(others) \in Seq(Sessions)
      BY RestOfSessions
    <3> QED BY <3>1
  <2>2. Then(ForEach("release", s) \o <<Plain("unlink")>>)
    BY <1>5 DEF ForceDown
  <2> HIDE DEF s
  <2>3. /\ ForEach("release", s) \in Seq(CallSet)
        /\ \A x \in Elems(ForEach("release", s)) : x.op = "release"
    BY <2>1, ForEachIs DEF OfSession
  <2>4. <<Plain("unlink")>> \in Seq(CallSet) /\ \A x \in Elems(<<Plain("unlink")>>) : x.op = "unlink"
    BY CallsAre, ElemsOne DEF OfLink
  <2>5. Pushed(ForEach("release", s) \o <<Plain("unlink")>>, "down")
    BY <2>3, <2>4, PushBoth DEF AtOnce, May, Ending, Needs, Askers
  <2> QED BY <1>5, <2>2, <2>5, LeavesIs DEF ForceDown
<1>6. CASE Unlink
  <2>1. Then(Answers(waits, "down") \o <<Plain("changed")>>)
    BY <1>6 DEF Unlink
  <2>2. /\ Answers(waits, "down") \in Seq(CallSet)
        /\ \A x \in Elems(Answers(waits, "down")) : x.op = "answer"
    BY AnswersIs DEF CallTypes
  <2>4. <<Plain("changed")>> \in Seq(CallSet) /\ \A x \in Elems(<<Plain("changed")>>) : x.op = "changed"
    BY CallsAre, ElemsOne DEF OfLink
  <2>5. Pushed(Answers(waits, "down") \o <<Plain("changed")>>, "unlink")
    BY <2>2, <2>4, PushBoth DEF AtOnce, May, Ending, Needs, Askers
  <2> QED BY <1>6, <2>1, <2>5, LeavesIs DEF Unlink
<1>7. CASE Delete
  BY <1>7, PushFew, LeavesIs DEF Delete
<1>8. CASE Touch
  BY <1>8, PushFew, LeavesIs DEF Touch
<1>9. CASE Changed
  <2>1. PICK op \in {"changed", "notice"} : Do(op)
    BY <1>9 DEF Changed
  <2>2. CASE Settled = <<>>
    BY <1>9, <2>1, <2>2, PushFew, LeavesIs DEF Changed
  <2>3. CASE Settled # <<>>
    <3>1. Settled = waits /\ LinkState \in {"down", "up", "failed"}
      BY <2>3 DEF Settled, LinkState, LinkTypes, Links
    <3>2. Then(Answers(waits, LinkState) \o <<Plain("passed")>>)
      BY <1>9, <2>3, <3>1 DEF Changed
    <3>3. /\ Answers(waits, LinkState) \in Seq(CallSet)
          /\ \A x \in Elems(Answers(waits, LinkState)) : x.op = "answer"
      BY <3>1, AnswersIs DEF CallTypes
    <3>4. <<Plain("passed")>> \in Seq(CallSet) /\ \A x \in Elems(<<Plain("passed")>>) : x.op = "passed"
      BY CallsAre, ElemsOne DEF OfLink
    <3>5. Pushed(Answers(waits, LinkState) \o <<Plain("passed")>>, op)
      BY <3>3, <3>4, PushBoth DEF AtOnce, May, Ending, Needs, Askers
    <3> QED BY <2>1, <3>2, <3>5, LeavesIs
  <2> QED BY <2>2, <2>3
<1>10. CASE Answer
  <2>1. PICK more : Then(more) /\ more \in {<<>>, <<For("join", Who)>>, <<For("release", Who)>>}
                    /\ (more # <<>> => Who \in Sessions)
    BY <1>10 DEF Answer
  <2>2. Pushed(more, "answer")
    BY <2>1, PushFew, CallsAre DEF OfSession, May, Ending, Needs, Askers, AtOnce, Makers
  <2> QED BY <1>10, <2>1, <2>2, LeavesIs DEF Answer
<1>11. CASE AnswerPassed
  BY <1>11, PushFew, LeavesIs DEF AnswerPassed
<1> QED BY <1>1, <1>2, <1>3, <1>4, <1>5, <1>6, <1>7, <1>8, <1>9, <1>10, <1>11 DEF LinkCall

(* What the calls of the exec sessions leave to do.                         *)
LEMMA ExecLeaves ==
  ASSUME LinkTypes, SessTypes, CallTypes, ExecCall
  PROVE  Leaves
<1>0. LeaveSlot(lim).start \in Seq(Sessions)
  BY LeaveTypes DEF SessTypes
<1>1. \A s \in Seq(Sessions) : /\ ForEach("spawn", s) \in Seq(CallSet)
                              /\ \A x \in Elems(ForEach("spawn", s)) : x.op = "spawn"
  BY ForEachIs DEF OfSession
<1>2. \A op \in {"leave", "finished"} : \A s \in Seq(Sessions) : Pushed(ForEach("spawn", s), op)
  BY <1>1 DEF Pushed, May, Ending, Needs, Askers, AtOnce
<1>3. Notice \in Seq(CallSet) /\ \A x \in Elems(Notice) : x.op = "notice"
  BY CallsAre, ElemsOne DEF OfLink, Notice
<1>4. \A op : Pushed(Notice, op)
  BY <1>3 DEF Pushed, AtOnce, May, Ending, Needs, Askers
<1>5. \A op \in {"release", "gone"} : \A s \in Seq(Sessions) : Pushed(ForEach("spawn", s) \o Notice, op)
  BY <1>1, <1>3, PushBoth DEF AtOnce, May, Ending, Needs, Askers
<1>6. \A c \in Sessions :
         /\ Pushed(<<For("join", c)>>, "proceed") /\ Pushed(<<For("finished", c)>>, "pump")
         /\ Pushed(<<For("pump", c)>>, "spawn")
         /\ \A op \in {"proceed", "spawn", "finished"} : Pushed(<<For("release", c)>>, op)
  BY PushFew, CallsAre DEF OfSession, May, Ending, Needs, Askers, AtOnce, Makers
<1>7. CASE Proceed
  <2>1. PICK more : Then(more) /\ more \in {<<>>, <<For("join", Who)>>, <<For("release", Who)>>}
    BY <1>7 DEF Proceed
  <2>2. Who \in Sessions
    BY <1>7, NowIs DEF Proceed, OfSession
  <2>3. Pushed(<<>>, "proceed") /\ Pushed(<<For("join", Who)>>, "proceed")
        /\ Pushed(<<For("release", Who)>>, "proceed")
    BY <1>6, <2>2, PushFew
  <2> QED BY <1>7, <2>1, <2>3, LeavesIs DEF Proceed
<1>8. CASE JoinSlot
  <2>1. PICK more : Then(more) /\ more \in {<<>>, <<For("spawn", Who)>>}
    BY <1>8 DEF JoinSlot
  <2>2. Who \in Sessions
    BY <1>8, NowIs DEF JoinSlot, OfSession
  <2>3. Pushed(more, "join")
    BY <2>1, <2>2, PushFew, CallsAre DEF OfSession, May, Ending, Needs, Askers, AtOnce, Makers
  <2> QED BY <1>8, <2>1, <2>3, LeavesIs DEF JoinSlot
<1>9. CASE SpawnSession
  <2>1. PICK more : Then(more) /\ more \in {<<>>, <<For("pump", Who)>>, <<For("release", Who)>>,
                                         <<For("release", Who), Plain("leave")>>}
    BY <1>9 DEF SpawnSession
  <2>2. Who \in Sessions
    BY <1>9, NowIs DEF SpawnSession, OfSession
  <2>3. Pushed(<<For("release", Who), Plain("leave")>>, "spawn")
    BY <2>2, PushFew, CallsAre DEF OfSession, OfLink, May, Ending, Needs, Askers, AtOnce, Makers
  <2>4. Pushed(<<>>, "spawn") /\ Pushed(<<For("pump", Who)>>, "spawn")
        /\ Pushed(<<For("release", Who)>>, "spawn")
    BY <1>6, <2>2, PushFew
  <2> QED BY <1>9, <2>1, <2>3, <2>4, LeavesIs DEF SpawnSession
<1>10. CASE LeaveLimiter
  BY <1>0, <1>2, <1>10, LeavesIs DEF LeaveLimiter
<1>11. ASSUME NEW op \in {"release", "gone"}, Do(op), NEW after, Release(Who, after) PROVE Leaves
  <2>1. Then(Notice) \/ Then(ForEach("spawn", LeaveSlot(lim).start) \o Notice)
    BY <1>11 DEF Release
  <2> QED BY <1>0, <1>4, <1>5, <1>11, <2>1, LeavesIs
<1>12. CASE EndSession
  BY <1>11, <1>12 DEF EndSession
<1>13. CASE CloseSession
  BY <1>11, <1>13 DEF CloseSession
<1>14. CASE Pump
  <2>1. PICK more : Then(more) /\ more \in {<<>>, <<For("finished", Who)>>}
    BY <1>14 DEF Pump
  <2>2. Who \in Sessions
    BY <1>14, NowIs DEF Pump, OfSession
  <2>3. Pushed(more, "pump")
    BY <1>6, <2>1, <2>2, PushFew
  <2> QED BY <1>14, <2>1, <2>3, LeavesIs DEF Pump
<1>15. CASE FinishExit \/ FinishError
  <2>1. Do("finished") /\ Then(<<For("release", Who)>>)
    BY <1>15 DEF FinishExit, FinishError
  <2>2. Who \in Sessions
    BY <2>1, NowIs DEF OfSession
  <2>3. Pushed(<<For("release", Who)>>, "finished")
    BY <1>6, <2>2
  <2> QED BY <2>1, <2>3, LeavesIs
<1>16. CASE FinishRetry
  <2>1. Do("finished") /\ Then(ForEach("spawn", Retry(lim, Who, sess[Who].late).start))
    BY <1>16 DEF FinishRetry
  <2>2. Who \in Sessions
    BY <2>1, NowIs DEF OfSession
  <2>3. Retry(lim, Who, sess[Who].late).start \in Seq(Sessions)
    BY <2>2, LimiterTypes DEF SessTypes, Sess
  <2> QED BY <1>2, <2>1, <2>3, LeavesIs
<1> QED BY <1>7, <1>8, <1>9, <1>10, <1>12, <1>13, <1>14, <1>15, <1>16 DEF ExecCall

(* Every call leaves such calls.                                            *)
LEMMA CallLeaves ==
  ASSUME LinkTypes, SessTypes, CallTypes, Calls
  PROVE  Leaves /\ calls # <<>>
<1>1. Leaves
  BY ReapLeaves, LinkLeaves, ExecLeaves DEF Calls
<1>2. \E op : Do(op)
  BY DEF Calls, ReapCall, LinkCall, ExecCall, Proceed, JoinSlot, SpawnSession, LeaveLimiter,
         EndSession, CloseSession, Pump, FinishExit, FinishError, FinishRetry, Advance, GoUp,
         Collect, FinishCheck, FinishDeliver, Settle, WatchEnds, PumpAll, ReapLeaving, Begin,
         StartStage, Fail, Restart, ForceDown, Unlink, Delete, Touch, Changed, Answer, AnswerPassed
<1> QED BY <1>1, <1>2 DEF Do, AtRest

(* The order of the calls of a handler: what is made at once comes first,   *)
(* and a deletion comes last, behind calls that take the link down.         *)
StackInv ==
  /\ calls # <<>> => \A x \in Elems(Tail(calls)) : x.op \notin AtOnce
  /\ \A k \in 1 .. Len(calls) : calls[k].op = "delete" => k = Len(calls)
  /\ (\E x \in Elems(calls) : x.op = "delete") => \A x \in Elems(calls) : x.op \in Ending

(* What starts a handler pushes only calls that may wait.                   *)
Starts == /\ calls = <<>> /\ calls' \in Seq(CallSet)
          /\ \A x \in Elems(calls') : x.op \notin AtOnce \cup {"answer", "finish", "join", "spawn", "leave"}
          /\ (\A x \in Elems(calls') : x.op # "proceed") \/ \E c \in Sessions : ExecRequest(c)
          /\ \/ \A x \in Elems(calls') : x.op # "delete"
             \/ calls' = <<Plain("down"), Plain("delete")>>

(* A handler that starts with no call, one or two.                          *)
LEMMA StartsFew ==
  /\ calls = <<>> /\ calls' = <<>> => Starts
  /\ \A op \in OfLink \ (AtOnce \cup {"delete", "leave"}) : calls = <<>> /\ calls' = <<Plain(op)>> => Starts
  /\ \A op \in {"release", "gone", "pump"}, c \in Sessions : calls = <<>> /\ calls' = <<For(op, c)>> => Starts
  /\ \A a, b \in OfLink \ (AtOnce \cup {"delete", "leave"}) :
        calls = <<>> /\ calls' = <<Plain(a), Plain(b)>> => Starts
<1>1. calls = <<>> /\ calls' = <<>> => Starts
  BY ElemsNone DEF Starts
<1>2. ASSUME NEW op \in OfLink \ (AtOnce \cup {"delete", "leave"}), calls = <<>>, calls' = <<Plain(op)>>
      PROVE  Starts
  <2>1. op \notin {"answer", "finish", "proceed", "join", "spawn"}
    BY DEF OfLink
  <2> QED BY <1>2, <2>1, CallsAre, ElemsOne DEF Starts
<1>3. ASSUME NEW op \in {"release", "gone", "pump"}, NEW c \in Sessions, calls = <<>>, calls' = <<For(op, c)>>
      PROVE  Starts
  <2>1. op \in OfSession /\ op \notin AtOnce
    BY DEF OfSession, AtOnce
  <2> QED BY <1>3, <2>1, CallsAre, ElemsOne DEF Starts
<1>4. ASSUME NEW a \in OfLink \ (AtOnce \cup {"delete", "leave"}), NEW b \in OfLink \ (AtOnce \cup {"delete", "leave"}),
             calls = <<>>, calls' = <<Plain(a), Plain(b)>>
      PROVE  Starts
  <2>1. Plain(a) \in CallSet /\ Plain(b) \in CallSet /\ Plain(a).op = a /\ Plain(b).op = b
    BY CallsAre
  <2>2. <<Plain(a), Plain(b)>> \in Seq(CallSet) /\ Elems(<<Plain(a), Plain(b)>>) = {Plain(a), Plain(b)}
    BY <2>1 DEF Elems
  <2>3. {a, b} \cap {"answer", "finish", "proceed", "join", "spawn"} = {}
    BY DEF OfLink
  <2> QED BY <1>4, <2>1, <2>2, <2>3 DEF Starts
<1> QED BY <1>1, <1>2, <1>3, <1>4

(* Rows of calls that a request may push.                                   *)
Harmless == {s \in Seq(CallSet) : \A x \in Elems(s) :
               x.op \notin AtOnce \cup {"delete", "answer", "finish", "proceed", "join", "spawn", "leave"}}

(* Rows of calls that any handler may start with.                           *)
LEMMA HarmlessIs ==
  /\ <<>> \in Harmless
  /\ \A op \in OfLink \ (AtOnce \cup {"delete", "leave"}) : <<Plain(op)>> \in Harmless
  /\ \A a, b \in Harmless : a \o b \in Harmless
  /\ calls = <<>> /\ calls' \in Harmless => Starts
<1>1. <<>> \in Harmless
  BY ElemsNone DEF Harmless
<1>2. ASSUME NEW op \in OfLink \ (AtOnce \cup {"delete", "leave"}) PROVE <<Plain(op)>> \in Harmless
  <2>1. op \notin {"answer", "finish", "proceed", "join", "spawn"}
    BY DEF OfLink
  <2> QED BY <2>1, CallsAre, ElemsOne DEF Harmless
<1>3. ASSUME NEW a \in Harmless, NEW b \in Harmless PROVE a \o b \in Harmless
  BY ElemsConcat DEF Harmless
<1>4. calls = <<>> /\ calls' \in Harmless => Starts
  BY DEF Harmless, Starts
<1> QED BY <1>1, <1>2, <1>3, <1>4

(* Every request, timer and signal starts a handler in order, or none.      *)
LEMMA RequestStarts ==
  ASSUME CallTypes, Timers \/ Requests \/ Reap
  PROVE  Starts \/ (calls' = calls /\ calls = <<>>)
<1>0. BeginCalls \in Harmless /\ Notice \in Harmless
  BY HarmlessIs DEF BeginCalls, Notice, OfLink, AtOnce
<1>1. CASE UpRoute
  BY <1>0, <1>1, HarmlessIs DEF UpRoute, Handler, AtRest
<1>2. CASE DownRoute
  BY <1>2, StartsFew DEF DownRoute, Handler, AtRest, OfLink, AtOnce
<1>3. CASE DeleteRoute
  <2>1. Plain("down") \in CallSet /\ Plain("delete") \in CallSet
        /\ Plain("down").op = "down" /\ Plain("delete").op = "delete"
    BY CallsAre DEF OfLink
  <2>2. /\ <<Plain("down"), Plain("delete")>> \in Seq(CallSet)
        /\ Elems(<<Plain("down"), Plain("delete")>>) = {Plain("down"), Plain("delete")}
    BY <2>1 DEF Elems
  <2> QED BY <1>3, <2>1, <2>2 DEF DeleteRoute, Handler, AtRest, Starts, AtOnce
<1>4. CASE PaneArrives
  <2>1. <<Plain("begin")>> \in Harmless
    BY HarmlessIs DEF OfLink, AtOnce
  <2> QED BY <1>0, <1>4, <2>1, HarmlessIs DEF PaneArrives, Handler, AtRest
<1>5. CASE PaneLeaves
  BY <1>0, <1>5, HarmlessIs DEF PaneLeaves, Handler, AtRest
<1>6. ASSUME NEW w \in Waiters, WaitRoute(w) \/ WaitEnds(w) PROVE calls' = calls /\ calls = <<>>
  BY <1>6 DEF WaitRoute, WaitEnds, AtRest
<1>7. ASSUME NEW c \in Sessions, OpenSession(c) PROVE calls' = calls /\ calls = <<>>
  BY <1>7 DEF OpenSession, AtRest
<1>8. ASSUME NEW c \in Sessions, ExecRequest(c) PROVE Starts
  <2> DEFINE s == <<Plain("touch"), For("proceed", c), Plain("changed")>>
  <2>1. /\ Plain("touch") \in CallSet /\ For("proceed", c) \in CallSet /\ Plain("changed") \in CallSet
        /\ Plain("touch").op = "touch" /\ For("proceed", c).op = "proceed"
        /\ Plain("changed").op = "changed"
    BY CallsAre DEF OfLink, OfSession
  <2>2. s \in Seq(CallSet) /\ Elems(s) = {Plain("touch"), For("proceed", c), Plain("changed")}
    BY <2>1 DEF Elems
  <2>3. \A x \in Elems(s) : x.op \in {"touch", "proceed", "changed"}
    BY <2>1, <2>2
  <2> HIDE DEF s
  <2>4. BeginCalls \o s \in Seq(CallSet) /\ Elems(BeginCalls \o s) = Elems(BeginCalls) \cup Elems(s)
    BY <1>0, <2>2, ElemsConcat DEF Harmless
  <2>5. \A x \in Elems(BeginCalls \o s) : x.op \notin AtOnce \cup {"delete", "answer", "finish", "join", "spawn", "leave"}
    BY <1>0, <2>3, <2>4 DEF Harmless, AtOnce
  <2>6. calls = <<>> /\ calls' = BeginCalls \o s
    BY <1>8 DEF ExecRequest, Handler, AtRest, s
  <2> QED BY <1>8, <2>4, <2>5, <2>6 DEF Starts
<1>9. ASSUME NEW c \in Sessions, FailSession(c) \/ CloseConn(c) \/ ReadOutput(c) PROVE Starts
  BY <1>9, StartsFew DEF FailSession, CloseConn, ReadOutput, Handler, AtRest, OfSession, AtOnce
<1>10. CASE IdleDue
  BY <1>10, StartsFew DEF IdleDue, Handler, AtRest, OfLink, AtOnce
<1>11. CASE UpLimit
  BY <1>11, StartsFew DEF UpLimit, Handler, AtRest, OfLink, AtOnce
<1>12. ASSUME NEW c \in children, QuickLimit(c) PROVE Starts
  BY <1>12, StartsFew DEF QuickLimit, Handler, AtRest, OfLink, AtOnce
<1>13. CASE Reap
  <2> DEFINE When(cond, op) == IF cond THEN <<Plain(op)>> ELSE <<>>
  <2>1. \A cond \in BOOLEAN, op \in {"advance", "collect", "watched", "pumps", "bury"} :
           When(cond, op) \in Harmless
    BY HarmlessIs DEF OfLink, AtOnce
  <2>2. <<Plain("settle")>> \in Harmless /\ <<Plain("changed")>> \in Harmless
    BY HarmlessIs DEF OfLink, AtOnce
  <2> DEFINE a == When(link.phase = "stage" /\ Zombie(link.helper), "advance")
             b == When(\E c \in children : Zombie(c.pid), "collect")
             d == When(Zombie(link.watch), "watched")
             e == When(\E c \in Sessions : Queued(c) \/ Runs(c), "pumps")
             f == When(\E p \in Listed : Zombie(p), "bury")
  <2>3. a \in Harmless /\ b \in Harmless /\ d \in Harmless /\ e \in Harmless /\ f \in Harmless
    BY <2>1
  <2>4. ReapCalls = a \o b \o <<Plain("settle")>> \o d \o <<Plain("changed")>> \o e \o f
    BY DEF ReapCalls
  <2> HIDE DEF a, b, d, e, f
  <2>5. ReapCalls \in Harmless
    BY <2>2, <2>3, <2>4, HarmlessIs
  <2> QED BY <1>13, <2>5, HarmlessIs DEF Reap, Handler, AtRest
<1> QED BY <1>1, <1>2, <1>3, <1>4, <1>5, <1>6, <1>7, <1>8, <1>9, <1>10, <1>11, <1>12, <1>13
        DEF Timers, Requests

(* A deletion stays last in what is left, and in front of it come others.   *)
LEMMA LastStays ==
  ASSUME CallTypes, StackInv, calls # <<>>, NEW more \in Seq(CallSet),
         \A x \in Elems(more) : x.op # "delete"
  PROVE  \A k \in 1 .. Len(more \o Tail(calls)) :
            (more \o Tail(calls))[k].op = "delete" => k = Len(more \o Tail(calls))
<1> DEFINE s == Tail(calls)
<1>1. /\ s \in Seq(CallSet) /\ Len(s) = Len(calls) - 1 /\ Len(calls) \in Nat \ {0}
      /\ \A k \in 1 .. Len(s) : s[k] = calls[k + 1]
  BY ElemsTail DEF CallTypes
<1>2. ASSUME NEW k \in 1 .. Len(s), s[k].op = "delete" PROVE k = Len(s)
  <2>1. k + 1 \in 1 .. Len(calls) /\ calls[k + 1].op = "delete"
    BY <1>1, <1>2
  <2>2. k + 1 = Len(calls)
    BY <2>1 DEF StackInv
  <2>3. Len(s) = Len(calls) - 1 /\ Len(calls) \in Nat /\ k \in Int
    BY <1>1
  <2> QED BY <2>2, <2>3
<1> HIDE DEF s
<1>3. /\ Len(more \o s) = Len(more) + Len(s) /\ Len(more) \in Nat /\ Len(s) \in Nat
      /\ \A k \in 1 .. Len(more) : (more \o s)[k] = more[k]
      /\ \A k \in 1 .. Len(s) : (more \o s)[Len(more) + k] = s[k]
      /\ \A k \in 1 .. Len(more) + Len(s) : k \in 1 .. Len(more) \/ k - Len(more) \in 1 .. Len(s)
  <2>1. s \in Seq(CallSet)
    BY <1>1
  <2>2. Len(more) \in Nat /\ Len(s) \in Nat
    BY <2>1
  <2>3. /\ Len(more \o s) = Len(more) + Len(s)
        /\ \A k \in 1 .. Len(more) : (more \o s)[k] = more[k]
        /\ \A k \in 1 .. Len(s) : (more \o s)[Len(more) + k] = s[k]
        /\ \A k \in 1 .. Len(more) + Len(s) : k \in 1 .. Len(more) \/ k - Len(more) \in 1 .. Len(s)
    BY <2>1, ElemsConcat
  <2> QED BY <2>2, <2>3
<1>4. \A k \in 1 .. Len(more) : more[k].op # "delete"
  BY DEF Elems
<1>5. ASSUME NEW k \in 1 .. Len(more) + Len(s), (more \o s)[k].op = "delete"
      PROVE  k = Len(more) + Len(s)
  <2>1. k - Len(more) \in 1 .. Len(s)
    BY <1>3, <1>4, <1>5
  <2>2. (more \o s)[Len(more) + (k - Len(more))] = s[k - Len(more)] /\ Len(more) + (k - Len(more)) = k
    BY <1>3, <2>1
  <2>3. k - Len(more) = Len(s)
    BY <1>2, <1>5, <2>1, <2>2
  <2> QED BY <1>3, <2>3
<1> QED BY <1>3, <1>5 DEF s

(* The order of the calls stays, whatever is pushed.                        *)
LEMMA PushStep ==
  ASSUME CallTypes, StackInv, calls # <<>>, Leaves
  PROVE  calls' \in Seq(CallSet) /\ StackInv'
<1>1. PICK more : calls' = more \o Tail(calls) /\ Pushed(more, Head(calls).op)
  BY DEF Leaves, Then
<1>2. /\ Tail(calls) \in Seq(CallSet) /\ Head(calls) \in CallSet
      /\ Elems(calls) = {Head(calls)} \cup Elems(Tail(calls))
  BY ElemsTail DEF CallTypes
<1>3. more \in Seq(CallSet) /\ \A x \in Elems(more) : x.op # "delete"
  BY <1>1 DEF Pushed, May
<1>4. /\ calls' \in Seq(CallSet) /\ Elems(calls') = Elems(more) \cup Elems(Tail(calls))
  <2>1. /\ more \o Tail(calls) \in Seq(CallSet)
        /\ Elems(more \o Tail(calls)) = Elems(more) \cup Elems(Tail(calls))
    <3>1. more \in Seq(CallSet) /\ Tail(calls) \in Seq(CallSet)
      BY <1>2, <1>3
    <3> QED BY <3>1, ElemsConcat, Zenon
  <2> QED BY <1>1, <2>1
<1>5. calls' # <<>> => \A x \in Elems(Tail(calls')) : x.op \notin AtOnce
  <2> SUFFICES ASSUME calls' # <<>> PROVE \A x \in Elems(Tail(calls')) : x.op \notin AtOnce
    OBVIOUS
  <2>1. Elems(calls') = {Head(calls')} \cup Elems(Tail(calls'))
    BY <1>4, ElemsTail
  <2>2. CASE \A x \in Elems(more) : x.op \notin AtOnce
    BY <1>4, <2>1, <2>2 DEF StackInv
  <2>3. CASE \E x \in CallSet : more = <<x>>
    <3>1. PICK x \in CallSet : more = <<x>>
      BY <2>3
    <3>2. Tail(calls') = Tail(calls)
      BY <1>1, <1>2, <3>1
    <3> QED BY <3>2 DEF StackInv
  <2> QED BY <1>1, <2>2, <2>3 DEF Pushed
<1>6. \A k \in 1 .. Len(calls') : calls'[k].op = "delete" => k = Len(calls')
  BY <1>1, <1>3, LastStays
<1>7. ASSUME NEW y \in Elems(calls'), y.op = "delete" PROVE \A x \in Elems(calls') : x.op \in Ending
  <2>1. y \in Elems(Tail(calls))
    BY <1>3, <1>4, <1>7
  <2>2. \A x \in Elems(calls) : x.op \in Ending
    BY <1>2, <1>7, <2>1 DEF StackInv
  <2>3. \A x \in Elems(more) : x.op \in Ending
    BY <1>1, <1>2, <2>2 DEF Pushed, May
  <2> QED BY <1>2, <1>4, <2>2, <2>3
<1> QED BY <1>4, <1>5, <1>6, <1>7 DEF StackInv

(* A handler starts in order.                                               *)
LEMMA StartStep ==
  ASSUME Starts
  PROVE  calls' \in Seq(CallSet) /\ StackInv'
<1>0. calls' \in Seq(CallSet)
  BY DEF Starts
<1>1. calls' # <<>> => \A x \in Elems(Tail(calls')) : x.op \notin AtOnce
  <2>1. calls' # <<>> => Elems(Tail(calls')) \subseteq Elems(calls')
    BY <1>0, ElemsTail
  <2> QED BY <2>1 DEF Starts
<1>2. CASE \A x \in Elems(calls') : x.op # "delete"
  <2>1. \A k \in 1 .. Len(calls') : calls'[k].op # "delete"
    BY <1>2 DEF Elems
  <2> QED BY <1>0, <1>1, <1>2, <2>1 DEF StackInv
<1>3. CASE calls' = <<Plain("down"), Plain("delete")>>
  <2>1. Plain("down").op = "down" /\ Plain("delete").op = "delete"
    BY DEF Plain, Call
  <2>2. Len(calls') = 2 /\ calls'[1] = Plain("down") /\ calls'[2] = Plain("delete")
        /\ Elems(calls') = {Plain("down"), Plain("delete")}
    BY <1>3 DEF Elems
  <2>3. "down" \in Ending /\ "delete" \in Ending /\ "down" # "delete"
    BY DEF Ending
  <2>4. \A k \in 1 .. Len(calls') : calls'[k].op = "delete" => k = Len(calls')
    BY <2>1, <2>2, <2>3
  <2> QED BY <1>0, <1>1, <2>1, <2>2, <2>3, <2>4 DEF StackInv
<1> QED BY <1>2, <1>3 DEF Starts

(* What every step does to the calls.                                       *)
LEMMA StackStep ==
  ASSUME LinkTypes, SessTypes, CallTypes, StackInv, [Next]_vars
  PROVE  calls' \in Seq(CallSet) /\ StackInv'
<1>1. CASE Calls
  BY <1>1, CallLeaves, PushStep
<1>2. CASE calls' = calls
  BY <1>2 DEF CallTypes, StackInv
<1>3. CASE Timers \/ Requests \/ Reap
  BY <1>2, <1>3, RequestStarts, StartStep
<1>4. ASSUME NEW p \in Pids, ProcessEnds(p) PROVE calls' = calls
  BY <1>4 DEF ProcessEnds
<1> QED BY <1>1, <1>2, <1>3, <1>4 DEF Next, vars

-----------------------------------------------------------------------------
(* The processes.  Each has one owner: a child, a session, the helper or    *)
(* the watch of the link, ...                                               *)
OneOwner ==
  /\ \A c, d \in children : c.pid = d.pid => c = d
  /\ \A c, d \in Sessions : sess[c].pid = sess[d].pid /\ sess[c].pid # None => c = d
  /\ \A c \in children : c.pid # link.helper /\ c.pid # link.watch
  /\ \A c \in Sessions : sess[c].pid # None =>
        /\ sess[c].stage = "running"
        /\ sess[c].pid # link.helper /\ sess[c].pid # link.watch
        /\ \A d \in children : d.pid # sess[c].pid
  /\ link.helper # None => link.phase = "stage"
  /\ link.watch # None => link.phase = "up"

(* ... or a list of those that are told to leave, and never both, ...       *)
Accounted ==
  \A p \in Pids : /\ proc[p].st # "free" => p \in InUse \/ p \in Listed
                  /\ p \in InUse => proc[p].st # "free" /\ p \notin Listed

(* ... and a process of a start, of its end or of a deletion that still     *)
(* runs is in use or the next command waits for it.                         *)
OfStart == {"stage", "watch", "stop", "delete"}

RolesKept ==
  /\ \A c \in children : proc[c.pid].role \in {"check", "deliver"}
  /\ \A c \in Sessions : sess[c].pid # None => proc[sess[c].pid].role = "session"
  /\ \A p \in Pids : proc[p].st = "run" /\ proc[p].role \in OfStart =>
        p \in reaping \/ p = link.helper \/ p = link.watch

ProcInv == OneOwner /\ Accounted /\ RolesKept

(* The value for nobody is no process, waiter or session.                   *)
LEMMA NoneIsNone == None \notin Pids /\ None \notin Waiters /\ None \notin Sessions
BY RuntimesAssumption

(* The owners' numbers are processes, or nobody.                            *)
LEMMA PidsAre ==
  ASSUME LinkTypes
  PROVE  /\ \A c \in children : c.pid \in Pids /\ c.pid # None
         /\ link.helper \in Pids \cup {None} /\ link.watch \in Pids \cup {None}
         /\ \A p \in Pids : proc[p].st \in {"free", "run", "zombie"} /\ proc[p].role \in RolesOf
         /\ Listed \subseteq Pids
BY NoneIsNone DEF LinkTypes, ChildSet, Links, Procs, Listed

(* What is in use, one owner after another.                                 *)
Used(p) == \/ \E c \in children : c.pid = p
           \/ p = link.helper \/ p = link.watch
           \/ \E c \in Sessions : sess[c].pid = p

(* InUse, owner by owner.                                                   *)
LEMMA InUseIs == \A p \in Pids : p \in InUse <=> Used(p)
BY NoneIsNone DEF InUse, Helpers, Used

AccountedAt(p) == /\ proc[p].st # "free" => Used(p) \/ p \in Listed
                  /\ Used(p) => proc[p].st # "free" /\ p \notin Listed

(* The accounts, process by process, ...                                    *)
LEMMA AccountedIs == Accounted <=> \A p \in Pids : AccountedAt(p)
BY InUseIs DEF Accounted, AccountedAt

(* ... and after a step.                                                    *)
LEMMA AccountedIsNext == Accounted' <=> \A p \in Pids : AccountedAt(p)'
<1>1. \A p \in Pids : (p \in InUse)' <=> Used(p)'
  BY NoneIsNone DEF InUse, Helpers, Used
<1> QED BY <1>1 DEF Accounted, AccountedAt

(* What waiting for some processes and starting one do to the others.       *)
LEMMA WaitedIs ==
  ASSUME LinkTypes, NEW ps
  PROVE  /\ Waited(ps) \in [Pids -> Procs]
         /\ \A p \in Pids : Waited(ps)[p] = IF p \in ps /\ proc[p].st = "zombie" THEN NoProc ELSE proc[p]
         /\ \A p \in Pids : p \in Running(ps) <=> p \in ps /\ proc[p].st = "run"
         /\ NoProc.st = "free" /\ NoProc.role = "none"
<1>1. NoProc \in Procs /\ NoProc.st = "free" /\ NoProc.role = "none"
  BY DEF NoProc, Procs, RolesOf
<1>2. \A p \in Pids : Waited(ps)[p] = IF p \in ps /\ proc[p].st = "zombie" THEN NoProc ELSE proc[p]
  BY DEF Waited
<1>3. Waited(ps) \in [Pids -> Procs]
  BY <1>1, <1>2 DEF Waited, LinkTypes
<1>4. \A p \in Pids : p \in Running(ps) <=> p \in ps /\ proc[p].st = "run"
  BY NoneIsNone DEF Running
<1> QED BY <1>1, <1>2, <1>3, <1>4

(* A process that starts, and the others.                                   *)
LEMMA SpawnedIs ==
  ASSUME LinkTypes, NEW n \in Pids, NEW role \in RolesOf
  PROVE  /\ Spawned(n, role) \in [Pids -> Procs]
         /\ Spawned(n, role)[n].st = "run" /\ Spawned(n, role)[n].role = role
         /\ \A p \in Pids : p # n => Spawned(n, role)[p] = proc[p]
BY DEF Spawned, LinkTypes, Procs

(* Steps that neither start nor drop a process.                             *)
LEMMA ProcStill ==
  ASSUME ProcInv, children' = children, proc' = proc,
         link'.helper = link.helper, link'.watch = link.watch,
         link.helper # None => link'.phase = "stage",
         link.watch # None => link'.phase = "up",
         Listed' = Listed, reaping' = reaping,
         \A c \in Sessions : /\ sess'[c].pid = sess[c].pid
                             /\ sess[c].pid # None => sess'[c].stage = sess[c].stage
  PROVE  ProcInv'
<1>1. OneOwner'
  BY DEF ProcInv, OneOwner
<1>2. \A p \in Pids : AccountedAt(p)'
  BY AccountedIs DEF ProcInv, AccountedAt, Used
<1>3. RolesKept'
  BY DEF ProcInv, RolesKept
<1> QED BY <1>1, <1>2, <1>3, AccountedIsNext DEF ProcInv

(* A child, a helper or a watch starts.                                     *)
LEMMA ChildStarts ==
  ASSUME LinkTypes, SessTypes, ProcInv, Free # {}, NEW job \in {"check", "deliver"}, NEW who,
         Child(NewPid, job, who) \in ChildSet, Spawns(job, who),
         UNCHANGED <<link, sess, reaping, dying, cleaning, leaving, queue>>
  PROVE  LinkTypes' /\ ProcInv'
<1> DEFINE n == NewPid
           c0 == Child(n, job, who)
<1>1. n \in Pids /\ n # None /\ proc[n].st = "free" /\ n \notin Listed
  BY NewPidIs
<1>2. children' = children \cup {c0} /\ c0.pid = n /\ proc' = Spawned(n, job)
  BY DEF Spawns, Child
<1> HIDE DEF n, c0
<1>3. job \in RolesOf
  BY DEF RolesOf
<1>4. /\ proc' \in [Pids -> Procs] /\ proc'[n].st = "run" /\ proc'[n].role = job
      /\ \A p \in Pids : p # n => proc'[p] = proc[p]
  BY <1>1, <1>2, <1>3, SpawnedIs
<1>5. LinkTypes'
  <2>1. IsFiniteSet(children')
    BY <1>2, FS_AddElement DEF LinkTypes
  <2>2. children' \subseteq ChildSet
    BY <1>2 DEF LinkTypes, c0, n
  <2> QED BY <1>4, <2>1, <2>2 DEF LinkTypes
<1>6. ~Used(n)
  BY <1>1, AccountedIs DEF ProcInv, AccountedAt
<1>7. OneOwner'
  BY <1>1, <1>2, <1>6 DEF ProcInv, OneOwner, Used
<1>8. ASSUME NEW p \in Pids PROVE AccountedAt(p)'
  <2>1. CASE p = n
    BY <1>1, <1>2, <1>4, <2>1 DEF AccountedAt, Used, Listed
  <2>2. CASE p # n
    <3>1. AccountedAt(p) /\ (Used(p)' <=> Used(p)) /\ proc'[p] = proc[p]
      BY <1>2, <1>4, <2>2, AccountedIs DEF ProcInv, Used
    <3> QED BY <3>1 DEF AccountedAt, Listed
  <2> QED BY <2>1, <2>2
<1>9. RolesKept'
  <2>1. \A c \in children' : proc'[c.pid].role \in {"check", "deliver"}
    BY <1>2, <1>4, <1>6, PidsAre DEF ProcInv, RolesKept, Used
  <2>2. \A c \in Sessions : sess'[c].pid # None => proc'[sess'[c].pid].role = "session"
    <3>1. \A c \in Sessions : sess[c].pid # None => sess[c].pid # n
      BY <1>6 DEF Used
    <3>2. \A c \in Sessions : sess'[c] = sess[c] /\ sess[c].pid \in Pids \cup {None}
      BY DEF SessTypes, Sess
    <3> QED BY <1>4, <3>1, <3>2 DEF ProcInv, RolesKept
  <2>3. \A p \in Pids : proc'[p].st = "run" /\ proc'[p].role \in OfStart =>
          p \in reaping \/ p = link.helper \/ p = link.watch
    BY <1>4 DEF ProcInv, RolesKept, OfStart
  <2> QED BY <2>1, <2>2, <2>3 DEF RolesKept
<1> QED BY <1>5, <1>7, <1>8, <1>9, AccountedIsNext DEF ProcInv

(* Processes leave their owners, for the lists or for good: those of D are  *)
(* waited for.  A cleanup command may start, which the next one waits for.  *)
LEMMA ProcDrops ==
  ASSUME LinkTypes, SessTypes, ProcInv, NEW D, NEW new, new \subseteq Free,
         \A p \in new : proc'[p].st = "run" /\ p \in reaping',
         \A p \in Pids \ new : proc'[p] = Waited(D)[p],
         children' \subseteq children,
         link'.helper \in {link.helper, None}, link'.watch \in {link.watch, None},
         link'.helper # None => link'.phase = "stage", link'.watch # None => link'.phase = "up",
         \A c \in Sessions : sess'[c].pid # None => sess'[c].pid = sess[c].pid /\ sess'[c].stage = "running",
         \A p \in Pids : Used(p) /\ proc[p].st = "run" => Used(p)' \/ p \in Listed',
         \A p \in Pids : Used(p) => Used(p)' \/ p \in D,
         \A p \in Pids : Used(p)' => p \notin D,
         \A p \in Listed : p \in Listed' \/ (p \in D /\ proc[p].st # "run"),
         \A p \in Listed' : p \in Listed \cup D \cup new,
         \A p \in Pids : proc[p].st = "run" /\ (p \in reaping \/ p = link.helper \/ p = link.watch)
                         => p \in reaping' \/ p = link'.helper \/ p = link'.watch
  PROVE  ProcInv'
<1>1. \A p \in Pids : Used(p)' => Used(p)
  <2>1. \A p \in Pids : p # None
    BY NoneIsNone
  <2> QED BY <2>1 DEF Used
<1>2. \A p \in new : p \in Pids /\ proc[p].st = "free" /\ p \notin Listed /\ ~Used(p)
  BY AccountedIs DEF ProcInv, AccountedAt, Free
<1>3. \A p \in Pids \ new : proc'[p] = IF p \in D /\ proc[p].st = "zombie" THEN NoProc ELSE proc[p]
  BY WaitedIs
<1>4. NoProc.st = "free" /\ NoProc.role = "none"
  BY DEF NoProc
<1>5. OneOwner'
  <2>1. /\ \A c, d \in children' : c.pid = d.pid => c = d
        /\ \A c \in children' : c.pid # link'.helper /\ c.pid # link'.watch
    BY PidsAre DEF ProcInv, OneOwner
  <2>2. \A c, d \in Sessions : sess'[c].pid = sess'[d].pid /\ sess'[c].pid # None => c = d
    BY DEF ProcInv, OneOwner
  <2>3. \A c \in Sessions : sess'[c].pid # None =>
        /\ sess'[c].stage = "running"
        /\ sess'[c].pid # link'.helper /\ sess'[c].pid # link'.watch
        /\ \A d \in children' : d.pid # sess'[c].pid
    BY DEF ProcInv, OneOwner
  <2> QED BY <2>1, <2>2, <2>3 DEF OneOwner
<1>6. ASSUME NEW p \in Pids PROVE AccountedAt(p)'
  <2>1. CASE p \in new
    BY <1>1, <1>2, <2>1 DEF AccountedAt, Listed
  <2>2. CASE p \notin new
    <3>1. AccountedAt(p) /\ proc[p].st \in {"free", "run", "zombie"}
      BY AccountedIs, PidsAre DEF ProcInv
    <3>2. proc'[p] = IF p \in D /\ proc[p].st = "zombie" THEN NoProc ELSE proc[p]
      BY <1>3, <2>2
    <3>3. ASSUME proc'[p].st # "free" PROVE Used(p)' \/ p \in Listed'
      <4>1. proc[p].st = "run" \/ (proc[p].st = "zombie" /\ p \notin D)
        BY <1>4, <3>1, <3>2, <3>3
      <4>2. Used(p) \/ p \in Listed
        BY <3>1, <4>1 DEF AccountedAt
      <4> QED BY <4>1, <4>2
    <3>4. ASSUME Used(p)' PROVE proc'[p].st # "free" /\ p \notin Listed'
      <4>1. Used(p) /\ p \notin D
        BY <1>1, <3>4
      <4> QED BY <2>2, <3>1, <3>2, <4>1 DEF AccountedAt
    <3> QED BY <3>3, <3>4 DEF AccountedAt
  <2> QED BY <2>1, <2>2
<1>7. RolesKept'
  <2>1. \A p \in Pids : Used(p)' => proc'[p] = proc[p]
    BY <1>1, <1>2, <1>3
  <2>2. \A c \in children' : proc'[c.pid].role \in {"check", "deliver"}
    <3>1. \A c \in children' : c.pid \in Pids /\ Used(c.pid)'
      BY PidsAre DEF Used
    <3> QED BY <2>1, <3>1 DEF ProcInv, RolesKept
  <2>3. \A c \in Sessions : sess'[c].pid # None => proc'[sess'[c].pid].role = "session"
    <3> SUFFICES ASSUME NEW c \in Sessions, sess'[c].pid # None
                 PROVE  proc'[sess'[c].pid].role = "session"
      OBVIOUS
    <3>1. sess'[c].pid = sess[c].pid
      OBVIOUS
    <3>2. sess[c].pid \in Pids
      BY <3>1 DEF SessTypes, Sess
    <3>3. Used(sess[c].pid)'
      BY <3>1 DEF Used
    <3> QED BY <2>1, <3>1, <3>2, <3>3 DEF ProcInv, RolesKept
  <2>4. ASSUME NEW p \in Pids, proc'[p].st = "run", proc'[p].role \in OfStart
        PROVE  p \in reaping' \/ p = link'.helper \/ p = link'.watch
    <3>1. CASE p \in new
      BY <3>1
    <3>2. CASE p \notin new
      <4>1. proc'[p] = proc[p]
        BY <1>3, <1>4, <2>4, <3>2
      <4> QED BY <2>4, <4>1 DEF ProcInv, RolesKept
    <3> QED BY <3>1, <3>2
  <2> QED BY <2>2, <2>3, <2>4 DEF RolesKept
<1> QED BY <1>5, <1>6, <1>7, AccountedIsNext DEF ProcInv

(* The same when no command starts.                                         *)
LEMMA ProcLoses ==
  ASSUME LinkTypes, SessTypes, ProcInv, NEW D, \A p \in Pids : proc'[p] = Waited(D)[p],
         children' \subseteq children,
         link'.helper \in {link.helper, None}, link'.watch \in {link.watch, None},
         link'.helper # None => link'.phase = "stage", link'.watch # None => link'.phase = "up",
         \A c \in Sessions : sess'[c].pid # None => sess'[c].pid = sess[c].pid /\ sess'[c].stage = "running",
         \A p \in Pids : Used(p) /\ proc[p].st = "run" => Used(p)' \/ p \in Listed',
         \A p \in Pids : Used(p) => Used(p)' \/ p \in D,
         \A p \in Pids : Used(p)' => p \notin D,
         \A p \in Listed : p \in Listed' \/ (p \in D /\ proc[p].st # "run"),
         \A p \in Listed' : p \in Listed \cup D,
         \A p \in Pids : proc[p].st = "run" /\ (p \in reaping \/ p = link.helper \/ p = link.watch)
                         => p \in reaping' \/ p = link'.helper \/ p = link'.watch
  PROVE  ProcInv'
<1> DEFINE none == {}
<1>1. none \subseteq Free /\ \A p : p \notin none
  OBVIOUS
<1> HIDE DEF none
<1>2. /\ \A p \in none : proc'[p].st = "run" /\ p \in reaping'
      /\ \A p \in Pids \ none : proc'[p] = Waited(D)[p]
      /\ \A p \in Listed' : p \in Listed \cup D \cup none
  BY <1>1
<1> QED BY <1>1, <1>2, ProcDrops

(* The link's own process starts, and a session's.                          *)
LEMMA LinkStarts ==
  ASSUME LinkTypes, SessTypes, ProcInv, Free # {}, link.phase = "cleaning",
         NEW role \in {"stage", "watch"}, proc' = Spawned(NewPid, role),
         \/ link'.helper = NewPid /\ link'.watch = link.watch /\ link'.phase = "stage"
         \/ link'.watch = NewPid /\ link'.helper = link.helper /\ link'.phase = "up",
         UNCHANGED <<children, sess, reaping, dying, cleaning, leaving>>
  PROVE  ProcInv'
<1> DEFINE n == NewPid
<1>1. n \in Pids /\ n # None /\ proc[n].st = "free" /\ n \notin Listed
  BY NewPidIs
<1>2. role \in RolesOf
  BY DEF RolesOf
<1>3. /\ proc'[n].st = "run" /\ proc'[n].role = role
      /\ \A p \in Pids : p # n => proc'[p] = proc[p]
  BY <1>1, <1>2, SpawnedIs
<1>4. link.helper = None /\ link.watch = None
  BY DEF ProcInv, OneOwner
<1>5. ~Used(n)
  BY <1>1, AccountedIs DEF ProcInv, AccountedAt
<1> HIDE DEF n
<1>6. \/ link'.helper = n /\ link'.watch = None /\ link'.phase = "stage"
      \/ link'.watch = n /\ link'.helper = None /\ link'.phase = "up"
  BY <1>4 DEF n
<1>7. OneOwner'
  BY <1>1, <1>5, <1>6, NoneIsNone DEF ProcInv, OneOwner, Used, LinkTypes, ChildSet
<1>8. ASSUME NEW p \in Pids PROVE AccountedAt(p)'
  <2>1. CASE p = n
    BY <1>1, <1>3, <1>6, <2>1 DEF AccountedAt, Used, Listed
  <2>2. CASE p # n
    <3>1. AccountedAt(p) /\ (Used(p)' <=> Used(p)) /\ proc'[p] = proc[p]
      BY <1>3, <1>4, <1>6, <2>2, AccountedIs, NoneIsNone DEF ProcInv, Used
    <3> QED BY <3>1 DEF AccountedAt, Listed
  <2> QED BY <2>1, <2>2
<1>9. RolesKept'
  <2>1. \A c \in children : c.pid \in Pids /\ c.pid # n
    BY <1>5, PidsAre DEF Used
  <2>2. \A c \in Sessions : sess[c].pid # None => sess[c].pid \in Pids /\ sess[c].pid # n
    BY <1>5 DEF Used, SessTypes, Sess
  <2> QED BY <1>1, <1>3, <1>4, <1>6, <2>1, <2>2, NoneIsNone DEF ProcInv, RolesKept
<1> QED BY <1>7, <1>8, <1>9, AccountedIsNext DEF ProcInv

(* The helper of a session that was queued starts.                          *)
LEMMA SessionStarts ==
  ASSUME LinkTypes, SessTypes, ProcInv, Free # {}, NEW c0 \in Sessions, Queued(c0),
         proc' = Spawned(NewPid, "session"),
         sess'[c0].pid = NewPid, sess'[c0].stage = "running",
         \A c \in Sessions \ {c0} : sess'[c] = sess[c],
         UNCHANGED <<link, children, reaping, dying, cleaning, leaving>>
  PROVE  ProcInv'
<1> DEFINE n == NewPid
<1>1. n \in Pids /\ n # None /\ proc[n].st = "free" /\ n \notin Listed
  BY NewPidIs
<1>2. /\ proc'[n].st = "run" /\ proc'[n].role = "session"
      /\ \A p \in Pids : p # n => proc'[p] = proc[p]
  BY <1>1, SpawnedIs DEF RolesOf
<1>3. ~Used(n)
  BY <1>1, AccountedIs DEF ProcInv, AccountedAt
<1>4. sess[c0].pid = None
  BY DEF ProcInv, OneOwner, Queued
<1> HIDE DEF n
<1>5. sess'[c0].pid = n
  BY DEF n
<1>6. \A c \in children : c.pid \in Pids /\ c.pid # n
  BY <1>3, PidsAre DEF Used
<1>7. \A c \in Sessions : sess[c].pid # None => sess[c].pid \in Pids /\ sess[c].pid # n
  BY <1>3 DEF Used, SessTypes, Sess
<1>8. OneOwner'
  <2>1. \A c, d \in Sessions : sess'[c].pid = sess'[d].pid /\ sess'[c].pid # None => c = d
    BY <1>1, <1>5, <1>7 DEF ProcInv, OneOwner
  <2>2. \A c \in Sessions : sess'[c].pid # None =>
        /\ sess'[c].stage = "running"
        /\ sess'[c].pid # link'.helper /\ sess'[c].pid # link'.watch
        /\ \A d \in children' : d.pid # sess'[c].pid
    BY <1>3, <1>5, <1>6, <1>7 DEF ProcInv, OneOwner, Used
  <2> QED BY <2>1, <2>2 DEF ProcInv, OneOwner
<1>9. ASSUME NEW p \in Pids PROVE AccountedAt(p)'
  <2>1. CASE p = n
    BY <1>1, <1>2, <1>5, <2>1 DEF AccountedAt, Used, Listed
  <2>2. CASE p # n
    <3>1. Used(p)' <=> Used(p)
      BY <1>4, <1>5, <2>2, NoneIsNone DEF Used
    <3>2. AccountedAt(p) /\ proc'[p] = proc[p]
      BY <1>2, <2>2, AccountedIs DEF ProcInv
    <3> QED BY <3>1, <3>2 DEF AccountedAt, Listed
  <2> QED BY <2>1, <2>2
<1>10. RolesKept'
  <2>1. \A c \in children' : proc'[c.pid].role \in {"check", "deliver"}
    BY <1>2, <1>6 DEF ProcInv, RolesKept
  <2>2. \A c \in Sessions : sess'[c].pid # None => proc'[sess'[c].pid].role = "session"
    BY <1>2, <1>5, <1>7 DEF ProcInv, RolesKept
  <2>3. \A p \in Pids : proc'[p].st = "run" /\ proc'[p].role \in OfStart =>
          p \in reaping \/ p = link.helper \/ p = link.watch
    BY <1>2 DEF ProcInv, RolesKept, OfStart
  <2> QED BY <2>1, <2>2, <2>3 DEF RolesKept
<1> QED BY <1>8, <1>9, <1>10, AccountedIsNext DEF ProcInv

(* A cleanup command starts, or waits for those before it.                  *)
Driven(commands, before, after, new) ==
  /\ queue' \in Seq({"stop", "delete"}) /\ reaping' = Running(before) \cup new
  /\ cleaning' = cleaning \cup new
  /\ proc' \in [Pids -> Procs]
  /\ \A p \in new : proc'[p].st = "run"
  /\ \A p \in Pids \ new : proc'[p] = after[p]
  /\ commands = <<>> => queue' = <<>> /\ new = {}

(* What a drive of the cleanup queue does to the processes.                 *)
LEMMA DriveIs ==
  ASSUME LinkTypes, NEW commands \in Seq({"stop", "delete"}), NEW before \in SUBSET Pids,
         NEW after \in [Pids -> Procs], Drive(commands, before, after)
  PROVE  \E new \in SUBSET Free : Driven(commands, before, after, new)
<1> DEFINE still == Running(before)
           next == still = {} /\ commands # <<>>
<1>1. PICK new \in IF next THEN Attempts ELSE {{}} :
      /\ queue' = IF next THEN Tail(commands) ELSE commands
      /\ reaping' = still \cup new
      /\ cleaning' = cleaning \cup new
      /\ proc' = [p \in Pids |-> IF p \in new THEN [role |-> Head(commands), st |-> "run"] ELSE after[p]]
  BY DEF Drive
<1>2. new \in SUBSET Free /\ (~next => new = {})
  BY NewPidIs DEF Attempts, Free
<1>3. next => Head(commands) \in {"stop", "delete"} /\ Tail(commands) \in Seq({"stop", "delete"})
  OBVIOUS
<1>4. proc' \in [Pids -> Procs]
  <2>2. next => [role |-> Head(commands), st |-> "run"] \in Procs
    BY <1>3 DEF Procs, RolesOf
  <2> QED BY <1>1, <2>2
<1>5. \A p \in new : proc'[p].st = "run"
  BY <1>1, <1>2 DEF Free
<1>6. \A p \in Pids \ new : proc'[p] = after[p]
  BY <1>1
<1>7. queue' \in Seq({"stop", "delete"})
  BY <1>1, <1>3
<1>8. commands = <<>> => queue' = <<>> /\ new = {}
  BY <1>1, <1>2
<1> HIDE DEF still, next
<1>9. reaping' = Running(before) \cup new
  BY <1>1 DEF still
<1> QED BY <1>1, <1>2, <1>4, <1>5, <1>6, <1>7, <1>8, <1>9 DEF Driven

(* What the link runs ends: its helpers are told to leave, and the stop     *)
(* command waits for them.                                                  *)
LEMMA EndProc ==
  ASSUME LinkTypes, SessTypes, ProcInv, NEW after \in Links, after.helper = None, after.watch = None,
         End(after), UNCHANGED <<leaving, sess>>
  PROVE  LinkTypes' /\ ProcInv'
<1> DEFINE run == Running(Helpers)
           D == Helpers \cup reaping
<1>1. Helpers \subseteq Pids
  BY PidsAre, NoneIsNone DEF Helpers
<1>2. \A p : p \in Helpers <=> (\E c \in children : c.pid = p) \/ (p # None /\ (p = link.helper \/ p = link.watch))
  BY DEF Helpers
<1>3. run \in SUBSET Pids /\ \A p \in Pids : p \in run <=> p \in Helpers /\ proc[p].st = "run"
  BY <1>1, WaitedIs DEF Running
<1>4. /\ link' = after /\ children' = {} /\ dying' = dying \cup run
      /\ Drive(Append(queue, "stop"), reaping \cup run, Waited(D))
  BY DEF End
<1>5. Append(queue, "stop") \in Seq({"stop", "delete"}) /\ reaping \cup run \in SUBSET Pids
  BY <1>3 DEF LinkTypes
<1> HIDE DEF run, D
<1>10a. Waited(D) \in [Pids -> Procs]
  BY WaitedIs
<1>10b. PICK new \in SUBSET Free : Driven(Append(queue, "stop"), reaping \cup run, Waited(D), new)
  BY <1>4, <1>5, <1>10a, DriveIs
<1>6. /\ queue' \in Seq({"stop", "delete"}) /\ reaping' = Running(reaping \cup run) \cup new
      /\ cleaning' = cleaning \cup new
      /\ proc' \in [Pids -> Procs]
      /\ \A p \in new : proc'[p].st = "run"
      /\ \A p \in Pids \ new : proc'[p] = Waited(D)[p]
  BY <1>10b DEF Driven
<1>7. new \subseteq Pids
  BY DEF Free
<1>8. \A p \in Pids : p \in Running(reaping \cup run) <=> p \in reaping \cup run /\ proc[p].st = "run"
  BY WaitedIs
<1>9. LinkTypes'
  <2>1. reaping' \subseteq Pids /\ dying' \subseteq Pids /\ cleaning' \subseteq Pids /\ leaving' \subseteq Pids
    BY <1>3, <1>4, <1>6, <1>7 DEF LinkTypes, Running
  <2> QED BY <1>4, <1>6, <2>1, FS_EmptySet DEF LinkTypes
<1>10. \A p \in Pids : Used(p) <=> p \in Helpers \/ \E c \in Sessions : sess[c].pid = p
  BY <1>2, NoneIsNone DEF Used
<1>11. \A p \in Pids : Used(p)' <=> \E c \in Sessions : sess[c].pid = p
  BY <1>4, NoneIsNone DEF Used
<1>12. \A p \in D : p \in Pids /\ (p \in Helpers \/ p \in reaping)
  BY <1>1 DEF D, LinkTypes
<1>13. \A c \in Sessions : sess[c].pid # None => sess[c].pid \notin Helpers
  BY <1>2 DEF ProcInv, OneOwner
<1>14. \A p \in Pids : Used(p) => p \notin Listed
  BY AccountedIs DEF ProcInv, AccountedAt
<1>15. Listed' = leaving \cup (dying \cup run) \cup (cleaning \cup new) \cup (Running(reaping \cup run) \cup new)
  BY <1>4, <1>6 DEF Listed
<1>16. ProcInv'
  <2>1. \A p \in Pids : Used(p) /\ proc[p].st = "run" => Used(p)' \/ p \in Listed'
    BY <1>3, <1>10, <1>11, <1>15
  <2>2. \A p \in Pids : Used(p) => Used(p)' \/ p \in D
    BY <1>10, <1>11 DEF D
  <2>3. \A p \in Pids : Used(p)' => p \notin D
    BY <1>10, <1>11, <1>12, <1>13, <1>14, NoneIsNone DEF Listed
  <2>4. \A p \in Listed : p \in Listed' \/ (p \in D /\ proc[p].st # "run")
    <3>1. \A p \in reaping : p \in Pids
      BY DEF LinkTypes
    <3> QED BY <1>8, <1>15, <3>1 DEF Listed, D
  <2>5. \A p \in Listed' : p \in Listed \cup D \cup new
    <3>1. \A p \in Running(reaping \cup run) : p \in reaping \cup run
      BY DEF Running
    <3>2. \A p \in run : p \in D
      BY <1>3 DEF D
    <3> QED BY <1>15, <3>1, <3>2 DEF Listed
  <2>6. \A p \in Pids : proc[p].st = "run" /\ (p \in reaping \/ p = link.helper \/ p = link.watch)
                         => p \in reaping' \/ p = link'.helper \/ p = link'.watch
    BY <1>2, <1>3, <1>6, <1>8, NoneIsNone
  <2>7. \A p \in new : proc'[p].st = "run" /\ p \in reaping'
    BY <1>6
  <2>8. \A c \in Sessions : sess'[c].pid # None => sess'[c].pid = sess[c].pid /\ sess'[c].stage = "running"
    BY DEF ProcInv, OneOwner
  <2> QED BY <1>4, <1>6, <2>1, <2>2, <2>3, <2>4, <2>5, <2>6, <2>7, <2>8, ProcDrops
<1> QED BY <1>9, <1>16

(* A cleanup command is driven, and the link stays.                         *)
LEMMA DriveProc ==
  ASSUME LinkTypes, SessTypes, ProcInv, NEW commands \in Seq({"stop", "delete"}),
         Drive(commands, reaping, Waited(reaping)), UNCHANGED <<link, children, dying, leaving, sess>>
  PROVE  LinkTypes' /\ ProcInv'
<1>1. reaping \in SUBSET Pids
  BY DEF LinkTypes
<1>10a. Waited(reaping) \in [Pids -> Procs]
  BY WaitedIs
<1>10b. PICK new \in SUBSET Free : Driven(commands, reaping, Waited(reaping), new)
  BY <1>1, <1>10a, DriveIs
<1>2. /\ queue' \in Seq({"stop", "delete"}) /\ reaping' = Running(reaping) \cup new
      /\ cleaning' = cleaning \cup new
      /\ proc' \in [Pids -> Procs]
      /\ \A p \in new : proc'[p].st = "run"
      /\ \A p \in Pids \ new : proc'[p] = Waited(reaping)[p]
  BY <1>10b DEF Driven
<1>3. new \subseteq Pids
  BY DEF Free
<1>4. LinkTypes'
  BY <1>2, <1>3 DEF LinkTypes, Running
<1>5. \A p \in Pids : p \in Running(reaping) <=> p \in reaping /\ proc[p].st = "run"
  BY WaitedIs
<1>6. Listed' = leaving \cup dying \cup (cleaning \cup new) \cup (Running(reaping) \cup new)
  BY <1>2 DEF Listed
<1>7. \A p \in Pids : Used(p)' <=> Used(p)
  BY DEF Used
<1>8. \A p \in Pids : Used(p)' => p \notin reaping
  BY <1>7, AccountedIs DEF ProcInv, AccountedAt, Listed
<1>9. \A p \in Listed : p \in Listed' \/ (p \in reaping /\ proc[p].st # "run")
  BY <1>1, <1>5, <1>6 DEF Listed
<1>10. \A p \in Listed' : p \in Listed \cup reaping \cup new
  BY <1>6 DEF Listed, Running
<1>11. \A p \in Pids : proc[p].st = "run" /\ (p \in reaping \/ p = link.helper \/ p = link.watch)
                         => p \in reaping' \/ p = link'.helper \/ p = link'.watch
  BY <1>2, <1>5
<1>12. \A p \in new : proc'[p].st = "run" /\ p \in reaping'
  BY <1>2
<1>13. \A c \in Sessions : sess'[c].pid # None => sess'[c].pid = sess[c].pid /\ sess'[c].stage = "running"
  BY DEF ProcInv, OneOwner
<1>14. /\ link'.helper # None => link'.phase = "stage"
       /\ link'.watch # None => link'.phase = "up"
       /\ children' \subseteq children
       /\ link'.helper \in {link.helper, None} /\ link'.watch \in {link.watch, None}
  BY DEF ProcInv, OneOwner
<1> QED BY <1>2, <1>4, <1>7, <1>8, <1>9, <1>10, <1>11, <1>12, <1>13, <1>14, ProcDrops

(* Children leave the list: those that run are told to leave.               *)
LEMMA ChildrenDrop ==
  ASSUME LinkTypes, SessTypes, ProcInv, NEW gone \in SUBSET children,
         children' = children \ gone, proc' = Waited({c.pid : c \in gone}),
         \/ dying' = dying \cup Running({c.pid : c \in gone})
         \/ dying' = dying /\ \A c \in gone : proc[c.pid].st # "run",
         UNCHANGED <<link, sess, queue, reaping, cleaning, leaving>>
  PROVE  LinkTypes' /\ ProcInv'
<1> DEFINE D == {c.pid : c \in gone}
<1>1. D \subseteq Pids /\ D = {c.pid : c \in gone}
  BY PidsAre
<1> HIDE DEF D
<1>2. /\ Waited(D) \in [Pids -> Procs]
      /\ \A p \in Pids : p \in Running(D) <=> p \in D /\ proc[p].st = "run"
  BY WaitedIs
<1>3. proc' = Waited(D) /\ (dying' = dying \cup Running(D) \/ (dying' = dying /\ \A p \in D : proc[p].st # "run"))
  BY <1>1
<1>4. LinkTypes'
  <2>1. dying' \subseteq Pids
    BY <1>1, <1>3 DEF LinkTypes, Running
  <2>2. IsFiniteSet(children')
    BY FS_Subset DEF LinkTypes
  <2> QED BY <1>2, <1>3, <2>1, <2>2 DEF LinkTypes
<1>5. \A p \in Pids : Used(p) => (Used(p)' \/ p \in D)
  BY <1>1 DEF Used
<1>6. \A p \in Pids : Used(p)' => Used(p) /\ p \notin D
  BY <1>1 DEF Used, ProcInv, OneOwner
<1>7. \A p \in Pids : Used(p) /\ proc[p].st = "run" => Used(p)' \/ p \in Listed'
  BY <1>2, <1>3, <1>5 DEF Listed
<1>8. \A p \in Listed : p \in Listed'
  BY <1>3 DEF Listed
<1>9. \A p \in Listed' : p \in Listed \cup D
  BY <1>3 DEF Listed, Running
<1>10. \A c \in Sessions : sess'[c].pid # None => sess'[c].pid = sess[c].pid /\ sess'[c].stage = "running"
  BY DEF ProcInv, OneOwner
<1>11. /\ link'.helper # None => link'.phase = "stage"
       /\ link'.watch # None => link'.phase = "up"
       /\ children' \subseteq children
       /\ link'.helper \in {link.helper, None} /\ link'.watch \in {link.watch, None}
  BY DEF ProcInv, OneOwner
<1>12. \A p \in Pids : proc'[p] = Waited(D)[p]
  BY <1>3
<1> QED BY <1>4, <1>5, <1>6, <1>7, <1>8, <1>9, <1>10, <1>11, <1>12, ProcLoses

(* The helper or the watch of the link ended.                               *)
LEMMA LinkDrops ==
  ASSUME LinkTypes, SessTypes, ProcInv, NEW p0, p0 # None, proc[p0].st = "zombie",
         proc' = Waited({p0}), link' \in Links,
         \/ p0 = link.helper /\ link'.helper = None /\ link'.watch = link.watch
         \/ p0 = link.watch /\ link'.watch = None /\ link'.helper = link.helper,
         p0 = link.watch => link'.phase = link.phase,
         UNCHANGED <<children, sess, queue, reaping, dying, cleaning, leaving>>
  PROVE  LinkTypes' /\ ProcInv'
<1>1. p0 \in Pids
  BY PidsAre
<1>2. Waited({p0}) \in [Pids -> Procs]
  BY WaitedIs
<1>3. LinkTypes'
  BY <1>2 DEF LinkTypes
<1>4. link.helper = None \/ link.watch = None
  BY DEF ProcInv, OneOwner
<1>5. \A p \in Pids : Used(p) => (Used(p)' \/ p \in {p0})
  BY <1>1, <1>4, NoneIsNone DEF Used
<1>6. \A p \in Pids : Used(p)' => p \notin {p0}
  BY <1>1, <1>4, NoneIsNone DEF Used, ProcInv, OneOwner
<1>7. \A p \in Pids : Used(p) /\ proc[p].st = "run" => Used(p)' \/ p \in Listed'
  BY <1>5
<1>8. Listed' = Listed
  BY DEF Listed
<1>9. \A c \in Sessions : sess'[c].pid # None => sess'[c].pid = sess[c].pid /\ sess'[c].stage = "running"
  BY DEF ProcInv, OneOwner
<1>10. /\ link'.helper # None => link'.phase = "stage"
       /\ link'.watch # None => link'.phase = "up"
       /\ children' \subseteq children
       /\ link'.helper \in {link.helper, None} /\ link'.watch \in {link.watch, None}
  BY <1>4 DEF ProcInv, OneOwner
<1>11. \A p \in Pids : proc[p].st = "run" /\ (p \in reaping \/ p = link.helper \/ p = link.watch)
                         => p \in reaping' \/ p = link'.helper \/ p = link'.watch
  BY <1>1, NoneIsNone
<1>12. \A p \in Pids : proc'[p] = Waited({p0})[p]
  OBVIOUS
<1> QED BY <1>3, <1>5, <1>6, <1>7, <1>8, <1>9, <1>10, <1>11, <1>12, ProcLoses

(* The helper of a session ended, or is told to leave.                      *)
LEMMA SessionDrops ==
  ASSUME LinkTypes, SessTypes, ProcInv, NEW c0 \in Sessions,
         proc' = Waited({sess[c0].pid}), sess'[c0].pid = None,
         leaving' = leaving \cup Running({sess[c0].pid})
         \/ (leaving' = leaving /\ Running({sess[c0].pid}) = {}),
         \A c \in Sessions \ {c0} : sess'[c].pid = sess[c].pid /\ sess'[c].stage = sess[c].stage,
         UNCHANGED <<link, children, queue, reaping, dying, cleaning>>
  PROVE  LinkTypes' /\ ProcInv'
<1> DEFINE p0 == sess[c0].pid
<1>1. p0 \in Pids \cup {None}
  BY DEF SessTypes, Sess
<1>2. /\ Waited({p0}) \in [Pids -> Procs]
      /\ \A p \in Pids : p \in Running({p0}) <=> p \in {p0} /\ proc[p].st = "run"
  BY WaitedIs
<1>3. LinkTypes'
  BY <1>1, <1>2 DEF LinkTypes, Running
<1>4. \A c \in Sessions : sess'[c].pid # None => c # c0 /\ sess'[c].pid = sess[c].pid /\ sess'[c].stage = "running"
  BY DEF ProcInv, OneOwner
<1>5. \A p \in Pids : Used(p) => (Used(p)' \/ p \in {p0})
  BY DEF Used
<1>6. \A p \in Pids : Used(p)' => p \notin {p0}
  BY <1>4, NoneIsNone DEF Used, ProcInv, OneOwner
<1>7. \A p \in Pids : Used(p) /\ proc[p].st = "run" => Used(p)' \/ p \in Listed'
  BY <1>2, <1>5 DEF Listed
<1>8. \A p \in Listed : p \in Listed'
  BY DEF Listed
<1>9. \A p \in Listed' : p \in Listed \cup {p0}
  BY DEF Listed, Running
<1>10. /\ link'.helper # None => link'.phase = "stage"
       /\ link'.watch # None => link'.phase = "up"
       /\ children' \subseteq children
       /\ link'.helper \in {link.helper, None} /\ link'.watch \in {link.watch, None}
  BY DEF ProcInv, OneOwner
<1>11. \A p \in Pids : proc'[p] = Waited({p0})[p]
  OBVIOUS
<1> QED BY <1>3, <1>4, <1>5, <1>6, <1>7, <1>8, <1>9, <1>10, <1>11, ProcLoses

(* The processes that were told to leave and ended are gone.                *)
LEMMA LeavingDrops ==
  ASSUME LinkTypes, SessTypes, ProcInv, leaving' = Running(leaving), proc' = Waited(leaving),
         UNCHANGED <<link, children, sess, queue, reaping, dying, cleaning>>
  PROVE  LinkTypes' /\ ProcInv'
<1>1. /\ Waited(leaving) \in [Pids -> Procs]
      /\ \A p \in Pids : p \in Running(leaving) <=> p \in leaving /\ proc[p].st = "run"
  BY WaitedIs
<1>2. LinkTypes'
  BY <1>1 DEF LinkTypes, Running
<1>3. \A p \in Pids : Used(p)' <=> Used(p)
  BY DEF Used
<1>4. \A p \in Pids : Used(p)' => p \notin leaving
  BY <1>3, AccountedIs DEF ProcInv, AccountedAt, Listed
<1>5. \A p \in Listed : p \in Listed' \/ (p \in leaving /\ proc[p].st # "run")
  BY <1>1 DEF Listed, LinkTypes
<1>6. \A p \in Listed' : p \in Listed
  BY DEF Listed, Running
<1>7. \A c \in Sessions : sess'[c].pid # None => sess'[c].pid = sess[c].pid /\ sess'[c].stage = "running"
  BY DEF ProcInv, OneOwner
<1>8. /\ link'.helper # None => link'.phase = "stage"
      /\ link'.watch # None => link'.phase = "up"
      /\ children' \subseteq children
      /\ link'.helper \in {link.helper, None} /\ link'.watch \in {link.watch, None}
  BY DEF ProcInv, OneOwner
<1>9. \A p \in Pids : proc'[p] = Waited(leaving)[p]
  OBVIOUS
<1> QED BY <1>2, <1>3, <1>4, <1>5, <1>6, <1>7, <1>8, <1>9, ProcLoses

(* A process ends, and its owner has not looked.                            *)
LEMMA ProcEnds ==
  ASSUME LinkTypes, SessTypes, ProcInv, NEW p0 \in Pids, ProcessEnds(p0)
  PROVE  LinkTypes' /\ ProcInv'
<1>1. /\ proc[p0].st = "run" /\ proc' = [proc EXCEPT ![p0].st = "zombie"]
      /\ UNCHANGED <<link, children, dying, cleaning, queue, reaping, leaving, sess>>
  BY DEF ProcessEnds, registry, cleanup, execs
<1>2. /\ proc' \in [Pids -> Procs] /\ proc'[p0].st = "zombie"
      /\ \A p \in Pids : proc'[p].role = proc[p].role /\ (p # p0 => proc'[p] = proc[p])
  BY <1>1 DEF LinkTypes, Procs
<1>3. LinkTypes'
  BY <1>1, <1>2 DEF LinkTypes
<1>4. OneOwner'
  BY <1>1 DEF ProcInv, OneOwner
<1>5. ASSUME NEW p \in Pids PROVE AccountedAt(p)'
  BY <1>1, <1>2, AccountedIs DEF ProcInv, AccountedAt, Used, Listed
<1>6. RolesKept'
  <2>1. \A c \in children : c.pid \in Pids
    BY PidsAre
  <2>2. \A c \in Sessions : sess[c].pid # None => sess[c].pid \in Pids
    BY DEF SessTypes, Sess
  <2>3. \A p \in Pids : proc'[p].st = "run" => proc'[p] = proc[p]
    BY <1>1, <1>2
  <2> QED BY <1>1, <1>2, <2>1, <2>2, <2>3 DEF ProcInv, RolesKept
<1> QED BY <1>3, <1>4, <1>5, <1>6, AccountedIsNext DEF ProcInv

-----------------------------------------------------------------------------
(* What the calls at hand rely on.  A session whose helper was waited for   *)
(* is finished; a stage or a watch starts when nothing of the last start is *)
(* left, and while they run nothing of it comes back; a deletion follows    *)
(* the end of the link.                                                     *)
Clean == queue = <<>> /\ \A p \in reaping : proc[p].st # "run"
Ended == link.phase = "none" \/ \E y \in Elems(calls) : y.op \in {"down", "unlink"}

CallsInv ==
  /\ \A x \in Elems(calls) :
        /\ x.op = "finished" => sess[x.who].pid = None /\ sess[x.who].stage = "running"
        /\ x.op \in {"stage", "watch"} => Clean /\ link.phase = "cleaning"
        /\ x.op = "delete" => Ended
  /\ link.phase \in {"stage", "up"} => Clean

(* The next call is one of them.                                            *)
LEMMA NowInv ==
  ASSUME CallTypes, CallsInv, NEW op, Do(op)
  PROVE  /\ op = "finished" => sess[Who].pid = None /\ sess[Who].stage = "running"
         /\ op \in {"stage", "watch"} => Clean /\ link.phase = "cleaning"
         /\ op = "delete" => Ended
<1>1. Head(calls) \in Elems(calls) /\ Head(calls).op = op
  BY NowIs
<1> QED BY <1>1 DEF CallsInv, Who

(* The processes, and their owners, in the calls after SIGCHLD, ...         *)
LEMMA ReapProc ==
  ASSUME LinkTypes, SessTypes, CallTypes, ProcInv, CallsInv, ReapCall
  PROVE  LinkTypes' /\ ProcInv'
<1>1. CASE Advance
  <2>1. CASE link.phase = "stage" /\ Zombie(link.helper)
    <3>1. /\ link' = [NoHelper EXCEPT !.phase = "cleaning"] /\ proc' = Waited({link.helper})
          /\ UNCHANGED <<children, sess, queue, reaping, dying, cleaning, leaving>>
      BY <1>1, <2>1 DEF Advance, registry, cleanup, execs
    <3>2. link' \in Links /\ link'.helper = None /\ link'.watch = link.watch
      BY <3>1 DEF NoHelper, LinkTypes, Links
    <3>3. link.helper # None /\ proc[link.helper].st = "zombie" /\ link.watch = None
      BY <2>1 DEF Zombie, ProcInv, OneOwner
    <3> QED BY <3>1, <3>2, <3>3, LinkDrops
  <2>2. CASE ~ (link.phase = "stage" /\ Zombie(link.helper))
    <3>1. UNCHANGED <<link, proc, children, sess, queue, reaping, dying, cleaning, leaving>>
      BY <1>1, <2>2 DEF Advance, registry, cleanup, execs
    <3> QED BY <3>1, ProcStill DEF LinkTypes, ProcInv, OneOwner, Listed
  <2> QED BY <2>1, <2>2
<1>2. CASE GoUp
  <2>1. link.phase = "cleaning" /\ link.helper = None /\ link.watch = None /\ link \in Links
    BY <1>2, NowInv DEF GoUp, ProcInv, OneOwner, LinkTypes
  <2>2. UNCHANGED <<children, sess, queue, reaping, dying, cleaning, leaving>>
    BY <1>2 DEF GoUp, registry, cleanup, execs
  <2>3. CASE link' = [link EXCEPT !.phase = "up"] /\ proc' = proc
    <3>1. link' \in Links /\ link'.helper = None /\ link'.watch = None
      BY <2>1, <2>3 DEF Links
    <3> QED BY <2>1, <2>2, <2>3, <3>1, ProcStill DEF LinkTypes, Listed
  <2>4. CASE link' = link /\ proc' = proc
    BY <2>1, <2>2, <2>4, ProcStill DEF LinkTypes, Listed
  <2>5. CASE Free # {} /\ link' = [[link EXCEPT !.phase = "up"] EXCEPT !.watch = NewPid]
             /\ proc' = Spawned(NewPid, "watch")
    <3>1. NewPid \in Pids
      BY <2>5, NewPidIs
    <3>2. /\ link' \in Links /\ link'.helper = link.helper /\ link'.watch = NewPid
          /\ link'.phase = "up"
      BY <2>1, <2>5, <3>1 DEF Links
    <3>3. proc' \in [Pids -> Procs]
      BY <2>5, <3>1, SpawnedIs DEF RolesOf
    <3>4. ProcInv'
      BY <2>1, <2>2, <2>5, <3>2, LinkStarts
    <3> QED BY <2>2, <3>2, <3>3, <3>4 DEF LinkTypes
  <2> QED BY <1>2, <2>3, <2>4, <2>5 DEF GoUp
<1>3. CASE Collect
  <2> DEFINE done == {c \in children : Zombie(c.pid)}
  <2>1. /\ children' = children \ done /\ proc' = Waited({c.pid : c \in done}) /\ dying' = dying
        /\ UNCHANGED <<link, sess, queue, reaping, cleaning, leaving>>
    BY <1>3 DEF Collect, cleanup, execs
  <2>2. done \in SUBSET children /\ \A c \in done : proc[c.pid].st # "run"
    BY DEF Zombie
  <2> HIDE DEF done
  <2> QED BY <2>1, <2>2, ChildrenDrop
<1>4. CASE FinishCheck
  <2>1. UNCHANGED <<link, sess, queue, reaping, dying, cleaning, leaving>>
    BY <1>4 DEF FinishCheck, cleanup, execs
  <2>2. CASE Who # None /\ Free # {} /\ Spawns("deliver", Who)
    <3>1. Who \in Waiters /\ NewPid \in Pids
      BY <1>4, <2>2, NowIs, NewPidIs DEF FinishCheck
    <3>2. Child(NewPid, "deliver", Who) \in ChildSet
      BY <3>1 DEF Child, ChildSet
    <3> QED BY <2>1, <2>2, <3>2, ChildStarts
  <2>3. CASE children' = children /\ proc' = proc
    BY <2>1, <2>3, ProcStill DEF LinkTypes, Listed, ProcInv, OneOwner
  <2> QED BY <1>4, <2>2, <2>3 DEF FinishCheck
<1>5. CASE FinishDeliver \/ PumpAll
  <2>1. UNCHANGED <<link, children, proc, sess, queue, reaping, dying, cleaning, leaving>>
    BY <1>5 DEF FinishDeliver, PumpAll, registry, cleanup, execs
  <2> QED BY <2>1, ProcStill DEF LinkTypes, Listed, ProcInv, OneOwner
<1>6. CASE Settle
  <2>1. /\ Drive(queue, reaping, Waited(reaping)) /\ queue \in Seq({"stop", "delete"})
        /\ UNCHANGED <<link, children, dying, leaving, sess>>
    BY <1>6 DEF Settle, execs, LinkTypes
  <2> QED BY <2>1, DriveProc
<1>7. CASE WatchEnds
  <2>1. UNCHANGED <<children, sess, queue, reaping, dying, cleaning, leaving>>
    BY <1>7 DEF WatchEnds, registry, cleanup, execs
  <2>2. CASE Zombie(link.watch)
    <3>1. link' = [link EXCEPT !.watch = None] /\ proc' = Waited({link.watch})
      BY <1>7, <2>2 DEF WatchEnds
    <3>2. link' \in Links /\ link'.watch = None /\ link'.helper = link.helper /\ link'.phase = link.phase
      BY <3>1 DEF LinkTypes, Links
    <3>3. link.watch # None /\ proc[link.watch].st = "zombie"
      BY <2>2 DEF Zombie
    <3> QED BY <2>1, <3>1, <3>2, <3>3, LinkDrops
  <2>3. CASE ~Zombie(link.watch)
    <3>1. UNCHANGED <<link, proc>>
      BY <1>7, <2>3 DEF WatchEnds
    <3> QED BY <2>1, <3>1, ProcStill DEF LinkTypes, Listed, ProcInv, OneOwner
  <2> QED BY <2>2, <2>3
<1>8. CASE ReapLeaving
  <2>1. /\ leaving' = Running(leaving) /\ proc' = Waited(leaving)
        /\ UNCHANGED <<link, children, sess, queue, reaping, dying, cleaning>>
    BY <1>8 DEF ReapLeaving, registry, cleanup, execs
  <2> QED BY <2>1, LeavingDrops
<1> QED BY <1>1, <1>2, <1>3, <1>4, <1>5, <1>6, <1>7, <1>8 DEF ReapCall

(* ... in those of the link, ...                                            *)
LEMMA LinkProc ==
  ASSUME LinkTypes, SessTypes, CallTypes, ProcInv, CallsInv, LinkCall
  PROVE  LinkTypes' /\ ProcInv'
<1>0. link \in Links
  BY DEF LinkTypes
<1>1. CASE Begin
  <2>1. UNCHANGED <<children, proc, sess, queue, reaping, dying, cleaning, leaving>>
    BY <1>1 DEF Begin, registry, cleanup, execs
  <2>2. CASE Live
    BY <1>1, <2>1, <2>2, ProcStill DEF Begin, LinkTypes, Listed, ProcInv, OneOwner
  <2>3. CASE ~Live
    <3>1. link' = Began \/ link' = [Began EXCEPT !.phase = "failed"]
      BY <1>1, <2>3 DEF Begin
    <3>2. link' \in Links /\ link'.helper = None /\ link'.watch = None
      <4>1. Began \in Links /\ Began.helper = None /\ Began.watch = None
        BY DEF Began, Down, Links
      <4>2. LET x == [Began EXCEPT !.phase = "failed"]
            IN x \in Links /\ x.helper = None /\ x.watch = None
        BY <4>1 DEF Links
      <4> QED BY <3>1, <4>1, <4>2
    <3>3. link.helper = None /\ link.watch = None
      BY <2>3 DEF Live, ProcInv, OneOwner
    <3> QED BY <2>1, <3>2, <3>3, ProcStill DEF LinkTypes, Listed
  <2> QED BY <2>2, <2>3
<1>2. CASE StartStage
  <2>1. link.phase = "cleaning" /\ link.helper = None /\ link.watch = None
    BY <1>2, NowInv DEF StartStage, ProcInv, OneOwner
  <2>2. UNCHANGED <<children, sess, queue, reaping, dying, cleaning, leaving>>
    BY <1>2 DEF StartStage, registry, cleanup, execs
  <2>3. CASE link' = link /\ proc' = proc
    BY <2>1, <2>2, <2>3, ProcStill DEF LinkTypes, Listed
  <2>4. CASE /\ Free # {} /\ proc' = Spawned(NewPid, "stage")
             /\ link' = [link EXCEPT !.phase = "stage", !.n = link.n + 1, !.helper = NewPid]
    <3>1. NewPid \in Pids
      BY <2>4, NewPidIs
    <3>2. /\ link' \in Links /\ link'.watch = link.watch /\ link'.helper = NewPid
          /\ link'.phase = "stage"
      <4> DEFINE k == link.n + 1
                 p == NewPid
      <4>1. k \in Nat /\ p \in Pids /\ link' = [link EXCEPT !.phase = "stage", !.n = k, !.helper = p]
        BY <1>0, <2>4, <3>1 DEF Links
      <4> HIDE DEF k, p
      <4>2. link' \in Links /\ link'.watch = link.watch /\ link'.helper = p /\ link'.phase = "stage"
        BY <1>0, <4>1 DEF Links
      <4> QED BY <4>2 DEF p
    <3>3. proc' \in [Pids -> Procs]
      BY <2>4, <3>1, SpawnedIs DEF RolesOf
    <3>4. ProcInv'
      BY <2>1, <2>2, <2>4, <3>2, LinkStarts
    <3> QED BY <2>2, <3>2, <3>3, <3>4 DEF LinkTypes
  <2> QED BY <1>2, <2>3, <2>4 DEF StartStage
<1>3. Down \in Links /\ Down.helper = None /\ Down.watch = None
  BY DEF Down, Links
<1>4. CASE Fail
  <2> DEFINE after == [Down EXCEPT !.phase = "failed", !.occupied = link.occupied]
  <2>1. after \in Links /\ after.helper = None /\ after.watch = None
    BY <1>0 DEF Down, Links
  <2>2. End(after) /\ UNCHANGED <<leaving, sess>>
    BY <1>4 DEF Fail, execs
  <2> HIDE DEF after
  <2> QED BY <2>1, <2>2, EndProc
<1>5. CASE Restart
  <2>1. UNCHANGED <<leaving, sess>>
    BY <1>5 DEF Restart, execs
  <2>2. CASE link.phase = "up"
    BY <1>3, <1>5, <2>1, <2>2, EndProc DEF Restart
  <2>3. CASE link.phase # "up"
    <3>1. UNCHANGED <<link, children, dying, cleaning, queue, reaping, proc>>
      BY <1>5, <2>3 DEF Restart, cleanup
    <3> QED BY <2>1, <3>1, ProcStill DEF LinkTypes, Listed, ProcInv, OneOwner
  <2> QED BY <2>2, <2>3
<1>6. CASE ForceDown \/ AnswerPassed
  <2>1. UNCHANGED <<link, children, proc, sess, queue, reaping, dying, cleaning, leaving>>
    BY <1>6 DEF ForceDown, AnswerPassed, registry, cleanup, execs
  <2> QED BY <2>1, ProcStill DEF LinkTypes, Listed, ProcInv, OneOwner
<1>7. CASE Unlink
  <2>1. UNCHANGED <<leaving, sess>>
    BY <1>7 DEF Unlink, execs
  <2>2. CASE link.phase # "none"
    BY <1>3, <1>7, <2>1, <2>2, EndProc DEF Unlink
  <2>3. CASE link.phase = "none"
    <3>1. UNCHANGED <<link, children, dying, cleaning, queue, reaping, proc>>
      BY <1>7, <2>3 DEF Unlink, cleanup
    <3> QED BY <2>1, <3>1, ProcStill DEF LinkTypes, Listed, ProcInv, OneOwner
  <2> QED BY <2>2, <2>3
<1>8. CASE Delete
  <2>1. UNCHANGED <<link, children, dying, leaving, sess>>
    BY <1>8 DEF Delete, execs
  <2>2. PICK commands \in {queue, Append(queue, "delete")} : Drive(commands, reaping, Waited(reaping))
    BY <1>8 DEF Delete
  <2>3. commands \in Seq({"stop", "delete"})
    BY DEF LinkTypes
  <2> QED BY <2>1, <2>2, <2>3, DriveProc
<1>9. \A e \in BOOLEAN : [link EXCEPT !.occupied = e, !.idle = ~e] \in Links
  BY <1>0 DEF Links
<1>10. Touched \in Links /\ Touched.helper = link.helper /\ Touched.watch = link.watch
       /\ Touched.phase = link.phase
  <2>1. Occupied \in BOOLEAN \/ Touched = link
    BY DEF Occupied, Touched
  <2> QED BY <1>0 DEF Touched, Links, Occupied
<1>11. CASE Touch
  <2>1. /\ link' = Touched
        /\ UNCHANGED <<children, proc, sess, queue, reaping, dying, cleaning, leaving>>
    BY <1>11 DEF Touch, registry, cleanup, execs
  <2> QED BY <1>10, <2>1, ProcStill DEF LinkTypes, Listed, ProcInv, OneOwner
<1>12. CASE Changed
  <2>1. /\ link' \in {link, Touched} /\ leaving' = leaving \cup dying \cup cleaning
        /\ dying' = {} /\ cleaning' = {}
        /\ UNCHANGED <<children, proc, sess, queue, reaping>>
    BY <1>12 DEF Changed, cleanup, execs
  <2>2. Listed' = Listed
    BY <2>1 DEF Listed
  <2> QED BY <1>0, <1>10, <2>1, <2>2, ProcStill DEF LinkTypes, ProcInv, OneOwner
<1>13. CASE Answer
  <2>1. UNCHANGED <<link, sess, queue, reaping, dying, cleaning, leaving>>
    BY <1>13 DEF Answer, cleanup, execs
  <2>2. CASE children' = children /\ proc' = proc
    BY <2>1, <2>2, ProcStill DEF LinkTypes, Listed, ProcInv, OneOwner
  <2>3. CASE Who \notin Sessions /\ Free # {} /\ Spawns("check", Who)
    <3>1. Who \in Waiters /\ NewPid \in Pids
      BY <1>13, <2>3, NowIs, NewPidIs DEF Answer
    <3>2. Child(NewPid, "check", Who) \in ChildSet
      BY <3>1 DEF Child, ChildSet
    <3> QED BY <2>1, <2>3, <3>2, ChildStarts
  <2> QED BY <1>13, <2>2, <2>3 DEF Answer, PassToken
<1> QED BY <1>1, <1>2, <1>4, <1>5, <1>6, <1>7, <1>8, <1>11, <1>12, <1>13 DEF LinkCall

(* What an end or a retry does to the other sessions.                       *)
LEMMA LateIs ==
  ASSUME NEW s \in [Sessions -> Sess]
  PROVE  /\ LateAfter(s) \in [Sessions -> Sess]
         /\ \A c \in Sessions : LateAfter(s)[c].pid = s[c].pid /\ LateAfter(s)[c].stage = s[c].stage
<1> SUFFICES ASSUME NEW c \in Sessions
             PROVE  /\ LateAfter(s)[c] \in Sess
                    /\ LateAfter(s)[c].pid = s[c].pid /\ LateAfter(s)[c].stage = s[c].stage
  BY DEF LateAfter
<1> DEFINE r == s[c]
<1>1. LateAfter(s)[c] = IF r.stage = "running" THEN [r EXCEPT !.late = TRUE] ELSE r
  BY DEF LateAfter
<1>2. r \in Sess
  OBVIOUS
<1> HIDE DEF r
<1>3. [r EXCEPT !.late = TRUE] \in Sess /\ [r EXCEPT !.late = TRUE].pid = r.pid
      /\ [r EXCEPT !.late = TRUE].stage = r.stage
  BY <1>2 DEF Sess
<1>4. /\ LateAfter(s)[c] \in Sess
      /\ LateAfter(s)[c].pid = r.pid /\ LateAfter(s)[c].stage = r.stage
  BY <1>1, <1>2, <1>3
<1> QED BY <1>4 DEF r

(* A session as it is made.                                                 *)
LEMMA NoSessIs ==
  /\ NoSess \in Sess /\ NoSess.pid = None /\ NoSess.stage = "none"
  /\ \A st \in {"open", "ended"} :
        LET r == [NoSess EXCEPT !.stage = st] IN r \in Sess /\ r.pid = None /\ r.stage = st
BY DEF NoSess, Sess

(* The end of a session: what it held is dropped.                           *)
LEMMA ReleaseProc ==
  ASSUME LinkTypes, SessTypes, ProcInv, NEW c0 \in Sessions, NEW after \in Sess, after.pid = None,
         Release(c0, after)
  PROVE  LinkTypes' /\ ProcInv' /\ SessTypes'
<1>0. /\ UNCHANGED <<link, children, dying, cleaning, queue, reaping>>
      /\ sess \in [Sessions -> Sess] /\ lim \in Limiters
  BY DEF Release, cleanup, SessTypes
<1> DEFINE s == [sess EXCEPT ![c0] = after]
<1>1. s \in [Sessions -> Sess] /\ s[c0] = after /\ \A c \in Sessions \ {c0} : s[c] = sess[c]
  BY <1>0
<1>2. CASE Runs(c0)
  <2>1. ~Queued(c0)
    BY <1>2 DEF Runs, Queued
  <2>2. /\ lim' = LeaveSlot(lim).lim /\ sess' = LateAfter(s)
        /\ leaving' = leaving \cup Running({sess[c0].pid}) /\ proc' = Waited({sess[c0].pid})
    BY <1>2, <2>1 DEF Release
  <2> HIDE DEF s
  <2>3. sess' \in [Sessions -> Sess]
    BY <1>1, <2>2, LateIs
  <2>4. sess'[c0].pid = None
    BY <1>1, <2>2, LateIs
  <2>5. \A c \in Sessions \ {c0} : sess'[c].pid = sess[c].pid /\ sess'[c].stage = sess[c].stage
    BY <1>0, <1>1, <2>2, LateIs
  <2>6. lim' \in Limiters
    BY <1>0, <2>2, LeaveTypes
  <2> QED BY <1>0, <2>2, <2>3, <2>4, <2>5, <2>6, SessionDrops DEF SessTypes
<1>3. CASE ~Runs(c0)
  <2>1. sess[c0].pid = None
    BY <1>3 DEF Runs, ProcInv, OneOwner
  <2>2. UNCHANGED <<leaving, proc>> /\ sess' = s /\ (lim' = lim \/ lim' = Forget(lim, c0))
    BY <1>3 DEF Release, SetSess
  <2> HIDE DEF s
  <2>3. \A c \in Sessions : /\ sess'[c].pid = sess[c].pid
                            /\ sess[c].pid # None => sess'[c].stage = sess[c].stage
    BY <1>1, <2>1, <2>2
  <2>4. lim' \in Limiters
    BY <1>0, <2>2, LimiterTypes
  <2>5. ProcInv'
    BY <1>0, <2>2, <2>3, ProcStill DEF Listed, ProcInv, OneOwner
  <2> QED BY <1>0, <1>1, <2>2, <2>4, <2>5 DEF LinkTypes, SessTypes
<1> QED BY <1>2, <1>3

(* ... in those of the exec sessions, ...                                   *)
LEMMA ExecProc ==
  ASSUME LinkTypes, SessTypes, CallTypes, ProcInv, CallsInv, ExecCall
  PROVE  LinkTypes' /\ ProcInv' /\ SessTypes'
<1>0. sess \in [Sessions -> Sess] /\ lim \in Limiters
  BY DEF SessTypes
<1>1. CASE Proceed \/ FinishExit
  <2>1. UNCHANGED <<link, children, proc, sess, lim, queue, reaping, dying, cleaning, leaving>>
    BY <1>1 DEF Proceed, FinishExit, registry, cleanup, execs
  <2> QED BY <2>1, ProcStill DEF LinkTypes, SessTypes, Listed, ProcInv, OneOwner
<1>2. CASE JoinSlot
  <2>1. /\ Who \in Sessions
        /\ UNCHANGED <<link, children, proc, queue, reaping, dying, cleaning, leaving>>
    BY <1>2, NowIs DEF JoinSlot, registry, cleanup, OfSession
  <2>2. lim' \in Limiters
    BY <1>0, <1>2, <2>1, LimiterTypes DEF JoinSlot
  <2>3. sess' = sess \/ sess' = [sess EXCEPT ![Who] = [sess[Who] EXCEPT !.timer = Queued(Who)]]
    BY <1>2 DEF JoinSlot, Timed, SetSess
  <2>4. sess' \in [Sessions -> Sess] /\ \A c \in Sessions : sess'[c].pid = sess[c].pid /\ sess'[c].stage = sess[c].stage
    <3>1. Queued(Who) \in BOOLEAN
      BY DEF Queued
    <3>2. \A t \in BOOLEAN : LET x == [sess[Who] EXCEPT !.timer = t]
                              IN x \in Sess /\ x.pid = sess[Who].pid /\ x.stage = sess[Who].stage
      BY <1>0, <2>1 DEF Sess
    <3> QED BY <1>0, <2>1, <2>3, <3>1, <3>2
  <2> QED BY <2>1, <2>2, <2>4, ProcStill DEF LinkTypes, SessTypes, Listed, ProcInv, OneOwner
<1>3. CASE SpawnSession
  <2>1. /\ Who \in Sessions /\ lim' = lim
        /\ UNCHANGED <<link, children, queue, reaping, dying, cleaning, leaving>>
    BY <1>3, NowIs DEF SpawnSession, registry, cleanup, OfSession
  <2>2. CASE UNCHANGED <<sess, proc>>
    BY <1>0, <2>1, <2>2, ProcStill DEF LinkTypes, SessTypes, Listed, ProcInv, OneOwner
  <2>3. CASE sess' = [sess EXCEPT ![Who] = [sess[Who] EXCEPT !.timer = FALSE]] /\ proc' = proc
    <3>1. sess' \in [Sessions -> Sess] /\ \A c \in Sessions : sess'[c].pid = sess[c].pid /\ sess'[c].stage = sess[c].stage
      BY <1>0, <2>1, <2>3 DEF Sess
    <3> QED BY <1>0, <2>1, <2>3, <3>1, ProcStill DEF LinkTypes, SessTypes, Listed, ProcInv, OneOwner
  <2>4. CASE /\ Queued(Who) /\ Free # {} /\ proc' = Spawned(NewPid, "session")
             /\ sess' = [sess EXCEPT ![Who] = [NoSess EXCEPT !.stage = "running", !.pid = NewPid,
                                             !.retried = sess[Who].retried]]
    <3> DEFINE b == sess[Who].retried
               r == [NoSess EXCEPT !.stage = "running", !.pid = NewPid, !.retried = b]
    <3>1. NewPid \in Pids /\ b \in BOOLEAN
      BY <1>0, <2>1, <2>4, NewPidIs DEF Sess
    <3>2. r \in Sess /\ r.pid = NewPid /\ r.stage = "running"
      <4> DEFINE p == NewPid
      <4>1. p \in Pids /\ r = [NoSess EXCEPT !.stage = "running", !.pid = p, !.retried = b]
        BY <3>1
      <4> HIDE DEF b, p, r
      <4>2. r \in Sess /\ r.pid = p /\ r.stage = "running"
        BY <3>1, <4>1 DEF NoSess, Sess
      <4> QED BY <4>2 DEF p
    <3> HIDE DEF r
    <3>3. sess' = [sess EXCEPT ![Who] = r]
      BY <2>4 DEF r
    <3>4. /\ sess' \in [Sessions -> Sess] /\ sess'[Who].pid = NewPid /\ sess'[Who].stage = "running"
          /\ \A c \in Sessions \ {Who} : sess'[c] = sess[c]
      BY <1>0, <2>1, <3>2, <3>3
    <3>5. ProcInv'
      BY <2>1, <2>4, <3>4, SessionStarts
    <3>6. proc' \in [Pids -> Procs]
      BY <2>4, <3>1, SpawnedIs DEF RolesOf
    <3> QED BY <1>0, <2>1, <3>4, <3>5, <3>6 DEF LinkTypes, SessTypes
  <2> QED BY <1>3, <2>2, <2>3, <2>4 DEF SpawnSession, SetSess
<1>4. CASE LeaveLimiter
  <2>1. /\ lim' = LeaveSlot(lim).lim /\ sess' = LateAfter(sess)
        /\ UNCHANGED <<link, children, proc, queue, reaping, dying, cleaning, leaving>>
    BY <1>4 DEF LeaveLimiter, registry, cleanup
  <2>2. lim' \in Limiters
    BY <1>0, <2>1, LeaveTypes
  <2>3. sess' \in [Sessions -> Sess] /\ \A c \in Sessions : sess'[c].pid = sess[c].pid /\ sess'[c].stage = sess[c].stage
    BY <1>0, <2>1, LateIs
  <2> QED BY <2>1, <2>2, <2>3, ProcStill DEF LinkTypes, SessTypes, Listed, ProcInv, OneOwner
<1>5. CASE EndSession \/ CloseSession
  <2>1. Who \in Sessions
    BY <1>5, NowIs DEF EndSession, CloseSession, OfSession
  <2>2. PICK after \in {NoSess, [NoSess EXCEPT !.stage = "ended"]} : Release(Who, after)
    BY <1>5 DEF EndSession, CloseSession
  <2>3. after \in Sess /\ after.pid = None
    BY NoSessIs
  <2> QED BY <2>1, <2>2, <2>3, ReleaseProc
<1>6. CASE Pump
  <2>1. /\ Who \in Sessions /\ lim' = lim
        /\ UNCHANGED <<link, children, queue, reaping, dying, cleaning, leaving>>
    BY <1>6, NowIs DEF Pump, registry, cleanup, OfSession
  <2>2. CASE UNCHANGED <<sess, proc>>
    BY <1>0, <2>1, <2>2, ProcStill DEF LinkTypes, SessTypes, Listed, ProcInv, OneOwner
  <2>3. CASE /\ Running({sess[Who].pid}) = {} /\ proc' = Waited({sess[Who].pid})
             /\ sess' = [sess EXCEPT ![Who] = [sess[Who] EXCEPT !.pid = None]]
    <3>1. sess' \in [Sessions -> Sess] /\ sess'[Who].pid = None /\ \A c \in Sessions \ {Who} : sess'[c] = sess[c]
      BY <1>0, <2>1, <2>3 DEF Sess
    <3>2. LinkTypes' /\ ProcInv'
      BY <2>1, <2>3, <3>1, SessionDrops
    <3> QED BY <1>0, <2>1, <3>1, <3>2 DEF SessTypes
  <2> QED BY <1>6, <2>2, <2>3 DEF Pump, SetSess
<1>7. CASE FinishError
  <2>1. UNCHANGED <<link, sess, lim, queue, reaping, dying, cleaning, leaving>>
    BY <1>7 DEF FinishError, cleanup, execs
  <2>2. CASE children' = children /\ proc' = proc
    BY <2>1, <2>2, ProcStill DEF LinkTypes, SessTypes, Listed, ProcInv, OneOwner
  <2>3. CASE Free # {} /\ Spawns("check", None)
    <3>1. NewPid \in Pids
      BY <2>3, NewPidIs
    <3>2. Child(NewPid, "check", None) \in ChildSet
      BY <3>1 DEF Child, ChildSet
    <3> QED BY <1>0, <2>1, <2>3, <3>2, ChildStarts DEF SessTypes
  <2> QED BY <1>7, <2>2, <2>3 DEF FinishError
<1>8. CASE FinishRetry
  <2>1. /\ Who \in Sessions
        /\ UNCHANGED <<link, children, proc, queue, reaping, dying, cleaning, leaving>>
    BY <1>8, NowIs DEF FinishRetry, registry, cleanup, OfSession
  <2>2. sess[Who].pid = None
    BY <1>8, NowInv DEF FinishRetry
  <2> DEFINE r == [NoSess EXCEPT !.stage = "queued", !.retried = TRUE, !.timer = ~Again(lim, sess[Who].late)]
  <2>3. sess' = [sess EXCEPT ![Who] = r] /\ lim' = Retry(lim, Who, sess[Who].late).lim
    BY <1>8 DEF FinishRetry, Refused, SetSess
  <2>4. r \in Sess /\ r.pid = None
    <3> DEFINE t == ~Again(lim, sess[Who].late)
    <3>1. t \in BOOLEAN /\ r = [NoSess EXCEPT !.stage = "queued", !.retried = TRUE, !.timer = t]
      BY Zenon
    <3> HIDE DEF t, r
    <3> QED BY <3>1 DEF NoSess, Sess
  <2> HIDE DEF r
  <2>5. sess' \in [Sessions -> Sess] /\ sess'[Who].pid = None /\ \A c \in Sessions \ {Who} : sess'[c] = sess[c]
    BY <1>0, <2>1, <2>3, <2>4
  <2>6. lim' \in Limiters
    BY <1>0, <2>1, <2>3, LimiterTypes DEF Sess
  <2> QED BY <2>1, <2>2, <2>5, <2>6, ProcStill DEF LinkTypes, SessTypes, Listed, ProcInv, OneOwner
<1> QED BY <1>1, <1>2, <1>3, <1>4, <1>5, <1>6, <1>7, <1>8 DEF ExecCall

(* ... and when a handler starts.                                           *)
LEMMA RequestProc ==
  ASSUME LinkTypes, SessTypes, CallTypes, ProcInv, Timers \/ Requests \/ Reap
  PROVE  LinkTypes' /\ ProcInv' /\ SessTypes'
<1>0. sess \in [Sessions -> Sess] /\ lim \in Limiters /\ link \in Links
  BY DEF SessTypes, LinkTypes
<1>1. CASE UNCHANGED <<link, children, proc, sess, lim, queue, reaping, dying, cleaning, leaving>>
  BY <1>1, ProcStill DEF LinkTypes, SessTypes, Listed, ProcInv, OneOwner
<1>2. ASSUME NEW w \in Waiters, WaitRoute(w) PROVE LinkTypes' /\ ProcInv' /\ SessTypes'
  <2>1. UNCHANGED <<link, sess, lim, queue, reaping, dying, cleaning, leaving>>
    BY <1>2 DEF WaitRoute, cleanup, execs
  <2>2. CASE children' = children /\ proc' = proc
    BY <1>1, <2>1, <2>2
  <2>3. CASE Free # {} /\ Spawns("check", w)
    <3>1. NewPid \in Pids
      BY <2>3, NewPidIs
    <3>2. Child(NewPid, "check", w) \in ChildSet
      BY <3>1 DEF Child, ChildSet
    <3> QED BY <1>0, <2>1, <2>3, <3>2, ChildStarts DEF SessTypes
  <2> QED BY <1>2, <2>2, <2>3 DEF WaitRoute
<1>3. ASSUME NEW w \in Waiters, WaitEnds(w) PROVE LinkTypes' /\ ProcInv' /\ SessTypes'
  <2> DEFINE mine == {c \in children : c.who = w}
  <2>1. /\ UNCHANGED <<link, sess, lim, queue, reaping, cleaning, leaving>>
        /\ children' = children \ mine /\ dying' = dying \cup Running({c.pid : c \in mine})
        /\ proc' = Waited({c.pid : c \in mine}) /\ mine \in SUBSET children
    BY <1>3 DEF WaitEnds, cleanup, execs
  <2> HIDE DEF mine
  <2> QED BY <1>0, <2>1, ChildrenDrop DEF SessTypes
<1>4. ASSUME NEW c \in children, QuickLimit(c) PROVE LinkTypes' /\ ProcInv' /\ SessTypes'
  <2> DEFINE mine == {c}
  <2>1. /\ UNCHANGED <<link, sess, lim, queue, reaping, cleaning, leaving>>
        /\ children' = children \ mine /\ dying' = dying \cup Running({d.pid : d \in mine})
        /\ proc' = Waited({d.pid : d \in mine}) /\ mine \in SUBSET children
    <3>1. {c.pid} = {d.pid : d \in mine}
      OBVIOUS
    <3> QED BY <1>4, <3>1 DEF QuickLimit, cleanup, execs
  <2> HIDE DEF mine
  <2> QED BY <1>0, <2>1, ChildrenDrop DEF SessTypes
<1>5. ASSUME NEW c \in Sessions, OpenSession(c) \/ ExecRequest(c)
      PROVE  LinkTypes' /\ ProcInv' /\ SessTypes'
  <2>1. UNCHANGED <<link, children, proc, lim, queue, reaping, dying, cleaning, leaving>>
    BY <1>5 DEF OpenSession, ExecRequest, registry, cleanup
  <2>2. CASE OpenSession(c)
    <3> DEFINE r == [NoSess EXCEPT !.stage = "open"]
    <3>1. sess' = [sess EXCEPT ![c] = r] /\ sess[c].stage = "none"
      BY <2>2 DEF OpenSession, SetSess
    <3>2. r \in Sess /\ r.pid = None
      BY NoSessIs
    <3> HIDE DEF r
    <3>3. sess' \in [Sessions -> Sess] /\ sess'[c].pid = None /\ \A d \in Sessions \ {c} : sess'[d] = sess[d]
      BY <1>0, <3>1, <3>2
    <3>4. sess[c].pid = None
      BY <3>1 DEF ProcInv, OneOwner
    <3> QED BY <1>0, <2>1, <3>3, <3>4, ProcStill DEF LinkTypes, SessTypes, Listed, ProcInv, OneOwner
  <2>3. CASE ExecRequest(c)
    <3>1. sess' = [sess EXCEPT ![c] = [sess[c] EXCEPT !.stage = "queued"]] /\ sess[c].stage = "open"
      BY <2>3 DEF ExecRequest, SetSess
    <3>2. sess[c].pid = None
      BY <3>1 DEF ProcInv, OneOwner
    <3>3. sess' \in [Sessions -> Sess] /\ sess'[c].pid = None /\ \A d \in Sessions \ {c} : sess'[d] = sess[d]
      BY <1>0, <3>1, <3>2 DEF Sess
    <3> QED BY <1>0, <2>1, <3>2, <3>3, ProcStill DEF LinkTypes, SessTypes, Listed, ProcInv, OneOwner
  <2> QED BY <1>5, <2>2, <2>3
<1>6. CASE IdleDue
  <2>1. /\ link' = [link EXCEPT !.idle = FALSE]
        /\ UNCHANGED <<children, proc, sess, lim, queue, reaping, dying, cleaning, leaving>>
    BY <1>6 DEF IdleDue, registry, cleanup, execs
  <2>2. link' \in Links /\ link'.helper = link.helper /\ link'.watch = link.watch /\ link'.phase = link.phase
    BY <1>0, <2>1 DEF Links
  <2> QED BY <2>1, <2>2, ProcStill DEF LinkTypes, SessTypes, Listed, ProcInv, OneOwner
<1>7. ASSUME UpRoute \/ DownRoute \/ DeleteRoute \/ PaneArrives \/ PaneLeaves \/ UpLimit \/ Reap
      PROVE  UNCHANGED <<link, children, proc, sess, lim, queue, reaping, dying, cleaning, leaving>>
  BY <1>7 DEF UpRoute, DownRoute, DeleteRoute, PaneArrives, PaneLeaves, UpLimit, Reap, registry, cleanup, execs
<1>8. ASSUME NEW c \in Sessions, FailSession(c) \/ CloseConn(c) \/ ReadOutput(c)
      PROVE  UNCHANGED <<link, children, proc, sess, lim, queue, reaping, dying, cleaning, leaving>>
  BY <1>8 DEF FailSession, CloseConn, ReadOutput, registry, cleanup, execs
<1> QED BY <1>1, <1>2, <1>3, <1>4, <1>5, <1>6, <1>7, <1>8 DEF Timers, Requests

(* Who waits, and whose check has its answer.                               *)
LEMMA WaitsTypes ==
  ASSUME LinkTypes, CallTypes, [Next]_vars
  PROVE  passed' \subseteq Waiters /\ waits' \in Seq(Waiters \cup Sessions)
<1>1. /\ passed \subseteq Waiters /\ waits \in Seq(Waiters \cup Sessions)
      /\ \A c \in children : c.who \in Waiters \cup {None}
  BY DEF CallTypes, LinkTypes, ChildSet
<1>2. \A S : Only(waits, S) \in Seq(Waiters \cup Sessions)
  BY <1>1, ElemsOnly
<1>3. <<>> \in Seq(Waiters \cup Sessions) /\ \A c \in Waiters \cup Sessions : Append(waits, c) \in Seq(Waiters \cup Sessions)
  BY <1>1
<1>4. \A S : S \subseteq Waiters \cup {None} => passed \cup (S \ {None}) \subseteq Waiters
  BY <1>1
<1>5. CASE UNCHANGED <<passed, waits>>
  BY <1>1, <1>5
<1>6. ASSUME NEW after, End(after) PROVE passed' \subseteq Waiters
  BY <1>1, <1>6 DEF End
<1>7. CASE ReapCall
  <2>1. CASE FinishCheck
    BY <1>1, <2>1, NowIs DEF FinishCheck
  <2>2. CASE FinishDeliver
    BY <1>1, <2>2, NowIs DEF FinishDeliver
  <2>3. CASE Advance \/ GoUp \/ Collect \/ Settle \/ WatchEnds \/ PumpAll \/ ReapLeaving
    <3>1. UNCHANGED <<passed, waits>>
      BY <2>3 DEF Advance, GoUp, Collect, Settle, WatchEnds, PumpAll, ReapLeaving, registry
    <3> QED BY <1>5, <3>1
  <2> QED BY <1>7, <2>1, <2>2, <2>3 DEF ReapCall
<1>8. CASE LinkCall
  <2>1. CASE Fail
    BY <1>1, <1>6, <2>1 DEF Fail
  <2>2. CASE Restart
    BY <1>1, <1>6, <2>2 DEF Restart
  <2>3. CASE Unlink
    BY <1>1, <1>3, <1>6, <2>3 DEF Unlink
  <2>4. CASE Changed
    BY <1>1, <1>3, <2>4 DEF Changed, TellPassed
  <2>5. CASE AnswerPassed
    BY <1>1, <2>5 DEF AnswerPassed, TellPassed
  <2>6. CASE Begin \/ StartStage \/ ForceDown \/ Delete \/ Touch \/ Answer
    <3>1. UNCHANGED <<passed, waits>>
      BY <2>6 DEF Begin, StartStage, ForceDown, Delete, Touch, Answer, registry
    <3> QED BY <1>5, <3>1
  <2> QED BY <1>8, <2>1, <2>2, <2>3, <2>4, <2>5, <2>6 DEF LinkCall
<1>9. CASE ExecCall
  <2>1. CASE Proceed
    <3>1. Who \in Sessions /\ passed' = passed
      BY <2>1, NowIs DEF Proceed, OfSession
    <3>2. waits' = waits \/ waits' = Append(waits, Who)
      BY <2>1 DEF Proceed
    <3> QED BY <1>1, <1>3, <3>1, <3>2
  <2>2. CASE EndSession \/ CloseSession
    <3>1. PICK after : Release(Who, after)
      BY <2>2 DEF EndSession, CloseSession
    <3>2. passed' = passed /\ (waits' = waits \/ waits' = Only(waits, ToSet(waits) \ {Who}))
      BY <3>1 DEF Release, Forgotten
    <3> QED BY <1>1, <1>2, <3>2
  <2>3. CASE JoinSlot \/ SpawnSession \/ LeaveLimiter \/ Pump \/ FinishExit \/ FinishError \/ FinishRetry
    <3>1. UNCHANGED <<passed, waits>>
      BY <2>3 DEF JoinSlot, SpawnSession, LeaveLimiter, Pump, FinishExit, FinishError, FinishRetry, registry
    <3> QED BY <1>5, <3>1
  <2> QED BY <1>9, <2>1, <2>2, <2>3 DEF ExecCall
<1>10. ASSUME NEW w \in Waiters, WaitRoute(w) PROVE passed' \subseteq Waiters /\ waits' \in Seq(Waiters \cup Sessions)
  BY <1>1, <1>3, <1>10 DEF WaitRoute
<1>11. ASSUME NEW w \in Waiters, WaitEnds(w) PROVE passed' \subseteq Waiters /\ waits' \in Seq(Waiters \cup Sessions)
  BY <1>1, <1>2, <1>11 DEF WaitEnds, Forgotten
<1>12. ASSUME NEW c \in children, QuickLimit(c) PROVE passed' \subseteq Waiters /\ waits' \in Seq(Waiters \cup Sessions)
  BY <1>1, <1>12 DEF QuickLimit
<1>13. ASSUME NEW c \in Sessions, OpenSession(c) \/ ExecRequest(c) \/ FailSession(c) \/ CloseConn(c) \/ ReadOutput(c)
       PROVE  UNCHANGED <<passed, waits>>
  BY <1>13 DEF OpenSession, ExecRequest, FailSession, CloseConn, ReadOutput, registry
<1>14. ASSUME UpRoute \/ DownRoute \/ DeleteRoute \/ PaneArrives \/ PaneLeaves \/ IdleDue \/ UpLimit \/ Reap
       PROVE  UNCHANGED <<passed, waits>>
  BY <1>14 DEF UpRoute, DownRoute, DeleteRoute, PaneArrives, PaneLeaves, IdleDue, UpLimit, Reap, registry
<1>15. ASSUME NEW p \in Pids, ProcessEnds(p) PROVE UNCHANGED <<passed, waits>>
  BY <1>15 DEF ProcessEnds, registry
<1>16. CASE Timers \/ Requests \/ Reap
  BY <1>5, <1>10, <1>11, <1>12, <1>13, <1>14, <1>16 DEF Timers, Requests
<1>17. CASE UNCHANGED vars
  BY <1>5, <1>17 DEF vars, registry
<1> QED BY <1>5, <1>7, <1>8, <1>9, <1>15, <1>16, <1>17 DEF Next, Calls

(* Processes, their owners and the sessions, in every step.                 *)
LEMMA ProcStep ==
  ASSUME LinkTypes, SessTypes, CallTypes, ProcInv, CallsInv, [Next]_vars
  PROVE  LinkTypes' /\ ProcInv' /\ SessTypes'
<1>1. CASE ReapCall
  <2>1. UNCHANGED <<sess, lim>>
    BY <1>1 DEF ReapCall, Advance, GoUp, Collect, FinishCheck, FinishDeliver, Settle, WatchEnds,
                PumpAll, ReapLeaving, execs
  <2> QED BY <1>1, <2>1, ReapProc DEF SessTypes
<1>2. CASE LinkCall
  <2>1. UNCHANGED <<sess, lim>>
    BY <1>2 DEF LinkCall, Begin, StartStage, Fail, Restart, ForceDown, Unlink, Delete, Touch, Changed,
                Answer, AnswerPassed, execs
  <2> QED BY <1>2, <2>1, LinkProc DEF SessTypes
<1>3. CASE ExecCall
  BY <1>3, ExecProc
<1>4. CASE Timers \/ Requests \/ Reap
  BY <1>4, RequestProc
<1>5. ASSUME NEW p \in Pids, ProcessEnds(p) PROVE LinkTypes' /\ ProcInv' /\ SessTypes'
  <2>1. UNCHANGED <<sess, lim>>
    BY <1>5 DEF ProcessEnds, execs
  <2> QED BY <1>5, <2>1, ProcEnds DEF SessTypes
<1>6. CASE UNCHANGED vars
  <2>1. UNCHANGED <<link, children, proc, sess, lim, queue, reaping, dying, cleaning, leaving>>
    BY <1>6 DEF vars, registry, cleanup, execs
  <2> QED BY <2>1, ProcStill DEF LinkTypes, SessTypes, Listed, ProcInv, OneOwner
<1> QED BY <1>1, <1>2, <1>3, <1>4, <1>5, <1>6 DEF Next, Calls

(* No process of the cleanup that ended comes back.                         *)
Quiet == queue' = queue /\ reaping' = reaping
         /\ \A p \in reaping : proc'[p].st = "run" => proc[p].st = "run"

(* Nothing of the cleanup runs again when the queue is left alone.          *)
LEMMA QuietIs ==
  ASSUME LinkTypes, queue' = queue, reaping' = reaping,
         \/ proc' = proc
         \/ \E ps : proc' = Waited(ps)
         \/ Free # {} /\ \E role \in RolesOf : proc' = Spawned(NewPid, role)
         \/ \E p \in Pids : proc' = [proc EXCEPT ![p].st = "zombie"]
  PROVE  Quiet /\ (Clean => Clean')
<1>1. \A p \in reaping : p \in Pids
  BY DEF LinkTypes
<1>2. ASSUME proc' = proc PROVE Quiet
  BY <1>2 DEF Quiet
<1>3. ASSUME NEW ps, proc' = Waited(ps) PROVE Quiet
  BY <1>1, <1>3, WaitedIs DEF Quiet
<1>4. ASSUME Free # {}, NEW role \in RolesOf, proc' = Spawned(NewPid, role) PROVE Quiet
  <2>1. NewPid \in Pids /\ NewPid \notin reaping
    BY <1>4, NewPidIs DEF Listed
  <2> QED BY <1>1, <1>4, <2>1, SpawnedIs DEF Quiet
<1>5. ASSUME NEW p0 \in Pids, proc' = [proc EXCEPT ![p0].st = "zombie"] PROVE Quiet
  <2>1. \A p \in Pids : proc'[p].st = "zombie" \/ proc'[p] = proc[p]
    BY <1>5 DEF LinkTypes, Procs
  <2> QED BY <1>1, <2>1 DEF Quiet
<1>6. Quiet
  BY <1>2, <1>3, <1>4, <1>5
<1> QED BY <1>6 DEF Quiet, Clean

QuietReap == Advance \/ GoUp \/ Collect \/ FinishCheck \/ FinishDeliver \/ WatchEnds \/ PumpAll \/ ReapLeaving
QuietLink == Begin \/ StartStage \/ ForceDown \/ Touch \/ Changed \/ Answer \/ AnswerPassed

(* The calls that leave the cleanup queue alone.                            *)
LEMMA QuietCalls ==
  ASSUME LinkTypes, Clean, QuietReap \/ QuietLink \/ ExecCall
  PROVE  Clean'
<1>0. {"stage", "watch", "check", "deliver", "session"} \subseteq RolesOf
  BY DEF RolesOf
<1>1. CASE QuietReap
  <2>1. queue' = queue /\ reaping' = reaping
    BY <1>1 DEF QuietReap, Advance, GoUp, Collect, FinishCheck, FinishDeliver, WatchEnds, PumpAll,
                ReapLeaving, cleanup
  <2>2. CASE Advance \/ Collect \/ WatchEnds \/ ReapLeaving
    <3>1. proc' = proc \/ \E ps : proc' = Waited(ps)
      BY <2>2 DEF Advance, Collect, WatchEnds, ReapLeaving
    <3> QED BY <2>1, <3>1, QuietIs
  <2>3. CASE GoUp \/ FinishCheck
    <3>1. proc' = proc \/ (Free # {} /\ \E role \in {"watch", "deliver"} : proc' = Spawned(NewPid, role))
      BY <2>3 DEF GoUp, FinishCheck, Spawns
    <3> QED BY <1>0, <2>1, <3>1, QuietIs
  <2>4. CASE FinishDeliver \/ PumpAll
    <3>1. proc' = proc
      BY <2>4 DEF FinishDeliver, PumpAll
    <3> QED BY <2>1, <3>1, QuietIs
  <2> QED BY <1>1, <2>2, <2>3, <2>4 DEF QuietReap
<1>2. CASE QuietLink
  <2>1. queue' = queue /\ reaping' = reaping
    BY <1>2 DEF QuietLink, Begin, StartStage, ForceDown, Touch, Changed, Answer, AnswerPassed, cleanup
  <2>2. proc' = proc \/ (Free # {} /\ \E role \in {"stage", "check"} : proc' = Spawned(NewPid, role))
    BY <1>2 DEF QuietLink, Begin, StartStage, ForceDown, Touch, Changed, Answer, AnswerPassed,
                PassToken, Spawns
  <2> QED BY <1>0, <2>1, <2>2, QuietIs
<1>3. CASE ExecCall
  <2>1. CASE EndSession \/ CloseSession
    <3>1. PICK after : Release(Who, after)
      BY <2>1 DEF EndSession, CloseSession
    <3>2. queue' = queue /\ reaping' = reaping
      BY <3>1 DEF Release, cleanup
    <3>3. proc' = proc \/ \E ps : proc' = Waited(ps)
      BY <3>1 DEF Release
    <3> QED BY <3>2, <3>3, QuietIs
  <2>2. CASE Proceed \/ JoinSlot \/ LeaveLimiter \/ FinishExit \/ FinishRetry
    <3>1. queue' = queue /\ reaping' = reaping /\ proc' = proc
      BY <2>2 DEF Proceed, JoinSlot, LeaveLimiter, FinishExit, FinishRetry, cleanup
    <3> QED BY <3>1, QuietIs
  <2>3. CASE SpawnSession \/ FinishError
    <3>1. queue' = queue /\ reaping' = reaping
      BY <2>3 DEF SpawnSession, FinishError, cleanup
    <3>2. proc' = proc \/ (Free # {} /\ \E role \in {"check", "session"} : proc' = Spawned(NewPid, role))
      BY <2>3 DEF SpawnSession, FinishError, Spawns
    <3> QED BY <1>0, <3>1, <3>2, QuietIs
  <2>4. CASE Pump
    <3>1. queue' = queue /\ reaping' = reaping
      BY <2>4 DEF Pump, cleanup
    <3>2. proc' = proc \/ \E ps : proc' = Waited(ps)
      BY <2>4 DEF Pump
    <3> QED BY <3>1, <3>2, QuietIs
  <2> QED BY <1>3, <2>1, <2>2, <2>3, <2>4 DEF ExecCall
<1> QED BY <1>1, <1>2, <1>3

(* The commands that wait are run down while nothing is added to them.      *)
LEMMA SettleClean ==
  ASSUME LinkTypes, Clean, Settle
  PROVE  Clean'
<1>1. Drive(queue, reaping, Waited(reaping)) /\ queue = <<>> /\ reaping \in SUBSET Pids
      /\ queue \in Seq({"stop", "delete"})
  BY DEF Settle, Clean, LinkTypes
<1>2. Waited(reaping) \in [Pids -> Procs] /\ \A p \in Pids : p \in Running(reaping) <=> p \in reaping /\ proc[p].st = "run"
  BY WaitedIs
<1>3. PICK new \in SUBSET Free : Driven(queue, reaping, Waited(reaping), new)
  BY <1>1, <1>2, DriveIs
<1>4. queue' = <<>> /\ new = {} /\ reaping' = Running(reaping)
  BY <1>1, <1>3 DEF Driven
<1>5. Running(reaping) = {}
  BY <1>1, <1>2 DEF Clean, Running
<1> QED BY <1>4, <1>5 DEF Clean

(* The link while calls are made: it enters a stage or is up only when      *)
(* nothing of the last start is left, and a call that may come before a     *)
(* deletion does not start it.                                              *)
LEMMA PhaseStep ==
  ASSUME LinkTypes, SessTypes, CallTypes, StackInv, ProcInv, CallsInv, Calls
  PROVE  /\ link'.phase \in {"stage", "up"} => Clean'
         /\ Head(calls).op \in Ending => link'.phase \in {link.phase, "none"}
         /\ Head(calls).op = "unlink" => link'.phase = "none"
<1>0. Touched.phase = link.phase /\ Down.phase = "none"
  BY DEF Touched, Down, LinkTypes, Links
<1>1. CASE QuietReap
  <2>1. Clean => Clean'
    BY <1>1, QuietCalls
  <2>2. link'.phase \in {"stage", "up"} => Clean
    <3>1. CASE Advance
      BY <3>1 DEF Advance, NoHelper, CallsInv, LinkTypes, Links
    <3>2. CASE GoUp
      BY <3>2, NowInv DEF GoUp
    <3>3. CASE WatchEnds
      BY <3>3 DEF WatchEnds, CallsInv, LinkTypes, Links
    <3>4. CASE Collect \/ FinishCheck \/ FinishDeliver \/ PumpAll \/ ReapLeaving
      <4>1. link' = link
        BY <3>4 DEF Collect, FinishCheck, FinishDeliver, PumpAll, ReapLeaving
      <4> QED BY <4>1 DEF CallsInv
    <3> QED BY <1>1, <3>1, <3>2, <3>3, <3>4 DEF QuietReap
  <2>3. Head(calls).op \notin Ending
    BY <1>1 DEF QuietReap, Advance, GoUp, Collect, FinishCheck, FinishDeliver, WatchEnds, PumpAll,
                ReapLeaving, Do, Ending
  <2> QED BY <2>1, <2>2, <2>3 DEF Ending
<1>2. CASE QuietLink
  <2>1. Clean => Clean'
    BY <1>2, QuietCalls
  <2>2. CASE Begin
    <3>1. link' = link \/ link'.phase \in {"cleaning", "failed"}
      BY <2>2 DEF Begin, Began, Down
    <3>2. Head(calls).op = "begin"
      BY <2>2 DEF Begin, Do
    <3> QED BY <2>1, <3>1, <3>2 DEF CallsInv, Ending
  <2>3. CASE StartStage
    <3>1. Clean /\ Head(calls).op = "stage"
      BY <2>3, NowInv DEF StartStage, Do
    <3> QED BY <2>1, <3>1 DEF Ending
  <2>4. CASE ForceDown \/ Touch \/ Changed \/ Answer \/ AnswerPassed
    <3>1. link'.phase = link.phase
      BY <1>0, <2>4 DEF ForceDown, Touch, Changed, Answer, AnswerPassed
    <3>2. Head(calls).op # "unlink"
      BY <2>4 DEF ForceDown, Touch, Changed, Answer, AnswerPassed, Do
    <3> QED BY <2>1, <3>1, <3>2 DEF CallsInv
  <2> QED BY <1>2, <2>2, <2>3, <2>4 DEF QuietLink
<1>3. CASE ExecCall
  <2>1. Clean => Clean'
    BY <1>3, QuietCalls
  <2>2. link' = link
    BY <1>3 DEF ExecCall, Proceed, JoinSlot, SpawnSession, LeaveLimiter, EndSession, CloseSession, Release,
                Pump, FinishExit, FinishError, FinishRetry
  <2>3. Head(calls).op # "unlink"
    BY <1>3 DEF ExecCall, Proceed, JoinSlot, SpawnSession, LeaveLimiter, EndSession, CloseSession,
                Pump, FinishExit, FinishError, FinishRetry, Do
  <2> QED BY <2>1, <2>2, <2>3 DEF CallsInv
<1>4. CASE Settle
  <2>1. link' = link /\ Head(calls).op = "settle"
    BY <1>4 DEF Settle, Do
  <2> QED BY <1>4, <2>1, SettleClean DEF CallsInv, Ending
<1>5. CASE Fail
  <2>1. link'.phase = "failed" /\ Head(calls).op = "fail"
    BY <1>5 DEF Fail, End, Down, Do
  <2> QED BY <2>1 DEF Ending
<1>6. CASE Restart
  <2>1. Head(calls).op = "restart"
    BY <1>6 DEF Restart, Do
  <2>2. CASE link.phase = "up"
    BY <1>0, <1>6, <2>1, <2>2 DEF Restart, End, Ending
  <2>3. CASE link.phase # "up"
    <3>1. UNCHANGED <<link, queue, reaping, proc>>
      BY <1>6, <2>3 DEF Restart, cleanup
    <3> QED BY <2>1, <3>1, QuietIs DEF CallsInv, Ending
  <2> QED BY <2>2, <2>3
<1>7. CASE Unlink
  BY <1>0, <1>7 DEF Unlink, End
<1>8. CASE Delete
  <2>1. link' = link /\ Do("delete")
    BY <1>8 DEF Delete
  <2>2. calls[1].op = "delete" /\ Head(calls) = calls[1] /\ Len(calls) \in Nat \ {0} /\ calls \in Seq(CallSet)
    BY <2>1 DEF Do, AtRest, CallTypes
  <2>3. Len(calls) = 1
    <3>1. 1 \in 1 .. Len(calls)
      BY <2>2
    <3> QED BY <2>2, <3>1 DEF StackInv
  <2>4. \A y \in Elems(calls) : y.op = "delete"
    BY <2>2, <2>3 DEF Elems
  <2>5. link.phase = "none"
    BY <2>1, <2>4, NowInv DEF Ended
  <2> QED BY <2>1, <2>2, <2>5
<1> QED BY <1>1, <1>2, <1>3, <1>4, <1>5, <1>6, <1>7, <1>8
        DEF Calls, ReapCall, LinkCall, QuietReap, QuietLink

(* What is pushed, and what was left.                                       *)
LEMMA TailConcat ==
  ASSUME NEW a \in Seq(CallSet), NEW b \in Seq(CallSet)
  PROVE  Elems(a \o b) = Elems(a) \cup Elems(b)
BY ElemsConcat, Zenon

(* What is left relies on what it did, and so does what is pushed.          *)
LEMMA CallsKeep ==
  ASSUME LinkTypes, CallTypes, StackInv, CallsInv, calls # <<>>, NEW more, Then(more),
         Pushed(more, Head(calls).op),
         \A x \in Elems(more) :
            /\ x.op = "finished" => sess'[x.who].pid = None /\ sess'[x.who].stage = "running"
            /\ x.op \in {"stage", "watch"} => Clean' /\ link'.phase = "cleaning",
         link'.phase \in {"stage", "up"} => Clean',
         Head(calls).op \in Ending => link'.phase \in {link.phase, "none"},
         Head(calls).op = "unlink" => link'.phase = "none",
         Head(calls).op = "down" => \E y \in Elems(more) : y.op = "unlink"
  PROVE  CallsInv'
<1>1. /\ Tail(calls) \in Seq(CallSet) /\ calls \in Seq(CallSet) /\ more \in Seq(CallSet)
      /\ Elems(calls) = {Head(calls)} \cup Elems(Tail(calls))
      /\ Len(calls) \in Nat \ {0} /\ Head(calls) = calls[1]
  BY ElemsTail DEF CallTypes, Pushed
<1>2. calls' = more \o Tail(calls)
  BY DEF Then
<1>3. Elems(calls') = Elems(more) \cup Elems(Tail(calls))
  <2>1. Elems(more \o Tail(calls)) = Elems(more) \cup Elems(Tail(calls))
    BY <1>1, TailConcat
  <2> QED BY <1>2, <2>1
<1>4. \A x \in Elems(Tail(calls)) : x.op \notin AtOnce
  BY DEF StackInv
<1>5. ASSUME NEW x \in Elems(calls'), x.op = "delete" PROVE Ended'
  <2>1. x \in Elems(Tail(calls)) /\ x \in Elems(calls)
    BY <1>1, <1>3, <1>5 DEF Pushed, May
  <2>2. Head(calls).op \in Ending
    BY <1>1, <1>5, <2>1 DEF StackInv
  <2>3. Head(calls).op # "delete"
    <3> SUFFICES ASSUME calls[1].op = "delete" PROVE FALSE
      BY <1>1
    <3>1. 1 \in 1 .. Len(calls)
      BY <1>1
    <3>2. Len(calls) = 1
      BY <3>1 DEF StackInv
    <3>3. Len(Tail(calls)) = 0
      BY <1>1, <3>2
    <3> QED BY <1>1, <2>1, <3>3 DEF Elems
  <2>4. Ended
    BY <1>5, <2>1 DEF CallsInv
  <2>5. CASE link.phase = "none"
    BY <2>2, <2>5 DEF Ended
  <2>6. ASSUME NEW y \in Elems(calls), y.op \in {"down", "unlink"} PROVE Ended'
    <3>1. CASE y \in Elems(Tail(calls))
      BY <1>3, <2>6, <3>1 DEF Ended
    <3>2. CASE y = Head(calls)
      BY <1>3, <2>6, <3>2 DEF Ended
    <3> QED BY <1>1, <3>1, <3>2
  <2> QED BY <2>4, <2>5, <2>6 DEF Ended
<1>6. ASSUME NEW x \in Elems(calls')
      PROVE  /\ x.op = "finished" => sess'[x.who].pid = None /\ sess'[x.who].stage = "running"
             /\ x.op \in {"stage", "watch"} => Clean' /\ link'.phase = "cleaning"
  <2>1. CASE x \in Elems(more)
    BY <2>1
  <2>2. CASE x \in Elems(Tail(calls))
    BY <1>4, <2>2 DEF AtOnce
  <2> QED BY <1>3, <2>1, <2>2
<1> QED BY <1>5, <1>6 DEF CallsInv

(* Calls that push nothing that is made at once.                            *)
LEMMA CallsPlain ==
  ASSUME LinkTypes, SessTypes, CallTypes, StackInv, ProcInv, CallsInv, Calls,
         Head(calls).op \notin Makers, Head(calls).op # "down"
  PROVE  CallsInv'
<1>1. PICK more : Then(more) /\ Pushed(more, Head(calls).op)
  BY CallLeaves DEF Leaves
<1>2. calls # <<>>
  BY CallLeaves
<1>3. \A x \in Elems(more) : x.op \notin AtOnce
  BY <1>1 DEF Pushed
<1>4. \A x \in Elems(more) :
            /\ x.op = "finished" => sess'[x.who].pid = None /\ sess'[x.who].stage = "running"
            /\ x.op \in {"stage", "watch"} => Clean' /\ link'.phase = "cleaning"
  BY <1>3 DEF AtOnce
<1>5. /\ link'.phase \in {"stage", "up"} => Clean'
      /\ Head(calls).op \in Ending => link'.phase \in {link.phase, "none"}
      /\ Head(calls).op = "unlink" => link'.phase = "none"
  BY PhaseStep
<1> QED BY <1>1, <1>2, <1>4, <1>5, CallsKeep

(* The calls that do, and the one that takes the link down.                 *)
LEMMA CallsMake ==
  ASSUME LinkTypes, SessTypes, CallTypes, StackInv, ProcInv, CallsInv,
         Advance \/ Begin \/ Settle \/ Pump \/ ForceDown
  PROVE  CallsInv'
<1> DEFINE Good(more) == \A x \in Elems(more) :
            /\ x.op = "finished" => sess'[x.who].pid = None /\ sess'[x.who].stage = "running"
            /\ x.op \in {"stage", "watch"} => Clean' /\ link'.phase = "cleaning"
<1>0. Calls
  BY DEF Calls, ReapCall, LinkCall, ExecCall
<1>1. /\ calls # <<>>
      /\ link'.phase \in {"stage", "up"} => Clean'
      /\ Head(calls).op \in Ending => link'.phase \in {link.phase, "none"}
      /\ Head(calls).op = "unlink" => link'.phase = "none"
  BY <1>0, PhaseStep, CallLeaves
<1>2. ASSUME NEW op \in {"advance", "begin", "settle", "pump"}, Do(op), NEW more, Then(more),
             Pushed(more, op), Good(more)
      PROVE  CallsInv'
  <2>1. Head(calls).op = op /\ Head(calls).op # "down"
    BY <1>2 DEF Do
  <2> QED BY <1>1, <1>2, <2>1, CallsKeep
<1>3. Good(<<>>) /\ Pushed(<<>>, "advance") /\ Pushed(<<>>, "begin") /\ Pushed(<<>>, "settle") /\ Pushed(<<>>, "pump")
  BY ElemsNone, PushFew
<1>4. \A op \in {"stage", "watch", "fail"}, by \in {"advance", "begin", "settle"} :
         /\ Pushed(<<Plain(op)>>, by) /\ Elems(<<Plain(op)>>) = {Plain(op)} /\ Plain(op).op = op
  <2>1. \A op \in {"stage", "watch", "fail"} : Plain(op) \in CallSet /\ Plain(op).op = op
    BY CallsAre DEF OfLink
  <2> QED BY <2>1, PushFew, ElemsOne DEF May, Ending, Needs, Askers, Makers
<1>5. CASE Advance
  <2>1. CASE link.phase = "stage" /\ Zombie(link.helper)
    <3>1. Clean'
      BY <1>5, <2>1, QuietCalls DEF CallsInv, QuietReap
    <3>2. link'.phase = "cleaning"
      BY <1>5, <2>1 DEF Advance, NoHelper, LinkTypes, Links
    <3>3. PICK op \in {"stage", "watch", "fail"} : Then(<<Plain(op)>>)
      BY <1>5, <2>1 DEF Advance
    <3>4. Good(<<Plain(op)>>)
      BY <1>4, <3>1, <3>2
    <3> QED BY <1>2, <1>4, <1>5, <3>3, <3>4 DEF Advance
  <2>2. CASE ~ (link.phase = "stage" /\ Zombie(link.helper))
    BY <1>2, <1>3, <1>5, <2>2 DEF Advance
  <2> QED BY <2>1, <2>2
<1>6. CASE Begin
  <2>1. CASE Then(<<>>)
    BY <1>2, <1>3, <1>6, <2>1 DEF Begin
  <2>2. CASE ~Pending /\ link' = Began /\ Then(<<Plain("stage")>>)
    <3>1. Clean /\ link'.phase = "cleaning"
      BY <2>2 DEF Pending, Clean, Began, Down
    <3>2. Clean'
      BY <1>6, <3>1, QuietCalls DEF QuietLink
    <3>3. Good(<<Plain("stage")>>)
      BY <1>4, <3>1, <3>2
    <3> QED BY <1>2, <1>4, <1>6, <2>2, <3>3 DEF Begin
  <2> QED BY <1>6, <2>1, <2>2 DEF Begin
<1>7. CASE Settle
  <2>1. link' = link /\ Do("settle") /\ Then(IF Ready THEN <<Plain("stage")>> ELSE <<>>)
    BY <1>7 DEF Settle
  <2>2. CASE Ready
    <3>1. Clean' /\ link'.phase = "cleaning"
      BY <2>1, <2>2 DEF Ready, Pending, Clean
    <3>2. Good(<<Plain("stage")>>)
      BY <1>4, <3>1
    <3> QED BY <1>2, <1>4, <2>1, <2>2, <3>2
  <2>3. CASE ~Ready
    BY <1>2, <1>3, <2>1, <2>3
  <2> QED BY <2>2, <2>3
<1>8. CASE Pump
  <2>1. Who \in Sessions /\ sess \in [Sessions -> Sess]
    BY <1>8, NowIs DEF Pump, OfSession, SessTypes
  <2>2. CASE Then(<<>>)
    BY <1>2, <1>3, <1>8, <2>2 DEF Pump
  <2>3. CASE Runs(Who) /\ sess' = [sess EXCEPT ![Who] = [sess[Who] EXCEPT !.pid = None]]
             /\ Then(<<For("finished", Who)>>)
    <3>1. sess'[Who].pid = None /\ sess'[Who].stage = "running"
      BY <2>1, <2>3 DEF Sess, Runs
    <3>2. /\ For("finished", Who) \in CallSet /\ For("finished", Who).op = "finished"
          /\ For("finished", Who).who = Who
      BY <2>1, CallsAre DEF OfSession
    <3>3. Elems(<<For("finished", Who)>>) = {For("finished", Who)}
      BY <3>2, ElemsOne
    <3>4. Good(<<For("finished", Who)>>)
      BY <3>1, <3>2, <3>3
    <3>5. Pushed(<<For("finished", Who)>>, "pump")
      BY <3>2, PushFew DEF May, Ending, Needs, Askers, Makers
    <3> QED BY <1>2, <1>8, <2>3, <3>4, <3>5 DEF Pump
  <2> QED BY <1>8, <2>2, <2>3 DEF Pump, SetSess
<1>9. CASE ForceDown
  <2> DEFINE queued == {c \in Sessions : Queued(c)}
             others == {c \in Sessions : Using(c)} \ queued
             s == SetToSeq(queued) \o SetToSeq(others)
             more == ForEach("release", s) \o <<Plain("unlink")>>
  <2>1. s \in Seq(Sessions)
    <3>1. SetToSeq(queued) \in Seq(Sessions) /\ SetToSeq(others) \in Seq(Sessions)
      BY RestOfSessions
    <3> QED BY <3>1
  <2>2. Then(ForEach("release", s) \o <<Plain("unlink")>>) /\ Do("down")
    BY <1>9 DEF ForceDown
  <2> HIDE DEF s
  <2>3. /\ ForEach("release", s) \in Seq(CallSet)
        /\ \A x \in Elems(ForEach("release", s)) : x.op = "release"
    BY <2>1, ForEachIs DEF OfSession
  <2>4. /\ <<Plain("unlink")>> \in Seq(CallSet) /\ Plain("unlink").op = "unlink"
        /\ Elems(<<Plain("unlink")>>) = {Plain("unlink")}
    BY CallsAre, ElemsOne DEF OfLink
  <2>5. Pushed(more, "down")
    BY <2>3, <2>4, PushBoth DEF AtOnce, May, Ending, Needs, Askers
  <2>6. Elems(more) = Elems(ForEach("release", s)) \cup {Plain("unlink")}
    <3>1. ForEach("release", s) \in Seq(CallSet) /\ <<Plain("unlink")>> \in Seq(CallSet)
      BY <2>3, <2>4
    <3>2. Elems(more) = Elems(ForEach("release", s)) \cup Elems(<<Plain("unlink")>>)
      BY <3>1, ElemsConcat, Zenon
    <3> QED BY <2>4, <3>2
  <2>7. Good(more) /\ \E y \in Elems(more) : y.op = "unlink"
    BY <2>3, <2>4, <2>6
  <2>8. Head(calls).op = "down"
    BY <2>2 DEF Do
  <2> HIDE DEF more
  <2>9. Then(more)
    BY <2>2 DEF more
  <2> QED BY <1>1, <2>5, <2>7, <2>8, <2>9, CallsKeep
<1> QED BY <1>5, <1>6, <1>7, <1>8, <1>9

(* What the calls rely on holds after every step.                           *)
LEMMA CallsStep ==
  ASSUME LinkTypes, SessTypes, CallTypes, StackInv, ProcInv, CallsInv, [Next]_vars
  PROVE  CallsInv'
<1>1. CASE Calls
  <2>1. CASE Advance \/ Begin \/ Settle \/ Pump \/ ForceDown
    BY <2>1, CallsMake
  <2>2. CASE ~ (Advance \/ Begin \/ Settle \/ Pump \/ ForceDown)
    <3>1. Head(calls).op \notin Makers /\ Head(calls).op # "down"
      BY <1>1, <2>2 DEF Calls, ReapCall, LinkCall, ExecCall, Proceed, JoinSlot, SpawnSession, LeaveLimiter,
         EndSession, CloseSession, FinishExit, FinishError, FinishRetry, GoUp,
         Collect, FinishCheck, FinishDeliver, WatchEnds, PumpAll, ReapLeaving,
         StartStage, Fail, Restart, Unlink, Delete, Touch, Changed, Answer, AnswerPassed, Do, Makers
    <3> QED BY <1>1, <3>1, CallsPlain
  <2> QED BY <2>1, <2>2
<1>2. ASSUME link'.phase = link.phase, queue' = queue, reaping' = reaping,
             \/ proc' = proc
             \/ \E ps : proc' = Waited(ps)
             \/ Free # {} /\ \E role \in RolesOf : proc' = Spawned(NewPid, role)
             \/ \E p \in Pids : proc' = [proc EXCEPT ![p].st = "zombie"],
             Starts \/ (calls' = calls /\ (sess' = sess \/ calls = <<>>))
      PROVE  CallsInv'
  <2>1. Clean => Clean'
    BY <1>2, QuietIs
  <2>2. link'.phase \in {"stage", "up"} => Clean'
    BY <1>2, <2>1 DEF CallsInv
  <2>3. CASE Starts
    <3>1. CASE \A x \in Elems(calls') : x.op # "delete"
      BY <2>2, <2>3, <3>1 DEF Starts, AtOnce, CallsInv
    <3>2. CASE calls' = <<Plain("down"), Plain("delete")>>
      <4>1. Plain("down").op = "down" /\ Plain("down") \in Elems(calls')
        <5>1. Plain("down").op = "down"
          BY DEF Plain, Call
        <5>2. Len(calls') = 2 /\ calls'[1] = Plain("down")
          BY <3>2
        <5> QED BY <5>1, <5>2 DEF Elems
      <4>2. Ended'
        BY <4>1 DEF Ended
      <4> QED BY <2>2, <2>3, <4>2 DEF Starts, AtOnce, CallsInv
    <3> QED BY <2>3, <3>1, <3>2 DEF Starts
  <2>4. CASE calls' = calls /\ sess' = sess
    <3>1. Ended => Ended'
      BY <1>2, <2>4 DEF Ended
    <3> QED BY <1>2, <2>1, <2>2, <2>4, <3>1 DEF CallsInv
  <2>5. CASE calls' = calls /\ calls = <<>>
    BY <2>2, <2>5, ElemsNone DEF CallsInv
  <2> QED BY <1>2, <2>3, <2>4, <2>5
<1>3. CASE Timers \/ Requests \/ Reap
  <2>1. Starts \/ (calls' = calls /\ calls = <<>>)
    BY <1>3, RequestStarts
  <2>2. link'.phase = link.phase /\ queue' = queue /\ reaping' = reaping
    BY <1>3 DEF Timers, Requests, Reap, IdleDue, UpLimit, QuickLimit, UpRoute, DownRoute, DeleteRoute,
                PaneArrives, PaneLeaves, WaitRoute, WaitEnds, OpenSession, ExecRequest, FailSession,
                CloseConn, ReadOutput, cleanup, LinkTypes, Links
  <2>3. \/ proc' = proc
        \/ \E ps : proc' = Waited(ps)
        \/ Free # {} /\ \E role \in {"check"} : proc' = Spawned(NewPid, role)
    BY <1>3 DEF Timers, Requests, Reap, IdleDue, UpLimit, QuickLimit, UpRoute, DownRoute, DeleteRoute,
                PaneArrives, PaneLeaves, WaitRoute, WaitEnds, OpenSession, ExecRequest, FailSession,
                CloseConn, ReadOutput, Spawns
  <2>4. "check" \in RolesOf
    BY DEF RolesOf
  <2> QED BY <1>2, <2>1, <2>2, <2>3, <2>4
<1>4. ASSUME NEW p \in Pids, ProcessEnds(p) PROVE CallsInv'
  <2>1. /\ link' = link /\ queue' = queue /\ reaping' = reaping /\ calls' = calls /\ sess' = sess
        /\ proc' = [proc EXCEPT ![p].st = "zombie"]
    BY <1>4 DEF ProcessEnds, cleanup, execs
  <2> QED BY <1>2, <2>1
<1>5. CASE UNCHANGED vars
  <2>1. UNCHANGED <<link, queue, reaping, calls, sess, proc>>
    BY <1>5 DEF vars, cleanup, execs
  <2> QED BY <1>2, <2>1
<1> QED BY <1>1, <1>3, <1>4, <1>5 DEF Next

-----------------------------------------------------------------------------
RuntimesInv == LinkTypes /\ SessTypes /\ CallTypes /\ StackInv /\ ProcInv /\ CallsInv

(* The parts of the invariant hold of the empty server, ...                 *)
LEMMA RuntimesInit == Init => RuntimesInv
<1> SUFFICES ASSUME Init PROVE RuntimesInv
  OBVIOUS
<1>1. link \in Links /\ link.helper = None /\ link.watch = None /\ link.phase = "none"
  BY DEF Init, Down, Links
<1>2. NoProc \in Procs /\ NoProc.st = "free"
  BY DEF NoProc, Procs, RolesOf
<1>3. LinkTypes
  BY <1>1, <1>2, FS_EmptySet DEF Init, LinkTypes
<1>4. SessTypes
  BY NoSessIs DEF Init, SessTypes, NoSessions, Limiters
<1>5. CallTypes
  BY DEF Init, CallTypes
<1>6. Elems(calls) = {} /\ calls = <<>> /\ Len(calls) = 0
  BY ElemsNone DEF Init
<1>7. StackInv /\ CallsInv
  BY <1>1, <1>6 DEF StackInv, CallsInv
<1>8. \A c \in Sessions : sess[c].pid = None
  BY NoSessIs DEF Init
<1>9. OneOwner
  BY <1>1, <1>8 DEF OneOwner, Init
<1>10. \A p \in Pids : proc[p].st = "free"
  BY <1>2 DEF Init
<1>11. Accounted
  <2>1. \A p \in Pids : ~Used(p)
    BY <1>1, <1>8, NoneIsNone DEF Used, Init
  <2> QED BY <1>10, <2>1, AccountedIs DEF AccountedAt
<1>12. RolesKept
  BY <1>8, <1>10 DEF RolesKept, Init
<1> QED BY <1>3, <1>4, <1>5, <1>7, <1>9, <1>11, <1>12 DEF RuntimesInv, ProcInv

(* ... and every step keeps them.                                           *)
LEMMA RuntimesStep == RuntimesInv /\ [Next]_vars => RuntimesInv'
<1> SUFFICES ASSUME RuntimesInv, [Next]_vars PROVE RuntimesInv'
  OBVIOUS
<1>1. LinkTypes /\ SessTypes /\ CallTypes /\ StackInv /\ ProcInv /\ CallsInv
  BY DEF RuntimesInv
<1>2. LinkTypes' /\ ProcInv' /\ SessTypes'
  BY <1>1, ProcStep
<1>3. calls' \in Seq(CallSet) /\ StackInv'
  BY <1>1, StackStep
<1>4. CallTypes'
  BY <1>1, <1>3, WaitsTypes DEF CallTypes
<1>5. CallsInv'
  BY <1>1, CallsStep
<1> QED BY <1>2, <1>3, <1>4, <1>5 DEF RuntimesInv

(* RuntimesInv holds of every state: processes, their owners, and what the  *)
(* calls of the handler that runs rely on.                                  *)
THEOREM RuntimesHolds == Spec => []RuntimesInv
<1>1. RuntimesInv /\ UNCHANGED vars => RuntimesInv'
  BY RuntimesStep
<1> QED BY RuntimesInit, RuntimesStep, PTL DEF Spec

(* A set of at most one element.                                            *)
LEMMA AtMostOne ==
  ASSUME NEW S, \A x, y \in S : x = y
  PROVE  Cardinality(S) = IF S = {} THEN 0 ELSE 1
<1>1. CASE S = {}
  BY <1>1, FS_EmptySet
<1>2. CASE S # {}
  <2>1. PICK x : x \in S
    BY <1>2
  <2>2. S = {x}
    BY <2>1
  <2> QED BY <1>2, <2>2, FS_Singleton
<1> QED BY <1>1, <1>2

(* Every process that the server started has one owner that will wait for   *)
(* it (runtime/mod.rs, state/exec_ops.rs, runtime/leaving.rs): it is in use *)
(* once, or on a list of those that leave.                                  *)
THEOREM HelpersHaveOwner == Spec => []HelpersOwned
<1>1. RuntimesInv => HelpersOwned
  <2> SUFFICES ASSUME RuntimesInv PROVE HelpersOwned
    OBVIOUS
  <2>1. LinkTypes /\ SessTypes /\ OneOwner /\ Accounted
    BY DEF RuntimesInv, ProcInv
  <2>2. \A p \in Pids : proc[p].st # "free" => p \in InUse \cup Listed
    BY <2>1 DEF Accounted
  <2>3. InUse \cap Listed = {}
    BY <2>1, PidsAre DEF Accounted
  <2>4. ASSUME NEW p \in Pids
        PROVE  Cardinality({c \in children : c.pid = p}) + Cardinality({c \in Sessions : sess[c].pid = p})
                 + (IF p \in {link.helper, link.watch} THEN 1 ELSE 0) <= 1
    <3> DEFINE A == {c \in children : c.pid = p}
               B == {c \in Sessions : sess[c].pid = p}
    <3>1. p # None
      BY NoneIsNone
    <3>2. Cardinality(A) = IF A = {} THEN 0 ELSE 1
      <4>1. \A x, y \in A : x = y
        BY <2>1 DEF OneOwner
      <4> QED BY <4>1, AtMostOne
    <3>3. Cardinality(B) = IF B = {} THEN 0 ELSE 1
      <4>1. \A x, y \in B : x = y
        BY <2>1, <3>1 DEF OneOwner
      <4> QED BY <4>1, AtMostOne
    <3>4. A # {} => B = {} /\ p \notin {link.helper, link.watch}
      BY <2>1, <3>1 DEF OneOwner
    <3>5. B # {} => A = {} /\ p \notin {link.helper, link.watch}
      BY <2>1, <3>1 DEF OneOwner
    <3> HIDE DEF A, B
    <3>6. Cardinality(A) + Cardinality(B) + (IF p \in {link.helper, link.watch} THEN 1 ELSE 0) <= 1
      BY <3>2, <3>3, <3>4, <3>5
    <3> QED BY <3>6 DEF A, B
  <2> QED BY <2>2, <2>3, <2>4 DEF HelpersOwned
<1> QED BY <1>1, RuntimesHolds, PTL

(* An old command never stops a new start (runtime/mod.rs, begin and        *)
(* settle): beside a stage or a watch of the link no command of an earlier  *)
(* start runs, and none waits to run.                                       *)
THEOREM StartsAreClean == Spec => []CleanStart
<1>1. RuntimesInv => CleanStart
  BY DEF RuntimesInv, ProcInv, RolesKept, CallsInv, Clean, CleanStart, OfStart
<1> QED BY <1>1, RuntimesHolds, PTL

-----------------------------------------------------------------------------
(* Waiters.  A call that changes what the link is, or whose check has its   *)
(* answer, has a later one in its handler that tells those who wait.        *)
Tells == {"changed", "notice"}
Calm == {s \in Seq(CallSet) : \A x \in Elems(s) : x.op \notin Needs}
Told == {s \in Seq(CallSet) : \A j \in 1 .. Len(s) : s[j].op \in Needs =>
                                \E k \in 1 .. Len(s) : j < k /\ s[k].op \in Tells}

(* Which rows of calls tell.                                                *)
LEMMA ToldConcat ==
  ASSUME NEW a \in Seq(CallSet), NEW b \in Seq(CallSet)
  PROVE  /\ a \in Calm /\ b \in Told => a \o b \in Told
         /\ b \in Told /\ (\E x \in Elems(b) : x.op \in Tells) => a \o b \in Told
         /\ a \in Told /\ b \in Calm => a \o b \in Told
<1>1. /\ a \o b \in Seq(CallSet) /\ Len(a \o b) = Len(a) + Len(b)
      /\ \A k \in 1 .. Len(a) : (a \o b)[k] = a[k]
      /\ \A k \in 1 .. Len(b) : (a \o b)[Len(a) + k] = b[k]
  BY ElemsConcat
<1>2. Len(a) \in Nat /\ Len(b) \in Nat
  OBVIOUS
<1> DEFINE s == a \o b
<1> HIDE DEF s
<1>3. /\ s \in Seq(CallSet) /\ Len(s) = Len(a) + Len(b)
      /\ \A k \in 1 .. Len(a) : s[k] = a[k] /\ k \in 1 .. Len(s)
      /\ \A k \in 1 .. Len(b) : s[Len(a) + k] = b[k] /\ Len(a) + k \in 1 .. Len(s)
      /\ \A j \in 1 .. Len(s) : j \in 1 .. Len(a) \/ \E k \in 1 .. Len(b) : j = Len(a) + k
  <2>1. ASSUME NEW j \in 1 .. Len(a) + Len(b), j \notin 1 .. Len(a)
        PROVE  \E k \in 1 .. Len(b) : j = Len(a) + k
    <3>1. j - Len(a) \in 1 .. Len(b) /\ j = Len(a) + (j - Len(a))
      BY <1>2, <2>1
    <3> QED BY <3>1
  <2> DEFINE m == Len(a)    n == Len(b)
  <2>2. /\ \A k \in 1 .. m : k \in 1 .. m + n
        /\ \A k \in 1 .. n : m + k \in 1 .. m + n
    <3>1. m \in Nat /\ n \in Nat
      BY <1>2
    <3> HIDE DEF m, n
    <3> QED BY <3>1
  <2>3. s \in Seq(CallSet) /\ Len(s) = m + n
    BY <1>1 DEF s
  <2>4. /\ \A k \in 1 .. m : s[k] = a[k]
        /\ \A k \in 1 .. n : s[m + k] = b[k]
    BY <1>1 DEF s
  <2>5. \A j \in 1 .. m + n : j \in 1 .. m \/ \E k \in 1 .. n : j = m + k
    BY <2>1
  <2> QED BY <2>2, <2>3, <2>4, <2>5
<1>4. ASSUME b \in Told, NEW k \in 1 .. Len(b), b[k].op \in Needs
      PROVE  \E i \in 1 .. Len(s) : Len(a) + k < i /\ s[i].op \in Tells
  <2>1. PICK i \in 1 .. Len(b) : k < i /\ b[i].op \in Tells
    BY <1>4 DEF Told
  <2>2. Len(a) + k < Len(a) + i
    BY <1>2, <2>1
  <2> QED BY <1>3, <2>1, <2>2
<1>5. ASSUME a \in Calm, b \in Told PROVE s \in Told
  <2>1. \A j \in 1 .. Len(a) : a[j].op \notin Needs
    BY <1>5 DEF Calm, Elems
  <2>2. ASSUME NEW j \in 1 .. Len(s), s[j].op \in Needs
        PROVE  \E i \in 1 .. Len(s) : j < i /\ s[i].op \in Tells
    <3>1. PICK k \in 1 .. Len(b) : j = Len(a) + k
      BY <1>3, <2>1, <2>2
    <3>2. b[k].op \in Needs
      BY <1>3, <2>2, <3>1
    <3> QED BY <1>4, <1>5, <3>1, <3>2
  <2> QED BY <1>3, <2>2 DEF Told
<1>6. ASSUME b \in Told, NEW x \in Elems(b), x.op \in Tells PROVE s \in Told
  <2>1. PICK i \in 1 .. Len(b) : b[i].op \in Tells
    BY <1>6 DEF Elems
  <2>2. \A j \in 1 .. Len(a) : j < Len(a) + i
    BY <1>2
  <2>3. \A j \in 1 .. Len(a) : \E k \in 1 .. Len(s) : j < k /\ s[k].op \in Tells
    BY <1>3, <2>1, <2>2
  <2>4. ASSUME NEW j \in 1 .. Len(s), s[j].op \in Needs
        PROVE  \E k \in 1 .. Len(s) : j < k /\ s[k].op \in Tells
    <3>1. CASE j \in 1 .. Len(a)
      BY <2>3, <3>1
    <3>2. CASE j \notin 1 .. Len(a)
      <4>1. PICK k \in 1 .. Len(b) : j = Len(a) + k
        BY <1>3, <3>2
      <4>2. b[k].op \in Needs
        BY <1>3, <2>4, <4>1
      <4> QED BY <1>4, <1>6, <4>1, <4>2
    <3> QED BY <3>1, <3>2
  <2> QED BY <1>3, <2>4 DEF Told
<1>7. ASSUME a \in Told, b \in Calm PROVE s \in Told
  <2>1. \A j \in 1 .. Len(b) : b[j].op \notin Needs
    BY <1>7 DEF Calm, Elems
  <2>2. \A j \in 1 .. Len(a) : a[j].op \in Needs => \E k \in 1 .. Len(a) : j < k /\ a[k].op \in Tells
    BY <1>7 DEF Told
  <2> QED BY <1>3, <2>1, <2>2 DEF Told
<1> QED BY <1>5, <1>6, <1>7 DEF s

(* What is left of a row that tells; and rows without a change.             *)
LEMMA ToldTail ==
  /\ \A s \in Calm : s \in Told
  /\ \A s \in Told : s # <<>> =>
        /\ Tail(s) \in Told
        /\ Head(s).op \in Needs => \E x \in Elems(Tail(s)) : x.op \in Tells
<1>1. ASSUME NEW s \in Calm PROVE s \in Told
  BY DEF Calm, Told, Elems
<1>2. ASSUME NEW s \in Told, s # <<>>
      PROVE  /\ Tail(s) \in Told
             /\ Head(s).op \in Needs => \E x \in Elems(Tail(s)) : x.op \in Tells
  <2>1. /\ s \in Seq(CallSet) /\ Tail(s) \in Seq(CallSet) /\ Len(Tail(s)) = Len(s) - 1
        /\ Len(s) \in Nat \ {0} /\ Head(s) = s[1]
        /\ \A k \in 1 .. Len(Tail(s)) : Tail(s)[k] = s[k + 1]
    BY <1>2, ElemsTail DEF Told
  <2> DEFINE t == Tail(s)
  <2> HIDE DEF t
  <2>2. /\ t \in Seq(CallSet) /\ Len(t) = Len(s) - 1
        /\ \A k \in 1 .. Len(t) : t[k] = s[k + 1] /\ k + 1 \in 1 .. Len(s)
        /\ \A k \in 1 .. Len(s) : k > 1 => k - 1 \in 1 .. Len(t) /\ t[k - 1] = s[k]
    BY <2>1 DEF t
  <2>3. \A j \in 1 .. Len(s) : s[j].op \in Needs => \E k \in 1 .. Len(s) : j < k /\ s[k].op \in Tells
    BY <1>2 DEF Told
  <2>4. ASSUME NEW j \in 1 .. Len(t), t[j].op \in Needs
        PROVE  \E k \in 1 .. Len(t) : j < k /\ t[k].op \in Tells
    <3>1. PICK k \in 1 .. Len(s) : j + 1 < k /\ s[k].op \in Tells
      BY <2>2, <2>3, <2>4
    <3>2. k - 1 \in 1 .. Len(t) /\ j < k - 1 /\ t[k - 1].op \in Tells
      BY <2>2, <3>1
    <3> QED BY <3>2
  <2>5. ASSUME s[1].op \in Needs PROVE \E x \in Elems(t) : x.op \in Tells
    <3>1. PICK k \in 1 .. Len(s) : 1 < k /\ s[k].op \in Tells
      BY <2>1, <2>3, <2>5
    <3>2. k - 1 \in 1 .. Len(t) /\ t[k - 1].op \in Tells
      BY <2>2, <3>1
    <3> QED BY <3>2 DEF Elems
  <2> QED BY <2>1, <2>2, <2>4, <2>5 DEF Told, t
<1> QED BY <1>1, <1>2

(* Calls push only what tells, or what a later call tells.                  *)
LEMMA ToldCall ==
  ASSUME LinkTypes, SessTypes, CallTypes, calls \in Told, Calls
  PROVE  calls' \in Told
<1>1. PICK more : Then(more) /\ Pushed(more, Head(calls).op)
  BY CallLeaves DEF Leaves
<1>2. calls # <<>> /\ more \in Seq(CallSet) /\ Tail(calls) \in Told /\ Tail(calls) \in Seq(CallSet)
  BY <1>1, CallLeaves, ToldTail, ElemsTail DEF Pushed, CallTypes
<1>3. CASE Head(calls).op \in Needs
  BY <1>1, <1>2, <1>3, ToldTail, ToldConcat DEF Then
<1>4. CASE Head(calls).op \notin Needs
  <2>1. more \in Calm
    BY <1>1, <1>2, <1>4 DEF Pushed, May, Calm
  <2> QED BY <1>1, <1>2, <2>1, ToldConcat DEF Then
<1> QED BY <1>3, <1>4

(* So do the handlers when they start.                                      *)
LEMMA ToldStart ==
  ASSUME CallTypes, calls \in Told, Timers \/ Requests \/ Reap
  PROVE  calls' \in Told
<1>0. /\ \A op \in OfLink : <<Plain(op)>> \in Seq(CallSet) /\ Elems(<<Plain(op)>>) = {Plain(op)}
      /\ \A op \in OfLink : Plain(op).op = op
      /\ \A op \in OfSession, c \in Sessions : /\ <<For(op, c)>> \in Seq(CallSet)
                                               /\ Elems(<<For(op, c)>>) = {For(op, c)}
                                               /\ For(op, c).op = op
  BY CallsAre, ElemsOne
<1>1. \A op \in OfLink \ Needs : <<Plain(op)>> \in Calm /\ <<Plain(op)>> \in Told
  <2>1. \A op \in OfLink \ Needs : <<Plain(op)>> \in Calm
    BY <1>0 DEF Calm
  <2>2. \A s \in Calm : s \in Told
    BY ToldTail
  <2> HIDE DEF Calm, Told
  <2> QED BY <2>1, <2>2, Zenon
<1>2. \A op \in OfSession, c \in Sessions : <<For(op, c)>> \in Calm /\ <<For(op, c)>> \in Told
  <2>1. \A op \in OfSession, c \in Sessions : <<For(op, c)>> \in Calm
    BY <1>0 DEF Calm, OfSession, Needs
  <2>2. \A s \in Calm : s \in Told
    BY ToldTail
  <2> HIDE DEF Calm, Told
  <2> QED BY <2>1, <2>2, Zenon
<1>3. \A op \in Tells : \A a \in Seq(CallSet) : a \o <<Plain(op)>> \in Told
  <2>1. \A op \in Tells : op \in OfLink \ Needs
    BY DEF Tells, OfLink, Needs
  <2>2. \A op \in Tells : <<Plain(op)>> \in Seq(CallSet) /\ <<Plain(op)>> \in Told
                          /\ \E x \in Elems(<<Plain(op)>>) : x.op \in Tells
    BY <1>0, <1>1, <2>1
  <2> QED BY <2>2, ToldConcat
<1>4. <<>> \in Calm /\ <<>> \in Told
  BY ElemsNone, ToldTail DEF Calm
<1>5. BeginCalls \in Seq(CallSet) /\ <<Plain("fail")>> \in Seq(CallSet) /\ Notice = <<Plain("notice")>>
  BY <1>0 DEF BeginCalls, Notice, OfLink
<1>6. CASE UpRoute
  BY <1>3, <1>5, <1>6 DEF UpRoute, Handler, Tells
<1>7. CASE DownRoute
  BY <1>1, <1>7 DEF DownRoute, Handler, OfLink, Needs
<1>8. CASE DeleteRoute
  <2>1. <<Plain("down"), Plain("delete")>> = <<Plain("down")>> \o <<Plain("delete")>>
    OBVIOUS
  <2>2. <<Plain("down")>> \in Calm /\ <<Plain("delete")>> \in Told
    BY <1>1 DEF OfLink, Needs
  <2>3. <<Plain("down")>> \in Seq(CallSet) /\ <<Plain("delete")>> \in Seq(CallSet)
    BY <1>0 DEF OfLink
  <2>4. <<Plain("down")>> \o <<Plain("delete")>> \in Told
    BY <2>2, <2>3, ToldConcat
  <2> QED BY <1>8, <2>1, <2>4 DEF DeleteRoute, Handler
<1>9. CASE PaneArrives
  <2>1. <<Plain("begin")>> \in Seq(CallSet)
    BY <1>0 DEF OfLink
  <2> QED BY <1>3, <1>5, <1>9, <2>1 DEF PaneArrives, Handler, Tells
<1>10. CASE PaneLeaves
  BY <1>1, <1>5, <1>10 DEF PaneLeaves, Handler, OfLink, Needs
<1>11. ASSUME NEW c \in Sessions, ExecRequest(c) PROVE calls' \in Told
  <2> DEFINE a == <<Plain("touch"), For("proceed", c), Plain("changed")>>
             b == <<Plain("touch"), For("proceed", c)>>
  <2>1. Plain("touch") \in CallSet /\ For("proceed", c) \in CallSet /\ Plain("changed") \in CallSet
    BY CallsAre DEF OfLink, OfSession
  <2>2. b \in Seq(CallSet) /\ a = b \o <<Plain("changed")>>
    BY <2>1
  <2>3. a \in Told
    <3> HIDE DEF a, b
    <3> QED BY <1>3, <2>2 DEF Tells
  <2>6. a \in Seq(CallSet) /\ a[3] = Plain("changed") /\ Len(a) = 3
    BY <2>1
  <2>4. \E x \in Elems(a) : x.op \in Tells
    <3>1. Plain("changed") \in Elems(a)
      BY <2>6 DEF Elems
    <3> QED BY <1>0, <3>1 DEF OfLink, Tells
  <2> HIDE DEF a
  <2>5. BeginCalls \o a \in Told
    BY <1>5, <2>3, <2>4, <2>6, ToldConcat
  <2> QED BY <1>11, <2>5 DEF ExecRequest, Handler, a
<1>12. ASSUME NEW c \in Sessions, FailSession(c) \/ CloseConn(c) \/ ReadOutput(c) PROVE calls' \in Told
  BY <1>2, <1>12 DEF FailSession, CloseConn, ReadOutput, Handler, OfSession
<1>13. CASE IdleDue
  BY <1>1, <1>4, <1>13 DEF IdleDue, Handler, OfLink, Needs
<1>14. CASE UpLimit
  <2>1. <<Plain("fail"), Plain("changed")>> = <<Plain("fail")>> \o <<Plain("changed")>>
    OBVIOUS
  <2> QED BY <1>3, <1>5, <1>14, <2>1 DEF UpLimit, Handler, Tells
<1>15. ASSUME NEW c \in children, QuickLimit(c) PROVE calls' \in Told
  BY <1>1, <1>15 DEF QuickLimit, Handler, OfLink, Needs
<1>16. CASE Reap
  <2> DEFINE When(cond, op) == IF cond THEN <<Plain(op)>> ELSE <<>>
             a == When(link.phase = "stage" /\ Zombie(link.helper), "advance")
             b == When(\E c \in children : Zombie(c.pid), "collect")
             d == When(Zombie(link.watch), "watched")
             e == When(\E c \in Sessions : Queued(c) \/ Runs(c), "pumps")
             f == When(\E p \in Listed : Zombie(p), "bury")
  <2>1. /\ a \in Seq(CallSet) /\ b \in Seq(CallSet) /\ d \in Seq(CallSet)
        /\ <<Plain("settle")>> \in Seq(CallSet) /\ <<Plain("changed")>> \in Seq(CallSet)
    BY <1>0 DEF OfLink
  <2>2. e \in Calm /\ f \in Calm
    BY <1>1, <1>4 DEF OfLink, Needs
  <2>3. ReapCalls = a \o b \o <<Plain("settle")>> \o d \o <<Plain("changed")>> \o e \o f
    BY DEF ReapCalls
  <2> HIDE DEF a, b, d, e, f
  <2> DEFINE g == a \o b \o <<Plain("settle")>> \o d
  <2>4. g \in Seq(CallSet)
    BY <2>1
  <2>5. g \o <<Plain("changed")>> \in Told
    <3> HIDE DEF g
    <3> QED BY <1>3, <2>4 DEF Tells
  <2> DEFINE h == g \o <<Plain("changed")>>
  <2> HIDE DEF h
  <2>6. h \o e \in Told
    BY <2>2, <2>5, ToldConcat DEF h, Told, Calm
  <2>7. (h \o e) \o f \in Told
    BY <2>2, <2>6, ToldConcat DEF Told, Calm
  <2> QED BY <1>16, <2>3, <2>7 DEF Reap, Handler, h
<1>17. ASSUME NEW w \in Waiters, WaitRoute(w) \/ WaitEnds(w) PROVE calls' \in Told
  BY <1>17 DEF WaitRoute, WaitEnds
<1>18. ASSUME NEW c \in Sessions, OpenSession(c) PROVE calls' \in Told
  BY <1>18 DEF OpenSession
<1> QED BY <1>6, <1>7, <1>8, <1>9, <1>10, <1>11, <1>12, <1>13, <1>14, <1>15, <1>16, <1>17, <1>18
        DEF Timers, Requests

(* Who waits for the link waits for a start, or will be told; and so will   *)
(* those whose check has its answer.                                        *)
WaitsTold ==
  /\ calls \in Told
  /\ waits # <<>> /\ LinkState # "starting" => \E x \in Elems(calls) : x.op \in Tells \cup {"unlink"}
  /\ passed # {} => \E x \in Elems(calls) : x.op \in Tells \cup {"passed"}

(* Nobody starts to wait without a start, and a link that does not start    *)
(* any more comes of calls that are followed by one that tells.             *)
LEMMA ToldWaits ==
  ASSUME LinkTypes, SessTypes, CallTypes, WaitsTold, Calls,
         Head(calls).op \notin Needs, ~\E x \in Elems(Tail(calls)) : x.op \in Tells \cup {"unlink"},
         waits' # <<>>, LinkState' # "starting"
  PROVE  \E x \in Elems(calls') : x.op \in Tells \cup {"unlink"}
<1>1. /\ calls # <<>> /\ Tail(calls) \in Seq(CallSet)
      /\ Elems(calls) = {Head(calls)} \cup Elems(Tail(calls))
  BY CallLeaves, ElemsTail DEF CallTypes
<1>2. CASE Changed
  BY <1>2 DEF Changed, Touched, LinkState, LinkTypes, Links
<1>3. CASE Unlink
  BY <1>3 DEF Unlink
<1>4. CASE ~Changed /\ ~Unlink
  <2>1. Head(calls).op \notin Tells \cup {"unlink"}
    BY <1>4 DEF Calls, ReapCall, LinkCall, ExecCall, Proceed, JoinSlot, SpawnSession, LeaveLimiter,
         EndSession, CloseSession, Pump, FinishExit, FinishError, FinishRetry, Advance, GoUp,
         Collect, FinishCheck, FinishDeliver, Settle, WatchEnds, PumpAll, ReapLeaving, Begin,
         StartStage, Fail, Restart, ForceDown, Delete, Touch, Answer, AnswerPassed, Do, Tells
  <2>2. waits = <<>> \/ LinkState = "starting"
    BY <1>1, <2>1 DEF WaitsTold
  <2>3. link'.phase = link.phase /\ (waits' = waits \/ LinkState = "starting" \/ \E S : waits' = Only(waits, S))
    <3>1. CASE ReapCall
      BY <1>4, <3>1 DEF ReapCall, Advance, GoUp, Collect, FinishCheck, FinishDeliver, Settle, WatchEnds,
         PumpAll, ReapLeaving, Do, Needs, registry, LinkTypes, Links
    <3>2. CASE LinkCall
      BY <1>4, <3>2 DEF LinkCall, Begin, StartStage, Fail, Restart, ForceDown, Delete, Touch, Touched,
         Answer, AnswerPassed, Do, Needs, registry, LinkTypes, Links
    <3>3. CASE ExecCall
      <4>1. link' = link
        BY <3>3 DEF ExecCall, Proceed, JoinSlot, SpawnSession, LeaveLimiter, EndSession, CloseSession, Release,
           Pump, FinishExit, FinishError, FinishRetry
      <4>2. CASE Proceed
        BY <4>1, <4>2 DEF Proceed
      <4>3. CASE EndSession \/ CloseSession
        BY <4>1, <4>3 DEF EndSession, CloseSession, Release, Forgotten
      <4>4. CASE JoinSlot \/ SpawnSession \/ LeaveLimiter \/ Pump \/ FinishExit \/ FinishError \/ FinishRetry
        BY <4>1, <4>4 DEF JoinSlot, SpawnSession, LeaveLimiter, Pump, FinishExit, FinishError, FinishRetry, registry
      <4> QED BY <3>3, <4>2, <4>3, <4>4 DEF ExecCall
    <3> QED BY <3>1, <3>2, <3>3 DEF Calls
  <2>4. LinkState' = LinkState
    BY <2>3 DEF LinkState
  <2>5. \A S : Only(<<>>, S) = <<>>
    <3>1. <<>> \in Seq({}) /\ Elems(<<>>) = {}
      BY ElemsNone
    <3>2. \A S : Only(<<>>, S) \in Seq({})
      BY <3>1, ElemsOnly
    <3> QED BY <3>2
  <2> QED BY <2>2, <2>3, <2>4, <2>5
<1> QED BY <1>2, <1>3, <1>4

(* Nor is a check answered without one.                                     *)
LEMMA ToldPassed ==
  ASSUME LinkTypes, SessTypes, CallTypes, WaitsTold, Calls,
         Head(calls).op \notin Needs, ~\E x \in Elems(Tail(calls)) : x.op \in Tells \cup {"passed"},
         passed' # {}
  PROVE  \E x \in Elems(calls') : x.op \in Tells \cup {"passed"}
<1>1. /\ calls # <<>> /\ Tail(calls) \in Seq(CallSet)
      /\ Elems(calls) = {Head(calls)} \cup Elems(Tail(calls))
  BY CallLeaves, ElemsTail DEF CallTypes
<1>2. \A a \in Seq(CallSet) : \A op \in OfLink :
         /\ Plain(op) \in Elems((a \o <<Plain(op)>>) \o Tail(calls)) /\ Plain(op).op = op
  <2> SUFFICES ASSUME NEW a \in Seq(CallSet), NEW op \in OfLink
               PROVE  Plain(op) \in Elems((a \o <<Plain(op)>>) \o Tail(calls)) /\ Plain(op).op = op
    OBVIOUS
  <2>1. Plain(op) \in CallSet /\ Plain(op).op = op
    BY CallsAre
  <2>2. <<Plain(op)>> \in Seq(CallSet) /\ Elems(<<Plain(op)>>) = {Plain(op)}
    BY <2>1, ElemsOne
  <2>3. /\ a \o <<Plain(op)>> \in Seq(CallSet)
        /\ Elems(a \o <<Plain(op)>>) = Elems(a) \cup {Plain(op)}
    <3> DEFINE b == <<Plain(op)>>
    <3>1. b \in Seq(CallSet) /\ Elems(b) = {Plain(op)}
      BY <2>2
    <3> HIDE DEF b
    <3>2. a \o b \in Seq(CallSet) /\ Elems(a \o b) = Elems(a) \cup Elems(b)
      BY <3>1, ElemsConcat
    <3> QED BY <3>1, <3>2 DEF b
  <2>4. Elems((a \o <<Plain(op)>>) \o Tail(calls)) = Elems(a \o <<Plain(op)>>) \cup Elems(Tail(calls))
    BY <1>1, <2>3, TailConcat
  <2> QED BY <2>1, <2>3, <2>4
<1>3. CASE Changed
  <2>1. CASE Settled = <<>>
    BY <1>3, <2>1 DEF Changed, TellPassed
  <2>2. CASE Settled # <<>>
    <3>1. Settled = waits /\ LinkState \in {"down", "up", "failed"}
      BY <2>2 DEF Settled, LinkState, LinkTypes, Links
    <3>2. Answers(waits, LinkState) \in Seq(CallSet)
      BY <3>1, AnswersIs DEF CallTypes
    <3>3. calls' = (Answers(waits, LinkState) \o <<Plain("passed")>>) \o Tail(calls)
      BY <1>3, <2>2, <3>1 DEF Changed, Then
    <3> QED BY <1>2, <3>2, <3>3 DEF OfLink
  <2> QED BY <2>1, <2>2
<1>4. CASE Unlink
  <2>1. Answers(waits, "down") \in Seq(CallSet)
    BY AnswersIs DEF CallTypes
  <2>2. calls' = (Answers(waits, "down") \o <<Plain("changed")>>) \o Tail(calls)
    BY <1>4 DEF Unlink, Then
  <2> QED BY <1>2, <2>1, <2>2 DEF OfLink, Tells
<1>5. CASE AnswerPassed
  BY <1>5 DEF AnswerPassed, TellPassed
<1>6. CASE ~Changed /\ ~Unlink /\ ~AnswerPassed
  <2>1. Head(calls).op \notin Tells \cup {"passed"}
    BY <1>6 DEF Calls, ReapCall, LinkCall, ExecCall, Proceed, JoinSlot, SpawnSession, LeaveLimiter,
         EndSession, CloseSession, Pump, FinishExit, FinishError, FinishRetry, Advance, GoUp,
         Collect, FinishCheck, FinishDeliver, Settle, WatchEnds, PumpAll, ReapLeaving, Begin,
         StartStage, Fail, Restart, ForceDown, Delete, Touch, Answer, Do, Tells
  <2>2. passed = {}
    BY <1>1, <2>1 DEF WaitsTold
  <2>3. passed' = passed
    <3>1. CASE ReapCall
      BY <1>6, <3>1 DEF ReapCall, Advance, GoUp, Collect, FinishCheck, FinishDeliver, Settle, WatchEnds,
         PumpAll, ReapLeaving, Do, Needs, registry
    <3>2. CASE LinkCall
      BY <1>6, <3>2 DEF LinkCall, Begin, StartStage, Fail, Restart, ForceDown, Delete, Touch,
         Answer, Do, Needs, registry
    <3>3. CASE ExecCall
      BY <3>3 DEF ExecCall, Proceed, JoinSlot, SpawnSession, LeaveLimiter, EndSession, CloseSession, Release,
         Pump, FinishExit, FinishError, FinishRetry, registry
    <3> QED BY <3>1, <3>2, <3>3 DEF Calls
  <2> QED BY <2>2, <2>3
<1> QED BY <1>3, <1>4, <1>5, <1>6

(* Those who wait are told, in every step.                                  *)
LEMMA ToldStep ==
  ASSUME LinkTypes, SessTypes, CallTypes, WaitsTold, [Next]_vars
  PROVE  WaitsTold'
<1>1. CASE Calls
  <2>1. calls' \in Told
    BY <1>1, ToldCall DEF WaitsTold
  <2>2. PICK more : Then(more) /\ Pushed(more, Head(calls).op)
    BY <1>1, CallLeaves DEF Leaves
  <2>3. calls # <<>> /\ more \in Seq(CallSet) /\ Tail(calls) \in Seq(CallSet)
    BY <1>1, <2>2, CallLeaves, ElemsTail DEF Pushed, CallTypes
  <2>4. Elems(Tail(calls)) \subseteq Elems(calls')
    <3>1. Elems(more \o Tail(calls)) = Elems(more) \cup Elems(Tail(calls))
      BY <2>3, TailConcat
    <3> QED BY <2>2, <3>1 DEF Then
  <2>5. Head(calls).op \in Needs => \E x \in Elems(Tail(calls)) : x.op \in Tells
    BY <2>3, ToldTail DEF WaitsTold
  <2> QED BY <1>1, <2>1, <2>4, <2>5, ToldWaits, ToldPassed DEF WaitsTold
<1>2. CASE Timers \/ Requests \/ Reap
  <2>1. calls' \in Told
    BY <1>2, ToldStart DEF WaitsTold
  <2>2. calls = <<>>
    BY <1>2, RequestStarts DEF Starts
  <2>3. (waits # <<>> => LinkState = "starting") /\ passed = {}
    BY <2>2, ElemsNone DEF WaitsTold
  <2>4. LinkState' = LinkState
    <3>1. link'.phase = link.phase
      BY <1>2 DEF Timers, Requests, Reap, IdleDue, UpLimit, QuickLimit, UpRoute, DownRoute, DeleteRoute,
                PaneArrives, PaneLeaves, WaitRoute, WaitEnds, OpenSession, ExecRequest, FailSession,
                CloseConn, ReadOutput, LinkTypes, Links
    <3> QED BY <3>1 DEF LinkState
  <2>5. ASSUME NEW c \in children, QuickLimit(c) PROVE \E x \in Elems(calls') : x.op \in Tells
    <3>1. Plain("changed").op = "changed" /\ Elems(<<Plain("changed")>>) = {Plain("changed")}
      BY CallsAre, ElemsOne DEF OfLink
    <3> QED BY <2>5, <3>1 DEF QuickLimit, Handler, Tells
  <2>6. CASE \E c \in children : QuickLimit(c)
    BY <2>1, <2>5, <2>6 DEF WaitsTold
  <2>7. CASE ~\E c \in children : QuickLimit(c)
    <3>1. passed' = passed
      BY <1>2, <2>7 DEF Timers, Requests, Reap, IdleDue, UpLimit, UpRoute, DownRoute, DeleteRoute,
                PaneArrives, PaneLeaves, WaitRoute, WaitEnds, OpenSession, ExecRequest, FailSession,
                CloseConn, ReadOutput, registry
    <3>2. waits' = waits \/ LinkState = "starting" \/ \E S : waits' = Only(waits, S)
      BY <1>2, <2>7 DEF Timers, Requests, Reap, IdleDue, UpLimit, UpRoute, DownRoute, DeleteRoute,
                PaneArrives, PaneLeaves, WaitRoute, WaitEnds, Forgotten, OpenSession, ExecRequest, FailSession,
                CloseConn, ReadOutput, registry
    <3>3. \A S : Only(<<>>, S) = <<>>
      <4>1. <<>> \in Seq({})
        BY ElemsNone
      <4>2. \A S : Only(<<>>, S) \in Seq({})
        BY <4>1, ElemsOnly
      <4> QED BY <4>2
    <3> QED BY <2>1, <2>3, <2>4, <3>1, <3>2, <3>3 DEF WaitsTold
  <2> QED BY <2>6, <2>7
<1>3. ASSUME NEW p \in Pids, ProcessEnds(p) PROVE WaitsTold'
  <2>1. UNCHANGED <<calls, waits, link, passed>>
    BY <1>3 DEF ProcessEnds, registry
  <2> QED BY <2>1 DEF WaitsTold, LinkState
<1>4. CASE UNCHANGED vars
  <2>1. UNCHANGED <<calls, waits, link, passed>>
    BY <1>4 DEF vars, registry
  <2> QED BY <2>1 DEF WaitsTold, LinkState
<1> QED BY <1>1, <1>2, <1>3, <1>4 DEF Next

(* A waiter is at one place: in the row of waits, in a call to come, with a *)
(* child, or with a check that has its answer.                              *)
About(w) == {x \in CallSet : x.who = w}
One(b) == IF b THEN 1 ELSE 0
Has(w) == Hits(waits, {w}) + Hits(calls, About(w))
          + One(\E c \in children : c.who = w) + One(w \in passed)

WaitsOnce ==
  /\ held \subseteq Waiters
  /\ \A c, d \in children : c.who = d.who /\ c.who # None => c = d
  /\ \A w \in Waiters : Has(w) = One(w \in held)

(* Each of the counts.                                                      *)
LEMMA HasParts ==
  ASSUME CallTypes
  PROVE  \A w : Hits(waits, {w}) \in Nat /\ Hits(calls, About(w)) \in Nat
BY HitsType DEF CallTypes

(* What a call takes from the calls about somebody, and pushes.             *)
LEMMA CallsCount ==
  ASSUME CallTypes, calls # <<>>, NEW more \in Seq(CallSet), Then(more), NEW w
  PROVE  /\ Hits(calls', About(w)) \in Nat /\ Hits(more, About(w)) \in Nat /\ Hits(calls, About(w)) \in Nat
         /\ Hits(calls', About(w)) + One(Head(calls).who = w) = Hits(more, About(w)) + Hits(calls, About(w))
<1>1. calls \in Seq(CallSet) /\ Tail(calls) \in Seq(CallSet) /\ Head(calls) \in CallSet
  BY ElemsTail DEF CallTypes
<1>2. Hits(more \o Tail(calls), About(w)) = Hits(more, About(w)) + Hits(Tail(calls), About(w))
  BY <1>1, HitsConcat
<1>3. Hits(calls, About(w)) = Hits(Tail(calls), About(w)) + IF Head(calls) \in About(w) THEN 1 ELSE 0
  BY <1>1, HitsEnds
<1>4. Head(calls) \in About(w) <=> Head(calls).who = w
  BY <1>1 DEF About
<1>5. Hits(more, About(w)) \in Nat /\ Hits(Tail(calls), About(w)) \in Nat
  BY <1>1, HitsType
<1>6. calls' = more \o Tail(calls)
  BY DEF Then
<1> QED BY <1>2, <1>3, <1>4, <1>5, <1>6 DEF One

(* Only answers and finishes are about waiters.                             *)
LEMMA NoneAbout ==
  ASSUME NEW more \in Seq(CallSet), \A x \in Elems(more) : x.op \notin {"answer", "finish"},
         NEW w \in Waiters
  PROVE  Hits(more, About(w)) = 0
<1>1. \A x \in Elems(more) : x \in CallSet
  BY DEF Elems
<1>2. \A x \in CallSet : x.who = w => x.op \in {"answer", "finish"}
  BY NoneIsNone, RuntimesAssumption DEF CallSet
<1>3. Elems(more) \cap About(w) = {}
  BY <1>1, <1>2 DEF About
<1> QED BY <1>3, HitsType

(* The row of waits loses a session, or gets one.                           *)
LEMMA WaitsCount ==
  ASSUME CallTypes, NEW w \in Waiters
  PROVE  /\ \A c \in Sessions : Hits(Append(waits, c), {w}) = Hits(waits, {w})
         /\ \A c : c # w => Hits(Only(waits, ToSet(waits) \ {c}), {w}) = Hits(waits, {w})
         /\ Hits(Only(waits, ToSet(waits) \ {w}), {w}) = 0
         /\ Hits(Append(waits, w), {w}) = Hits(waits, {w}) + 1
         /\ \A c \in Waiters : c # w => Hits(Append(waits, c), {w}) = Hits(waits, {w})
<1>1. waits \in Seq(Waiters \cup Sessions) /\ Hits(waits, {w}) \in Nat
  BY HasParts DEF CallTypes
<1>2. \A c \in Waiters \cup Sessions : Hits(Append(waits, c), {w}) = Hits(waits, {w}) + IF c \in {w} THEN 1 ELSE 0
  BY <1>1, HitsEnds
<1>3. ToSet(waits) = Elems(waits)
  BY <1>1, ToSetIs
<1>4. \A T : Hits(Only(waits, T), {w}) = Hits(waits, {w} \cap T)
  BY <1>1, HitsOnly
<1>5. ASSUME NEW c, c # w PROVE Hits(Only(waits, ToSet(waits) \ {c}), {w}) = Hits(waits, {w})
  <2> DEFINE T == {w} \cap (ToSet(waits) \ {c})
  <2>1. \A x \in Elems(waits) : x \in T <=> x \in {w}
    BY <1>3, <1>5
  <2> HIDE DEF T
  <2>2. Hits(waits, T) = Hits(waits, {w})
    BY <2>1, HitsSame
  <2> QED BY <1>4, <2>2 DEF T
<1>6. Hits(Only(waits, ToSet(waits) \ {w}), {w}) = 0
  <2>1. Hits(waits, {}) = 0
    BY <1>1, HitsType
  <2>2. {w} \cap (ToSet(waits) \ {w}) = {}
    OBVIOUS
  <2> QED BY <1>4, <2>1, <2>2
<1>7. \A c \in Sessions : c # w
  BY RuntimesAssumption
<1>8. \A c \in Waiters \cup Sessions : c # w => Hits(Append(waits, c), {w}) = Hits(waits, {w})
  <2> SUFFICES ASSUME NEW c \in Waiters \cup Sessions, c # w
               PROVE  Hits(Append(waits, c), {w}) = Hits(waits, {w})
    OBVIOUS
  <2>1. Hits(Append(waits, c), {w}) = Hits(waits, {w}) + IF c \in {w} THEN 1 ELSE 0
    BY <1>2
  <2> QED BY <1>1, <2>1
<1>9. Hits(Append(waits, w), {w}) = Hits(waits, {w}) + 1
  BY <1>2
<1> QED BY <1>5, <1>6, <1>7, <1>8, <1>9

(* A step that is about no waiter.                                          *)
LEMMA OnceStill ==
  ASSUME CallTypes, WaitsOnce, passed' = passed, held' = held,
         children' = children \/ \E c : c.who = None /\ children' = children \cup {c},
         \A w \in Waiters : Hits(waits', {w}) = Hits(waits, {w})
                            /\ Hits(calls', About(w)) = Hits(calls, About(w))
  PROVE  WaitsOnce'
<1>1. \A w \in Waiters : w # None
  BY NoneIsNone
<1>2. \A w \in Waiters : (\E c \in children' : c.who = w) <=> (\E c \in children : c.who = w)
  BY <1>1
<1>3. \A c, d \in children' : c.who = d.who /\ c.who # None => c = d
  BY DEF WaitsOnce
<1>4. \A w \in Waiters : Has(w)' = Has(w)
  BY <1>2 DEF Has, One
<1> QED BY <1>3, <1>4 DEF WaitsOnce, One

(* A call that is about no waiter, and pushes none that is.                 *)
LEMMA OnceCall ==
  ASSUME CallTypes, WaitsOnce, calls # <<>>, passed' = passed, held' = held,
         Head(calls).op \notin {"answer", "finish"} \/ Head(calls).who \notin Waiters,
         children' = children \/ \E c : c.who = None /\ children' = children \cup {c},
         \A w \in Waiters : Hits(waits', {w}) = Hits(waits, {w}),
         NEW more \in Seq(CallSet), Then(more), \A x \in Elems(more) : x.op \notin {"answer", "finish"}
  PROVE  WaitsOnce'
<1>1. Head(calls) \in CallSet
  BY ElemsTail DEF CallTypes
<1>2. Head(calls).who \notin Waiters
  BY <1>1, NoneIsNone, RuntimesAssumption DEF CallSet
<1>3. ASSUME NEW w \in Waiters PROVE Hits(calls', About(w)) = Hits(calls, About(w))
  <2>1. Hits(more, About(w)) = 0
    BY NoneAbout
  <2>2. /\ Hits(calls', About(w)) \in Nat /\ Hits(calls, About(w)) \in Nat
        /\ Hits(calls', About(w)) + One(Head(calls).who = w) = Hits(more, About(w)) + Hits(calls, About(w))
    BY CallsCount
  <2>3. One(Head(calls).who = w) = 0
    BY <1>2 DEF One
  <2> QED BY <2>1, <2>2, <2>3
<1> QED BY <1>3, OnceStill

(* The calls that answer somebody, or that ask for answers.                 *)
Tellers == Askers \cup {"answer", "finish", "fail", "restart", "passed"}

(* The calls that are about no waiter.                                      *)
LEMMA OnceMost ==
  ASSUME LinkTypes, SessTypes, CallTypes, WaitsOnce, Calls, Head(calls).op \notin Tellers
  PROVE  WaitsOnce'
<1>1. PICK more : Then(more) /\ Pushed(more, Head(calls).op)
  BY CallLeaves DEF Leaves
<1>2. /\ calls # <<>> /\ more \in Seq(CallSet) /\ \A x \in Elems(more) : x.op \notin {"answer", "finish"}
      /\ Head(calls).op \notin {"answer", "finish"}
  BY <1>1, CallLeaves DEF Pushed, May, Tellers
<1>3. /\ passed' = passed /\ held' = held
      /\ children' = children \/ \E c : c.who = None /\ children' = children \cup {c}
      /\ waits' = waits \/ \E c \in Sessions : waits' = Append(waits, c) \/ waits' = Only(waits, ToSet(waits) \ {c})
  <2>1. CASE ReapCall
    BY <2>1 DEF ReapCall, Advance, GoUp, Collect, FinishCheck, FinishDeliver, Settle, WatchEnds,
         PumpAll, ReapLeaving, Do, Tellers, Askers, registry, clients
  <2>2. CASE LinkCall
    BY <2>2 DEF LinkCall, Begin, StartStage, Fail, Restart, ForceDown, Unlink, Delete, Touch, Changed,
         Answer, AnswerPassed, Do, Tellers, Askers, registry, clients
  <2>3. CASE Proceed
    BY <2>3, NowIs DEF Proceed, OfSession, clients
  <2>4. CASE EndSession \/ CloseSession
    <3>1. Who \in Sessions /\ \E after : Release(Who, after)
      BY <2>4, NowIs DEF EndSession, CloseSession, OfSession
    <3> QED BY <3>1 DEF Release, Forgotten, clients
  <2>5. CASE FinishError
    <3>1. \A p, job, who : Child(p, job, who).who = who
      BY DEF Child
    <3> QED BY <2>5, <3>1 DEF FinishError, Spawns, clients
  <2>6. CASE JoinSlot \/ SpawnSession \/ LeaveLimiter \/ Pump \/ FinishExit \/ FinishRetry
    BY <2>6 DEF JoinSlot, SpawnSession, LeaveLimiter, Pump, FinishExit, FinishRetry, registry, clients
  <2> QED BY <2>1, <2>2, <2>3, <2>4, <2>5, <2>6 DEF Calls, ExecCall
<1>4. ASSUME NEW w \in Waiters PROVE Hits(waits', {w}) = Hits(waits, {w})
  <2>1. \A c \in Sessions : c # w
    BY RuntimesAssumption
  <2> QED BY <1>3, <2>1, WaitsCount
<1> QED BY <1>1, <1>2, <1>3, <1>4, OnceCall

(* The end of the link: its children's waiters have their answer.           *)
LEMMA OnceEnd ==
  ASSUME LinkTypes, CallTypes, CallTypes', WaitsOnce, NEW after, End(after), held' = held,
         \A w \in Waiters : Hits(waits', {w}) + Hits(calls', About(w)) = Hits(waits, {w}) + Hits(calls, About(w))
  PROVE  WaitsOnce'
<1>1. children' = {} /\ passed' = passed \cup ({c.who : c \in children} \ {None})
  BY DEF End
<1>2. ASSUME NEW w \in Waiters PROVE Has(w)' = Has(w)
  <2>1. w # None
    BY NoneIsNone
  <2>2. Hits(waits, {w}) \in Nat /\ Hits(calls, About(w)) \in Nat
    BY HasParts
  <2>3. Hits(waits', {w}) \in Nat /\ Hits(calls', About(w)) \in Nat
    BY HitsType DEF CallTypes
  <2>4. Has(w) \in {0, 1}
    BY DEF WaitsOnce, One
  <2>5. One(\E c \in children : c.who = w) + One(w \in passed) \in {0, 1}
    BY <2>2, <2>4 DEF Has, One
  <2>6. (w \in passed') <=> (w \in passed \/ \E c \in children : c.who = w)
    BY <1>1, <2>1
  <2>7. One(\E c \in children' : c.who = w) + One(w \in passed')
        = One(\E c \in children : c.who = w) + One(w \in passed)
    BY <1>1, <2>5, <2>6 DEF One
  <2>8. One(\E c \in children : c.who = w) \in Nat /\ One(w \in passed) \in Nat
        /\ One(\E c \in children' : c.who = w) \in Nat /\ One(w \in passed') \in Nat
    BY DEF One
  <2> DEFINE a == Hits(waits, {w}) + Hits(calls, About(w))
             b == One(\E c \in children : c.who = w)
             d == One(w \in passed)
             a1 == Hits(waits', {w}) + Hits(calls', About(w))
             b1 == One(\E c \in children' : c.who = w)
             d1 == One(w \in passed')
  <2>9. a \in Nat /\ a1 = a
    BY <2>2, <2>3
  <2>10. b \in Nat /\ b1 \in Nat /\ d \in Nat /\ d1 \in Nat /\ b1 + d1 = b + d
    BY <2>7, <2>8
  <2>11. Has(w) = a + b + d /\ Has(w)' = a1 + b1 + d1
    BY DEF Has
  <2> HIDE DEF a, b, d, a1, b1, d1
  <2> QED BY <2>9, <2>10, <2>11
<1> QED BY <1>1, <1>2 DEF WaitsOnce, One

(* Answers to those who wait: one call for each place in the row.           *)
LEMMA AnswersCount ==
  ASSUME NEW state \in {"down", "up", "failed"}, NEW s \in Seq(Waiters \cup Sessions), NEW op \in OfLink,
         NEW w \in Waiters
  PROVE  /\ Answers(s, state) \o <<Plain(op)>> \in Seq(CallSet)
         /\ Hits(Answers(s, state) \o <<Plain(op)>>, About(w)) = Hits(s, {w})
<1>1. Len(s) \in Nat /\ DOMAIN s = 1 .. Len(s) /\ \A i \in 1 .. Len(s) : s[i] \in Waiters \cup Sessions
  OBVIOUS
<1>2. Answers(s, state) = [i \in 1 .. Len(s) |-> Call("answer", s[i], state)]
  BY <1>1 DEF Answers
<1>3. \A i \in 1 .. Len(s) : Call("answer", s[i], state) \in CallSet /\ Call("answer", s[i], state).who = s[i]
  BY <1>1, CallsAre
<1>4. Answers(s, state) \in Seq(CallSet) /\ Len(Answers(s, state)) = Len(s)
      /\ \A i \in 1 .. Len(s) : Answers(s, state)[i] = Call("answer", s[i], state)
  BY <1>1, <1>2, <1>3
<1>5. Spots(Answers(s, state), About(w)) = Spots(s, {w})
  BY <1>3, <1>4 DEF Spots, About
<1>6. Plain(op) \in CallSet /\ Plain(op).who # w
  <2>1. Plain(op).who = None
    BY DEF Plain, Call
  <2> QED BY <2>1, CallsAre, NoneIsNone
<1>7. <<Plain(op)>> \in Seq(CallSet) /\ Hits(<<Plain(op)>>, About(w)) = 0
  <2>1. Plain(op) \notin About(w)
    BY <1>6 DEF About
  <2> QED BY <1>6, <2>1, HitsOne, ElemsOne
<1> DEFINE a == Answers(s, state)
           b == <<Plain(op)>>
<1>8. a \in Seq(CallSet) /\ b \in Seq(CallSet) /\ Hits(a, About(w)) = Hits(s, {w}) /\ Hits(b, About(w)) = 0
  BY <1>4, <1>5, <1>7 DEF Hits
<1> HIDE DEF a, b
<1>9. a \o b \in Seq(CallSet) /\ Hits(a \o b, About(w)) = Hits(a, About(w)) + Hits(b, About(w))
  BY <1>8, HitsConcat
<1>10. Hits(a, About(w)) \in Nat
  BY <1>8, HitsType
<1> QED BY <1>8, <1>9, <1>10 DEF a, b

(* A waiter's place moves, or goes with what it holds.                      *)
LEMMA HasMoves ==
  ASSUME CallTypes, CallTypes', WaitsOnce, NEW w \in Waiters,
         NEW dp \in Int, NEW dq \in Int, NEW dk \in Int, NEW dt \in Int,
         Hits(waits', {w}) = Hits(waits, {w}) + dp,
         Hits(calls', About(w)) = Hits(calls, About(w)) + dq,
         One(\E c \in children' : c.who = w) = One(\E c \in children : c.who = w) + dk,
         One(w \in passed') = One(w \in passed) + dt,
         One(w \in held') = One(w \in held) + dp + dq + dk + dt
  PROVE  Has(w)' = One(w \in held')
<1> DEFINE p == Hits(waits, {w})    q == Hits(calls, About(w))
           k == One(\E c \in children : c.who = w)    t == One(w \in passed)
           p1 == Hits(waits', {w})    q1 == Hits(calls', About(w))
           k1 == One(\E c \in children' : c.who = w)    t1 == One(w \in passed')
           h == One(w \in held)    h1 == One(w \in held')
<1>1. p \in Nat /\ q \in Nat /\ k \in Nat /\ t \in Nat /\ h \in Nat /\ h1 \in Nat
  BY HasParts DEF One
<1>2. p1 = p + dp /\ q1 = q + dq /\ k1 = k + dk /\ t1 = t + dt /\ h1 = h + dp + dq + dk + dt
  OBVIOUS
<1>3. Has(w) = p + q + k + t /\ Has(w)' = p1 + q1 + k1 + t1 /\ Has(w) = h
  BY DEF Has, WaitsOnce
<1> HIDE DEF p, q, k, t, p1, q1, k1, t1, h, h1
<1>4. p1 + q1 + k1 + t1 = h1
  BY <1>1, <1>2, <1>3
<1> QED BY <1>3, <1>4 DEF h1

(* Who has one place has no other, and is held.                             *)
LEMMA HasOnce ==
  ASSUME CallTypes, WaitsOnce, NEW w \in Waiters
  PROVE  /\ Hits(waits, {w}) \in Nat /\ Hits(calls, About(w)) \in Nat
         /\ Hits(calls, About(w)) >= 1 => w \in held /\ w \notin passed /\ ~\E c \in children : c.who = w
         /\ (\E c \in children : c.who = w) => w \in held /\ w \notin passed
         /\ w \in passed => w \in held
         /\ w \notin held => Hits(waits, {w}) = 0 /\ ~\E c \in children : c.who = w
         /\ w \in held /\ calls = <<>> /\ w \notin passed =>
              Hits(waits, {w}) >= 1 \/ \E c \in children : c.who = w
<1> DEFINE p == Hits(waits, {w})    q == Hits(calls, About(w))
           k == One(\E c \in children : c.who = w)    t == One(w \in passed)
           h == One(w \in held)
<1>1. p \in Nat /\ q \in Nat /\ k \in Nat /\ t \in Nat
  BY HasParts DEF One
<1>2. p + q + k + t = h
  BY DEF Has, WaitsOnce
<1>3. /\ (\E c \in children : c.who = w) <=> k = 1
      /\ w \in passed <=> t = 1
      /\ w \in held <=> h = 1
      /\ k \in {0, 1} /\ t \in {0, 1} /\ h \in {0, 1}
  BY DEF One
<1>4. calls = <<>> => q = 0
  BY HitsOne
<1> HIDE DEF p, q, k, t, h
<1>5. /\ q >= 1 => h = 1 /\ t = 0 /\ k = 0
      /\ k = 1 => h = 1 /\ t = 0
      /\ t = 1 => h = 1
      /\ h = 0 => p = 0 /\ k = 0
      /\ h = 1 /\ q = 0 /\ t = 0 => p >= 1 \/ k = 1
  BY <1>1, <1>2, <1>3
<1> QED BY <1>1, <1>3, <1>4, <1>5 DEF p, q

(* The call at hand is about somebody who waits.                            *)
LEMMA NowOnce ==
  ASSUME CallTypes, WaitsOnce, calls # <<>>, Head(calls).who \in Waiters
  PROVE  LET w == Head(calls).who
         IN w \in held /\ w \notin passed /\ ~\E c \in children : c.who = w
<1> DEFINE w == Head(calls).who
<1>1. calls \in Seq(CallSet) /\ Head(calls) \in CallSet /\ Tail(calls) \in Seq(CallSet)
  BY ElemsTail DEF CallTypes
<1>2. Hits(calls, About(w)) = Hits(Tail(calls), About(w)) + 1
  <2>1. Head(calls) \in About(w)
    BY <1>1 DEF About
  <2> QED BY <1>1, <2>1, HitsEnds
<1>3. Hits(Tail(calls), About(w)) \in Nat
  BY <1>1, HitsType
<1>4. Hits(calls, About(w)) >= 1 /\ w \in Waiters
  BY <1>2, <1>3
<1> HIDE DEF w
<1>5. w \in held /\ w \notin passed /\ ~\E c \in children : c.who = w
  BY <1>4, HasOnce
<1> QED BY <1>5 DEF w

(* Those whose check has its answer get it.                                 *)
LEMMA OnceTold ==
  ASSUME CallTypes, CallTypes', WaitsOnce, TellPassed, children' = children,
         \A w \in Waiters : Hits(waits', {w}) = Hits(waits, {w})
                            /\ Hits(calls', About(w)) = Hits(calls, About(w))
  PROVE  WaitsOnce'
<1>1. held' = held \ passed /\ passed' = {}
  BY DEF TellPassed
<1>2. ASSUME NEW w \in Waiters PROVE Has(w)' = One(w \in held')
  <2>1. w \in passed => w \in held
    BY HasOnce
  <2>2. Hits(waits, {w}) \in Nat /\ Hits(calls, About(w)) \in Nat
    BY HasParts
  <2>3. CASE w \in passed
    <3>1. One(w \in passed') = One(w \in passed) + (0 - 1) /\ One(w \in held') = One(w \in held) + 0 + 0 + 0 + (0 - 1)
      BY <1>1, <2>1, <2>3 DEF One
    <3>2. One(\E c \in children' : c.who = w) = One(\E c \in children : c.who = w) + 0
      BY DEF One
    <3>3. Hits(waits', {w}) = Hits(waits, {w}) + 0 /\ Hits(calls', About(w)) = Hits(calls, About(w)) + 0
      BY <2>2
    <3>4. 0 \in Int /\ 0 - 1 \in Int
      OBVIOUS
    <3> QED BY <3>1, <3>2, <3>3, <3>4, HasMoves
  <2>4. CASE w \notin passed
    <3>1. One(w \in passed') = One(w \in passed) + 0 /\ One(w \in held') = One(w \in held) + 0 + 0 + 0 + 0
      BY <1>1, <2>4 DEF One
    <3>2. One(\E c \in children' : c.who = w) = One(\E c \in children : c.who = w) + 0
      BY DEF One
    <3>3. Hits(waits', {w}) = Hits(waits, {w}) + 0 /\ Hits(calls', About(w)) = Hits(calls, About(w)) + 0
      BY <2>2
    <3>4. 0 \in Int
      OBVIOUS
    <3> QED BY <3>1, <3>2, <3>3, <3>4, HasMoves
  <2> QED BY <2>3, <2>4
<1> QED BY <1>1, <1>2 DEF WaitsOnce

(* A waiter's call becomes a child, a check with an answer, or the answer.  *)
LEMMA OnceNow ==
  ASSUME CallTypes, CallTypes', WaitsOnce, calls # <<>>, waits' = waits,
         NEW more \in Seq(CallSet), Then(more), \A x \in Elems(more) : x.op \notin {"answer", "finish"},
         NEW w \in Waiters, w = Head(calls).who,
         \/ /\ held' = held /\ passed' = passed
            /\ \E c : c.who = w /\ children' = children \cup {c}
         \/ held' = held /\ children' = children /\ passed' = passed \cup {w}
         \/ held' = held \ {w} /\ children' = children /\ passed' = passed
  PROVE  WaitsOnce'
<1>1. w \in held /\ w \notin passed /\ ~\E c \in children : c.who = w
  BY NowOnce
<1>2. ASSUME NEW v \in Waiters PROVE Hits(calls', About(v)) = Hits(calls, About(v)) + (0 - One(v = w))
  <2>1. Hits(more, About(v)) = 0
    BY NoneAbout
  <2>2. /\ Hits(calls', About(v)) \in Nat /\ Hits(calls, About(v)) \in Nat
        /\ Hits(calls', About(v)) + One(Head(calls).who = v) = Hits(more, About(v)) + Hits(calls, About(v))
    BY CallsCount
  <2>3. One(Head(calls).who = v) = One(v = w) /\ One(v = w) \in Nat
    BY DEF One
  <2> QED BY <2>1, <2>2, <2>3
<1>3. \A c, d \in children' : c.who = d.who /\ c.who # None => c = d
  BY <1>1 DEF WaitsOnce
<1>4. ASSUME NEW v \in Waiters PROVE Has(v)' = One(v \in held')
  <2> DEFINE dk == One(\E c \in children' : c.who = v) - One(\E c \in children : c.who = v)
             dt == One(v \in passed') - One(v \in passed)
             dq == 0 - One(v = w)
  <2>1. dk \in Int /\ dt \in Int /\ dq \in Int /\ 0 \in Int
    BY DEF One
  <2>2. Hits(waits', {v}) = Hits(waits, {v}) + 0
    <3>1. Hits(waits, {v}) \in Nat
      BY HasParts
    <3> QED BY <3>1
  <2>3. One(\E c \in children' : c.who = v) = One(\E c \in children : c.who = v) + dk
        /\ One(v \in passed') = One(v \in passed) + dt
    BY DEF One
  <2>4. One(v \in held') = One(v \in held) + 0 + dq + dk + dt
    <3>1. CASE v = w
      BY <1>1, <3>1 DEF One
    <3>2. CASE v # w
      <4>1. (\E c \in children' : c.who = v) <=> (\E c \in children : c.who = v)
        BY <3>2
      <4>2. (v \in passed' <=> v \in passed) /\ (v \in held' <=> v \in held)
        BY <3>2
      <4> QED BY <3>2, <4>1, <4>2 DEF One
    <3> QED BY <3>1, <3>2
  <2>5. Hits(calls', About(v)) = Hits(calls, About(v)) + dq
    BY <1>2
  <2> HIDE DEF dk, dt, dq
  <2> QED BY <2>1, <2>2, <2>3, <2>4, <2>5, HasMoves
<1> QED BY <1>3, <1>4 DEF WaitsOnce

(* Who has the link's answer is told so, and the others get theirs.         *)
LEMMA OnceChanged ==
  ASSUME LinkTypes, CallTypes, CallTypes', WaitsOnce, Changed
  PROVE  WaitsOnce'
<1>1. /\ calls # <<>> /\ Head(calls).op \in {"changed", "notice"} /\ children' = children
      /\ Head(calls) \in CallSet
  BY ElemsTail DEF Changed, Do, AtRest, CallTypes
<1>2. Head(calls).who \notin Waiters
  BY <1>1, NoneIsNone, RuntimesAssumption DEF CallSet
<1>3. CASE Settled = <<>>
  <2>1. waits' = waits /\ TellPassed /\ Then(<<>>)
    BY <1>3 DEF Changed, Settled
  <2>2. ASSUME NEW w \in Waiters PROVE Hits(calls', About(w)) = Hits(calls, About(w))
    <3>1. <<>> \in Seq(CallSet) /\ Hits(<<>>, About(w)) = 0
      BY HitsOne
    <3>2. /\ Hits(calls', About(w)) \in Nat /\ Hits(calls, About(w)) \in Nat
          /\ Hits(calls', About(w)) + One(Head(calls).who = w) = Hits(<<>>, About(w)) + Hits(calls, About(w))
      BY <1>1, <2>1, <3>1, CallsCount
    <3>3. One(Head(calls).who = w) = 0
      BY <1>2 DEF One
    <3> QED BY <3>1, <3>2, <3>3
  <2> QED BY <1>1, <2>1, <2>2, OnceTold
<1>4. CASE Settled # <<>>
  <2>1. Settled = waits /\ LinkState \in {"down", "up", "failed"} /\ waits' = <<>> /\ passed' = passed /\ held' = held
    BY <1>4 DEF Changed, Settled, LinkState, LinkTypes, Links
  <2> DEFINE more == Answers(waits, LinkState) \o <<Plain("passed")>>
  <2>2. Then(more) /\ waits \in Seq(Waiters \cup Sessions)
    BY <1>4, <2>1 DEF Changed, CallTypes
  <2>3. ASSUME NEW w \in Waiters PROVE more \in Seq(CallSet) /\ Hits(more, About(w)) = Hits(waits, {w})
    <3>1. PICK st \in {"down", "up", "failed"} : st = LinkState
      BY <2>1
    <3>2. "passed" \in OfLink
      BY DEF OfLink
    <3>3. /\ Answers(waits, st) \o <<Plain("passed")>> \in Seq(CallSet)
          /\ Hits(Answers(waits, st) \o <<Plain("passed")>>, About(w)) = Hits(waits, {w})
      BY <2>2, <3>2, AnswersCount, ZenonT(60)
    <3> QED BY <3>1, <3>3
  <2> HIDE DEF more
  <2>4. ASSUME NEW w \in Waiters PROVE Has(w)' = One(w \in held')
    <3> DEFINE p == Hits(waits, {w})
    <3>1. /\ Hits(calls', About(w)) \in Nat /\ Hits(calls, About(w)) \in Nat /\ p \in Nat
          /\ Hits(calls', About(w)) + One(Head(calls).who = w) = p + Hits(calls, About(w))
      BY <1>1, <2>2, <2>3, CallsCount, HasParts
    <3>2. One(Head(calls).who = w) = 0
      BY <1>2 DEF One
    <3>3. Hits(waits', {w}) = 0
      BY <2>1, HitsOne
    <3> HIDE DEF p
    <3>4. Hits(calls', About(w)) = Hits(calls, About(w)) + p /\ Hits(waits', {w}) = p + (0 - p)
      BY <3>1, <3>2, <3>3
    <3>5. /\ One(\E c \in children' : c.who = w) = One(\E c \in children : c.who = w) + 0
          /\ One(w \in passed') = One(w \in passed) + 0
          /\ One(w \in held') = One(w \in held) + (0 - p) + p + 0 + 0
      BY <1>1, <2>1, <3>1 DEF One
    <3>6. 0 \in Int /\ p \in Int /\ 0 - p \in Int
      BY <3>1
    <3> QED BY <3>4, <3>5, <3>6, HasMoves DEF p
  <2> QED BY <1>1, <2>1, <2>4 DEF WaitsOnce
<1> QED BY <1>3, <1>4

(* The calls that answer checks, or take the link down.                     *)
LEMMA OnceLink ==
  ASSUME LinkTypes, SessTypes, CallTypes, CallTypes', WaitsOnce,
         AnswerPassed \/ Fail \/ Restart \/ Unlink
  PROVE  WaitsOnce'
<1>0. \A w \in Waiters : /\ Hits(waits, {w}) \in Nat /\ Hits(calls, About(w)) \in Nat
                         /\ Hits(calls', About(w)) \in Nat
  BY HasParts, HitsType DEF CallTypes
<1>1. /\ calls # <<>> /\ Head(calls).op \in {"passed", "fail", "restart", "unlink"}
      /\ Head(calls) \in CallSet
  BY ElemsTail DEF AnswerPassed, Fail, Restart, Unlink, Do, AtRest, CallTypes
<1>2. Head(calls).who \notin Waiters
  BY <1>1, NoneIsNone, RuntimesAssumption DEF CallSet
<1>3. ASSUME NEW more \in Seq(CallSet), Then(more), \A x \in Elems(more) : x.op \notin {"answer", "finish"},
             NEW w \in Waiters
      PROVE  Hits(calls', About(w)) = Hits(calls, About(w))
  <2>1. Hits(more, About(w)) = 0
    BY <1>3, NoneAbout
  <2>2. Hits(calls', About(w)) + One(Head(calls).who = w) = Hits(more, About(w)) + Hits(calls, About(w))
    BY <1>1, <1>3, CallsCount
  <2>3. One(Head(calls).who = w) = 0
    BY <1>2 DEF One
  <2>4. Hits(calls, About(w)) \in Nat /\ Hits(calls', About(w)) \in Nat
    BY <1>0
  <2> QED BY <2>1, <2>2, <2>3, <2>4
<1>4. /\ <<>> \in Seq(CallSet) /\ \A x \in Elems(<<>>) : x.op \notin {"answer", "finish"}
      /\ <<Plain("begin")>> \in Seq(CallSet)
      /\ \A x \in Elems(<<Plain("begin")>>) : x.op \notin {"answer", "finish"}
  <2>1. Plain("begin") \in CallSet /\ Plain("begin").op = "begin"
    BY CallsAre DEF OfLink
  <2> QED BY <2>1, ElemsNone, ElemsOne
<1>5. CASE AnswerPassed
  <2>1. waits' = waits /\ children' = children /\ TellPassed /\ Then(<<>>)
    BY <1>5 DEF AnswerPassed
  <2> QED BY <1>3, <1>4, <2>1, OnceTold
<1>6. CASE Fail
  <2>1. waits' = waits /\ held' = held /\ Then(<<>>) /\ \E after : End(after)
    BY <1>6 DEF Fail, clients
  <2> QED BY <1>3, <1>4, <2>1, OnceEnd
<1>7. CASE Restart
  <2>1. waits' = waits /\ held' = held
    BY <1>7 DEF Restart, clients
  <2>2. CASE link.phase = "up"
    <3>1. Then(<<Plain("begin")>>) /\ \E after : End(after)
      BY <1>7, <2>2 DEF Restart
    <3> QED BY <1>3, <1>4, <2>1, <3>1, OnceEnd
  <2>3. CASE link.phase # "up"
    <3>1. Then(<<>>) /\ passed' = passed /\ children' = children
      BY <1>7, <2>3 DEF Restart
    <3> QED BY <1>3, <1>4, <2>1, <3>1, OnceStill
  <2> QED BY <2>2, <2>3
<1>8. CASE Unlink
  <2>1. held' = held /\ waits' = <<>> /\ waits \in Seq(Waiters \cup Sessions)
    BY <1>8 DEF Unlink, clients, CallTypes
  <2> DEFINE more == Answers(waits, "down") \o <<Plain("changed")>>
  <2>2. Then(more)
    BY <1>8 DEF Unlink
  <2>3. ASSUME NEW w \in Waiters PROVE more \in Seq(CallSet) /\ Hits(more, About(w)) = Hits(waits, {w})
    <3>1. "changed" \in OfLink
      BY DEF OfLink
    <3> QED BY <2>1, <3>1, AnswersCount
  <2> HIDE DEF more
  <2>4. ASSUME NEW w \in Waiters
        PROVE  /\ Hits(waits', {w}) = 0
               /\ Hits(calls', About(w)) = Hits(waits, {w}) + Hits(calls, About(w))
    <3>1. Hits(calls', About(w)) + One(Head(calls).who = w) = Hits(waits, {w}) + Hits(calls, About(w))
      BY <1>1, <2>2, <2>3, CallsCount
    <3>2. One(Head(calls).who = w) = 0
      BY <1>2 DEF One
    <3>3. Hits(waits', {w}) = 0
      BY <2>1, HitsOne
    <3> QED BY <1>0, <3>1, <3>2, <3>3
  <2>5. ASSUME NEW w \in Waiters
        PROVE  Hits(waits', {w}) + Hits(calls', About(w)) = Hits(waits, {w}) + Hits(calls, About(w))
    <3>1. Hits(waits, {w}) \in Nat /\ Hits(calls, About(w)) \in Nat
      BY <1>0
    <3>2. Hits(waits', {w}) = 0 /\ Hits(calls', About(w)) = Hits(waits, {w}) + Hits(calls, About(w))
      BY <2>4
    <3> QED BY <3>1, <3>2
  <2>6. CASE link.phase # "none"
    <3>1. End(Down)
      BY <1>8, <2>6 DEF Unlink
    <3> QED BY <2>1, <2>5, <3>1, OnceEnd
  <2>7. CASE link.phase = "none"
    <3>1. children' = children /\ passed' = passed
      BY <1>8, <2>7 DEF Unlink
    <3>2. ASSUME NEW w \in Waiters PROVE Has(w)' = One(w \in held')
      <4> DEFINE p == Hits(waits, {w})
      <4>1. Hits(waits', {w}) = p + (0 - p) /\ Hits(calls', About(w)) = Hits(calls, About(w)) + p
        BY <1>0, <2>4
      <4>2. /\ One(\E c \in children' : c.who = w) = One(\E c \in children : c.who = w) + 0
            /\ One(w \in passed') = One(w \in passed) + 0
            /\ One(w \in held') = One(w \in held) + (0 - p) + p + 0 + 0
        <5>1. p \in Nat
          BY <1>0
        <5> HIDE DEF p
        <5> QED BY <2>1, <3>1, <5>1 DEF One
      <4>3. 0 \in Int /\ p \in Int /\ 0 - p \in Int
        BY <1>0
      <4> HIDE DEF p
      <4> QED BY <4>1, <4>2, <4>3, HasMoves DEF p
    <3> QED BY <2>1, <3>1, <3>2 DEF WaitsOnce
  <2> QED BY <2>6, <2>7
<1> QED BY <1>5, <1>6, <1>7, <1>8

(* The calls about a waiter: its answer, and the end of its child.          *)
LEMMA OnceWaiter ==
  ASSUME LinkTypes, SessTypes, CallTypes, CallTypes', WaitsOnce, Answer \/ FinishCheck \/ FinishDeliver
  PROVE  WaitsOnce'
<1>1. PICK more : Then(more) /\ Pushed(more, Head(calls).op)
  <2>1. Calls
    BY DEF Calls, ReapCall, LinkCall
  <2> QED BY <2>1, CallLeaves DEF Leaves
<1>2. /\ calls # <<>> /\ Head(calls).op \in {"answer", "finish"} /\ Head(calls) \in CallSet
      /\ more \in Seq(CallSet) /\ \A x \in Elems(more) : x.op \notin {"answer", "finish"}
      /\ waits' = waits
  BY <1>1, ElemsTail DEF Answer, FinishCheck, FinishDeliver, Do, AtRest, CallTypes, Pushed, May, Askers
<1>3. \A w \in Waiters : Hits(waits', {w}) = Hits(waits, {w})
  BY <1>2
<1>4. \A p, job, who : Child(p, job, who).who = who
  BY DEF Child
<1>5. CASE Answer
  <2>1. passed' = passed /\ Who = Head(calls).who
    BY <1>5 DEF Answer, Who
  <2>2. CASE Who \in Sessions
    <3>1. held' = held /\ children' = children /\ Who \notin Waiters
      BY <1>5, <2>2, RuntimesAssumption DEF Answer
    <3> QED BY <1>1, <1>2, <1>3, <2>1, <3>1, OnceCall
  <2>3. CASE Who \notin Sessions
    <3>1. Who \in Waiters
      BY <1>5, <2>3, NowIs DEF Answer
    <3>2. \/ held' = held /\ \E c : c.who = Who /\ children' = children \cup {c}
          \/ held' = held \ {Who} /\ children' = children
      BY <1>4, <1>5, <2>3 DEF Answer, PassToken, Spawns
    <3> QED BY <1>1, <1>2, <2>1, <3>1, <3>2, OnceNow
  <2> QED BY <2>2, <2>3
<1>6. CASE FinishCheck \/ FinishDeliver
  <2>1. held' = held /\ Who = Head(calls).who /\ Who \in Waiters \cup {None}
    BY <1>6, NowIs DEF FinishCheck, FinishDeliver, Who, clients
  <2>2. \/ Who # None /\ passed' = passed /\ \E c : c.who = Who /\ children' = children \cup {c}
        \/ children' = children /\ passed' = passed \cup ({Who} \ {None})
    <3>1. CASE FinishCheck
      BY <1>4, <3>1 DEF FinishCheck, Spawns
    <3>2. CASE FinishDeliver
      <4>1. Who \in Waiters
        BY <3>2, NowIs DEF FinishDeliver
      <4>2. {Who} \ {None} = {Who}
        BY <4>1, NoneIsNone
      <4> QED BY <3>2, <4>2 DEF FinishDeliver
    <3> QED BY <1>6, <3>1, <3>2
  <2>3. CASE Who = None
    <3>1. children' = children /\ passed' = passed /\ Who \notin Waiters
      BY <2>2, <2>3, NoneIsNone
    <3> QED BY <1>1, <1>2, <1>3, <2>1, <3>1, OnceCall
  <2>4. CASE Who \in Waiters
    <3>1. {Who} \ {None} = {Who}
      BY <2>4, NoneIsNone
    <3> QED BY <1>1, <1>2, <2>1, <2>2, <2>4, <3>1, OnceNow
  <2> QED BY <2>1, <2>3, <2>4
<1> QED BY <1>5, <1>6

(* An injection of the first numbers of a set's size reaches all of it.     *)
LEMMA OrderIs ==
  ASSUME NEW S, IsFiniteSet(S), NEW f \in [1 .. Cardinality(S) -> S], IsInjective(f)
  PROVE  /\ Cardinality(S) \in Nat
         /\ \A i, j \in 1 .. Cardinality(S) : f[i] = f[j] => i = j
         /\ \A x \in S : \E i \in 1 .. Cardinality(S) : f[i] = x
<1>1. Cardinality(S) \in Nat
  BY FS_CardinalityType
<1>2. \A i, j \in 1 .. Cardinality(S) : f[i] = f[j] => i = j
  BY DEF IsInjective
<1>3. IsFiniteSet(1 .. Cardinality(S)) /\ Cardinality(1 .. Cardinality(S)) = Cardinality(S)
  BY <1>1, FS_Interval
<1>4. f \in Injection(1 .. Cardinality(S), S)
  BY <1>2 DEF Injection, IsInjective
<1>5. f \in Surjection(1 .. Cardinality(S), S)
  BY <1>3, <1>4, FS_Injection
<1>6. \A x \in S : \E i \in 1 .. Cardinality(S) : f[i] = x
  BY <1>5 DEF Surjection
<1> QED BY <1>1, <1>2, <1>6

(* The children that ended are finished: each is a call about who waited.   *)
LEMMA OnceCollect ==
  ASSUME LinkTypes, CallTypes, CallTypes', WaitsOnce, Collect
  PROVE  WaitsOnce'
<1> DEFINE done == {c \in children : Zombie(c.pid)}
           fin(c) == Call("finish", c.who, c.job)
           n == Cardinality(done)
<1>1. PICK order \in [1 .. n -> done] : IsInjective(order) /\ Then([i \in DOMAIN order |-> fin(order[i])])
  BY DEF Collect
<1> DEFINE more == [i \in DOMAIN order |-> fin(order[i])]
<1>2. /\ children' = children \ done /\ waits' = waits /\ passed' = passed /\ held' = held
      /\ done \subseteq children /\ IsFiniteSet(done) /\ done \subseteq ChildSet
  BY FS_Subset DEF Collect, clients, LinkTypes
<1>3. /\ n \in Nat /\ \A i, j \in 1 .. n : order[i] = order[j] => i = j
      /\ \A c \in done : \E i \in 1 .. n : order[i] = c
      /\ DOMAIN order = 1 .. n /\ \A i \in 1 .. n : order[i] \in done
  <2> HIDE DEF done
  <2> QED BY <1>1, <1>2, OrderIs
<1>4. \A i \in 1 .. n : fin(order[i]) \in CallSet /\ fin(order[i]).who = order[i].who
  BY <1>2, <1>3, CallsAre
<1>5. more \in Seq(CallSet) /\ Len(more) = n /\ \A i \in 1 .. n : more[i] = fin(order[i])
  <2> HIDE DEF done, fin, n
  <2> QED BY <1>3, <1>4
<1>6. Then(more) /\ calls # <<>> /\ Head(calls).who \notin Waiters
  <2>1. calls # <<>> /\ Head(calls).op = "collect" /\ Head(calls) \in CallSet
    BY ElemsTail DEF Collect, Do, AtRest, CallTypes
  <2>2. Head(calls).who \notin Waiters
    BY <2>1, NoneIsNone, RuntimesAssumption DEF CallSet
  <2> QED BY <1>1, <2>1, <2>2
<1> HIDE DEF more, fin, n, done
<1>7. ASSUME NEW w \in Waiters PROVE Hits(more, About(w)) = One(\E c \in done : c.who = w)
  <2> DEFINE S == Spots(more, About(w))
  <2>1. w # None
    BY NoneIsNone
  <2>2. S = {i \in 1 .. n : order[i].who = w}
    BY <1>4, <1>5 DEF Spots, About
  <2>3. \A i, j \in S : i = j
    <3>1. \A i, j \in S : order[i] = order[j]
      BY <1>2, <1>3, <2>1, <2>2 DEF WaitsOnce
    <3> QED BY <1>3, <2>2, <3>1
  <2>4. S = {} <=> ~\E c \in done : c.who = w
    BY <1>3, <2>2
  <2>5. Cardinality(S) = IF S = {} THEN 0 ELSE 1
    <3> HIDE DEF S
    <3> QED BY <2>3, AtMostOne
  <2> HIDE DEF S
  <2>6. Cardinality(S) = One(\E c \in done : c.who = w)
    BY <2>4, <2>5 DEF One
  <2> QED BY <2>6 DEF Hits, S
<1>8. ASSUME NEW w \in Waiters PROVE Has(w)' = One(w \in held')
  <2> DEFINE d == One(\E c \in done : c.who = w)
  <2>1. w # None
    BY NoneIsNone
  <2>2. Hits(calls', About(w)) = Hits(calls, About(w)) + d
    <3>1. /\ Hits(calls', About(w)) \in Nat /\ Hits(calls, About(w)) \in Nat
          /\ Hits(calls', About(w)) + One(Head(calls).who = w) = Hits(more, About(w)) + Hits(calls, About(w))
      BY <1>5, <1>6, CallsCount
    <3>2. One(Head(calls).who = w) = 0 /\ Hits(more, About(w)) = d /\ d \in Nat
      BY <1>6, <1>7 DEF One
    <3> HIDE DEF d
    <3> QED BY <3>1, <3>2
  <2>3. One(\E c \in children' : c.who = w) = One(\E c \in children : c.who = w) + (0 - d)
    <3>1. CASE \E c \in done : c.who = w
      <4>1. \E c \in children : c.who = w
        BY <1>2, <3>1
      <4>2. ~\E c \in children' : c.who = w
        BY <1>2, <2>1, <3>1 DEF WaitsOnce
      <4> QED BY <3>1, <4>1, <4>2 DEF One
    <3>2. CASE ~\E c \in done : c.who = w
      <4>1. (\E c \in children' : c.who = w) <=> (\E c \in children : c.who = w)
        BY <1>2, <3>2
      <4> QED BY <3>2, <4>1 DEF One
    <3> QED BY <3>1, <3>2
  <2>4. d \in Int /\ 0 - d \in Int /\ 0 \in Int
    BY DEF One
  <2>5. Hits(waits', {w}) = Hits(waits, {w}) + 0
    <3>1. Hits(waits, {w}) \in Nat
      BY HasParts
    <3> QED BY <1>2, <3>1
  <2>6. One(w \in passed') = One(w \in passed) + 0
    BY <1>2 DEF One
  <2>7. One(w \in held') = One(w \in held) + 0 + d + (0 - d) + 0
    BY <1>2, <2>4 DEF One
  <2> HIDE DEF d
  <2> QED BY <2>2, <2>3, <2>4, <2>5, <2>6, <2>7, HasMoves
<1> QED BY <1>2, <1>8 DEF WaitsOnce

(* Handlers start with no call about a waiter.                              *)
LEMMA StartsAbout ==
  ASSUME CallTypes, CallTypes', Timers \/ Requests \/ Reap, NEW w \in Waiters
  PROVE  calls = <<>> /\ Hits(calls', About(w)) = 0 /\ Hits(calls, About(w)) = 0
<1>1. Starts \/ (calls' = calls /\ calls = <<>>)
  BY RequestStarts
<1>2. calls = <<>> /\ Hits(calls, About(w)) = 0
  BY <1>1, HitsOne DEF Starts
<1>3. CASE Starts
  BY <1>2, <1>3, NoneAbout DEF Starts
<1> QED BY <1>1, <1>2, <1>3

(* A pane that asks for the link waits at one place.                        *)
LEMMA OnceRoute ==
  ASSUME LinkTypes, CallTypes, CallTypes', WaitsOnce, NEW w \in Waiters, WaitRoute(w)
  PROVE  WaitsOnce'
<1>1. \A v \in Waiters : Hits(calls', About(v)) = Hits(calls, About(v)) + 0
  <2>1. Requests
    BY DEF Requests
  <2> QED BY <2>1, StartsAbout
<1>2. /\ w \notin held /\ held' = held \cup {w} /\ passed' = passed /\ w # None
      /\ ~\E c \in children : c.who = w
  BY NoneIsNone, HasOnce DEF WaitRoute
<1>3. 0 \in Int /\ 1 \in Int /\ \A v \in Waiters : Hits(waits, {v}) \in Nat
  BY HasParts
<1>4. ASSUME Spawns("check", w), waits' = waits PROVE WaitsOnce'
  <2>1. PICK c : c.who = w /\ children' = children \cup {c}
    BY <1>4 DEF Spawns, Child
  <2>2. \A a, b \in children' : a.who = b.who /\ a.who # None => a = b
    BY <1>2, <2>1 DEF WaitsOnce
  <2>3. ASSUME NEW v \in Waiters PROVE Has(v)' = One(v \in held')
    <3>1. /\ Hits(waits', {v}) = Hits(waits, {v}) + 0
          /\ One(v \in passed') = One(v \in passed) + 0
      BY <1>2, <1>3, <1>4 DEF One
    <3>2. CASE v = w
      <4>1. /\ One(\E a \in children' : a.who = v) = One(\E a \in children : a.who = v) + 1
            /\ One(v \in held') = One(v \in held) + 0 + 0 + 1 + 0
        BY <1>2, <2>1, <3>2 DEF One
      <4> QED BY <1>1, <1>3, <3>1, <4>1, HasMoves
    <3>3. CASE v # w
      <4>1. /\ One(\E a \in children' : a.who = v) = One(\E a \in children : a.who = v) + 0
            /\ One(v \in held') = One(v \in held) + 0 + 0 + 0 + 0
        BY <1>2, <2>1, <3>3 DEF One
      <4> QED BY <1>1, <1>3, <3>1, <4>1, HasMoves
    <3> QED BY <3>2, <3>3
  <2> QED BY <1>2, <2>2, <2>3 DEF WaitsOnce
<1>5. ASSUME waits' = Append(waits, w), children' = children PROVE WaitsOnce'
  <2>1. ASSUME NEW v \in Waiters PROVE Has(v)' = One(v \in held')
    <3>1. /\ One(\E a \in children' : a.who = v) = One(\E a \in children : a.who = v) + 0
          /\ One(v \in passed') = One(v \in passed) + 0
      BY <1>2, <1>5 DEF One
    <3>2. CASE v = w
      <4>1. Hits(waits', {v}) = Hits(waits, {v}) + 1
        BY <1>5, <3>2, WaitsCount
      <4>2. One(v \in held') = One(v \in held) + 1 + 0 + 0 + 0
        BY <1>2, <3>2 DEF One
      <4> QED BY <1>1, <1>3, <3>1, <4>1, <4>2, HasMoves
    <3>3. CASE v # w
      <4>1. Hits(waits', {v}) = Hits(waits, {v})
        BY <1>5, <3>3, WaitsCount
      <4>2. /\ Hits(waits', {v}) = Hits(waits, {v}) + 0
            /\ One(v \in held') = One(v \in held) + 0 + 0 + 0 + 0
        BY <1>2, <1>3, <3>3, <4>1 DEF One
      <4> QED BY <1>1, <1>3, <3>1, <4>2, HasMoves
    <3> QED BY <3>2, <3>3
  <2> QED BY <1>2, <1>5, <2>1 DEF WaitsOnce
<1> QED BY <1>4, <1>5 DEF WaitRoute

(* The end of a wait takes the place that it had.                           *)
LEMMA OnceWaitEnds ==
  ASSUME LinkTypes, CallTypes, CallTypes', WaitsOnce, passed = {}, NEW w \in Waiters, WaitEnds(w)
  PROVE  WaitsOnce'
<1>1. \A v \in Waiters : Hits(calls', About(v)) = 0 /\ Hits(calls, About(v)) = 0
  <2>1. Requests
    BY DEF Requests
  <2> QED BY <2>1, StartsAbout
<1>2. /\ held' = held \ {w} /\ passed' = {} /\ children' = children \ {c \in children : c.who = w}
      /\ waits' = Only(waits, ToSet(waits) \ {w})
  BY DEF WaitEnds, Forgotten
<1>3. ASSUME NEW v \in Waiters PROVE Has(v)' = One(v \in held')
  <2>1. CASE v = w
    <3>1. Hits(waits', {v}) = 0 /\ ~\E c \in children' : c.who = v
      BY <1>2, <2>1, WaitsCount
    <3>2. v \notin held' /\ v \notin passed'
      BY <1>2, <2>1
    <3> QED BY <1>1, <3>1, <3>2 DEF Has, One
  <2>2. CASE v # w
    <3>1. Hits(waits', {v}) = Hits(waits, {v})
      BY <1>2, <2>2, WaitsCount
    <3>2. (\E c \in children' : c.who = v) <=> (\E c \in children : c.who = v)
      BY <1>2, <2>2
    <3>3. (v \in held' <=> v \in held) /\ (v \in passed' <=> v \in passed)
      BY <1>2, <2>2
    <3>4. Has(v)' = Has(v)
      BY <1>1, <3>1, <3>2, <3>3 DEF Has, One
    <3> QED BY <3>3, <3>4 DEF WaitsOnce, One
  <2> QED BY <2>1, <2>2
<1>4. held' \subseteq Waiters /\ \A c, d \in children' : c.who = d.who /\ c.who # None => c = d
  BY <1>2 DEF WaitsOnce
<1> QED BY <1>3, <1>4 DEF WaitsOnce

(* A check that took too long is answered.                                  *)
LEMMA OnceLimit ==
  ASSUME LinkTypes, CallTypes, CallTypes', WaitsOnce, passed = {}, NEW c \in children, QuickLimit(c)
  PROVE  WaitsOnce'
<1>1. \A v \in Waiters : Hits(calls', About(v)) = 0 /\ Hits(calls, About(v)) = 0
  <2>1. Timers
    BY DEF Timers
  <2> QED BY <2>1, StartsAbout
<1>2. /\ held' = held /\ waits' = waits /\ passed' = {c.who} \ {None} /\ children' = children \ {c}
  BY DEF QuickLimit, clients
<1>3. ASSUME NEW v \in Waiters PROVE Has(v)' = Has(v)
  <2>1. v # None
    BY NoneIsNone
  <2>2. Hits(waits', {v}) = Hits(waits, {v}) /\ Hits(waits, {v}) \in Nat
    BY <1>2, HasParts
  <2>3. CASE v = c.who
    <3>1. /\ v \in passed' /\ ~\E a \in children' : a.who = v
          /\ v \notin passed /\ \E a \in children : a.who = v
      BY <1>2, <2>1, <2>3 DEF WaitsOnce
    <3> QED BY <1>1, <2>2, <3>1 DEF Has, One
  <2>4. CASE v # c.who
    <3>1. /\ v \notin passed' /\ v \notin passed
          /\ (\E a \in children' : a.who = v) <=> (\E a \in children : a.who = v)
      BY <1>2, <2>4
    <3> QED BY <1>1, <2>2, <3>1 DEF Has, One
  <2> QED BY <2>3, <2>4
<1>4. held' \subseteq Waiters /\ \A a, b \in children' : a.who = b.who /\ a.who # None => a = b
  BY <1>2 DEF WaitsOnce
<1>5. \A v \in Waiters : One(v \in held') = One(v \in held)
  BY <1>2
<1> QED BY <1>3, <1>4, <1>5 DEF WaitsOnce

(* The other requests, timers and signals are about no waiter.              *)
LEMMA OnceRequests ==
  ASSUME LinkTypes, CallTypes, CallTypes', WaitsTold, WaitsOnce, Timers \/ Requests \/ Reap
  PROVE  WaitsOnce'
<1>1. \A w \in Waiters : Hits(calls', About(w)) = Hits(calls, About(w))
  BY StartsAbout
<1>2. passed = {}
  <2>1. calls = <<>>
    BY RequestStarts DEF Starts
  <2> QED BY <2>1, ElemsNone DEF WaitsTold
<1>3. CASE \E w \in Waiters : WaitRoute(w) \/ WaitEnds(w)
  BY <1>2, <1>3, OnceRoute, OnceWaitEnds
<1>4. CASE \E c \in children : QuickLimit(c)
  BY <1>2, <1>4, OnceLimit
<1>5. CASE ~(\E w \in Waiters : WaitRoute(w) \/ WaitEnds(w)) /\ ~\E c \in children : QuickLimit(c)
  <2>1. passed' = passed /\ held' = held /\ children' = children /\ waits' = waits
    BY <1>5 DEF Timers, Requests, Reap, IdleDue, UpLimit, UpRoute, DownRoute, DeleteRoute,
                PaneArrives, PaneLeaves, OpenSession, ExecRequest, FailSession,
                CloseConn, ReadOutput, registry, clients
  <2> QED BY <1>1, <2>1, OnceStill
<1> QED BY <1>3, <1>4, <1>5

(* A place moves in one step, and is given up with the reply.               *)
LEMMA OnceStep ==
  ASSUME LinkTypes, SessTypes, CallTypes, CallTypes', WaitsTold, WaitsOnce, [Next]_vars
  PROVE  WaitsOnce'
<1>1. CASE Calls
  <2>1. CASE Head(calls).op \notin Tellers
    BY <1>1, <2>1, OnceMost
  <2>2. CASE Head(calls).op \in Tellers
    <3>1. \/ Changed \/ AnswerPassed \/ Fail \/ Restart \/ Unlink
          \/ Answer \/ FinishCheck \/ FinishDeliver \/ Collect
      BY <1>1, <2>2 DEF Calls, ReapCall, LinkCall, ExecCall, Proceed, JoinSlot, SpawnSession, LeaveLimiter,
         EndSession, CloseSession, Pump, FinishExit, FinishError, FinishRetry, Advance, GoUp,
         Settle, WatchEnds, PumpAll, ReapLeaving, Begin, StartStage, ForceDown, Delete, Touch, Do,
         Tellers, Askers
    <3> QED BY <3>1, OnceChanged, OnceLink, OnceWaiter, OnceCollect
  <2> QED BY <2>1, <2>2
<1>2. CASE Timers \/ Requests \/ Reap
  BY <1>2, OnceRequests
<1>3. ASSUME NEW p \in Pids, ProcessEnds(p) PROVE WaitsOnce'
  <2>1. UNCHANGED <<passed, held, children, waits, calls>>
    BY <1>3 DEF ProcessEnds, registry, clients
  <2> QED BY <2>1, OnceStill
<1>4. CASE UNCHANGED vars
  <2>1. UNCHANGED <<passed, held, children, waits, calls>>
    BY <1>4 DEF vars, registry, clients
  <2> QED BY <2>1, OnceStill
<1> QED BY <1>1, <1>2, <1>3, <1>4 DEF Next

(* What a step keeps, for the waiters.                                      *)
WaitsInv == RuntimesInv /\ WaitsTold /\ WaitsOnce

(* A reply is held only while something will answer it: a start, a check or *)
(* a delivery (runtime/mod.rs, state/runtime_ops.rs); and no check is about *)
(* a waiter who has its reply.                                              *)
THEOREM WaitsAreHeld == Spec => []WaitsHeld
<1>1. Init => WaitsInv
  <2> SUFFICES ASSUME Init PROVE WaitsInv
    OBVIOUS
  <2>1. calls = <<>> /\ waits = <<>> /\ passed = {} /\ children = {} /\ held = {}
    BY DEF Init
  <2>2. WaitsTold
    <3>1. <<>> \in Told
      BY ElemsNone, ToldTail DEF Calm
    <3> QED BY <2>1, <3>1 DEF WaitsTold
  <2>3. WaitsOnce
    <3>1. \A S : Hits(<<>>, S) = 0
      BY HitsOne
    <3> QED BY <2>1, <3>1 DEF WaitsOnce, Has, One
  <2> QED BY <2>2, <2>3, RuntimesInit DEF WaitsInv
<1>2. WaitsInv /\ [Next]_vars => WaitsInv'
  <2> SUFFICES ASSUME WaitsInv, [Next]_vars PROVE WaitsInv'
    OBVIOUS
  <2>1. RuntimesInv /\ RuntimesInv'
    BY RuntimesStep DEF WaitsInv
  <2>2. LinkTypes /\ SessTypes /\ CallTypes /\ CallTypes'
    BY <2>1 DEF RuntimesInv
  <2> QED BY <2>1, <2>2, ToldStep, OnceStep DEF WaitsInv
<1>3. WaitsInv => WaitsHeld
  <2> SUFFICES ASSUME WaitsInv, calls = <<>> PROVE
        /\ waits # <<>> => LinkState = "starting"
        /\ \A w \in held : w \in ToSet(waits) \/ \E c \in children : c.who = w
        /\ \A c \in children : c.who # None => c.who \in held
    BY DEF WaitsHeld, AtRest
  <2>1. LinkTypes /\ CallTypes /\ WaitsTold /\ WaitsOnce
    BY DEF WaitsInv, RuntimesInv
  <2>2. (waits # <<>> => LinkState = "starting") /\ passed = {}
    BY <2>1, ElemsNone DEF WaitsTold
  <2>3. ASSUME NEW w \in held, ~\E c \in children : c.who = w PROVE w \in ToSet(waits)
    <3>1. w \in Waiters /\ w \notin passed
      BY <2>1, <2>2 DEF WaitsOnce
    <3>2. Hits(waits, {w}) >= 1
      BY <2>1, <2>3, <3>1, HasOnce
    <3>3. waits \in Seq(Waiters \cup Sessions)
      BY <2>1 DEF CallTypes
    <3>4. Elems(waits) \cap {w} # {}
      BY <3>2, <3>3, HitsType
    <3> QED BY <3>3, <3>4, ToSetIs
  <2>4. ASSUME NEW c \in children, c.who # None PROVE c.who \in held
    <3>1. c.who \in Waiters
      BY <2>1, <2>4 DEF LinkTypes, ChildSet
    <3> QED BY <2>1, <3>1, HasOnce
  <2> QED BY <2>2, <2>3, <2>4
<1>4. WaitsInv /\ UNCHANGED vars => WaitsInv'
  BY <1>2
<1> QED BY <1>1, <1>2, <1>3, <1>4, PTL DEF Spec

-----------------------------------------------------------------------------
(* Which sessions the limiter keeps in line, and who takes the free slots:  *)
(* each of them once, in a call or still in line.                           *)
InLine(l, c) == Hits(l.waiting, {c}) + Hits(l.parked, {c})

(* The numbers of places in line: a session is in line if it has one there. *)
LEMMA InLineIs ==
  ASSUME NEW l \in Limiters
  PROVE  \A c : /\ Hits(l.waiting, {c}) \in Nat /\ Hits(l.parked, {c}) \in Nat /\ InLine(l, c) \in Nat
                /\ c \in Elems(l.waiting) <=> Hits(l.waiting, {c}) >= 1
                /\ c \in Elems(l.parked) <=> Hits(l.parked, {c}) >= 1
                /\ InLine(l, c) = Hits(l.waiting, {c}) + Hits(l.parked, {c})
<1>1. l.waiting \in Seq(Sessions) /\ l.parked \in Seq(Sessions)
  BY DEF Limiters
<1> SUFFICES ASSUME NEW c
             PROVE  /\ Hits(l.waiting, {c}) \in Nat /\ Hits(l.parked, {c}) \in Nat /\ InLine(l, c) \in Nat
                    /\ c \in Elems(l.waiting) <=> Hits(l.waiting, {c}) >= 1
                    /\ c \in Elems(l.parked) <=> Hits(l.parked, {c}) >= 1
                    /\ InLine(l, c) = Hits(l.waiting, {c}) + Hits(l.parked, {c})
  OBVIOUS
<1>2. /\ Hits(l.waiting, {c}) \in Nat /\ Hits(l.parked, {c}) \in Nat
      /\ Hits(l.waiting, {c}) = 0 <=> c \notin Elems(l.waiting)
      /\ Hits(l.parked, {c}) = 0 <=> c \notin Elems(l.parked)
  BY <1>1, HitsType
<1> QED BY <1>2 DEF InLine

(* Those that are taken leave the line.                                     *)
LEMMA LeftIs ==
  ASSUME NEW q \in Seq(Sessions), NEW T
  PROVE  /\ Only(q, ToSet(q) \ T) \in Seq(Sessions)
         /\ Elems(Only(q, ToSet(q) \ T)) = Elems(q) \ T
         /\ \A c : Hits(Only(q, ToSet(q) \ T), {c}) = IF c \in T THEN 0 ELSE Hits(q, {c})
<1>1. ToSet(q) = Elems(q)
  BY ToSetIs
<1>2. Only(q, ToSet(q) \ T) \in Seq(Sessions) /\ Elems(Only(q, ToSet(q) \ T)) = Elems(q) \ T
  BY <1>1, ElemsOnly
<1>3. ASSUME NEW c PROVE Hits(Only(q, ToSet(q) \ T), {c}) = IF c \in T THEN 0 ELSE Hits(q, {c})
  <2>1. Hits(Only(q, ToSet(q) \ T), {c}) = Hits(q, {c} \cap (ToSet(q) \ T))
    BY HitsOnly
  <2>2. CASE c \in T
    <3>1. {c} \cap (ToSet(q) \ T) = {}
      BY <2>2
    <3>2. Hits(q, {}) = 0
      BY HitsType
    <3> QED BY <2>1, <2>2, <3>1, <3>2
  <2>3. CASE c \notin T
    <3> DEFINE S == {c} \cap (ToSet(q) \ T)
    <3>1. \A x \in Elems(q) : x \in S <=> x \in {c}
      BY <1>1, <2>3
    <3> HIDE DEF S
    <3>2. Hits(q, S) = Hits(q, {c})
      BY <3>1, HitsSame
    <3> QED BY <2>1, <2>3, <3>2 DEF S
  <2> QED BY <2>2, <2>3
<1> QED BY <1>2, <1>3

(* What is not empty has an element.                                        *)
LEMMA SomeElems == ASSUME NEW X, NEW s \in Seq(X), s # <<>> PROVE Elems(s) # {}
BY ElemsTail

(* Of a prefix no element has more places.                                  *)
LEMMA PrefixHits ==
  ASSUME NEW s \in Seq(Sessions), NEW t \in Seq(Sessions), Len(t) <= Len(s),
         \A k \in 1 .. Len(t) : t[k] = s[k]
  PROVE  /\ \A S : Hits(t, S) <= Hits(s, S)
         /\ Elems(t) \subseteq Elems(s)
         /\ Len(t) = Len(s) => Elems(t) = Elems(s)
<1>1. Len(t) \in Nat /\ Len(s) \in Nat
  OBVIOUS
<1>2. ASSUME NEW S PROVE Hits(t, S) <= Hits(s, S)
  <2>1. Spots(t, S) \subseteq Spots(s, S)
    BY <1>1 DEF Spots
  <2>2. IsFiniteSet(Spots(s, S))
    BY HitsType
  <2> QED BY <2>1, <2>2, FS_Subset DEF Hits
<1>3. Elems(t) \subseteq Elems(s) /\ (Len(t) = Len(s) => Elems(t) = Elems(s))
  BY <1>1 DEF Elems
<1> QED BY <1>2, <1>3

(* fill: slots are taken while there are any, by those who stood in line.   *)
LEMMA FillSlots ==
  ASSUME NEW l \in Limiters, l.running <= Cap, NEW first \in BOOLEAN
  PROVE  LET r == Fill(l, first)
         IN /\ r.lim \in Limiters /\ r.start \in Seq(Sessions)
            /\ r.lim.running = l.running + Len(r.start) /\ r.lim.running <= Cap
            /\ r.lim.waiting # <<>> => r.lim.running = Cap
            /\ r.lim.parked # <<>> => l.parked # <<>> /\ (first => r.lim.running = Cap)
            /\ \A c : InLine(l, c) <= 1 => Hits(r.start, {c}) + InLine(r.lim, c) = InLine(l, c)
<1> DEFINE next == IF first THEN l.parked \o l.waiting ELSE l.waiting
           start == IF l.running < Cap THEN Fitting(l, next) ELSE <<>>
           T == ToSet(start)
           w == Only(l.waiting, ToSet(l.waiting) \ T)
           p == Only(l.parked, ToSet(l.parked) \ T)
<1>1. /\ l.waiting \in Seq(Sessions) /\ l.parked \in Seq(Sessions) /\ l.running \in Nat
      /\ Cap \in Nat \ {0}
  BY CapAssumption DEF Limiters
<1>2. /\ next \in Seq(Sessions) /\ Elems(l.waiting) \subseteq Elems(next)
      /\ first => Elems(l.parked) \subseteq Elems(next)
      /\ \A c : Hits(next, {c}) <= InLine(l, c)
  <2>1. CASE first
    <3>1. next \in Seq(Sessions) /\ Elems(next) = Elems(l.parked) \cup Elems(l.waiting)
      BY <1>1, <2>1, ElemsConcat
    <3>2. \A c : Hits(next, {c}) = Hits(l.parked, {c}) + Hits(l.waiting, {c})
      BY <1>1, <2>1, HitsConcat
    <3> HIDE DEF next
    <3>3. ASSUME NEW c PROVE Hits(next, {c}) <= InLine(l, c)
      <4>1. /\ Hits(l.waiting, {c}) \in Nat /\ Hits(l.parked, {c}) \in Nat
            /\ InLine(l, c) = Hits(l.waiting, {c}) + Hits(l.parked, {c})
        BY InLineIs
      <4>2. Hits(next, {c}) = Hits(l.parked, {c}) + Hits(l.waiting, {c})
        BY <3>2
      <4> QED BY <4>1, <4>2
    <3> QED BY <3>1, <3>3
  <2>2. CASE ~first
    <3>1. next = l.waiting
      BY <2>2
    <3> HIDE DEF next
    <3>2. ASSUME NEW c PROVE Hits(next, {c}) <= InLine(l, c)
      <4>1. /\ Hits(l.waiting, {c}) \in Nat /\ Hits(l.parked, {c}) \in Nat
            /\ InLine(l, c) = Hits(l.waiting, {c}) + Hits(l.parked, {c})
        BY InLineIs
      <4> QED BY <3>1, <4>1
    <3> QED BY <1>1, <2>2, <3>1, <3>2
  <2> QED BY <2>1, <2>2
<1> HIDE DEF next
<1>3. /\ start \in Seq(Sessions) /\ Len(start) <= Len(next) /\ \A k \in 1 .. Len(start) : start[k] = next[k]
      /\ Len(start) = Len(next) \/ l.running + Len(start) = Cap
      /\ l.running + Len(start) <= Cap
  <2>1. Len(next) \in Nat
    BY <1>2
  <2>2. CASE l.running < Cap
    <3>1. start = Fitting(l, next)
      BY <2>2
    <3> HIDE DEF start
    <3> QED BY <1>1, <1>2, <2>1, <2>2, <3>1, FittingIs
  <2>3. CASE ~(l.running < Cap)
    <3>1. start = <<>> /\ l.running = Cap
      BY <1>1, <2>3
    <3> HIDE DEF start
    <3> QED BY <1>1, <2>1, <3>1
  <2> QED BY <2>2, <2>3
<1>4. /\ \A c : Hits(start, {c}) <= Hits(next, {c}) /\ Hits(start, {c}) \in Nat /\ Hits(next, {c}) \in Nat
      /\ Elems(start) \subseteq Elems(next)
      /\ Len(start) = Len(next) => Elems(start) = Elems(next)
      /\ \A c : Hits(start, {c}) = 0 <=> c \notin Elems(start)
  <2> HIDE DEF start
  <2> QED BY <1>2, <1>3, PrefixHits, HitsType
<1>5. T = Elems(start)
  <2> HIDE DEF start
  <2> QED BY <1>3, ToSetIs
<1>6. Fill(l, first) = [start |-> start,
         lim |-> [running |-> l.running + Len(start), waiting |-> w, parked |-> p]]
  BY DEF Fill, next
<1> HIDE DEF start, T
<1>7. /\ w \in Seq(Sessions) /\ Elems(w) = Elems(l.waiting) \ T
      /\ \A c : Hits(w, {c}) = IF c \in T THEN 0 ELSE Hits(l.waiting, {c})
      /\ p \in Seq(Sessions) /\ Elems(p) = Elems(l.parked) \ T
      /\ \A c : Hits(p, {c}) = IF c \in T THEN 0 ELSE Hits(l.parked, {c})
  BY <1>1, LeftIs
<1> HIDE DEF w, p
<1>8. w # <<>> => l.running + Len(start) = Cap
  <2>1. w # <<>> => Elems(w) # {}
    BY <1>7, SomeElems
  <2> QED BY <1>2, <1>3, <1>4, <1>5, <1>7, <2>1
<1>9. p # <<>> => l.parked # <<>> /\ (first => l.running + Len(start) = Cap)
  <2>1. p # <<>> => Elems(p) # {}
    BY <1>7, SomeElems
  <2>2. l.parked = <<>> => Elems(l.parked) = {}
    BY ElemsNone
  <2> QED BY <1>2, <1>3, <1>4, <1>5, <1>7, <2>1, <2>2
<1>10. ASSUME NEW c, InLine(l, c) <= 1
       PROVE  Hits(start, {c}) + (Hits(w, {c}) + Hits(p, {c})) = InLine(l, c)
  <2>1. /\ Hits(l.waiting, {c}) \in Nat /\ Hits(l.parked, {c}) \in Nat
        /\ InLine(l, c) = Hits(l.waiting, {c}) + Hits(l.parked, {c})
    BY InLineIs
  <2>2. /\ Hits(start, {c}) \in Nat /\ Hits(start, {c}) <= InLine(l, c)
    <3>1. Hits(next, {c}) <= InLine(l, c)
      BY <1>2
    <3>2. Hits(start, {c}) <= Hits(next, {c}) /\ Hits(start, {c}) \in Nat /\ Hits(next, {c}) \in Nat
      BY <1>4
    <3>3. InLine(l, c) \in Nat
      BY <2>1
    <3> QED BY <3>1, <3>2, <3>3
  <2>3. CASE c \in T
    BY <1>4, <1>5, <1>7, <1>10, <2>1, <2>2, <2>3
  <2>4. CASE c \notin T
    BY <1>4, <1>5, <1>7, <2>1, <2>4
  <2> QED BY <2>3, <2>4
<1>11. Fill(l, first).lim \in Limiters /\ Fill(l, first).start \in Seq(Sessions)
  BY FillTypes
<1> DEFINE r == Fill(l, first)
<1>12. /\ r.start = start /\ r.lim.running = l.running + Len(start)
       /\ r.lim.waiting = w /\ r.lim.parked = p
  BY <1>6
<1>13. \A c : InLine(r.lim, c) = Hits(w, {c}) + Hits(p, {c})
  BY <1>12 DEF InLine
<1> HIDE DEF r
<1>14. \A c : InLine(l, c) <= 1 => Hits(r.start, {c}) + InLine(r.lim, c) = InLine(l, c)
  BY <1>10, <1>12, <1>13
<1>15. r.lim \in Limiters /\ r.start \in Seq(Sessions)
  BY <1>11 DEF r
<1> QED BY <1>3, <1>8, <1>9, <1>12, <1>14, <1>15 DEF r

(* Without those that are parked, it is who waits that starts.              *)
LEMMA FillStarts ==
  ASSUME NEW l \in Limiters
  PROVE  Elems(Fill(l, FALSE).start) \subseteq Elems(l.waiting)
<1>1. l.waiting \in Seq(Sessions) /\ l.running \in Nat /\ Cap \in Nat
  BY CapAssumption DEF Limiters
<1>2. Fill(l, FALSE).start = IF l.running < Cap THEN Fitting(l, l.waiting) ELSE <<>>
  BY DEF Fill
<1>3. CASE l.running < Cap
  <2>1. /\ Fitting(l, l.waiting) \in Seq(Sessions) /\ Len(Fitting(l, l.waiting)) <= Len(l.waiting)
        /\ \A k \in 1 .. Len(Fitting(l, l.waiting)) : Fitting(l, l.waiting)[k] = l.waiting[k]
    BY <1>1, <1>3, FittingIs
  <2> QED BY <1>1, <1>2, <1>3, <2>1, PrefixHits
<1>4. CASE ~(l.running < Cap)
  BY <1>2, <1>4, ElemsNone
<1> QED BY <1>3, <1>4

(* What the limiter promises at any time: Cap at most, nobody in line while *)
(* a slot is free, and nobody parked while nothing runs.                    *)
Full(l) == /\ l.running <= Cap
           /\ l.waiting # <<>> => l.running = Cap
           /\ l.parked # <<>> => l.running > 0

(* leave: a slot goes, and to who stands in line first.                     *)
LEMMA LeaveSlots ==
  ASSUME NEW l \in Limiters, Full(l), l.running > 0
  PROVE  LET r == LeaveSlot(l)
         IN /\ r.lim \in Limiters /\ r.start \in Seq(Sessions) /\ Full(r.lim)
            /\ r.lim.running = l.running - 1 + Len(r.start)
            /\ \A c : InLine(l, c) <= 1 => Hits(r.start, {c}) + InLine(r.lim, c) = InLine(l, c)
<1>1. l.running \in Nat /\ Less(l.running) = l.running - 1 /\ Cap \in Nat \ {0}
  BY CapAssumption DEF Limiters, Less
<1> DEFINE rest == [l EXCEPT !.running = Less(l.running)]
<1>2. /\ rest \in Limiters /\ rest.running = l.running - 1
      /\ rest.waiting = l.waiting /\ rest.parked = l.parked
  BY <1>1 DEF Limiters
<1>3. LeaveSlot(l) = Fill(rest, TRUE)
  BY DEF LeaveSlot
<1>4. \A c : InLine(rest, c) = InLine(l, c)
  BY <1>2 DEF InLine
<1> HIDE DEF rest
<1>5. rest.running <= Cap
  BY <1>1, <1>2 DEF Full
<1> DEFINE r == Fill(rest, TRUE)
<1>6. /\ r.lim \in Limiters /\ r.start \in Seq(Sessions)
      /\ r.lim.running = rest.running + Len(r.start) /\ r.lim.running <= Cap
      /\ r.lim.waiting # <<>> => r.lim.running = Cap
      /\ r.lim.parked # <<>> => r.lim.running = Cap
      /\ \A c : InLine(rest, c) <= 1 => Hits(r.start, {c}) + InLine(r.lim, c) = InLine(rest, c)
  BY <1>2, <1>5, FillSlots
<1> HIDE DEF r
<1>7. Full(r.lim)
  BY <1>1, <1>6 DEF Full
<1> QED BY <1>2, <1>3, <1>4, <1>6, <1>7 DEF r

(* join: a slot, or the end of the line.                                    *)
LEMMA JoinSlots ==
  ASSUME NEW l \in Limiters, Full(l), NEW t \in Sessions
  PROVE  LET r == Join(l, t)
         IN /\ r \in Limiters /\ Full(r)
            /\ Joins(l) => r.running = l.running + 1 /\ \A c : InLine(r, c) = InLine(l, c)
            /\ ~Joins(l) => /\ r.running = l.running
                            /\ \A c : InLine(r, c) = InLine(l, c) + One(c = t)
<1>1. l.waiting \in Seq(Sessions) /\ l.parked \in Seq(Sessions) /\ l.running \in Nat /\ Cap \in Nat \ {0}
  BY CapAssumption DEF Limiters
<1>2. Join(l, t) \in Limiters
  BY LimiterTypes
<1>3. CASE Joins(l)
  <2>1. /\ Join(l, t).running = l.running + 1
        /\ Join(l, t).waiting = l.waiting /\ Join(l, t).parked = l.parked
    BY <1>1, <1>3 DEF Join, Limiters
  <2>2. l.running < Cap /\ l.waiting = <<>>
    BY <1>3 DEF Joins
  <2>3. Full(Join(l, t))
    BY <1>1, <2>1, <2>2 DEF Full
  <2> QED BY <1>2, <1>3, <2>1, <2>3 DEF InLine
<1>4. CASE ~Joins(l)
  <2>1. /\ Join(l, t).running = l.running
        /\ Join(l, t).waiting = Append(l.waiting, t) /\ Join(l, t).parked = l.parked
    BY <1>1, <1>4 DEF Join, Limiters
  <2>2. l.running = Cap
    BY <1>1, <1>4 DEF Joins, Full
  <2>3. Full(Join(l, t))
    BY <1>1, <2>1, <2>2 DEF Full
  <2>4. ASSUME NEW c PROVE InLine(Join(l, t), c) = InLine(l, c) + One(c = t)
    <3>1. Hits(Append(l.waiting, t), {c}) = Hits(l.waiting, {c}) + IF t \in {c} THEN 1 ELSE 0
      BY <1>1, HitsEnds
    <3>2. (IF t \in {c} THEN 1 ELSE 0) = One(c = t)
      BY DEF One
    <3>3. Hits(l.waiting, {c}) \in Nat /\ Hits(l.parked, {c}) \in Nat /\ One(c = t) \in Nat
      BY InLineIs DEF One
    <3> QED BY <2>1, <3>1, <3>2, <3>3 DEF InLine
  <2> QED BY <1>2, <1>4, <2>1, <2>3, <2>4
<1> QED BY <1>3, <1>4

(* Who is forgotten leaves the line.                                        *)
LEMMA ForgetSlots ==
  ASSUME NEW l \in Limiters, Full(l), NEW t \in Sessions
  PROVE  LET r == Forget(l, t)
         IN /\ r \in Limiters /\ Full(r) /\ r.running = l.running
            /\ \A c : InLine(r, c) = IF c = t THEN 0 ELSE InLine(l, c)
<1>1. l.waiting \in Seq(Sessions) /\ l.parked \in Seq(Sessions)
  BY DEF Limiters
<1> DEFINE w == Only(l.waiting, ToSet(l.waiting) \ {t})
           p == Only(l.parked, ToSet(l.parked) \ {t})
<1>2. /\ Forget(l, t).running = l.running
      /\ Forget(l, t).waiting = w /\ Forget(l, t).parked = p
  BY DEF Forget, Limiters
<1>3. /\ Elems(w) = Elems(l.waiting) \ {t} /\ Elems(p) = Elems(l.parked) \ {t}
      /\ w \in Seq(Sessions) /\ p \in Seq(Sessions)
      /\ \A c : Hits(w, {c}) = IF c \in {t} THEN 0 ELSE Hits(l.waiting, {c})
      /\ \A c : Hits(p, {c}) = IF c \in {t} THEN 0 ELSE Hits(l.parked, {c})
  BY <1>1, LeftIs
<1> HIDE DEF w, p
<1>4. /\ l.waiting = <<>> => Elems(l.waiting) = {}
      /\ l.parked = <<>> => Elems(l.parked) = {}
      /\ w # <<>> => Elems(w) # {}
      /\ p # <<>> => Elems(p) # {}
  BY <1>3, ElemsNone, SomeElems
<1>5. Full(Forget(l, t))
  BY <1>2, <1>3, <1>4 DEF Full
<1>6. ASSUME NEW c PROVE InLine(Forget(l, t), c) = IF c = t THEN 0 ELSE InLine(l, c)
  <2>1. InLine(Forget(l, t), c) = Hits(w, {c}) + Hits(p, {c})
    BY <1>2 DEF InLine
  <2>2. CASE c = t
    <3>1. Hits(w, {c}) = 0 /\ Hits(p, {c}) = 0
      BY <1>3, <2>2
    <3> QED BY <2>1, <2>2, <3>1
  <2>3. CASE c # t
    <3>1. Hits(w, {c}) = Hits(l.waiting, {c}) /\ Hits(p, {c}) = Hits(l.parked, {c})
      BY <1>3, <2>3
    <3> QED BY <2>1, <2>3, <3>1 DEF InLine
  <2> QED BY <2>2, <2>3
<1> QED BY <1>2, <1>5, <1>6, LimiterTypes

(* retry: a refused session keeps its slot, or parks and gives it up.       *)
LEMMA RetrySlots ==
  ASSUME NEW l \in Limiters, Full(l), l.running > 0, NEW t \in Sessions, NEW late \in BOOLEAN,
         InLine(l, t) = 0, \A c : InLine(l, c) <= 1
  PROVE  LET r == Retry(l, t, late)
         IN /\ r.lim \in Limiters /\ r.start \in Seq(Sessions) /\ Full(r.lim)
            /\ r.lim.running = l.running - 1 + Len(r.start)
            /\ \A c : c # t => Hits(r.start, {c}) + InLine(r.lim, c) = InLine(l, c)
            /\ Hits(r.start, {t}) + InLine(r.lim, t) = 1
            /\ InLine(r.lim, t) = IF Again(l, late) THEN 0 ELSE 1
<1>1. /\ l.running \in Nat /\ Less(l.running) = l.running - 1 /\ Cap \in Nat \ {0}
      /\ l.waiting \in Seq(Sessions) /\ l.parked \in Seq(Sessions)
      /\ DOMAIN l = {"running", "waiting", "parked"}
  BY CapAssumption DEF Limiters, Less
<1> DEFINE rest == [l EXCEPT !.running = Less(l.running)]
           again == [rest EXCEPT !.running = rest.running + 1]
           park == [rest EXCEPT !.parked = Append(rest.parked, t)]
<1>2. /\ rest.running = l.running - 1 /\ rest.waiting = l.waiting /\ rest.parked = l.parked
      /\ rest \in Limiters
  BY <1>1 DEF Limiters
<1>3. /\ again.running = l.running /\ again.waiting = l.waiting /\ again.parked = l.parked
      /\ again \in Limiters
  <2> HIDE DEF rest
  <2> QED BY <1>1, <1>2 DEF Limiters
<1>4. /\ park.running = l.running - 1 /\ park.waiting = l.waiting /\ park.parked = Append(l.parked, t)
      /\ park \in Limiters
  <2> HIDE DEF rest
  <2>1. Append(l.parked, t) \in Seq(Sessions)
    BY <1>1
  <2> QED BY <1>1, <1>2, <2>1 DEF Limiters
<1> DEFINE r == Retry(l, t, late)
           now == Fill(again, FALSE)
           then == Fill(park, FALSE)
<1>5. r = IF Again(l, late) THEN [now EXCEPT !.start = <<t>> \o @] ELSE then
  BY DEF Retry
<1> HIDE DEF rest, again, park
<1>6. r.lim \in Limiters /\ r.start \in Seq(Sessions)
  BY LimiterTypes
<1>7. CASE Again(l, late)
  <2>1. /\ now.lim \in Limiters /\ now.start \in Seq(Sessions)
        /\ now.lim.running = again.running + Len(now.start) /\ now.lim.running <= Cap
        /\ now.lim.waiting # <<>> => now.lim.running = Cap
        /\ \A c : InLine(again, c) <= 1 => Hits(now.start, {c}) + InLine(now.lim, c) = InLine(again, c)
    BY <1>1, <1>3, FillSlots DEF Full
  <2>2. r.lim = now.lim /\ r.start = <<t>> \o now.start
    BY <1>5, <1>7 DEF Fill
  <2> HIDE DEF now, r
  <2>3. Len(r.start) = Len(now.start) + 1 /\ <<t>> \in Seq(Sessions)
    BY <2>1, <2>2
  <2>4. ASSUME NEW c PROVE /\ Hits(now.start, {c}) + InLine(now.lim, c) = InLine(l, c)
                           /\ Hits(now.start, {c}) \in Nat /\ InLine(now.lim, c) \in Nat
                           /\ Hits(r.start, {c}) = One(c = t) + Hits(now.start, {c})
    <3>1. InLine(again, c) = InLine(l, c)
      BY <1>3 DEF InLine
    <3>2. Hits(r.start, {c}) = Hits(<<t>>, {c}) + Hits(now.start, {c})
      <4> DEFINE one == <<t>>
      <4>1. one \in Seq(Sessions) /\ r.start = one \o now.start
        BY <2>2, <2>3
      <4> HIDE DEF one
      <4>2. Hits(one \o now.start, {c}) = Hits(one, {c}) + Hits(now.start, {c})
        BY <2>1, <4>1, HitsConcat
      <4> QED BY <4>1, <4>2 DEF one
    <3>3. Hits(<<t>>, {c}) = One(c = t)
      <4>1. Hits(<<t>>, {c}) = IF t \in {c} THEN 1 ELSE 0
        BY HitsOne
      <4> QED BY <4>1 DEF One
    <3>4. Hits(now.start, {c}) \in Nat /\ InLine(now.lim, c) \in Nat
      BY <2>1, HitsType, InLineIs
    <3> QED BY <2>1, <3>1, <3>2, <3>3, <3>4
  <2>5. ASSUME NEW c PROVE Hits(r.start, {c}) + InLine(r.lim, c) = InLine(l, c) + One(c = t)
    <3>1. One(c = t) \in Nat
      BY DEF One
    <3>2. /\ Hits(now.start, {c}) + InLine(now.lim, c) = InLine(l, c)
          /\ Hits(now.start, {c}) \in Nat /\ InLine(now.lim, c) \in Nat
          /\ Hits(r.start, {c}) = One(c = t) + Hits(now.start, {c})
      BY <2>4
    <3> QED BY <2>2, <3>1, <3>2
  <2>6. InLine(r.lim, t) = 0
    <3>1. /\ Hits(now.start, {t}) + InLine(now.lim, t) = InLine(l, t)
          /\ Hits(now.start, {t}) \in Nat /\ InLine(now.lim, t) \in Nat
      BY <2>4
    <3> QED BY <2>2, <3>1
  <2>7. Full(r.lim) /\ r.lim.running = l.running - 1 + Len(r.start)
    <3>1. Len(now.start) \in Nat
      BY <2>1
    <3>2. now.lim.running = l.running + Len(now.start)
      BY <1>3, <2>1
    <3>3. r.lim.running = l.running - 1 + Len(r.start) /\ r.lim.running > 0
      <4>1. Len(r.start) = Len(now.start) + 1
        BY <2>3
      <4>2. r.lim.running = l.running + Len(now.start)
        BY <2>2, <3>2
      <4>3. l.running \in Nat
        BY <1>1
      <4> QED BY <3>1, <4>1, <4>2, <4>3
    <3> QED BY <2>1, <2>2, <3>3 DEF Full
  <2>8. /\ \A c : c # t => Hits(r.start, {c}) + InLine(r.lim, c) = InLine(l, c)
        /\ Hits(r.start, {t}) + InLine(r.lim, t) = 1
    <3>1. ASSUME NEW c, c # t PROVE Hits(r.start, {c}) + InLine(r.lim, c) = InLine(l, c)
      <4>1. One(c = t) = 0
        BY <3>1 DEF One
      <4>2. Hits(r.start, {c}) + InLine(r.lim, c) = InLine(l, c) + One(c = t) /\ InLine(l, c) \in Nat
        BY <2>5, InLineIs
      <4> QED BY <4>1, <4>2
    <3>2. One(t = t) = 1
      BY DEF One
    <3>3. Hits(r.start, {t}) + InLine(r.lim, t) = InLine(l, t) + One(t = t)
      BY <2>5
    <3> QED BY <3>1, <3>2, <3>3
  <2> QED BY <1>6, <1>7, <2>6, <2>7, <2>8 DEF r
<1>8. CASE ~Again(l, late)
  <2>1. l.running - 1 > 0
    BY <1>1, <1>8 DEF Again
  <2>2. ASSUME NEW c PROVE InLine(park, c) = InLine(l, c) + One(c = t) /\ InLine(park, c) <= 1
    <3>1. Hits(Append(l.parked, t), {c}) = Hits(l.parked, {c}) + IF t \in {c} THEN 1 ELSE 0
      BY <1>1, HitsEnds
    <3>2. (IF t \in {c} THEN 1 ELSE 0) = One(c = t)
      BY DEF One
    <3>3. Hits(l.waiting, {c}) \in Nat /\ Hits(l.parked, {c}) \in Nat /\ One(c = t) \in Nat
      BY InLineIs DEF One
    <3>4. InLine(park, c) = InLine(l, c) + One(c = t)
      BY <1>4, <3>1, <3>2, <3>3 DEF InLine
    <3>5. InLine(l, c) + One(c = t) <= 1
      <4>1. InLine(l, c) \in Nat /\ InLine(l, c) <= 1
        BY InLineIs
      <4>2. CASE c = t
        BY <4>1, <4>2 DEF One
      <4>3. CASE c # t
        BY <4>1, <4>3 DEF One
      <4> QED BY <4>2, <4>3
    <3> QED BY <3>4, <3>5
  <2>3. park.running <= Cap
    BY <1>1, <1>4 DEF Full
  <2>4. /\ then.lim \in Limiters /\ then.start \in Seq(Sessions)
        /\ then.lim.running = park.running + Len(then.start) /\ then.lim.running <= Cap
        /\ then.lim.waiting # <<>> => then.lim.running = Cap
        /\ \A c : InLine(park, c) <= 1 => Hits(then.start, {c}) + InLine(then.lim, c) = InLine(park, c)
    BY <1>4, <2>3, FillSlots
  <2>5. r = then
    BY <1>5, <1>8
  <2>6. Hits(then.start, {t}) = 0
    <3>1. t \notin Elems(l.waiting)
      <4>1. /\ Hits(l.waiting, {t}) \in Nat /\ Hits(l.parked, {t}) \in Nat
            /\ t \in Elems(l.waiting) <=> Hits(l.waiting, {t}) >= 1
            /\ InLine(l, t) = Hits(l.waiting, {t}) + Hits(l.parked, {t})
        BY InLineIs
      <4> QED BY <4>1
    <3>2. Elems(then.start) \subseteq Elems(park.waiting)
      BY <1>4, FillStarts
    <3> HIDE DEF then
    <3> QED BY <1>4, <2>4, <3>1, <3>2, HitsType
  <2> HIDE DEF then, r
  <2>7. \A c : Hits(r.start, {c}) + InLine(r.lim, c) = InLine(l, c) + One(c = t)
    BY <2>2, <2>4, <2>5
  <2>8. InLine(r.lim, t) = 1
    <3>1. InLine(r.lim, t) \in Nat
      BY <2>4, <2>5, InLineIs
    <3>2. Hits(r.start, {t}) + InLine(r.lim, t) = InLine(l, t) + One(t = t)
      BY <2>7
    <3>3. One(t = t) = 1
      BY DEF One
    <3> QED BY <2>5, <2>6, <3>1, <3>2, <3>3
  <2>9. Full(r.lim) /\ r.lim.running = l.running - 1 + Len(r.start)
    BY <1>1, <1>4, <2>1, <2>4, <2>5 DEF Full
  <2>10. /\ \A c : c # t => Hits(r.start, {c}) + InLine(r.lim, c) = InLine(l, c)
        /\ Hits(r.start, {t}) + InLine(r.lim, t) = 1
    <3>1. ASSUME NEW c, c # t PROVE Hits(r.start, {c}) + InLine(r.lim, c) = InLine(l, c)
      <4>1. One(c = t) = 0
        BY <3>1 DEF One
      <4>2. Hits(r.start, {c}) + InLine(r.lim, c) = InLine(l, c) + One(c = t) /\ InLine(l, c) \in Nat
        BY <2>7, InLineIs
      <4> QED BY <4>1, <4>2
    <3>2. One(t = t) = 1
      BY DEF One
    <3>3. Hits(r.start, {t}) + InLine(r.lim, t) = InLine(l, t) + One(t = t)
      BY <2>7
    <3> QED BY <3>1, <3>2, <3>3
  <2> QED BY <1>6, <1>8, <2>8, <2>9, <2>10 DEF r
<1> QED BY <1>7, <1>8

(* The calls of a call that starts sessions: for each of them one.          *)
Claims == {"answer", "proceed", "join", "spawn"}
ClaimsOf(c) == {x \in CallSet : x.who = c /\ x.op \in Claims}
SpawnsOf(c) == {For("spawn", c)}
SlotCalls == {x \in CallSet : x.op \in {"spawn", "leave"}}

(* What the calls that start the sessions s count for.                      *)
LEMMA SpawnsHits ==
  ASSUME NEW s \in Seq(Sessions)
  PROVE  /\ Hits(ForEach("spawn", s), SlotCalls) = Len(s)
         /\ \A c : /\ Hits(ForEach("spawn", s), ClaimsOf(c)) = Hits(s, {c})
                   /\ Hits(ForEach("spawn", s), SpawnsOf(c)) = Hits(s, {c})
<1>1. Len(s) \in Nat /\ DOMAIN s = 1 .. Len(s) /\ \A i \in 1 .. Len(s) : s[i] \in Sessions
  OBVIOUS
<1>2. ForEach("spawn", s) = [i \in 1 .. Len(s) |-> For("spawn", s[i])]
  BY <1>1 DEF ForEach
<1> DEFINE f == ForEach("spawn", s)
<1>3. \A i \in 1 .. Len(s) : For("spawn", s[i]) \in CallSet /\ For("spawn", s[i]).op = "spawn"
                             /\ For("spawn", s[i]).who = s[i]
  BY <1>1, CallsAre DEF OfSession
<1>4. f \in Seq(CallSet) /\ Len(f) = Len(s) /\ \A i \in 1 .. Len(s) : f[i] = For("spawn", s[i])
  BY <1>1, <1>2, <1>3
<1> HIDE DEF f
<1>5. Spots(f, SlotCalls) = 1 .. Len(s)
  BY <1>3, <1>4 DEF Spots, SlotCalls
<1>6. ASSUME NEW c PROVE Spots(f, ClaimsOf(c)) = Spots(s, {c}) /\ Spots(f, SpawnsOf(c)) = Spots(s, {c})
  <2>1. \A i \in 1 .. Len(s) : f[i] \in CallSet /\ f[i].op = "spawn" /\ f[i].who = s[i]
    BY <1>3, <1>4
  <2>2. \A i \in 1 .. Len(s) : f[i] \in ClaimsOf(c) <=> s[i] = c
    BY <2>1 DEF ClaimsOf, Claims
  <2>3. \A i \in 1 .. Len(s) : f[i] \in SpawnsOf(c) <=> s[i] = c
    <3>1. \A i \in 1 .. Len(s) : For("spawn", s[i]) = For("spawn", c) => s[i] = c
      <4>1. For("spawn", c).who = c
        BY DEF For, Call
      <4> QED BY <1>3, <4>1
    <3> QED BY <1>4, <3>1 DEF SpawnsOf
  <2> QED BY <1>4, <2>2, <2>3 DEF Spots
<1>7. Cardinality(1 .. Len(s)) = Len(s)
  <2> DEFINE n == Len(s)
  <2>1. n \in Nat
    BY <1>1
  <2> HIDE DEF n
  <2>2. Cardinality(1 .. n) = n
    BY <2>1, FS_Interval
  <2> QED BY <2>2 DEF n
<1> QED BY <1>5, <1>6, <1>7 DEF Hits, f

(* The counts of a row of no call, one, two, or two rows.                   *)
LEMMA CallHits ==
  ASSUME NEW S
  PROVE  /\ Hits(<<>>, S) = 0
         /\ \A x \in CallSet : Hits(<<x>>, S) = One(x \in S)
         /\ \A x \in CallSet, y \in CallSet : Hits(<<x, y>>, S) = One(x \in S) + One(y \in S)
         /\ \A a \in Seq(CallSet), b \in Seq(CallSet) : Hits(a \o b, S) = Hits(a, S) + Hits(b, S)
<1>1. \A a \in Seq(CallSet), b \in Seq(CallSet) : Hits(a \o b, S) = Hits(a, S) + Hits(b, S)
  BY HitsConcat
<1>2. \A x \in CallSet : Hits(<<x>>, S) = One(x \in S)
  BY HitsOne DEF One
<1>3. ASSUME NEW x \in CallSet, NEW y \in CallSet PROVE Hits(<<x, y>>, S) = One(x \in S) + One(y \in S)
  <2> DEFINE a == <<x>>
  <2>1. a \in Seq(CallSet) /\ <<x, y>> = Append(a, y)
    OBVIOUS
  <2>2. Hits(a, S) = One(x \in S)
    BY <1>2
  <2> HIDE DEF a
  <2>3. Hits(Append(a, y), S) = Hits(a, S) + IF y \in S THEN 1 ELSE 0
    BY <2>1, HitsEnds
  <2> QED BY <2>1, <2>2, <2>3 DEF One
<1> QED BY <1>1, <1>2, <1>3, HitsOne

(* The count of the calls, after one of them.                               *)
LEMMA CallsHits ==
  ASSUME CallTypes, calls # <<>>, NEW more \in Seq(CallSet), Then(more), NEW S
  PROVE  /\ Hits(calls', S) \in Nat /\ Hits(more, S) \in Nat /\ Hits(calls, S) \in Nat
         /\ Hits(calls', S) + One(Head(calls) \in S) = Hits(more, S) + Hits(calls, S)
<1>1. calls \in Seq(CallSet) /\ Tail(calls) \in Seq(CallSet) /\ Head(calls) \in CallSet
  BY ElemsTail DEF CallTypes
<1>2. Hits(more \o Tail(calls), S) = Hits(more, S) + Hits(Tail(calls), S)
  BY <1>1, HitsConcat
<1>3. Hits(calls, S) = Hits(Tail(calls), S) + IF Head(calls) \in S THEN 1 ELSE 0
  BY <1>1, HitsEnds
<1>4. Hits(more, S) \in Nat /\ Hits(Tail(calls), S) \in Nat
  BY <1>1, HitsType
<1>5. calls' = more \o Tail(calls)
  BY DEF Then
<1> QED BY <1>2, <1>3, <1>4, <1>5 DEF One

(* How many sessions run, when one changes.                                 *)
Ran == Cardinality({c \in Sessions : Runs(c)})

(* A step of one session changes the number of those that run by that one.  *)
LEMMA RanIs ==
  ASSUME NEW c \in Sessions, \A d \in Sessions \ {c} : sess'[d].stage = sess[d].stage
  PROVE  Ran \in Nat /\ Ran' \in Nat /\ Ran' + One(Runs(c)) = Ran + One(Runs(c)')
<1> DEFINE S == {d \in Sessions : Runs(d)}
           T == {d \in Sessions : Runs(d)'}
           U == {d \in Sessions \ {c} : Runs(d)}
<1>1. /\ S = IF Runs(c) THEN U \cup {c} ELSE U
      /\ T = IF Runs(c)' THEN U \cup {c} ELSE U
      /\ U \subseteq Sessions /\ c \notin U
  BY DEF Runs
<1>2. IsFiniteSet(U) /\ IsFiniteSet(S) /\ IsFiniteSet(T)
  BY RuntimesAssumption, FS_Subset
<1>3. Cardinality(U) \in Nat /\ Cardinality(U \cup {c}) = Cardinality(U) + 1
  BY <1>1, <1>2, FS_AddElement, FS_CardinalityType
<1>4. Ran = Cardinality(S) /\ Ran' = Cardinality(T)
  BY DEF Ran
<1> HIDE DEF S, T, U
<1> QED BY <1>1, <1>3, <1>4 DEF One

-----------------------------------------------------------------------------
(* A session that is queued has one place: in the row of waits, in line for *)
(* a slot, or in a call to come; or it is being dropped.  Its timer runs    *)
(* from the line to the call that starts it.                                *)
Dropped(c) == calls # <<>> /\ Head(calls) = For("release", c)
Holding(c) == Hits(waits, {c}) + InLine(lim, c) + Hits(calls, ClaimsOf(c))

PlacedAt(c) == \/ Holding(c) = One(Queued(c))
               \/ Holding(c) = 0 /\ Queued(c) /\ Dropped(c)

TimedAt(c) == /\ InLine(lim, c) > 0 => sess[c].timer
              /\ sess[c].timer => InLine(lim, c) + Hits(calls, SpawnsOf(c)) > 0

(* Calls that end sessions come after those that give them a place.         *)
Enders == {"down", "watched", "release", "gone"}
Before(x, y) == y.op \in Claims => /\ x.op \notin {"down", "watched"}
                                   /\ x.op \in {"release", "gone"} => x.who # y.who
Ordered == \A i, j \in 1 .. Len(calls) : i < j => Before(calls[i], calls[j])

(* The slots that are taken are those of sessions that run, and those that  *)
(* a call to come will use or give back.                                    *)
Counted == lim.running = Ran + Hits(calls, SlotCalls)

Placed == \A c \in Sessions : PlacedAt(c) /\ TimedAt(c)

SlotInv == Counted /\ Full(lim) /\ Placed /\ Ordered

(* What the counts are.                                                     *)
LEMMA HoldingIs ==
  ASSUME SessTypes, CallTypes, NEW c
  PROVE  /\ Hits(waits, {c}) \in Nat /\ InLine(lim, c) \in Nat /\ Hits(calls, ClaimsOf(c)) \in Nat
         /\ Hits(calls, SpawnsOf(c)) \in Nat /\ Hits(calls, SpawnsOf(c)) <= Hits(calls, ClaimsOf(c))
         /\ Holding(c) \in Nat
         /\ Holding(c) = Hits(waits, {c}) + InLine(lim, c) + Hits(calls, ClaimsOf(c))
<1>1. lim \in Limiters /\ calls \in Seq(CallSet) /\ waits \in Seq(Waiters \cup Sessions)
  BY DEF SessTypes, CallTypes
<1>2. Hits(waits, {c}) \in Nat /\ InLine(lim, c) \in Nat /\ Hits(calls, ClaimsOf(c)) \in Nat
  BY <1>1, HitsType, InLineIs
<1>3. Hits(calls, SpawnsOf(c)) \in Nat /\ IsFiniteSet(Spots(calls, ClaimsOf(c)))
  BY <1>1, HitsType
<1>4. Spots(calls, SpawnsOf(c)) \subseteq Spots(calls, ClaimsOf(c))
  <2>1. For("spawn", c).op = "spawn" /\ For("spawn", c).who = c
    BY DEF For, Call
  <2>2. \A k \in 1 .. Len(calls) : calls[k] \in CallSet
    BY <1>1
  <2> QED BY <2>1, <2>2 DEF Spots, SpawnsOf, ClaimsOf, Claims
<1>5. Hits(calls, SpawnsOf(c)) <= Hits(calls, ClaimsOf(c))
  BY <1>3, <1>4, FS_Subset DEF Hits
<1>6. Holding(c) = Hits(waits, {c}) + InLine(lim, c) + Hits(calls, ClaimsOf(c))
  BY DEF Holding
<1> HIDE DEF InLine
<1> QED BY <1>2, <1>3, <1>5, <1>6

(* A session that the call at hand is not about, or only to end it.         *)
LEMMA OthersStay ==
  ASSUME SessTypes, CallTypes, SessTypes', CallTypes', calls # <<>>, NEW more \in Seq(CallSet), Then(more),
         NEW d \in Sessions, PlacedAt(d), TimedAt(d), Head(calls) \notin ClaimsOf(d), Head(calls) # For("release", d),
         sess'[d].stage = sess[d].stage, sess'[d].timer = sess[d].timer,
         Hits(waits', {d}) + InLine(lim', d) + Hits(more, ClaimsOf(d)) = Hits(waits, {d}) + InLine(lim, d),
         InLine(lim', d) <= InLine(lim, d),
         InLine(lim, d) <= InLine(lim', d) + Hits(more, SpawnsOf(d))
  PROVE  PlacedAt(d)' /\ TimedAt(d)'
<1>1. /\ Hits(waits, {d}) \in Nat /\ InLine(lim, d) \in Nat /\ Hits(calls, ClaimsOf(d)) \in Nat
      /\ Hits(calls, SpawnsOf(d)) \in Nat
      /\ Holding(d) = Hits(waits, {d}) + InLine(lim, d) + Hits(calls, ClaimsOf(d))
  BY HoldingIs
<1>2. /\ Hits(waits', {d}) \in Nat /\ InLine(lim', d) \in Nat
      /\ Holding(d)' = Hits(waits', {d}) + InLine(lim', d) + Hits(calls', ClaimsOf(d))
  BY HitsType, InLineIs DEF Holding, SessTypes, CallTypes
<1>3. Head(calls) \notin SpawnsOf(d)
  <2>1. Head(calls) \in CallSet
    BY ElemsTail DEF CallTypes
  <2>2. For("spawn", d).op = "spawn" /\ For("spawn", d).who = d
    BY DEF For, Call
  <2> QED BY <2>1, <2>2 DEF SpawnsOf, ClaimsOf, Claims
<1>4. /\ Hits(calls', ClaimsOf(d)) \in Nat /\ Hits(more, ClaimsOf(d)) \in Nat
      /\ Hits(calls', ClaimsOf(d)) = Hits(more, ClaimsOf(d)) + Hits(calls, ClaimsOf(d))
  BY CallsHits DEF One
<1>5. /\ Hits(calls', SpawnsOf(d)) \in Nat /\ Hits(more, SpawnsOf(d)) \in Nat
      /\ Hits(calls', SpawnsOf(d)) = Hits(more, SpawnsOf(d)) + Hits(calls, SpawnsOf(d))
  BY <1>3, CallsHits DEF One
<1>6. Holding(d)' = Holding(d)
  BY <1>1, <1>2, <1>4
<1>7. Holding(d) = One(Queued(d)) /\ (Queued(d)' <=> Queued(d))
  BY DEF PlacedAt, Dropped, Queued
<1>8. One(Queued(d))' = One(Queued(d))
  BY <1>7 DEF One
<1>9. PlacedAt(d)'
  BY <1>6, <1>7, <1>8 DEF PlacedAt
<1>10. InLine(lim, d) + Hits(calls, SpawnsOf(d)) > 0 => InLine(lim', d) + Hits(calls', SpawnsOf(d)) > 0
  BY <1>1, <1>2, <1>5
<1>11. InLine(lim', d) > 0 => InLine(lim, d) > 0
  BY <1>1, <1>2
<1>12. TimedAt(d)'
  BY <1>10, <1>11 DEF TimedAt
<1> QED BY <1>9, <1>12

(* The order, when a call leaves others.                                    *)
LEMMA OrderHead ==
  ASSUME CallTypes, Ordered, calls # <<>>
  PROVE  \A y \in Elems(Tail(calls)) : Before(Head(calls), y)
<1>1. /\ Len(calls) \in Nat \ {0} /\ Head(calls) = calls[1] /\ Len(Tail(calls)) = Len(calls) - 1
      /\ \A k \in 1 .. Len(Tail(calls)) : Tail(calls)[k] = calls[k + 1]
  BY ElemsTail DEF CallTypes
<1>2. ASSUME NEW k \in 1 .. Len(Tail(calls)) PROVE Before(Head(calls), Tail(calls)[k])
  BY <1>1, <1>2 DEF Ordered
<1> QED BY <1>2 DEF Elems

(* A handler may push calls that end sessions if none of the calls behind   *)
(* them gives a place to one of these sessions.                             *)
LEMMA OrderStep ==
  ASSUME CallTypes, Ordered, calls # <<>>, NEW more \in Seq(CallSet), Then(more),
         (\A x \in Elems(more) : x.op \notin Claims) \/ (\A x \in Elems(more) : x.op \notin Enders),
         \A x \in Elems(more) : x.op \in Enders => \A y \in Elems(Tail(calls)) : Before(x, y)
  PROVE  Ordered'
<1>1. /\ Len(calls) \in Nat \ {0} /\ Head(calls) = calls[1] /\ Len(Tail(calls)) = Len(calls) - 1
      /\ Tail(calls) \in Seq(CallSet) /\ Len(more) \in Nat
      /\ \A k \in 1 .. Len(Tail(calls)) : Tail(calls)[k] = calls[k + 1]
  BY ElemsTail DEF CallTypes
<1> DEFINE m == Len(more)
           n == Len(Tail(calls))
<1>2. /\ calls' = more \o Tail(calls) /\ Len(calls') = m + n /\ m \in Nat /\ n \in Nat
      /\ \A k \in 1 .. m : calls'[k] = more[k]
      /\ \A k \in 1 .. n : calls'[m + k] = Tail(calls)[k]
      /\ \A k \in 1 .. m + n : k \in 1 .. m \/ k - m \in 1 .. n
  BY <1>1, ElemsConcat DEF Then
<1>3. \A x, y : x.op \notin Enders \/ y.op \notin Claims => Before(x, y)
  BY DEF Before, Enders
<1>4. ASSUME NEW i \in 1 .. m + n, NEW j \in 1 .. m + n, i < j PROVE Before(calls'[i], calls'[j])
  <2>1. CASE i \in 1 .. m /\ j \in 1 .. m
    <3>1. calls'[i] \in Elems(more) /\ calls'[j] \in Elems(more)
      BY <1>2, <2>1 DEF Elems
    <3> QED BY <1>3, <3>1
  <2>2. CASE i \in 1 .. m /\ j - m \in 1 .. n
    <3>1. calls'[i] \in Elems(more)
      BY <1>2, <2>2 DEF Elems
    <3>2. calls'[j] = Tail(calls)[j - m] /\ Tail(calls)[j - m] \in Elems(Tail(calls))
      <4>1. calls'[m + (j - m)] = Tail(calls)[j - m] /\ m + (j - m) = j
        BY <1>2, <2>2
      <4> QED BY <2>2, <4>1 DEF Elems
    <3> QED BY <1>3, <3>1, <3>2
  <2>3. CASE i - m \in 1 .. n /\ j - m \in 1 .. n
    <3>1. /\ m + (i - m) = i /\ m + (j - m) = j
          /\ calls'[m + (i - m)] = Tail(calls)[i - m] /\ calls'[m + (j - m)] = Tail(calls)[j - m]
      BY <1>2, <2>3
    <3>2. Tail(calls)[i - m] = calls[(i - m) + 1] /\ Tail(calls)[j - m] = calls[(j - m) + 1]
      BY <1>1, <2>3
    <3>3. (i - m) + 1 \in 1 .. Len(calls) /\ (j - m) + 1 \in 1 .. Len(calls) /\ (i - m) + 1 < (j - m) + 1
      BY <1>1, <1>2, <1>4, <2>3
    <3> QED BY <3>1, <3>2, <3>3 DEF Ordered
  <2>4. ~(i - m \in 1 .. n /\ j \in 1 .. m)
    BY <1>2, <1>4
  <2> QED BY <1>2, <2>1, <2>2, <2>3, <2>4
<1> QED BY <1>2, <1>4 DEF Ordered

(* Nobody but the call at hand holds the place of its session.              *)
LEMMA NoOther ==
  ASSUME SessTypes, CallTypes, calls # <<>>, NEW c \in Sessions, PlacedAt(c), Head(calls) # For("release", c),
         Head(calls) \in ClaimsOf(c) \/ ~Queued(c)
  PROVE  /\ \A y \in Elems(Tail(calls)) : y \notin ClaimsOf(c)
         /\ Head(calls) \in ClaimsOf(c) =>
              /\ Queued(c) /\ Hits(waits, {c}) = 0 /\ InLine(lim, c) = 0 /\ Hits(calls, ClaimsOf(c)) = 1
         /\ ~Queued(c) => /\ Hits(waits, {c}) = 0 /\ InLine(lim, c) = 0 /\ Hits(calls, ClaimsOf(c)) = 0
                          /\ Head(calls) \notin ClaimsOf(c)
<1>1. Holding(c) = One(Queued(c))
  BY DEF PlacedAt, Dropped
<1>2. /\ Hits(waits, {c}) \in Nat /\ InLine(lim, c) \in Nat /\ Hits(calls, ClaimsOf(c)) \in Nat
      /\ Hits(waits, {c}) + InLine(lim, c) + Hits(calls, ClaimsOf(c)) = One(Queued(c))
  BY <1>1, HoldingIs
<1>3. /\ calls \in Seq(CallSet) /\ Tail(calls) \in Seq(CallSet) /\ Head(calls) \in CallSet
      /\ Hits(Tail(calls), ClaimsOf(c)) \in Nat
      /\ Hits(calls, ClaimsOf(c)) = Hits(Tail(calls), ClaimsOf(c)) + One(Head(calls) \in ClaimsOf(c))
  <2>1. calls \in Seq(CallSet) /\ Tail(calls) \in Seq(CallSet) /\ Head(calls) \in CallSet
    BY ElemsTail DEF CallTypes
  <2> QED BY <2>1, HitsEnds, HitsType DEF One
<1>4. CASE Head(calls) \in ClaimsOf(c)
  <2>1. One(Head(calls) \in ClaimsOf(c)) = 1
    BY <1>4 DEF One
  <2>2. One(Queued(c)) = 1 /\ Queued(c)
    BY <1>2, <1>3, <2>1 DEF One
  <2>3. /\ Hits(Tail(calls), ClaimsOf(c)) = 0 /\ Hits(waits, {c}) = 0 /\ InLine(lim, c) = 0
        /\ Hits(calls, ClaimsOf(c)) = 1
    <3> DEFINE w == Hits(waits, {c})    q == InLine(lim, c)
               k == Hits(calls, ClaimsOf(c))    t == Hits(Tail(calls), ClaimsOf(c))
    <3>1. w \in Nat /\ q \in Nat /\ k \in Nat /\ t \in Nat /\ w + q + k = 1 /\ k = t + 1
      BY <1>2, <1>3, <2>1, <2>2
    <3> HIDE DEF w, q, k, t
    <3>2. t = 0 /\ w = 0 /\ q = 0 /\ k = 1
      BY <3>1
    <3> QED BY <3>2 DEF w, q, k, t
  <2>4. Elems(Tail(calls)) \cap ClaimsOf(c) = {}
    BY <1>3, <2>3, HitsType
  <2> QED BY <1>4, <2>2, <2>3, <2>4
<1>5. CASE ~Queued(c)
  <2>1. One(Queued(c)) = 0
    BY <1>5 DEF One
  <2>2. /\ Hits(Tail(calls), ClaimsOf(c)) = 0 /\ One(Head(calls) \in ClaimsOf(c)) = 0
        /\ Hits(waits, {c}) = 0 /\ InLine(lim, c) = 0 /\ Hits(calls, ClaimsOf(c)) = 0
    BY <1>2, <1>3, <2>1 DEF One
  <2>3. Elems(Tail(calls)) \cap ClaimsOf(c) = {}
    BY <1>3, <2>2, HitsType
  <2> QED BY <1>5, <2>2, <2>3 DEF One
<1> QED BY <1>4, <1>5

(* An end of a session is before no place of it.                            *)
LEMMA EndBefore ==
  ASSUME CallTypes, calls # <<>>, NEW c \in Sessions, \A y \in Elems(Tail(calls)) : y \notin ClaimsOf(c)
  PROVE  \A y \in Elems(Tail(calls)) : Before(For("release", c), y)
<1>1. Tail(calls) \in Seq(CallSet)
  BY ElemsTail DEF CallTypes
<1>2. \A y \in Elems(Tail(calls)) : y \in CallSet
  BY <1>1 DEF Elems
<1>3. For("release", c).op = "release" /\ For("release", c).who = c
  BY DEF For, Call
<1> QED BY <1>2, <1>3 DEF Before, ClaimsOf

(* The order is kept by every call.                                         *)
LEMMA OrderCalls ==
  ASSUME LinkTypes, SessTypes, CallTypes, CallsInv, Ordered, Placed, Calls
  PROVE  Ordered'
<1>1. PICK more : Then(more) /\ Pushed(more, Head(calls).op)
  BY CallLeaves DEF Leaves
<1>2. calls # <<>> /\ more \in Seq(CallSet) /\ Head(calls) \in CallSet /\ \A x \in Elems(more) : May(Head(calls).op, x.op)
  BY <1>1, CallLeaves, ElemsTail DEF Pushed, CallTypes
<1>3. ASSUME \A x \in Elems(more) : x.op \notin Enders PROVE Ordered'
  BY <1>1, <1>2, <1>3, OrderStep
<1>4. CASE Head(calls).op \in {"watched", "down"}
  <2>1. \A x \in Elems(more) : x.op \notin Claims
    BY <1>2, <1>4 DEF May, Claims, Askers
  <2>2. \A y \in Elems(Tail(calls)) : y.op \notin Claims
    BY <1>2, <1>4, OrderHead DEF Before
  <2>3. \A x \in Elems(more), y \in Elems(Tail(calls)) : Before(x, y)
    BY <2>2 DEF Before
  <2> QED BY <1>1, <1>2, <2>1, <2>3, OrderStep
<1>5. ASSUME NEW c \in Sessions, Then(<<For("release", c)>>) \/ Then(<<For("release", c), Plain("leave")>>),
             \A y \in Elems(Tail(calls)) : y \notin ClaimsOf(c)
      PROVE  Ordered'
  <2>1. /\ For("release", c) \in CallSet /\ Plain("leave") \in CallSet
        /\ For("release", c).op = "release" /\ Plain("leave").op = "leave"
    BY CallsAre DEF OfSession, OfLink
  <2>2. \A y \in Elems(Tail(calls)) : Before(For("release", c), y)
    BY <1>2, <1>5, EndBefore
  <2>3. PICK m \in {<<For("release", c)>>, <<For("release", c), Plain("leave")>>} : Then(m)
    BY <1>5
  <2>4. m \in Seq(CallSet) /\ Elems(m) \subseteq {For("release", c), Plain("leave")}
    <3>1. CASE m = <<For("release", c)>>
      BY <2>1, <3>1, ElemsOne
    <3>2. CASE m = <<For("release", c), Plain("leave")>>
      BY <2>1, <3>2 DEF Elems
    <3> QED BY <2>3, <3>1, <3>2
  <2>5. \A x \in Elems(m) : x.op \notin Claims
    BY <2>1, <2>4 DEF Claims
  <2>6. \A x \in Elems(m) : x.op \in Enders => \A y \in Elems(Tail(calls)) : Before(x, y)
    BY <2>1, <2>2, <2>4 DEF Enders
  <2> QED BY <1>2, <2>3, <2>4, <2>5, <2>6, OrderStep
<1>6. CASE Head(calls).op \notin {"watched", "down", "answer", "proceed", "spawn", "finished"}
  <2>1. \A x \in Elems(more) : x.op \notin Enders
    BY <1>2, <1>6 DEF May, Enders
  <2> QED BY <1>3, <2>1
<1>7. ASSUME NEW m \in Seq(CallSet), Then(m), \A x \in Elems(m) : x.op \notin Enders PROVE Ordered'
  BY <1>2, <1>7, OrderStep
<1>8. <<>> \in Seq(CallSet) /\ \A x \in Elems(<<>>) : x.op \notin Enders
  BY ElemsNone
<1>9. ASSUME NEW op \in {"join", "pump"}, NEW c \in Sessions, Then(<<For(op, c)>>) PROVE Ordered'
  <2>1. For(op, c) \in CallSet /\ For(op, c).op = op
    BY CallsAre DEF OfSession
  <2>2. <<For(op, c)>> \in Seq(CallSet) /\ Elems(<<For(op, c)>>) = {For(op, c)}
    BY <2>1, ElemsOne
  <2> QED BY <1>7, <1>9, <2>1, <2>2 DEF Enders
<1>10. CASE Head(calls).op \in {"answer", "proceed", "spawn"}
  <2>1. Answer \/ Proceed \/ SpawnSession
    BY <1>10 DEF Calls, ReapCall, LinkCall, ExecCall, JoinSlot, LeaveLimiter,
         EndSession, CloseSession, Pump, FinishExit, FinishError, FinishRetry, Advance, GoUp,
         Collect, FinishCheck, FinishDeliver, Settle, WatchEnds, PumpAll, ReapLeaving, Begin,
         StartStage, Fail, Restart, ForceDown, Unlink, Delete, Touch, Changed, AnswerPassed, Do
  <2>2. ASSUME Who \in Sessions PROVE \A y \in Elems(Tail(calls)) : y \notin ClaimsOf(Who)
    <3>1. Head(calls) \in ClaimsOf(Who) /\ Head(calls) # For("release", Who)
      <4>1. For("release", Who).op = "release"
        BY DEF For, Call
      <4> QED BY <1>2, <1>10, <4>1 DEF ClaimsOf, Claims, Who
    <3>2. PlacedAt(Who)
      BY <2>2 DEF Placed
    <3> QED BY <1>2, <2>2, <3>1, <3>2, NoOther
  <2>3. CASE Answer
    <3>1. \/ Then(<<>>)
          \/ Who \in Sessions /\ (Then(<<For("join", Who)>>) \/ Then(<<For("release", Who)>>))
      BY <2>3 DEF Answer
    <3> QED BY <1>5, <1>7, <1>8, <1>9, <2>2, <3>1
  <2>4. CASE Proceed
    <3>1. Who \in Sessions
      BY <2>4, NowIs DEF Proceed, OfSession
    <3>2. Then(<<>>) \/ Then(<<For("join", Who)>>) \/ Then(<<For("release", Who)>>)
      BY <2>4 DEF Proceed
    <3> QED BY <1>5, <1>7, <1>8, <1>9, <2>2, <3>1, <3>2
  <2>5. CASE SpawnSession
    <3>1. Who \in Sessions
      BY <2>5, NowIs DEF SpawnSession, OfSession
    <3>2. \/ Then(<<>>) \/ Then(<<For("pump", Who)>>) \/ Then(<<For("release", Who)>>)
          \/ Then(<<For("release", Who), Plain("leave")>>)
      BY <2>5 DEF SpawnSession
    <3> QED BY <1>5, <1>7, <1>8, <1>9, <2>2, <3>1, <3>2
  <2> QED BY <2>1, <2>3, <2>4, <2>5
<1>11. CASE Head(calls).op = "finished"
  <2>1. Do("finished") /\ (FinishExit \/ FinishError \/ FinishRetry)
    BY <1>11 DEF Calls, ReapCall, LinkCall, ExecCall, JoinSlot, LeaveLimiter, Proceed, SpawnSession,
         EndSession, CloseSession, Pump, FinishExit, FinishError, FinishRetry, Advance, GoUp,
         Collect, FinishCheck, FinishDeliver, Settle, WatchEnds, PumpAll, ReapLeaving, Begin,
         StartStage, Fail, Restart, ForceDown, Unlink, Delete, Touch, Changed, Answer, AnswerPassed, Do
  <2>2. Who \in Sessions /\ sess[Who].stage = "running"
    BY <2>1, NowIs, NowInv DEF OfSession
  <2>3. CASE FinishExit \/ FinishError
    <3>1. Then(<<For("release", Who)>>)
      BY <2>3 DEF FinishExit, FinishError
    <3>2. ~Queued(Who) /\ PlacedAt(Who)
      BY <2>2 DEF Queued, Placed
    <3>3. Head(calls) # For("release", Who)
      <4>1. For("release", Who).op = "release"
        BY DEF For, Call
      <4> QED BY <1>11, <4>1
    <3>4. \A y \in Elems(Tail(calls)) : y \notin ClaimsOf(Who)
      BY <1>2, <2>2, <3>2, <3>3, NoOther
    <3> QED BY <1>5, <2>2, <3>1, <3>4
  <2>4. CASE FinishRetry
    <3> DEFINE st == Retry(lim, Who, sess[Who].late).start
    <3>1. Then(ForEach("spawn", st))
      BY <2>4 DEF FinishRetry
    <3>2. st \in Seq(Sessions)
      BY <2>2, LimiterTypes DEF SessTypes, Sess
    <3> HIDE DEF st
    <3>3. /\ ForEach("spawn", st) \in Seq(CallSet)
          /\ \A x \in Elems(ForEach("spawn", st)) : x.op = "spawn"
      BY <3>2, ForEachIs DEF OfSession
    <3> QED BY <1>7, <3>1, <3>3 DEF Enders
  <2> QED BY <2>1, <2>3, <2>4
<1> QED BY <1>4, <1>6, <1>10, <1>11

(* Which calls hold a place, or a slot.                                     *)
LEMMA KindsOfCalls ==
  /\ \A op \in OfSession, c \in Sessions : \A d :
        /\ For(op, c) \in ClaimsOf(d) <=> op \in Claims /\ c = d
        /\ For(op, c) \in SpawnsOf(d) <=> op = "spawn" /\ c = d
        /\ For(op, c) \in SlotCalls <=> op = "spawn"
  /\ \A op \in OfLink : \A d :
        /\ Plain(op) \notin ClaimsOf(d) /\ Plain(op) \notin SpawnsOf(d)
        /\ Plain(op) \in SlotCalls <=> op = "leave"
<1>1. ASSUME NEW op \in OfSession, NEW c \in Sessions, NEW d
      PROVE  /\ For(op, c) \in ClaimsOf(d) <=> op \in Claims /\ c = d
             /\ For(op, c) \in SpawnsOf(d) <=> op = "spawn" /\ c = d
             /\ For(op, c) \in SlotCalls <=> op = "spawn"
  <2>1. For(op, c) \in CallSet /\ For(op, c).op = op /\ For(op, c).who = c
    BY CallsAre
  <2>2. For("spawn", d).op = "spawn" /\ For("spawn", d).who = d
    BY DEF For, Call
  <2>3. op # "leave"
    BY DEF OfSession
  <2> QED BY <2>1, <2>2, <2>3 DEF ClaimsOf, SpawnsOf, SlotCalls
<1>2. ASSUME NEW op \in OfLink, NEW d
      PROVE  /\ Plain(op) \notin ClaimsOf(d) /\ Plain(op) \notin SpawnsOf(d)
             /\ Plain(op) \in SlotCalls <=> op = "leave"
  <2>1. Plain(op) \in CallSet /\ Plain(op).op = op
    BY CallsAre
  <2>2. For("spawn", d).op = "spawn"
    BY DEF For, Call
  <2>3. op \notin Claims
    BY DEF OfLink, Claims
  <2>4. op # "spawn"
    BY DEF OfLink
  <2> QED BY <2>1, <2>2, <2>3, <2>4 DEF ClaimsOf, SpawnsOf, SlotCalls
<1> QED BY <1>1, <1>2

(* Rows without such calls.                                                 *)
LEMMA NoClaims ==
  ASSUME NEW more \in Seq(CallSet), \A x \in Elems(more) : x.op \notin Claims \cup {"leave"}
  PROVE  /\ Hits(more, SlotCalls) = 0
         /\ \A d : Hits(more, ClaimsOf(d)) = 0 /\ Hits(more, SpawnsOf(d)) = 0
<1>1. Elems(more) \cap SlotCalls = {}
  BY DEF SlotCalls, Claims
<1>2. ASSUME NEW d PROVE Elems(more) \cap ClaimsOf(d) = {} /\ Elems(more) \cap SpawnsOf(d) = {}
  <2>1. For("spawn", d).op = "spawn"
    BY DEF For, Call
  <2> QED BY <2>1 DEF ClaimsOf, SpawnsOf, Claims
<1> QED BY <1>1, <1>2, HitsType

(* The place of a session whose call is at hand has no timer yet.           *)
LEMMA NoTimer ==
  ASSUME SessTypes, CallTypes, calls # <<>>, NEW c \in Sessions, PlacedAt(c), TimedAt(c),
         Head(calls) \in ClaimsOf(c), Head(calls).op # "spawn"
  PROVE  ~sess[c].timer
<1>1. Head(calls) # For("release", c)
  <2>1. For("release", c).op = "release"
    BY DEF For, Call
  <2> QED BY <2>1 DEF ClaimsOf, Claims
<1>2. (\A y \in Elems(Tail(calls)) : y \notin ClaimsOf(c)) /\ InLine(lim, c) = 0
  BY <1>1, NoOther
<1>3. /\ calls \in Seq(CallSet) /\ Tail(calls) \in Seq(CallSet) /\ Head(calls) \in CallSet
      /\ Elems(calls) = {Head(calls)} \cup Elems(Tail(calls))
  BY ElemsTail DEF CallTypes
<1>4. For("spawn", c).op = "spawn" /\ For("spawn", c).who = c
  BY DEF For, Call
<1>5. Elems(calls) \cap SpawnsOf(c) = {}
  <2>1. \A y \in Elems(Tail(calls)) : y \in CallSet
    BY <1>3 DEF Elems
  <2> QED BY <1>2, <1>3, <1>4, <2>1 DEF SpawnsOf, ClaimsOf, Claims
<1>6. Hits(calls, SpawnsOf(c)) = 0
  BY <1>3, <1>5, HitsType
<1> QED BY <1>2, <1>6 DEF TimedAt

(* The sessions that run are the same.                                      *)
LEMMA RanStays ==
  ASSUME \A d \in Sessions : sess'[d].stage = sess[d].stage
  PROVE  Ran' = Ran
<1>1. \A d \in Sessions : Runs(d)' <=> Runs(d)
  BY DEF Runs
<1>2. {d \in Sessions : Runs(d)'} = {d \in Sessions : Runs(d)}
  BY <1>1
<1> QED BY <1>2 DEF Ran

Slots == Counted /\ Full(lim) /\ Placed

(* A call that neither gives nor takes a place or a slot, or that moves     *)
(* those who wait into calls.                                               *)
LEMMA SlotsStill ==
  ASSUME SessTypes, CallTypes, SessTypes', CallTypes', Slots, calls # <<>>,
         NEW more \in Seq(CallSet), Then(more), lim' = lim,
         \A d \in Sessions : sess'[d].stage = sess[d].stage /\ sess'[d].timer = sess[d].timer,
         Hits(more, SlotCalls) = 0, Head(calls).op \notin {"spawn", "leave", "release"},
         \A d \in Sessions : /\ Head(calls) \notin ClaimsOf(d)
                             /\ Hits(waits', {d}) + Hits(more, ClaimsOf(d)) = Hits(waits, {d})
  PROVE  Slots'
<1>1. Hits(calls', SlotCalls) = Hits(calls, SlotCalls)
  <2>1. Head(calls) \notin SlotCalls
    BY DEF SlotCalls
  <2> QED BY <2>1, CallsHits DEF One
<1>2. Counted'
  BY <1>1, RanStays DEF Slots, Counted
<1>3. ASSUME NEW d \in Sessions PROVE PlacedAt(d)' /\ TimedAt(d)'
  <2>1. Head(calls) # For("release", d)
    <3>1. For("release", d).op = "release"
      BY DEF For, Call
    <3> QED BY <3>1
  <2>2. /\ InLine(lim, d) \in Nat /\ Hits(waits, {d}) \in Nat /\ Hits(waits', {d}) \in Nat
        /\ Hits(more, ClaimsOf(d)) \in Nat /\ Hits(more, SpawnsOf(d)) \in Nat
    BY HoldingIs, HitsType DEF CallTypes
  <2>3. Hits(waits', {d}) + InLine(lim', d) + Hits(more, ClaimsOf(d)) = Hits(waits, {d}) + InLine(lim, d)
    <3>1. Hits(waits', {d}) + Hits(more, ClaimsOf(d)) = Hits(waits, {d})
      OBVIOUS
    <3>2. InLine(lim', d) = InLine(lim, d)
      OBVIOUS
    <3> HIDE DEF InLine
    <3> QED BY <2>2, <3>1, <3>2
  <2>4. InLine(lim', d) <= InLine(lim, d) /\ InLine(lim, d) <= InLine(lim', d) + Hits(more, SpawnsOf(d))
    BY <2>2
  <2>5. PlacedAt(d) /\ TimedAt(d)
    BY DEF Slots, Placed
  <2> QED BY <2>1, <2>3, <2>4, <2>5, OthersStay
<1> QED BY <1>2, <1>3 DEF Slots, Placed

(* The calls about links, processes and waiters, and those that look at a   *)
(* session's helper.                                                        *)
SlotOps == {"answer", "proceed", "join", "spawn", "leave", "release", "gone", "changed", "notice", "unlink"}

(* A call of any other kind keeps the slots and the places.                 *)
LEMMA SlotsMost ==
  ASSUME LinkTypes, SessTypes, CallTypes, SessTypes', CallTypes', CallsInv, Slots, Calls,
         Head(calls).op \notin SlotOps, ~FinishRetry
  PROVE  Slots'
<1>1. PICK more : Then(more) /\ Pushed(more, Head(calls).op)
  BY CallLeaves DEF Leaves
<1>2. /\ calls # <<>> /\ more \in Seq(CallSet) /\ Head(calls) \in CallSet
      /\ \A x \in Elems(more) : May(Head(calls).op, x.op)
  BY <1>1, CallLeaves, ElemsTail DEF Pushed, CallTypes
<1>3. lim' = lim /\ waits' = waits
  BY DEF Calls, ReapCall, LinkCall, ExecCall, Proceed, JoinSlot, SpawnSession, LeaveLimiter,
         EndSession, CloseSession, Pump, FinishExit, FinishError, Advance, GoUp,
         Collect, FinishCheck, FinishDeliver, Settle, WatchEnds, PumpAll, ReapLeaving, Begin,
         StartStage, Fail, Restart, ForceDown, Unlink, Delete, Touch, Changed, Answer, AnswerPassed, Do,
         SlotOps, registry, execs
<1>4. \A d \in Sessions : sess'[d].stage = sess[d].stage /\ sess'[d].timer = sess[d].timer
  <2>1. CASE Pump
    <3>1. sess' = sess \/ sess' = [sess EXCEPT ![Who] = [sess[Who] EXCEPT !.pid = None]]
      BY <2>1 DEF Pump, SetSess
    <3>2. Who \in Sessions
      BY <2>1, NowIs DEF Pump, OfSession
    <3> QED BY <3>1, <3>2 DEF SessTypes, Sess
  <2>2. CASE ~Pump
    <3>1. sess' = sess
      BY <2>2 DEF Calls, ReapCall, LinkCall, ExecCall, Proceed, JoinSlot, SpawnSession, LeaveLimiter,
         EndSession, CloseSession, FinishExit, FinishError, Advance, GoUp,
         Collect, FinishCheck, FinishDeliver, Settle, WatchEnds, PumpAll, ReapLeaving, Begin,
         StartStage, Fail, Restart, ForceDown, Unlink, Delete, Touch, Changed, Answer, AnswerPassed, Do,
         SlotOps, registry, execs
    <3> QED BY <3>1
  <2> QED BY <2>1, <2>2
<1>5. ASSUME NEW m \in Seq(CallSet), Then(m), \A x \in Elems(m) : x.op \notin Claims \cup {"leave"}
      PROVE  Slots'
  <2>1. \A d \in Sessions : Head(calls) \notin ClaimsOf(d)
    BY DEF ClaimsOf, Claims, SlotOps
  <2>2. Hits(m, SlotCalls) = 0 /\ \A d : Hits(m, ClaimsOf(d)) = 0
    BY <1>5, NoClaims
  <2>3. ASSUME NEW d \in Sessions PROVE Hits(waits', {d}) + Hits(m, ClaimsOf(d)) = Hits(waits, {d})
    <3>1. Hits(waits, {d}) \in Nat
      BY HoldingIs
    <3> QED BY <1>3, <2>2, <3>1
  <2> QED BY <1>2, <1>3, <1>4, <1>5, <2>1, <2>2, <2>3, SlotsStill DEF SlotOps
<1>6. CASE Head(calls).op # "finished"
  <2>1. \A x \in Elems(more) : x.op \notin Claims \cup {"leave"}
    BY <1>2, <1>6 DEF May, Claims, Askers, SlotOps
  <2> QED BY <1>1, <1>2, <1>5, <2>1
<1>7. CASE Head(calls).op = "finished"
  <2>1. Do("finished") /\ Then(<<For("release", Who)>>)
    BY <1>7 DEF Calls, ReapCall, LinkCall, ExecCall, JoinSlot, LeaveLimiter, Proceed, SpawnSession,
         EndSession, CloseSession, Pump, FinishExit, FinishError, Advance, GoUp,
         Collect, FinishCheck, FinishDeliver, Settle, WatchEnds, PumpAll, ReapLeaving, Begin,
         StartStage, Fail, Restart, ForceDown, Unlink, Delete, Touch, Changed, Answer, AnswerPassed, Do
  <2>2. Who \in Sessions
    BY <2>1, NowIs DEF OfSession
  <2>3. For("release", Who) \in CallSet /\ For("release", Who).op = "release"
    BY <2>2, CallsAre DEF OfSession
  <2>4. <<For("release", Who)>> \in Seq(CallSet) /\ \A x \in Elems(<<For("release", Who)>>) : x.op \notin Claims \cup {"leave"}
    BY <2>3, ElemsOne DEF Claims
  <2> QED BY <1>5, <2>1, <2>4
<1> QED BY <1>6, <1>7

(* Answers to those who wait.                                               *)
LEMMA AnswersHits ==
  ASSUME NEW state \in {"down", "up", "failed"}, NEW s \in Seq(Waiters \cup Sessions),
         NEW op \in OfLink \ {"leave"}
  PROVE  LET more == Answers(s, state) \o <<Plain(op)>>
         IN /\ more \in Seq(CallSet) /\ Hits(more, SlotCalls) = 0
            /\ \A d \in Sessions : Hits(more, ClaimsOf(d)) = Hits(s, {d})
<1>1. Len(s) \in Nat /\ DOMAIN s = 1 .. Len(s) /\ \A i \in 1 .. Len(s) : s[i] \in Waiters \cup Sessions
  OBVIOUS
<1>2. Answers(s, state) = [i \in 1 .. Len(s) |-> Call("answer", s[i], state)]
  BY <1>1 DEF Answers
<1> DEFINE a == Answers(s, state)
           b == <<Plain(op)>>
<1>3. \A i \in 1 .. Len(s) : /\ Call("answer", s[i], state) \in CallSet /\ Call("answer", s[i], state).who = s[i]
                             /\ Call("answer", s[i], state).op = "answer"
  BY <1>1, CallsAre
<1>4. a \in Seq(CallSet) /\ Len(a) = Len(s)
      /\ \A i \in 1 .. Len(s) : a[i] = Call("answer", s[i], state)
  BY <1>1, <1>2, <1>3
<1>5. Plain(op) \in CallSet
  BY CallsAre
<1>6. b \in Seq(CallSet) /\ Hits(b, SlotCalls) = 0 /\ \A d : Hits(b, ClaimsOf(d)) = 0
  <2>1. \A S : Plain(op) \notin S => Hits(b, S) = 0
    BY HitsOne
  <2>2. Plain(op) \notin SlotCalls /\ \A d : Plain(op) \notin ClaimsOf(d)
    BY KindsOfCalls
  <2>3. b \in Seq(CallSet)
    BY <1>5
  <2> QED BY <2>1, <2>2, <2>3
<1> HIDE DEF a, b
<1>7. ASSUME NEW d PROVE Spots(a, ClaimsOf(d)) = Spots(s, {d})
  <2>1. \A i \in 1 .. Len(s) : a[i] \in ClaimsOf(d) <=> s[i] = d
    BY <1>3, <1>4 DEF ClaimsOf, Claims
  <2> QED BY <1>4, <2>1 DEF Spots
<1>8. Hits(a, SlotCalls) = 0
  <2>1. \A i \in 1 .. Len(s) : a[i] \notin SlotCalls
    BY <1>3, <1>4 DEF SlotCalls
  <2>2. Elems(a) \cap SlotCalls = {}
    BY <1>4, <2>1 DEF Elems
  <2> QED BY <1>4, <2>2, HitsType
<1>9. a \o b \in Seq(CallSet) /\ \A S : Hits(a \o b, S) = Hits(a, S) + Hits(b, S)
  BY <1>4, <1>6, CallHits, ElemsConcat
<1>10. ASSUME NEW d \in Sessions PROVE Hits(a \o b, ClaimsOf(d)) = Hits(s, {d})
  <2>1. Hits(a, ClaimsOf(d)) = Hits(s, {d}) /\ Hits(b, ClaimsOf(d)) = 0
    BY <1>6, <1>7 DEF Hits
  <2>2. Hits(a, ClaimsOf(d)) \in Nat
    BY <1>4, HitsType
  <2> QED BY <1>9, <2>1, <2>2
<1>11. Hits(a \o b, SlotCalls) = 0
  BY <1>6, <1>8, <1>9
<1> QED BY <1>9, <1>10, <1>11 DEF a, b

(* The calls that answer everybody who waits.                               *)
LEMMA SlotsTold ==
  ASSUME LinkTypes, SessTypes, CallTypes, SessTypes', CallTypes', Slots, Changed \/ Unlink
  PROVE  Slots'
<1>1. /\ calls # <<>> /\ Head(calls).op \in {"changed", "notice", "unlink"} /\ sess' = sess /\ lim' = lim
  BY DEF Changed, Unlink, Do, AtRest, execs
<1>2. waits \in Seq(Waiters \cup Sessions)
  BY DEF CallTypes
<1>3. \A d \in Sessions : Head(calls) \notin ClaimsOf(d)
  BY <1>1 DEF ClaimsOf, Claims
<1>4. ASSUME NEW more \in Seq(CallSet), Then(more), Hits(more, SlotCalls) = 0,
             \A d \in Sessions : Hits(waits', {d}) + Hits(more, ClaimsOf(d)) = Hits(waits, {d})
      PROVE  Slots'
  BY <1>1, <1>3, <1>4, SlotsStill
<1>5. ASSUME NEW state \in {"down", "up", "failed"}, NEW op \in OfLink \ {"leave"}, waits' = <<>>,
             Then(Answers(waits, state) \o <<Plain(op)>>)
      PROVE  Slots'
  <2> DEFINE more == Answers(waits, state) \o <<Plain(op)>>
  <2>1. /\ more \in Seq(CallSet) /\ Hits(more, SlotCalls) = 0
        /\ \A d \in Sessions : Hits(more, ClaimsOf(d)) = Hits(waits, {d})
    BY <1>2, AnswersHits
  <2>2. Then(more)
    BY <1>5
  <2> HIDE DEF more
  <2>3. ASSUME NEW d \in Sessions PROVE Hits(waits', {d}) + Hits(more, ClaimsOf(d)) = Hits(waits, {d})
    <3>1. Hits(waits', {d}) = 0 /\ Hits(waits, {d}) \in Nat
      BY <1>2, <1>5, HitsOne, HitsType
    <3> QED BY <2>1, <3>1
  <2> QED BY <1>4, <2>1, <2>2, <2>3
<1>6. CASE Unlink
  <2>1. waits' = <<>> /\ Then(Answers(waits, "down") \o <<Plain("changed")>>)
    BY <1>6 DEF Unlink
  <2>2. "changed" \in OfLink \ {"leave"}
    BY DEF OfLink
  <2> QED BY <1>5, <2>1, <2>2
<1>7. CASE Changed /\ Settled # <<>>
  <2>1. Settled = waits /\ LinkState \in {"down", "up", "failed"} /\ waits' = <<>>
    BY <1>7 DEF Changed, Settled, LinkState, LinkTypes, Links
  <2>2. Then(Answers(waits, LinkState) \o <<Plain("passed")>>)
    BY <1>7, <2>1 DEF Changed
  <2>3. "passed" \in OfLink \ {"leave"}
    BY DEF OfLink
  <2>4. PICK st \in {"down", "up", "failed"} : st = LinkState
    BY <2>1
  <2> QED BY <1>5, <2>1, <2>2, <2>3, <2>4
<1>8. CASE Changed /\ Settled = <<>>
  <2>1. waits' = waits /\ Then(<<>>)
    BY <1>8 DEF Changed, Settled
  <2>2. <<>> \in Seq(CallSet) /\ Hits(<<>>, SlotCalls) = 0 /\ \A d : Hits(<<>>, ClaimsOf(d)) = 0
    BY HitsOne
  <2>3. ASSUME NEW d \in Sessions PROVE Hits(waits', {d}) + Hits(<<>>, ClaimsOf(d)) = Hits(waits, {d})
    <3>1. Hits(waits, {d}) \in Nat
      BY <1>2, HitsType
    <3> QED BY <2>1, <2>2, <3>1
  <2> QED BY <1>4, <2>1, <2>2, <2>3
<1> QED BY <1>6, <1>7, <1>8

(* What the place of the session at hand becomes.                           *)
LEMMA PlaceNow ==
  ASSUME SessTypes, CallTypes, SessTypes', CallTypes', calls # <<>>, NEW more \in Seq(CallSet), Then(more),
         NEW c \in Sessions, PlacedAt(c), Head(calls) \in ClaimsOf(c)
  PROVE  /\ Queued(c) /\ Hits(waits, {c}) = 0 /\ InLine(lim, c) = 0
         /\ Hits(calls', ClaimsOf(c)) = Hits(more, ClaimsOf(c)) /\ Hits(more, ClaimsOf(c)) \in Nat
         /\ Hits(calls', SpawnsOf(c)) = Hits(more, SpawnsOf(c)) /\ Hits(more, SpawnsOf(c)) \in Nat
         /\ Holding(c)' = Hits(waits', {c}) + InLine(lim', c) + Hits(more, ClaimsOf(c))
<1>1. Head(calls) # For("release", c)
  <2>1. For("release", c).op = "release"
    BY DEF For, Call
  <2> QED BY <2>1 DEF ClaimsOf, Claims
<1>2. /\ Queued(c) /\ Hits(waits, {c}) = 0 /\ InLine(lim, c) = 0 /\ Hits(calls, ClaimsOf(c)) = 1
      /\ \A y \in Elems(Tail(calls)) : y \notin ClaimsOf(c)
  BY <1>1, NoOther
<1>3. Hits(calls', ClaimsOf(c)) = Hits(more, ClaimsOf(c)) /\ Hits(more, ClaimsOf(c)) \in Nat
  <2>1. /\ Hits(calls', ClaimsOf(c)) \in Nat /\ Hits(more, ClaimsOf(c)) \in Nat
        /\ Hits(calls', ClaimsOf(c)) + One(Head(calls) \in ClaimsOf(c)) = Hits(more, ClaimsOf(c)) + Hits(calls, ClaimsOf(c))
    BY CallsHits
  <2>2. One(Head(calls) \in ClaimsOf(c)) = 1
    BY DEF One
  <2> QED BY <1>2, <2>1, <2>2
<1>4. Hits(calls', SpawnsOf(c)) = Hits(more, SpawnsOf(c)) /\ Hits(more, SpawnsOf(c)) \in Nat
  <2>1. Tail(calls) \in Seq(CallSet) /\ calls' = more \o Tail(calls)
    BY ElemsTail DEF CallTypes, Then
  <2>2. For("spawn", c).op = "spawn" /\ For("spawn", c).who = c
    BY DEF For, Call
  <2>3. \A y \in Elems(Tail(calls)) : y \in CallSet
    BY <2>1 DEF Elems
  <2>4. Elems(Tail(calls)) \cap SpawnsOf(c) = {}
    BY <1>2, <2>2, <2>3 DEF SpawnsOf, ClaimsOf, Claims
  <2>5. Hits(Tail(calls), SpawnsOf(c)) = 0 /\ Hits(more, SpawnsOf(c)) \in Nat
    BY <2>1, <2>4, HitsType
  <2>6. Hits(more \o Tail(calls), SpawnsOf(c)) = Hits(more, SpawnsOf(c)) + Hits(Tail(calls), SpawnsOf(c))
    BY <2>1, HitsConcat
  <2> QED BY <2>1, <2>5, <2>6
<1>5. Holding(c)' = Hits(waits', {c}) + InLine(lim', c) + Hits(calls', ClaimsOf(c))
  BY DEF Holding
<1> HIDE DEF InLine
<1> QED BY <1>2, <1>3, <1>4, <1>5

(* A session waits for the link, goes on to the limiter, or is dropped.     *)
LEMMA SlotsMoveOn ==
  ASSUME SessTypes, CallTypes, SessTypes', CallTypes', Slots, calls # <<>>,
         NEW c \in Sessions, Head(calls) \in ClaimsOf(c), Head(calls).op \in {"answer", "proceed"},
         lim' = lim, sess' = sess, NEW more, Then(more),
         \/ waits' = waits /\ more \in {<<For("join", c)>>, <<For("release", c)>>}
         \/ waits' = Append(waits, c) /\ more = <<>>
  PROVE  Slots'
<1>1. PlacedAt(c) /\ TimedAt(c) /\ ~sess[c].timer
  BY NoTimer DEF Slots, Placed
<1>2. /\ For("join", c) \in CallSet /\ For("release", c) \in CallSet
      /\ \A d : /\ For("join", c) \in ClaimsOf(d) <=> c = d
                /\ For("release", c) \notin ClaimsOf(d)
                /\ For("join", c) \notin SpawnsOf(d) /\ For("release", c) \notin SpawnsOf(d)
      /\ For("join", c) \notin SlotCalls /\ For("release", c) \notin SlotCalls
  BY CallsAre, KindsOfCalls DEF OfSession, Claims
<1>3. more \in Seq(CallSet) /\ Hits(more, SlotCalls) = 0
  <2>1. CASE more = <<>>
    BY <2>1, HitsOne
  <2>2. CASE more = <<For("join", c)>>
    <3>1. \A S : Hits(<<For("join", c)>>, S) = One(For("join", c) \in S)
      BY <1>2, CallHits
    <3>2. Hits(<<For("join", c)>>, SlotCalls) = 0
      BY <1>2, <3>1 DEF One
    <3> QED BY <1>2, <2>2, <3>2
  <2>3. CASE more = <<For("release", c)>>
    <3>1. \A S : Hits(<<For("release", c)>>, S) = One(For("release", c) \in S)
      BY <1>2, CallHits
    <3>2. Hits(<<For("release", c)>>, SlotCalls) = 0
      BY <1>2, <3>1 DEF One
    <3> QED BY <1>2, <2>3, <3>2
  <2> QED BY <2>1, <2>2, <2>3
<1>4. \A d : /\ Hits(more, ClaimsOf(d)) = One(more = <<For("join", c)>> /\ c = d)
             /\ Hits(more, SpawnsOf(d)) = 0
  <2>0. <<For("join", c)>> # <<>> /\ <<For("release", c)>> # <<>> /\ <<For("release", c)>> # <<For("join", c)>>
    <3>1. For("release", c).op = "release" /\ For("join", c).op = "join"
      BY DEF For, Call
    <3>2. <<For("release", c)>>[1] = For("release", c) /\ <<For("join", c)>>[1] = For("join", c)
      OBVIOUS
    <3> QED BY <3>1, <3>2
  <2>1. CASE more = <<>>
    BY <2>0, <2>1, HitsOne DEF One
  <2>2. CASE more = <<For("join", c)>>
    <3>1. \A S : Hits(<<For("join", c)>>, S) = One(For("join", c) \in S)
      BY <1>2, CallHits
    <3> QED BY <1>2, <2>2, <3>1 DEF One
  <2>3. CASE more = <<For("release", c)>>
    <3>1. \A S : Hits(<<For("release", c)>>, S) = One(For("release", c) \in S)
      BY <1>2, CallHits
    <3> QED BY <1>2, <2>0, <2>3, <3>1 DEF One
  <2> QED BY <2>1, <2>2, <2>3
<1>5. Head(calls) \notin SlotCalls
  BY DEF SlotCalls
<1>6. Counted'
  <2>1. Hits(calls', SlotCalls) = Hits(calls, SlotCalls)
    BY <1>3, <1>5, CallsHits DEF One
  <2> QED BY <2>1, RanStays DEF Slots, Counted
<1>7. waits \in Seq(Waiters \cup Sessions) /\ \A d : Hits(waits, {d}) \in Nat
  BY HitsType DEF CallTypes
<1>8. \A d : Hits(Append(waits, c), {d}) = Hits(waits, {d}) + One(c = d)
  <2>1. c \in Waiters \cup Sessions
    OBVIOUS
  <2> DEFINE X == Waiters \cup Sessions
  <2>2. waits \in Seq(X) /\ c \in X
    BY <1>7, <2>1
  <2> HIDE DEF X
  <2>3. \A S : Hits(Append(waits, c), S) = Hits(waits, S) + IF c \in S THEN 1 ELSE 0
    BY <2>2, HitsEnds
  <2> QED BY <2>3 DEF One
<1>9. ASSUME NEW d \in Sessions, d # c PROVE PlacedAt(d)' /\ TimedAt(d)'
  <2>1. Hits(waits', {d}) = Hits(waits, {d})
    <3>1. One(c = d) = 0
      BY <1>9 DEF One
    <3>2. Hits(waits, {d}) \in Nat /\ Hits(Append(waits, c), {d}) = Hits(waits, {d}) + One(c = d)
      BY <1>7, <1>8
    <3>3. Hits(Append(waits, c), {d}) = Hits(waits, {d})
      BY <3>1, <3>2
    <3> QED BY <3>3
  <2>2. Hits(more, ClaimsOf(d)) = 0 /\ Hits(more, SpawnsOf(d)) = 0
    BY <1>4, <1>9 DEF One
  <2>3. InLine(lim, d) \in Nat /\ Hits(waits, {d}) \in Nat
    BY HoldingIs
  <2>4. Head(calls) \notin ClaimsOf(d) /\ Head(calls) # For("release", d)
    <3>1. Head(calls).who = c
      BY DEF ClaimsOf
    <3>2. For("release", d).who = d
      BY DEF For, Call
    <3> QED BY <1>9, <3>1, <3>2 DEF ClaimsOf
  <2>5. PlacedAt(d) /\ TimedAt(d)
    BY DEF Slots, Placed
  <2>6. /\ Hits(waits', {d}) + InLine(lim', d) + Hits(more, ClaimsOf(d)) = Hits(waits, {d}) + InLine(lim, d)
        /\ InLine(lim', d) <= InLine(lim, d)
        /\ InLine(lim, d) <= InLine(lim', d) + Hits(more, SpawnsOf(d))
    BY <2>1, <2>2, <2>3
  <2> QED BY <1>3, <2>4, <2>5, <2>6, OthersStay
<1>10. PlacedAt(c)' /\ TimedAt(c)'
  <2>1. /\ Queued(c) /\ Hits(waits, {c}) = 0 /\ InLine(lim, c) = 0
        /\ Holding(c)' = Hits(waits', {c}) + InLine(lim', c) + Hits(more, ClaimsOf(c))
    BY <1>1, <1>3, PlaceNow
  <2>2. Queued(c)' /\ ~sess'[c].timer /\ InLine(lim', c) = 0
    BY <1>1, <2>1 DEF Queued
  <2>3. TimedAt(c)'
    BY <2>2 DEF TimedAt
  <2>4. One(Queued(c))' = 1
    BY <2>2 DEF One
  <2>5. CASE waits' = waits /\ more = <<For("join", c)>>
    <3>1. Hits(more, ClaimsOf(c)) = 1
      BY <1>4, <2>5 DEF One
    <3>2. Holding(c)' = 1
      BY <2>1, <2>2, <2>5, <3>1
    <3> QED BY <2>3, <2>4, <3>2 DEF PlacedAt
  <2>6. CASE waits' = waits /\ more = <<For("release", c)>>
    <3>1. Hits(more, ClaimsOf(c)) = 0
      BY <1>2, <2>6, CallHits DEF One
    <3>2. Holding(c)' = 0
      BY <2>1, <2>2, <2>6, <3>1
    <3>3. Dropped(c)'
      <4>1. Tail(calls) \in Seq(CallSet) /\ calls' = <<For("release", c)>> \o Tail(calls)
        BY <2>6, ElemsTail DEF CallTypes, Then
      <4>2. calls' # <<>> /\ Head(calls') = For("release", c)
        BY <1>2, <4>1
      <4> QED BY <4>2 DEF Dropped
    <3> QED BY <2>2, <2>3, <3>2, <3>3 DEF PlacedAt
  <2>7. CASE waits' = Append(waits, c) /\ more = <<>>
    <3>1. Hits(more, ClaimsOf(c)) = 0
      BY <2>7, HitsOne
    <3>2. Hits(waits', {c}) = 1
      <4>1. One(c = c) = 1
        BY DEF One
      <4>2. Hits(Append(waits, c), {c}) = Hits(waits, {c}) + One(c = c)
        BY <1>8
      <4>3. Hits(Append(waits, c), {c}) = 1
        BY <2>1, <4>1, <4>2
      <4> QED BY <2>7, <4>3
    <3>3. Holding(c)' = 1
      BY <2>1, <2>2, <3>1, <3>2
    <3> QED BY <2>3, <2>4, <3>3 DEF PlacedAt
  <2> QED BY <2>5, <2>6, <2>7
<1> QED BY <1>6, <1>9, <1>10 DEF Slots, Placed

(* An answer of the link to who waits, and a session that asks for it.      *)
LEMMA SlotsWait ==
  ASSUME LinkTypes, SessTypes, CallTypes, SessTypes', CallTypes', Slots, Answer \/ Proceed
  PROVE  Slots'
<1>1. /\ calls # <<>> /\ Head(calls) \in CallSet /\ Head(calls).op \in {"answer", "proceed"}
      /\ lim' = lim /\ sess' = sess /\ Head(calls).who = Who
  BY ElemsTail DEF Answer, Proceed, Do, AtRest, execs, CallTypes, Who
<1>2. CASE Who \in Sessions
  <2>1. Head(calls) \in ClaimsOf(Who)
    BY <1>1 DEF ClaimsOf, Claims
  <2>2. Queued(Who)
    <3>1. Head(calls) # For("release", Who)
      <4>1. For("release", Who).op = "release"
        BY DEF For, Call
      <4> QED BY <1>1, <4>1
    <3>2. PlacedAt(Who)
      BY <1>2 DEF Slots, Placed
    <3> QED BY <1>1, <1>2, <2>1, <3>1, <3>2, NoOther
  <2>3. \E m : /\ Then(m)
               /\ \/ waits' = waits /\ m \in {<<For("join", Who)>>, <<For("release", Who)>>}
                  \/ waits' = Append(waits, Who) /\ m = <<>>
    <3>1. CASE Answer
      <4>1. waits' = waits /\ (Then(<<For("join", Who)>>) \/ Then(<<For("release", Who)>>))
        BY <1>2, <2>2, <3>1 DEF Answer, Queued
      <4> QED BY <4>1
    <3>2. CASE Proceed
      <4>1. \/ waits' = Append(waits, Who) /\ Then(<<>>)
            \/ waits' = waits /\ (Then(<<For("join", Who)>>) \/ Then(<<For("release", Who)>>))
        BY <3>2 DEF Proceed
      <4> QED BY <4>1
    <3> QED BY <3>1, <3>2
  <2> QED BY <1>1, <1>2, <2>1, <2>3, SlotsMoveOn
<1>3. CASE Who \notin Sessions
  <2>1. Answer
    <3>1. ~Proceed
      BY <1>3, NowIs DEF Proceed, OfSession
    <3> QED BY <3>1
  <2>2. waits' = waits /\ Then(<<>>)
    BY <1>3, <2>1 DEF Answer
  <2>3. \A d \in Sessions : Head(calls) \notin ClaimsOf(d)
    BY <1>1, <1>3 DEF ClaimsOf
  <2>4. <<>> \in Seq(CallSet) /\ \A S : Hits(<<>>, S) = 0
    BY HitsOne
  <2>5. \A d \in Sessions : Hits(waits', {d}) + Hits(<<>>, ClaimsOf(d)) = Hits(waits, {d})
    <3>1. \A d \in Sessions : Hits(waits, {d}) \in Nat /\ Hits(<<>>, ClaimsOf(d)) = 0
      BY <2>4, HoldingIs
    <3> QED BY <2>2, <3>1
  <2>6. Hits(<<>>, SlotCalls) = 0
    BY <2>4
  <2>7. Head(calls).op \notin {"spawn", "leave", "release"}
    BY <1>1
  <2> QED BY <1>1, <2>2, <2>3, <2>4, <2>5, <2>6, <2>7, SlotsStill
<1> QED BY <1>2, <1>3

(* Nobody stands in line twice.                                             *)
LEMMA LineOnce ==
  ASSUME SessTypes, CallTypes, Placed
  PROVE  \A c : InLine(lim, c) \in Nat /\ InLine(lim, c) <= 1
<1> SUFFICES ASSUME NEW c PROVE InLine(lim, c) \in Nat /\ InLine(lim, c) <= 1
  OBVIOUS
<1>1. /\ Hits(waits, {c}) \in Nat /\ InLine(lim, c) \in Nat /\ Hits(calls, ClaimsOf(c)) \in Nat
      /\ Holding(c) = Hits(waits, {c}) + InLine(lim, c) + Hits(calls, ClaimsOf(c))
  BY HoldingIs
<1>2. CASE c \in Sessions
  <2>1. Holding(c) = One(Queued(c)) \/ Holding(c) = 0
    BY <1>2 DEF Placed, PlacedAt
  <2>2. One(Queued(c)) \in {0, 1}
    BY DEF One
  <2> QED BY <1>1, <2>1, <2>2
<1>3. CASE c \notin Sessions
  <2>1. lim.waiting \in Seq(Sessions) /\ lim.parked \in Seq(Sessions)
    BY DEF SessTypes, Limiters
  <2>2. c \notin Elems(lim.waiting) /\ c \notin Elems(lim.parked)
    BY <1>3, <2>1 DEF Elems
  <2>3. Hits(lim.waiting, {c}) = 0 /\ Hits(lim.parked, {c}) = 0
    BY <2>1, <2>2, HitsType
  <2> QED BY <2>3 DEF InLine
<1> QED BY <1>2, <1>3

(* The sessions that the call at hand is not about.                         *)
LEMMA OthersAll ==
  ASSUME SessTypes, CallTypes, SessTypes', CallTypes', Placed, calls # <<>>,
         NEW more \in Seq(CallSet), Then(more),
         \A d \in Sessions :
           \/ PlacedAt(d)' /\ TimedAt(d)'
           \/ /\ Head(calls) \notin ClaimsOf(d) /\ Head(calls) # For("release", d)
              /\ sess'[d].stage = sess[d].stage /\ sess'[d].timer = sess[d].timer
              /\ Hits(waits', {d}) = Hits(waits, {d})
              /\ InLine(lim', d) + Hits(more, ClaimsOf(d)) = InLine(lim, d)
              /\ Hits(more, SpawnsOf(d)) = Hits(more, ClaimsOf(d))
  PROVE  Placed'
<1>1. ASSUME NEW d \in Sessions, ~(PlacedAt(d)' /\ TimedAt(d)') PROVE PlacedAt(d)' /\ TimedAt(d)'
  <2> DEFINE w == Hits(waits, {d})    v == Hits(waits', {d})    q == InLine(lim, d)    p == InLine(lim', d)
             k == Hits(more, ClaimsOf(d))    s == Hits(more, SpawnsOf(d))
  <2>1. w \in Nat /\ q \in Nat
    BY HoldingIs
  <2>2. p \in Nat /\ k \in Nat
    BY InLineIs, HitsType DEF SessTypes
  <2>3. v = w /\ p + k = q /\ s = k
    BY <1>1
  <2> HIDE DEF w, v, q, p, k, s
  <2>4. v + p + k = w + q /\ p <= q /\ q <= p + s
    BY <2>1, <2>2, <2>3
  <2>5. PlacedAt(d) /\ TimedAt(d)
    BY DEF Placed
  <2>6. /\ d \in Sessions /\ Head(calls) \notin ClaimsOf(d) /\ Head(calls) # For("release", d)
        /\ sess'[d].stage = sess[d].stage /\ sess'[d].timer = sess[d].timer
    BY <1>1
  <2> QED BY <2>4, <2>5, <2>6, OthersStay DEF w, v, q, p, k, s
<1> QED BY <1>1 DEF Placed

(* The call at hand is about one session only.                              *)
LEMMA OtherCalls ==
  ASSUME NEW c, Head(calls).who = c, NEW d, d # c
  PROVE  Head(calls) \notin ClaimsOf(d) /\ Head(calls) # For("release", d)
<1>1. For("release", d).who = d
  BY DEF For, Call
<1> QED BY <1>1 DEF ClaimsOf

(* What a call about one session adds to those about another, and to the    *)
(* slots.                                                                   *)
LEMMA OneHits ==
  ASSUME NEW op \in OfSession, NEW c \in Sessions
  PROVE  /\ <<For(op, c)>> \in Seq(CallSet)
         /\ Hits(<<For(op, c)>>, SlotCalls) = One(op = "spawn")
         /\ \A d : /\ Hits(<<For(op, c)>>, ClaimsOf(d)) = One(op \in Claims /\ c = d)
                   /\ Hits(<<For(op, c)>>, SpawnsOf(d)) = One(op = "spawn" /\ c = d)
<1>1. For(op, c) \in CallSet
  BY CallsAre
<1>2. \A S : Hits(<<For(op, c)>>, S) = One(For(op, c) \in S)
  BY <1>1, CallHits
<1>3. /\ For(op, c) \in SlotCalls <=> op = "spawn"
      /\ \A d : /\ For(op, c) \in ClaimsOf(d) <=> op \in Claims /\ c = d
                /\ For(op, c) \in SpawnsOf(d) <=> op = "spawn" /\ c = d
  BY KindsOfCalls
<1>4. <<For(op, c)>> \in Seq(CallSet)
  BY <1>1
<1>5. Hits(<<For(op, c)>>, SlotCalls) = One(op = "spawn")
  BY <1>2, <1>3 DEF One
<1>6. \A d : /\ Hits(<<For(op, c)>>, ClaimsOf(d)) = One(op \in Claims /\ c = d)
             /\ Hits(<<For(op, c)>>, SpawnsOf(d)) = One(op = "spawn" /\ c = d)
  BY <1>2, <1>3 DEF One
<1> QED BY <1>4, <1>5, <1>6

(* A session gets a slot, or stands in line with its timer.                 *)
LEMMA SlotsJoin ==
  ASSUME SessTypes, CallTypes, SessTypes', CallTypes', Slots, JoinSlot
  PROVE  Slots'
<1>0. PICK c \in Sessions : c = Who
  BY NowIs DEF JoinSlot, OfSession
<1>1. /\ calls # <<>> /\ Head(calls) \in CallSet /\ Head(calls).op = "join" /\ c \in Sessions
      /\ Head(calls).who = c
  BY <1>0, NowIs DEF JoinSlot, OfSession, Who
<1>2. Head(calls) \in ClaimsOf(c) /\ Head(calls) \notin SlotCalls
  BY <1>1 DEF ClaimsOf, Claims, SlotCalls
<1>3. PlacedAt(c) /\ TimedAt(c) /\ ~sess[c].timer /\ Placed /\ Counted /\ Full(lim)
  BY <1>1, <1>2, NoTimer DEF Slots, Placed
<1>4. lim' = Join(lim, c) /\ waits' = waits
  BY <1>0 DEF JoinSlot, registry
<1>5. /\ Full(lim') /\ lim \in Limiters
      /\ Joins(lim) => lim'.running = lim.running + 1 /\ \A d : InLine(lim', d) = InLine(lim, d)
      /\ ~Joins(lim) => /\ lim'.running = lim.running
                        /\ \A d : InLine(lim', d) = InLine(lim, d) + One(d = c)
  BY <1>1, <1>3, <1>4, JoinSlots DEF SessTypes
<1>6. \A d \in Sessions : InLine(lim, d) \in Nat
  BY <1>3, LineOnce
<1>7. \A d \in Sessions \ {c} : Head(calls) \notin ClaimsOf(d) /\ Head(calls) # For("release", d)
  BY <1>1, OtherCalls
<1>8. lim.running \in Nat /\ Hits(calls, SlotCalls) \in Nat /\ lim.running = Ran + Hits(calls, SlotCalls)
  BY <1>3, <1>5, HitsType DEF Limiters, CallTypes, Counted
<1>9. Ran \in Nat
  BY <1>1, RanIs, RuntimesAssumption, FS_CardinalityType, FS_Subset DEF Ran
<1>10. CASE Joins(lim)
  <2> DEFINE more == <<For("spawn", c)>>
  <2>1. Then(more) /\ sess' = sess
    BY <1>0, <1>10 DEF JoinSlot
  <2>2. /\ more \in Seq(CallSet) /\ Hits(more, SlotCalls) = 1
        /\ \A d : Hits(more, ClaimsOf(d)) = One(c = d) /\ Hits(more, SpawnsOf(d)) = One(c = d)
    <3>1. /\ more \in Seq(CallSet) /\ Hits(more, SlotCalls) = One("spawn" = "spawn")
          /\ \A d : /\ Hits(more, ClaimsOf(d)) = One("spawn" \in Claims /\ c = d)
                    /\ Hits(more, SpawnsOf(d)) = One("spawn" = "spawn" /\ c = d)
      BY <1>1, OneHits DEF OfSession
    <3> HIDE DEF more
    <3> QED BY <3>1 DEF One, Claims
  <2> HIDE DEF more
  <2>3. Counted'
    <3>1. Hits(calls', SlotCalls) = 1 + Hits(calls, SlotCalls)
      BY <1>1, <1>2, <2>1, <2>2, CallsHits DEF One
    <3>2. Ran' = Ran
      BY <2>1, RanStays
    <3>3. lim'.running = lim.running + 1
      BY <1>5, <1>10
    <3> QED BY <1>8, <1>9, <3>1, <3>2, <3>3 DEF Counted
  <2>4. PlacedAt(c)' /\ TimedAt(c)'
    <3>1. /\ Queued(c) /\ Hits(waits, {c}) = 0 /\ InLine(lim, c) = 0
          /\ Holding(c)' = Hits(waits', {c}) + InLine(lim', c) + Hits(more, ClaimsOf(c))
      BY <1>1, <1>2, <1>3, <2>1, <2>2, PlaceNow
    <3>2. InLine(lim', c) = 0 /\ Hits(waits', {c}) = 0 /\ Hits(more, ClaimsOf(c)) = 1
      BY <1>4, <1>5, <1>10, <2>2, <3>1 DEF One
    <3>3. Queued(c)' /\ ~sess'[c].timer
      BY <1>3, <2>1, <3>1 DEF Queued
    <3>4. One(Queued(c))' = 1
      BY <3>3 DEF One
    <3>5. Holding(c)' = 1
      BY <3>1, <3>2
    <3>6. PlacedAt(c)'
      BY <3>4, <3>5 DEF PlacedAt
    <3>7. TimedAt(c)'
      BY <3>2, <3>3 DEF TimedAt
    <3> QED BY <3>6, <3>7
  <2>5. ASSUME NEW d \in Sessions \ {c}
        PROVE  /\ sess'[d].stage = sess[d].stage /\ sess'[d].timer = sess[d].timer
               /\ Hits(waits', {d}) = Hits(waits, {d})
               /\ InLine(lim', d) + Hits(more, ClaimsOf(d)) = InLine(lim, d)
               /\ Hits(more, SpawnsOf(d)) = Hits(more, ClaimsOf(d))
    <3>1. Hits(more, ClaimsOf(d)) = 0 /\ Hits(more, SpawnsOf(d)) = 0
      BY <2>2 DEF One
    <3>2. InLine(lim', d) = InLine(lim, d) /\ InLine(lim, d) \in Nat
      BY <1>5, <1>6, <1>10
    <3> QED BY <1>4, <2>1, <3>1, <3>2
  <2>6. Placed'
    BY <1>1, <1>3, <1>7, <2>1, <2>2, <2>4, <2>5, OthersAll
  <2> QED BY <1>5, <2>3, <2>6 DEF Slots
<1>11. CASE ~Joins(lim)
  <2>1. Then(<<>>) /\ sess' = [sess EXCEPT ![c] = [sess[c] EXCEPT !.timer = Queued(c)]]
    BY <1>0, <1>11 DEF JoinSlot, Timed, SetSess
  <2>2. <<>> \in Seq(CallSet) /\ \A S : Hits(<<>>, S) = 0
    BY HitsOne
  <2>3. /\ \A d \in Sessions : sess'[d].stage = sess[d].stage
        /\ \A d \in Sessions \ {c} : sess'[d].timer = sess[d].timer
        /\ sess'[c].timer = Queued(c)
    BY <1>1, <2>1 DEF SessTypes, Sess
  <2>4. Counted'
    <3>1. Hits(calls', SlotCalls) = Hits(calls, SlotCalls)
      <4>1. Hits(<<>>, SlotCalls) = 0
        BY <2>2
      <4>2. /\ Hits(calls', SlotCalls) \in Nat
            /\ Hits(calls', SlotCalls) + One(Head(calls) \in SlotCalls) = Hits(<<>>, SlotCalls) + Hits(calls, SlotCalls)
        BY <1>1, <2>1, <2>2, CallsHits
      <4>3. One(Head(calls) \in SlotCalls) = 0
        BY <1>2 DEF One
      <4> QED BY <1>8, <4>1, <4>2, <4>3
    <3>2. Ran' = Ran
      BY <2>3, RanStays
    <3>3. lim'.running = lim.running
      BY <1>5, <1>11
    <3> QED BY <1>8, <3>1, <3>2, <3>3 DEF Counted
  <2>5. PlacedAt(c)' /\ TimedAt(c)'
    <3>1. /\ Queued(c) /\ Hits(waits, {c}) = 0 /\ InLine(lim, c) = 0
          /\ Holding(c)' = Hits(waits', {c}) + InLine(lim', c) + Hits(<<>>, ClaimsOf(c))
      BY <1>1, <1>2, <1>3, <2>1, <2>2, PlaceNow
    <3>2. InLine(lim', c) = 1 /\ Hits(waits', {c}) = 0 /\ Hits(<<>>, ClaimsOf(c)) = 0
      <4>1. InLine(lim', c) = InLine(lim, c) + One(c = c)
        BY <1>5, <1>11
      <4>2. One(c = c) = 1
        BY DEF One
      <4> QED BY <1>4, <2>2, <3>1, <4>1, <4>2
    <3>3. Queued(c)' /\ sess'[c].timer
      BY <1>1, <2>3, <3>1 DEF Queued
    <3>4. One(Queued(c))' = 1
      BY <3>3 DEF One
    <3>5. Holding(c)' = 1
      BY <3>1, <3>2
    <3>6. PlacedAt(c)'
      BY <3>4, <3>5 DEF PlacedAt
    <3>7. Hits(calls', SpawnsOf(c)) \in Nat
      BY HitsType DEF CallTypes
    <3>8. TimedAt(c)'
      <4>1. InLine(lim', c) + Hits(calls', SpawnsOf(c)) > 0
        BY <3>2, <3>7
      <4> QED BY <3>3, <4>1 DEF TimedAt
    <3> QED BY <3>6, <3>8
  <2>6. ASSUME NEW d \in Sessions \ {c}
        PROVE  /\ Hits(waits', {d}) = Hits(waits, {d})
               /\ InLine(lim', d) + Hits(<<>>, ClaimsOf(d)) = InLine(lim, d)
               /\ Hits(<<>>, SpawnsOf(d)) = Hits(<<>>, ClaimsOf(d))
    <3>1. Hits(<<>>, ClaimsOf(d)) = 0 /\ Hits(<<>>, SpawnsOf(d)) = 0
      BY <2>2
    <3>2. InLine(lim', d) = InLine(lim, d) + One(d = c) /\ InLine(lim, d) \in Nat /\ One(d = c) = 0
      BY <1>5, <1>6, <1>11 DEF One
    <3>3. InLine(lim', d) = InLine(lim, d)
      BY <3>2
    <3> QED BY <1>4, <3>1, <3>2, <3>3
  <2>7. Placed'
    BY <1>1, <1>3, <1>7, <2>1, <2>2, <2>3, <2>5, <2>6, OthersAll
  <2> QED BY <1>5, <2>4, <2>7 DEF Slots
<1> QED BY <1>10, <1>11

(* How many run is a number.                                                *)
LEMMA RanType == Ran \in Nat /\ Ran' \in Nat
BY RuntimesAssumption, FS_CardinalityType, FS_Subset DEF Ran

(* A session that has a slot starts, or does not and gives it back.         *)
LEMMA SlotsSpawn ==
  ASSUME SessTypes, CallTypes, SessTypes', CallTypes', Slots, SpawnSession
  PROVE  Slots'
<1>0. PICK c \in Sessions : c = Who
  BY NowIs DEF SpawnSession, OfSession
<1>1. /\ calls # <<>> /\ Head(calls) \in CallSet /\ Head(calls).op = "spawn" /\ c \in Sessions
      /\ Head(calls).who = c
  BY <1>0, NowIs DEF SpawnSession, OfSession, Who
<1>2. Head(calls) \in ClaimsOf(c) /\ Head(calls) \in SlotCalls
  BY <1>1 DEF ClaimsOf, Claims, SlotCalls
<1>3. PlacedAt(c) /\ TimedAt(c) /\ Placed /\ Counted /\ Full(lim)
  BY <1>1, <1>2 DEF Slots, Placed
<1>4. lim' = lim /\ waits' = waits
  BY DEF SpawnSession, registry
<1>5. Queued(c) /\ Hits(waits, {c}) = 0 /\ InLine(lim, c) = 0
  <2>1. Head(calls) # For("release", c)
    <3>1. For("release", c).op = "release"
      BY DEF For, Call
    <3> QED BY <1>1, <3>1
  <2> QED BY <1>1, <1>2, <1>3, <2>1, NoOther
<1>6. \A d \in Sessions \ {c} : Head(calls) \notin ClaimsOf(d) /\ Head(calls) # For("release", d)
  BY <1>1, OtherCalls
<1>7. /\ lim.running \in Nat /\ Hits(calls, SlotCalls) \in Nat /\ lim.running = Ran + Hits(calls, SlotCalls)
      /\ Ran \in Nat /\ Ran' \in Nat
  BY <1>3, HitsType, RanType DEF Limiters, SessTypes, CallTypes, Counted
<1>8. \A d \in Sessions : InLine(lim, d) \in Nat
  BY <1>3, LineOnce
<1>9. ASSUME NEW more \in Seq(CallSet), Then(more), \A d \in Sessions \ {c} : sess'[d] = sess[d],
             \A d : Hits(more, ClaimsOf(d)) = 0 /\ Hits(more, SpawnsOf(d)) = 0,
             ~sess'[c].timer, ~Queued(c)' \/ (Queued(c)' /\ Dropped(c)'),
             Ran' + Hits(more, SlotCalls) = Ran + 1
      PROVE  Slots'
  <2>1. Counted'
    <3>1. /\ Hits(calls', SlotCalls) \in Nat /\ Hits(more, SlotCalls) \in Nat
          /\ Hits(calls', SlotCalls) + One(Head(calls) \in SlotCalls) = Hits(more, SlotCalls) + Hits(calls, SlotCalls)
      BY <1>1, <1>9, CallsHits
    <3>2. One(Head(calls) \in SlotCalls) = 1
      BY <1>2 DEF One
    <3>3. lim.running = Ran' + Hits(calls', SlotCalls)
      BY <1>7, <1>9, <3>1, <3>2
    <3> QED BY <1>4, <3>3 DEF Counted
  <2>2. PlacedAt(c)' /\ TimedAt(c)'
    <3>1. Holding(c)' = Hits(waits', {c}) + InLine(lim', c) + Hits(more, ClaimsOf(c))
      BY <1>1, <1>2, <1>3, <1>9, PlaceNow
    <3>2. InLine(lim', c) = 0 /\ Hits(waits', {c}) = 0 /\ Hits(more, ClaimsOf(c)) = 0
      BY <1>4, <1>5, <1>9
    <3>3. Holding(c)' = 0
      BY <3>1, <3>2
    <3>4. ~Queued(c)' => One(Queued(c))' = 0
      BY DEF One
    <3>5. PlacedAt(c)'
      BY <1>9, <3>3, <3>4 DEF PlacedAt
    <3>6. TimedAt(c)'
      BY <1>9, <3>2 DEF TimedAt
    <3> QED BY <3>5, <3>6
  <2>3. ASSUME NEW d \in Sessions \ {c}
        PROVE  /\ sess'[d].stage = sess[d].stage /\ sess'[d].timer = sess[d].timer
               /\ Hits(waits', {d}) = Hits(waits, {d})
               /\ InLine(lim', d) + Hits(more, ClaimsOf(d)) = InLine(lim, d)
               /\ Hits(more, SpawnsOf(d)) = Hits(more, ClaimsOf(d))
    <3>1. Hits(more, ClaimsOf(d)) = 0 /\ Hits(more, SpawnsOf(d)) = 0
      BY <1>9
    <3>2. InLine(lim', d) = InLine(lim, d) /\ InLine(lim, d) \in Nat
      BY <1>4, <1>8
    <3> QED BY <1>4, <1>9, <3>1, <3>2
  <2>4. Placed'
    BY <1>1, <1>3, <1>6, <1>9, <2>2, <2>3, OthersAll
  <2>5. Full(lim')
    BY <1>3, <1>4
  <2> QED BY <2>1, <2>4, <2>5 DEF Slots
<1>10. CASE \E op \in {"pump", "release"} : Then(<<For(op, c)>>)
            /\ sess' = [sess EXCEPT ![c] = [NoSess EXCEPT !.stage = "running", !.pid = NewPid, !.retried = sess[c].retried]]
  <2>1. PICK op \in {"pump", "release"} : Then(<<For(op, c)>>)
    BY <1>10
  <2> DEFINE more == <<For(op, c)>>
  <2>2. more \in Seq(CallSet) /\ Hits(more, SlotCalls) = 0 /\ \A d : Hits(more, ClaimsOf(d)) = 0 /\ Hits(more, SpawnsOf(d)) = 0
    <3>1. /\ more \in Seq(CallSet) /\ Hits(more, SlotCalls) = One(op = "spawn")
          /\ \A d : /\ Hits(more, ClaimsOf(d)) = One(op \in Claims /\ c = d)
                    /\ Hits(more, SpawnsOf(d)) = One(op = "spawn" /\ c = d)
      BY <1>1, OneHits DEF OfSession
    <3> HIDE DEF more
    <3> QED BY <3>1 DEF One, Claims
  <2>3. Then(more)
    BY <2>1
  <2> HIDE DEF more
  <2>4. sess'[c].stage = "running" /\ ~sess'[c].timer /\ \A d \in Sessions \ {c} : sess'[d] = sess[d]
    BY <1>1, <1>10 DEF SessTypes, Sess, NoSess
  <2>5. Runs(c)' /\ ~Queued(c)' /\ ~Runs(c)
    BY <1>5, <2>4 DEF Runs, Queued
  <2>6. Ran' + One(Runs(c)) = Ran + One(Runs(c)')
    BY <1>1, <2>4, RanIs
  <2>7. Ran' = Ran + 1
    <3> DEFINE a == One(Runs(c))    b == One(Runs(c)')    n == Ran    m == Ran'
    <3>1. a = 0 /\ b = 1
      BY <2>5 DEF One
    <3>2. m + a = n + b /\ n \in Nat /\ m \in Nat
      BY <1>7, <2>6
    <3> HIDE DEF a, b, n, m
    <3>3. m = n + 1
      BY <3>1, <3>2
    <3> QED BY <3>3 DEF n, m
  <2>8. Ran' + Hits(more, SlotCalls) = Ran + 1
    BY <1>7, <2>2, <2>7
  <2> QED BY <1>9, <2>2, <2>3, <2>4, <2>5, <2>8
<1>11. CASE Then(<<For("release", c), Plain("leave")>>) /\ sess' = [sess EXCEPT ![c] = [sess[c] EXCEPT !.timer = FALSE]]
  <2> DEFINE more == <<For("release", c), Plain("leave")>>
  <2>1. /\ For("release", c) \in CallSet /\ Plain("leave") \in CallSet
        /\ For("release", c) \notin SlotCalls /\ Plain("leave") \in SlotCalls
        /\ \A d : /\ For("release", c) \notin ClaimsOf(d) /\ For("release", c) \notin SpawnsOf(d)
                  /\ Plain("leave") \notin ClaimsOf(d) /\ Plain("leave") \notin SpawnsOf(d)
    BY <1>1, CallsAre, KindsOfCalls DEF OfSession, OfLink, Claims
  <2>2. more \in Seq(CallSet) /\ Hits(more, SlotCalls) = 1 /\ \A d : Hits(more, ClaimsOf(d)) = 0 /\ Hits(more, SpawnsOf(d)) = 0
    <3>1. \A S : Hits(more, S) = One(For("release", c) \in S) + One(Plain("leave") \in S)
      BY <2>1, CallHits
    <3>2. more \in Seq(CallSet)
      BY <2>1
    <3> HIDE DEF more
    <3>3. Hits(more, SlotCalls) = 1
      BY <2>1, <3>1 DEF One
    <3>4. ASSUME NEW d PROVE Hits(more, ClaimsOf(d)) = 0 /\ Hits(more, SpawnsOf(d)) = 0
      BY <2>1, <3>1 DEF One
    <3> QED BY <3>2, <3>3, <3>4
  <2>3. Then(more) /\ Head(more) = For("release", c) /\ Len(more) = 2
    BY <1>11
  <2> HIDE DEF more
  <2>4. /\ sess'[c].stage = sess[c].stage /\ ~sess'[c].timer /\ \A d \in Sessions \ {c} : sess'[d] = sess[d]
        /\ \A d \in Sessions : sess'[d].stage = sess[d].stage
    BY <1>1, <1>11 DEF SessTypes, Sess
  <2>5. Queued(c)' /\ Dropped(c)'
    <3>1. Queued(c)'
      BY <1>5, <2>4 DEF Queued
    <3>2. Tail(calls) \in Seq(CallSet)
      BY <1>1, ElemsTail DEF CallTypes
    <3>3. Len(more \o Tail(calls)) > 0 /\ (more \o Tail(calls))[1] = more[1] /\ Head(more) = more[1]
      BY <2>2, <2>3, <3>2, ElemsConcat
    <3>4. calls' # <<>> /\ Head(calls') = For("release", c)
      BY <2>2, <2>3, <3>2, <3>3 DEF Then
    <3> QED BY <3>1, <3>4 DEF Dropped
  <2>6. Ran' = Ran
    BY <2>4, RanStays
  <2>7. Ran' + Hits(more, SlotCalls) = Ran + 1
    BY <1>7, <2>2, <2>6
  <2> QED BY <1>9, <2>2, <2>3, <2>4, <2>5, <2>7
<1>12. \/ \E op \in {"pump", "release"} : Then(<<For(op, c)>>)
            /\ sess' = [sess EXCEPT ![c] = [NoSess EXCEPT !.stage = "running", !.pid = NewPid, !.retried = sess[c].retried]]
       \/ Then(<<For("release", c), Plain("leave")>>) /\ sess' = [sess EXCEPT ![c] = [sess[c] EXCEPT !.timer = FALSE]]
  BY <1>0, <1>5 DEF SpawnSession, SetSess
<1> QED BY <1>10, <1>11, <1>12

(* What the starts of sessions add, with or without the notice after them.  *)
LEMMA StartsHits ==
  ASSUME NEW s \in Seq(Sessions), NEW tail \in {<<>>, Notice}
  PROVE  LET more == ForEach("spawn", s) \o tail
         IN /\ more \in Seq(CallSet) /\ Hits(more, SlotCalls) = Len(s)
            /\ \A d : /\ Hits(more, ClaimsOf(d)) = Hits(s, {d})
                      /\ Hits(more, SpawnsOf(d)) = Hits(s, {d})
<1>1. /\ ForEach("spawn", s) \in Seq(CallSet) /\ Hits(ForEach("spawn", s), SlotCalls) = Len(s)
      /\ \A d : /\ Hits(ForEach("spawn", s), ClaimsOf(d)) = Hits(s, {d})
                /\ Hits(ForEach("spawn", s), SpawnsOf(d)) = Hits(s, {d})
  BY ForEachIs, SpawnsHits DEF OfSession
<1>2. tail \in Seq(CallSet) /\ Hits(tail, SlotCalls) = 0 /\ \A d : Hits(tail, ClaimsOf(d)) = 0 /\ Hits(tail, SpawnsOf(d)) = 0
  <2>1. CASE tail = <<>>
    BY <2>1, HitsOne
  <2>2. CASE tail = Notice
    <3>1. Plain("notice") \in CallSet /\ Plain("notice").op = "notice"
      BY CallsAre DEF OfLink
    <3>2. tail \in Seq(CallSet) /\ \A x \in Elems(tail) : x.op \notin Claims \cup {"leave"}
      BY <2>2, <3>1, ElemsOne DEF Notice, Claims
    <3> QED BY <3>2, NoClaims
  <2> QED BY <2>1, <2>2
<1> DEFINE a == ForEach("spawn", s)
<1>3. a \o tail \in Seq(CallSet) /\ \A S : Hits(a \o tail, S) = Hits(a, S) + Hits(tail, S)
  BY <1>1, <1>2, ElemsConcat, CallHits
<1>4. \A S : Hits(a, S) \in Nat
  BY <1>1, HitsType
<1> HIDE DEF a
<1>5. Hits(a \o tail, SlotCalls) = Hits(a, SlotCalls)
  BY <1>2, <1>3, <1>4
<1>6. ASSUME NEW d PROVE /\ Hits(a \o tail, ClaimsOf(d)) = Hits(a, ClaimsOf(d))
                         /\ Hits(a \o tail, SpawnsOf(d)) = Hits(a, SpawnsOf(d))
  BY <1>2, <1>3, <1>4
<1> QED BY <1>1, <1>3, <1>5, <1>6 DEF a

(* An end makes others late, and leaves the rest of them.                   *)
LEMMA LateTimers ==
  ASSUME NEW s \in [Sessions -> Sess]
  PROVE  \A c \in Sessions : /\ LateAfter(s)[c].stage = s[c].stage
                             /\ LateAfter(s)[c].timer = s[c].timer
<1> SUFFICES ASSUME NEW c \in Sessions
             PROVE  LateAfter(s)[c].stage = s[c].stage /\ LateAfter(s)[c].timer = s[c].timer
  OBVIOUS
<1>1. s[c] \in Sess
  OBVIOUS
<1> QED BY <1>1 DEF LateAfter, Sess

(* A slot that is given back goes to those who stand in line.               *)
LEMMA SlotsLeave ==
  ASSUME SessTypes, CallTypes, SessTypes', CallTypes', Slots, LeaveLimiter
  PROVE  Slots'
<1>1. /\ calls # <<>> /\ Head(calls) \in CallSet /\ Head(calls).op = "leave"
      /\ calls \in Seq(CallSet)
  BY NowIs DEF LeaveLimiter, CallTypes
<1>2. /\ Head(calls) \in SlotCalls /\ waits' = waits /\ Placed /\ Counted /\ Full(lim) /\ lim \in Limiters
      /\ \A d \in Sessions : Head(calls) \notin ClaimsOf(d) /\ Head(calls) # For("release", d)
  <2>1. \A d : For("release", d).op = "release"
    BY DEF For, Call
  <2> QED BY <1>1, <2>1 DEF SlotCalls, ClaimsOf, Claims, LeaveLimiter, registry, Slots, SessTypes
<1>3. /\ Hits(calls, SlotCalls) \in Nat /\ Hits(calls, SlotCalls) > 0 /\ lim.running \in Nat
      /\ lim.running = Ran + Hits(calls, SlotCalls) /\ Ran \in Nat /\ lim.running > 0
  <2>1. Hits(calls, SlotCalls) = Hits(Tail(calls), SlotCalls) + IF Head(calls) \in SlotCalls THEN 1 ELSE 0
    BY <1>1, HitsEnds
  <2>2. Hits(Tail(calls), SlotCalls) \in Nat
    BY <1>1, ElemsTail, HitsType
  <2>3. Ran \in Nat /\ lim.running \in Nat /\ lim.running = Ran + Hits(calls, SlotCalls)
    BY <1>2, RanType DEF Limiters, Counted
  <2> QED BY <1>2, <2>1, <2>2, <2>3
<1> DEFINE st == LeaveSlot(lim).start
           more == ForEach("spawn", st)
<1>4. /\ st \in Seq(Sessions) /\ Full(lim') /\ lim' \in Limiters /\ lim'.running = lim.running - 1 + Len(st)
      /\ \A c : InLine(lim, c) <= 1 => Hits(st, {c}) + InLine(lim', c) = InLine(lim, c)
  <2>1. lim' = LeaveSlot(lim).lim
    BY DEF LeaveLimiter
  <2> QED BY <1>2, <1>3, <2>1, LeaveSlots
<1>5. Then(more) /\ sess' = LateAfter(sess)
  BY DEF LeaveLimiter
<1> HIDE DEF st
<1>6. /\ more \in Seq(CallSet) /\ Hits(more, SlotCalls) = Len(st)
      /\ \A d : Hits(more, ClaimsOf(d)) = Hits(st, {d}) /\ Hits(more, SpawnsOf(d)) = Hits(st, {d})
  BY <1>4, ForEachIs, SpawnsHits DEF OfSession
<1> HIDE DEF more
<1>7. \A d \in Sessions : sess'[d].stage = sess[d].stage /\ sess'[d].timer = sess[d].timer
  BY <1>5, LateTimers DEF SessTypes
<1>8. Counted'
  <2>1. /\ Hits(calls', SlotCalls) \in Nat
        /\ Hits(calls', SlotCalls) + One(Head(calls) \in SlotCalls) = Hits(more, SlotCalls) + Hits(calls, SlotCalls)
    BY <1>1, <1>5, <1>6, CallsHits
  <2>2. One(Head(calls) \in SlotCalls) = 1 /\ Len(st) \in Nat
    BY <1>2, <1>4 DEF One
  <2>3. Ran' = Ran
    BY <1>7, RanStays
  <2>4. lim'.running = Ran + Hits(calls', SlotCalls)
    <3> DEFINE k == Hits(calls, SlotCalls)    p == Hits(calls', SlotCalls)    n == Len(st)    u == lim.running    v == lim'.running
               r == Ran
    <3>1. k \in Nat /\ p \in Nat /\ n \in Nat /\ u \in Nat /\ r \in Nat
      BY <1>3, <2>1, <2>2
    <3>2. p + 1 = n + k
      BY <1>6, <2>1, <2>2
    <3>3. u = r + k /\ v = u - 1 + n
      BY <1>3, <1>4
    <3> HIDE DEF k, p, n, u, v, r
    <3>4. v = r + p
      BY <3>1, <3>2, <3>3
    <3> QED BY <3>4 DEF v, r, p
  <2> QED BY <2>3, <2>4 DEF Counted
<1>9. ASSUME NEW d \in Sessions
      PROVE  /\ InLine(lim', d) + Hits(more, ClaimsOf(d)) = InLine(lim, d)
             /\ Hits(more, SpawnsOf(d)) = Hits(more, ClaimsOf(d))
  <2>1. InLine(lim, d) <= 1
    BY <1>2, LineOnce
  <2>2. Hits(st, {d}) + InLine(lim', d) = InLine(lim, d)
    BY <1>4, <2>1
  <2>3. Hits(st, {d}) \in Nat /\ InLine(lim', d) \in Nat
    BY <1>4, HitsType, InLineIs
  <2> QED BY <1>6, <2>2, <2>3
<1>10. Placed'
  <2>1. \A d \in Sessions : Hits(waits', {d}) = Hits(waits, {d})
    BY <1>2
  <2> QED BY <1>1, <1>2, <1>5, <1>6, <1>7, <1>9, <2>1, OthersAll
<1> QED BY <1>4, <1>8, <1>10 DEF Slots

(* The end of a session: its place in line or its slot goes with it.        *)
LEMMA SlotsEnd ==
  ASSUME SessTypes, CallTypes, SessTypes', CallTypes', Slots, Ordered, calls # <<>>,
         NEW c \in Sessions, Head(calls).op \in {"release", "gone"}, Head(calls).who = c,
         NEW after \in Sess, after.stage \in {"ended", "none"}, ~after.timer, Release(c, after)
  PROVE  Slots'
<1>1. /\ calls \in Seq(CallSet) /\ Head(calls) \in CallSet /\ Tail(calls) \in Seq(CallSet)
      /\ Placed /\ Counted /\ Full(lim) /\ lim \in Limiters /\ PlacedAt(c)
  BY ElemsTail DEF CallTypes, Slots, SessTypes, Placed
<1>2. Head(calls) \notin SlotCalls /\ \A d : Head(calls) \notin ClaimsOf(d)
  BY DEF SlotCalls, ClaimsOf, Claims
<1>3. \A d \in Sessions \ {c} : Head(calls) # For("release", d)
  BY OtherCalls
<1>4. Hits(Tail(calls), ClaimsOf(c)) = 0 /\ Hits(Tail(calls), SpawnsOf(c)) = 0
  <2>1. \A y \in Elems(Tail(calls)) : Before(Head(calls), y)
    BY <1>1, OrderHead
  <2>2. \A y \in Elems(Tail(calls)) : y \notin ClaimsOf(c)
    BY <2>1 DEF Before, ClaimsOf
  <2>3. \A y \in Elems(Tail(calls)) : y \notin SpawnsOf(c)
    <3>1. For("spawn", c).op = "spawn" /\ For("spawn", c).who = c
      BY DEF For, Call
    <3> QED BY <2>1, <3>1 DEF Before, SpawnsOf, Claims
  <2>4. Elems(Tail(calls)) \cap ClaimsOf(c) = {} /\ Elems(Tail(calls)) \cap SpawnsOf(c) = {}
    BY <2>2, <2>3
  <2> QED BY <1>1, <2>4, HitsType
<1>5. /\ lim.running \in Nat /\ Hits(calls, SlotCalls) \in Nat /\ lim.running = Ran + Hits(calls, SlotCalls)
      /\ Ran \in Nat /\ Ran' \in Nat
  BY <1>1, HitsType, RanType DEF Limiters, CallTypes, Counted
<1>6. ASSUME NEW s \in Seq(Sessions), NEW more, more = ForEach("spawn", s) \o Notice, Then(more), Full(lim'),
             \A d \in Sessions : sess'[d].stage = IF d = c THEN after.stage ELSE sess[d].stage,
             \A d \in Sessions : sess'[d].timer = IF d = c THEN FALSE ELSE sess[d].timer,
             Hits(waits', {c}) = 0, InLine(lim', c) = 0, Hits(s, {c}) = 0,
             \A d \in Sessions \ {c} : /\ Hits(waits', {d}) = Hits(waits, {d})
                                       /\ InLine(lim', d) + Hits(s, {d}) = InLine(lim, d),
             lim'.running = lim.running - One(Runs(c)) + Len(s)
      PROVE  Slots'
  <2>1. /\ more \in Seq(CallSet) /\ Hits(more, SlotCalls) = Len(s)
        /\ \A d : Hits(more, ClaimsOf(d)) = Hits(s, {d}) /\ Hits(more, SpawnsOf(d)) = Hits(s, {d})
    BY <1>6, StartsHits
  <2>2. Counted'
    <3> DEFINE k == Hits(calls, SlotCalls)    p == Hits(calls', SlotCalls)    n == Len(s)    u == lim.running    v == lim'.running
               r == Ran    q == Ran'    a == One(Runs(c))    b == One(Runs(c)')
    <3>1. p \in Nat /\ p + One(Head(calls) \in SlotCalls) = n + k
      <4>1. /\ Hits(calls', SlotCalls) \in Nat
            /\ Hits(calls', SlotCalls) + One(Head(calls) \in SlotCalls) = Hits(more, SlotCalls) + Hits(calls, SlotCalls)
        BY <1>6, <2>1, CallsHits
      <4>2. Hits(more, SlotCalls) = Len(s)
        BY <2>1
      <4> QED BY <4>1, <4>2
    <3>2. One(Head(calls) \in SlotCalls) = 0
      BY <1>2 DEF One
    <3>3. q + a = r + b
      BY <1>6, RanIs
    <3>4. b = 0 /\ a \in Nat
      BY <1>6 DEF One, Runs
    <3>5. k \in Nat /\ u \in Nat /\ r \in Nat /\ q \in Nat /\ u = r + k /\ n \in Nat
      BY <1>5, <1>6
    <3>6. v = u - a + n
      BY <1>6
    <3> HIDE DEF k, p, n, u, v, r, q, a, b
    <3>7. v = q + p
      BY <3>1, <3>2, <3>3, <3>4, <3>5, <3>6
    <3> QED BY <3>7 DEF Counted, v, q, p
  <2>3. PlacedAt(c)' /\ TimedAt(c)'
    <3>1. calls' = more \o Tail(calls)
      BY <1>6 DEF Then
    <3>2. Hits(calls', ClaimsOf(c)) = 0 /\ Hits(calls', SpawnsOf(c)) = 0
      <4>0. more \in Seq(CallSet) /\ Tail(calls) \in Seq(CallSet)
        BY <1>1, <2>1
      <4>1. \A S : Hits(more \o Tail(calls), S) = Hits(more, S) + Hits(Tail(calls), S)
        BY <4>0, CallHits
      <4>2. Hits(more, ClaimsOf(c)) = 0 /\ Hits(more, SpawnsOf(c)) = 0
        BY <1>6, <2>1
      <4> QED BY <1>4, <3>1, <4>1, <4>2
    <3>3. Holding(c)' = 0
      BY <1>6, <3>2 DEF Holding
    <3>4. ~Queued(c)' /\ ~sess'[c].timer
      BY <1>6 DEF Queued
    <3>5. One(Queued(c))' = 0
      BY <3>4 DEF One
    <3>6. PlacedAt(c)'
      BY <3>3, <3>5 DEF PlacedAt
    <3>7. TimedAt(c)'
      BY <1>6, <3>4 DEF TimedAt
    <3> QED BY <3>6, <3>7
  <2>4. ASSUME NEW d \in Sessions \ {c}
        PROVE  /\ Head(calls) \notin ClaimsOf(d) /\ Head(calls) # For("release", d)
               /\ sess'[d].stage = sess[d].stage /\ sess'[d].timer = sess[d].timer
               /\ Hits(waits', {d}) = Hits(waits, {d})
               /\ InLine(lim', d) + Hits(more, ClaimsOf(d)) = InLine(lim, d)
               /\ Hits(more, SpawnsOf(d)) = Hits(more, ClaimsOf(d))
    BY <1>2, <1>3, <1>6, <2>1
  <2>5. Placed'
    BY <1>1, <1>6, <2>1, <2>3, <2>4, OthersAll
  <2> QED BY <1>6, <2>2, <2>5 DEF Slots
<1>7. <<>> \in Seq(Sessions) /\ (\A S : Hits(<<>>, S) = 0) /\ Len(<<>>) = 0
      /\ ForEach("spawn", <<>>) \o Notice = Notice
  <2>1. ForEach("spawn", <<>>) = <<>>
    BY DEF ForEach
  <2>2. Notice \in Seq(CallSet)
    BY CallsAre DEF Notice, OfLink
  <2> QED BY <2>1, <2>2, HitsOne
<1>8. \A d : InLine(lim, d) \in Nat /\ InLine(lim, d) <= 1
  BY <1>1, LineOnce
<1>9. CASE Queued(c)
  <2>1. /\ lim' = Forget(lim, c) /\ waits' = Only(waits, ToSet(waits) \ {c}) /\ Then(Notice)
        /\ sess' = [sess EXCEPT ![c] = after]
    <3>0. ~Runs(c)
      BY <1>9 DEF Runs, Queued
    <3>1. lim' = Forget(lim, c) /\ Forgotten(c) /\ SetSess(c, after) /\ Then(Notice)
      BY <1>9, <3>0 DEF Release
    <3> QED BY <3>1 DEF Forgotten, SetSess
  <2>2. /\ Full(lim') /\ lim'.running = lim.running
        /\ \A d : InLine(lim', d) = IF d = c THEN 0 ELSE InLine(lim, d)
    BY <1>1, <2>1, ForgetSlots
  <2>3. /\ \A d \in Sessions : sess'[d].stage = IF d = c THEN after.stage ELSE sess[d].stage
        /\ \A d \in Sessions : sess'[d].timer = IF d = c THEN FALSE ELSE sess[d].timer
    BY <2>1 DEF SessTypes, Sess
  <2>4. Hits(waits', {c}) = 0 /\ \A d \in Sessions \ {c} : Hits(waits', {d}) = Hits(waits, {d})
    <3>1. waits \in Seq(Waiters \cup Sessions) /\ ToSet(waits) = Elems(waits)
      BY ToSetIs DEF CallTypes
    <3>2. \A S : Hits(waits', S) = Hits(waits, S \cap (ToSet(waits) \ {c}))
      BY <2>1, <3>1, HitsOnly
    <3>3. {c} \cap (ToSet(waits) \ {c}) = {} /\ Hits(waits, {}) = 0
      BY <3>1, HitsType
    <3>4. ASSUME NEW d \in Sessions \ {c} PROVE Hits(waits', {d}) = Hits(waits, {d})
      <4> DEFINE T == {d} \cap (ToSet(waits) \ {c})
      <4>1. \A x \in Elems(waits) : x \in T <=> x \in {d}
        BY <3>1
      <4> HIDE DEF T
      <4>2. Hits(waits, T) = Hits(waits, {d})
        BY <4>1, HitsSame
      <4> QED BY <3>2, <4>2 DEF T
    <3> QED BY <3>2, <3>3, <3>4
  <2>5. \A d \in Sessions \ {c} : InLine(lim', d) + Hits(<<>>, {d}) = InLine(lim, d)
    <3>1. \A d \in Sessions \ {c} : InLine(lim', d) = InLine(lim, d) /\ InLine(lim, d) \in Nat /\ Hits(<<>>, {d}) = 0
      BY <1>7, <1>8, <2>2
    <3> QED BY <3>1
  <2>6. lim'.running = lim.running - One(Runs(c)) + Len(<<>>)
    <3>1. One(Runs(c)) = 0
      BY <1>9 DEF One, Runs, Queued
    <3> QED BY <1>5, <1>7, <2>2, <3>1
  <2>7. InLine(lim', c) = 0 /\ Hits(<<>>, {c}) = 0
    BY <1>7, <2>2
  <2> QED BY <1>6, <1>7, <2>1, <2>2, <2>3, <2>4, <2>5, <2>6, <2>7
<1>10. ASSUME ~Queued(c)
       PROVE  Hits(waits, {c}) = 0 /\ InLine(lim, c) = 0
  <2>1. Holding(c) = 0
    BY <1>1, <1>10 DEF PlacedAt, One
  <2>2. /\ Hits(waits, {c}) \in Nat /\ InLine(lim, c) \in Nat /\ Hits(calls, ClaimsOf(c)) \in Nat
        /\ Holding(c) = Hits(waits, {c}) + InLine(lim, c) + Hits(calls, ClaimsOf(c))
    BY HoldingIs
  <2> QED BY <2>1, <2>2
<1>11. CASE ~Queued(c) /\ Runs(c)
  <2> DEFINE st == LeaveSlot(lim).start
  <2>1. /\ lim' = LeaveSlot(lim).lim /\ waits' = waits /\ Then(ForEach("spawn", st) \o Notice)
        /\ sess' = LateAfter([sess EXCEPT ![c] = after])
    BY <1>11 DEF Release
  <2>2. /\ \A d \in Sessions : sess'[d].stage = IF d = c THEN after.stage ELSE sess[d].stage
        /\ \A d \in Sessions : sess'[d].timer = IF d = c THEN FALSE ELSE sess[d].timer
    <3> DEFINE s == [sess EXCEPT ![c] = after]
    <3>1. s \in [Sessions -> Sess] /\ \A d \in Sessions : s[d] = IF d = c THEN after ELSE sess[d]
      BY DEF SessTypes
    <3>2. sess' = LateAfter(s)
      BY <2>1
    <3> HIDE DEF s
    <3>3. \A d \in Sessions : sess'[d].stage = s[d].stage /\ sess'[d].timer = s[d].timer
      BY <3>1, <3>2, LateTimers
    <3>4. after.timer = FALSE
      BY DEF Sess
    <3> QED BY <3>1, <3>3, <3>4
  <2>3. lim.running > 0
    <3> DEFINE r == Ran    q == Ran'    a == One(Runs(c))    b == One(Runs(c)')
    <3>1. q + a = r + b
      BY <2>2, RanIs
    <3>2. a = 1 /\ b = 0
      BY <1>11, <2>2 DEF One, Runs
    <3>3. r \in Nat /\ q \in Nat
      BY <1>5
    <3> HIDE DEF r, q, a, b
    <3>4. r > 0
      BY <3>1, <3>2, <3>3
    <3> QED BY <1>5, <3>4 DEF r
  <2>4. /\ st \in Seq(Sessions) /\ Full(lim') /\ lim' \in Limiters /\ lim'.running = lim.running - 1 + Len(st)
        /\ \A d : InLine(lim, d) <= 1 => Hits(st, {d}) + InLine(lim', d) = InLine(lim, d)
    BY <1>1, <2>1, <2>3, LeaveSlots
  <2>5. Then(ForEach("spawn", st) \o Notice)
    BY <2>1
  <2> HIDE DEF st
  <2>6. \A d : /\ Hits(st, {d}) \in Nat /\ InLine(lim', d) \in Nat
               /\ Hits(st, {d}) + InLine(lim', d) = InLine(lim, d)
    BY <1>8, <2>4, HitsType, InLineIs
  <2>7. InLine(lim', c) = 0 /\ Hits(st, {c}) = 0
    <3>1. InLine(lim, c) = 0
      BY <1>10, <1>11
    <3>2. Hits(st, {c}) \in Nat /\ InLine(lim', c) \in Nat /\ Hits(st, {c}) + InLine(lim', c) = InLine(lim, c)
      BY <2>6
    <3> QED BY <3>1, <3>2
  <2>8. ASSUME NEW d \in Sessions \ {c} PROVE InLine(lim', d) + Hits(st, {d}) = InLine(lim, d)
    <3>1. Hits(st, {d}) \in Nat /\ InLine(lim', d) \in Nat /\ Hits(st, {d}) + InLine(lim', d) = InLine(lim, d)
      BY <2>6
    <3> HIDE DEF InLine
    <3> QED BY <3>1
  <2>9. lim'.running = lim.running - One(Runs(c)) + Len(st)
    <3>1. One(Runs(c)) = 1
      BY <1>11 DEF One
    <3> QED BY <2>4, <3>1
  <2>10. Hits(waits', {c}) = 0 /\ \A d \in Sessions \ {c} : Hits(waits', {d}) = Hits(waits, {d})
    BY <1>10, <1>11, <2>1
  <2> QED BY <1>6, <2>2, <2>4, <2>5, <2>7, <2>8, <2>9, <2>10
<1>12. CASE ~Queued(c) /\ ~Runs(c)
  <2>1. lim' = lim /\ waits' = waits /\ Then(Notice) /\ sess' = [sess EXCEPT ![c] = after]
    BY <1>12 DEF Release, SetSess
  <2>2. /\ \A d \in Sessions : sess'[d].stage = IF d = c THEN after.stage ELSE sess[d].stage
        /\ \A d \in Sessions : sess'[d].timer = IF d = c THEN FALSE ELSE sess[d].timer
    BY <2>1 DEF SessTypes, Sess
  <2>3. Hits(waits', {c}) = 0 /\ InLine(lim', c) = 0 /\ Hits(<<>>, {c}) = 0
    BY <1>7, <1>10, <1>12, <2>1
  <2>4. \A d \in Sessions \ {c} : /\ Hits(waits', {d}) = Hits(waits, {d})
                                  /\ InLine(lim', d) + Hits(<<>>, {d}) = InLine(lim, d)
    <3>1. \A d : InLine(lim', d) = InLine(lim, d) /\ InLine(lim, d) \in Nat /\ Hits(<<>>, {d}) = 0
      BY <1>7, <1>8, <2>1
    <3> QED BY <2>1, <3>1
  <2>5. lim'.running = lim.running - One(Runs(c)) + Len(<<>>)
    <3>1. One(Runs(c)) = 0
      BY <1>12 DEF One
    <3> QED BY <1>5, <1>7, <2>1, <3>1
  <2>6. Full(lim')
    BY <1>1, <2>1
  <2> QED BY <1>6, <1>7, <2>1, <2>2, <2>3, <2>4, <2>5, <2>6
<1> QED BY <1>9, <1>11, <1>12

(* A session that was refused waits again, in a call or parked.             *)
LEMMA SlotsRetry ==
  ASSUME LinkTypes, SessTypes, CallTypes, SessTypes', CallTypes', CallsInv, Slots, FinishRetry
  PROVE  Slots'
<1>0. PICK c \in Sessions : c = Who
  BY NowIs DEF FinishRetry, OfSession
<1>1. /\ calls # <<>> /\ Head(calls) \in CallSet /\ Head(calls).op = "finished" /\ Head(calls).who = c
      /\ sess[c].stage = "running" /\ calls \in Seq(CallSet)
  BY <1>0, NowIs, NowInv DEF FinishRetry, Who, CallTypes
<1>2. /\ Head(calls) \notin SlotCalls /\ \A d : Head(calls) \notin ClaimsOf(d)
      /\ \A d : Head(calls) # For("release", d)
  <2>1. \A d : For("release", d).op = "release"
    BY DEF For, Call
  <2> QED BY <1>1, <2>1 DEF SlotCalls, ClaimsOf, Claims
<1>3. Placed /\ Counted /\ Full(lim) /\ lim \in Limiters /\ sess[c].late \in BOOLEAN /\ Runs(c) /\ ~Queued(c)
  BY <1>1 DEF Slots, SessTypes, Sess, Runs, Queued
<1>4. Hits(waits, {c}) = 0 /\ InLine(lim, c) = 0 /\ Hits(calls, ClaimsOf(c)) = 0 /\ Hits(calls, SpawnsOf(c)) = 0
  <2>1. PlacedAt(c)
    BY <1>3 DEF Placed
  <2>2. Hits(waits, {c}) = 0 /\ InLine(lim, c) = 0 /\ Hits(calls, ClaimsOf(c)) = 0
    BY <1>1, <1>2, <1>3, <2>1, NoOther
  <2>3. Hits(calls, SpawnsOf(c)) \in Nat /\ Hits(calls, SpawnsOf(c)) <= Hits(calls, ClaimsOf(c))
    BY HoldingIs
  <2> QED BY <2>2, <2>3
<1>5. /\ lim.running \in Nat /\ Hits(calls, SlotCalls) \in Nat /\ lim.running = Ran + Hits(calls, SlotCalls)
      /\ Ran \in Nat /\ Ran' \in Nat
  BY <1>3, HitsType, RanType DEF Limiters, CallTypes, Counted
<1> DEFINE r == Retry(lim, c, sess[c].late)
           st == r.start
           more == ForEach("spawn", st)
           again == Again(lim, sess[c].late)
<1>6. /\ lim' = r.lim /\ Then(more) /\ waits' = waits
      /\ sess' = [sess EXCEPT ![c] = [NoSess EXCEPT !.stage = "queued", !.retried = TRUE, !.timer = ~again]]
  BY <1>0 DEF FinishRetry, Refused, SetSess, registry
<1>7. /\ sess'[c].stage = "queued" /\ sess'[c].timer = ~again
      /\ \A d \in Sessions \ {c} : sess'[d] = sess[d]
  <2> HIDE DEF again
  <2> QED BY <1>6 DEF SessTypes, Sess, NoSess
<1>8. Ran' + 1 = Ran
  <2> DEFINE n == Ran    m == Ran'    a == One(Runs(c))    b == One(Runs(c)')
  <2>1. m + a = n + b
    BY <1>7, RanIs
  <2>2. a = 1 /\ b = 0
    BY <1>3, <1>7 DEF One, Runs
  <2>3. n \in Nat /\ m \in Nat
    BY <1>5
  <2> HIDE DEF n, m, a, b
  <2>4. m + 1 = n
    BY <2>1, <2>2, <2>3
  <2> QED BY <2>4 DEF m, n
<1>9. /\ st \in Seq(Sessions) /\ lim' \in Limiters /\ Full(lim')
      /\ lim'.running = lim.running - 1 + Len(st)
      /\ \A d : d # c => Hits(st, {d}) + InLine(lim', d) = InLine(lim, d)
      /\ Hits(st, {c}) + InLine(lim', c) = 1
      /\ InLine(lim', c) = IF again THEN 0 ELSE 1
  <2>1. lim.running > 0
    <3> DEFINE n == Ran    m == Ran'
    <3>1. m \in Nat /\ n \in Nat /\ m + 1 = n
      BY <1>5, <1>8
    <3> HIDE DEF n, m
    <3>2. n > 0
      BY <3>1
    <3> QED BY <1>5, <3>2 DEF n
  <2>2. \A d : InLine(lim, d) <= 1
    BY <1>3, LineOnce
  <2> DEFINE late == sess[c].late
  <2>3. late \in BOOLEAN /\ Full(lim) /\ lim \in Limiters /\ InLine(lim, c) = 0
    BY <1>3, <1>4
  <2>4. lim' = Retry(lim, c, late).lim /\ st = Retry(lim, c, late).start /\ again = Again(lim, late)
    BY <1>6
  <2> HIDE DEF late, r, st, again
  <2> DEFINE x == Retry(lim, c, late)
  <2>5. /\ x.lim \in Limiters /\ x.start \in Seq(Sessions) /\ Full(x.lim)
        /\ x.lim.running = lim.running - 1 + Len(x.start)
        /\ \A d : d # c => Hits(x.start, {d}) + InLine(x.lim, d) = InLine(lim, d)
        /\ Hits(x.start, {c}) + InLine(x.lim, c) = 1
        /\ InLine(x.lim, c) = IF Again(lim, late) THEN 0 ELSE 1
    BY <2>1, <2>2, <2>3, RetrySlots
  <2>6. lim' = x.lim /\ st = x.start
    BY <2>4
  <2> HIDE DEF x
  <2> QED BY <2>4, <2>5, <2>6
<1>10. Then(more) /\ again \in BOOLEAN
  BY <1>3, <1>6 DEF Again
<1> HIDE DEF r, st, again
<1>11. /\ more \in Seq(CallSet) /\ Hits(more, SlotCalls) = Len(st)
       /\ \A d : Hits(more, ClaimsOf(d)) = Hits(st, {d}) /\ Hits(more, SpawnsOf(d)) = Hits(st, {d})
  BY <1>9, ForEachIs, SpawnsHits DEF OfSession
<1> HIDE DEF more
<1>12. Counted'
  <2> DEFINE k == Hits(calls, SlotCalls)    p == Hits(calls', SlotCalls)    n == Len(st)    u == lim.running    v == lim'.running
             x == Ran    y == Ran'
  <2>1. p \in Nat /\ p = n + k
    <3>1. /\ Hits(calls', SlotCalls) \in Nat
          /\ Hits(calls', SlotCalls) + One(Head(calls) \in SlotCalls) = Hits(more, SlotCalls) + Hits(calls, SlotCalls)
      BY <1>1, <1>10, <1>11, CallsHits
    <3>2. One(Head(calls) \in SlotCalls) = 0 /\ Hits(more, SlotCalls) = Len(st)
      BY <1>2, <1>11 DEF One
    <3> QED BY <3>1, <3>2
  <2>0. n \in Nat
    BY <1>9
  <2>2. k \in Nat /\ n \in Nat /\ u \in Nat /\ x \in Nat /\ y \in Nat /\ u = x + k /\ y + 1 = x
    BY <1>5, <1>8, <2>0
  <2>3. v = u - 1 + n
    BY <1>9
  <2> HIDE DEF k, p, n, u, v, x, y
  <2>4. v = y + p
    BY <2>1, <2>2, <2>3
  <2> QED BY <2>4 DEF Counted, v, y, p
<1>13. PlacedAt(c)' /\ TimedAt(c)'
  <2> DEFINE h == Hits(st, {c})    q == InLine(lim', c)
  <2>1. h \in Nat /\ q \in Nat
    BY <1>9, HitsType, InLineIs
  <2>2. h + q = 1
    BY <1>9
  <2>3. Hits(calls', ClaimsOf(c)) = h
    <3>1. /\ Hits(calls', ClaimsOf(c)) \in Nat
          /\ Hits(calls', ClaimsOf(c)) + One(Head(calls) \in ClaimsOf(c)) = Hits(more, ClaimsOf(c)) + Hits(calls, ClaimsOf(c))
      BY <1>1, <1>10, <1>11, CallsHits
    <3>2. One(Head(calls) \in ClaimsOf(c)) = 0
      BY <1>2 DEF One
    <3>3. Hits(more, ClaimsOf(c)) = h
      BY <1>11
    <3> QED BY <1>4, <2>1, <3>1, <3>2, <3>3
  <2>4. Hits(waits', {c}) = 0
    BY <1>4, <1>6
  <2>5. Holding(c)' = Hits(waits', {c}) + q + Hits(calls', ClaimsOf(c))
    BY DEF Holding
  <2>6. Queued(c)' /\ One(Queued(c))' = 1
    BY <1>7 DEF Queued, One
  <2>7. Hits(calls', SpawnsOf(c)) \in Nat
    BY HitsType DEF CallTypes
  <2>8. (q = IF again THEN 0 ELSE 1) /\ (sess'[c].timer <=> ~again)
    BY <1>7, <1>9
  <2>9. TimedAt(c)' <=> (q > 0 => sess'[c].timer) /\ (sess'[c].timer => q + Hits(calls', SpawnsOf(c)) > 0)
    BY DEF TimedAt
  <2> HIDE DEF h, q
  <2>10. Holding(c)' = 1
    BY <2>1, <2>2, <2>3, <2>4, <2>5
  <2>11. PlacedAt(c)'
    BY <2>6, <2>10 DEF PlacedAt
  <2>12. TimedAt(c)'
    BY <1>10, <2>1, <2>7, <2>8, <2>9
  <2> QED BY <2>11, <2>12
<1>14. ASSUME NEW d \in Sessions \ {c}
       PROVE  /\ sess'[d].stage = sess[d].stage /\ sess'[d].timer = sess[d].timer
              /\ Hits(waits', {d}) = Hits(waits, {d})
              /\ InLine(lim', d) + Hits(more, ClaimsOf(d)) = InLine(lim, d)
              /\ Hits(more, SpawnsOf(d)) = Hits(more, ClaimsOf(d))
  <2>2. Hits(st, {d}) + InLine(lim', d) = InLine(lim, d)
    BY <1>9
  <2>3. Hits(st, {d}) \in Nat /\ InLine(lim', d) \in Nat /\ InLine(lim, d) \in Nat
    BY <1>3, <1>9, HitsType, InLineIs
  <2>4. Hits(more, ClaimsOf(d)) = Hits(st, {d}) /\ Hits(more, SpawnsOf(d)) = Hits(st, {d})
    BY <1>11
  <2>5. InLine(lim', d) + Hits(st, {d}) = InLine(lim, d)
    BY <2>2, <2>3
  <2> QED BY <1>6, <1>7, <2>4, <2>5
<1>15. Placed'
  BY <1>1, <1>2, <1>3, <1>10, <1>11, <1>13, <1>14, OthersAll
<1> QED BY <1>9, <1>12, <1>15 DEF Slots

(* Slots and places are kept by every call.                                 *)
LEMMA SlotsCalls ==
  ASSUME LinkTypes, SessTypes, CallTypes, SessTypes', CallTypes', CallsInv, Slots, Ordered, Calls
  PROVE  Slots'
<1>1. CASE FinishRetry
  BY <1>1, SlotsRetry
<1>2. CASE Head(calls).op \notin SlotOps /\ ~FinishRetry
  BY <1>2, SlotsMost
<1>3. CASE Head(calls).op \in SlotOps
  <2>1. \/ Changed \/ Unlink \/ Answer \/ Proceed \/ JoinSlot \/ SpawnSession \/ LeaveLimiter
        \/ EndSession \/ CloseSession
    BY <1>3 DEF Calls, ReapCall, LinkCall, ExecCall, Pump, FinishExit, FinishError, FinishRetry, Advance, GoUp,
         Collect, FinishCheck, FinishDeliver, Settle, WatchEnds, PumpAll, ReapLeaving, Begin,
         StartStage, Fail, Restart, ForceDown, Delete, Touch, AnswerPassed, Do, SlotOps
  <2>2. CASE EndSession
    <3>1. PICK c \in Sessions : c = Who
      BY <2>2, NowIs DEF EndSession, OfSession
    <3>2. calls # <<>> /\ Head(calls).op = "release" /\ Head(calls).who = c
      BY <2>2, <3>1, NowIs DEF EndSession, Who
    <3> DEFINE after == [NoSess EXCEPT !.stage = "ended"]
    <3>3. Release(c, after)
      BY <2>2, <3>1 DEF EndSession
    <3>4. after \in Sess /\ after.stage = "ended" /\ ~after.timer
      BY DEF Sess, NoSess
    <3> HIDE DEF after
    <3> QED BY <3>2, <3>3, <3>4, SlotsEnd
  <2>3. CASE CloseSession
    <3>1. PICK c \in Sessions : c = Who
      BY <2>3, NowIs DEF CloseSession, OfSession
    <3>2. calls # <<>> /\ Head(calls).op = "gone" /\ Head(calls).who = c
      BY <2>3, <3>1, NowIs DEF CloseSession, Who
    <3>3. Release(c, NoSess)
      BY <2>3, <3>1 DEF CloseSession
    <3>4. NoSess \in Sess /\ NoSess.stage = "none" /\ ~NoSess.timer
      BY DEF Sess, NoSess
    <3> QED BY <3>2, <3>3, <3>4, SlotsEnd
  <2> QED BY <2>1, <2>2, <2>3, SlotsTold, SlotsWait, SlotsJoin, SlotsSpawn, SlotsLeave
<1> QED BY <1>1, <1>2, <1>3

-----------------------------------------------------------------------------
(* A handler starts.  The order of its calls: ends, or places, not both.    *)
LEMMA OrderStart ==
  ASSUME (\A x \in Elems(calls') : x.op \notin Claims) \/ (\A x \in Elems(calls') : x.op \notin Enders)
  PROVE  Ordered'
<1>1. \A k \in 1 .. Len(calls') : calls'[k] \in Elems(calls')
  BY DEF Elems
<1>2. CASE \A x \in Elems(calls') : x.op \notin Claims
  BY <1>1, <1>2 DEF Ordered, Before
<1>3. CASE \A x \in Elems(calls') : x.op \notin Enders
  BY <1>1, <1>3 DEF Ordered, Before, Enders
<1> QED BY <1>2, <1>3

(* Between handlers each session has its one place.                         *)
LEMMA AtRestIs ==
  ASSUME SessTypes, CallTypes, Slots, calls = <<>>
  PROVE  /\ lim.running = Ran
         /\ \A d \in Sessions : /\ Hits(waits, {d}) \in Nat /\ InLine(lim, d) \in Nat
                                /\ Hits(waits, {d}) + InLine(lim, d) = One(Queued(d))
                                /\ sess[d].timer <=> InLine(lim, d) > 0
<1>1. \A S : Hits(calls, S) = 0
  BY HitsOne
<1>2. lim.running = Ran
  <2>1. lim.running = Ran + Hits(calls, SlotCalls)
    BY DEF Slots, Counted
  <2> QED BY <1>1, <2>1, RanType
<1>3. ASSUME NEW d \in Sessions
      PROVE  /\ Hits(waits, {d}) \in Nat /\ InLine(lim, d) \in Nat
             /\ Hits(waits, {d}) + InLine(lim, d) = One(Queued(d))
             /\ sess[d].timer <=> InLine(lim, d) > 0
  <2>1. /\ Hits(waits, {d}) \in Nat /\ InLine(lim, d) \in Nat
        /\ Holding(d) = Hits(waits, {d}) + InLine(lim, d) + Hits(calls, ClaimsOf(d))
    BY HoldingIs
  <2>2. Holding(d) = Hits(waits, {d}) + InLine(lim, d)
    BY <1>1, <2>1
  <2>3. PlacedAt(d) /\ TimedAt(d)
    BY DEF Slots, Placed
  <2>4. Holding(d) = One(Queued(d))
    BY <2>3 DEF PlacedAt, Dropped
  <2>5. InLine(lim, d) + Hits(calls, SpawnsOf(d)) = InLine(lim, d)
    BY <1>1, <2>1
  <2> QED BY <2>1, <2>2, <2>3, <2>4, <2>5 DEF TimedAt
<1> QED BY <1>2, <1>3

(* A handler that starts with no place to give, or none that starts.        *)
LEMMA SlotsRest ==
  ASSUME SessTypes, CallTypes, SessTypes', CallTypes', Slots, calls = <<>>, lim' = lim,
         \A d \in Sessions : /\ Hits(waits', {d}) = Hits(waits, {d})
                             /\ Queued(d)' <=> Queued(d)
                             /\ Runs(d)' <=> Runs(d)
                             /\ sess'[d].timer = sess[d].timer,
         \A x \in Elems(calls') : x.op \notin Claims \cup {"leave"}
  PROVE  Slots' /\ Ordered'
<1>1. calls' \in Seq(CallSet)
  BY DEF CallTypes
<1>2. Hits(calls', SlotCalls) = 0 /\ \A d : Hits(calls', ClaimsOf(d)) = 0 /\ Hits(calls', SpawnsOf(d)) = 0
  BY <1>1, NoClaims
<1>3. Counted'
  <2>1. lim.running = Ran
    BY AtRestIs
  <2>2. {d \in Sessions : Runs(d)'} = {d \in Sessions : Runs(d)}
    OBVIOUS
  <2>3. Ran' = Ran
    BY <2>2 DEF Ran
  <2>4. lim.running = Ran' + Hits(calls', SlotCalls)
    BY <1>2, <2>1, <2>3, RanType
  <2> QED BY <2>4 DEF Counted
<1>4. ASSUME NEW d \in Sessions PROVE PlacedAt(d)' /\ TimedAt(d)'
  <2>1. /\ Hits(waits, {d}) \in Nat /\ InLine(lim, d) \in Nat
        /\ Hits(waits, {d}) + InLine(lim, d) = One(Queued(d))
        /\ sess[d].timer <=> InLine(lim, d) > 0
    BY AtRestIs
  <2>2. Holding(d)' = Hits(waits', {d}) + InLine(lim', d) + Hits(calls', ClaimsOf(d))
    BY DEF Holding
  <2>3. InLine(lim', d) = InLine(lim, d)
    OBVIOUS
  <2>4. Holding(d)' = One(Queued(d))
    <3> HIDE DEF InLine
    <3> QED BY <1>2, <2>1, <2>2, <2>3
  <2>5. One(Queued(d))' = One(Queued(d))
    BY DEF One
  <2>6. PlacedAt(d)'
    BY <2>4, <2>5 DEF PlacedAt
  <2>7. InLine(lim', d) + Hits(calls', SpawnsOf(d)) = InLine(lim, d)
    <3> HIDE DEF InLine
    <3> QED BY <1>2, <2>1, <2>3
  <2>8. TimedAt(d)'
    BY <2>1, <2>3, <2>7 DEF TimedAt
  <2> QED BY <2>6, <2>8
<1>5. Ordered'
  BY OrderStart
<1>6. Placed'
  BY <1>4 DEF Placed
<1>7. Full(lim')
  BY DEF Slots
<1> QED BY <1>3, <1>5, <1>6, <1>7 DEF Slots

(* The first message of a session: it is queued, and its call comes.        *)
LEMMA SlotsRequest ==
  ASSUME SessTypes, CallTypes, SessTypes', CallTypes', Slots, NEW c \in Sessions, ExecRequest(c)
  PROVE  Slots' /\ Ordered'
<1>1. /\ calls = <<>> /\ sess[c].stage = "open" /\ lim' = lim /\ waits' = waits
      /\ calls' = BeginCalls \o <<Plain("touch"), For("proceed", c), Plain("changed")>>
      /\ sess' = [sess EXCEPT ![c] = [sess[c] EXCEPT !.stage = "queued"]]
  BY DEF ExecRequest, Handler, AtRest, SetSess, registry
<1>2. /\ sess'[c].stage = "queued" /\ sess'[c].timer = sess[c].timer
      /\ \A d \in Sessions \ {c} : sess'[d] = sess[d]
  BY <1>1 DEF SessTypes, Sess
<1> DEFINE a == <<Plain("touch"), For("proceed", c)>>
           b == Append(a, Plain("changed"))
<1>3. /\ Plain("touch") \in CallSet /\ Plain("changed") \in CallSet /\ Plain("begin") \in CallSet
      /\ For("proceed", c) \in CallSet
      /\ Plain("touch").op = "touch" /\ Plain("changed").op = "changed" /\ Plain("begin").op = "begin"
      /\ For("proceed", c).op = "proceed"
  BY CallsAre DEF OfLink, OfSession
<1>4. /\ Plain("touch") \notin SlotCalls /\ Plain("changed") \notin SlotCalls /\ Plain("begin") \notin SlotCalls
      /\ For("proceed", c) \notin SlotCalls
      /\ \A d : /\ Plain("touch") \notin ClaimsOf(d) /\ Plain("changed") \notin ClaimsOf(d) /\ Plain("begin") \notin ClaimsOf(d)
                /\ Plain("touch") \notin SpawnsOf(d) /\ Plain("changed") \notin SpawnsOf(d) /\ Plain("begin") \notin SpawnsOf(d)
                /\ For("proceed", c) \in ClaimsOf(d) <=> c = d
                /\ For("proceed", c) \notin SpawnsOf(d)
  BY KindsOfCalls DEF OfLink, OfSession, Claims
<1>5. /\ BeginCalls \in Seq(CallSet) /\ Elems(BeginCalls) \subseteq {Plain("begin")}
      /\ \A S : Plain("begin") \notin S => Hits(BeginCalls, S) = 0
  <2>1. BeginCalls = <<>> \/ BeginCalls = <<Plain("begin")>>
    BY DEF BeginCalls
  <2>2. CASE BeginCalls = <<>>
    BY <2>2, HitsOne, ElemsNone
  <2>3. CASE BeginCalls = <<Plain("begin")>>
    BY <1>3, <2>3, HitsOne, ElemsOne
  <2> QED BY <2>1, <2>2, <2>3
<1>6. /\ a \in Seq(CallSet) /\ b \in Seq(CallSet) /\ calls' = BeginCalls \o b
      /\ Elems(a) = {Plain("touch"), For("proceed", c)}
  <2>1. a \in Seq(CallSet) /\ Elems(a) = {Plain("touch"), For("proceed", c)}
    BY <1>3 DEF Elems
  <2>2. \A x, y, z : <<x, y, z>> = Append(<<x, y>>, z)
    OBVIOUS
  <2>3. b = <<Plain("touch"), For("proceed", c), Plain("changed")>>
    BY <2>2
  <2>4. calls' = BeginCalls \o b
    BY <1>1, <2>3
  <2> HIDE DEF a
  <2>5. b \in Seq(CallSet)
    BY <1>3, <2>1
  <2> QED BY <2>1, <2>4, <2>5
<1>7. \A S : Hits(a, S) = One(Plain("touch") \in S) + One(For("proceed", c) \in S)
  BY <1>3, CallHits
<1> HIDE DEF a
<1>8. \A S : Hits(b, S) = Hits(a, S) + IF Plain("changed") \in S THEN 1 ELSE 0
  BY <1>3, <1>6, HitsEnds
<1>9. Elems(b) = Elems(a) \cup {Plain("changed")}
  BY <1>3, <1>6, ElemsAppend
<1> HIDE DEF b
<1>10. \A S : Hits(calls', S) = Hits(BeginCalls, S) + Hits(b, S)
  BY <1>5, <1>6, CallHits
<1>11. Hits(calls', SlotCalls) = 0
  <2>1. Hits(a, SlotCalls) = 0
    BY <1>4, <1>7 DEF One
  <2> QED BY <1>4, <1>5, <1>8, <1>10, <2>1
<1>12. ASSUME NEW d PROVE Hits(calls', ClaimsOf(d)) = One(c = d) /\ Hits(calls', SpawnsOf(d)) = 0
  <2>1. Hits(a, ClaimsOf(d)) = One(c = d) /\ Hits(a, SpawnsOf(d)) = 0
    BY <1>4, <1>7 DEF One
  <2>2. One(c = d) \in Nat
    BY DEF One
  <2>3. Hits(BeginCalls, ClaimsOf(d)) = 0 /\ Hits(BeginCalls, SpawnsOf(d)) = 0
    BY <1>4, <1>5
  <2>4. Hits(b, ClaimsOf(d)) = One(c = d) /\ Hits(b, SpawnsOf(d)) = 0
    BY <1>4, <1>8, <2>1, <2>2
  <2> QED BY <1>10, <2>2, <2>3, <2>4
<1>13. Ordered'
  <2>1. Elems(calls') = Elems(BeginCalls) \cup Elems(b)
    BY <1>5, <1>6, ElemsConcat
  <2>2. \A x \in Elems(calls') : x.op \notin Enders
    BY <1>3, <1>5, <1>6, <1>9, <2>1 DEF Enders
  <2> QED BY <2>2, OrderStart
<1>14. Counted'
  <2>1. lim.running = Ran
    BY <1>1, AtRestIs
  <2>2. {d \in Sessions : Runs(d)'} = {d \in Sessions : Runs(d)}
    BY <1>1, <1>2 DEF Runs
  <2>3. Ran' = Ran
    BY <2>2 DEF Ran
  <2>4. lim'.running = Ran' + Hits(calls', SlotCalls)
    BY <1>1, <1>11, <2>1, <2>3, RanType
  <2> QED BY <2>4 DEF Counted
<1>15. ASSUME NEW d \in Sessions PROVE PlacedAt(d)' /\ TimedAt(d)'
  <2>1. /\ Hits(waits, {d}) \in Nat /\ InLine(lim, d) \in Nat
        /\ Hits(waits, {d}) + InLine(lim, d) = One(Queued(d))
        /\ sess[d].timer <=> InLine(lim, d) > 0
    BY <1>1, AtRestIs
  <2>2. Holding(d)' = Hits(waits', {d}) + InLine(lim', d) + Hits(calls', ClaimsOf(d))
    BY DEF Holding
  <2>3. InLine(lim', d) = InLine(lim, d) /\ Hits(waits', {d}) = Hits(waits, {d}) /\ sess'[d].timer = sess[d].timer
    BY <1>1, <1>2
  <2>4. One(Queued(d))' = One(Queued(d)) + One(c = d) /\ One(c = d) \in Nat /\ One(Queued(d)) \in Nat
    BY <1>1, <1>2 DEF One, Queued
  <2>5. Holding(d)' = One(Queued(d))'
    <3> DEFINE w == Hits(waits, {d})    q == InLine(lim, d)    n == One(Queued(d))    k == One(c = d)
    <3>1. w \in Nat /\ q \in Nat /\ k \in Nat /\ w + q = n
      BY <2>1, <2>4
    <3>2. Holding(d)' = w + q + k
      BY <1>12, <2>2, <2>3
    <3>3. One(Queued(d))' = n + k
      BY <2>4
    <3> HIDE DEF w, q, n, k
    <3> QED BY <3>1, <3>2, <3>3
  <2>6. PlacedAt(d)'
    BY <2>5 DEF PlacedAt
  <2>7. InLine(lim', d) + Hits(calls', SpawnsOf(d)) = InLine(lim, d)
    <3> HIDE DEF InLine
    <3> QED BY <1>12, <2>1, <2>3
  <2>8. TimedAt(d)'
    BY <2>1, <2>3, <2>7 DEF TimedAt
  <2> QED BY <2>6, <2>8
<1>16. Placed' /\ Full(lim')
  BY <1>1, <1>15 DEF Placed, Slots
<1> QED BY <1>13, <1>14, <1>16 DEF Slots

(* What starts handlers, or acts between them.                              *)
LEMMA SlotsStart ==
  ASSUME LinkTypes, SessTypes, CallTypes, SessTypes', CallTypes', SlotInv, Timers \/ Requests \/ Reap
  PROVE  SlotInv'
<1>1. Slots /\ Ordered
  BY DEF SlotInv, Slots
<1>2. CASE \E c \in Sessions : ExecRequest(c)
  BY <1>1, <1>2, SlotsRequest DEF SlotInv, Slots
<1>3. CASE ~\E c \in Sessions : ExecRequest(c)
  <2>1. calls = <<>> /\ \A x \in Elems(calls') : x.op \notin Claims \cup {"leave"}
    <3>1. Starts \/ (calls' = calls /\ calls = <<>>)
      BY RequestStarts
    <3>2. CASE Starts
      BY <1>3, <3>2 DEF Starts, Claims
    <3>3. CASE calls' = calls /\ calls = <<>>
      BY <3>3, ElemsNone
    <3> QED BY <3>1, <3>2, <3>3
  <2>2. lim' = lim
    BY <1>3 DEF Timers, Requests, Reap, IdleDue, UpLimit, QuickLimit, UpRoute, DownRoute, DeleteRoute, PaneArrives,
       PaneLeaves, WaitRoute, WaitEnds, OpenSession, FailSession, CloseConn, ReadOutput, execs
  <2>3. waits' = waits \/ \E w \in Waiters : WaitRoute(w) \/ WaitEnds(w)
    BY <1>3 DEF Timers, Requests, Reap, IdleDue, UpLimit, QuickLimit, UpRoute, DownRoute, DeleteRoute, PaneArrives,
       PaneLeaves, OpenSession, FailSession, CloseConn, ReadOutput, registry
  <2>4. sess' = sess \/ \E c \in Sessions : OpenSession(c)
    BY <1>3 DEF Timers, Requests, Reap, IdleDue, UpLimit, QuickLimit, UpRoute, DownRoute, DeleteRoute, PaneArrives,
       PaneLeaves, WaitRoute, WaitEnds, FailSession, CloseConn, ReadOutput, execs
  <2>5. waits \in Seq(Waiters \cup Sessions) /\ ToSet(waits) = Elems(waits)
    BY ToSetIs DEF CallTypes
  <2>6. ASSUME NEW d \in Sessions PROVE Hits(waits', {d}) = Hits(waits, {d})
    <3>1. CASE \E w \in Waiters : WaitRoute(w)
      <4>1. PICK w \in Waiters : WaitRoute(w)
        BY <3>1
      <4>2. waits' = waits \/ waits' = Append(waits, w)
        BY <4>1 DEF WaitRoute
      <4> DEFINE X == Waiters \cup Sessions
      <4>3. waits \in Seq(X) /\ w \in X /\ Hits(waits, {d}) \in Nat
        BY <2>5, HoldingIs
      <4> HIDE DEF X
      <4>4. \A S : Hits(Append(waits, w), S) = Hits(waits, S) + IF w \in S THEN 1 ELSE 0
        BY <4>3, HitsEnds
      <4>5. w \notin {d}
        BY RuntimesAssumption
      <4>6. Hits(Append(waits, w), {d}) = Hits(waits, {d})
        BY <4>3, <4>4, <4>5
      <4> QED BY <4>2, <4>6
    <3>2. CASE \E w \in Waiters : WaitEnds(w)
      <4>1. PICK w \in Waiters : WaitEnds(w)
        BY <3>2
      <4>2. waits' = Only(waits, ToSet(waits) \ {w})
        BY <4>1 DEF WaitEnds, Forgotten
      <4> DEFINE T == {d} \cap (ToSet(waits) \ {w})
      <4>3. \A x \in Elems(waits) : x \in T <=> x \in {d}
        BY <2>5, RuntimesAssumption
      <4>4. Hits(waits', {d}) = Hits(waits, T)
        BY <2>5, <4>2, HitsOnly
      <4> HIDE DEF T
      <4>5. Hits(waits, T) = Hits(waits, {d})
        BY <4>3, HitsSame
      <4> QED BY <4>4, <4>5
    <3> QED BY <2>3, <3>1, <3>2
  <2>7. ASSUME NEW d \in Sessions
        PROVE  (Queued(d)' <=> Queued(d)) /\ (Runs(d)' <=> Runs(d)) /\ sess'[d].timer = sess[d].timer
    <3>1. CASE sess' = sess
      BY <3>1 DEF Queued, Runs
    <3>2. CASE \E c \in Sessions : OpenSession(c)
      <4>1. PICK c \in Sessions : OpenSession(c)
        BY <3>2
      <4>2. sess' = [sess EXCEPT ![c] = [NoSess EXCEPT !.stage = "open"]] /\ sess[c].stage = "none"
        BY <4>1 DEF OpenSession, SetSess
      <4>3. CASE d # c
        <5>1. sess'[d] = sess[d]
          BY <4>2, <4>3 DEF SessTypes
        <5> QED BY <5>1 DEF Queued, Runs
      <4>4. CASE d = c
        <5>1. sess'[d].stage = "open" /\ sess'[d].timer = FALSE
          BY <4>2, <4>4 DEF SessTypes, NoSess
        <5>2. sess[d].stage = "none" /\ ~sess[d].timer
          <6>1. ~Queued(d) /\ sess[d].stage = "none"
            BY <4>2, <4>4 DEF Queued
          <6>2. /\ Hits(waits, {d}) \in Nat /\ InLine(lim, d) \in Nat
                /\ Hits(waits, {d}) + InLine(lim, d) = One(Queued(d))
                /\ sess[d].timer <=> InLine(lim, d) > 0
            BY <1>1, <2>1, AtRestIs
          <6>3. One(Queued(d)) = 0
            BY <6>1 DEF One
          <6>4. InLine(lim, d) = 0
            BY <6>2, <6>3
          <6> QED BY <6>1, <6>2, <6>4
        <5>3. sess[d].timer = FALSE
          BY <5>2 DEF SessTypes, Sess
        <5> QED BY <5>1, <5>2, <5>3 DEF Queued, Runs
      <4> QED BY <4>3, <4>4
    <3> QED BY <2>4, <3>1, <3>2
  <2> QED BY <1>1, <2>1, <2>2, <2>6, <2>7, SlotsRest DEF SlotInv, Slots
<1> QED BY <1>2, <1>3

(* Slots, places and their order, in every step.                            *)
LEMMA SlotStep ==
  ASSUME LinkTypes, SessTypes, CallTypes, SessTypes', CallTypes', CallsInv, SlotInv, [Next]_vars
  PROVE  SlotInv'
<1>1. Slots /\ Ordered /\ Placed
  BY DEF SlotInv, Slots
<1>2. CASE Calls
  BY <1>1, <1>2, OrderCalls, SlotsCalls DEF SlotInv, Slots
<1>3. CASE Timers \/ Requests \/ Reap
  BY <1>3, SlotsStart
<1>4. CASE (\E p \in Pids : ProcessEnds(p)) \/ UNCHANGED vars
  <2>1. sess' = sess /\ lim' = lim /\ waits' = waits /\ calls' = calls
    BY <1>4 DEF ProcessEnds, vars, execs, registry
  <2> QED BY <2>1 DEF SlotInv, Counted, Ran, Runs, Placed, PlacedAt, TimedAt, Queued, Dropped, Holding, Ordered
<1> QED BY <1>2, <1>3, <1>4 DEF Next

(* No session, no slot, no call.                                            *)
LEMMA SlotInit == Init => SlotInv
<1> SUFFICES ASSUME Init PROVE SlotInv
  OBVIOUS
<1>1. /\ calls = <<>> /\ waits = <<>> /\ lim = NoSessions
      /\ \A c \in Sessions : sess[c] = NoSess
  BY DEF Init
<1>2. lim.running = 0 /\ lim.waiting = <<>> /\ lim.parked = <<>>
  BY <1>1 DEF NoSessions
<1>3. \A S : Hits(<<>>, S) = 0
  BY HitsOne
<1>4. \A c \in Sessions : ~Runs(c) /\ ~Queued(c) /\ ~sess[c].timer
  BY <1>1 DEF Runs, Queued, NoSess
<1>5. Ran = 0
  <2>1. {c \in Sessions : Runs(c)} = {}
    BY <1>4
  <2> QED BY <2>1, FS_EmptySet DEF Ran
<1>6. Counted
  BY <1>1, <1>2, <1>3, <1>5 DEF Counted
<1>7. Full(lim)
  BY <1>2, CapAssumption DEF Full
<1>8. ASSUME NEW c \in Sessions PROVE PlacedAt(c) /\ TimedAt(c)
  <2>1. InLine(lim, c) = 0
    BY <1>2, <1>3 DEF InLine
  <2>2. Holding(c) = 0
    BY <1>1, <1>3, <2>1 DEF Holding
  <2>3. One(Queued(c)) = 0
    BY <1>4 DEF One
  <2>4. PlacedAt(c)
    BY <2>2, <2>3 DEF PlacedAt
  <2>5. TimedAt(c)
    BY <1>4, <2>1 DEF TimedAt
  <2> QED BY <2>4, <2>5
<1>9. Ordered
  BY <1>1 DEF Ordered
<1> QED BY <1>6, <1>7, <1>8, <1>9 DEF SlotInv, Placed

(* The limiter counts the sessions that run, and a session that is queued   *)
(* waits in one place (state/exec_ops.rs, runtime/exec.rs): with a timer if *)
(* it stands in line, where somebody before it has a slot.                  *)
THEOREM SlotsAreMatched == Spec => []SlotsMatch
<1>1. Init => RuntimesInv /\ SlotInv
  BY RuntimesInit, SlotInit
<1>2. RuntimesInv /\ SlotInv /\ [Next]_vars => (RuntimesInv /\ SlotInv)'
  <2> SUFFICES ASSUME RuntimesInv, SlotInv, [Next]_vars PROVE RuntimesInv' /\ SlotInv'
    OBVIOUS
  <2>1. RuntimesInv'
    BY RuntimesStep
  <2> QED BY <2>1, SlotStep DEF RuntimesInv
<1>3. RuntimesInv /\ SlotInv => SlotsMatch
  <2> SUFFICES ASSUME RuntimesInv, SlotInv, AtRest PROVE SlotsMatch
    BY DEF SlotsMatch
  <2>1. SessTypes /\ CallTypes /\ Slots /\ calls = <<>> /\ Full(lim)
    BY DEF RuntimesInv, SlotInv, Slots, AtRest
  <2>2. /\ lim.running = Ran
        /\ lim.waiting # <<>> => lim.running = Cap
        /\ lim.parked # <<>> => lim.running > 0
    BY <2>1, AtRestIs DEF Full
  <2>3. ASSUME NEW c \in Sessions
        PROVE  /\ Places(c) = IF Queued(c) THEN 1 ELSE 0
               /\ sess[c].timer <=> c \in ToSet(lim.waiting) \cup ToSet(lim.parked)
    <3>1. /\ Hits(waits, {c}) \in Nat /\ InLine(lim, c) \in Nat
          /\ Hits(waits, {c}) + InLine(lim, c) = One(Queued(c))
          /\ sess[c].timer <=> InLine(lim, c) > 0
      BY <2>1, AtRestIs
    <3>2. /\ lim.waiting \in Seq(Sessions) /\ lim.parked \in Seq(Sessions) /\ waits \in Seq(Waiters \cup Sessions)
          /\ lim \in Limiters
      BY <2>1 DEF SessTypes, CallTypes, Limiters
    <3>3. \A X : \A s \in Seq(X) : {i \in DOMAIN s : s[i] = c} = Spots(s, {c})
      BY DEF Spots
    <3>4. /\ Hits(lim.waiting, {c}) \in Nat /\ Hits(lim.parked, {c}) \in Nat
          /\ InLine(lim, c) = Hits(lim.waiting, {c}) + Hits(lim.parked, {c})
          /\ c \in Elems(lim.waiting) <=> Hits(lim.waiting, {c}) >= 1
          /\ c \in Elems(lim.parked) <=> Hits(lim.parked, {c}) >= 1
      BY <3>2, InLineIs
    <3>5. Places(c) = Hits(waits, {c}) + Hits(lim.waiting, {c}) + Hits(lim.parked, {c})
      <4>1. /\ {i \in DOMAIN waits : waits[i] = c} = Spots(waits, {c})
            /\ {i \in DOMAIN lim.waiting : lim.waiting[i] = c} = Spots(lim.waiting, {c})
            /\ {i \in DOMAIN lim.parked : lim.parked[i] = c} = Spots(lim.parked, {c})
        BY <3>2, <3>3
      <4> QED BY <4>1 DEF Places, Hits
    <3>6. Places(c) = One(Queued(c))
      BY <3>1, <3>4, <3>5
    <3>7. ToSet(lim.waiting) = Elems(lim.waiting) /\ ToSet(lim.parked) = Elems(lim.parked)
      BY <3>2, ToSetIs
    <3>8. InLine(lim, c) > 0 <=> c \in Elems(lim.waiting) \cup Elems(lim.parked)
      BY <3>4
    <3> QED BY <3>1, <3>6, <3>7, <3>8 DEF One
  <2> QED BY <2>2, <2>3 DEF SlotsMatch, Ran
<1> QED BY <1>1, <1>2, <1>3, PTL DEF Spec
=============================================================================
