----------------------------- MODULE ViewsProofs -----------------------------
(***************************************************************************)
(* Proofs about Views, for any clients, any ring and any lengths of        *)
(* records.                                                                *)
(***************************************************************************)
EXTENDS Views, FilterProofs

-----------------------------------------------------------------------------
(* The log and what its markers and slices are.                             *)
Records == [kind : Kind, len : Nat, off : Nat, at : Nat]
TagSet  == [at : Nat, t : {"resize", "dead", "first", "last"}, req : Nat]

KindOf(t) == IF t \in {"first", "last"} THEN "slice" ELSE "marker"

(* Records tile the log from its beginning to the head, and so do the       *)
(* offsets of their bytes; the tail is a boundary.                          *)
LogInv ==
  /\ log \subseteq Records /\ head \in Nat /\ tail \in Nat
  /\ tail \in Starts /\ tail <= head
  /\ End \in Nat /\ Ends = {End}
  /\ \A r \in log : EndOf(r) <= head /\ OffAfter(r) <= End
  /\ \A r, q \in log : r.at < q.at => EndOf(r) <= q.at /\ OffAfter(r) <= q.off
  /\ \A r, q \in log : r.at = q.at => r = q

(* Each marker and each slice has one tag.                                  *)
TagInv ==
  /\ tags \subseteq TagSet
  /\ \A a \in tags : \E r \in log : r.at = a.at /\ r.kind = KindOf(a.t)
  /\ \A a, b \in tags : a.at = b.at => a = b
  /\ \A r \in log : r.kind \in {"slice", "marker"} => \E a \in tags : a.at = r.at

(* What a step does to the log.                                             *)
LogStep ==
  \/ UNCHANGED <<ring, tags>>
  \/ Publish("bytes", BytesLen) /\ UNCHANGED tags
  \/ \E t \in {"resize", "dead"} : Publish("marker", MarkLen) /\ Tagged(t, 0)
  \/ \E t \in {"first", "last"} : Publish("slice", SliceLen) /\ Tagged(t, serving.req)
  \/ \E to \in Starts : Release(to) /\ UNCHANGED tags

(* A step of the views that writes, delivers and answers nothing.           *)
Quiet == UNCHANGED <<ring, pane, delivery, open, dead, owners, events>>

(* The states that decide() and open() leave a view in.                     *)
SkipState(c) ==
  [At(c) EXCEPT !.view.blocked = FALSE, !.view.coff = End, !.view.wanted = "screen",
                !.mirror = Skipped(@, view[c].coff)]
ClearState(c) == [At(c) EXCEPT !.view.blocked = FALSE]
PlaceState(c) ==
  [At(c) EXCEPT !.view.blocked = FALSE, !.view.cpos = IF @ < tail THEN tail ELSE @]
FreshState(c, history) ==
  [At(c) EXCEPT !.view.stage = "live", !.view.cpos = tail, !.view.coff = End,
                !.view.history = history]
ResumedState(c, history, off) ==
  [FreshState(c, history) EXCEPT
     !.view.cpos = ResumeAt(off), !.view.coff = off, !.mirror.off = off,
     !.mirror.mark = ResumeAt(off),
     !.mirror.missed = \E r \in Between(0, tail) : r.kind = "marker" /\ off <= r.off]
WantedState(c, history) == [At(c) EXCEPT !.view.wanted = history]

(* A request is made; one is made when the pane is gone, and all fail.      *)
Request == Mint /\ requests' = OneMore
GivenUp == Mint /\ Failure(<<>>, OneMore, events)

(* A client asks, and the pane does nothing else.                           *)
Asks(c, history, s) == Ask(c, history, s) /\ UNCHANGED load

(* What decide() does.                                                      *)
DecidesAs(c) ==
  \/ Quiet /\ UNCHANGED conns /\ pc' = Rest
  \/ Pumpable(c) /\ view[c].wanted # "-" /\ Asks(c, view[c].wanted, At(c)) /\ pc' = Rest
  \/ /\ Pumpable(c) /\ view[c].wanted = "-" /\ pc' = Rest
     /\ \E s \in Sent(SkipState(c)) :
          \/ s.waiting /\ Set(c, s) /\ Quiet
          \/ ~s.waiting /\ Asks(c, "screen", s)
  \/ /\ Pumpable(c) /\ view[c].wanted = "-" /\ pc' = Rest
     /\ \E history \in {view[c].history, "screen"} : Asks(c, history, ClearState(c))
  \/ /\ Pumpable(c) /\ view[c].wanted = "-" /\ pc' = [pc EXCEPT !.at = "resume"]
     /\ ~Behind(view[c].cpos) /\ Set(c, PlaceState(c)) /\ Quiet

(* decide() falls into the cases of DecidesAs.                              *)
LEMMA DecidesCases ==
  ASSUME Decides
  PROVE  pc.at = "decide" /\ UNCHANGED dispatching /\ DecidesAs(pc.client)
<1> DEFINE c == pc.client
<1>1. pc.at = "decide" /\ PumpLive(c) /\ UNCHANGED dispatching
  BY DEF Decides
<1> HIDE DEF c
<1>2. DecidesAs(c)
  <2>1. CASE ~Pumpable(c) /\ pc' = Rest
             /\ UNCHANGED <<ring, pane, delivery, open, dead, owners, events, conns>>
    BY <2>1 DEF DecidesAs, Quiet
  <2>2. CASE Pumpable(c) /\ view[c].wanted # "-" /\ pc' = Rest
             /\ Ask(c, view[c].wanted, At(c)) /\ UNCHANGED load
    BY <2>2 DEF DecidesAs, Asks
  <2>3. CASE /\ Pumpable(c) /\ view[c].wanted = "-"
             /\ CASE Decision(c) = "skip" -> Skip(c) /\ pc' = Rest
                  [] Decision(c) = "snapshot" ->
                       /\ pc' = Rest /\ UNCHANGED load
                       /\ Ask(c, IF Behind(view[c].cpos) THEN view[c].history ELSE "screen",
                              [At(c) EXCEPT !.view.blocked = FALSE])
                  [] Decision(c) = "resume" ->
                       /\ pc' = [pc EXCEPT !.at = "resume"]
                       /\ Set(c, [At(c) EXCEPT !.view.blocked = FALSE,
                                    !.view.cpos = IF @ < tail THEN tail ELSE @])
                       /\ UNCHANGED <<ring, pane, delivery, open, dead, owners, events>>
    <3>1. Decision(c) \in {"skip", "snapshot", "resume"}
      BY DEF Decision
    <3>2. CASE Decision(c) = "skip"
      <4>1. Skip(c) /\ pc' = Rest
        BY <2>3, <3>2
      <4>2. PICK s \in Sent(SkipState(c)) :
               IF s.waiting
               THEN /\ Set(c, s)
                    /\ UNCHANGED <<ring, pane, delivery, open, dead, owners, events>>
               ELSE Ask(c, "screen", s) /\ UNCHANGED load
        BY <4>1, Zenon DEF Skip, SkipState
      <4>3. (s.waiting /\ Set(c, s) /\ Quiet) \/ (~s.waiting /\ Asks(c, "screen", s))
        <5>1. CASE s.waiting
          <6>1. Set(c, s) /\ UNCHANGED <<ring, pane, delivery, open, dead, owners, events>>
            BY <4>2, <5>1, Zenon
          <6>2. Quiet
            BY <6>1 DEF Quiet
          <6> QED BY <5>1, <6>1, <6>2, Zenon
        <5>2. CASE ~s.waiting
          <6>1. Ask(c, "screen", s) /\ UNCHANGED load
            BY <4>2, <5>2, Zenon
          <6> QED BY <5>2, <6>1, Zenon DEF Asks
        <5> QED BY <5>1, <5>2, Zenon
      <4> QED BY <2>3, <4>1, <4>2, <4>3, Zenon DEF DecidesAs
    <3>3. CASE Decision(c) = "snapshot"
      <4>1. /\ pc' = Rest /\ UNCHANGED load
            /\ Ask(c, IF Behind(view[c].cpos) THEN view[c].history ELSE "screen",
                   [At(c) EXCEPT !.view.blocked = FALSE])
        BY <2>3, <3>3
      <4>2. \E history \in {view[c].history, "screen"} : Asks(c, history, ClearState(c))
        BY <4>1, Zenon DEF Asks, ClearState
      <4> QED BY <2>3, <4>1, <4>2, Zenon DEF DecidesAs
    <3>4. CASE Decision(c) = "resume"
      <4>1. ~Behind(view[c].cpos)
        BY <3>4 DEF Decision
      <4> QED BY <2>3, <3>4, <4>1 DEF DecidesAs, PlaceState, Quiet
    <3> QED BY <3>1, <3>2, <3>3, <3>4
  <2> QED BY <1>1, <2>1, <2>2, <2>3, Zenon DEF PumpLive
<1> QED BY <1>1, <1>2 DEF c

(* What open() does.                                                        *)
OpensAs(c) ==
  \E history \in Histories :
    \/ Asks(c, history, FreshState(c, history)) /\ UNCHANGED pc
    \/ \E off \in Oldest .. End :
         Set(c, ResumedState(c, history, off)) /\ Decide(c) /\ Quiet

(* open() falls into the cases of OpensAs.                                  *)
LEMMA OpenCases ==
  ASSUME NEW c, Open(c)
  PROVE  Idle /\ open /\ view[c].stage = "new" /\ UNCHANGED dispatching /\ OpensAs(c)
<1>1. PICK history \in Histories :
         \/ Ask(c, history, FreshState(c, history)) /\ UNCHANGED <<load, pc>>
         \/ \E off \in Oldest .. End :
               /\ Set(c, ResumedState(c, history, off))
               /\ Decide(c)
               /\ UNCHANGED <<ring, pane, delivery, open, dead, owners, events>>
  BY Zenon DEF Open, FreshState, ResumedState
<1>2. OpensAs(c)
  BY <1>1 DEF OpensAs, Asks, Quiet
<1> QED BY <1>2 DEF Open

(* What a resync does.                                                      *)
LEMMA ResyncCases ==
  ASSUME NEW c, NEW history, Resync(c, history)
  PROVE  /\ Idle /\ view[c].stage \in {"live", "snapshotting"} /\ Use("resync")
         /\ UNCHANGED <<dispatching, pc>>
         /\ \/ Live(c) /\ ~waiting[c] /\ Ask(c, history, WantedState(c, history))
            \/ /\ ~(Live(c) /\ ~waiting[c]) /\ Set(c, WantedState(c, history))
               /\ UNCHANGED <<ring, asks, serving, frames, full, life, tags,
                              delivery, open, dead, owners, events>>
BY Zenon DEF Resync, WantedState

(* A client that asks for a snapshot leaves the log alone.                  *)
LEMMA AskLog ==
  ASSUME NEW c, NEW history, NEW s, Ask(c, history, s)
  PROVE  UNCHANGED <<ring, tags>>
BY DEF Ask, Failure

(* Only the pane writes, and only a scan releases.                          *)
LEMMA NextLog == ASSUME [Next]_vars PROVE LogStep
<1> USE DEF LogStep
<1>1. CASE UNCHANGED vars
  BY <1>1 DEF vars, pane
<1>2. CASE PaneWrites
  BY <1>2 DEF PaneWrites
<1>3. CASE PaneResizes
  BY <1>3 DEF PaneResizes
<1>4. CASE PaneExits
  BY <1>4 DEF PaneExits
<1>5. CASE PaneCrashes
  BY <1>5 DEF PaneCrashes
<1>6. CASE PaneStep
  <2>1. CASE PaneBegins
    BY <2>1 DEF PaneBegins
  <2>2. CASE PaneSlices
    BY <2>2 DEF PaneSlices
  <2>3. CASE PaneFull
    BY <2>3 DEF PaneFull
  <2> QED BY <1>6, <2>1, <2>2, <2>3 DEF PaneStep
<1>7. CASE ServerStep
  <2>1. CASE HandOver
    BY <2>1 DEF HandOver, pane
  <2>2. CASE EndScan
    <3>1. UNCHANGED tags /\ Advance(Keep(pc.upper))
      BY <2>2 DEF EndScan
    <3>2. UNCHANGED ring \/ \E to \in Starts : Release(to)
      BY <3>1 DEF Advance
    <3> QED BY <3>1, <3>2
  <2>3. CASE EndDone
    BY <2>3 DEF EndDone, pane
  <2>4. CASE ReadFrame
    BY <2>4 DEF ReadFrame
  <2>5. CASE ReadEnd
    BY <2>5 DEF ReadEnd, pane
  <2>6. CASE Scan
    BY <2>6 DEF Scan, pane
  <2>7. CASE TakeEvent
    BY <2>7 DEF TakeEvent, pane
  <2>8. ASSUME NEW c \in Clients, Pump(c) PROVE LogStep
    BY <2>8 DEF Pump, pane
  <2>9. CASE Decides
    <3>1. DecidesAs(pc.client)
      BY <2>9, DecidesCases
    <3>2. Quiet => UNCHANGED <<ring, tags>>
      BY DEF Quiet, pane
    <3> QED BY <3>1, <3>2, AskLog, Zenon DEF DecidesAs, Asks
  <2>10. CASE Resume
    BY <2>10 DEF Resume, pane
  <2> QED BY <1>7, <2>1, <2>2, <2>3, <2>4, <2>5, <2>6, <2>7, <2>8, <2>9, <2>10 DEF ServerStep
<1>8. ASSUME NEW c \in Clients, Writable(c) \/ Open(c) \/ Leave(c) PROVE LogStep
  <2>1. CASE Writable(c) \/ Leave(c)
    BY <2>1 DEF Writable, Leave, pane
  <2>2. CASE Open(c)
    <3>1. OpensAs(c)
      BY <2>2, OpenCases
    <3>2. Quiet => UNCHANGED <<ring, tags>>
      BY DEF Quiet, pane
    <3> QED BY <3>1, <3>2, AskLog, Zenon DEF OpensAs, Asks
  <2> QED BY <1>8, <2>1, <2>2
<1>9. ASSUME NEW c \in Clients, NEW history \in Histories, Resync(c, history) PROVE LogStep
  BY <1>9, AskLog DEF Resync, pane
<1> QED BY <1>1, <1>2, <1>3, <1>4, <1>5, <1>6, <1>7, <1>8, <1>9 DEF Next

-----------------------------------------------------------------------------
(* The record that a publication adds.                                      *)
NewRecord(kind, len) == [kind |-> kind, len |-> len, off |-> End, at |-> head]

(* The lengths that the pane writes are positive.                           *)
LEMMA Lengths ==
  Header \in Nat \ {0} /\ BytesLen \in Nat \ {0} /\ MarkLen \in Nat \ {0} /\ SliceLen \in Nat \ {0}
BY FormatAssumption, ViewsAssumption

(* The log is empty at first.                                               *)
LEMMA InitLog == ASSUME Init PROVE LogInv /\ TagInv
<1>1. log = {} /\ head = 0 /\ tail = 0 /\ tags = {}
  BY DEF Init, LogInit
<1>2. Ends = {0}
  BY <1>1 DEF Ends
<1>3. End = 0
  BY <1>2 DEF End
<1> QED BY <1>1, <1>2, <1>3 DEF LogInv, TagInv, Starts

(* A publication puts one record behind all others.                         *)
LEMMA PublishAdds ==
  ASSUME LogInv, NEW kind \in Kind, NEW len \in Nat, Publish(kind, len)
  PROVE  /\ NewRecord(kind, len) \in Records
         /\ log' = log \cup {NewRecord(kind, len)}
         /\ head' = EndOf(NewRecord(kind, len)) /\ head' \in Nat /\ head < head' /\ tail' = tail
         /\ Ends' = {OffAfter(NewRecord(kind, len))} /\ End' = OffAfter(NewRecord(kind, len))
         /\ End' \in Nat /\ End <= End'
         /\ Starts' = Starts \cup {head'}
         /\ LogInv'
<1> DEFINE n == NewRecord(kind, len)
<1>0. Header \in Nat \ {0} /\ End \in Nat /\ Ends = {End} /\ head \in Nat /\ log \subseteq Records
  BY Lengths DEF LogInv
<1>1. log' = log \cup {n} /\ head' = head + Header + len /\ tail' = tail
  BY <1>0 DEF Publish, NewRecord
<1>2. /\ n \in Records /\ n.at = head /\ n.off = End /\ n.len = len /\ n.kind = kind
      /\ EndOf(n) = head' /\ head' \in Nat /\ head < head'
      /\ OffAfter(n) \in Nat /\ End <= OffAfter(n)
  BY <1>0, <1>1 DEF NewRecord, Records, EndOf, OffAfter
<1> HIDE DEF n
<1>3. \A r \in log : /\ r \in Records /\ r.at \in Nat /\ r.at < head /\ EndOf(r) <= head
                     /\ OffAfter(r) <= End /\ OffAfter(r) \in Nat /\ EndOf(r) \in Nat
  BY <1>0 DEF LogInv, Records, EndOf, OffAfter
<1>4. {q \in log' : EndOf(q) = head'} = {n}
  <2>1. \A q \in log : EndOf(q) # head'
    BY <1>0, <1>2, <1>3
  <2> QED BY <1>1, <1>2, <2>1
<1>5. log' # {} /\ Ends' = {OffAfter(n)}
  <2>1. Ends' = IF log' = {} THEN {0} ELSE {OffAfter(r) : r \in {q \in log' : EndOf(q) = head'}}
    BY DEF Ends, EndOf, OffAfter
  <2> QED BY <1>1, <1>4, <2>1
<1>6. End' = OffAfter(n)
  <2>1. End' = CHOOSE off \in Ends' : TRUE
    BY DEF End
  <2> QED BY <1>5, <2>1
<1>7. Starts' = Starts \cup {head'}
  BY <1>1, <1>2 DEF Starts
<1>8. tail' \in Nat /\ tail' \in Starts' /\ tail' <= head'
  BY <1>1, <1>2, <1>7 DEF LogInv
<1>9. log' \subseteq Records /\ \A r \in log' : EndOf(r) <= head' /\ OffAfter(r) <= End'
  BY <1>0, <1>1, <1>2, <1>3, <1>6
<1>10. \A r, q \in log' : r.at < q.at => EndOf(r) <= q.at /\ OffAfter(r) <= q.off
  <2> SUFFICES ASSUME NEW r \in log', NEW q \in log', r.at < q.at
               PROVE  EndOf(r) <= q.at /\ OffAfter(r) <= q.off
    OBVIOUS
  <2>1. r \in log
    <3>1. \A p \in log' : p.at <= head /\ p.at \in Nat
      BY <1>0, <1>1, <1>2, <1>3
    <3> QED BY <1>0, <1>1, <1>2, <3>1
  <2>2. CASE q \in log
    BY <2>1, <2>2 DEF LogInv
  <2>3. CASE q = n
    BY <1>2, <1>3, <2>1, <2>3
  <2> QED BY <1>1, <2>2, <2>3
<1>11. \A r, q \in log' : r.at = q.at => r = q
  BY <1>1, <1>2, <1>3 DEF LogInv
<1>12. LogInv'
  BY <1>2, <1>5, <1>6, <1>8, <1>9, <1>10, <1>11 DEF LogInv, EndOf, OffAfter
<1> QED BY <1>1, <1>2, <1>5, <1>6, <1>7, <1>12 DEF n

(* A release moves the tail to a later boundary.                            *)
LEMMA ReleaseMoves ==
  ASSUME LogInv, NEW to \in Starts, Release(to)
  PROVE  /\ log' = log /\ head' = head /\ tail' = to /\ tail < to /\ to <= head
         /\ End' = End /\ Starts' = Starts /\ LogInv'
<1>1. log' = log /\ head' = head /\ tail' = to /\ to <= head /\ tail < to
  BY DEF Release
<1>2. Ends' = Ends /\ Starts' = Starts
  BY <1>1 DEF Ends, Starts
<1>3. End' = End
  BY <1>2 DEF End
<1>4. to \in Nat
  BY DEF LogInv, Starts, Records
<1> QED BY <1>1, <1>2, <1>3, <1>4 DEF LogInv

(* The log that nobody touches.                                             *)
LEMMA SameLog ==
  ASSUME UNCHANGED ring
  PROVE  /\ log' = log /\ head' = head /\ tail' = tail /\ Ends' = Ends /\ End' = End
         /\ Starts' = Starts /\ (LogInv => LogInv')
<1>1. log' = log /\ head' = head /\ tail' = tail
  BY DEF ring
<1>2. Ends' = Ends /\ Starts' = Starts
  BY <1>1 DEF Ends, Starts
<1>3. End' = End
  BY <1>2 DEF End
<1> QED BY <1>1, <1>2, <1>3 DEF LogInv

(* The records go on tiling the log.                                        *)
LEMMA StepLog == ASSUME LogInv, LogStep PROVE LogInv'
<1>1. \A kind \in Kind, len \in Nat : Publish(kind, len) => LogInv'
  BY PublishAdds
<1>2. BytesLen \in Nat /\ MarkLen \in Nat /\ SliceLen \in Nat /\ {"bytes", "marker", "slice"} \subseteq Kind
  BY Lengths DEF Kind
<1>3. CASE UNCHANGED ring
  BY <1>3, SameLog
<1> QED BY <1>1, <1>2, <1>3, ReleaseMoves DEF LogStep

(* A record that gets a tag gets it when it is published.                   *)
LEMMA TagAdds ==
  ASSUME LogInv, TagInv, NEW t \in {"resize", "dead", "first", "last"}, NEW req \in Nat,
         NEW len \in Nat, Publish(KindOf(t), len), Tagged(t, req)
  PROVE  TagInv'
<1> DEFINE n == NewRecord(KindOf(t), len)
           a == [at |-> head, t |-> t, req |-> req]
<1>1. KindOf(t) \in Kind
  BY DEF KindOf, Kind
<1>2. log' = log \cup {n} /\ n.at = head /\ n.kind = KindOf(t) /\ head \in Nat
  BY <1>1, PublishAdds DEF NewRecord, LogInv
<1>3. tags' = tags \cup {a} /\ a \in TagSet /\ a.at = head /\ a.t = t
  BY <1>2 DEF Tagged, TagSet
<1> HIDE DEF n, a
<1>4. \A r \in log : r.at < head
  BY Lengths DEF LogInv, Records, EndOf
<1>5. \A b \in tags : b.at < head
  BY <1>4 DEF TagInv
<1> QED BY <1>2, <1>3, <1>4, <1>5 DEF TagInv

(* Markers and slices go on having one tag each.                            *)
LEMMA StepTags == ASSUME LogInv, TagInv, serving.req \in Nat, LogStep PROVE TagInv'
<1>1. BytesLen \in Nat /\ MarkLen \in Nat /\ SliceLen \in Nat /\ {"bytes", "marker", "slice"} \subseteq Kind
  BY Lengths DEF Kind
<1>2. CASE UNCHANGED <<ring, tags>>
  BY <1>2, SameLog DEF TagInv
<1>3. CASE Publish("bytes", BytesLen) /\ UNCHANGED tags
  <2>1. log' = log \cup {NewRecord("bytes", BytesLen)}
    BY <1>1, <1>3, PublishAdds
  <2> QED BY <1>3, <2>1 DEF TagInv, NewRecord
<1>4. ASSUME NEW t \in {"resize", "dead"}, Publish("marker", MarkLen), Tagged(t, 0) PROVE TagInv'
  <2>1. KindOf(t) = "marker" /\ t \in {"resize", "dead", "first", "last"} /\ 0 \in Nat
    BY DEF KindOf
  <2> QED BY <1>1, <1>4, <2>1, TagAdds
<1>5. ASSUME NEW t \in {"first", "last"}, Publish("slice", SliceLen), Tagged(t, serving.req)
      PROVE  TagInv'
  <2>1. KindOf(t) = "slice" /\ t \in {"resize", "dead", "first", "last"}
    BY DEF KindOf
  <2> QED BY <1>1, <1>5, <2>1, TagAdds
<1>6. ASSUME NEW to \in Starts, Release(to), UNCHANGED tags PROVE TagInv'
  BY <1>6, ReleaseMoves DEF TagInv
<1> QED BY <1>2, <1>3, <1>4, <1>5, <1>6 DEF LogStep

-----------------------------------------------------------------------------
(* The other variables, and what the pane asks and is asked.                *)
Waits    == [serial : Nat, at : Nat, slices : Nat]
EventSet == [t : {"done", "failed"}, serial : Nat, hold : Nat \cup {NoHold}, slices : Nat]
FrameSet == [t : {"dead", "done", "full"}, req : Nat]
PcSet    == [at : {"rest", "deliver", "decide", "resume"}, client : Clients \cup {None},
             upper : Nat, then : Nat]
Asked    == {"-", "screen", "all"}
Stages   == {"new", "live", "snapshotting", "closed"}
ViewSet  == [stage : Stages, serial : Nat, got : Nat, cpos : Nat, coff : Nat,
             blocked : BOOLEAN, history : Asked, wanted : Asked]

PaneTypes ==
  /\ asks \in Seq(Nat) /\ serving \in [req : Nat, left : Nat]
  /\ frames \in Seq(FrameSet) /\ life \in {"running", "exited", "gone"}
DeliveryTypes ==
  /\ requests \in Seq(Waits) /\ finished \in Seq(Waits)
  /\ delivered \in Nat /\ count \in Nat /\ next \in Nat \ {0}
ServerTypes ==
  /\ open \in BOOLEAN /\ dead \in BOOLEAN
  /\ owners \subseteq (1 .. next - 1) \X Clients
  /\ events \in Seq(EventSet)
PcTypes == pc \in PcSet /\ (pc.at \in {"decide", "resume"} => pc.client \in Clients)
ViewTypes == view \in [Clients -> ViewSet] /\ waiting \in [Clients -> BOOLEAN]
MirrorMap == mirror = [c \in Clients |-> mirror[c]]
Types == PaneTypes /\ DeliveryTypes /\ ServerTypes /\ PcTypes /\ ViewTypes /\ MirrorMap

(* The view, the output and the client's copy, as At shows them.            *)
State(v, w, m) == [view |-> v, waiting |-> w, mirror |-> m]

(* The views and the copies that these states have.                         *)
ClosedView(v)  == [v EXCEPT !.stage = "closed"]
Ended(m, why)  == [m EXCEPT !.end = why]
ClosedState(v, m, why) == State(ClosedView(v), FALSE, Ended(m, why))
ClearView(c)   == [view[c] EXCEPT !.blocked = FALSE]
SkipView(c)    == [view[c] EXCEPT !.blocked = FALSE, !.coff = End, !.wanted = "screen"]
PlaceView(c)   ==
  [view[c] EXCEPT !.blocked = FALSE,
                  !.cpos = IF view[c].cpos < tail THEN tail ELSE view[c].cpos]
FreshView(c, history) ==
  [view[c] EXCEPT !.stage = "live", !.cpos = tail, !.coff = End, !.history = history]
ResumedView(c, history, off) ==
  [view[c] EXCEPT !.stage = "live", !.cpos = ResumeAt(off), !.coff = off, !.history = history]
ResumedMirror(c, off, missed) ==
  [mirror[c] EXCEPT !.off = off, !.mark = ResumeAt(off), !.missed = missed]
WantedView(c, history) == [view[c] EXCEPT !.wanted = history]

(* A send may leave the output waiting, and never clears it.                *)
Late(w) == {w, TRUE}

(* A record of the one value that its fields may have.                      *)
LEMMA StateIs ==
  ASSUME NEW v, NEW w, NEW m, NEW s \in [view : {v}, waiting : {w}, mirror : {m}]
  PROVE  s = State(v, w, m)
BY DEF State

(* A state is a record of its three fields.                                 *)
LEMMA IsState ==
  ASSUME NEW v, NEW w, NEW m
  PROVE  State(v, w, m) \in [view : {v}, waiting : {w}, mirror : {m}]
BY DEF State

(* The states that the operations leave a client in, field by field.        *)
LEMMA AtIs == \A c : At(c) = State(view[c], waiting[c], mirror[c])
BY DEF At, State

(* The state that a close leaves.                                           *)
LEMMA ClosedIs ==
  ASSUME NEW v, NEW w, NEW m, NEW why
  PROVE  Closed(State(v, w, m), why)
           = ClosedState(v, m, why)
<1>1. PICK s : s = State(v, w, m) /\ s \in [view : {v}, waiting : {w}, mirror : {m}]
  BY IsState
<1>2. PICK t : t = Closed(s, why)
  OBVIOUS
<1>3. t \in [view : {ClosedView(v)}, waiting : {FALSE}, mirror : {Ended(m, why)}]
  BY <1>1, <1>2 DEF Closed, ClosedView, Ended
<1> QED BY <1>1, <1>2, <1>3, StateIs DEF ClosedState

(* The states that a send may leave.                                        *)
LEMMA SentIs ==
  ASSUME NEW v, NEW w, NEW m
  PROVE  \A s \in Sent(State(v, w, m)) :
           \E late \in Late(w) : s = State(v, late, m)
BY DEF Sent, State, Late

(* The state of a view that is to ask.                                      *)
LEMMA ClearStateIs ==
  ASSUME NEW c
  PROVE  ClearState(c) = State(ClearView(c), waiting[c], mirror[c])
<1>1. PICK s : s = At(c) /\ s \in [view : {view[c]}, waiting : {waiting[c]}, mirror : {mirror[c]}]
  BY AtIs, IsState
<1>2. PICK t : t = ClearState(c)
  OBVIOUS
<1>3. t \in [view : {ClearView(c)}, waiting : {waiting[c]}, mirror : {mirror[c]}]
  BY <1>1, <1>2 DEF ClearState, ClearView
<1> QED BY <1>2, <1>3, StateIs

(* The state of a view that skips.                                          *)
LEMMA SkipStateIs ==
  ASSUME NEW c
  PROVE  SkipState(c) = State(SkipView(c), waiting[c], Skipped(mirror[c], view[c].coff))
<1>1. PICK s : s = At(c) /\ s \in [view : {view[c]}, waiting : {waiting[c]}, mirror : {mirror[c]}]
  BY AtIs, IsState
<1>2. PICK t : t = SkipState(c)
  OBVIOUS
<1>3. t \in [view : {SkipView(c)}, waiting : {waiting[c]}, mirror : {Skipped(mirror[c], view[c].coff)}]
  BY <1>1, <1>2 DEF SkipState, SkipView
<1> QED BY <1>2, <1>3, StateIs

(* The state of a view that is to resume.                                   *)
LEMMA PlaceStateIs ==
  ASSUME NEW c \in Clients, ViewTypes
  PROVE  PlaceState(c) = State(PlaceView(c), waiting[c], mirror[c])
<1>1. PICK s : s = At(c) /\ s \in [view : {view[c]}, waiting : {waiting[c]}, mirror : {mirror[c]}]
  BY AtIs, IsState
<1>2. PICK t : t = PlaceState(c)
  OBVIOUS
<1>3. t \in [view : {PlaceView(c)}, waiting : {waiting[c]}, mirror : {mirror[c]}]
  BY <1>1, <1>2 DEF PlaceState, PlaceView, ViewTypes, ViewSet
<1> QED BY <1>2, <1>3, StateIs

(* The state of a view that was just opened.                                *)
LEMMA FreshStateIs ==
  ASSUME NEW c, NEW history
  PROVE  FreshState(c, history) = State(FreshView(c, history), waiting[c], mirror[c])
<1>1. PICK s : s = At(c) /\ s \in [view : {view[c]}, waiting : {waiting[c]}, mirror : {mirror[c]}]
  BY AtIs, IsState
<1>2. PICK t : t = FreshState(c, history)
  OBVIOUS
<1>3. t \in [view : {FreshView(c, history)}, waiting : {waiting[c]}, mirror : {mirror[c]}]
  BY <1>1, <1>2 DEF FreshState, FreshView
<1> QED BY <1>2, <1>3, StateIs

(* The state of a view whose client wants a snapshot.                       *)
LEMMA WantedStateIs ==
  ASSUME NEW c, NEW history
  PROVE  WantedState(c, history) = State(WantedView(c, history), waiting[c], mirror[c])
<1>1. PICK s : s = At(c) /\ s \in [view : {view[c]}, waiting : {waiting[c]}, mirror : {mirror[c]}]
  BY AtIs, IsState
<1>2. PICK t : t = WantedState(c, history)
  OBVIOUS
<1>3. t \in [view : {WantedView(c, history)}, waiting : {waiting[c]}, mirror : {mirror[c]}]
  BY <1>1, <1>2 DEF WantedState, WantedView
<1> QED BY <1>2, <1>3, StateIs

(* The state of a view that was opened at an offset.                        *)
LEMMA ResumedStateIs ==
  ASSUME NEW c, NEW history, NEW off
  PROVE  \E missed \in BOOLEAN :
           ResumedState(c, history, off)
             = State(ResumedView(c, history, off), waiting[c], ResumedMirror(c, off, missed))
<1> DEFINE missed == \E r \in Between(0, tail) : r.kind = "marker" /\ off <= r.off
<1>1. PICK s : /\ s = FreshState(c, history)
               /\ s \in [view : {FreshView(c, history)}, waiting : {waiting[c]}, mirror : {mirror[c]}]
  BY FreshStateIs, IsState
<1>2. PICK t : t = ResumedState(c, history, off)
  OBVIOUS
<1>3. [FreshView(c, history) EXCEPT !.cpos = ResumeAt(off), !.coff = off] = ResumedView(c, history, off)
  BY DEF FreshView, ResumedView
<1>4. t = [s EXCEPT !.view = [FreshView(c, history) EXCEPT !.cpos = ResumeAt(off), !.coff = off],
                    !.mirror = ResumedMirror(c, off, missed)]
  BY <1>1, <1>2 DEF ResumedState, ResumedMirror
<1> HIDE DEF missed
<1>5. t \in [view : {ResumedView(c, history, off)}, waiting : {waiting[c]},
             mirror : {ResumedMirror(c, off, missed)}]
  BY <1>1, <1>3, <1>4
<1>6. t = State(ResumedView(c, history, off), waiting[c], ResumedMirror(c, off, missed))
  BY <1>5, StateIs
<1>7. missed \in BOOLEAN
  BY DEF missed
<1> QED BY <1>2, <1>6, <1>7, Zenon

(* A view that asks.                                                        *)
AskedView(v, history) ==
  [v EXCEPT !.stage = "snapshotting", !.serial = next, !.got = 0, !.history = history,
            !.wanted = "-"]

(* A client that asks: the pane is asked, or gives the view up.             *)
LEMMA AskCases ==
  ASSUME NEW c, NEW history, NEW v, NEW w, NEW m, Ask(c, history, State(v, w, m))
  PROVE  /\ UNCHANGED <<ring, serving, frames, full, life, tags, dead>>
         /\ \/ /\ open /\ life # "gone" /\ Request
               /\ asks' = Append(asks, next) /\ owners' = owners \cup {<<next, c>>}
               /\ Set(c, State(AskedView(v, history), w, m))
               /\ UNCHANGED <<finished, count, open, events>>
            \/ /\ ~open \/ life = "gone"
               /\ Set(c, ClosedState(v, m, "rejected"))
               /\ \/ open /\ GivenUp
                  \/ ~open /\ UNCHANGED <<delivery, open, events>>
               /\ UNCHANGED <<asks, owners>>
<1>1. CASE open /\ life # "gone"
  <2>1. /\ Request /\ asks' = Append(asks, next) /\ owners' = owners \cup {<<next, c>>}
        /\ Set(c, [State(v, w, m) EXCEPT !.view.stage = "snapshotting", !.view.serial = next,
                     !.view.got = 0, !.view.history = history, !.view.wanted = "-"])
        /\ UNCHANGED <<ring, serving, frames, full, life, tags, finished, count,
                      open, dead, events>>
    BY <1>1, Zenon DEF Ask, Request
  <2>2. PICK s : s = State(v, w, m) /\ s \in [view : {v}, waiting : {w}, mirror : {m}]
    BY IsState
  <2>3. PICK t : t = [s EXCEPT !.view.stage = "snapshotting", !.view.serial = next,
                        !.view.got = 0, !.view.history = history, !.view.wanted = "-"]
    OBVIOUS
  <2>4. t \in [view : {AskedView(v, history)}, waiting : {w}, mirror : {m}]
    BY <2>2, <2>3 DEF AskedView
  <2>5. t = State(AskedView(v, history), w, m)
    BY <2>4, StateIs
  <2>6. Set(c, State(AskedView(v, history), w, m))
    BY <2>1, <2>2, <2>3, <2>5, Zenon
  <2> QED BY <1>1, <2>1, <2>6
<1>2. CASE ~(open /\ life # "gone")
  <2>1. /\ Set(c, Closed(State(v, w, m), "rejected"))
        /\ \/ open /\ GivenUp
           \/ ~open /\ UNCHANGED <<delivery, open, dead, events>>
        /\ UNCHANGED <<ring, asks, serving, frames, full, life, tags, owners>>
    BY <1>2, Zenon DEF Ask, GivenUp
  <2>2. Set(c, ClosedState(v, m, "rejected"))
    <3>1. Closed(State(v, w, m), "rejected")
            = ClosedState(v, m, "rejected")
      BY ClosedIs, Zenon
    <3>2. Set(c, Closed(State(v, w, m), "rejected"))
      BY <2>1
    <3> QED BY <3>1, <3>2, Zenon
  <2>3. UNCHANGED <<ring, serving, frames, full, life, tags>> /\ UNCHANGED <<asks, owners>>
    BY <2>1
  <2>4. UNCHANGED dead /\ (\/ open /\ GivenUp
                           \/ ~open /\ UNCHANGED <<delivery, open, events>>)
    <3>1. CASE open
      <4>1. GivenUp
        BY <2>1, <3>1
      <4>2. UNCHANGED dead
        BY <4>1 DEF GivenUp, Failure
      <4> QED BY <3>1, <4>1, <4>2, Zenon
    <3>2. CASE ~open
      <4>1. UNCHANGED <<delivery, open, dead, events>>
        BY <2>1, <3>2
      <4> QED BY <3>2, <4>1
    <3> QED BY <3>1, <3>2
  <2>5. UNCHANGED <<ring, serving, frames, full, life, tags, dead>>
    BY <2>3, <2>4
  <2>6. ~open \/ life = "gone"
    BY <1>2
  <2> QED BY <2>2, <2>3, <2>4, <2>5, <2>6, Zenon
<1> QED BY <1>1, <1>2

(* One client's state changes, and no other.                                *)
LEMMA SetIs ==
  ASSUME ViewTypes, MirrorMap, NEW c \in Clients, NEW v, NEW w, NEW m, Set(c, State(v, w, m))
  PROVE  /\ view'[c] = v /\ waiting'[c] = w /\ mirror'[c] = m
         /\ \A d \in Clients : d # c => /\ view'[d] = view[d] /\ waiting'[d] = waiting[d]
                                        /\ mirror'[d] = mirror[d]
         /\ MirrorMap'
         /\ v \in ViewSet /\ w \in BOOLEAN => ViewTypes'
<1>1. /\ view' = [view EXCEPT ![c] = v] /\ waiting' = [waiting EXCEPT ![c] = w]
      /\ mirror' = [mirror EXCEPT ![c] = m]
  BY DEF Set, State
<1> QED BY <1>1 DEF ViewTypes, MirrorMap

(* The answers that a failed pane gives.                                    *)
LEMMA DoneIs ==
  ASSUME NEW x \in Waits, NEW hold \in Nat \cup {NoHold}, NEW slices \in Nat
  PROVE  /\ Done(x, hold, slices) \in EventSet
         /\ Done(x, hold, slices).t = "done" /\ Done(x, hold, slices).serial = x.serial
         /\ Done(x, hold, slices).hold = hold /\ Done(x, hold, slices).slices = slices
BY DEF Done, Waits, EventSet

(* The answers to requests whose slices are none.                           *)
LEMMA NoneIs ==
  ASSUME NEW x \in Waits
  PROVE  /\ Done(x, NoHold, 0) \in EventSet
         /\ Done(x, NoHold, 0).t = "done" /\ Done(x, NoHold, 0).serial = x.serial
BY DEF Done, Waits, EventSet

-----------------------------------------------------------------------------
(* The types of all variables.                                              *)
LEMMA FailedIs ==
  ASSUME DeliveryTypes, NEW asked \in Seq(Waits)
  PROVE  Failed(asked) \in Seq(EventSet)
<1> DEFINE all == finished \o asked
<1>1. all \in Seq(Waits) /\ Len(all) \in Nat
  BY DEF DeliveryTypes
<1> HIDE DEF all
<1>2. \A i \in 1 .. Len(all) : Done(all[i], NoHold, 0) \in EventSet
  <2> SUFFICES ASSUME NEW i \in 1 .. Len(all) PROVE Done(all[i], NoHold, 0) \in EventSet
    OBVIOUS
  <2>1. all[i] \in Waits /\ NoHold \in Nat \cup {NoHold} /\ 0 \in Nat
    BY <1>1
  <2> QED BY <2>1, DoneIs, Zenon
<1>3. [i \in 1 .. Len(all) |-> Done(all[i], NoHold, 0)] \in Seq(EventSet)
  BY <1>1, <1>2
<1>4. [t |-> "failed", serial |-> 0, hold |-> NoHold, slices |-> 0] \in EventSet
  BY DEF EventSet
<1>5. <<[t |-> "failed", serial |-> 0, hold |-> NoHold, slices |-> 0]>> \in Seq(EventSet)
  BY <1>4, ElemsOne
<1> QED BY <1>3, <1>5, ElemsConcat DEF Failed, all

(* A failure keeps the types.                                               *)
LEMMA FailureTypes ==
  ASSUME DeliveryTypes, ServerTypes, NEW before \in Seq(EventSet), NEW after \in Seq(EventSet),
         NEW asked \in Seq(Waits), Failure(before, asked, after),
         next' \in Nat \ {0}, delivered' \in Nat
  PROVE  /\ DeliveryTypes' /\ open' = FALSE /\ dead' = dead
         /\ events' \in Seq(EventSet)
<1>1. before \o Failed(asked) \o after \in Seq(EventSet)
  BY FailedIs, ElemsConcat
<1> QED BY <1>1 DEF Failure, DeliveryTypes

(* The types hold at first.                                                 *)
LEMMA InitTypes == ASSUME Init PROVE Types
<1>1. PaneTypes
  BY DEF Init, PaneTypes, NoServing
<1>2. DeliveryTypes
  BY DEF Init, DeliveryTypes
<1>6. ServerTypes
  <2>1. open = TRUE /\ dead = FALSE /\ owners = {} /\ events = <<>>
    BY Zenon DEF Init
  <2>2. <<>> \in Seq(EventSet)
    BY ElemsNone
  <2> QED BY <2>1, <2>2, Zenon DEF ServerTypes
<1>3. PcTypes
  BY DEF Init, PcTypes, PcSet, Rest
<1>4. ViewTypes
  BY DEF Init, ViewTypes, ViewSet, Stages, Asked
<1>5. MirrorMap
  BY DEF Init, MirrorMap
<1> QED BY <1>1, <1>2, <1>3, <1>4, <1>5, <1>6 DEF Types

(* A view that asks, or that is closed, is a view.                          *)
LEMMA ViewPuts ==
  ASSUME NEW v \in ViewSet
  PROVE  /\ ClosedView(v) \in ViewSet
         /\ DeliveryTypes => \A history \in Asked : AskedView(v, history) \in ViewSet
<1>1. PICK u : u = ClosedView(v)
  OBVIOUS
<1>2. u \in ViewSet
  BY <1>1 DEF ClosedView, ViewSet, Stages
<1>3. ASSUME DeliveryTypes, NEW history \in Asked PROVE AskedView(v, history) \in ViewSet
  <2>1. PICK t : t = AskedView(v, history)
    OBVIOUS
  <2>2. t \in ViewSet
    BY <1>3, <2>1 DEF AskedView, ViewSet, Stages, Asked, DeliveryTypes
  <2> QED BY <2>1, <2>2
<1> QED BY <1>1, <1>2, <1>3

(* What is below a number is below a later one.                             *)
LEMMA Below ==
  ASSUME NEW n \in Nat \ {0}, NEW m \in Nat, n <= m
  PROVE  /\ m \in Nat \ {0} /\ 0 <= m - 1
         /\ 1 .. n - 1 \subseteq 1 .. m - 1
         /\ n \notin 1 .. n - 1
         /\ \A w \in Nat : w <= 2 * (n - 1) => w <= 2 * (m - 1)
OBVIOUS

(* What a request is made of.                                               *)
LEMMA MintTypes ==
  ASSUME LogInv, DeliveryTypes, Mint
  PROVE  /\ OneMore \in Seq(Waits) /\ next' = next + 1 /\ next \in Nat \ {0}
         /\ delivered' \in {head, delivered} /\ delivered' \in Nat
<1>1. PICK r : r = [serial |-> next, at |-> head, slices |-> 0]
  OBVIOUS
<1>2. r \in Waits /\ head \in Nat
  BY <1>1 DEF Waits, LogInv, DeliveryTypes
<1>3. Append(requests, r) \in Seq(Waits)
  BY <1>2 DEF DeliveryTypes
<1>4. OneMore \in Seq(Waits)
  BY <1>1, <1>3 DEF OneMore
<1>5. delivered' \in {head, delivered} /\ next' = next + 1
  BY DEF Mint
<1> QED BY <1>2, <1>4, <1>5 DEF DeliveryTypes

(* A request keeps the types of Delivery.                                   *)
LEMMA RequestTypes ==
  ASSUME LogInv, DeliveryTypes, Request, UNCHANGED <<finished, count>>
  PROVE  DeliveryTypes'
<1>1. PICK r : r = [serial |-> next, at |-> head, slices |-> 0]
  OBVIOUS
<1>2. r \in Waits /\ head \in Nat
  BY <1>1 DEF Waits, LogInv, DeliveryTypes
<1>3. requests' = Append(requests, r) /\ next' = next + 1 /\ delivered' \in {head, delivered}
  BY <1>1 DEF Request, Mint, OneMore
<1>4. requests' \in Seq(Waits)
  BY <1>2, <1>3 DEF DeliveryTypes
<1> QED BY <1>2, <1>3, <1>4 DEF DeliveryTypes

(* A client that asks keeps the types.                                      *)
LEMMA AskTypes ==
  ASSUME LogInv, Types, NEW c \in Clients, NEW history \in Asked,
         NEW v \in ViewSet, NEW w \in BOOLEAN, NEW m, Ask(c, history, State(v, w, m))
  PROVE  (PaneTypes /\ DeliveryTypes /\ ServerTypes /\ ViewTypes /\ MirrorMap)'
<1> USE DEF Types
<1>1. UNCHANGED <<ring, serving, frames, full, life, tags, dead>>
  BY AskCases
<1>2. CASE /\ open /\ life # "gone" /\ Request
           /\ asks' = Append(asks, next) /\ owners' = owners \cup {<<next, c>>}
           /\ Set(c, State(AskedView(v, history), w, m))
           /\ UNCHANGED <<finished, count, open, events>>
  <2>1. AskedView(v, history) \in ViewSet
    BY ViewPuts
  <2>2. ViewTypes' /\ MirrorMap'
    BY <1>2, <2>1, SetIs
  <2>3. DeliveryTypes'
    BY <1>2, RequestTypes
  <2>4. PaneTypes'
    BY <1>1, <1>2 DEF PaneTypes, DeliveryTypes
  <2>5. next' = next + 1 /\ next \in Nat \ {0}
    BY <1>2 DEF Request, Mint, DeliveryTypes
  <2>6. ServerTypes'
    BY <1>1, <1>2, <2>5 DEF ServerTypes
  <2> QED BY <2>2, <2>3, <2>4, <2>6
<1>3. CASE /\ ~open \/ life = "gone"
           /\ Set(c, ClosedState(v, m, "rejected"))
           /\ \/ open /\ GivenUp
              \/ ~open /\ UNCHANGED <<delivery, open, events>>
           /\ UNCHANGED <<asks, owners>>
  <2>1. ClosedView(v) \in ViewSet
    BY ViewPuts
  <2>2. Set(c, State(ClosedView(v), FALSE, Ended(m, "rejected")))
    BY <1>3 DEF ClosedState
  <2>3. ViewTypes' /\ MirrorMap'
    <3> HIDE DEF Types
    <3>1. PICK no \in BOOLEAN : no = FALSE
      OBVIOUS
    <3>2. Set(c, State(ClosedView(v), no, Ended(m, "rejected")))
      BY <2>2, <3>1
    <3> QED BY <2>1, <3>1, <3>2, SetIs DEF Types
  <2>4. PaneTypes'
    BY <1>1, <1>3 DEF PaneTypes
  <2>5. DeliveryTypes' /\ next <= next' /\ open' \in BOOLEAN /\ events' \in Seq(EventSet)
    <3>1. CASE GivenUp
      <4>1. <<>> \in Seq(EventSet) /\ events \in Seq(EventSet)
        BY DEF ServerTypes
      <4>2. /\ OneMore \in Seq(Waits) /\ next' = next + 1 /\ next \in Nat \ {0} /\ delivered' \in Nat
            /\ Failure(<<>>, OneMore, events)
        BY <3>1, MintTypes DEF GivenUp
      <4>3. next' \in Nat \ {0} /\ next <= next'
        BY <4>2
      <4> QED BY <4>1, <4>2, <4>3, FailureTypes
    <3>2. CASE UNCHANGED <<delivery, open, events>>
      BY <3>2 DEF delivery, DeliveryTypes, ServerTypes
    <3> QED BY <1>3, <3>1, <3>2
  <2>6. ServerTypes'
    <3>1. next \in Nat /\ next' \in Nat /\ owners \subseteq (1 .. next - 1) \X Clients
      BY <2>5 DEF DeliveryTypes, ServerTypes
    <3>2. next \in Nat \ {0} /\ next <= next'
      BY <2>5 DEF DeliveryTypes
    <3>3. 1 .. next - 1 \subseteq 1 .. next' - 1
      BY <3>1, <3>2, Below, Zenon
    <3> QED BY <1>1, <1>3, <2>5, <3>1, <3>3 DEF ServerTypes
  <2> QED BY <2>3, <2>4, <2>5, <2>6
<1> QED BY <1>2, <1>3, AskCases

-----------------------------------------------------------------------------
(* What a slice, a done event and a resume make of a view.                  *)
SlicedView(v, r, late) ==
  [v EXCEPT !.got = v.got + 1, !.cpos = EndOf(r), !.coff = r.off, !.blocked = v.blocked \/ late]
LiveView(v)  == [v EXCEPT !.stage = "live"]
DiedAt(m, v) == [m EXCEPT !.death = IF m.death = -1 THEN v.coff ELSE m.death]
MovedView(c, r) ==
  [view[c] EXCEPT !.cpos = EndOf(r),
                  !.coff = IF OffAfter(r) > view[c].coff THEN OffAfter(r) ELSE view[c].coff]
BaseView(c, sent)   == IF sent = {} THEN view[c] ELSE MovedView(c, Latest(sent))
BaseMirror(c, sent) == IF sent = {} THEN mirror[c] ELSE Replay(c, sent)
HeadView(v) == [v EXCEPT !.cpos = head]
HeldView(v) == [v EXCEPT !.blocked = TRUE]
Sending(c, pos) == {r \in Messages(c) : r.at < pos}

(* An output that overflows closes the view.                                *)
LEMMA OverflowIs ==
  ASSUME NEW v, NEW w, NEW m, NEW s \in Overflows(State(v, w, m))
  PROVE  w = TRUE => s = ClosedState(v, m, "overflow")
<1>1. PICK why : why = "overflow"
  OBVIOUS
<1>2. Closed(State(v, w, m), why) = ClosedState(v, m, why)
  BY ClosedIs
<1>3. w = TRUE => Overflows(State(v, w, m)) = {Closed(State(v, w, m), why)}
  BY <1>1 DEF Overflows, State
<1> QED BY <1>1, <1>2, <1>3

(* Only an output that waits overflows.                                     *)
LEMMA NoOverflow ==
  ASSUME NEW v, NEW w \in BOOLEAN, NEW m, NEW s \in Overflows(State(v, w, m))
  PROVE  w = TRUE /\ s = ClosedState(v, m, "overflow")
<1>1. State(v, w, m).waiting = w
  BY DEF State
<1>2. w = TRUE
  BY <1>1 DEF Overflows
<1> QED BY <1>2, OverflowIs

(* What a slice makes of a view.                                            *)
LEMMA SliceCases ==
  ASSUME NEW v \in ViewSet, NEW w \in BOOLEAN, NEW m, NEW r, NEW s \in TakeSlice(State(v, w, m), r)
  PROVE  \/ r.off < v.coff /\ s = ClosedState(v, m, "rejected")
         \/ ~(r.off < v.coff) /\ s = ClosedState(v, m, "overflow")
         \/ /\ ~(r.off < v.coff)
            /\ \E late \in Late(w) : s = State(SlicedView(v, r, late), late, AfterSlice(m, r))
<1>1. State(v, w, m).view = v
  BY DEF State
<1>2. CASE r.off < v.coff
  <2>1. s = Closed(State(v, w, m), "rejected")
    BY <1>1, <1>2 DEF TakeSlice
  <2> QED BY <1>2, <2>1, ClosedIs
<1>3. CASE ~(r.off < v.coff)
  <2>1. \/ s \in Overflows(State(v, w, m))
        \/ \E x \in Sent(State(v, w, m)) :
             s = [x EXCEPT !.view.got = @ + 1, !.view.cpos = EndOf(r), !.view.coff = r.off,
                           !.view.blocked = @ \/ x.waiting, !.mirror = AfterSlice(@, r)]
    BY <1>1, <1>3 DEF TakeSlice
  <2>2. CASE s \in Overflows(State(v, w, m))
    BY <1>3, <2>2, NoOverflow
  <2>3. ASSUME NEW x \in Sent(State(v, w, m)),
               s = [x EXCEPT !.view.got = @ + 1, !.view.cpos = EndOf(r), !.view.coff = r.off,
                           !.view.blocked = @ \/ x.waiting, !.mirror = AfterSlice(@, r)]
        PROVE  \E late \in Late(w) : s = State(SlicedView(v, r, late), late, AfterSlice(m, r))
    <3>1. PICK late \in Late(w) : x = State(v, late, m)
      BY SentIs
    <3>2. x \in [view : {v}, waiting : {late}, mirror : {m}] /\ x.view = v /\ x.waiting = late /\ x.mirror = m
      BY <3>1, IsState DEF State
    <3>3. s.view = SlicedView(v, r, late) /\ s.waiting = late /\ s.mirror = AfterSlice(m, r)
      BY <2>3, <3>2 DEF SlicedView
    <3>4. s \in [view : {SlicedView(v, r, late)}, waiting : {late}, mirror : {AfterSlice(m, r)}]
      BY <2>3, <3>2, <3>3
    <3> QED BY <3>4, StateIs
  <2> QED BY <1>3, <2>1, <2>2, <2>3
<1> QED BY <1>2, <1>3

Matches(v, done) ==
  done.hold # NoHold /\ v.got > 0 /\ v.got = done.slices /\ v.cpos = done.hold

(* What a done event makes of a view.                                       *)
LEMMA DoneCases ==
  ASSUME NEW v, NEW w \in BOOLEAN, NEW m, NEW done, NEW s \in OnDone(State(v, w, m), done)
  PROVE  \/ ~Matches(v, done) /\ s = ClosedState(v, m, "rejected")
         \/ Matches(v, done) /\ s = ClosedState(v, m, "overflow")
         \/ /\ Matches(v, done)
            /\ \E late \in Late(w), m2 \in {m, DiedAt(m, v)} : s = State(LiveView(v), late, m2)
<1>1. State(v, w, m).view = v
  BY DEF State
<1>2. CASE ~Matches(v, done)
  <2>1. s = Closed(State(v, w, m), "rejected")
    BY <1>1, <1>2 DEF OnDone, Matches
  <2> QED BY <1>2, <2>1, ClosedIs
<1>3. CASE Matches(v, done)
  <2>1. \/ s \in Overflows(State(v, w, m))
        \/ \E x \in Sent(State(v, w, m)) :
             s = [x EXCEPT !.view.stage = "live",
                           !.mirror.death = IF @ = -1 THEN x.view.coff ELSE @]
        \/ s = [State(v, w, m) EXCEPT !.view.stage = "live"]
    BY <1>1, <1>3 DEF OnDone, Matches
  <2>2. CASE s \in Overflows(State(v, w, m))
    BY <1>3, <2>2, NoOverflow
  <2>3. ASSUME NEW x \in Sent(State(v, w, m)),
               s = [x EXCEPT !.view.stage = "live",
                             !.mirror.death = IF @ = -1 THEN x.view.coff ELSE @]
        PROVE  \E late \in Late(w) : s = State(LiveView(v), late, DiedAt(m, v))
    <3>1. PICK late \in Late(w) : x = State(v, late, m)
      BY SentIs
    <3>2. x \in [view : {v}, waiting : {late}, mirror : {m}] /\ x.view = v /\ x.waiting = late /\ x.mirror = m
      BY <3>1, IsState DEF State
    <3>3. s.view = LiveView(v) /\ s.waiting = late /\ s.mirror = DiedAt(m, v)
      BY <2>3, <3>2 DEF LiveView, DiedAt
    <3>4. s \in [view : {LiveView(v)}, waiting : {late}, mirror : {DiedAt(m, v)}]
      BY <2>3, <3>2, <3>3
    <3> QED BY <3>4, StateIs
  <2>4. CASE s = [State(v, w, m) EXCEPT !.view.stage = "live"]
    <3>1. PICK x : x = State(v, w, m) /\ x \in [view : {v}, waiting : {w}, mirror : {m}]
      BY IsState
    <3>2. s \in [view : {LiveView(v)}, waiting : {w}, mirror : {m}]
      BY <2>4, <3>1 DEF LiveView
    <3>3. s = State(LiveView(v), w, m)
      BY <3>2, StateIs
    <3>4. w \in Late(w)
      BY DEF Late
    <3> QED BY <1>3, <3>3, <3>4
  <2> QED BY <1>3, <2>1, <2>2, <2>3, <2>4
<1> QED BY <1>2, <1>3

-----------------------------------------------------------------------------
(* The least and the greatest of some records.                              *)
LEMMA EarliestIs ==
  ASSUME LogInv, NEW recs \in SUBSET log, recs # {}
  PROVE  Earliest(recs) \in recs /\ \A q \in recs : Earliest(recs).at <= q.at
<1> DEFINE T == {r.at : r \in recs}
<1>1. T \in SUBSET Nat /\ T # {}
  BY DEF LogInv, Records
<1>2. \E m \in T : \A k \in T : m <= k
  <2> HIDE DEF T
  <2> QED BY <1>1, NatLeast
<1>3. \E r \in recs : \A q \in recs : r.at <= q.at
  BY <1>2
<1> QED BY <1>3 DEF Earliest

(* Of some records one is the latest.                                       *)
LEMMA LatestIs ==
  ASSUME LogInv, NEW recs \in SUBSET log, recs # {}
  PROVE  Latest(recs) \in recs /\ \A q \in recs : q.at <= Latest(recs).at
<1> DEFINE T == {head - r.at : r \in recs}
<1>0. \A r \in recs : r.at \in Nat /\ head \in Nat /\ head - r.at \in Nat
  <2> TAKE r \in recs
  <2>1. r \in Records /\ EndOf(r) <= head /\ head \in Nat
    BY DEF LogInv
  <2> QED BY <2>1, Lengths DEF Records, EndOf
<1>1. T \in SUBSET Nat /\ T # {}
  BY <1>0
<1>2. \E m \in T : \A k \in T : m <= k
  <2> HIDE DEF T
  <2> QED BY <1>1, NatLeast
<1>3. PICK r \in recs : \A q \in recs : head - r.at <= head - q.at
  BY <1>2
<1>4. \A q \in recs : q.at <= r.at
  BY <1>0, <1>3
<1> QED BY <1>4 DEF Latest

(* A record ends at a boundary and an offset.                               *)
LEMMA RecordIs ==
  ASSUME LogInv, NEW r \in log
  PROVE  /\ r \in Records /\ r.at \in Nat /\ r.off \in Nat /\ r.len \in Nat
         /\ EndOf(r) \in Nat /\ OffAfter(r) \in Nat /\ r.at < EndOf(r) /\ r.off <= OffAfter(r)
         /\ EndOf(r) <= head /\ r.at < head /\ head \in Nat
         /\ OffAfter(r) <= End /\ r.off <= End /\ End \in Nat
         /\ r.at \in Starts /\ EndOf(r) \in Nat
<1>1. r \in Records /\ EndOf(r) <= head /\ head \in Nat /\ OffAfter(r) <= End /\ End \in Nat
  BY DEF LogInv
<1>2. EndOf(r) = r.at + Header + r.len /\ OffAfter(r) = r.off + (IF r.kind = "bytes" THEN r.len ELSE 0)
  BY DEF EndOf, OffAfter
<1>3. r.at \in Starts
  BY DEF Starts
<1> QED BY <1>1, <1>2, <1>3, Lengths DEF Records

(* What a resume leaves: all that was to be sent, or what the output took.  *)
ResumesAs(c) ==
  \/ \E w \in Late(waiting[c]) :
       LET sent == Sending(c, head) IN
       Set(c, State(HeadView(BaseView(c, sent)), w, BaseMirror(c, sent)))
  \/ \E pos \in Starts, w \in BOOLEAN :
       LET sent == Sending(c, pos) IN
       Set(c, State(HeldView(BaseView(c, sent)), w, BaseMirror(c, sent)))

(* The state after the messages of a resume.                                *)
LEMMA MovedIs ==
  ASSUME NEW c, NEW sent
  PROVE  Moved(c, sent) = State(BaseView(c, sent), waiting[c], BaseMirror(c, sent))
<1>1. CASE sent = {}
  BY <1>1, AtIs DEF Moved, BaseView, BaseMirror
<1>2. CASE sent # {}
  <2>1. PICK s : s = At(c) /\ s \in [view : {view[c]}, waiting : {waiting[c]}, mirror : {mirror[c]}]
    BY AtIs, IsState
  <2>2. PICK t : t = Moved(c, sent)
    OBVIOUS
  <2>3. PICK r : r = Latest(sent)
    OBVIOUS
  <2>4. t = [s EXCEPT !.view.cpos = EndOf(r),
                      !.view.coff = IF OffAfter(r) > @ THEN OffAfter(r) ELSE @,
                      !.mirror = Replay(c, sent)]
    BY <1>2, <2>1, <2>2, <2>3 DEF Moved
  <2>5. t \in [view : {MovedView(c, r)}, waiting : {waiting[c]}, mirror : {Replay(c, sent)}]
    BY <2>1, <2>4 DEF MovedView
  <2>6. t = State(MovedView(c, r), waiting[c], Replay(c, sent))
    BY <2>5, StateIs
  <2> QED BY <1>2, <2>2, <2>3, <2>6 DEF BaseView, BaseMirror
<1> QED BY <1>1, <1>2

(* A resume falls into the cases of ResumesAs.                              *)
LEMMA ResumeCases ==
  ASSUME LogInv, Resume
  PROVE  /\ pc.at = "resume" /\ pc' = Rest /\ Quiet /\ UNCHANGED dispatching
         /\ ResumesAs(pc.client)
<1>1. PICK c : c = pc.client
  OBVIOUS
<1> DEFINE msgs == Messages(c)
           all == [Moved(c, msgs) EXCEPT !.view.cpos = head]
<1>2. /\ pc.at = "resume" /\ pc' = Rest
      /\ UNCHANGED <<ring, pane, delivery, open, dead, owners, events, dispatching>>
      /\ \/ Set(c, all)
         \/ Set(c, [all EXCEPT !.waiting = TRUE])
         \/ \E pos \in Starts :
              Set(c, [Moved(c, {r \in msgs : r.at < pos}) EXCEPT !.view.blocked = TRUE, !.waiting = TRUE])
  BY <1>1, Zenon DEF Resume
<1>3. Sending(c, head) = msgs
  <2>1. \A r \in log : r.at < head
    BY RecordIs
  <2> QED BY <2>1 DEF Sending, Messages, Between
<1>4. all = State(HeadView(BaseView(c, msgs)), waiting[c], BaseMirror(c, msgs))
  <2>1. PICK s : s = Moved(c, msgs) /\ s \in [view : {BaseView(c, msgs)}, waiting : {waiting[c]}, mirror : {BaseMirror(c, msgs)}]
    BY MovedIs, IsState
  <2>2. PICK t : t = all
    OBVIOUS
  <2>3. t \in [view : {HeadView(BaseView(c, msgs))}, waiting : {waiting[c]}, mirror : {BaseMirror(c, msgs)}]
    BY <2>1, <2>2 DEF HeadView
  <2> QED BY <2>2, <2>3, StateIs
<1>5. [all EXCEPT !.waiting = TRUE] = State(HeadView(BaseView(c, msgs)), TRUE, BaseMirror(c, msgs))
  <2>1. PICK s : s = all /\ s \in [view : {HeadView(BaseView(c, msgs))}, waiting : {waiting[c]}, mirror : {BaseMirror(c, msgs)}]
    BY <1>4, IsState
  <2>2. PICK t : t = [all EXCEPT !.waiting = TRUE]
    OBVIOUS
  <2> HIDE DEF all
  <2>3. t \in [view : {HeadView(BaseView(c, msgs))}, waiting : {TRUE}, mirror : {BaseMirror(c, msgs)}]
    BY <2>1, <2>2
  <2>4. PICK v, m, yes : v = HeadView(BaseView(c, msgs)) /\ m = BaseMirror(c, msgs) /\ yes = TRUE
    OBVIOUS
  <2>5. t = State(v, yes, m)
    BY <2>3, <2>4, StateIs
  <2> QED BY <2>2, <2>4, <2>5
<1>6. ASSUME NEW pos \in Starts
      PROVE  [Moved(c, {r \in msgs : r.at < pos}) EXCEPT !.view.blocked = TRUE, !.waiting = TRUE]
               = State(HeldView(BaseView(c, Sending(c, pos))), TRUE, BaseMirror(c, Sending(c, pos)))
  <2>0. PICK sent : sent = Sending(c, pos)
    OBVIOUS
  <2>1. PICK s : s = Moved(c, sent) /\ s \in [view : {BaseView(c, sent)}, waiting : {waiting[c]}, mirror : {BaseMirror(c, sent)}]
    BY MovedIs, IsState
  <2>2. PICK t : t = [s EXCEPT !.view.blocked = TRUE, !.waiting = TRUE]
    OBVIOUS
  <2>3. t \in [view : {HeldView(BaseView(c, sent))}, waiting : {TRUE}, mirror : {BaseMirror(c, sent)}]
    BY <2>1, <2>2 DEF HeldView
  <2>4. t = State(HeldView(BaseView(c, sent)), TRUE, BaseMirror(c, sent))
    BY <2>3, StateIs
  <2>5. {r \in msgs : r.at < pos} = sent
    BY <2>0 DEF Sending
  <2> QED BY <2>0, <2>1, <2>2, <2>4, <2>5
<1>7. ResumesAs(c)
  <2>1. CASE Set(c, all)
    <3>1. waiting[c] \in Late(waiting[c])
      BY DEF Late
    <3> QED BY <1>3, <1>4, <2>1, <3>1 DEF ResumesAs
  <2>2. CASE Set(c, [all EXCEPT !.waiting = TRUE])
    <3>1. PICK w \in Late(waiting[c]) : w = TRUE
      BY DEF Late
    <3>2. Set(c, State(HeadView(BaseView(c, Sending(c, head))), w, BaseMirror(c, Sending(c, head))))
      BY <1>3, <1>5, <2>2, <3>1
    <3> QED BY <3>1, <3>2, Zenon DEF ResumesAs
  <2>3. ASSUME NEW pos \in Starts,
               Set(c, [Moved(c, {r \in msgs : r.at < pos}) EXCEPT !.view.blocked = TRUE, !.waiting = TRUE])
        PROVE  ResumesAs(c)
    <3>1. PICK w \in BOOLEAN : w = TRUE
      OBVIOUS
    <3>2. Set(c, State(HeldView(BaseView(c, Sending(c, pos))), w, BaseMirror(c, Sending(c, pos))))
      BY <1>6, <2>3, <3>1
    <3> QED BY <3>2, Zenon DEF ResumesAs
  <2> QED BY <1>2, <2>1, <2>2, <2>3
<1> QED BY <1>1, <1>2, <1>7 DEF Quiet

-----------------------------------------------------------------------------
(* The types are kept by each step.                                         *)
Others == UNCHANGED <<asks, serving, frames, life>>

(* A quiet step keeps the types of the pane, of Delivery and of the server. *)
LEMMA QuietTypes ==
  ASSUME Types, Quiet
  PROVE  PaneTypes' /\ DeliveryTypes' /\ ServerTypes'
BY DEF Quiet, Types, pane, delivery, PaneTypes, DeliveryTypes, ServerTypes

(* The types of the views depend on theirs.                                 *)
LEMMA SameConns ==
  ASSUME Types, UNCHANGED conns
  PROVE  ViewTypes' /\ MirrorMap'
BY DEF Types, conns, ViewTypes, MirrorMap

(* What a step does to the function that runs.                              *)
LEMMA SamePc ==
  ASSUME Types
  PROVE  /\ UNCHANGED pc => PcTypes'
         /\ pc' = Rest => PcTypes'
         /\ \A c \in Clients : Decide(c) \/ Drained(c) => PcTypes'
         /\ head \in Nat => \A then \in Nat : Deliver(then) => PcTypes'
<1>1. UNCHANGED pc => PcTypes'
  BY DEF Types, PcTypes
<1>2. pc' = Rest => PcTypes'
  BY DEF Rest, PcTypes, PcSet
<1>3. ASSUME NEW c \in Clients, Decide(c) \/ Drained(c) PROVE PcTypes'
  <2>1. CASE Decide(c)
    BY <2>1 DEF Decide, Rest, PcTypes, PcSet
  <2>2. CASE Drained(c)
    BY <2>2 DEF Drained, Rest, PcTypes, PcSet
  <2> QED BY <1>3, <2>1, <2>2
<1>4. ASSUME head \in Nat, NEW then \in Nat, Deliver(then) PROVE PcTypes'
  BY <1>4 DEF Deliver, Rest, PcTypes, PcSet
<1> QED BY <1>1, <1>2, <1>3, <1>4

(* The pane.                                                                *)
LEMMA PaneActionTypes ==
  ASSUME LogInv, Types,
         PaneWrites \/ PaneResizes \/ PaneExits \/ PaneCrashes \/ PaneStep
  PROVE  Types'
<1>1. UNCHANGED delivery /\ UNCHANGED server /\ UNCHANGED conns
  BY DEF PaneWrites, PaneResizes, PaneExits, PaneCrashes, PaneStep, PaneBegins, PaneSlices, PaneFull
<1>2. DeliveryTypes' /\ ServerTypes' /\ PcTypes' /\ ViewTypes' /\ MirrorMap'
  BY <1>1, SameConns DEF delivery, server, Types, DeliveryTypes, ServerTypes, PcTypes
<1>3. PaneTypes'
  <2>0. PaneTypes
    BY DEF Types
  <2>1. CASE PaneWrites \/ PaneResizes
    BY <2>0, <2>1 DEF PaneWrites, PaneResizes, PaneTypes
  <2>2. CASE PaneExits
    <3>1. PICK f : f = [t |-> "dead", req |-> 0]
      OBVIOUS
    <3>2. f \in FrameSet
      BY <3>1 DEF FrameSet
    <3>3. frames' = Append(frames, f) /\ life' = "exited" /\ UNCHANGED <<asks, serving>>
      BY <2>2, <3>1 DEF PaneExits
    <3> QED BY <2>0, <3>2, <3>3 DEF PaneTypes
  <2>3. CASE PaneCrashes
    BY <2>0, <2>3 DEF PaneCrashes, PaneTypes, NoServing
  <2>4. CASE PaneBegins
    <3>1. /\ asks # <<>> /\ serving' = [req |-> Head(asks), left |-> 2] /\ asks' = Tail(asks)
          /\ UNCHANGED <<frames, life>>
      BY <2>4 DEF PaneBegins
    <3>2. Head(asks) \in Nat /\ Tail(asks) \in Seq(Nat)
      BY <2>0, <3>1 DEF PaneTypes
    <3> QED BY <2>0, <3>1, <3>2 DEF PaneTypes
  <2>5. CASE PaneSlices
    <3>1. UNCHANGED <<asks, life>>
      BY <2>5 DEF PaneSlices
    <3>2. CASE serving.left = 2
      <4>1. serving' = [serving EXCEPT !.left = 1] /\ frames' = frames
        BY <2>5, <3>2 DEF PaneSlices
      <4> QED BY <2>0, <3>1, <4>1 DEF PaneTypes
    <3>3. CASE serving.left # 2
      <4>1. PICK f : f = [t |-> "done", req |-> serving.req]
        OBVIOUS
      <4>2. serving' = NoServing /\ frames' = Append(frames, f)
        BY <2>5, <3>3, <4>1 DEF PaneSlices
      <4>3. f \in FrameSet
        BY <2>0, <4>1 DEF FrameSet, PaneTypes
      <4> QED BY <2>0, <3>1, <4>2, <4>3 DEF PaneTypes, NoServing
    <3> QED BY <3>2, <3>3
  <2>6. CASE PaneFull
    <3>1. PICK f : f = [t |-> "full", req |-> 0]
      OBVIOUS
    <3>2. f \in FrameSet
      BY <3>1 DEF FrameSet
    <3>3. frames' = Append(frames, f) /\ UNCHANGED <<asks, serving, life>>
      BY <2>6, <3>1 DEF PaneFull
    <3> QED BY <2>0, <3>2, <3>3 DEF PaneTypes
  <2> QED BY <2>1, <2>2, <2>3, <2>4, <2>5, <2>6 DEF PaneStep
<1> QED BY <1>2, <1>3 DEF Types

(* The record that comes next for a request is a slice, and has a tag.      *)
LEMMA NextSliceIs ==
  ASSUME LogInv, TagInv, NextSlices # {}
  PROVE  LET r == Earliest(NextSlices) IN
         /\ r \in log /\ r.kind = "slice" /\ delivered <= r.at /\ r.at < pc.upper
         /\ \A q \in log : q.kind = "slice" /\ delivered <= q.at /\ q.at < pc.upper => r.at <= q.at
         /\ TagOf(r) \in tags /\ TagOf(r).at = r.at /\ TagOf(r).t \in {"first", "last"}
<1>1. NextSlices \in SUBSET log
  BY DEF NextSlices, Between
<1>2. PICK r : r = Earliest(NextSlices)
  OBVIOUS
<1>3. r \in NextSlices /\ \A q \in NextSlices : r.at <= q.at
  BY <1>1, <1>2, EarliestIs
<1>4. r \in log /\ r.kind = "slice" /\ delivered <= r.at /\ r.at < pc.upper
  BY <1>3 DEF NextSlices, Between
<1>5. \A q \in log : q.kind = "slice" /\ delivered <= q.at /\ q.at < pc.upper => r.at <= q.at
  BY <1>3 DEF NextSlices, Between
<1>6. \E a \in tags : a.at = r.at
  BY <1>4 DEF TagInv
<1>7. TagOf(r) \in tags /\ TagOf(r).at = r.at
  BY <1>6 DEF TagOf
<1>8. PICK q \in log : q.at = r.at /\ q.kind = KindOf(TagOf(r).t)
  BY <1>7 DEF TagInv
<1>9. q = r
  BY <1>4, <1>8 DEF LogInv
<1>10. TagOf(r).t \in {"first", "last"}
  BY <1>4, <1>8, <1>9 DEF KindOf
<1> QED BY <1>2, <1>4, <1>5, <1>7, <1>10

(* The server's reading of the ring and of the socket.                      *)
LEMMA HandOverCases ==
  ASSUME LogInv, TagInv, HandOver
  PROVE  LET r == Earliest(NextSlices) IN
         /\ pc.at = "deliver" /\ requests # <<>> /\ NextSlices # {}
         /\ UNCHANGED <<ring, pane, owners, dispatching>>
         /\ \/ /\ requests[1].at > r.at \/ delivered < tail
               /\ Failure(<<>>, requests, events) /\ pc' = Rest
               /\ UNCHANGED <<delivered, next, conns>>
            \/ /\ ~(requests[1].at > r.at \/ delivered < tail)
               /\ delivered' = EndOf(r)
               /\ \/ /\ TagOf(r).t = "last"
                     /\ requests' = Tail(requests) /\ count' = 0
                     /\ finished' = Append(finished, [serial |-> requests[1].serial,
                                                      at |-> EndOf(r), slices |-> count + 1])
                  \/ /\ TagOf(r).t = "first"
                     /\ count' = count + 1 /\ UNCHANGED <<requests, finished>>
               /\ \/ Receivers(requests[1].serial) = {} /\ UNCHANGED conns
                  \/ \E c \in Receivers(requests[1].serial) :
                       \E s \in TakeSlice(At(c), r) : Set(c, s)
               /\ UNCHANGED <<next, open, dead, events, pc>>
<1>1. PICK r : r = Earliest(NextSlices)
  OBVIOUS
<1>2. PICK front : front = Head(requests)
  OBVIOUS
<1>3. /\ pc.at = "deliver" /\ requests # <<>> /\ NextSlices # {}
      /\ UNCHANGED <<ring, pane, owners, dispatching>>
      /\ IF front.at > r.at \/ delivered < tail
         THEN /\ Failure(<<>>, requests, events) /\ pc' = Rest
              /\ UNCHANGED <<delivered, next, conns>>
         ELSE /\ delivered' = EndOf(r)
              /\ IF TagOf(r).t = "last"
                 THEN /\ requests' = Tail(requests) /\ count' = 0
                      /\ finished' = Append(finished, [serial |-> front.serial,
                                                       at |-> EndOf(r),
                                                       slices |-> count + 1])
                 ELSE count' = count + 1 /\ UNCHANGED <<requests, finished>>
              /\ IF Receivers(front.serial) = {}
                 THEN UNCHANGED conns
                 ELSE \E c \in Receivers(front.serial) :
                        \E s \in TakeSlice(At(c), r) : Set(c, s)
              /\ UNCHANGED <<next, open, dead, events, pc>>
  BY <1>1, <1>2, Zenon DEF HandOver
<1>4. front = requests[1]
  BY <1>2
<1>5. TagOf(r).t \in {"first", "last"}
  BY <1>1, <1>3, NextSliceIs
<1>6. CASE front.at > r.at \/ delivered < tail
  <2>1. Failure(<<>>, requests, events) /\ pc' = Rest /\ UNCHANGED <<delivered, next, conns>>
    BY <1>3, <1>6
  <2> QED BY <1>1, <1>3, <1>4, <1>6, <2>1, Zenon
<1>7. CASE ~(front.at > r.at \/ delivered < tail)
  <2>1. /\ delivered' = EndOf(r)
        /\ IF TagOf(r).t = "last"
           THEN /\ requests' = Tail(requests) /\ count' = 0
                /\ finished' = Append(finished, [serial |-> front.serial,
                                                 at |-> EndOf(r),
                                                 slices |-> count + 1])
           ELSE count' = count + 1 /\ UNCHANGED <<requests, finished>>
        /\ IF Receivers(front.serial) = {}
           THEN UNCHANGED conns
           ELSE \E c \in Receivers(front.serial) :
                  \E s \in TakeSlice(At(c), r) : Set(c, s)
        /\ UNCHANGED <<next, open, dead, events, pc>>
    BY <1>3, <1>7, Zenon
  <2>2. \/ /\ TagOf(r).t = "last"
           /\ requests' = Tail(requests) /\ count' = 0
           /\ finished' = Append(finished, [serial |-> front.serial,
                                            at |-> EndOf(r), slices |-> count + 1])
        \/ /\ TagOf(r).t = "first"
           /\ count' = count + 1 /\ UNCHANGED <<requests, finished>>
    BY <1>5, <2>1
  <2>3. \/ Receivers(front.serial) = {} /\ UNCHANGED conns
        \/ \E c \in Receivers(front.serial) : \E s \in TakeSlice(At(c), r) : Set(c, s)
    BY <2>1, Zenon
  <2> QED BY <1>1, <1>3, <1>4, <1>7, <2>1, <2>2, <2>3, Zenon
<1> QED BY <1>6, <1>7, Zenon

(* A slice leaves a view a view.                                            *)
LEMMA SliceTypes ==
  ASSUME LogInv, Types, NEW c \in Clients, NEW r \in log, NEW s \in TakeSlice(At(c), r), Set(c, s)
  PROVE  ViewTypes' /\ MirrorMap'
<1>1. At(c) = State(view[c], waiting[c], mirror[c])
  BY AtIs
<1>2. view[c] \in ViewSet /\ waiting[c] \in BOOLEAN /\ ViewTypes /\ MirrorMap
  BY DEF Types, ViewTypes
<1>3. \/ s = ClosedState(view[c], mirror[c], "rejected")
      \/ s = ClosedState(view[c], mirror[c], "overflow")
      \/ \E late \in Late(waiting[c]) :
           s = State(SlicedView(view[c], r, late), late, AfterSlice(mirror[c], r))
  <2>1. s \in TakeSlice(State(view[c], waiting[c], mirror[c]), r)
    BY <1>1
  <2> QED BY <1>2, <2>1, SliceCases
<1>4. \A late \in Late(waiting[c]) : late \in BOOLEAN
  BY <1>2 DEF Late
<1>5. ASSUME NEW why, s = ClosedState(view[c], mirror[c], why) PROVE ViewTypes' /\ MirrorMap'
  <2>1. PICK no \in BOOLEAN : no = FALSE
    OBVIOUS
  <2>2. Set(c, State(ClosedView(view[c]), no, Ended(mirror[c], why)))
    BY <1>5, <2>1 DEF ClosedState
  <2>3. ClosedView(view[c]) \in ViewSet
    BY <1>2, ViewPuts
  <2> QED BY <1>2, <2>1, <2>2, <2>3, SetIs
<1>6. ASSUME NEW late \in Late(waiting[c]),
             s = State(SlicedView(view[c], r, late), late, AfterSlice(mirror[c], r))
      PROVE  ViewTypes' /\ MirrorMap'
  <2>1. PICK v : v = SlicedView(view[c], r, late)
    OBVIOUS
  <2>2. EndOf(r) \in Nat /\ r.off \in Nat /\ late \in BOOLEAN
    BY <1>4, RecordIs
  <2>3. v \in ViewSet
    <3>1. PICK u \in ViewSet : u = view[c]
      BY <1>2
    <3>2. PICK b \in BOOLEAN : b = (u.blocked \/ late)
      OBVIOUS
    <3>3. PICK at \in Nat, off \in Nat : at = EndOf(r) /\ off = r.off
      BY <2>2
    <3>4. v = [u EXCEPT !.got = u.got + 1, !.cpos = at, !.coff = off, !.blocked = b]
      BY <2>1, <3>1, <3>2, <3>3 DEF SlicedView
    <3>5. u.got + 1 \in Nat
      BY <3>1 DEF ViewSet
    <3> QED BY <3>1, <3>2, <3>3, <3>4, <3>5 DEF ViewSet
  <2>4. PICK m : m = AfterSlice(mirror[c], r)
    OBVIOUS
  <2> QED BY <1>2, <1>6, <2>1, <2>2, <2>3, <2>4, SetIs
<1> QED BY <1>3, <1>5, <1>6

(* A slice that is handed over keeps the types.                             *)
LEMMA HandOverTypes ==
  ASSUME LogInv, TagInv, Types, HandOver
  PROVE  Types'
<1>0. PICK r : r = Earliest(NextSlices)
  OBVIOUS
<1>1. /\ r \in log /\ requests # <<>> /\ UNCHANGED <<ring, pane, owners, dispatching>>
      /\ PaneTypes /\ DeliveryTypes /\ ServerTypes /\ PcTypes
  BY <1>0, HandOverCases, NextSliceIs DEF Types
<1>2. PaneTypes'
  BY <1>1 DEF pane, PaneTypes
<1>3. requests[1] \in Waits /\ Tail(requests) \in Seq(Waits)
  BY <1>1 DEF DeliveryTypes
<1>4. \/ Failure(<<>>, requests, events) /\ pc' = Rest /\ UNCHANGED <<delivered, next, conns>>
      \/ /\ delivered' = EndOf(r)
         /\ \/ /\ requests' = Tail(requests) /\ count' = 0
               /\ finished' = Append(finished, [serial |-> requests[1].serial,
                                                at |-> EndOf(r), slices |-> count + 1])
            \/ count' = count + 1 /\ UNCHANGED <<requests, finished>>
         /\ \/ UNCHANGED conns
            \/ \E c \in Receivers(requests[1].serial) :
                 \E s \in TakeSlice(At(c), r) : Set(c, s)
         /\ UNCHANGED <<next, open, dead, events, pc>>
  BY <1>0, HandOverCases, Zenon
<1>5. CASE Failure(<<>>, requests, events) /\ pc' = Rest /\ UNCHANGED <<delivered, next, conns>>
  <2>1. <<>> \in Seq(EventSet) /\ events \in Seq(EventSet)
    BY <1>1 DEF ServerTypes
  <2>2. DeliveryTypes' /\ open' = FALSE /\ next' = next /\ dead' = dead /\ events' \in Seq(EventSet)
    <3>1. requests \in Seq(Waits) /\ next' \in Nat \ {0} /\ delivered' \in Nat /\ next' = next
      BY <1>1, <1>5 DEF DeliveryTypes
    <3> QED BY <1>1, <1>5, <2>1, <3>1, FailureTypes
  <2>3. ServerTypes'
    BY <1>1, <2>2 DEF ServerTypes
  <2>4. PcTypes' /\ ViewTypes' /\ MirrorMap'
    BY <1>5, SamePc, SameConns
  <2> QED BY <1>2, <2>2, <2>3, <2>4 DEF Types
<1>6. CASE /\ delivered' = EndOf(r)
           /\ \/ /\ requests' = Tail(requests) /\ count' = 0
                 /\ finished' = Append(finished, [serial |-> requests[1].serial,
                                                  at |-> EndOf(r), slices |-> count + 1])
              \/ count' = count + 1 /\ UNCHANGED <<requests, finished>>
           /\ \/ UNCHANGED conns
              \/ \E c \in Receivers(requests[1].serial) :
                   \E s \in TakeSlice(At(c), r) : Set(c, s)
           /\ UNCHANGED <<next, open, dead, events, pc>>
  <2>1. EndOf(r) \in Nat
    BY <1>1, RecordIs
  <2>2. DeliveryTypes'
    <3>1. PICK w : w = [serial |-> requests[1].serial, at |-> EndOf(r), slices |-> count + 1]
      OBVIOUS
    <3>2. w \in Waits
      BY <1>1, <1>3, <2>1, <3>1 DEF Waits, DeliveryTypes
    <3>3. \/ requests' = Tail(requests) /\ count' = 0 /\ finished' = Append(finished, w)
          \/ count' = count + 1 /\ UNCHANGED <<requests, finished>>
      BY <1>6, <3>1, Zenon
    <3>4. CASE requests' = Tail(requests) /\ count' = 0 /\ finished' = Append(finished, w)
      BY <1>1, <1>3, <1>6, <2>1, <3>2, <3>4 DEF DeliveryTypes
    <3>5. CASE count' = count + 1 /\ UNCHANGED <<requests, finished>>
      BY <1>1, <1>6, <2>1, <3>5 DEF DeliveryTypes
    <3> QED BY <3>3, <3>4, <3>5
  <2>3. ServerTypes' /\ PcTypes'
    BY <1>1, <1>6 DEF ServerTypes, PcTypes
  <2>4. ViewTypes' /\ MirrorMap'
    <3>1. CASE UNCHANGED conns
      BY <3>1, SameConns
    <3>2. ASSUME NEW c \in Receivers(requests[1].serial), NEW s \in TakeSlice(At(c), r), Set(c, s)
          PROVE  ViewTypes' /\ MirrorMap'
      <4>1. c \in Clients
        BY DEF Receivers
      <4> QED BY <1>1, <3>2, <4>1, SliceTypes
    <3> QED BY <1>6, <3>1, <3>2
  <2> QED BY <1>2, <2>2, <2>3, <2>4 DEF Types
<1> QED BY <1>4, <1>5, <1>6, Zenon

(* The end of a scan keeps the types.                                       *)
LEMMA EndScanTypes ==
  ASSUME LogInv, Types, EndScan
  PROVE  Types'
<1>1. /\ PaneTypes' /\ DeliveryTypes' /\ ServerTypes' /\ pc' = Rest /\ UNCHANGED conns
  BY DEF EndScan, Types, PaneTypes, DeliveryTypes, ServerTypes, PcTypes, PcSet
<1> QED BY <1>1, SamePc, SameConns DEF Types

(* A done frame that is looked up keeps the types.                          *)
LEMMA EndDoneTypes ==
  ASSUME Types, EndDone
  PROVE  Types'
<1>0. PaneTypes /\ DeliveryTypes /\ ServerTypes /\ PcTypes
  BY DEF Types
<1>1. /\ delivered' = pc.upper /\ pc' = Rest
      /\ UNCHANGED <<ring, pane, next, open, dead, owners, dispatching, conns>>
      /\ \/ UNCHANGED <<requests, finished, count, events>>
         \/ /\ finished # <<>> /\ finished' = Tail(finished)
            /\ events' = Append(events, Done(finished[1], finished[1].at, finished[1].slices))
            /\ UNCHANGED <<requests, count>>
         \/ /\ requests # <<>> /\ requests' = Tail(requests) /\ count' = 0
            /\ events' = Append(events, Done(requests[1], NoHold, 0)) /\ UNCHANGED finished
  BY DEF EndDone
<1>2. PaneTypes' /\ PcTypes' /\ ViewTypes' /\ MirrorMap'
  BY <1>0, <1>1, SamePc, SameConns DEF pane, PaneTypes
<1>3. CASE UNCHANGED <<requests, finished, count, events>>
  BY <1>0, <1>1, <1>2, <1>3 DEF Types, DeliveryTypes, ServerTypes, PcTypes, PcSet
<1>4. CASE /\ finished # <<>> /\ finished' = Tail(finished)
           /\ events' = Append(events, Done(finished[1], finished[1].at, finished[1].slices))
           /\ UNCHANGED <<requests, count>>
  <2>1. PICK w \in Waits : w = finished[1]
    BY <1>0, <1>4 DEF DeliveryTypes
  <2>2. w.at \in Nat \cup {NoHold} /\ w.slices \in Nat
    BY DEF Waits
  <2>3. Done(w, w.at, w.slices) \in EventSet
    BY <2>2, DoneIs
  <2>4. PICK e \in EventSet : e = Done(w, w.at, w.slices)
    BY <2>3
  <2>5. events' = Append(events, e) /\ events' \in Seq(EventSet)
    BY <1>0, <1>4, <2>1, <2>4 DEF ServerTypes
  <2>6. DeliveryTypes'
    BY <1>0, <1>1, <1>4 DEF DeliveryTypes, PcTypes, PcSet
  <2> QED BY <1>0, <1>1, <1>2, <2>5, <2>6 DEF Types, ServerTypes
<1>5. CASE /\ requests # <<>> /\ requests' = Tail(requests) /\ count' = 0
           /\ events' = Append(events, Done(requests[1], NoHold, 0)) /\ UNCHANGED finished
  <2>1. PICK w \in Waits : w = requests[1]
    BY <1>0, <1>5 DEF DeliveryTypes
  <2>2. NoHold \in Nat \cup {NoHold} /\ 0 \in Nat
    OBVIOUS
  <2>3. Done(w, NoHold, 0) \in EventSet
    BY <2>2, DoneIs, Zenon
  <2>4. PICK e \in EventSet : e = Done(w, NoHold, 0)
    BY <2>3
  <2>5. events' = Append(events, e) /\ events' \in Seq(EventSet)
    BY <1>0, <1>5, <2>1, <2>4 DEF ServerTypes
  <2>6. DeliveryTypes'
    BY <1>0, <1>1, <1>5 DEF DeliveryTypes, PcTypes, PcSet
  <2> QED BY <1>0, <1>1, <1>2, <2>5, <2>6 DEF Types, ServerTypes
<1> QED BY <1>1, <1>3, <1>4, <1>5

(* A frame that is read, or the end, keeps the types.                       *)
LEMMA ReadTypes ==
  ASSUME LogInv, Types, ReadFrame \/ ReadEnd \/ Scan
  PROVE  Types'
<1>0. PaneTypes /\ DeliveryTypes /\ ServerTypes /\ PcTypes /\ head \in Nat
  BY DEF Types, LogInv
<1>1. CASE ReadFrame
  <2>1. /\ frames # <<>> /\ frames' = Tail(frames)
        /\ UNCHANGED <<asks, serving, life, delivery, open, owners, conns>> /\ UNCHANGED events
    <3>1. /\ frames # <<>> /\ frames' = Tail(frames)
          /\ UNCHANGED <<ring, asks, serving, full, life, tags, load, delivery, open, owners,
                         dispatching, conns>>
      BY <1>1, Zenon DEF ReadFrame
    <3>2. Head(frames).t \in {"done", "full", "dead"}
      <4>1. Head(frames) \in FrameSet
        BY <1>0, <3>1 DEF PaneTypes
      <4> QED BY <4>1 DEF FrameSet
    <3>3. UNCHANGED events
      BY <1>1, <3>2 DEF ReadFrame
    <3> QED BY <3>1, <3>3
  <2>2. frames[1] \in FrameSet /\ Tail(frames) \in Seq(FrameSet) /\ Head(frames) = frames[1]
    BY <1>0, <2>1 DEF PaneTypes
  <2>3. PaneTypes' /\ DeliveryTypes' /\ ViewTypes' /\ MirrorMap'
    BY <1>0, <2>1, <2>2, SameConns DEF PaneTypes, delivery, DeliveryTypes
  <2>4. PcTypes' /\ dead' \in BOOLEAN
    <3>1. frames[1].t \in {"done", "full", "dead"} /\ frames[1].req \in Nat
      BY <2>2 DEF FrameSet
    <3>2. CASE frames[1].t = "done"
      <4>1. Deliver(frames[1].req) /\ UNCHANGED dead
        BY <1>1, <2>2, <3>2 DEF ReadFrame
      <4> QED BY <1>0, <3>1, <4>1, SamePc DEF ServerTypes
    <3>3. CASE frames[1].t = "full"
      <4>1. Deliver(0) /\ UNCHANGED dead
        BY <1>1, <2>2, <3>3 DEF ReadFrame
      <4> QED BY <1>0, <4>1, SamePc DEF ServerTypes
    <3>4. CASE frames[1].t = "dead"
      <4>1. dead' = TRUE /\ UNCHANGED pc
        BY <1>1, <2>2, <3>4 DEF ReadFrame
      <4> QED BY <4>1, SamePc
    <3> QED BY <3>1, <3>2, <3>3, <3>4
  <2>5. ServerTypes'
    BY <1>0, <2>1, <2>4 DEF delivery, ServerTypes
  <2> QED BY <2>3, <2>4, <2>5 DEF Types
<1>2. CASE ReadEnd
  <2>1. Failure(events, requests, <<>>) /\ UNCHANGED <<delivered, next, ring, pane, owners, dispatching, pc, conns>>
    BY <1>2 DEF ReadEnd
  <2>2. <<>> \in Seq(EventSet) /\ events \in Seq(EventSet)
    BY <1>0 DEF ServerTypes
  <2>3. DeliveryTypes' /\ open' = FALSE /\ next' = next /\ dead' = dead /\ events' \in Seq(EventSet)
    <3>1. requests \in Seq(Waits) /\ next' \in Nat \ {0} /\ delivered' \in Nat /\ next' = next
      BY <1>0, <2>1 DEF DeliveryTypes
    <3> QED BY <1>0, <2>1, <2>2, <3>1, FailureTypes
  <2>4. ServerTypes' /\ PaneTypes'
    BY <1>0, <2>1, <2>3 DEF ServerTypes, PaneTypes, pane
  <2> QED BY <2>1, <2>3, <2>4, SamePc, SameConns DEF Types
<1>3. CASE Scan
  <2>1. Deliver(0) /\ UNCHANGED <<ring, pane, delivery, open, dead, owners, events, conns>>
    BY <1>3 DEF Scan
  <2>2. PaneTypes' /\ DeliveryTypes' /\ ServerTypes'
    BY <2>1, QuietTypes DEF Quiet
  <2> QED BY <1>0, <2>1, <2>2, SamePc, SameConns DEF Types
<1> QED BY <1>1, <1>2, <1>3

(* What taking an event does.                                               *)
TakesDone(done) ==
  /\ owners' = {o \in owners : o[1] # done.serial}
  /\ \/ (\A c \in Clients : <<done.serial, c>> \notin owners) /\ UNCHANGED <<conns, pc>>
     \/ \E c \in Clients :
          /\ <<done.serial, c>> \in owners /\ Decide(c)
          /\ \/ Receivers(done.serial) = {} /\ UNCHANGED conns
             \/ Receivers(done.serial) # {} /\ \E s \in OnDone(At(c), done) : Set(c, s)

(* An event is a done event or the end of the pane.                         *)
LEMMA TakeCases ==
  ASSUME TakeEvent
  PROVE  /\ pc = Rest /\ events # <<>> /\ events' = Tail(events)
         /\ UNCHANGED <<ring, pane, delivery, open, dead>>
         /\ \/ Head(events).t = "done" /\ TakesDone(Head(events))
            \/ Head(events).t # "done" /\ TakeFailed
<1>1. /\ pc = Rest /\ events # <<>> /\ events' = Tail(events)
      /\ UNCHANGED <<ring, pane, delivery, open, dead>>
      /\ IF Head(events).t = "done" THEN TakeDone ELSE TakeFailed
  BY Zenon DEF TakeEvent
<1>2. ASSUME TakeDone PROVE TakesDone(Head(events))
  <2> DEFINE done == Head(events)
             owner == {c \in Clients : <<done.serial, c>> \in owners}
  <2>1. /\ owners' = {o \in owners : o[1] # done.serial}
        /\ IF owner = {}
           THEN UNCHANGED <<conns, pc>>
           ELSE \E c \in owner :
                  /\ Decide(c)
                  /\ IF Receivers(done.serial) = {}
                     THEN UNCHANGED conns
                     ELSE \E s \in OnDone(At(c), done) : Set(c, s)
    BY <1>2, Zenon DEF TakeDone
  <2>2. CASE owner = {}
    <3>1. (\A c \in Clients : <<done.serial, c>> \notin owners) /\ UNCHANGED <<conns, pc>>
      BY <2>1, <2>2
    <3> QED BY <2>1, <3>1, Zenon DEF TakesDone
  <2>3. CASE owner # {}
    <3>1. PICK c \in owner :
                  /\ Decide(c)
                  /\ IF Receivers(done.serial) = {}
                     THEN UNCHANGED conns
                     ELSE \E s \in OnDone(At(c), done) : Set(c, s)
      BY <2>1, <2>3, Zenon
    <3>2. c \in Clients /\ <<done.serial, c>> \in owners
      OBVIOUS
    <3>3. \/ Receivers(done.serial) = {} /\ UNCHANGED conns
          \/ Receivers(done.serial) # {} /\ \E s \in OnDone(At(c), done) : Set(c, s)
      BY <3>1, Zenon
    <3> QED BY <2>1, <3>1, <3>2, <3>3, Zenon DEF TakesDone
  <2> QED BY <2>2, <2>3
<1> QED BY <1>1, <1>2, Zenon

(* A done event leaves a view a view.                                       *)
LEMMA DoneTypes ==
  ASSUME Types, NEW c \in Clients, NEW done, NEW s \in OnDone(At(c), done), Set(c, s)
  PROVE  ViewTypes' /\ MirrorMap'
<1>2. view[c] \in ViewSet /\ waiting[c] \in BOOLEAN /\ ViewTypes /\ MirrorMap
  BY DEF Types, ViewTypes
<1>3. \/ s = ClosedState(view[c], mirror[c], "rejected")
      \/ s = ClosedState(view[c], mirror[c], "overflow")
      \/ \E late \in Late(waiting[c]), m \in {mirror[c], DiedAt(mirror[c], view[c])} :
           s = State(LiveView(view[c]), late, m)
  <2>1. s \in OnDone(State(view[c], waiting[c], mirror[c]), done)
    BY AtIs
  <2> QED BY <1>2, <2>1, DoneCases
<1>4. \A late \in Late(waiting[c]) : late \in BOOLEAN
  BY <1>2 DEF Late
<1>5. ASSUME NEW why, s = ClosedState(view[c], mirror[c], why) PROVE ViewTypes' /\ MirrorMap'
  <2>1. PICK no \in BOOLEAN : no = FALSE
    OBVIOUS
  <2>2. Set(c, State(ClosedView(view[c]), no, Ended(mirror[c], why)))
    BY <1>5, <2>1 DEF ClosedState
  <2>3. ClosedView(view[c]) \in ViewSet
    BY <1>2, ViewPuts
  <2> QED BY <1>2, <2>1, <2>2, <2>3, SetIs
<1>6. ASSUME NEW late \in Late(waiting[c]), NEW m, s = State(LiveView(view[c]), late, m)
      PROVE  ViewTypes' /\ MirrorMap'
  <2>1. LiveView(view[c]) \in ViewSet
    <3>1. PICK u \in ViewSet : u = view[c]
      BY <1>2
    <3>2. [u EXCEPT !.stage = "live"] \in ViewSet
      BY DEF ViewSet, Stages
    <3> QED BY <3>1, <3>2 DEF LiveView
  <2> QED BY <1>2, <1>4, <1>6, <2>1, SetIs
<1> QED BY <1>3, <1>5, <1>6

(* An event that is taken keeps the types.                                  *)
LEMMA TakeTypes ==
  ASSUME Types, TakeEvent
  PROVE  Types'
<1>0. PaneTypes /\ DeliveryTypes /\ ServerTypes /\ ViewTypes /\ MirrorMap
  BY DEF Types
<1>1. PaneTypes' /\ DeliveryTypes'
  BY <1>0, TakeCases DEF pane, delivery, PaneTypes, DeliveryTypes
<1>2. events' \in Seq(EventSet) /\ next' = next /\ UNCHANGED <<open, dead>>
  BY <1>0, TakeCases DEF ServerTypes, delivery
<1>3. CASE TakesDone(Head(events))
  <2> DEFINE done == Head(events)
  <2>1. owners' \subseteq owners
    BY <1>3 DEF TakesDone
  <2>2. ServerTypes'
    BY <1>0, <1>2, <2>1 DEF ServerTypes
  <2> HIDE DEF done
  <2>3. TakesDone(done)
    BY <1>3 DEF done
  <2>4. CASE UNCHANGED <<conns, pc>>
    BY <1>1, <2>2, <2>4, SamePc, SameConns DEF Types
  <2>5. ASSUME NEW c \in Clients, Decide(c), UNCHANGED conns PROVE Types'
    BY <1>1, <2>2, <2>5, SamePc, SameConns DEF Types
  <2>6. ASSUME NEW c \in Clients, Decide(c), NEW s \in OnDone(At(c), done), Set(c, s) PROVE Types'
    BY <1>1, <2>2, <2>6, SamePc, DoneTypes DEF Types
  <2> QED BY <2>3, <2>4, <2>5, <2>6, Zenon DEF TakesDone
<1>4. CASE TakeFailed
  <2>1. owners' = owners /\ pc' = pc
    BY <1>4 DEF TakeFailed
  <2>2. ServerTypes' /\ PcTypes'
    BY <1>0, <1>2, <2>1, SamePc DEF ServerTypes
  <2>3. \A c \in Clients : ClosedView(view[c]) \in ViewSet
    BY <1>0, ViewPuts DEF ViewTypes
  <2>4. view' = [c \in Clients |-> IF view[c].stage = "new" THEN view[c] ELSE ClosedView(view[c])]
    BY <1>4 DEF TakeFailed, ClosedView
  <2>5. waiting' = [c \in Clients |-> FALSE] /\ MirrorMap'
    BY <1>4 DEF TakeFailed, MirrorMap
  <2>6. ViewTypes'
    BY <1>0, <2>3, <2>4, <2>5 DEF ViewTypes
  <2> QED BY <1>1, <2>2, <2>5, <2>6 DEF Types
<1> QED BY <1>3, <1>4, TakeCases

(* A view is opened at a boundary.                                          *)
LEMMA ResumeAtIs ==
  ASSUME LogInv, NEW off
  PROVE  ResumeAt(off) \in Nat /\ ResumeAt(off) \in Starts
<1> DEFINE later == {r \in Between(tail, head) :
                       ~(IF r.kind = "bytes" THEN OffAfter(r) <= off ELSE r.off < off)}
<1>1. later \in SUBSET log
  BY DEF Between
<1>2. ResumeAt(off) = IF later = {} THEN head ELSE Earliest(later).at
  BY DEF ResumeAt
<1> HIDE DEF later
<1>3. later # {} => Earliest(later) \in log
  BY <1>1, EarliestIs
<1>4. head \in Nat /\ head \in Starts
  BY DEF LogInv, Starts
<1> QED BY <1>2, <1>3, <1>4, RecordIs

(* The views that the operations leave are views.                           *)
LEMMA StateViews ==
  ASSUME LogInv, Types, NEW c \in Clients
  PROVE  /\ SkipView(c) \in ViewSet /\ ClearView(c) \in ViewSet /\ PlaceView(c) \in ViewSet
         /\ \A history \in Asked : /\ FreshView(c, history) \in ViewSet
                                   /\ WantedView(c, history) \in ViewSet
         /\ \A history \in Asked, off \in Nat : ResumedView(c, history, off) \in ViewSet
<1>1. PICK u \in ViewSet : u = view[c]
  BY DEF Types, ViewTypes
<1>2. End \in Nat /\ tail \in Nat
  BY DEF LogInv
<1>3. PICK v : v = SkipView(c)
  OBVIOUS
<1>4. v \in ViewSet
  BY <1>1, <1>2, <1>3 DEF SkipView, ViewSet, Asked
<1>5. PICK v1 : v1 = ClearView(c)
  OBVIOUS
<1>6. v1 \in ViewSet
  BY <1>1, <1>5 DEF ClearView, ViewSet
<1>7. PICK v2 : v2 = PlaceView(c)
  OBVIOUS
<1>8. v2 \in ViewSet
  BY <1>1, <1>2, <1>7 DEF PlaceView, ViewSet
<1>9. ASSUME NEW history \in Asked
      PROVE  FreshView(c, history) \in ViewSet /\ WantedView(c, history) \in ViewSet
  <2>1. PICK v3 : v3 = FreshView(c, history)
    OBVIOUS
  <2>2. v3 \in ViewSet
    BY <1>1, <1>2, <2>1 DEF FreshView, ViewSet, Stages
  <2>3. PICK v4 : v4 = WantedView(c, history)
    OBVIOUS
  <2>4. v4 \in ViewSet
    BY <1>1, <2>3 DEF WantedView, ViewSet
  <2> QED BY <2>1, <2>2, <2>3, <2>4
<1>10. ASSUME NEW history \in Asked, NEW off \in Nat
       PROVE  ResumedView(c, history, off) \in ViewSet
  <2>1. PICK v3 : v3 = ResumedView(c, history, off)
    OBVIOUS
  <2>2. PICK at \in Nat : at = ResumeAt(off)
    BY ResumeAtIs
  <2>3. v3 \in ViewSet
    BY <1>1, <2>1, <2>2 DEF ResumedView, ViewSet, Stages
  <2> QED BY <2>1, <2>3
<1> QED BY <1>3, <1>4, <1>5, <1>6, <1>7, <1>8, <1>9, <1>10

(* An asking step keeps all of the types.                                   *)
LEMMA AsksTypes ==
  ASSUME LogInv, Types, NEW c \in Clients, NEW history \in Asked,
         NEW v \in ViewSet, NEW w \in BOOLEAN, NEW m, Ask(c, history, State(v, w, m)),
         pc' = Rest \/ UNCHANGED pc
  PROVE  Types'
<1>1. (PaneTypes /\ DeliveryTypes /\ ServerTypes /\ ViewTypes /\ MirrorMap)'
  BY AskTypes
<1>2. PcTypes'
  BY SamePc
<1> QED BY <1>1, <1>2 DEF Types

(* A quiet step that replaces one view keeps the types.                     *)
LEMMA SetTypes ==
  ASSUME Types, Quiet, NEW c \in Clients, NEW v \in ViewSet, NEW w \in BOOLEAN, NEW m,
         Set(c, State(v, w, m)), PcTypes'
  PROVE  Types'
<1>1. ViewTypes' /\ MirrorMap'
  BY SetIs DEF Types
<1> QED BY <1>1, QuietTypes DEF Types

(* decide() keeps the types.                                                *)
LEMMA DecidesTypes ==
  ASSUME LogInv, Types, Decides
  PROVE  Types'
<1>1. PICK c \in Clients : c = pc.client
  BY DecidesCases DEF Types, PcTypes
<1>2. view[c] \in ViewSet /\ waiting[c] \in BOOLEAN /\ view[c].history \in Asked /\ view[c].wanted \in Asked
  BY DEF Types, ViewTypes, ViewSet
<1>3. DecidesAs(c)
  BY <1>1, DecidesCases
<1>4. "screen" \in Asked
  BY DEF Asked
<1>5. SkipView(c) \in ViewSet /\ ClearView(c) \in ViewSet /\ PlaceView(c) \in ViewSet
  BY StateViews
<1>6. CASE Quiet /\ UNCHANGED conns /\ pc' = Rest
  BY <1>6, QuietTypes, SameConns, SamePc DEF Types
<1>7. CASE Asks(c, view[c].wanted, At(c)) /\ pc' = Rest
  <2>1. Ask(c, view[c].wanted, State(view[c], waiting[c], mirror[c]))
    BY <1>7, AtIs DEF Asks
  <2> QED BY <1>2, <1>7, <2>1, AsksTypes
<1>8. ASSUME NEW s \in Sent(SkipState(c)), pc' = Rest,
             (s.waiting /\ Set(c, s) /\ Quiet) \/ (~s.waiting /\ Asks(c, "screen", s))
      PROVE  Types'
  <2>1. PICK m : m = Skipped(mirror[c], view[c].coff)
    OBVIOUS
  <2>2. PICK late \in Late(waiting[c]) : s = State(SkipView(c), late, m)
    <3>1. s \in Sent(State(SkipView(c), waiting[c], m))
      BY <1>8, <2>1, SkipStateIs
    <3> QED BY <3>1, SentIs
  <2>3. late \in BOOLEAN
    BY <1>2 DEF Late
  <2>4. CASE Set(c, s) /\ Quiet
    BY <1>5, <1>8, <2>2, <2>3, <2>4, SetTypes, SamePc
  <2>5. CASE Asks(c, "screen", s)
    <3>1. PICK history \in Asked : history = "screen"
      BY <1>4
    <3>2. Ask(c, history, State(SkipView(c), late, m))
      BY <2>2, <2>5, <3>1 DEF Asks
    <3> QED BY <1>5, <1>8, <2>3, <3>2, AsksTypes
  <2> QED BY <1>8, <2>4, <2>5, Zenon
<1>9. ASSUME NEW history \in {view[c].history, "screen"}, Asks(c, history, ClearState(c)), pc' = Rest
      PROVE  Types'
  <2>1. Ask(c, history, State(ClearView(c), waiting[c], mirror[c])) /\ history \in Asked
    BY <1>2, <1>4, <1>9, ClearStateIs DEF Asks
  <2> QED BY <1>2, <1>5, <1>9, <2>1, AsksTypes
<1>10. CASE pc' = [pc EXCEPT !.at = "resume"] /\ Set(c, PlaceState(c)) /\ Quiet
  <2>1. Set(c, State(PlaceView(c), waiting[c], mirror[c]))
    BY <1>10, PlaceStateIs DEF Types
  <2>2. PcTypes'
    BY <1>1, <1>10 DEF Types, PcTypes, PcSet
  <2> QED BY <1>2, <1>5, <1>10, <2>1, <2>2, SetTypes
<1> QED BY <1>3, <1>6, <1>7, <1>8, <1>9, <1>10, Zenon DEF DecidesAs

(* open() keeps the types.                                                  *)
LEMMA OpenTypes ==
  ASSUME LogInv, Types, NEW c \in Clients, Open(c)
  PROVE  Types'
<1>1. OpensAs(c)
  BY OpenCases
<1>2. view[c] \in ViewSet /\ waiting[c] \in BOOLEAN
  BY DEF Types, ViewTypes
<1>3. PICK history \in Histories :
        \/ Asks(c, history, FreshState(c, history)) /\ UNCHANGED pc
        \/ \E off \in Oldest .. End :
             Set(c, ResumedState(c, history, off)) /\ Decide(c) /\ Quiet
  BY <1>1 DEF OpensAs
<1>4. history \in Asked
  BY ViewsAssumption DEF Asked
<1>5. CASE Asks(c, history, FreshState(c, history)) /\ UNCHANGED pc
  <2>1. Ask(c, history, State(FreshView(c, history), waiting[c], mirror[c]))
    BY <1>5, FreshStateIs DEF Asks
  <2>2. FreshView(c, history) \in ViewSet
    BY <1>4, StateViews
  <2> QED BY <1>2, <1>4, <1>5, <2>1, <2>2, AsksTypes
<1>6. ASSUME NEW off \in Oldest .. End,
             Set(c, ResumedState(c, history, off)), Decide(c), Quiet
      PROVE  Types'
  <2>1. PICK missed \in BOOLEAN :
           ResumedState(c, history, off)
             = State(ResumedView(c, history, off), waiting[c], ResumedMirror(c, off, missed))
    BY ResumedStateIs
  <2>2. Oldest \in Nat /\ End \in Nat
    <3>1. CASE tail < head
      <4>1. \E r \in log : r.at = tail
        BY <3>1 DEF LogInv, Starts
      <4>2. PICK r \in log : r = CHOOSE q \in log : q.at = tail
        BY <4>1
      <4> QED BY <3>1, <4>2, RecordIs DEF Oldest
    <3>2. CASE ~(tail < head)
      BY <3>2 DEF Oldest, LogInv
    <3>3. End \in Nat
      BY DEF LogInv
    <3> QED BY <3>1, <3>2, <3>3
  <2>3. off \in Nat
    BY <2>2
  <2>4. ResumedView(c, history, off) \in ViewSet
    BY <1>4, <2>3, StateViews
  <2>5. PcTypes'
    BY <1>6, SamePc
  <2>6. PICK m : m = ResumedMirror(c, off, missed)
    OBVIOUS
  <2>7. Set(c, State(ResumedView(c, history, off), waiting[c], m))
    BY <1>6, <2>1, <2>6
  <2> QED BY <1>2, <1>6, <2>4, <2>5, <2>7, SetTypes
<1> QED BY <1>3, <1>5, <1>6

(* A resync keeps the types.                                                *)
LEMMA ResyncTypes ==
  ASSUME LogInv, Types, NEW c \in Clients, NEW history \in Histories, Resync(c, history)
  PROVE  Types'
<1>1. view[c] \in ViewSet /\ waiting[c] \in BOOLEAN
  BY DEF Types, ViewTypes
<1>2. history \in Asked
  BY ViewsAssumption DEF Asked
<1>3. WantedView(c, history) \in ViewSet
  BY <1>2, StateViews
<1>4. WantedState(c, history) = State(WantedView(c, history), waiting[c], mirror[c])
  BY WantedStateIs
<1>5. /\ UNCHANGED <<dispatching, pc>>
      /\ \/ Ask(c, history, WantedState(c, history))
         \/ /\ Set(c, WantedState(c, history))
            /\ UNCHANGED <<ring, asks, serving, frames, full, life, tags,
                           delivery, open, dead, owners, events>>
  BY ResyncCases
<1>6. CASE Ask(c, history, WantedState(c, history))
  <2>1. Ask(c, history, State(WantedView(c, history), waiting[c], mirror[c]))
    BY <1>4, <1>6
  <2> QED BY <1>1, <1>2, <1>3, <1>5, <2>1, AsksTypes
<1>7. CASE /\ Set(c, WantedState(c, history))
           /\ UNCHANGED <<ring, asks, serving, frames, full, life, tags,
                          delivery, open, dead, owners, events>>
  <2>1. PaneTypes' /\ DeliveryTypes' /\ ServerTypes'
    BY <1>7 DEF Types, PaneTypes, delivery, DeliveryTypes, ServerTypes
  <2>2. ViewTypes' /\ MirrorMap'
    BY <1>1, <1>3, <1>4, <1>7, SetIs DEF Types
  <2> QED BY <1>5, <2>1, <2>2, SamePc DEF Types
<1> QED BY <1>5, <1>6, <1>7

(* A resume moves the cursor to a boundary and no offset past the end.      *)
LEMMA BaseIs ==
  ASSUME LogInv, Types, NEW c \in Clients, NEW pos
  PROVE  BaseView(c, Sending(c, pos)) \in ViewSet
<1>1. PICK sent : sent = Sending(c, pos)
  OBVIOUS
<1>2. PICK u \in ViewSet : u = view[c]
  BY DEF Types, ViewTypes
<1>3. CASE sent = {}
  BY <1>1, <1>2, <1>3 DEF BaseView
<1>4. CASE sent # {}
  <2>1. sent \in SUBSET log
    BY <1>1 DEF Sending, Messages, Between
  <2>2. PICK r \in log : r = Latest(sent)
    BY <1>4, <2>1, LatestIs
  <2>3. PICK at \in Nat, off \in Nat : at = EndOf(r) /\ off = OffAfter(r)
    BY RecordIs
  <2>4. PICK v : v = MovedView(c, r)
    OBVIOUS
  <2>5. v \in ViewSet
    BY <1>2, <2>3, <2>4 DEF MovedView, ViewSet
  <2> QED BY <1>1, <1>4, <2>2, <2>4, <2>5 DEF BaseView
<1> QED BY <1>1, <1>3, <1>4

(* A resume keeps the types.                                                *)
LEMMA ResumeTypes ==
  ASSUME LogInv, Types, Resume
  PROVE  Types'
<1>1. PICK c \in Clients : c = pc.client
  BY ResumeCases DEF Types, PcTypes
<1>2. pc' = Rest /\ Quiet /\ ResumesAs(c)
  BY <1>1, ResumeCases
<1>3. PcTypes'
  BY <1>2, SamePc
<1>4. ASSUME NEW u \in ViewSet PROVE HeadView(u) \in ViewSet /\ HeldView(u) \in ViewSet
  BY DEF HeadView, HeldView, ViewSet, LogInv
<1>5. waiting[c] \in BOOLEAN
  BY DEF Types, ViewTypes
<1>6. ASSUME NEW v \in ViewSet, NEW w \in BOOLEAN, NEW m, Set(c, State(v, w, m)) PROVE Types'
  BY <1>2, <1>3, <1>6, SetTypes
<1>7. ASSUME NEW w \in Late(waiting[c]),
             Set(c, State(HeadView(BaseView(c, Sending(c, head))), w, BaseMirror(c, Sending(c, head))))
      PROVE  Types'
  <2>1. w \in BOOLEAN
    BY <1>5 DEF Late
  <2>2. HeadView(BaseView(c, Sending(c, head))) \in ViewSet
    BY <1>4, BaseIs
  <2> QED BY <1>6, <1>7, <2>1, <2>2
<1>8. ASSUME NEW pos \in Starts, NEW w \in BOOLEAN,
             Set(c, State(HeldView(BaseView(c, Sending(c, pos))), w, BaseMirror(c, Sending(c, pos))))
      PROVE  Types'
  <2>2. HeldView(BaseView(c, Sending(c, pos))) \in ViewSet
    BY <1>4, BaseIs
  <2> QED BY <1>6, <1>8, <2>2
<1> QED BY <1>2, <1>7, <1>8, Zenon DEF ResumesAs

(* Turns that a client's output or its end begins.                          *)
LEMMA WritableIs ==
  ASSUME ViewTypes, MirrorMap, NEW c \in Clients, Writable(c)
  PROVE  /\ Idle /\ Drained(c) /\ Quiet /\ UNCHANGED dispatching
         /\ \E no \in BOOLEAN : Set(c, State(view[c], no, mirror[c]))
<1>1. PICK no \in BOOLEAN : no = FALSE
  OBVIOUS
<1>2. waiting' = [waiting EXCEPT ![c] = no] /\ view' = view /\ mirror' = mirror
  BY <1>1 DEF Writable
<1>3. view' = [view EXCEPT ![c] = view[c]] /\ mirror' = [mirror EXCEPT ![c] = mirror[c]]
  BY <1>2 DEF ViewTypes, MirrorMap
<1>4. Set(c, State(view[c], no, mirror[c]))
  BY <1>2, <1>3 DEF Set, State
<1> QED BY <1>4 DEF Writable, Quiet

(* A client that leaves closes its view.                                    *)
LEMMA LeaveIs ==
  ASSUME NEW c \in Clients, Leave(c)
  PROVE  /\ Idle /\ view[c].stage \in {"live", "snapshotting"} /\ Use("leave")
         /\ Set(c, ClosedState(view[c], mirror[c], "left"))
         /\ UNCHANGED <<ring, asks, serving, frames, full, life, tags, delivery, server>>
<1>1. Closed(At(c), "left") = ClosedState(view[c], mirror[c], "left")
  <2>1. PICK s : s = At(c) /\ s = State(view[c], waiting[c], mirror[c])
    BY AtIs
  <2> QED BY <2>1, ClosedIs
<1>2. Set(c, Closed(At(c), "left"))
  BY DEF Leave
<1> QED BY <1>1, <1>2 DEF Leave

(* What a client and its output begin keeps the types.                      *)
LEMMA ClientTypes ==
  ASSUME LogInv, Types, NEW c \in Clients, Pump(c) \/ Writable(c) \/ Leave(c)
  PROVE  Types'
<1>0. view[c] \in ViewSet
  BY DEF Types, ViewTypes
<1>1. CASE Pump(c)
  <2>1. Decide(c) /\ Quiet /\ UNCHANGED conns
    BY <1>1 DEF Pump, Quiet
  <2> QED BY <2>1, QuietTypes, SameConns, SamePc DEF Types
<1>2. CASE Writable(c)
  <2>1. Drained(c) /\ Quiet /\ \E no \in BOOLEAN : Set(c, State(view[c], no, mirror[c]))
    BY <1>2, WritableIs DEF Types
  <2> QED BY <1>0, <2>1, SamePc, SetTypes
<1>3. CASE Leave(c)
  <2>1. /\ Set(c, ClosedState(view[c], mirror[c], "left"))
        /\ UNCHANGED <<ring, asks, serving, frames, full, life, tags, delivery, server>>
    BY <1>3, LeaveIs
  <2>2. PaneTypes' /\ DeliveryTypes' /\ ServerTypes' /\ UNCHANGED pc
    BY <2>1 DEF Types, PaneTypes, delivery, DeliveryTypes, server, ServerTypes
  <2>3. PICK no \in BOOLEAN : no = FALSE
    OBVIOUS
  <2>4. Set(c, State(ClosedView(view[c]), no, Ended(mirror[c], "left")))
    BY <2>1, <2>3 DEF ClosedState
  <2>5. ViewTypes' /\ MirrorMap'
    BY <1>0, <2>4, ViewPuts, SetIs DEF Types
  <2> QED BY <2>2, <2>5, SamePc DEF Types
<1> QED BY <1>1, <1>2, <1>3

(* What the other proofs start from.                                        *)
TypeInv == LogInv /\ TagInv /\ Types

(* Every step keeps the log, the tags and the types.                        *)
LEMMA StepTypes ==
  ASSUME TypeInv, [Next]_vars
  PROVE  TypeInv'
<1>0. LogInv /\ TagInv /\ Types
  BY DEF TypeInv
<1>1. LogInv' /\ TagInv'
  <2>1. LogStep
    BY NextLog
  <2>2. serving.req \in Nat
    BY <1>0 DEF Types, PaneTypes
  <2> QED BY <1>0, <2>1, <2>2, StepLog, StepTags
<1>2. Types'
  <2>1. CASE UNCHANGED vars
    <3>1. UNCHANGED <<pane, delivery, server, conns>>
      BY <2>1 DEF vars
    <3>2. PaneTypes' /\ DeliveryTypes' /\ ServerTypes' /\ UNCHANGED pc
      BY <1>0, <3>1 DEF Types, pane, PaneTypes, delivery, DeliveryTypes, server, ServerTypes
    <3> QED BY <1>0, <3>1, <3>2, SamePc, SameConns DEF Types
  <2>2. CASE PaneWrites \/ PaneResizes \/ PaneExits \/ PaneCrashes \/ PaneStep
    BY <1>0, <2>2, PaneActionTypes
  <2>3. CASE ServerStep
    BY <1>0, <2>3, HandOverTypes, EndScanTypes, EndDoneTypes, ReadTypes, TakeTypes, ClientTypes,
       DecidesTypes, ResumeTypes DEF ServerStep
  <2>4. ASSUME NEW c \in Clients, Writable(c) \/ Open(c) \/ Leave(c) PROVE Types'
    BY <1>0, <2>4, ClientTypes, OpenTypes
  <2>5. ASSUME NEW c \in Clients, NEW history \in Histories, Resync(c, history) PROVE Types'
    BY <1>0, <2>5, ResyncTypes
  <2> QED BY <2>1, <2>2, <2>3, <2>4, <2>5 DEF Next
<1> QED BY <1>1, <1>2 DEF TypeInv

(* The log is tiled, each marker and slice has its tag, and the types hold. *)
LEMMA TypesHold == Spec => []TypeInv
<1>1. Init => TypeInv
  BY InitLog, InitTypes DEF TypeInv
<1>2. TypeInv /\ [Next]_vars => TypeInv'
  BY StepTypes
<1> QED BY <1>1, <1>2, PTL DEF Spec

-----------------------------------------------------------------------------
(* Requests and answers.  A request is counted in the three places where it *)
(* may be: it is in one of them while it has an owner, and in none else but *)
(* for the request that found the pane process gone.                        *)
WaitsOf(serial) == {w \in Waits : w.serial = serial}
DonesOf(serial) == {e \in EventSet : e.t = "done" /\ e.serial = serial}
Owed(serial) ==
  Hits(requests, WaitsOf(serial)) + Hits(finished, WaitsOf(serial)) + Hits(events, DonesOf(serial))
HasOwner(serial) == \E c \in Clients : <<serial, c>> \in owners

OwedOnce  == \A serial \in Nat :
               IF HasOwner(serial) THEN Owed(serial) = 1
               ELSE Owed(serial) = 0 \/ (Owed(serial) = 1 /\ ~open /\ serial = next - 1)
OneOwner  == \A serial \in Nat, c, d \in Clients :
               <<serial, c>> \in owners /\ <<serial, d>> \in owners => c = d
AskerOwns == \A c \in Clients :
               view[c].stage = "snapshotting" => <<view[c].serial, c>> \in owners
OwedInv   == OwedOnce /\ OneOwner /\ AskerOwns

(* A one-to-one function keeps the size of its domain.                      *)
LEMMA SameSize ==
  ASSUME NEW D, IsFiniteSet(D), NEW f \in [D -> Nat], \A j, k \in D : f[j] = f[k] => j = k
  PROVE  IsFiniteSet({f[k] : k \in D}) /\ Cardinality({f[k] : k \in D}) = Cardinality(D)
<1> DEFINE P == {f[k] : k \in D}
<1>1. f \in Bijection(D, P)
  BY DEF Bijection, Injection, Surjection, IsInjective
<1>2. ExistsBijection(D, P)
  BY <1>1 DEF ExistsBijection
<1> QED BY <1>2, FS_Bijection

(* A queue that has each serial at most once has as many as it is long.     *)
LEMMA SerialsCount ==
  ASSUME NEW q \in Seq(Waits)
  PROVE  /\ Serials(q) \subseteq Nat
         /\ \A serial \in Nat : Hits(q, WaitsOf(serial)) \in Nat
         /\ \A serial \in Nat : Hits(q, WaitsOf(serial)) # 0 <=> serial \in Serials(q)
         /\ (\A serial \in Nat : Hits(q, WaitsOf(serial)) <= 1) =>
              IsFiniteSet(Serials(q)) /\ Cardinality(Serials(q)) = Len(q)
<1>1. Len(q) \in Nat /\ DOMAIN q = 1 .. Len(q) /\ \A i \in 1 .. Len(q) : q[i] \in Waits
  OBVIOUS
<1>2. \A i \in 1 .. Len(q) : q[i].serial \in Nat
  BY <1>1 DEF Waits
<1>3. Serials(q) \subseteq Nat
  BY <1>1, <1>2 DEF Serials
<1>4. ASSUME NEW serial \in Nat
      PROVE  /\ Hits(q, WaitsOf(serial)) \in Nat
             /\ Hits(q, WaitsOf(serial)) # 0 <=> serial \in Serials(q)
  <2>1. Hits(q, WaitsOf(serial)) \in Nat /\ (Hits(q, WaitsOf(serial)) = 0 <=> Elems(q) \cap WaitsOf(serial) = {})
    BY HitsType
  <2>2. Elems(q) \cap WaitsOf(serial) # {} <=> serial \in Serials(q)
    BY <1>1 DEF Elems, WaitsOf, Serials
  <2> QED BY <2>1, <2>2
<1>5. ASSUME \A serial \in Nat : Hits(q, WaitsOf(serial)) <= 1
      PROVE  IsFiniteSet(Serials(q)) /\ Cardinality(Serials(q)) = Len(q)
  <2> DEFINE f == [i \in 1 .. Len(q) |-> q[i].serial]
  <2>1. IsFiniteSet(1 .. Len(q)) /\ Cardinality(1 .. Len(q)) = Len(q)
    <3>1. PICK n \in Nat : n = Len(q)
      BY <1>1
    <3>2. IsFiniteSet(1 .. n) /\ Cardinality(1 .. n) = IF 1 > n THEN 0 ELSE n - 1 + 1
      BY FS_Interval
    <3>3. Cardinality(1 .. n) = n
      BY <3>2
    <3> QED BY <3>1, <3>2, <3>3
  <2>2. f \in [1 .. Len(q) -> Nat]
    BY <1>2
  <2>3. ASSUME NEW j \in 1 .. Len(q), NEW k \in 1 .. Len(q), f[j] = f[k] PROVE j = k
    <3>1. PICK serial \in Nat : serial = q[j].serial
      BY <1>2
    <3>2. q[j] \in WaitsOf(serial) /\ q[k] \in WaitsOf(serial)
      BY <1>1, <2>3, <3>1 DEF WaitsOf
    <3> QED BY <1>5, <3>2, HitsType
  <2>4. Serials(q) = {f[k] : k \in 1 .. Len(q)}
    BY <1>1 DEF Serials
  <2> HIDE DEF f
  <2> QED BY <2>1, <2>2, <2>3, <2>4, SameSize
<1> QED BY <1>3, <1>4, <1>5

(* The same for the answers among the events.                               *)
LEMMA DonesCount ==
  ASSUME events \in Seq(EventSet)
  PROVE  LET dones == {i \in DOMAIN events : events[i].t = "done"}
             serials == {events[i].serial : i \in dones} IN
         /\ serials \subseteq Nat
         /\ \A serial \in Nat : Hits(events, DonesOf(serial)) \in Nat
         /\ \A serial \in Nat : Hits(events, DonesOf(serial)) # 0 <=> serial \in serials
         /\ (\A serial \in Nat : Hits(events, DonesOf(serial)) <= 1) =>
              IsFiniteSet(serials) /\ Cardinality(serials) = Cardinality(dones)
<1> DEFINE dones == {i \in DOMAIN events : events[i].t = "done"}
           serials == {events[i].serial : i \in dones}
<1>1. /\ Len(events) \in Nat /\ DOMAIN events = 1 .. Len(events)
      /\ \A i \in 1 .. Len(events) : events[i] \in EventSet
  OBVIOUS
<1>2. \A i \in 1 .. Len(events) : events[i].serial \in Nat
  BY <1>1 DEF EventSet
<1>3. serials \subseteq Nat
  BY <1>1, <1>2
<1>4. ASSUME NEW serial \in Nat
      PROVE  /\ Hits(events, DonesOf(serial)) \in Nat
             /\ Hits(events, DonesOf(serial)) # 0 <=> serial \in serials
  <2>1. /\ Hits(events, DonesOf(serial)) \in Nat
        /\ (Hits(events, DonesOf(serial)) = 0 <=> Elems(events) \cap DonesOf(serial) = {})
    BY HitsType
  <2>2. Elems(events) \cap DonesOf(serial) # {} <=> serial \in serials
    BY <1>1 DEF Elems, DonesOf
  <2> QED BY <2>1, <2>2
<1>5. ASSUME \A serial \in Nat : Hits(events, DonesOf(serial)) <= 1
      PROVE  IsFiniteSet(serials) /\ Cardinality(serials) = Cardinality(dones)
  <2> DEFINE f == [i \in dones |-> events[i].serial]
  <2>1. IsFiniteSet(dones)
    <3>1. IsFiniteSet(1 .. Len(events))
      BY <1>1, FS_Interval
    <3> QED BY <1>1, <3>1, FS_Subset
  <2>2. f \in [dones -> Nat]
    BY <1>1, <1>2
  <2>3. ASSUME NEW j \in dones, NEW k \in dones, f[j] = f[k] PROVE j = k
    <3>0. j \in 1 .. Len(events) /\ k \in 1 .. Len(events)
      BY <1>1
    <3>1. PICK serial \in Nat : serial = events[j].serial
      BY <1>2, <3>0
    <3>2. events[j] \in DonesOf(serial) /\ events[k] \in DonesOf(serial)
      BY <1>1, <2>3, <3>0, <3>1 DEF DonesOf
    <3> QED BY <1>5, <3>0, <3>2, HitsType
  <2>4. serials = {f[k] : k \in dones}
    OBVIOUS
  <2> HIDE DEF f, dones, serials
  <2> QED BY <2>1, <2>2, <2>3, <2>4, SameSize
<1> QED BY <1>3, <1>4, <1>5

(* What a step does to the queues of requests and answers.                  *)
Stay == UNCHANGED <<next, open>>
Requested(c) ==
  /\ open /\ next' = next + 1 /\ UNCHANGED open
  /\ \E w \in Waits : /\ w.serial = next /\ requests' = Append(requests, w)
                      /\ owners' = owners \cup {<<next, c>>}
                      /\ UNCHANGED <<finished, events>>
Found ==
  /\ requests # <<>> /\ requests' = Tail(requests)
  /\ \E w \in Waits : w.serial = requests[1].serial /\ finished' = Append(finished, w)
  /\ UNCHANGED <<events, owners>> /\ Stay
Confirmed ==
  /\ finished # <<>> /\ finished' = Tail(finished)
  /\ \E e \in DonesOf(finished[1].serial) : events' = Append(events, e)
  /\ UNCHANGED <<requests, owners>> /\ Stay
Unfound ==
  /\ requests # <<>> /\ requests' = Tail(requests)
  /\ \E e \in DonesOf(requests[1].serial) : events' = Append(events, e)
  /\ UNCHANGED <<finished, owners>> /\ Stay
AllFailed ==
  /\ requests' = <<>> /\ finished' = <<>> /\ UNCHANGED <<owners, next>> /\ ~open'
  /\ \/ events' = <<>> \o Failed(requests) \o events
     \/ events' = events \o Failed(requests) \o <<>>
Lost ==
  /\ open /\ ~open' /\ next' = next + 1 /\ requests' = <<>> /\ finished' = <<>> /\ UNCHANGED owners
  /\ \E w \in Waits : w.serial = next /\ events' = <<>> \o Failed(Append(requests, w)) \o events
Answered ==
  /\ events # <<>> /\ Head(events).t = "done" /\ events' = Tail(events)
  /\ owners' = {o \in owners : o[1] # Head(events).serial}
  /\ UNCHANGED <<requests, finished>> /\ Stay
Removed ==
  /\ events # <<>> /\ Head(events).t # "done" /\ events' = Tail(events)
  /\ UNCHANGED <<requests, finished, owners>> /\ Stay

OwedStep ==
  \/ UNCHANGED <<requests, finished, events, owners>> /\ Stay
  \/ \E c \in Clients : Requested(c)
  \/ Found \/ Confirmed \/ Unfound \/ AllFailed \/ Lost \/ Answered \/ Removed

(* Queues that grow and shrink at their ends, counted.                      *)
LEMMA WaitsEnds ==
  ASSUME NEW q \in Seq(Waits), NEW serial \in Nat
  PROVE  /\ Hits(q, WaitsOf(serial)) \in Nat /\ Hits(<<>>, WaitsOf(serial)) = 0
         /\ \A w \in Waits : Hits(Append(q, w), WaitsOf(serial))
                               = Hits(q, WaitsOf(serial)) + IF w.serial = serial THEN 1 ELSE 0
         /\ q # <<>> => Hits(q, WaitsOf(serial))
                          = Hits(Tail(q), WaitsOf(serial)) + IF q[1].serial = serial THEN 1 ELSE 0
         /\ q # <<>> => Hits(Tail(q), WaitsOf(serial)) \in Nat
<1>1. \A w \in Waits : w \in WaitsOf(serial) <=> w.serial = serial
  BY DEF WaitsOf
<1>2. Hits(q, WaitsOf(serial)) \in Nat /\ Hits(<<>>, WaitsOf(serial)) = 0
  BY HitsType, HitsOne
<1>3. ASSUME NEW w \in Waits
      PROVE  Hits(Append(q, w), WaitsOf(serial))
               = Hits(q, WaitsOf(serial)) + IF w.serial = serial THEN 1 ELSE 0
  BY <1>1, HitsEnds
<1>4. ASSUME q # <<>>
      PROVE  /\ Hits(q, WaitsOf(serial))
                  = Hits(Tail(q), WaitsOf(serial)) + IF q[1].serial = serial THEN 1 ELSE 0
             /\ Hits(Tail(q), WaitsOf(serial)) \in Nat
  <2>1. Tail(q) \in Seq(Waits) /\ q[1] \in Waits /\ Head(q) = q[1]
    BY <1>4
  <2>2. Hits(q, WaitsOf(serial)) = Hits(Tail(q), WaitsOf(serial)) + IF Head(q) \in WaitsOf(serial) THEN 1 ELSE 0
    BY <1>4, HitsEnds
  <2>3. Hits(Tail(q), WaitsOf(serial)) \in Nat
    BY <2>1, HitsType
  <2> QED BY <1>1, <2>1, <2>2, <2>3
<1> QED BY <1>2, <1>3, <1>4

(* The answers among the events, counted when one is put or taken.          *)
LEMMA DonesEnds ==
  ASSUME NEW q \in Seq(EventSet), NEW serial \in Nat
  PROVE  /\ Hits(q, DonesOf(serial)) \in Nat /\ Hits(<<>>, DonesOf(serial)) = 0
         /\ \A other \in Nat : \A e \in DonesOf(other) :
              /\ e \in EventSet
              /\ Hits(Append(q, e), DonesOf(serial))
                   = Hits(q, DonesOf(serial)) + IF other = serial THEN 1 ELSE 0
         /\ q # <<>> => /\ Hits(Tail(q), DonesOf(serial)) \in Nat
                        /\ Hits(q, DonesOf(serial))
                             = Hits(Tail(q), DonesOf(serial))
                                 + IF Head(q).t = "done" /\ Head(q).serial = serial THEN 1 ELSE 0
<1>1. \A e \in EventSet : e \in DonesOf(serial) <=> e.t = "done" /\ e.serial = serial
  BY DEF DonesOf
<1>2. Hits(q, DonesOf(serial)) \in Nat /\ Hits(<<>>, DonesOf(serial)) = 0
  BY HitsType, HitsOne
<1>3. ASSUME NEW other \in Nat, NEW e \in DonesOf(other)
      PROVE  /\ e \in EventSet
             /\ Hits(Append(q, e), DonesOf(serial))
                  = Hits(q, DonesOf(serial)) + IF other = serial THEN 1 ELSE 0
  <2>1. e \in EventSet /\ (e \in DonesOf(serial) <=> other = serial)
    BY DEF DonesOf
  <2> QED BY <2>1, HitsEnds
<1>4. ASSUME q # <<>>
      PROVE  /\ Hits(Tail(q), DonesOf(serial)) \in Nat
             /\ Hits(q, DonesOf(serial))
                  = Hits(Tail(q), DonesOf(serial))
                      + IF Head(q).t = "done" /\ Head(q).serial = serial THEN 1 ELSE 0
  <2>1. Tail(q) \in Seq(EventSet) /\ Head(q) \in EventSet
    BY <1>4
  <2>2. Hits(q, DonesOf(serial)) = Hits(Tail(q), DonesOf(serial)) + IF Head(q) \in DonesOf(serial) THEN 1 ELSE 0
    BY <1>4, HitsEnds
  <2> QED BY <1>1, <2>1, <2>2, HitsType
<1> QED BY <1>2, <1>3, <1>4

(* A failure answers each request once.                                     *)
LEMMA FailedCounts ==
  ASSUME DeliveryTypes, NEW serial \in Nat, NEW asked \in Seq(Waits)
  PROVE  Hits(Failed(asked), DonesOf(serial))
           = Hits(finished, WaitsOf(serial)) + Hits(asked, WaitsOf(serial))
<1> DEFINE all == finished \o asked
           dones == [i \in 1 .. Len(all) |-> Done(all[i], NoHold, 0)]
           failed == [t |-> "failed", serial |-> 0, hold |-> NoHold, slices |-> 0]
<1>1. finished \in Seq(Waits) /\ asked \in Seq(Waits)
  BY DEF DeliveryTypes
<1>2. Hits(all, WaitsOf(serial)) = Hits(finished, WaitsOf(serial)) + Hits(asked, WaitsOf(serial))
  BY <1>1, HitsConcat
<1>3. all \in Seq(Waits) /\ Len(all) \in Nat
  BY <1>1
<1> HIDE DEF all
<1>4. ASSUME NEW i \in 1 .. Len(all)
      PROVE  dones[i] \in EventSet /\ (dones[i] \in DonesOf(serial) <=> all[i] \in WaitsOf(serial))
  <2>1. all[i] \in Waits /\ NoHold \in Nat \cup {NoHold} /\ 0 \in Nat
    BY <1>3
  <2>2. PICK e : e = Done(all[i], NoHold, 0)
    OBVIOUS
  <2>3. e \in EventSet /\ e.t = "done" /\ e.serial = all[i].serial
    <3>1. PICK hold \in Nat \cup {NoHold}, none \in Nat : hold = NoHold /\ none = 0
      BY <2>1
    <3>2. e = Done(all[i], hold, none)
      BY <2>2, <3>1
    <3> QED BY <2>1, <3>2, DoneIs
  <2> QED BY <2>1, <2>2, <2>3 DEF DonesOf, WaitsOf
<1>5. dones \in Seq(EventSet) /\ Len(dones) = Len(all)
  BY <1>3, <1>4
<1>6. Spots(dones, DonesOf(serial)) = Spots(all, WaitsOf(serial))
  BY <1>4, <1>5 DEF Spots
<1>7. Hits(dones, DonesOf(serial)) = Hits(all, WaitsOf(serial))
  BY <1>6 DEF Hits
<1>8. failed \in EventSet /\ failed \notin DonesOf(serial)
  BY DEF EventSet, DonesOf
<1>9. Failed(asked) = dones \o <<failed>>
  BY DEF Failed, all
<1> HIDE DEF dones, failed
<1>10. <<failed>> \in Seq(EventSet) /\ Hits(<<failed>>, DonesOf(serial)) = 0
  BY <1>8, HitsOne, ElemsOne
<1>11. Hits(Failed(asked), DonesOf(serial)) = Hits(dones, DonesOf(serial)) + Hits(<<failed>>, DonesOf(serial))
  BY <1>5, <1>9, <1>10, HitsConcat
<1>12. Hits(dones, DonesOf(serial)) \in Nat
  BY <1>5, HitsType
<1> QED BY <1>2, <1>7, <1>10, <1>11, <1>12

(* The counts after a step: every move between the places keeps them.       *)
LEMMA OwedMoves ==
  ASSUME Types, OwedOnce, OneOwner, OwedStep
  PROVE  OwedOnce' /\ OneOwner'
<1>0. /\ requests \in Seq(Waits) /\ finished \in Seq(Waits) /\ events \in Seq(EventSet)
      /\ next \in Nat /\ owners \subseteq (1 .. next - 1) \X Clients
  BY DEF Types, DeliveryTypes, ServerTypes
<1>1. CASE UNCHANGED <<requests, finished, events, owners>> /\ Stay
  BY <1>1 DEF OwedOnce, OneOwner, Owed, HasOwner, Stay
<1>2. ASSUME NEW c \in Clients, Requested(c) PROVE OwedOnce' /\ OneOwner'
  <2>0. open /\ open' = open /\ next' = next + 1
    BY <1>2 DEF Requested
  <2>1. PICK w \in Waits : /\ w.serial = next /\ requests' = Append(requests, w)
                           /\ owners' = owners \cup {<<next, c>>}
                           /\ UNCHANGED <<finished, events>>
    BY <1>2 DEF Requested
  <2>2. \A d : <<next, d>> \notin owners
    BY <1>0
  <2>3. OneOwner'
    BY <2>1, <2>2 DEF OneOwner
  <2>4. ASSUME NEW serial \in Nat
        PROVE  Owed(serial)' = IF HasOwner(serial)' THEN 1 ELSE 0
    <3>1. Hits(requests', WaitsOf(serial)) = Hits(requests, WaitsOf(serial)) + IF next = serial THEN 1 ELSE 0
      <4>1. requests \in Seq(Waits)
        BY <1>0
      <4>2. Hits(Append(requests, w), WaitsOf(serial)) = Hits(requests, WaitsOf(serial)) + IF w.serial = serial THEN 1 ELSE 0
        BY <4>1, WaitsEnds
      <4> QED BY <2>1, <4>2
    <3>2. HasOwner(serial)' <=> HasOwner(serial) \/ serial = next
      BY <2>1 DEF HasOwner
    <3>3. ~HasOwner(next)
      BY <2>2 DEF HasOwner
    <3>4. /\ Hits(requests, WaitsOf(serial)) \in Nat /\ Hits(finished, WaitsOf(serial)) \in Nat
          /\ Hits(events, DonesOf(serial)) \in Nat
      BY <1>0, WaitsEnds, DonesEnds
    <3>5. Owed(serial) = IF HasOwner(serial) THEN 1 ELSE 0
      BY <2>0 DEF OwedOnce
    <3>6. Owed(serial)' = Owed(serial) + IF next = serial THEN 1 ELSE 0
      BY <2>1, <3>1, <3>4 DEF Owed
    <3> QED BY <3>2, <3>3, <3>5, <3>6
  <2> QED BY <2>3, <2>4 DEF OwedOnce
<1>3. ASSUME Found \/ Confirmed \/ Unfound \/ AllFailed \/ Removed PROVE OwedOnce' /\ OneOwner'
  <2>1. owners' = owners /\ next' = next /\ (~open => ~open')
    BY <1>3 DEF Found, Confirmed, Unfound, AllFailed, Removed, Stay
  <2>2. OneOwner'
    BY <2>1 DEF OneOwner
  <2>3. ASSUME NEW serial \in Nat PROVE Owed(serial)' = Owed(serial)
    <3>1. /\ Hits(requests, WaitsOf(serial)) \in Nat /\ Hits(finished, WaitsOf(serial)) \in Nat
          /\ Hits(events, DonesOf(serial)) \in Nat /\ Hits(<<>>, WaitsOf(serial)) = 0
      BY <1>0, WaitsEnds, DonesEnds
    <3>2. /\ requests # <<>> => requests[1] \in Waits /\ requests[1].serial \in Nat
          /\ finished # <<>> => finished[1] \in Waits /\ finished[1].serial \in Nat
      <4>1. /\ requests # <<>> => requests[1] \in Waits
            /\ finished # <<>> => finished[1] \in Waits
        BY <1>0
      <4>2. \A w \in Waits : w.serial \in Nat
        BY DEF Waits
      <4> QED BY <4>1, <4>2
    <3>3. CASE Found
      <4>1. PICK w \in Waits : /\ requests # <<>> /\ requests' = Tail(requests)
                               /\ w.serial = requests[1].serial /\ finished' = Append(finished, w)
                               /\ UNCHANGED <<events, owners>>
        BY <3>3 DEF Found
      <4>2. /\ Hits(requests, WaitsOf(serial))
                 = Hits(Tail(requests), WaitsOf(serial)) + IF requests[1].serial = serial THEN 1 ELSE 0
            /\ Hits(Tail(requests), WaitsOf(serial)) \in Nat
        BY <1>0, <4>1, WaitsEnds
      <4>3. Hits(Append(finished, w), WaitsOf(serial))
              = Hits(finished, WaitsOf(serial)) + IF w.serial = serial THEN 1 ELSE 0
        BY <1>0, WaitsEnds
      <4> QED BY <3>1, <4>1, <4>2, <4>3 DEF Owed
    <3>4. CASE Confirmed
      <4>1. PICK e \in DonesOf(finished[1].serial) :
                   /\ finished # <<>> /\ finished' = Tail(finished)
                   /\ events' = Append(events, e) /\ UNCHANGED <<requests, owners>>
        BY <3>4 DEF Confirmed
      <4>2. /\ Hits(finished, WaitsOf(serial))
                 = Hits(Tail(finished), WaitsOf(serial)) + IF finished[1].serial = serial THEN 1 ELSE 0
            /\ Hits(Tail(finished), WaitsOf(serial)) \in Nat
        BY <1>0, <4>1, WaitsEnds
      <4>3. Hits(Append(events, e), DonesOf(serial))
              = Hits(events, DonesOf(serial)) + IF finished[1].serial = serial THEN 1 ELSE 0
        <5>1. PICK other \in Nat : other = finished[1].serial
          BY <3>2, <4>1
        <5>2. e \in DonesOf(other)
          BY <4>1, <5>1
        <5>3. Hits(Append(events, e), DonesOf(serial))
                = Hits(events, DonesOf(serial)) + IF other = serial THEN 1 ELSE 0
          <6>1. events \in Seq(EventSet)
            BY <1>0
          <6> QED BY <5>2, <6>1, DonesEnds, SMTT(20)
        <5> QED BY <5>1, <5>3
      <4> QED BY <3>1, <4>1, <4>2, <4>3 DEF Owed
    <3>5. CASE Unfound
      <4>1. PICK e \in DonesOf(requests[1].serial) :
                   /\ requests # <<>> /\ requests' = Tail(requests)
                   /\ events' = Append(events, e) /\ UNCHANGED <<finished, owners>>
        BY <3>5 DEF Unfound
      <4>2. /\ Hits(requests, WaitsOf(serial))
                 = Hits(Tail(requests), WaitsOf(serial)) + IF requests[1].serial = serial THEN 1 ELSE 0
            /\ Hits(Tail(requests), WaitsOf(serial)) \in Nat
        BY <1>0, <4>1, WaitsEnds
      <4>3. Hits(Append(events, e), DonesOf(serial))
              = Hits(events, DonesOf(serial)) + IF requests[1].serial = serial THEN 1 ELSE 0
        <5>1. PICK other \in Nat : other = requests[1].serial
          BY <3>2, <4>1
        <5>2. e \in DonesOf(other)
          BY <4>1, <5>1
        <5>3. Hits(Append(events, e), DonesOf(serial))
                = Hits(events, DonesOf(serial)) + IF other = serial THEN 1 ELSE 0
          <6>1. events \in Seq(EventSet)
            BY <1>0
          <6> QED BY <5>2, <6>1, DonesEnds, SMTT(20)
        <5> QED BY <5>1, <5>3
      <4> QED BY <3>1, <4>1, <4>2, <4>3 DEF Owed
    <3>6. CASE AllFailed
      <4>1. DeliveryTypes /\ <<>> \in Seq(EventSet)
        BY ElemsNone DEF Types
      <4>2. Failed(requests) \in Seq(EventSet)
        BY <1>0, <4>1, FailedIs
      <4>3. Hits(Failed(requests), DonesOf(serial))
              = Hits(finished, WaitsOf(serial)) + Hits(requests, WaitsOf(serial))
        BY <1>0, <4>1, FailedCounts
      <4>4. events' = Failed(requests) \o events \/ events' = events \o Failed(requests)
        BY <1>0, <3>6, <4>2 DEF AllFailed
      <4>5. /\ Hits(Failed(requests) \o events, DonesOf(serial)) = Hits(Failed(requests), DonesOf(serial)) + Hits(events, DonesOf(serial))
            /\ Hits(events \o Failed(requests), DonesOf(serial)) = Hits(events, DonesOf(serial)) + Hits(Failed(requests), DonesOf(serial))
        BY <1>0, <4>2, HitsConcat
      <4>6. Hits(events', DonesOf(serial)) = Hits(events, DonesOf(serial)) + Hits(Failed(requests), DonesOf(serial))
        <5>1. Hits(Failed(requests), DonesOf(serial)) \in Nat
          BY <4>2, DonesEnds
        <5>2. CASE events' = Failed(requests) \o events
          BY <3>1, <4>5, <5>1, <5>2
        <5>3. CASE events' = events \o Failed(requests)
          BY <4>5, <5>3
        <5> QED BY <4>4, <5>2, <5>3
      <4>7. requests' = <<>> /\ finished' = <<>>
        BY <3>6 DEF AllFailed
      <4> QED BY <3>1, <4>3, <4>6, <4>7 DEF Owed
    <3>7. CASE Removed
      <4>1. events # <<>> /\ Head(events).t # "done" /\ events' = Tail(events)
            /\ UNCHANGED <<requests, finished, owners>>
        BY <3>7 DEF Removed
      <4>2. /\ Hits(Tail(events), DonesOf(serial)) \in Nat
            /\ Hits(events, DonesOf(serial)) = Hits(Tail(events), DonesOf(serial))
                 + IF Head(events).t = "done" /\ Head(events).serial = serial THEN 1 ELSE 0
        BY <1>0, <4>1, DonesEnds
      <4> QED BY <3>1, <4>1, <4>2 DEF Owed
    <3> QED BY <1>3, <3>3, <3>4, <3>5, <3>6, <3>7
  <2> QED BY <2>1, <2>2, <2>3 DEF OwedOnce, HasOwner
<1>4. CASE Answered
  <2>1. /\ events # <<>> /\ Head(events).t = "done" /\ events' = Tail(events)
        /\ owners' = {o \in owners : o[1] # Head(events).serial}
        /\ UNCHANGED <<requests, finished>>
    BY <1>4 DEF Answered
  <2>2. OneOwner'
    BY <2>1 DEF OneOwner
  <2>3. ASSUME NEW serial \in Nat
        PROVE  IF HasOwner(serial)' THEN Owed(serial)' = 1
               ELSE Owed(serial)' = 0 \/ (Owed(serial)' = 1 /\ ~open' /\ serial = next' - 1)
    <3>0. open' = open /\ next' = next
      BY <1>4 DEF Answered, Stay
    <3>1. /\ Hits(requests, WaitsOf(serial)) \in Nat /\ Hits(finished, WaitsOf(serial)) \in Nat
          /\ Hits(events, DonesOf(serial)) \in Nat
      BY <1>0, WaitsEnds, DonesEnds
    <3>2. /\ Hits(Tail(events), DonesOf(serial)) \in Nat
          /\ Hits(events, DonesOf(serial)) = Hits(Tail(events), DonesOf(serial))
               + IF Head(events).t = "done" /\ Head(events).serial = serial THEN 1 ELSE 0
      BY <1>0, <2>1, DonesEnds
    <3>3. IF HasOwner(serial) THEN Owed(serial) = 1
          ELSE Owed(serial) = 0 \/ (Owed(serial) = 1 /\ ~open /\ serial = next - 1)
      BY DEF OwedOnce
    <3>4. HasOwner(serial)' <=> HasOwner(serial) /\ serial # Head(events).serial
      BY <2>1 DEF HasOwner
    <3>5. Owed(serial) = Owed(serial)' + IF Head(events).serial = serial THEN 1 ELSE 0
      BY <2>1, <3>1, <3>2 DEF Owed
    <3>6. Owed(serial)' \in Nat
      BY <2>1, <3>1, <3>2 DEF Owed
    <3> QED BY <3>0, <3>3, <3>4, <3>5, <3>6
  <2> QED BY <2>2, <2>3 DEF OwedOnce
<1>5. CASE Lost
  <2>1. PICK w \in Waits : w.serial = next /\ events' = <<>> \o Failed(Append(requests, w)) \o events
    BY <1>5 DEF Lost
  <2>2. /\ open /\ ~open' /\ next' = next + 1 /\ requests' = <<>> /\ finished' = <<>>
        /\ owners' = owners
    BY <1>5 DEF Lost
  <2>3. OneOwner'
    BY <2>2 DEF OneOwner
  <2>4. ASSUME NEW serial \in Nat
        PROVE  IF HasOwner(serial)' THEN Owed(serial)' = 1
               ELSE Owed(serial)' = 0 \/ (Owed(serial)' = 1 /\ ~open' /\ serial = next' - 1)
    <3>1. PICK more : more = Append(requests, w)
      OBVIOUS
    <3>2. more \in Seq(Waits) /\ DeliveryTypes
      BY <1>0, <3>1 DEF Types
    <3>3. Hits(more, WaitsOf(serial)) = Hits(requests, WaitsOf(serial)) + IF next = serial THEN 1 ELSE 0
      <4>1. requests \in Seq(Waits)
        BY <1>0
      <4>2. Hits(Append(requests, w), WaitsOf(serial)) = Hits(requests, WaitsOf(serial)) + IF w.serial = serial THEN 1 ELSE 0
        BY <4>1, WaitsEnds
      <4> QED BY <2>1, <3>1, <4>2
    <3>4. Failed(more) \in Seq(EventSet)
      BY <3>2, FailedIs
    <3>5. Hits(Failed(more), DonesOf(serial)) = Hits(finished, WaitsOf(serial)) + Hits(more, WaitsOf(serial))
      BY <3>2, FailedCounts
    <3>6. events' = Failed(more) \o events
      <4>1. events' = <<>> \o Failed(more) \o events
        BY <2>1, <3>1
      <4> QED BY <1>0, <3>4, <4>1
    <3>7. Hits(events', DonesOf(serial)) = Hits(Failed(more), DonesOf(serial)) + Hits(events, DonesOf(serial))
      BY <1>0, <3>4, <3>6, HitsConcat
    <3>8. /\ Hits(requests, WaitsOf(serial)) \in Nat /\ Hits(finished, WaitsOf(serial)) \in Nat
          /\ Hits(events, DonesOf(serial)) \in Nat /\ Hits(<<>>, WaitsOf(serial)) = 0
      BY <1>0, WaitsEnds, DonesEnds
    <3>9. Owed(serial)' = Owed(serial) + IF next = serial THEN 1 ELSE 0
      BY <2>2, <3>3, <3>5, <3>7, <3>8 DEF Owed
    <3>10. Owed(serial) = IF HasOwner(serial) THEN 1 ELSE 0
      BY <2>2 DEF OwedOnce
    <3>11. HasOwner(serial)' <=> HasOwner(serial)
      BY <2>2 DEF HasOwner
    <3>12. ~HasOwner(next)
      <4>1. owners \subseteq (1 .. next - 1) \X Clients /\ next \in Nat \ {0}
        BY DEF Types, DeliveryTypes, ServerTypes
      <4>2. next \notin 1 .. next - 1
        <5>1. next \in Nat /\ next <= next
          BY <4>1
        <5> QED BY <4>1, <5>1, Below, Zenon
      <4>3. ASSUME NEW c \in Clients, <<next, c>> \in owners
            PROVE  FALSE
        <5>1. <<next, c>> \in (1 .. next - 1) \X Clients
          BY <4>1, <4>3
        <5> QED BY <4>2, <5>1
      <4> QED BY <4>3 DEF HasOwner
    <3> QED BY <1>0, <2>2, <3>9, <3>10, <3>11, <3>12
  <2> QED BY <2>3, <2>4 DEF OwedOnce
<1> QED BY <1>1, <1>2, <1>3, <1>4, <1>5 DEF OwedStep

(* The view of a client that waits for a snapshot is changed by its slices, *)
(* its end and the client alone.                                            *)
Alike(v, u) == v.stage = u.stage /\ v.serial = u.serial

(* Which changes of a view keep what it waits for.                          *)
LEMMA AlikeViews ==
  ASSUME NEW v \in ViewSet
  PROVE  /\ ClosedView(v).stage = "closed" /\ LiveView(v).stage = "live"
         /\ \A history : AskedView(v, history).stage = "snapshotting" /\ AskedView(v, history).serial = next
         /\ \A r, late : Alike(SlicedView(v, r, late), v)
         /\ Alike(HeldView(v), v) /\ Alike(HeadView(v), v)
BY DEF ViewSet, Alike, ClosedView, LiveView, AskedView, SlicedView, HeldView, HeadView

(* Which operations of a client keep what it waits for.                     *)
LEMMA AlikeClients ==
  ASSUME ViewTypes, NEW c \in Clients
  PROVE  /\ \A history : FreshView(c, history).stage = "live"
         /\ \A history, off : ResumedView(c, history, off).stage = "live"
         /\ \A history : Alike(WantedView(c, history), view[c])
         /\ Alike(SkipView(c), view[c]) /\ Alike(ClearView(c), view[c]) /\ Alike(PlaceView(c), view[c])
         /\ \A sent : Alike(BaseView(c, sent), view[c])
<1>1. PICK u \in ViewSet : u = view[c]
  BY DEF ViewTypes
<1>2. /\ \A history : FreshView(c, history).stage = "live"
      /\ \A history, off : ResumedView(c, history, off).stage = "live"
      /\ \A history : Alike(WantedView(c, history), view[c])
  BY <1>1 DEF ViewSet, Alike, FreshView, ResumedView, WantedView
<1>3. Alike(SkipView(c), view[c]) /\ Alike(ClearView(c), view[c]) /\ Alike(PlaceView(c), view[c])
  BY <1>1 DEF ViewSet, Alike, SkipView, ClearView, PlaceView
<1>4. ASSUME NEW sent PROVE Alike(BaseView(c, sent), view[c])
  <2>1. \A r : Alike(MovedView(c, r), view[c])
    BY <1>1 DEF ViewSet, Alike, MovedView
  <2> QED BY <2>1 DEF BaseView, Alike
<1> QED BY <1>2, <1>3, <1>4

(* The askers own their requests when one view is replaced.                 *)
LEMMA SetOwns ==
  ASSUME ViewTypes, MirrorMap, AskerOwns, owners \subseteq owners',
         NEW c \in Clients, NEW v, NEW w, NEW m, Set(c, State(v, w, m)),
         \/ v.stage # "snapshotting"
         \/ <<v.serial, c>> \in owners'
         \/ Alike(v, view[c])
  PROVE  AskerOwns'
<1>1. view'[c] = v /\ \A d \in Clients : d # c => view'[d] = view[d]
  BY SetIs
<1>2. ASSUME NEW d \in Clients, view'[d].stage = "snapshotting", d = c
      PROVE  <<view'[d].serial, d>> \in owners'
  BY <1>1, <1>2 DEF AskerOwns, Alike
<1>3. ASSUME NEW d \in Clients, view'[d].stage = "snapshotting", d # c
      PROVE  <<view'[d].serial, d>> \in owners'
  BY <1>1, <1>3 DEF AskerOwns
<1> QED BY <1>2, <1>3 DEF AskerOwns

(* The askers own their requests when no view changes.                      *)
LEMMA SameOwns == ASSUME AskerOwns, UNCHANGED <<view, owners>> PROVE AskerOwns'
BY DEF AskerOwns

(* A client that asks.                                                      *)
LEMMA AskOwed ==
  ASSUME LogInv, Types, AskerOwns, NEW c \in Clients, NEW history,
         NEW v \in ViewSet, NEW w, NEW m, Ask(c, history, State(v, w, m))
  PROVE  OwedStep /\ AskerOwns'
<1>0. ViewTypes /\ MirrorMap /\ DeliveryTypes
  BY DEF Types
<1>1. CASE /\ open /\ life # "gone" /\ Request
           /\ asks' = Append(asks, next) /\ owners' = owners \cup {<<next, c>>}
           /\ Set(c, State(AskedView(v, history), w, m))
           /\ UNCHANGED <<finished, count, open, events>>
  <2>1. PICK r : r = [serial |-> next, at |-> head, slices |-> 0]
    OBVIOUS
  <2>2. r \in Waits /\ r.serial = next
    BY <1>0, <2>1 DEF Waits, LogInv, DeliveryTypes
  <2>3. requests' = Append(requests, r)
    BY <1>1, <2>1 DEF Request, OneMore
  <2>4. Requested(c)
    BY <1>1, <2>2, <2>3 DEF Requested, Request, Mint
  <2>5. <<AskedView(v, history).serial, c>> \in owners' /\ owners \subseteq owners'
    BY <1>1, AlikeViews
  <2>6. PICK u : u = AskedView(v, history)
    OBVIOUS
  <2>7. AskerOwns'
    BY <1>0, <1>1, <2>5, <2>6, SetOwns
  <2> QED BY <2>4, <2>7 DEF OwedStep, Stay
<1>2. CASE /\ ~open \/ life = "gone"
           /\ Set(c, ClosedState(v, m, "rejected"))
           /\ \/ open /\ GivenUp
              \/ ~open /\ UNCHANGED <<delivery, open, events>>
           /\ UNCHANGED <<asks, owners>>
  <2>1. AskerOwns'
    <3>1. PICK no, u : no = FALSE /\ u = ClosedView(v)
      OBVIOUS
    <3>2. Set(c, State(u, no, Ended(m, "rejected"))) /\ u.stage # "snapshotting"
      BY <1>2, <3>1, AlikeViews DEF ClosedState
    <3> QED BY <1>0, <1>2, <3>2, SetOwns
  <2>2. CASE open /\ GivenUp
    <3>1. PICK r : r = [serial |-> next, at |-> head, slices |-> 0]
      OBVIOUS
    <3>2. r \in Waits /\ r.serial = next
      BY <1>0, <3>1 DEF Waits, LogInv, DeliveryTypes
    <3>3. /\ Failure(<<>>, Append(requests, r), events) /\ next' = next + 1
      BY <2>2, <3>1 DEF GivenUp, Mint, OneMore
    <3>4. Lost
      BY <1>2, <2>2, <3>2, <3>3 DEF Lost, Failure
    <3> QED BY <2>1, <3>4 DEF OwedStep, Stay
  <2>3. CASE UNCHANGED <<delivery, open, events>>
    BY <1>2, <2>1, <2>3 DEF OwedStep, delivery, Stay
  <2> QED BY <1>2, <2>2, <2>3
<1> QED BY <1>1, <1>2, AskCases, Zenon

(* A view that changes alone.                                               *)
LEMMA SetOwed ==
  ASSUME Types, AskerOwns, NEW c \in Clients, NEW v, NEW w, NEW m, Set(c, State(v, w, m)),
         UNCHANGED <<requests, finished, events, owners, next, open>>,
         v.stage # "snapshotting" \/ Alike(v, view[c])
  PROVE  OwedStep /\ AskerOwns'
<1>1. ViewTypes /\ MirrorMap
  BY DEF Types
<1>2. AskerOwns'
  BY <1>1, SetOwns
<1> QED BY <1>2 DEF OwedStep, Stay

(* A quiet step leaves the queues alone.                                    *)
LEMMA QuietQueues == ASSUME Quiet PROVE UNCHANGED <<requests, finished, events, owners, next, open>>
BY DEF Quiet, delivery

(* decide() drops no request.                                               *)
LEMMA DecidesOwed ==
  ASSUME LogInv, Types, AskerOwns, Decides
  PROVE  OwedStep /\ AskerOwns'
<1>1. PICK c \in Clients : c = pc.client
  BY DecidesCases DEF Types, PcTypes
<1>2. view[c] \in ViewSet /\ ViewTypes
  BY DEF Types, ViewTypes
<1>3. DecidesAs(c)
  BY <1>1, DecidesCases
<1>4. SkipView(c) \in ViewSet /\ ClearView(c) \in ViewSet /\ PlaceView(c) \in ViewSet
  BY StateViews
<1>5. Alike(SkipView(c), view[c]) /\ Alike(ClearView(c), view[c]) /\ Alike(PlaceView(c), view[c])
  BY <1>2, AlikeClients
<1>6. CASE Quiet /\ UNCHANGED conns
  BY <1>6, QuietQueues, SameOwns DEF OwedStep, Stay, conns
<1>7. CASE Asks(c, view[c].wanted, At(c))
  <2>1. Ask(c, view[c].wanted, State(view[c], waiting[c], mirror[c]))
    BY <1>7, AtIs DEF Asks
  <2> QED BY <1>2, <2>1, AskOwed
<1>8. ASSUME NEW s \in Sent(SkipState(c)),
             (s.waiting /\ Set(c, s) /\ Quiet) \/ (~s.waiting /\ Asks(c, "screen", s))
      PROVE  OwedStep /\ AskerOwns'
  <2>1. PICK m : m = Skipped(mirror[c], view[c].coff)
    OBVIOUS
  <2>2. PICK late \in Late(waiting[c]) : s = State(SkipView(c), late, m)
    <3>1. s \in Sent(State(SkipView(c), waiting[c], m))
      BY <1>8, <2>1, SkipStateIs
    <3> QED BY <3>1, SentIs
  <2>4. CASE Set(c, s) /\ Quiet
    BY <1>5, <2>2, <2>4, SetOwed, QuietQueues
  <2>5. CASE Asks(c, "screen", s)
    <3>1. Ask(c, "screen", State(SkipView(c), late, m))
      BY <2>2, <2>5 DEF Asks
    <3> QED BY <1>4, <3>1, AskOwed
  <2> QED BY <1>8, <2>4, <2>5, Zenon
<1>9. ASSUME NEW history, Asks(c, history, ClearState(c))
      PROVE  OwedStep /\ AskerOwns'
  <2>1. Ask(c, history, State(ClearView(c), waiting[c], mirror[c]))
    BY <1>9, ClearStateIs DEF Asks, Types
  <2> QED BY <1>4, <2>1, AskOwed
<1>10. CASE Set(c, PlaceState(c)) /\ Quiet
  <2>1. Set(c, State(PlaceView(c), waiting[c], mirror[c]))
    BY <1>10, PlaceStateIs DEF Types
  <2> QED BY <1>5, <1>10, <2>1, SetOwed, QuietQueues
<1> QED BY <1>3, <1>6, <1>7, <1>8, <1>9, <1>10, Zenon DEF DecidesAs

(* open() drops no request.                                                 *)
LEMMA OpenOwed ==
  ASSUME LogInv, Types, AskerOwns, NEW c \in Clients, Open(c)
  PROVE  OwedStep /\ AskerOwns'
<1>1. OpensAs(c)
  BY OpenCases
<1>2. ViewTypes
  BY DEF Types
<1>3. PICK history \in Histories :
        \/ Asks(c, history, FreshState(c, history)) /\ UNCHANGED pc
        \/ \E off \in Oldest .. End :
             Set(c, ResumedState(c, history, off)) /\ Decide(c) /\ Quiet
  BY <1>1 DEF OpensAs
<1>4. history \in Asked
  BY ViewsAssumption DEF Asked
<1>5. CASE Asks(c, history, FreshState(c, history))
  <2>1. Ask(c, history, State(FreshView(c, history), waiting[c], mirror[c]))
    BY <1>5, FreshStateIs DEF Asks
  <2>2. FreshView(c, history) \in ViewSet
    BY <1>4, StateViews
  <2> QED BY <2>1, <2>2, AskOwed
<1>6. ASSUME NEW off, Set(c, ResumedState(c, history, off)), Quiet
      PROVE  OwedStep /\ AskerOwns'
  <2>1. PICK missed \in BOOLEAN :
           ResumedState(c, history, off)
             = State(ResumedView(c, history, off), waiting[c], ResumedMirror(c, off, missed))
    BY ResumedStateIs
  <2>2. PICK m : m = ResumedMirror(c, off, missed)
    OBVIOUS
  <2>3. Set(c, State(ResumedView(c, history, off), waiting[c], m))
    BY <1>6, <2>1, <2>2
  <2>4. ResumedView(c, history, off).stage # "snapshotting"
    BY <1>2, AlikeClients
  <2> QED BY <1>6, <2>3, <2>4, SetOwed, QuietQueues
<1> QED BY <1>3, <1>5, <1>6

(* A resync drops no request.                                               *)
LEMMA ResyncOwed ==
  ASSUME LogInv, Types, AskerOwns, NEW c \in Clients, NEW history \in Histories, Resync(c, history)
  PROVE  OwedStep /\ AskerOwns'
<1>1. history \in Asked /\ ViewTypes
  BY ViewsAssumption DEF Asked, Types
<1>2. WantedView(c, history) \in ViewSet /\ Alike(WantedView(c, history), view[c])
  BY <1>1, StateViews, AlikeClients
<1>3. WantedState(c, history) = State(WantedView(c, history), waiting[c], mirror[c])
  BY WantedStateIs
<1>4. \/ Ask(c, history, WantedState(c, history))
      \/ /\ Set(c, WantedState(c, history))
         /\ UNCHANGED <<ring, asks, serving, frames, full, life, tags,
                        delivery, open, dead, owners, events>>
  BY ResyncCases
<1>5. CASE Ask(c, history, WantedState(c, history))
  BY <1>2, <1>3, <1>5, AskOwed
<1>6. CASE /\ Set(c, WantedState(c, history))
           /\ UNCHANGED <<ring, asks, serving, frames, full, life, tags,
                          delivery, open, dead, owners, events>>
  <2>1. UNCHANGED <<requests, finished, events, owners, next, open>>
    BY <1>6 DEF delivery
  <2> QED BY <1>2, <1>3, <1>6, <2>1, SetOwed
<1> QED BY <1>4, <1>5, <1>6

(* A resume drops no request.                                               *)
LEMMA ResumeOwed ==
  ASSUME LogInv, Types, AskerOwns, Resume
  PROVE  OwedStep /\ AskerOwns'
<1>1. PICK c \in Clients : c = pc.client
  BY ResumeCases DEF Types, PcTypes
<1>2. Quiet /\ ResumesAs(c) /\ ViewTypes
  BY <1>1, ResumeCases DEF Types
<1>3. \A sent : Alike(BaseView(c, sent), view[c])
  BY <1>2, AlikeClients
<1>4. \A pos : Alike(HeadView(BaseView(c, Sending(c, pos))), view[c])
               /\ Alike(HeldView(BaseView(c, Sending(c, pos))), view[c])
  <2> SUFFICES ASSUME NEW pos
               PROVE  /\ Alike(HeadView(BaseView(c, Sending(c, pos))), view[c])
                      /\ Alike(HeldView(BaseView(c, Sending(c, pos))), view[c])
    OBVIOUS
  <2>1. PICK u \in ViewSet : u = BaseView(c, Sending(c, pos))
    BY BaseIs
  <2>2. Alike(u, view[c]) /\ Alike(HeadView(u), u) /\ Alike(HeldView(u), u)
    BY <1>3, <2>1, AlikeViews
  <2> QED BY <2>1, <2>2 DEF Alike
<1>5. ASSUME NEW v, NEW w, NEW m, Set(c, State(v, w, m)), Alike(v, view[c])
      PROVE  OwedStep /\ AskerOwns'
  BY <1>2, <1>5, SetOwed, QuietQueues
<1> QED BY <1>2, <1>4, <1>5 DEF ResumesAs

(* What a client and its output begin drops no request.                     *)
LEMMA ClientOwed ==
  ASSUME Types, AskerOwns, NEW c \in Clients, Pump(c) \/ Writable(c) \/ Leave(c)
  PROVE  OwedStep /\ AskerOwns'
<1>1. CASE Pump(c)
  BY <1>1, SameOwns DEF Pump, OwedStep, Stay, delivery, conns
<1>2. CASE Writable(c)
  BY <1>2, SameOwns DEF Writable, OwedStep, Stay, delivery
<1>3. CASE Leave(c)
  <2>1. /\ Set(c, ClosedState(view[c], mirror[c], "left"))
        /\ UNCHANGED <<requests, finished, events, owners, next, open>>
    BY <1>3, LeaveIs DEF delivery, server
  <2>2. PICK no, u : no = FALSE /\ u = ClosedView(view[c])
    OBVIOUS
  <2>3. Set(c, State(u, no, Ended(mirror[c], "left")))
    BY <2>1, <2>2 DEF ClosedState
  <2>4. u.stage # "snapshotting"
    BY <2>2, AlikeViews DEF Types, ViewTypes
  <2> QED BY <2>1, <2>3, <2>4, SetOwed
<1> QED BY <1>1, <1>2, <1>3

(* The pane's steps, and the server's turns.                                *)
LEMMA PaneOwed ==
  ASSUME AskerOwns, PaneWrites \/ PaneResizes \/ PaneExits \/ PaneCrashes \/ PaneStep
  PROVE  OwedStep /\ AskerOwns'
<1>1. UNCHANGED delivery /\ UNCHANGED server /\ UNCHANGED conns
  BY DEF PaneWrites, PaneResizes, PaneExits, PaneCrashes, PaneStep, PaneBegins, PaneSlices, PaneFull
<1> QED BY <1>1, SameOwns DEF delivery, server, conns, OwedStep, Stay

(* A slice that is handed over moves its request on, or all fail.           *)
LEMMA HandOverOwed ==
  ASSUME LogInv, TagInv, Types, AskerOwns, HandOver
  PROVE  OwedStep /\ AskerOwns'
<1>0. PICK r : r = Earliest(NextSlices)
  OBVIOUS
<1>1. /\ r \in log /\ requests # <<>> /\ UNCHANGED owners
      /\ DeliveryTypes /\ ViewTypes /\ MirrorMap
  BY <1>0, HandOverCases, NextSliceIs DEF Types
<1>2. requests[1] \in Waits
  BY <1>1 DEF DeliveryTypes
<1>3. \/ Failure(<<>>, requests, events) /\ pc' = Rest /\ UNCHANGED <<delivered, next, conns>>
      \/ /\ \/ /\ requests' = Tail(requests) /\ count' = 0
               /\ finished' = Append(finished, [serial |-> requests[1].serial,
                                                at |-> EndOf(r), slices |-> count + 1])
            \/ count' = count + 1 /\ UNCHANGED <<requests, finished>>
         /\ \/ UNCHANGED conns
            \/ \E c \in Receivers(requests[1].serial) :
                 \E s \in TakeSlice(At(c), r) : Set(c, s)
         /\ UNCHANGED <<next, open, dead, events, pc>>
  BY <1>0, HandOverCases, Zenon
<1>4. CASE Failure(<<>>, requests, events) /\ UNCHANGED <<next, conns>>
  BY <1>1, <1>4, SameOwns DEF Failure, OwedStep, Stay, AllFailed, conns
<1>5. CASE /\ \/ /\ requests' = Tail(requests) /\ count' = 0
                 /\ finished' = Append(finished, [serial |-> requests[1].serial,
                                                  at |-> EndOf(r), slices |-> count + 1])
              \/ count' = count + 1 /\ UNCHANGED <<requests, finished>>
           /\ \/ UNCHANGED conns
              \/ \E c \in Receivers(requests[1].serial) :
                   \E s \in TakeSlice(At(c), r) : Set(c, s)
           /\ UNCHANGED <<next, open, dead, events, pc>>
  <2>1. OwedStep
    <3>1. PICK w : w = [serial |-> requests[1].serial, at |-> EndOf(r), slices |-> count + 1]
      OBVIOUS
    <3>2. EndOf(r) \in Nat
      BY <1>1, RecordIs
    <3>3. w \in Waits /\ w.serial = requests[1].serial
      BY <1>1, <1>2, <3>1, <3>2 DEF Waits, DeliveryTypes
    <3>4. \/ requests' = Tail(requests) /\ finished' = Append(finished, w)
          \/ UNCHANGED <<requests, finished>>
      BY <1>5, <3>1, Zenon
    <3>5. CASE requests' = Tail(requests) /\ finished' = Append(finished, w)
      BY <1>1, <1>5, <3>3, <3>5 DEF OwedStep, Stay, Found
    <3>6. CASE UNCHANGED <<requests, finished>>
      BY <1>1, <1>5, <3>6 DEF OwedStep, Stay
    <3> QED BY <3>4, <3>5, <3>6
  <2>2. CASE UNCHANGED conns
    BY <1>1, <2>1, <2>2, SameOwns DEF conns
  <2>3. ASSUME NEW c \in Receivers(requests[1].serial), NEW s \in TakeSlice(At(c), r), Set(c, s)
        PROVE  AskerOwns'
    <3>1. c \in Clients
      BY DEF Receivers
    <3>2. view[c] \in ViewSet /\ waiting[c] \in BOOLEAN
      BY <1>1, <3>1 DEF ViewTypes
    <3>3. s \in TakeSlice(State(view[c], waiting[c], mirror[c]), r)
      BY AtIs
    <3>4. \/ s = ClosedState(view[c], mirror[c], "rejected")
          \/ s = ClosedState(view[c], mirror[c], "overflow")
          \/ \E late \in Late(waiting[c]) :
               s = State(SlicedView(view[c], r, late), late, AfterSlice(mirror[c], r))
      BY <3>2, <3>3, SliceCases
    <3>5. ASSUME NEW why, s = ClosedState(view[c], mirror[c], why) PROVE AskerOwns'
      <4>1. PICK no, u : no = FALSE /\ u = ClosedView(view[c])
        OBVIOUS
      <4>2. Set(c, State(u, no, Ended(mirror[c], why))) /\ u.stage # "snapshotting"
        BY <2>3, <3>2, <3>5, <4>1, AlikeViews DEF ClosedState
      <4> QED BY <1>1, <3>1, <4>2, SetOwns
    <3>6. ASSUME NEW late, s = State(SlicedView(view[c], r, late), late, AfterSlice(mirror[c], r))
          PROVE  AskerOwns'
      <4>1. PICK v, m : v = SlicedView(view[c], r, late) /\ m = AfterSlice(mirror[c], r)
        OBVIOUS
      <4>2. Alike(v, view[c])
        BY <3>2, <4>1, AlikeViews
      <4>3. Set(c, State(v, late, m))
        BY <2>3, <3>6, <4>1
      <4> QED BY <1>1, <3>1, <4>2, <4>3, SetOwns
    <3> QED BY <3>4, <3>5, <3>6
  <2> QED BY <1>5, <2>1, <2>2, <2>3
<1> QED BY <1>3, <1>4, <1>5, Zenon

(* A done frame answers the request it names, if it is there.               *)
LEMMA EndDoneOwed ==
  ASSUME Types, AskerOwns, EndDone
  PROVE  OwedStep /\ AskerOwns'
<1>0. DeliveryTypes /\ ServerTypes
  BY DEF Types
<1>1. /\ UNCHANGED <<next, open, owners, conns>>
      /\ \/ UNCHANGED <<requests, finished, count, events>>
         \/ /\ finished # <<>> /\ finished' = Tail(finished)
            /\ events' = Append(events, Done(finished[1], finished[1].at, finished[1].slices))
            /\ UNCHANGED <<requests, count>>
         \/ /\ requests # <<>> /\ requests' = Tail(requests) /\ count' = 0
            /\ events' = Append(events, Done(requests[1], NoHold, 0)) /\ UNCHANGED finished
  BY DEF EndDone
<1>2. AskerOwns'
  BY <1>1, SameOwns DEF conns
<1>3. CASE UNCHANGED <<requests, finished, count, events>>
  BY <1>1, <1>2, <1>3 DEF OwedStep, Stay
<1>4. CASE /\ finished # <<>> /\ finished' = Tail(finished)
           /\ events' = Append(events, Done(finished[1], finished[1].at, finished[1].slices))
           /\ UNCHANGED <<requests, count>>
  <2>1. PICK w \in Waits : w = finished[1]
    BY <1>0, <1>4 DEF DeliveryTypes
  <2>2. w.at \in Nat \cup {NoHold} /\ w.slices \in Nat
    BY DEF Waits
  <2>3. PICK e : e = Done(w, w.at, w.slices)
    OBVIOUS
  <2>4. e \in EventSet /\ e.t = "done" /\ e.serial = w.serial
    <3>1. /\ Done(w, w.at, w.slices) \in EventSet
          /\ Done(w, w.at, w.slices).t = "done"
          /\ Done(w, w.at, w.slices).serial = w.serial
      BY <2>2, DoneIs, Zenon
    <3> QED BY <2>3, <3>1, Zenon
  <2>5. e \in DonesOf(finished[1].serial)
    BY <2>1, <2>4 DEF DonesOf
  <2>6. Confirmed
    BY <1>1, <1>4, <2>1, <2>3, <2>5 DEF Confirmed, Stay
  <2> QED BY <1>2, <2>6 DEF OwedStep, Stay
<1>5. CASE /\ requests # <<>> /\ requests' = Tail(requests) /\ count' = 0
           /\ events' = Append(events, Done(requests[1], NoHold, 0)) /\ UNCHANGED finished
  <2>1. PICK w \in Waits : w = requests[1]
    BY <1>0, <1>5 DEF DeliveryTypes
  <2>2. PICK at \in Nat \cup {NoHold}, zero \in Nat : at = NoHold /\ zero = 0
    OBVIOUS
  <2>3. PICK e : e = Done(w, at, zero)
    OBVIOUS
  <2>4. e \in EventSet /\ e.t = "done" /\ e.serial = w.serial
    <3>1. /\ Done(w, NoHold, 0) \in EventSet
          /\ Done(w, NoHold, 0).t = "done" /\ Done(w, NoHold, 0).serial = w.serial
      BY NoneIs, Zenon
    <3>2. e = Done(w, NoHold, 0)
      BY <2>2, <2>3, Zenon
    <3> QED BY <3>1, <3>2, Zenon
  <2>5. e \in DonesOf(requests[1].serial)
    BY <2>1, <2>4 DEF DonesOf
  <2>6. Unfound
    BY <1>1, <1>5, <2>1, <2>2, <2>3, <2>5 DEF Unfound, Stay
  <2> QED BY <1>2, <2>6 DEF OwedStep, Stay
<1> QED BY <1>1, <1>3, <1>4, <1>5

(* The end of the socket answers all requests, other frames none.           *)
LEMMA ReadOwed ==
  ASSUME Types, AskerOwns, EndScan \/ ReadFrame \/ ReadEnd \/ Scan
  PROVE  OwedStep /\ AskerOwns'
<1>1. UNCHANGED <<view, owners>>
  BY DEF EndScan, ReadFrame, ReadEnd, Scan, conns
<1>2. AskerOwns'
  BY <1>1, SameOwns
<1>3. CASE EndScan
  BY <1>2, <1>3 DEF EndScan, OwedStep, Stay
<1>4. CASE ReadFrame
  <2>1. /\ frames # <<>> /\ UNCHANGED <<delivery, owners>>
    BY <1>4, Zenon DEF ReadFrame
  <2>2. Head(frames).t \in {"done", "full", "dead"}
    <3>1. Head(frames) \in FrameSet
      BY <2>1 DEF Types, PaneTypes
    <3> QED BY <3>1 DEF FrameSet
  <2>3. UNCHANGED <<events, open>>
    BY <1>4, <2>2 DEF ReadFrame
  <2> QED BY <1>2, <2>1, <2>3 DEF delivery, OwedStep, Stay
<1>5. CASE ReadEnd
  <2>1. Failure(events, requests, <<>>) /\ UNCHANGED <<owners, next>>
    BY <1>5 DEF ReadEnd
  <2> QED BY <1>2, <2>1 DEF Failure, OwedStep, Stay, AllFailed
<1>6. CASE Scan
  BY <1>2, <1>6 DEF Scan, delivery, OwedStep, Stay
<1> QED BY <1>2, <1>3, <1>4, <1>5, <1>6

(* An answer that is taken finds the one view that waits for it.            *)
LEMMA TakeOwed ==
  ASSUME Types, OneOwner, AskerOwns, TakeEvent
  PROVE  OwedStep /\ AskerOwns'
<1>0. ViewTypes /\ MirrorMap /\ ServerTypes
  BY DEF Types
<1>1. /\ events # <<>> /\ events' = Tail(events) /\ UNCHANGED <<requests, finished>> /\ Stay
  BY TakeCases DEF delivery, Stay
<1>2. CASE Head(events).t = "done" /\ TakesDone(Head(events))
  <2>1. PICK done : done = Head(events) /\ TakesDone(done)
    BY <1>2
  <2>2. /\ owners' = {o \in owners : o[1] # done.serial} /\ done.serial \in Nat
    <3>1. done \in EventSet
      BY <1>0, <1>1, <2>1 DEF ServerTypes
    <3> QED BY <2>1, <3>1 DEF TakesDone, EventSet
  <2>3. OwedStep
    BY <1>1, <1>2, <2>1, <2>2 DEF Answered, OwedStep, Stay
  <2>4. ASSUME NEW d \in Clients, view[d].stage = "snapshotting", view[d].serial # done.serial
        PROVE  <<view[d].serial, d>> \in owners'
    BY <2>2, <2>4 DEF AskerOwns
  <2>5. CASE (\A c \in Clients : <<done.serial, c>> \notin owners) /\ UNCHANGED <<conns, pc>>
    BY <2>3, <2>4, <2>5 DEF AskerOwns, conns
  <2>6. ASSUME NEW c \in Clients, <<done.serial, c>> \in owners,
               Receivers(done.serial) = {} /\ UNCHANGED conns
        PROVE  AskerOwns'
    <3>1. \A d \in Clients : view[d].stage = "snapshotting" => view[d].serial # done.serial
      BY <2>6 DEF AskerOwns, Receivers
    <3> QED BY <2>4, <2>6, <3>1 DEF AskerOwns, conns
  <2>7. ASSUME NEW c \in Clients, <<done.serial, c>> \in owners,
               NEW s \in OnDone(At(c), done), Set(c, s)
        PROVE  AskerOwns'
    <3>1. view[c] \in ViewSet /\ waiting[c] \in BOOLEAN
      BY <1>0 DEF ViewTypes
    <3>2. s \in OnDone(State(view[c], waiting[c], mirror[c]), done)
      BY AtIs
    <3>3. PICK v, w, m : s = State(v, w, m) /\ v.stage # "snapshotting"
      <4>1. \/ s = ClosedState(view[c], mirror[c], "rejected")
            \/ s = ClosedState(view[c], mirror[c], "overflow")
            \/ \E late, m2 : s = State(LiveView(view[c]), late, m2)
        BY <3>1, <3>2, DoneCases
      <4>2. ClosedView(view[c]).stage # "snapshotting" /\ LiveView(view[c]).stage # "snapshotting"
        BY <3>1, AlikeViews
      <4>3. ASSUME NEW why, s = ClosedState(view[c], mirror[c], why)
            PROVE  \E v, w, m : s = State(v, w, m) /\ v.stage # "snapshotting"
        BY <4>2, <4>3 DEF ClosedState
      <4> QED BY <4>1, <4>2, <4>3
    <3>4. view'[c] = v /\ \A d \in Clients : d # c => view'[d] = view[d]
      BY <1>0, <2>7, <3>3, SetIs
    <3>5. ASSUME NEW d \in Clients, view'[d].stage = "snapshotting"
          PROVE  <<view'[d].serial, d>> \in owners'
      <4>1. d # c /\ view'[d] = view[d]
        BY <3>3, <3>4, <3>5
      <4>2. <<view[d].serial, d>> \in owners
        BY <3>5, <4>1 DEF AskerOwns
      <4>3. view[d].serial # done.serial
        BY <2>2, <2>7, <4>1, <4>2 DEF OneOwner
      <4> QED BY <2>4, <3>5, <4>1, <4>3
    <3> QED BY <3>5 DEF AskerOwns
  <2>8. AskerOwns'
    BY <2>1, <2>3, <2>5, <2>6, <2>7, <2>4 DEF TakesDone, AskerOwns, conns
  <2> QED BY <2>3, <2>8
<1>3. CASE Head(events).t # "done" /\ TakeFailed
  <2>1. UNCHANGED owners
    BY <1>3 DEF TakeFailed
  <2>2. OwedStep
    BY <1>1, <1>3, <2>1 DEF Removed, OwedStep, Stay
  <2>3. \A c \in Clients : view'[c].stage # "snapshotting"
    <3>1. view' = [c \in Clients |-> IF view[c].stage = "new" THEN view[c] ELSE ClosedView(view[c])]
      BY <1>3 DEF TakeFailed, ClosedView
    <3>2. \A c \in Clients : ClosedView(view[c]).stage = "closed"
      BY <1>0, AlikeViews DEF ViewTypes
    <3> QED BY <3>1, <3>2
  <2> QED BY <2>2, <2>3 DEF AskerOwns
<1> QED BY <1>2, <1>3, TakeCases

(* Each request is counted once, and the askers own theirs.                 *)
LEMMA InitOwed == ASSUME Init PROVE OwedInv
<1>1. requests = <<>> /\ finished = <<>> /\ owners = {} /\ events = <<>>
  BY Zenon DEF Init
<1>2. \A c \in Clients : view[c].stage = "new"
  BY DEF Init
<1>3. \A S : Hits(<<>>, S) = 0
  BY HitsOne
<1>4. \A serial \in Nat : Owed(serial) = 0
  BY <1>1, <1>3 DEF Owed
<1>5. OwedOnce
  BY <1>1, <1>4 DEF OwedOnce, HasOwner
<1> QED BY <1>1, <1>2, <1>5 DEF OwedInv, OneOwner, AskerOwns

(* Every step counts each request once.                                     *)
LEMMA StepOwed ==
  ASSUME TypeInv, OwedInv, [Next]_vars
  PROVE  OwedInv'
<1>0. LogInv /\ TagInv /\ Types /\ OwedOnce /\ OneOwner /\ AskerOwns
  BY DEF TypeInv, OwedInv
<1>1. OwedStep /\ AskerOwns'
  <2>1. CASE UNCHANGED vars
    BY <1>0, <2>1, SameOwns DEF vars, delivery, server, conns, OwedStep, Stay
  <2>2. CASE PaneWrites \/ PaneResizes \/ PaneExits \/ PaneCrashes \/ PaneStep
    BY <1>0, <2>2, PaneOwed
  <2>3. CASE ServerStep
    BY <1>0, <2>3, HandOverOwed, EndDoneOwed, ReadOwed, TakeOwed, ClientOwed,
       DecidesOwed, ResumeOwed DEF ServerStep
  <2>4. ASSUME NEW c \in Clients, Writable(c) \/ Open(c) \/ Leave(c) PROVE OwedStep /\ AskerOwns'
    BY <1>0, <2>4, ClientOwed, OpenOwed
  <2>5. ASSUME NEW c \in Clients, NEW history \in Histories, Resync(c, history)
        PROVE  OwedStep /\ AskerOwns'
    BY <1>0, <2>5, ResyncOwed
  <2> QED BY <2>1, <2>2, <2>3, <2>4, <2>5 DEF Next
<1>2. OwedOnce' /\ OneOwner'
  BY <1>0, <1>1, OwedMoves
<1> QED BY <1>1, <1>2 DEF OwedInv

-----------------------------------------------------------------------------
(* Slices and requests.  The slices that were written are numbered: those   *)
(* of request n are 2n - 1 and 2n.  Every count is of these numbers.        *)
Sliced == {a \in tags : a.t \in {"first", "last"}}
Num(a) == IF a.t = "first" THEN 2 * a.req - 1 ELSE 2 * a.req
Handed == 2 * (next - 1 - Len(requests)) + count
IsWritten(req) == req # 0 /\ \E a \in Sliced : Num(a) = 2 * req

(* Slices lie in the log in the order of their numbers, without a gap; the  *)
(* pane has written those of all requests but the ones it has still to      *)
(* serve, unless it is gone, and what was handed over was written.          *)
Ordered == \A a, b \in Sliced : Num(a) < Num(b) <=> a.at < b.at
Amount(w) ==
  /\ \A a \in Sliced : Num(a) \in 1 .. w
  /\ \A n \in 1 .. w : \E a \in Sliced : Num(a) = n
  /\ w <= 2 * (next - 1)
  /\ life # "gone" => w = 2 * (next - 1 - Len(asks)) - serving.left
  /\ open => Handed <= w
AsksInv ==
  /\ serving.left \in 0 .. 2 /\ (serving = NoServing <=> serving.left = 0)
  /\ serving.left # 0 => serving.req = next - 1 - Len(asks)
  /\ \A i \in 1 .. Len(asks) : asks[i] = next - Len(asks) + i - 1
  /\ Len(asks) <= next - 1
  /\ life = "gone" => asks = <<>> /\ serving = NoServing
FramesInv == \A i \in 1 .. Len(frames) : frames[i].t = "done" => IsWritten(frames[i].req)

(* Delivery has handed over exactly the slices before delivered; it waits   *)
(* for the last requests, each behind the position it was made at.          *)
QueueInv ==
  /\ tail <= delivered /\ delivered <= head /\ count \in {0, 1} /\ Len(requests) <= next - 1
  /\ requests = <<>> => count = 0
  /\ \A i \in 1 .. Len(requests) :
        /\ requests[i].serial = next - Len(requests) + i - 1 /\ requests[i].at <= head
        /\ \A a \in Sliced : a.req = requests[i].serial => requests[i].at <= a.at
  /\ \A i \in 1 .. Len(finished) : finished[i].slices = 2
  /\ open => \A a \in Sliced : a.at < delivered <=> Num(a) <= Handed
  /\ ~open => requests = <<>> /\ finished = <<>> /\ life = "gone"
EventsInv == \A i \in 1 .. Len(events) : events[i].t = "done" /\ events[i].hold = NoHold => ~open
PcInv ==
  pc.at = "deliver" =>
    /\ open /\ pc.upper \in Starts /\ delivered <= pc.upper
    /\ pc.then # 0 => \E a \in Sliced : Num(a) = 2 * pc.then /\ a.at < pc.upper
SlicesInv == Ordered /\ (\E w \in Nat : Amount(w)) /\ AsksInv /\ FramesInv /\ QueueInv /\ EventsInv /\ PcInv

(* A slice has a place in the log and a number.                             *)
LEMMA SlicedIs ==
  ASSUME LogInv, TagInv, NEW a \in Sliced
  PROVE  /\ a \in TagSet /\ a.at \in Nat /\ a.req \in Nat /\ a.t \in {"first", "last"}
         /\ Num(a) \in Int /\ a.at < head
         /\ a.t = "first" => Num(a) = 2 * a.req - 1
         /\ a.t = "last" => Num(a) = 2 * a.req
         /\ \E r \in log : r.at = a.at /\ r.kind = "slice"
<1>1. a \in TagSet /\ a.t \in {"first", "last"}
  BY DEF Sliced, TagInv
<1>2. a.at \in Nat /\ a.req \in Nat
  BY <1>1 DEF TagSet
<1>3. PICK r \in log : r.at = a.at /\ r.kind = "slice"
  BY <1>1 DEF TagInv, Sliced, KindOf
<1>4. r.at < head
  <2>1. EndOf(r) <= head /\ EndOf(r) \in Nat /\ r.at < EndOf(r)
    BY RecordIs, Lengths DEF LogInv, EndOf, Records
  <2> QED BY <1>2, <1>3, <2>1 DEF LogInv
<1> QED BY <1>1, <1>2, <1>3, <1>4 DEF Num

(* The slices that a step writes nothing of stay as they are.               *)
LEMMA SameSliced ==
  ASSUME TagInv, UNCHANGED tags \/ (\E t \in {"resize", "dead"} : Tagged(t, 0))
  PROVE  Sliced' = Sliced
BY DEF Sliced, Tagged

(* Parts of the invariant, by the variables they depend on.                 *)
LEMMA SameAmount ==
  ASSUME Sliced' = Sliced, UNCHANGED <<next, asks, serving, requests, count, open>>,
         life' = "gone" <=> life = "gone", NEW w, Amount(w)
  PROVE  Amount(w)'
BY DEF Amount, Handed, Num

(* The rest of the invariant.                                               *)
LEMMA SamePart ==
  ASSUME SlicesInv
  PROVE  /\ Sliced' = Sliced => Ordered'
         /\ UNCHANGED <<serving, asks, next, life>> => AsksInv'
         /\ Sliced \subseteq Sliced' /\ UNCHANGED frames => FramesInv'
         /\ UNCHANGED <<events, open>> => EventsInv'
<1>1. Sliced' = Sliced => Ordered'
  BY DEF SlicesInv, Ordered, Num
<1>2. UNCHANGED <<serving, asks, next, life>> => AsksInv'
  BY DEF SlicesInv, AsksInv, NoServing
<1>3. Sliced \subseteq Sliced' /\ UNCHANGED frames => FramesInv'
  BY DEF SlicesInv, FramesInv, IsWritten, Num
<1>4. UNCHANGED <<events, open>> => EventsInv'
  BY DEF SlicesInv, EventsInv
<1> QED BY <1>1, <1>2, <1>3, <1>4

(* A step that leaves the pane and Delivery alone, but for events taken.    *)
LEMMA CalmSlices ==
  ASSUME Types, SlicesInv,
         UNCHANGED <<ring, tags, asks, serving, frames, life, delivery, open>>,
         events' = events \/ (events # <<>> /\ events' = Tail(events)),
         pc' = pc \/ pc'.at # "deliver"
  PROVE  SlicesInv'
<1>1. Sliced' = Sliced /\ Starts' = Starts
  BY DEF Sliced, Starts, ring
<1>2. PICK w \in Nat : Amount(w)
  BY DEF SlicesInv
<1>3. Amount(w)'
  BY <1>1, <1>2, SameAmount DEF delivery
<1>4. Ordered' /\ AsksInv' /\ FramesInv'
  BY <1>1, SamePart DEF delivery
<1>5. QueueInv'
  BY <1>1 DEF SlicesInv, QueueInv, Handed, Num, delivery, ring
<1>6. EventsInv'
  <2>1. CASE events' = events
    BY <2>1, SamePart
  <2>2. CASE events # <<>> /\ events' = Tail(events)
    <3>1. Len(events') \in Nat /\ \A i \in 1 .. Len(events') : i + 1 \in 1 .. Len(events) /\ events'[i] = events[i + 1]
      <4>1. events \in Seq(EventSet)
        BY DEF Types, ServerTypes
      <4> QED BY <2>2, <4>1, ElemsTail
    <3> QED BY <3>1 DEF SlicesInv, EventsInv
  <2> QED BY <2>1, <2>2
<1>7. PcInv'
  BY <1>1 DEF SlicesInv, PcInv, delivery, Num
<1> QED BY <1>3, <1>4, <1>5, <1>6, <1>7 DEF SlicesInv

(* A frame that is sent, and says done only of what was written.            *)
LEMMA FramesAdd ==
  ASSUME FramesInv, frames \in Seq(FrameSet), Sliced \subseteq Sliced', NEW f \in FrameSet,
         f.t = "done" => IsWritten(f.req)', frames' = Append(frames, f)
  PROVE  FramesInv'
<1>1. /\ Len(frames) \in Nat /\ Len(frames') = Len(frames) + 1 /\ frames'[Len(frames) + 1] = f
      /\ \A k \in 1 .. Len(frames) : frames'[k] = frames[k]
  BY ElemsAppend
<1>2. \A req : IsWritten(req) => IsWritten(req)'
  BY DEF IsWritten, Num
<1>3. ASSUME NEW i \in 1 .. Len(frames'), frames'[i].t = "done" PROVE IsWritten(frames[i].req)'
  <2>1. CASE i = Len(frames) + 1
    BY <1>1, <1>3, <2>1
  <2>2. CASE i \in 1 .. Len(frames)
    BY <1>1, <1>2, <1>3, <2>2 DEF FramesInv
  <2> QED BY <1>1, <2>1, <2>2
<1> QED BY <1>3 DEF FramesInv

(* The log grows, and by no slice.                                          *)
LEMMA GrowSlices ==
  ASSUME LogInv, Types, SlicesInv, tail' = tail, head <= head', head' \in Nat, Starts \subseteq Starts',
         Sliced' = Sliced, UNCHANGED <<asks, serving, delivery, server>>,
         life' = "gone" <=> life = "gone",
         UNCHANGED frames \/ (\E f \in FrameSet : f.t # "done" /\ frames' = Append(frames, f))
  PROVE  SlicesInv'
<1>0. head \in Nat /\ tail \in Nat /\ frames \in Seq(FrameSet) /\ DeliveryTypes
  BY DEF LogInv, Types, PaneTypes
<1>1. PICK w \in Nat : Amount(w)
  BY DEF SlicesInv
<1>2. Amount(w)'
  BY <1>1, SameAmount DEF delivery, server
<1>3. Ordered' /\ EventsInv'
  BY SamePart DEF server
<1>4. AsksInv'
  BY DEF SlicesInv, AsksInv, delivery, NoServing
<1>5. FramesInv'
  BY <1>0, SamePart, FramesAdd DEF SlicesInv
<1>6. QueueInv'
  <2>0. QueueInv
    BY DEF SlicesInv
  <2>1. /\ UNCHANGED <<requests, finished, delivered, count, next, open>>
    BY DEF delivery, server
  <2>2. tail' <= delivered' /\ delivered' <= head'
    BY <1>0, <2>0, <2>1 DEF QueueInv, DeliveryTypes
  <2>3. ASSUME NEW i \in 1 .. Len(requests)
        PROVE  /\ requests[i].serial = next - Len(requests) + i - 1 /\ requests[i].at <= head'
               /\ \A a \in Sliced : a.req = requests[i].serial => requests[i].at <= a.at
    <3>1. requests[i] \in Waits
      BY <1>0 DEF DeliveryTypes
    <3>2. requests[i].at \in Nat
      BY <3>1 DEF Waits
    <3> QED BY <1>0, <2>0, <3>2 DEF QueueInv
  <2>4. open => \A a \in Sliced : a.at < delivered <=> Num(a) <= Handed
    BY <2>0 DEF QueueInv
  <2>5. Handed' = Handed
    BY <2>1 DEF Handed
  <2>6. /\ count \in {0, 1} /\ Len(requests) <= next - 1
        /\ requests = <<>> => count = 0
        /\ \A i \in 1 .. Len(finished) : finished[i].slices = 2
        /\ ~open => requests = <<>> /\ finished = <<>> /\ life = "gone"
    BY <2>0 DEF QueueInv
  <2>7. \A a : Num(a)' = Num(a)
    BY DEF Num
  <2> QED BY <2>1, <2>2, <2>3, <2>4, <2>5, <2>6, <2>7 DEF QueueInv
<1>7. PcInv'
  <2>1. PcInv
    BY DEF SlicesInv
  <2>2. UNCHANGED <<pc, open, delivered>>
    BY DEF delivery, server
  <2> QED BY <2>1, <2>2 DEF PcInv, Num
<1> QED BY <1>2, <1>3, <1>4, <1>5, <1>6, <1>7 DEF SlicesInv

(* The pane writes and resizes, its program ends, its ring is full.         *)
LEMMA WriteSlices ==
  ASSUME LogInv, TagInv, Types, SlicesInv, PaneWrites \/ PaneResizes \/ PaneExits \/ PaneFull
  PROVE  SlicesInv'
<1>0. BytesLen \in Nat /\ MarkLen \in Nat /\ {"bytes", "marker"} \subseteq Kind /\ head \in Nat
  BY Lengths DEF Kind, LogInv
<1>1. CASE PaneWrites
  <2>1. Publish("bytes", BytesLen) /\ UNCHANGED <<asks, serving, frames, life, tags, delivery, server>>
    BY <1>1 DEF PaneWrites
  <2>2. head < head' /\ head' \in Nat /\ tail' = tail /\ Starts \subseteq Starts'
    BY <1>0, <2>1, PublishAdds
  <2> QED BY <1>0, <2>1, <2>2, SameSliced, GrowSlices
<1>2. CASE PaneResizes
  <2>1. Publish("marker", MarkLen) /\ Tagged("resize", 0) /\ UNCHANGED <<asks, serving, frames, life, delivery, server>>
    BY <1>2 DEF PaneResizes
  <2>2. head < head' /\ head' \in Nat /\ tail' = tail /\ Starts \subseteq Starts'
    BY <1>0, <2>1, PublishAdds
  <2> QED BY <1>0, <2>1, <2>2, SameSliced, GrowSlices
<1>3. CASE PaneExits
  <2>0. PICK f : f = [t |-> "dead", req |-> 0]
    OBVIOUS
  <2>1. /\ Publish("marker", MarkLen) /\ Tagged("dead", 0) /\ UNCHANGED <<asks, serving, delivery, server>>
        /\ life = "running" /\ life' = "exited" /\ frames' = Append(frames, f)
    BY <1>3, <2>0 DEF PaneExits
  <2>2. head < head' /\ head' \in Nat /\ tail' = tail /\ Starts \subseteq Starts'
    BY <1>0, <2>1, PublishAdds
  <2>3. f \in FrameSet /\ f.t # "done"
    BY <2>0 DEF FrameSet
  <2>4. life' = "gone" <=> life = "gone"
    BY <2>1
  <2>5. Sliced' = Sliced
    BY <2>1, SameSliced
  <2> QED BY <1>0, <2>1, <2>2, <2>3, <2>4, <2>5, GrowSlices
<1>4. CASE PaneFull
  <2>0. PICK f : f = [t |-> "full", req |-> 0]
    OBVIOUS
  <2>1. UNCHANGED <<ring, tags, asks, serving, life, delivery, server>> /\ frames' = Append(frames, f)
    BY <1>4, <2>0 DEF PaneFull
  <2>2. f \in FrameSet /\ f.t # "done"
    BY <2>0 DEF FrameSet
  <2>3. head' = head /\ tail' = tail /\ Starts' = Starts
    BY <2>1, SameLog
  <2> QED BY <1>0, <2>1, <2>2, <2>3, SameSliced, GrowSlices
<1> QED BY <1>1, <1>2, <1>3, <1>4

(* The pane takes a request up, or is gone.                                 *)
LEMMA BeginSlices ==
  ASSUME LogInv, Types, SlicesInv, PaneBegins
  PROVE  SlicesInv'
<1>0. /\ asks # <<>> /\ life # "gone" /\ serving = NoServing
      /\ serving' = [req |-> Head(asks), left |-> 2] /\ asks' = Tail(asks)
      /\ UNCHANGED <<ring, frames, life, tags, delivery, server>>
  BY DEF PaneBegins
<1>1. /\ asks \in Seq(Nat) /\ Len(asks) \in Nat \ {0} /\ Len(asks') = Len(asks) - 1
      /\ Head(asks) = asks[1] /\ \A i \in 1 .. Len(asks') : asks'[i] = asks[i + 1]
      /\ next \in Nat \ {0}
  BY <1>0, ElemsTail DEF Types, PaneTypes, DeliveryTypes
<1>2. Sliced' = Sliced /\ Starts' = Starts /\ head' = head /\ tail' = tail
  BY <1>0, SameLog DEF Sliced
<1>3. UNCHANGED <<requests, finished, delivered, count, next, open, events, pc>>
  BY <1>0 DEF delivery, server
<1>4. PICK w \in Nat : Amount(w)
  BY DEF SlicesInv
<1>5. serving'.left = 2 /\ serving'.req = asks[1] /\ serving' # NoServing /\ serving.left = 0
  BY <1>0, <1>1 DEF NoServing
<1>6. Amount(w)'
  <2>1. /\ \A a \in Sliced' : Num(a) \in 1 .. w
        /\ \A n \in 1 .. w : \E a \in Sliced' : Num(a) = n
        /\ w <= 2 * (next' - 1) /\ (open' => Handed' <= w)
    BY <1>2, <1>3, <1>4 DEF Amount, Handed
  <2>2. w = 2 * (next' - 1 - Len(asks')) - serving'.left
    BY <1>0, <1>1, <1>3, <1>4, <1>5 DEF Amount
  <2> QED BY <1>2, <2>1, <2>2 DEF Amount, Num
<1>7. AsksInv'
  <2>1. AsksInv
    BY DEF SlicesInv
  <2>2. serving'.req = next' - 1 - Len(asks')
    BY <1>1, <1>3, <1>5, <2>1 DEF AsksInv
  <2>3. \A i \in 1 .. Len(asks') : asks'[i] = next' - Len(asks') + i - 1
    BY <1>1, <1>3, <2>1 DEF AsksInv
  <2>4. Len(asks') <= next' - 1
    BY <1>1, <1>3, <2>1 DEF AsksInv
  <2> QED BY <1>0, <1>5, <2>2, <2>3, <2>4 DEF AsksInv, NoServing
<1>8. Ordered' /\ EventsInv' /\ FramesInv'
  BY <1>0, <1>2, <1>3, SamePart
<1>9. QueueInv' /\ PcInv'
  BY <1>0, <1>2, <1>3 DEF SlicesInv, QueueInv, PcInv, Handed, Num
<1> QED BY <1>6, <1>7, <1>8, <1>9 DEF SlicesInv

(* A pane that is gone serves nothing more.                                 *)
LEMMA CrashSlices ==
  ASSUME LogInv, Types, SlicesInv, PaneCrashes
  PROVE  SlicesInv'
<1>0. /\ life' = "gone" /\ asks' = <<>> /\ serving' = NoServing
      /\ UNCHANGED <<ring, frames, tags, delivery, server>> /\ next \in Nat \ {0}
  BY DEF PaneCrashes, Types, DeliveryTypes
<1>2. Sliced' = Sliced /\ Starts' = Starts /\ head' = head /\ tail' = tail
  BY <1>0, SameLog DEF Sliced
<1>3. UNCHANGED <<requests, finished, delivered, count, next, open, events, pc>>
  BY <1>0 DEF delivery, server
<1>4. PICK w \in Nat : Amount(w)
  BY DEF SlicesInv
<1>5. Amount(w)'
  BY <1>0, <1>2, <1>3, <1>4 DEF Amount, Handed, Num
<1>6. AsksInv'
  BY <1>0, <1>3 DEF AsksInv, NoServing
<1>7. Ordered' /\ EventsInv' /\ FramesInv'
  BY <1>0, <1>2, <1>3, SamePart
<1>8. QueueInv' /\ PcInv'
  BY <1>0, <1>2, <1>3 DEF SlicesInv, QueueInv, PcInv, Handed, Num
<1> QED BY <1>5, <1>6, <1>7, <1>8 DEF SlicesInv

(* What the slice is that the pane writes next.                             *)
LEMMA NextNumber ==
  ASSUME LogInv, TagInv, Types, SlicesInv, PaneSlices, NEW w \in Nat, Amount(w)
  PROVE  /\ life # "gone" /\ serving.left \in {1, 2} /\ serving.req = next - 1 - Len(asks)
         /\ serving.req \in Nat /\ head \in Nat /\ head < head' /\ head' \in Nat /\ tail' = tail
         /\ Starts \subseteq Starts' /\ next \in Nat \ {0} /\ Len(asks) \in Nat
         /\ UNCHANGED <<asks, life, delivery, server>>
         /\ \E a \in TagSet :
              /\ a.at = head /\ a.t = (IF serving.left = 2 THEN "first" ELSE "last")
              /\ a.req = serving.req /\ tags' = tags \cup {a} /\ Num(a) = w + 1
              /\ Sliced' = Sliced \cup {a}
         /\ serving'.left = serving.left - 1 /\ (serving'.left = 1 => serving' # NoServing /\ serving'.req = serving.req)
         /\ serving'.left = 0 => serving' = NoServing
         /\ \/ serving.left = 2 /\ UNCHANGED frames
            \/ /\ serving.left = 1
               /\ \E f \in FrameSet : f.t = "done" /\ f.req = serving.req /\ frames' = Append(frames, f)
<1>0. /\ life # "gone" /\ serving # NoServing /\ Publish("slice", SliceLen)
      /\ UNCHANGED <<asks, life, delivery, server>>
  BY DEF PaneSlices
<1>1. /\ serving \in [req : Nat, left : Nat] /\ Len(asks) \in Nat /\ next \in Nat \ {0}
      /\ frames \in Seq(FrameSet) /\ head \in Nat
  BY DEF Types, PaneTypes, DeliveryTypes, LogInv
<1>2. AsksInv
  BY DEF SlicesInv
<1>3. serving.left \in {1, 2} /\ serving.req = next - 1 - Len(asks) /\ serving.req \in Nat
  BY <1>0, <1>1, <1>2 DEF AsksInv
<1>4. head < head' /\ head' \in Nat /\ tail' = tail /\ Starts \subseteq Starts'
  <2>1. "slice" \in Kind /\ SliceLen \in Nat
    BY Lengths DEF Kind
  <2> QED BY <1>0, <2>1, PublishAdds
<1>5. w = 2 * serving.req - serving.left
  BY <1>0, <1>3 DEF Amount
<1>6. CASE serving.left = 2
  <2>1. Tagged("first", serving.req) /\ serving' = [serving EXCEPT !.left = 1] /\ UNCHANGED frames
    BY <1>6 DEF PaneSlices
  <2>2. PICK a : a = [at |-> head, t |-> "first", req |-> serving.req]
    OBVIOUS
  <2>3. a \in TagSet /\ tags' = tags \cup {a} /\ Num(a) = w + 1
    BY <1>1, <1>3, <1>5, <1>6, <2>1, <2>2 DEF TagSet, Tagged, Num
  <2>4. Sliced' = Sliced \cup {a}
    BY <2>2, <2>3 DEF Sliced
  <2>5. serving'.left = 1 /\ serving'.req = serving.req /\ serving' # NoServing
    BY <1>1, <2>1 DEF NoServing
  <2> QED BY <1>0, <1>1, <1>3, <1>4, <1>6, <2>1, <2>2, <2>3, <2>4, <2>5
<1>7. CASE serving.left = 1
  <2>0. PICK f : f = [t |-> "done", req |-> serving.req]
    OBVIOUS
  <2>1. Tagged("last", serving.req) /\ serving' = NoServing /\ frames' = Append(frames, f)
    BY <1>7, <2>0 DEF PaneSlices
  <2>2. PICK a : a = [at |-> head, t |-> "last", req |-> serving.req]
    OBVIOUS
  <2>3. a \in TagSet /\ tags' = tags \cup {a} /\ Num(a) = w + 1
    BY <1>1, <1>3, <1>5, <1>7, <2>1, <2>2 DEF TagSet, Tagged, Num
  <2>4. Sliced' = Sliced \cup {a}
    BY <2>2, <2>3 DEF Sliced
  <2>5. serving'.left = 0
    BY <2>1 DEF NoServing
  <2>6. f \in FrameSet /\ f.t = "done" /\ f.req = serving.req
    BY <1>3, <2>0 DEF FrameSet
  <2>7. a.at = head /\ a.t = (IF serving.left = 2 THEN "first" ELSE "last") /\ a.req = serving.req
    BY <1>7, <2>2
  <2>8. serving'.left = serving.left - 1 /\ serving'.left # 1 /\ serving' = NoServing
    BY <1>7, <2>1, <2>5
  <2> HIDE DEF NoServing
  <2> QED BY <1>0, <1>1, <1>3, <1>4, <1>7, <2>1, <2>3, <2>4, <2>6, <2>7, <2>8, Zenon
<1> QED BY <1>3, <1>6, <1>7

(* A slice that the pane writes has the next number.                        *)
LEMMA WritesSlices ==
  ASSUME LogInv, TagInv, Types, SlicesInv, PaneSlices
  PROVE  SlicesInv'
<1>0. PICK w \in Nat : Amount(w)
  BY DEF SlicesInv
<1>1. PICK a \in TagSet :
              /\ a.at = head /\ a.t = (IF serving.left = 2 THEN "first" ELSE "last")
              /\ a.req = serving.req /\ tags' = tags \cup {a} /\ Num(a) = w + 1
              /\ Sliced' = Sliced \cup {a}
  BY <1>0, NextNumber
<1>2. /\ life # "gone" /\ serving.left \in {1, 2} /\ serving.req = next - 1 - Len(asks)
      /\ serving.req \in Nat /\ head \in Nat /\ head < head' /\ head' \in Nat /\ tail' = tail
      /\ Starts \subseteq Starts' /\ next \in Nat \ {0} /\ Len(asks) \in Nat
      /\ UNCHANGED <<asks, life, delivery, server>>
  BY <1>0, NextNumber
<1>3. /\ serving'.left = serving.left - 1 /\ (serving'.left = 1 => serving' # NoServing /\ serving'.req = serving.req)
      /\ serving'.left = 0 => serving' = NoServing
  BY <1>0, NextNumber
<1>4. UNCHANGED <<requests, finished, delivered, count, next, open, events, pc>>
  BY <1>2 DEF delivery, server
<1>5. \A b \in Sliced : Num(b) \in 1 .. w /\ b.at \in Nat /\ b.at < head
  BY <1>0, SlicedIs DEF Amount
<1>6. Handed \in Int /\ delivered \in Nat /\ requests \in Seq(Waits) /\ finished \in Seq(Waits)
      /\ delivered <= head
  BY DEF Handed, Types, DeliveryTypes, SlicesInv, QueueInv
<1>7. Handed' = Handed /\ \A b : Num(b)' = Num(b)
  BY <1>4 DEF Handed, Num
<1>8. Amount(w + 1)'
  <2>1. \A b \in Sliced' : Num(b) \in 1 .. w + 1
    BY <1>1, <1>5
  <2>2. \A n \in 1 .. w + 1 : \E b \in Sliced' : Num(b) = n
    BY <1>0, <1>1 DEF Amount
  <2>3. w + 1 = 2 * (next - 1 - Len(asks)) - serving'.left
    BY <1>0, <1>2, <1>3 DEF Amount
  <2>4. w + 1 <= 2 * (next - 1)
    <3>1. serving'.left \in Nat
      BY <1>2, <1>3
    <3> QED BY <1>2, <2>3, <3>1
  <2>5. open => Handed <= w + 1
    BY <1>0, <1>6 DEF Amount
  <2> QED BY <1>2, <1>4, <1>7, <2>1, <2>2, <2>3, <2>4, <2>5 DEF Amount
<1>9. Ordered'
  <2>1. \A b, d \in Sliced : Num(b) < Num(d) <=> b.at < d.at
    BY DEF SlicesInv, Ordered
  <2>2. \A b \in Sliced : Num(b) < Num(a) /\ b.at < a.at /\ ~(Num(a) < Num(b)) /\ ~(a.at < b.at)
    BY <1>1, <1>5, <1>2
  <2>3. ~(Num(a) < Num(a)) /\ ~(a.at < a.at)
    BY <1>1, <1>2
  <2>4. \A b, d \in Sliced' : Num(b) < Num(d) <=> b.at < d.at
    BY <1>1, <2>1, <2>2, <2>3
  <2> QED BY <1>7, <2>4 DEF Ordered
<1>10. AsksInv'
  BY <1>2, <1>3, <1>4 DEF SlicesInv, AsksInv, NoServing
<1>11. FramesInv'
  <2>1. CASE UNCHANGED frames
    BY <1>1, <2>1, SamePart
  <2>2. CASE serving.left = 1 /\ \E f \in FrameSet : f.t = "done" /\ f.req = serving.req /\ frames' = Append(frames, f)
    <3>1. PICK f \in FrameSet : f.t = "done" /\ f.req = serving.req /\ frames' = Append(frames, f)
      BY <2>2
    <3>2. Num(a) = 2 * f.req
      BY <1>1, <2>2, <3>1 DEF Num
    <3>3. f.req # 0
      <4>1. Num(a) >= 1
        BY <1>1
      <4> QED BY <3>2, <4>1
    <3>4. IsWritten(f.req)'
      BY <1>1, <1>7, <3>2, <3>3 DEF IsWritten
    <3> QED BY <1>1, <3>1, <3>4, FramesAdd DEF SlicesInv, Types, PaneTypes
  <2> QED BY <1>0, <2>1, <2>2, NextNumber
<1>12. QueueInv'
  <2>0. QueueInv
    BY DEF SlicesInv
  <2>1. tail' <= delivered' /\ delivered' <= head'
    BY <1>2, <1>4, <1>6, <2>0 DEF QueueInv
  <2>2. ASSUME NEW i \in 1 .. Len(requests)
        PROVE  /\ requests[i].serial = next - Len(requests) + i - 1 /\ requests[i].at <= head'
               /\ \A b \in Sliced' : b.req = requests[i].serial => requests[i].at <= b.at
    <3>1. requests[i] \in Waits
      BY <1>6
    <3>2. requests[i].at \in Nat
      BY <3>1 DEF Waits
    <3>3. /\ requests[i].serial = next - Len(requests) + i - 1 /\ requests[i].at <= head
          /\ \A b \in Sliced : b.req = requests[i].serial => requests[i].at <= b.at
      BY <2>0 DEF QueueInv
    <3>4. requests[i].at <= head'
      <4>1. head \in Nat /\ head' \in Nat /\ head < head'
        BY <1>2
      <4> QED BY <3>2, <3>3, <4>1
    <3>5. a.at = head /\ Sliced' = Sliced \cup {a}
      BY <1>1
    <3> QED BY <3>3, <3>4, <3>5
  <2>3. open => \A b \in Sliced' : b.at < delivered <=> Num(b) <= Handed
    <3>1. ASSUME open PROVE ~(a.at < delivered) /\ ~(Num(a) <= Handed)
      BY <1>0, <1>1, <1>2, <1>6, <3>1 DEF Amount
    <3> QED BY <1>1, <2>0, <3>1 DEF QueueInv
  <2>4. /\ count \in {0, 1} /\ Len(requests) <= next - 1
        /\ requests = <<>> => count = 0
        /\ \A i \in 1 .. Len(finished) : finished[i].slices = 2
        /\ ~open => requests = <<>> /\ finished = <<>> /\ life = "gone"
    BY <2>0 DEF QueueInv
  <2> QED BY <1>2, <1>4, <1>7, <2>1, <2>2, <2>3, <2>4 DEF QueueInv
<1>13. PcInv' /\ EventsInv'
  BY <1>1, <1>2, <1>4, <1>7 DEF SlicesInv, PcInv, EventsInv
<1> QED BY <1>0, <1>8, <1>9, <1>10, <1>11, <1>12, <1>13 DEF SlicesInv

(* A request waits behind the slices of all others.                         *)
LEMMA RequestSlices ==
  ASSUME LogInv, TagInv, Types, SlicesInv, open, life # "gone", Request, asks' = Append(asks, next),
         UNCHANGED <<ring, serving, frames, life, tags, finished, count, open, events>>,
         pc.at # "deliver", pc' = pc \/ pc'.at # "deliver"
  PROVE  SlicesInv'
<1>0. /\ requests \in Seq(Waits) /\ asks \in Seq(Nat) /\ next \in Nat \ {0} /\ count \in Nat
      /\ head \in Nat /\ tail \in Nat /\ delivered \in Nat /\ tail <= head /\ finished \in Seq(Waits)
      /\ serving \in [req : Nat, left : Nat]
  BY DEF Types, DeliveryTypes, PaneTypes, LogInv
<1>1. Sliced' = Sliced /\ head' = head /\ tail' = tail
  BY SameLog DEF Sliced
<1>2. PICK w \in Nat : Amount(w)
  BY DEF SlicesInv
<1>3. PICK r : r = [serial |-> next, at |-> head, slices |-> 0]
  OBVIOUS
<1>4. r \in Waits /\ r.serial = next /\ r.at = head
  BY <1>0, <1>3 DEF Waits
<1>5. /\ requests' = Append(requests, r) /\ next' = next + 1
      /\ delivered' = IF requests = <<>> THEN head ELSE delivered
  BY <1>3 DEF Request, Mint, OneMore
<1>6. /\ Len(requests) \in Nat /\ Len(requests') = Len(requests) + 1 /\ requests'[Len(requests) + 1] = r
      /\ \A k \in 1 .. Len(requests) : requests'[k] = requests[k]
  BY <1>0, <1>4, <1>5, ElemsAppend
<1>7. /\ Len(asks) \in Nat /\ Len(asks') = Len(asks) + 1 /\ asks'[Len(asks) + 1] = next
      /\ \A k \in 1 .. Len(asks) : asks'[k] = asks[k]
  BY <1>0, ElemsAppend
<1>8. Handed' = Handed
  BY <1>0, <1>5, <1>6 DEF Handed
<1>9. \A b \in Sliced : Num(b) \in 1 .. w /\ b.at \in Nat /\ b.at < head /\ b.req \in Nat /\ b.req < next
  <2> SUFFICES ASSUME NEW b \in Sliced
               PROVE  Num(b) \in 1 .. w /\ b.at \in Nat /\ b.at < head /\ b.req \in Nat /\ b.req < next
    OBVIOUS
  <2>1. Num(b) \in 1 .. w /\ w <= 2 * (next - 1)
    BY <1>2 DEF Amount
  <2>2. /\ b.at \in Nat /\ b.req \in Nat /\ b.at < head /\ b.t \in {"first", "last"}
        /\ b.t = "first" => Num(b) = 2 * b.req - 1
        /\ b.t = "last" => Num(b) = 2 * b.req
    BY SlicedIs
  <2>3. next \in Nat
    BY <1>0
  <2>4. 2 * b.req - 1 <= Num(b)
    BY <2>2
  <2>5. b.req < next
    BY <2>1, <2>2, <2>3, <2>4
  <2> QED BY <2>1, <2>2, <2>5
<1>10. Amount(w)'
  <2>1. w <= 2 * (next' - 1)
    BY <1>0, <1>2, <1>5 DEF Amount
  <2>2. w = 2 * (next' - 1 - Len(asks')) - serving.left
    BY <1>0, <1>2, <1>5, <1>7 DEF Amount
  <2> QED BY <1>1, <1>2, <1>8, <2>1, <2>2 DEF Amount, Num
<1>11. Ordered' /\ FramesInv' /\ EventsInv'
  BY <1>1, SamePart
<1>12. AsksInv'
  <2>1. AsksInv
    BY DEF SlicesInv
  <2>2. \A i \in 1 .. Len(asks') : asks'[i] = next' - Len(asks') + i - 1
    <3> SUFFICES ASSUME NEW i \in 1 .. Len(asks') PROVE asks'[i] = next' - Len(asks') + i - 1
      OBVIOUS
    <3>1. CASE i = Len(asks) + 1
      BY <1>0, <1>5, <1>7, <3>1
    <3>2. CASE i \in 1 .. Len(asks)
      BY <1>0, <1>5, <1>7, <2>1, <3>2 DEF AsksInv
    <3> QED BY <1>7, <3>1, <3>2
  <2>3. Len(asks') <= next' - 1 /\ next' - 1 - Len(asks') = next - 1 - Len(asks)
    BY <1>0, <1>5, <1>7, <2>1 DEF AsksInv
  <2> QED BY <2>1, <2>2, <2>3 DEF AsksInv, NoServing
<1>13. QueueInv'
  <2>0. QueueInv
    BY DEF SlicesInv
  <2>1. tail' <= delivered' /\ delivered' <= head' /\ Len(requests') <= next' - 1 /\ requests' # <<>>
    <3>1. tail <= delivered /\ delivered <= head /\ Len(requests) <= next - 1
      BY <2>0 DEF QueueInv
    <3>2. requests' # <<>>
      BY <1>0, <1>4, <1>5
    <3>3. tail' <= delivered' /\ delivered' <= head'
      BY <1>0, <1>1, <1>5, <3>1
    <3> QED BY <1>0, <1>5, <1>6, <3>1, <3>2, <3>3
  <2>2. ASSUME NEW i \in 1 .. Len(requests')
        PROVE  /\ requests'[i].serial = next' - Len(requests') + i - 1 /\ requests'[i].at <= head
               /\ \A a \in Sliced : a.req = requests'[i].serial => requests'[i].at <= a.at
    <3>1. CASE i = Len(requests) + 1
      <4>1. requests'[i].serial = next /\ requests'[i].at = head
        BY <1>4, <1>6, <3>1
      <4>2. \A a \in Sliced : a.req # next
        BY <1>0, <1>9
      <4> QED BY <1>0, <1>5, <1>6, <3>1, <4>1, <4>2
    <3>2. CASE i \in 1 .. Len(requests)
      BY <1>0, <1>5, <1>6, <2>0, <3>2 DEF QueueInv
    <3> QED BY <1>6, <3>1, <3>2
  <2>3. \A a \in Sliced : a.at < delivered' <=> Num(a) <= Handed
    <3>1. CASE requests = <<>>
      <4>1. Handed = 2 * (next - 1)
        BY <1>0, <2>0, <3>1 DEF QueueInv, Handed
      <4>2. \A a \in Sliced : Num(a) <= Handed
        BY <1>0, <1>2, <1>9, <4>1 DEF Amount
      <4> QED BY <1>5, <1>9, <3>1, <4>2
    <3>2. CASE requests # <<>>
      BY <1>5, <2>0, <3>2 DEF QueueInv
    <3> QED BY <3>1, <3>2
  <2>4. /\ count \in {0, 1} /\ \A i \in 1 .. Len(finished) : finished[i].slices = 2
    BY <2>0 DEF QueueInv
  <2> QED BY <1>1, <1>8, <2>1, <2>2, <2>3, <2>4 DEF QueueInv, Num
<1>14. PcInv'
  BY DEF PcInv
<1> QED BY <1>2, <1>10, <1>11, <1>12, <1>13, <1>14 DEF SlicesInv

(* Nothing is asked for, and nobody waits.                                  *)
LEMMA NoAsks ==
  ASSUME asks' = <<>>, serving' = NoServing, 0 <= next' - 1
  PROVE  AsksInv'
BY DEF AsksInv, NoServing

LEMMA NoQueue ==
  ASSUME open' = FALSE, requests' = <<>>, finished' = <<>>, count' = 0, life' = "gone",
         0 <= next' - 1, tail' <= delivered', delivered' <= head'
  PROVE  QueueInv'
BY DEF QueueInv

(* A pane that is given up is gone, and nothing waits for it.               *)
LEMMA FailSlices ==
  ASSUME LogInv, Types, SlicesInv, life = "gone", NEW before, NEW asked, NEW after,
         Failure(before, asked, after), UNCHANGED <<delivered, next>> \/ Mint,
         UNCHANGED <<ring, asks, serving, frames, life, tags>>, pc'.at # "deliver"
  PROVE  SlicesInv'
<1>0. /\ open' = FALSE /\ requests' = <<>> /\ finished' = <<>> /\ count' = 0
      /\ delivered' \in {delivered, head} /\ next' \in {next, next + 1} /\ next \in Nat \ {0}
      /\ head \in Nat /\ tail \in Nat /\ delivered \in Nat /\ tail <= head
  BY DEF Failure, Mint, Types, DeliveryTypes, LogInv
<1>1. Sliced' = Sliced /\ head' = head /\ tail' = tail
  BY SameLog DEF Sliced
<1>2. PICK w \in Nat : Amount(w)
  BY DEF SlicesInv
<1>7. next \in Nat \ {0} /\ next' \in Nat /\ next <= next' /\ 0 <= next' - 1
  <2>1. next \in Nat \ {0} /\ next' \in Nat /\ next <= next'
    BY <1>0
  <2> QED BY <2>1, Below, Zenon
<1>3. Amount(w)'
  <2>1. /\ w <= 2 * (next - 1) /\ life' = life
        /\ \A a \in Sliced : Num(a) \in 1 .. w
        /\ \A n \in 1 .. w : \E a \in Sliced : Num(a) = n
    BY <1>2 DEF Amount
  <2>2. w <= 2 * (next' - 1)
    BY <1>7, <2>1, Below, Zenon
  <2> QED BY <1>0, <1>1, <2>1, <2>2 DEF Amount, Num
<1>4. Ordered' /\ FramesInv'
  BY <1>0, <1>1, SamePart
<1>6. AsksInv'
  <2>1. /\ asks = <<>> /\ serving = NoServing
        /\ serving.left \in 0 .. 2 /\ (serving = NoServing <=> serving.left = 0)
    BY DEF SlicesInv, AsksInv
  <2>2. asks' = <<>> /\ serving' = serving /\ Len(asks') = 0 /\ serving.left = 0
    BY <2>1
  <2>3. serving' = NoServing
    BY <2>1, <2>2
  <2> QED BY <1>7, <2>2, <2>3, NoAsks
<1>5. QueueInv'
  <2>1. QueueInv
    BY DEF SlicesInv
  <2>2. tail' <= delivered' /\ delivered' <= head'
    BY <1>0, <1>1, <2>1 DEF QueueInv
  <2>3. /\ open' = FALSE /\ requests' = <<>> /\ finished' = <<>> /\ count' = 0
        /\ Len(requests') = 0 /\ Len(finished') = 0 /\ life' = "gone"
    BY <1>0
  <2> QED BY <1>7, <2>2, <2>3, NoQueue, Zenon
<1> QED BY <1>6, <1>0, <1>3, <1>4, <1>5 DEF SlicesInv, EventsInv, PcInv

(* What the slice is that is handed over: the next one of the first request *)
(* that waits, behind the position it was made at.                          *)
LEMMA NextHanded ==
  ASSUME LogInv, TagInv, Types, SlicesInv, pc.at = "deliver", requests # <<>>, NextSlices # {}
  PROVE  LET r == Earliest(NextSlices) IN
         /\ TagOf(r) \in Sliced /\ TagOf(r).at = r.at /\ Num(TagOf(r)) = Handed + 1
         /\ TagOf(r).req = requests[1].serial /\ requests[1].at <= r.at
         /\ TagOf(r).t = (IF count = 0 THEN "first" ELSE "last")
         /\ requests[1].serial \in Nat /\ requests[1].serial = next - Len(requests)
         /\ \A w \in Nat : Amount(w) => Handed + 1 <= w
<1>1. PICK r : r = Earliest(NextSlices)
  OBVIOUS
<1>2. /\ r \in log /\ r.kind = "slice" /\ delivered <= r.at /\ r.at < pc.upper
      /\ \A q \in log : q.kind = "slice" /\ delivered <= q.at /\ q.at < pc.upper => r.at <= q.at
      /\ TagOf(r) \in tags /\ TagOf(r).at = r.at /\ TagOf(r).t \in {"first", "last"}
  BY <1>1, NextSliceIs
<1>3. PICK a \in Sliced : a = TagOf(r) /\ a.at = r.at
  BY <1>2 DEF Sliced
<1>4. /\ requests \in Seq(Waits) /\ Len(requests) \in Nat \ {0} /\ next \in Nat \ {0}
      /\ delivered \in Nat /\ pc.upper \in Nat /\ count \in {0, 1} /\ Len(requests) <= next - 1
  BY DEF Types, DeliveryTypes, PcTypes, PcSet, SlicesInv, QueueInv
<1>5. open
  BY DEF SlicesInv, PcInv
<1>6. PICK w \in Nat : Amount(w)
  BY DEF SlicesInv
<1>7. Handed \in Nat
  BY <1>4 DEF Handed
<1>8. ASSUME NEW b \in Sliced
      PROVE  b.at \in Nat /\ Num(b) \in 1 .. w /\ (b.at < delivered <=> Num(b) <= Handed)
  BY <1>5, <1>6, <1>8, SlicedIs DEF SlicesInv, QueueInv, Amount
<1>9. Num(a) > Handed
  BY <1>2, <1>3, <1>4, <1>7, <1>8
<1>10. PICK b \in Sliced : Num(b) = Handed + 1
  <2>1. Handed + 1 \in 1 .. w
    BY <1>7, <1>8, <1>9
  <2> QED BY <1>6, <2>1 DEF Amount
<1>11. Num(a) = Handed + 1
  <2>1. SUFFICES ASSUME Num(b) < Num(a) PROVE FALSE
    BY <1>7, <1>8, <1>9, <1>10
  <2>2. b.at < a.at
    BY <2>1 DEF SlicesInv, Ordered
  <2>3. delivered <= b.at
    BY <1>4, <1>7, <1>8, <1>10
  <2>4. PICK q \in log : q.at = b.at /\ q.kind = "slice"
    BY SlicedIs
  <2>5. b.at < pc.upper
    BY <1>2, <1>3, <1>4, <1>8, <2>2
  <2>6. r.at <= q.at
    BY <1>2, <2>3, <2>4, <2>5
  <2> QED BY <1>3, <1>8, <2>2, <2>4, <2>6
<1>12. requests[1].serial = next - Len(requests) /\ requests[1].serial \in Nat
  BY <1>4 DEF SlicesInv, QueueInv
<1>13. a.req = requests[1].serial /\ a.t = (IF count = 0 THEN "first" ELSE "last")
  <2>1. Num(a) = 2 * (requests[1].serial - 1) + count + 1
    BY <1>4, <1>11, <1>12 DEF Handed
  <2>2. /\ a.req \in Nat /\ a.t \in {"first", "last"}
        /\ a.t = "first" => Num(a) = 2 * a.req - 1
        /\ a.t = "last" => Num(a) = 2 * a.req
    BY SlicedIs
  <2>3. count \in {0, 1}
    BY <1>4
  <2>4. PICK n \in Nat, m \in Nat, k \in {Num(a)} : n = requests[1].serial /\ m = a.req /\ k = Num(a)
    BY <1>12, <2>2
  <2>5. CASE count = 0
    <3>1. k = 2 * n - 1
      BY <2>1, <2>4, <2>5
    <3>2. (a.t = "first" => k = 2 * m - 1) /\ (a.t = "last" => k = 2 * m)
      BY <2>2, <2>4
    <3>3. 2 * n - 1 # 2 * m /\ (2 * n - 1 = 2 * m - 1 => m = n)
      OBVIOUS
    <3> QED BY <2>2, <2>4, <2>5, <3>1, <3>2, <3>3
  <2>6. CASE count = 1
    <3>1. k = 2 * n
      BY <2>1, <2>4, <2>6
    <3>2. (a.t = "first" => k = 2 * m - 1) /\ (a.t = "last" => k = 2 * m)
      BY <2>2, <2>4
    <3>3. 2 * n # 2 * m - 1 /\ (2 * n = 2 * m => m = n)
      OBVIOUS
    <3> QED BY <2>2, <2>4, <2>6, <3>1, <3>2, <3>3
  <2> QED BY <2>3, <2>5, <2>6
<1>14. requests[1].at <= a.at
  BY <1>4, <1>13 DEF SlicesInv, QueueInv
<1>15. ASSUME NEW u \in Nat, Amount(u) PROVE Handed + 1 <= u
  BY <1>11, <1>15 DEF Amount
<1> QED BY <1>1, <1>3, <1>11, <1>12, <1>13, <1>14, <1>15

(* No record lies across a boundary.                                        *)
LEMMA StartsApart ==
  ASSUME LogInv, NEW r \in log, NEW pos \in Starts, r.at < pos
  PROVE  EndOf(r) <= pos
<1>1. CASE pos = head
  BY <1>1 DEF LogInv
<1>2. ASSUME NEW q \in log, pos = q.at PROVE EndOf(r) <= pos
  BY <1>2 DEF LogInv
<1> QED BY <1>1, <1>2 DEF Starts

(* What a slice does that is handed over: it is never early, nor released.  *)
LEMMA HandsOver ==
  ASSUME LogInv, TagInv, Types, SlicesInv, HandOver
  PROVE  LET r == Earliest(NextSlices) IN
         /\ pc.at = "deliver" /\ requests # <<>> /\ NextSlices # {}
         /\ UNCHANGED <<ring, pane, owners, dispatching, next, open, dead, events, pc>>
         /\ delivered' = EndOf(r)
         /\ \/ /\ count = 1 /\ count' = 0 /\ requests' = Tail(requests)
               /\ finished' = Append(finished, [serial |-> requests[1].serial,
                                                at |-> EndOf(r), slices |-> 2])
            \/ count = 0 /\ count' = 1 /\ UNCHANGED <<requests, finished>>
         /\ \/ Receivers(requests[1].serial) = {} /\ UNCHANGED conns
            \/ \E c \in Receivers(requests[1].serial) :
                 \E s \in TakeSlice(At(c), r) : Set(c, s)
<1>1. PICK r : r = Earliest(NextSlices)
  OBVIOUS
<1>2. /\ pc.at = "deliver" /\ requests # <<>> /\ NextSlices # {}
      /\ UNCHANGED <<ring, pane, owners, dispatching>>
      /\ \/ requests[1].at > r.at \/ delivered < tail
         \/ /\ delivered' = EndOf(r)
            /\ \/ /\ TagOf(r).t = "last"
                  /\ requests' = Tail(requests) /\ count' = 0
                  /\ finished' = Append(finished, [serial |-> requests[1].serial,
                                                   at |-> EndOf(r), slices |-> count + 1])
               \/ /\ TagOf(r).t = "first"
                  /\ count' = count + 1 /\ UNCHANGED <<requests, finished>>
            /\ \/ Receivers(requests[1].serial) = {} /\ UNCHANGED conns
               \/ \E c \in Receivers(requests[1].serial) :
                    \E s \in TakeSlice(At(c), r) : Set(c, s)
            /\ UNCHANGED <<next, open, dead, events, pc>>
  BY <1>1, HandOverCases, Zenon
<1>3. /\ requests[1].at <= r.at /\ TagOf(r).t = (IF count = 0 THEN "first" ELSE "last")
      /\ tail <= delivered /\ count \in {0, 1}
  BY <1>1, <1>2, NextHanded DEF SlicesInv, QueueInv
<1>4. requests[1].at \in Nat /\ r.at \in Nat /\ delivered \in Nat /\ tail \in Nat
  <2>1. requests[1] \in Waits
    BY <1>2 DEF Types, DeliveryTypes
  <2>2. r \in log
    BY <1>1, <1>2, NextSliceIs
  <2> QED BY <2>1, <2>2, RecordIs DEF Waits, Types, DeliveryTypes, LogInv
<1>5. ~(requests[1].at > r.at \/ delivered < tail)
  BY <1>3, <1>4
<1>6. count = 0 \/ count + 1 = 2
  BY <1>3
<1> QED BY <1>1, <1>2, <1>3, <1>5, <1>6

(* A slice that is handed over is the next one.                             *)
LEMMA HandOverSlices ==
  ASSUME LogInv, TagInv, Types, SlicesInv, HandOver
  PROVE  SlicesInv'
<1>1. PICK r : r = Earliest(NextSlices)
  OBVIOUS
<1>2. /\ pc.at = "deliver" /\ requests # <<>> /\ NextSlices # {}
      /\ UNCHANGED <<ring, pane, owners, dispatching, next, open, dead, events, pc>>
      /\ delivered' = EndOf(r)
      /\ \/ /\ count = 1 /\ count' = 0 /\ requests' = Tail(requests)
            /\ finished' = Append(finished, [serial |-> requests[1].serial,
                                             at |-> EndOf(r), slices |-> 2])
         \/ count = 0 /\ count' = 1 /\ UNCHANGED <<requests, finished>>
  BY <1>1, HandsOver
<1>3. PICK a \in Sliced : a.at = r.at /\ Num(a) = Handed + 1
  BY <1>1, <1>2, NextHanded
<1>4. /\ r \in log /\ delivered <= r.at /\ r.at < pc.upper
  BY <1>1, <1>2, NextSliceIs
<1>5. /\ requests \in Seq(Waits) /\ Len(requests) \in Nat \ {0} /\ next \in Nat \ {0}
      /\ finished \in Seq(Waits) /\ delivered \in Nat /\ tail \in Nat /\ head \in Nat /\ count \in Nat
      /\ requests[1].serial \in Nat
  BY <1>1, <1>2, NextHanded DEF Types, DeliveryTypes, LogInv
<1>6. QueueInv /\ open /\ pc.upper \in Starts
  BY <1>2 DEF SlicesInv, PcInv
<1>7. EndOf(r) \in Nat /\ r.at < EndOf(r) /\ EndOf(r) <= head /\ EndOf(r) <= pc.upper
  BY <1>4, <1>6, RecordIs, StartsApart
<1>8. PICK w \in Nat : Amount(w)
  BY DEF SlicesInv
<1>9. Sliced' = Sliced /\ head' = head /\ tail' = tail /\ Starts' = Starts /\ UNCHANGED <<asks, serving, frames, life>>
  BY <1>2, SameLog DEF Sliced, pane
<1>10. \A b : Num(b)' = Num(b)
  BY DEF Num
<1>11. /\ Handed \in Int /\ Handed' = Handed + 1 /\ Len(requests') <= next - 1
       /\ Len(requests') \in Nat /\ (requests' = <<>> => count' = 0)
       /\ \A i \in 1 .. Len(requests') :
            requests'[i] \in Elems(requests) /\ requests'[i].serial = next - Len(requests') + i - 1
  <2>1. CASE count = 1 /\ count' = 0 /\ requests' = Tail(requests)
    <3>1. /\ Len(requests') = Len(requests) - 1
          /\ \A i \in 1 .. Len(requests') : i + 1 \in 1 .. Len(requests) /\ requests'[i] = requests[i + 1]
      BY <1>2, <1>5, <2>1, ElemsTail
    <3>2. Handed \in Int /\ Handed' = Handed + 1 /\ Len(requests') <= next - 1 /\ Len(requests') \in Nat
      <4>1. Len(requests) <= next - 1 /\ next' = next
        BY <1>2, <1>6 DEF QueueInv
      <4>2. Handed = 2 * (next - 1 - Len(requests)) + 1 /\ Handed' = 2 * (next - 1 - Len(requests'))
        BY <1>5, <2>1, <3>1, <4>1 DEF Handed
      <4> QED BY <1>5, <3>1, <4>1, <4>2
    <3>3. \A i \in 1 .. Len(requests') :
            requests'[i] \in Elems(requests) /\ requests'[i].serial = next - Len(requests') + i - 1
      <4> SUFFICES ASSUME NEW i \in 1 .. Len(requests')
                   PROVE  requests'[i] \in Elems(requests) /\ requests'[i].serial = next - Len(requests') + i - 1
        OBVIOUS
      <4>1. PICK j \in 1 .. Len(requests) : j = i + 1 /\ requests'[i] = requests[j]
        BY <3>1
      <4>2. requests[j].serial = next - Len(requests) + j - 1
        BY <1>6 DEF QueueInv
      <4> QED BY <1>5, <3>1, <4>1, <4>2 DEF Elems
    <3> QED BY <2>1, <3>2, <3>3
  <2>2. CASE count = 0 /\ count' = 1 /\ UNCHANGED requests
    <3>1. Handed \in Int /\ Handed' = Handed + 1
      BY <1>2, <1>5, <2>2 DEF Handed
    <3>2. Len(requests) <= next - 1 /\ Len(requests) \in Nat /\ requests # <<>>
      BY <1>2, <1>5, <1>6 DEF QueueInv
    <3>3. \A i \in 1 .. Len(requests) :
            requests[i] \in Elems(requests) /\ requests[i].serial = next - Len(requests) + i - 1
      BY <1>6 DEF QueueInv, Elems
    <3> QED BY <1>2, <2>2, <3>1, <3>2, <3>3
  <2> QED BY <1>2, <2>1, <2>2
<1>12. Amount(w)'
  <2>1. Handed + 1 <= w
    BY <1>1, <1>2, <1>8, NextHanded
  <2> QED BY <1>2, <1>8, <1>9, <1>10, <1>11, <2>1 DEF Amount
<1>13. Ordered' /\ AsksInv' /\ FramesInv' /\ EventsInv'
  BY <1>2, <1>9, SamePart
<1>14. QueueInv'
  <2>1. tail <= EndOf(r)
    <3>1. tail <= delivered /\ r.at \in Nat
      BY <1>4, <1>6, RecordIs DEF QueueInv
    <3> QED BY <1>4, <1>5, <1>7, <3>1
  <2>2. \A b \in Sliced : b.at < EndOf(r) <=> Num(b) <= Handed + 1
    <3> SUFFICES ASSUME NEW b \in Sliced PROVE b.at < EndOf(r) <=> Num(b) <= Handed + 1
      OBVIOUS
    <3>1. b.at \in Nat /\ Num(b) \in Int /\ r.at \in Nat
      BY <1>4, SlicedIs, RecordIs
    <3>2. Num(a) < Num(b) <=> a.at < b.at
      BY DEF SlicesInv, Ordered
    <3>3. b.at \in Starts
      BY SlicedIs DEF Starts
    <3>4. r.at < b.at => EndOf(r) <= b.at
      BY <1>4, <3>3, StartsApart
    <3> QED BY <1>3, <1>7, <1>11, <3>1, <3>2, <3>4
  <2>3. \A q \in Elems(requests) :
          q.at <= head /\ \A b \in Sliced : b.req = q.serial => q.at <= b.at
    BY <1>6 DEF QueueInv, Elems
  <2>4. \A i \in 1 .. Len(finished') : finished'[i].slices = 2
    <3>1. CASE UNCHANGED finished
      BY <1>6, <3>1 DEF QueueInv
    <3>2. CASE finished' = Append(finished, [serial |-> requests[1].serial, at |-> EndOf(r), slices |-> 2])
      <4>1. PICK x : x = [serial |-> requests[1].serial, at |-> EndOf(r), slices |-> 2]
        OBVIOUS
      <4>2. x \in Waits /\ x.slices = 2
        BY <1>5, <1>7, <4>1 DEF Waits
      <4>3. /\ Len(finished) \in Nat /\ Len(finished') = Len(finished) + 1 /\ finished'[Len(finished) + 1] = x
            /\ \A k \in 1 .. Len(finished) : finished'[k] = finished[k]
        BY <1>5, <3>2, <4>1, <4>2, ElemsAppend
      <4> QED BY <1>6, <4>2, <4>3 DEF QueueInv
    <3> QED BY <1>2, <3>1, <3>2
  <2>5. count' \in {0, 1}
    BY <1>2
  <2> QED BY <1>2, <1>6, <1>7, <1>9, <1>10, <1>11, <2>1, <2>2, <2>3, <2>4, <2>5 DEF QueueInv
<1>15. PcInv'
  BY <1>2, <1>6, <1>7, <1>9, <1>10 DEF SlicesInv, PcInv
<1> QED BY <1>8, <1>12, <1>13, <1>14, <1>15 DEF SlicesInv

(* A walk that ends has handed over the slices it was to look at.           *)
LEMMA WalkEnds ==
  ASSUME LogInv, TagInv, Types, SlicesInv, Delivered
  PROVE  /\ open /\ pc.upper \in Starts /\ pc.upper \in Nat /\ delivered <= pc.upper
         /\ tail <= pc.upper /\ pc.upper <= head
         /\ \A a \in Sliced : a.at < pc.upper <=> Num(a) <= Handed
         /\ requests # <<>> => \A a \in Sliced : a.at < pc.upper => a.at < delivered
<1>1. pc.at = "deliver" /\ (requests = <<>> \/ NextSlices = {})
  BY DEF Delivered
<1>2. /\ open /\ pc.upper \in Starts /\ delivered <= pc.upper /\ tail <= delivered
      /\ \A a \in Sliced : a.at < delivered <=> Num(a) <= Handed
  BY <1>1 DEF SlicesInv, PcInv, QueueInv
<1>3. /\ pc.upper \in Nat /\ delivered \in Nat /\ tail \in Nat /\ head \in Nat /\ next \in Nat \ {0}
      /\ count \in Nat /\ requests \in Seq(Waits)
  BY DEF Types, PcTypes, PcSet, DeliveryTypes, LogInv
<1>4. pc.upper <= head
  <2>1. \A r \in log : r.at \in Nat /\ r.at < head
    BY RecordIs
  <2> QED BY <1>2, <1>3, <2>1 DEF Starts
<1>5. requests # <<>> => \A a \in Sliced : a.at < pc.upper => a.at < delivered
  <2> SUFFICES ASSUME requests # <<>>, NEW a \in Sliced, a.at < pc.upper, ~(a.at < delivered) PROVE FALSE
    OBVIOUS
  <2>1. PICK r \in log : r.at = a.at /\ r.kind = "slice"
    BY SlicedIs
  <2>2. delivered <= r.at
    <3>1. r.at \in Nat
      BY RecordIs
    <3> QED BY <1>3, <2>1, <3>1
  <2>3. r \in NextSlices
    BY <2>1, <2>2 DEF NextSlices, Between
  <2> QED BY <1>1, <2>3
<1>6. ASSUME NEW a \in Sliced PROVE a.at < pc.upper <=> Num(a) <= Handed
  <2>0. a.at \in Nat
    BY SlicedIs
  <2>1. CASE requests # <<>>
    BY <1>2, <1>3, <1>5, <2>0, <2>1
  <2>2. CASE requests = <<>>
    <3>1. PICK w \in Nat : Amount(w)
      BY DEF SlicesInv
    <3>2. Handed = 2 * (next - 1)
      BY <1>3, <2>2 DEF Handed, SlicesInv, QueueInv
    <3>3. Num(a) \in 1 .. w /\ w <= 2 * (next - 1)
      BY <3>1 DEF Amount
    <3>4. Num(a) <= Handed
      BY <1>3, <3>2, <3>3
    <3>5. a.at < delivered
      BY <1>2, <3>4
    <3> QED BY <1>2, <1>3, <2>0, <3>4, <3>5
  <2> QED BY <2>1, <2>2
<1>7. tail <= pc.upper
  BY <1>2, <1>3
<1> QED BY <1>2, <1>3, <1>4, <1>5, <1>6, <1>7

(* A scan moves the tail, and no further than it looked.                    *)
LEMMA ScanReleases ==
  ASSUME LogInv, Types, pc.upper \in Starts, pc.upper \in Nat, tail <= pc.upper, Advance(Keep(pc.upper))
  PROVE  /\ log' = log /\ head' = head /\ Starts' = Starts /\ End' = End
         /\ tail' \in Nat /\ tail <= tail' /\ tail' <= pc.upper
<1> DEFINE from == Retain(pc.upper, Keep(pc.upper))
           stop == {to \in Starts : tail <= to /\ from <= to}
<1>1. from <= pc.upper
  <2>1. Keep(pc.upper) \in Nat /\ Keep(pc.upper) <= pc.upper
    <3>1. CASE finished = <<>>
      BY <3>1 DEF Keep
    <3>2. CASE finished # <<>>
      <4>1. finished[1] \in Waits
        BY <3>2 DEF Types, DeliveryTypes
      <4>2. finished[1].at \in Nat
        BY <4>1 DEF Waits
      <4> QED BY <3>2, <4>2 DEF Keep, Lesser
    <3> QED BY <3>1, <3>2
  <2>2. PICK keep \in Nat : keep = Keep(pc.upper) /\ keep <= pc.upper
    BY <2>1
  <2>3. PICK back \in Int : back = pc.upper - Capacity \div 2
    BY FormatAssumption
  <2>4. PICK floor \in Int : floor = Floor0(back)
    BY <2>3 DEF Floor0
  <2>5. from = Lesser(floor, keep)
    BY <2>2, <2>3, <2>4 DEF Retain
  <2> QED BY <2>2, <2>5 DEF Lesser
<1> HIDE DEF from
<1>2. PICK to \in stop : /\ \A other \in stop : to <= other
                         /\ IF tail < to THEN Release(to) ELSE UNCHANGED ring
  BY Zenon DEF Advance, from
<1>3. pc.upper \in stop
  BY <1>1
<1>4. to <= pc.upper /\ to \in Starts /\ tail <= to /\ to \in Nat
  BY <1>2, <1>3 DEF LogInv, Starts, Records
<1>5. CASE tail < to
  <2>1. Release(to)
    BY <1>2, <1>5
  <2> QED BY <1>4, <1>5, <2>1, ReleaseMoves
<1>6. CASE ~(tail < to)
  <2>1. UNCHANGED ring
    BY <1>2, <1>6
  <2> QED BY <1>4, <2>1, SameLog DEF LogInv
<1> QED BY <1>5, <1>6

(* A scan that ends.                                                        *)
LEMMA ScanSlices ==
  ASSUME LogInv, TagInv, Types, SlicesInv, EndScan
  PROVE  SlicesInv'
<1>1. /\ Delivered /\ Advance(Keep(pc.upper)) /\ delivered' = pc.upper /\ pc' = Rest
      /\ UNCHANGED <<asks, serving, frames, life, tags, requests, finished, count, next, open, events>>
  BY DEF EndScan
<1>2. /\ open /\ pc.upper \in Starts /\ pc.upper \in Nat /\ tail <= pc.upper /\ pc.upper <= head
      /\ \A a \in Sliced : a.at < pc.upper <=> Num(a) <= Handed
  BY <1>1, WalkEnds
<1>3. head' = head /\ tail' <= pc.upper
  BY <1>1, <1>2, ScanReleases
<1>4. Sliced' = Sliced /\ Handed' = Handed /\ \A b : Num(b)' = Num(b)
  BY <1>1 DEF Sliced, Handed, Num
<1>5. PICK w \in Nat : Amount(w)
  BY DEF SlicesInv
<1>6. Amount(w)'
  BY <1>1, <1>4, <1>5, SameAmount
<1>7. Ordered' /\ AsksInv' /\ FramesInv' /\ EventsInv'
  BY <1>1, <1>4, SamePart
<1>8. QueueInv'
  <2>1. QueueInv
    BY DEF SlicesInv
  <2> QED BY <1>1, <1>2, <1>3, <1>4, <2>1 DEF QueueInv
<1>9. PcInv'
  BY <1>1 DEF PcInv, Rest
<1> QED BY <1>5, <1>6, <1>7, <1>8, <1>9 DEF SlicesInv

(* What a done frame finds: its request is among the finished ones.         *)
LEMMA DoneFinds ==
  ASSUME LogInv, TagInv, Types, SlicesInv, EndDone
  PROVE  /\ Delivered /\ delivered' = pc.upper /\ pc' = Rest
         /\ UNCHANGED <<ring, pane, next, open, dead, owners, dispatching, conns, requests, count>>
         /\ \/ UNCHANGED <<finished, events>>
            \/ /\ finished # <<>> /\ finished' = Tail(finished)
               /\ events' = Append(events, Done(finished[1], finished[1].at, finished[1].slices))
<1>1. /\ Delivered /\ pc.then # 0 /\ delivered' = pc.upper /\ pc' = Rest
      /\ UNCHANGED <<ring, pane, next, open, dead, owners, dispatching, conns>>
      /\ \/ UNCHANGED <<requests, finished, count, events>>
         \/ /\ finished # <<>> /\ finished' = Tail(finished)
            /\ events' = Append(events, Done(finished[1], finished[1].at, finished[1].slices))
            /\ UNCHANGED <<requests, count>>
         \/ requests # <<>> /\ requests[1].serial = pc.then
  BY DEF EndDone
<1>2. ASSUME requests # <<>>, requests[1].serial = pc.then PROVE FALSE
  <2>1. PICK a \in Sliced : Num(a) = 2 * pc.then /\ a.at < pc.upper
    BY <1>1 DEF Delivered, SlicesInv, PcInv
  <2>2. Num(a) <= Handed
    BY <1>1, <2>1, WalkEnds
  <2>3. Len(requests) \in Nat \ {0} /\ next \in Nat \ {0}
    BY <1>2 DEF Types, DeliveryTypes
  <2>4. count \in {0, 1} /\ requests[1].serial = next - Len(requests)
    BY <2>3 DEF SlicesInv, QueueInv
  <2>5. Handed = 2 * (pc.then - 1) + count /\ pc.then \in Nat
    <3>1. PICK len \in Nat : len = Len(requests)
      BY <2>3
    <3>2. pc.then = next - len /\ Handed = 2 * (next - 1 - len) + count
      BY <1>2, <2>4, <3>1 DEF Handed
    <3>3. pc.then \in Nat
      BY DEF Types, PcTypes, PcSet
    <3> QED BY <2>3, <2>4, <3>2, <3>3
  <2> QED BY <2>1, <2>2, <2>4, <2>5
<1> QED BY <1>1, <1>2

(* A done frame is looked up.                                               *)
LEMMA DoneSlices ==
  ASSUME LogInv, TagInv, Types, SlicesInv, EndDone
  PROVE  SlicesInv'
<1>1. /\ Delivered /\ delivered' = pc.upper /\ pc' = Rest
      /\ UNCHANGED <<ring, tags, asks, serving, frames, life, next, open, requests, count>>
      /\ \/ UNCHANGED <<finished, events>>
         \/ /\ finished # <<>> /\ finished' = Tail(finished)
            /\ events' = Append(events, Done(finished[1], finished[1].at, finished[1].slices))
  BY DoneFinds DEF pane
<1>2. /\ open /\ pc.upper \in Nat /\ tail <= pc.upper /\ pc.upper <= head
      /\ \A a \in Sliced : a.at < pc.upper <=> Num(a) <= Handed
  BY <1>1, WalkEnds
<1>3. head' = head /\ tail' = tail
  BY <1>1, SameLog
<1>4. Sliced' = Sliced /\ Handed' = Handed /\ \A b : Num(b)' = Num(b)
  BY <1>1 DEF Sliced, Handed, Num
<1>5. PICK w \in Nat : Amount(w)
  BY DEF SlicesInv
<1>6. Amount(w)'
  BY <1>1, <1>4, <1>5, SameAmount
<1>7. Ordered' /\ AsksInv' /\ FramesInv'
  BY <1>1, <1>4, SamePart
<1>8. QueueInv' /\ EventsInv'
  <2>1. QueueInv /\ EventsInv /\ finished \in Seq(Waits) /\ events \in Seq(EventSet)
    BY DEF SlicesInv, Types, DeliveryTypes, ServerTypes
  <2>2. CASE UNCHANGED <<finished, events>>
    BY <1>1, <1>2, <1>3, <1>4, <2>1, <2>2 DEF QueueInv, EventsInv
  <2>3. CASE /\ finished # <<>> /\ finished' = Tail(finished)
             /\ events' = Append(events, Done(finished[1], finished[1].at, finished[1].slices))
    <3>1. PICK x \in Waits : x = finished[1]
      BY <2>1, <2>3
    <3>2. x.at \in Nat \cup {NoHold} /\ x.at # NoHold /\ x.slices \in Nat
      BY DEF Waits, NoHold
    <3>3. PICK e : e = Done(x, x.at, x.slices)
      OBVIOUS
    <3>4. e \in EventSet /\ e.hold # NoHold
      BY <3>2, <3>3, DoneIs
    <3>5. /\ Len(events) \in Nat /\ Len(events') = Len(events) + 1 /\ events'[Len(events) + 1] = e
          /\ \A k \in 1 .. Len(events) : events'[k] = events[k]
      BY <2>1, <2>3, <3>1, <3>3, <3>4, ElemsAppend
    <3>6. EventsInv'
      BY <1>1, <2>1, <3>4, <3>5 DEF EventsInv
    <3>7. \A i \in 1 .. Len(finished') : i + 1 \in 1 .. Len(finished) /\ finished'[i] = finished[i + 1]
      BY <2>1, <2>3, ElemsTail
    <3>8. QueueInv'
      BY <1>1, <1>2, <1>3, <1>4, <2>1, <3>7 DEF QueueInv
    <3> QED BY <3>6, <3>8
  <2> QED BY <1>1, <2>2, <2>3
<1>9. PcInv'
  BY <1>1 DEF PcInv, Rest
<1> QED BY <1>5, <1>6, <1>7, <1>8, <1>9 DEF SlicesInv

(* The server begins to look at the ring, for a frame or without one.       *)
LEMMA LooksSlices ==
  ASSUME LogInv, TagInv, Types, SlicesInv,
         UNCHANGED <<ring, tags, asks, serving, life, delivery, open, events>>,
         frames' = frames \/ (frames # <<>> /\ frames' = Tail(frames)),
         \/ UNCHANGED pc
         \/ open /\ Deliver(0)
         \/ \E req \in Nat : open /\ IsWritten(req) /\ Deliver(req)
  PROVE  SlicesInv'
<1>0. Sliced' = Sliced /\ Starts' = Starts /\ head' = head /\ tail' = tail
  BY SameLog DEF Sliced
<1>1. UNCHANGED <<requests, finished, delivered, count, next>>
  BY DEF delivery
<1>2. PICK w \in Nat : Amount(w)
  BY DEF SlicesInv
<1>3. Amount(w)'
  BY <1>0, <1>1, <1>2, SameAmount
<1>4. Ordered' /\ AsksInv' /\ EventsInv'
  BY <1>0, <1>1, SamePart
<1>5. FramesInv'
  <2>1. CASE frames' = frames
    BY <1>0, <2>1, SamePart
  <2>2. CASE frames # <<>> /\ frames' = Tail(frames)
    <3>1. frames \in Seq(FrameSet)
      BY DEF Types, PaneTypes
    <3>2. \A i \in 1 .. Len(frames') : i + 1 \in 1 .. Len(frames) /\ frames'[i] = frames[i + 1]
      BY <2>2, <3>1, ElemsTail
    <3>3. \A req : IsWritten(req) => IsWritten(req)'
      BY <1>0 DEF IsWritten, Num
    <3>4. ASSUME NEW i \in 1 .. Len(frames'), frames'[i].t = "done" PROVE IsWritten(frames[i].req)'
      <4>1. PICK j \in 1 .. Len(frames) : frames'[i] = frames[j]
        BY <3>2
      <4>2. IsWritten(frames[j].req)
        BY <3>4, <4>1 DEF SlicesInv, FramesInv
      <4> QED BY <3>3, <4>1, <4>2
    <3> QED BY <3>4 DEF FramesInv
  <2> QED BY <2>1, <2>2
<1>6. QueueInv'
  BY <1>0, <1>1 DEF SlicesInv, QueueInv, Handed, Num
<1>7. PcInv'
  <2>1. PcInv /\ delivered <= head /\ head \in Starts
    BY DEF SlicesInv, QueueInv, Starts
  <2>2. CASE UNCHANGED pc
    BY <1>0, <1>1, <2>1, <2>2 DEF PcInv, Num
  <2>3. CASE open /\ Deliver(0)
    <3>1. pc'.upper = head /\ pc'.then = 0
      BY <2>3 DEF Deliver, Rest
    <3> QED BY <1>0, <1>1, <2>1, <2>3, <3>1 DEF PcInv
  <2>4. ASSUME NEW req \in Nat, open, IsWritten(req), Deliver(req) PROVE PcInv'
    <3>1. pc'.upper = head /\ pc'.then = req
      BY <2>4 DEF Deliver, Rest
    <3>2. PICK a \in Sliced : Num(a) = 2 * req
      BY <2>4 DEF IsWritten
    <3>3. a.at < head
      BY SlicedIs
    <3> QED BY <1>0, <1>1, <2>1, <2>4, <3>1, <3>2, <3>3 DEF PcInv, Num
  <2> QED BY <2>2, <2>3, <2>4
<1> QED BY <1>2, <1>3, <1>4, <1>5, <1>6, <1>7 DEF SlicesInv

(* Frames, the end of the socket, and the ticker.                           *)
LEMMA ReadSlices ==
  ASSUME LogInv, TagInv, Types, SlicesInv, ReadFrame \/ ReadEnd \/ Scan
  PROVE  SlicesInv'
<1>1. CASE ReadFrame
  <2>1. /\ open /\ frames # <<>> /\ frames' = Tail(frames)
        /\ UNCHANGED <<ring, asks, serving, life, tags, delivery, open>>
    BY <1>1, Zenon DEF ReadFrame
  <2>2. frames \in Seq(FrameSet) /\ Head(frames) \in FrameSet /\ Head(frames) = frames[1] /\ Len(frames) \in Nat \ {0}
    BY <2>1, ElemsTail DEF Types, PaneTypes
  <2>3. Head(frames).t \in {"done", "full", "dead"} /\ Head(frames).req \in Nat
    BY <2>2 DEF FrameSet
  <2>4. /\ UNCHANGED events
        /\ \/ UNCHANGED pc
           \/ Deliver(0)
           \/ Head(frames).t = "done" /\ Deliver(Head(frames).req)
    BY <1>1, <2>3 DEF ReadFrame
  <2>5. Head(frames).t = "done" => IsWritten(Head(frames).req)
    BY <2>2 DEF SlicesInv, FramesInv
  <2> QED BY <2>1, <2>3, <2>4, <2>5, LooksSlices
<1>2. CASE ReadEnd
  <2>1. /\ Failure(events, requests, <<>>) /\ life = "gone" /\ pc' = pc /\ pc = Rest
        /\ UNCHANGED <<delivered, next, ring, asks, serving, frames, life, tags>>
    BY <1>2 DEF ReadEnd, AtRest, pane
  <2>2. pc'.at # "deliver"
    BY <2>1 DEF Rest
  <2> QED BY <2>1, <2>2, FailSlices
<1>3. CASE Scan
  <2>1. open /\ Deliver(0) /\ UNCHANGED <<ring, tags, asks, serving, life, delivery, open, events, frames>>
    BY <1>3 DEF Scan, pane
  <2> QED BY <2>1, LooksSlices
<1> QED BY <1>1, <1>2, <1>3

(* A client that asks.                                                      *)
LEMMA AskSlices ==
  ASSUME LogInv, TagInv, Types, SlicesInv, NEW c \in Clients, NEW history, NEW v, NEW w, NEW m,
         Ask(c, history, State(v, w, m)), pc.at # "deliver", pc' = Rest \/ UNCHANGED pc
  PROVE  SlicesInv'
<1>1. UNCHANGED <<ring, serving, frames, life, tags>> /\ pc'.at # "deliver"
  BY AskCases DEF Rest
<1>2. CASE open /\ life # "gone" /\ Request /\ asks' = Append(asks, next) /\ UNCHANGED <<finished, count, open, events>>
  BY <1>1, <1>2, RequestSlices
<1>3. CASE ~open /\ UNCHANGED <<delivery, open, events>> /\ UNCHANGED asks
  BY <1>1, <1>3, CalmSlices
<1>4. CASE open /\ life = "gone" /\ GivenUp /\ UNCHANGED asks
  BY <1>1, <1>4, FailSlices DEF GivenUp
<1> QED BY <1>2, <1>3, <1>4, AskCases, Zenon

(* A step of the views that asks for nothing.                               *)
LEMMA QuietSlices ==
  ASSUME Types, SlicesInv, Quiet, pc' = pc \/ pc'.at # "deliver"
  PROVE  SlicesInv'
BY CalmSlices DEF Quiet, pane

(* decide(), open() and a resync.                                           *)
LEMMA ViewSlices ==
  ASSUME LogInv, TagInv, Types, SlicesInv,
         \/ Decides
         \/ \E c \in Clients : Open(c)
         \/ \E c \in Clients, history \in Histories : Resync(c, history)
  PROVE  SlicesInv'
<1>1. CASE Decides
  <2>1. PICK c \in Clients : c = pc.client
    BY <1>1, DecidesCases DEF Types, PcTypes
  <2>2. pc.at = "decide" /\ DecidesAs(c)
    BY <1>1, <2>1, DecidesCases
  <2>3. CASE Quiet /\ pc' = Rest
    BY <2>3, QuietSlices DEF Rest
  <2>4. CASE Asks(c, view[c].wanted, At(c)) /\ pc' = Rest
    <3>1. Ask(c, view[c].wanted, State(view[c], waiting[c], mirror[c]))
      BY <2>4, AtIs DEF Asks
    <3> QED BY <2>2, <2>4, <3>1, AskSlices
  <2>5. ASSUME NEW s \in Sent(SkipState(c)), pc' = Rest, Asks(c, "screen", s) PROVE SlicesInv'
    <3>1. PICK m : m = Skipped(mirror[c], view[c].coff)
      OBVIOUS
    <3>2. PICK late : s = State(SkipView(c), late, m)
      <4>1. s \in Sent(State(SkipView(c), waiting[c], m))
        BY <3>1, SkipStateIs
      <4> QED BY <4>1, SentIs
    <3>3. PICK history : history = "screen"
      OBVIOUS
    <3>4. Ask(c, history, State(SkipView(c), late, m))
      BY <2>5, <3>2, <3>3 DEF Asks
    <3> QED BY <2>2, <2>5, <3>4, AskSlices
  <2>6. ASSUME NEW history, Asks(c, history, ClearState(c)), pc' = Rest PROVE SlicesInv'
    <3>1. Ask(c, history, State(ClearView(c), waiting[c], mirror[c]))
      BY <2>6, ClearStateIs DEF Asks
    <3> QED BY <2>2, <2>6, <3>1, AskSlices
  <2>7. CASE pc' = [pc EXCEPT !.at = "resume"] /\ Quiet
    <3>1. pc'.at # "deliver"
      BY <2>7 DEF Types, PcTypes, PcSet
    <3> QED BY <2>7, <3>1, QuietSlices
  <2> QED BY <2>2, <2>3, <2>4, <2>5, <2>6, <2>7, Zenon DEF DecidesAs
<1>2. ASSUME NEW c \in Clients, Open(c) PROVE SlicesInv'
  <2>1. pc = Rest /\ OpensAs(c)
    BY <1>2, OpenCases DEF Idle, AtRest
  <2>2. pc.at # "deliver"
    BY <2>1 DEF Rest
  <2>3. PICK history :
        \/ Asks(c, history, FreshState(c, history)) /\ UNCHANGED pc
        \/ Decide(c) /\ Quiet
    BY <2>1 DEF OpensAs
  <2>4. CASE Asks(c, history, FreshState(c, history)) /\ UNCHANGED pc
    <3>1. Ask(c, history, State(FreshView(c, history), waiting[c], mirror[c]))
      BY <2>4, FreshStateIs DEF Asks
    <3> QED BY <2>2, <2>4, <3>1, AskSlices
  <2>5. CASE Decide(c) /\ Quiet
    <3>1. pc'.at # "deliver"
      BY <2>5 DEF Decide, Rest
    <3> QED BY <2>5, <3>1, QuietSlices
  <2> QED BY <2>3, <2>4, <2>5
<1>3. ASSUME NEW c \in Clients, NEW history \in Histories, Resync(c, history) PROVE SlicesInv'
  <2>1. pc = Rest /\ UNCHANGED pc
    BY <1>3, ResyncCases DEF Idle, AtRest
  <2>2. pc.at # "deliver"
    BY <2>1 DEF Rest
  <2>3. CASE Ask(c, history, WantedState(c, history))
    <3>1. Ask(c, history, State(WantedView(c, history), waiting[c], mirror[c]))
      BY <2>3, WantedStateIs
    <3> QED BY <2>1, <2>2, <3>1, AskSlices
  <2>4. CASE UNCHANGED <<ring, asks, serving, frames, full, life, tags,
                         delivery, open, dead, owners, events>>
    BY <2>1, <2>4, CalmSlices
  <2> QED BY <1>3, <2>3, <2>4, ResyncCases
<1> QED BY <1>1, <1>2, <1>3

(* Nothing is written or asked for at first.                                *)
LEMMA InitSlices == ASSUME Init PROVE SlicesInv
<1>0. /\ log = {} /\ head = 0 /\ tail = 0 /\ asks = <<>> /\ serving = NoServing /\ frames = <<>>
      /\ life = "running" /\ tags = {} /\ requests = <<>> /\ finished = <<>> /\ delivered = 0
      /\ count = 0 /\ next = 1 /\ open = TRUE /\ events = <<>> /\ pc = Rest
  BY DEF Init, LogInit
<1>1. Sliced = {} /\ Handed = 0
  BY <1>0 DEF Sliced, Handed
<1>2. serving.left = 0
  BY <1>0 DEF NoServing
<1>3. \E w \in Nat : Amount(w)
  <2>1. Amount(0)
    BY <1>0, <1>1, <1>2 DEF Amount
  <2> QED BY <2>1
<1>4. Ordered /\ AsksInv /\ FramesInv /\ EventsInv
  BY <1>0, <1>1, <1>2 DEF Ordered, AsksInv, FramesInv, EventsInv
<1>5. QueueInv /\ PcInv
  BY <1>0, <1>1 DEF QueueInv, PcInv, Rest
<1> QED BY <1>3, <1>4, <1>5 DEF SlicesInv

(* Every step keeps what is known of slices and requests.                   *)
LEMMA StepSlices ==
  ASSUME TypeInv, SlicesInv, [Next]_vars
  PROVE  SlicesInv'
<1>0. LogInv /\ TagInv /\ Types
  BY DEF TypeInv
<1>1. CASE UNCHANGED vars
  BY <1>0, <1>1, CalmSlices DEF vars, pane, delivery, server
<1>2. CASE PaneWrites \/ PaneResizes \/ PaneExits \/ PaneCrashes \/ PaneStep
  BY <1>0, <1>2, WriteSlices, BeginSlices, CrashSlices, WritesSlices DEF PaneStep
<1>3. CASE ServerStep
  <2>1. CASE HandOver \/ EndScan \/ EndDone \/ ReadFrame \/ ReadEnd \/ Scan \/ Decides
    BY <1>0, <2>1, HandOverSlices, ScanSlices, DoneSlices, ReadSlices, ViewSlices
  <2>2. CASE TakeEvent
    <3>1. events # <<>> /\ events' = Tail(events) /\ UNCHANGED <<ring, pane, delivery, open>>
      BY <2>2, TakeCases
    <3>2. pc' = pc \/ pc'.at # "deliver"
      <4>1. \A c : Decide(c) => pc'.at # "deliver"
        BY DEF Decide, Rest
      <4>2. TakesDone(Head(events)) \/ TakeFailed
        BY <2>2, TakeCases
      <4> QED BY <4>1, <4>2 DEF TakesDone, TakeFailed
    <3> QED BY <1>0, <3>1, <3>2, CalmSlices DEF pane
  <2>3. ASSUME NEW c \in Clients, Pump(c) PROVE SlicesInv'
    <3>1. Decide(c) /\ Quiet
      BY <2>3 DEF Pump, Quiet
    <3>2. pc'.at # "deliver"
      BY <3>1 DEF Decide, Rest
    <3> QED BY <1>0, <3>1, <3>2, QuietSlices
  <2>4. CASE Resume
    <3>1. Quiet /\ pc' = Rest
      BY <1>0, <2>4, ResumeCases
    <3> QED BY <1>0, <3>1, QuietSlices DEF Rest
  <2> QED BY <1>3, <2>1, <2>2, <2>3, <2>4 DEF ServerStep
<1>4. ASSUME NEW c \in Clients, Writable(c) \/ Open(c) \/ Leave(c) PROVE SlicesInv'
  <2>1. CASE Writable(c)
    <3>1. Drained(c) /\ Quiet
      BY <2>1 DEF Writable, Quiet
    <3>2. pc'.at # "deliver"
      BY <3>1 DEF Drained, Rest
    <3> QED BY <1>0, <3>1, <3>2, QuietSlices
  <2>2. CASE Leave(c)
    <3>1. UNCHANGED <<ring, asks, serving, frames, life, tags, delivery, server>>
      BY <2>2, LeaveIs
    <3> QED BY <1>0, <3>1, CalmSlices DEF server
  <2> QED BY <1>0, <1>4, <2>1, <2>2, ViewSlices
<1>5. ASSUME NEW c \in Clients, NEW history \in Histories, Resync(c, history) PROVE SlicesInv'
  BY <1>0, <1>5, ViewSlices
<1> QED BY <1>1, <1>2, <1>3, <1>4, <1>5 DEF Next

-----------------------------------------------------------------------------
(* What a client's copy says of its end is written when its view ends, and  *)
(* by no message.                                                           *)
HasEnd(m)   == "end" \in DOMAIN m
Fares(m, k) == HasEnd(m) => HasEnd(k) /\ k.end = m.end

(* The changes of a copy that are no end.                                   *)
LEMMA CopyFares ==
  ASSUME NEW m
  PROVE  /\ Fares(m, m)
         /\ \A from : Fares(m, Skipped(m, from))
         /\ \A v : Fares(m, DiedAt(m, v))
         /\ \A r : Fares(m, AfterSlice(m, r))
         /\ \A r, from : Fares(m, AfterBytes(m, r, from))
         /\ \A r, history : Fares(m, AfterMarker(m, r, history))
<1> USE DEF Fares, HasEnd
<1>1. \A from : Fares(m, Skipped(m, from))
  BY DEF Skipped
<1>2. \A v : Fares(m, DiedAt(m, v))
  BY DEF DiedAt
<1>3. \A r : Fares(m, AfterSlice(m, r))
  BY DEF AfterSlice
<1>4. \A r, from : Fares(m, AfterBytes(m, r, from))
  BY DEF AfterBytes
<1>5. \A r, history : Fares(m, AfterMarker(m, r, history))
  BY DEF AfterMarker
<1> QED BY <1>1, <1>2, <1>3, <1>4, <1>5

(* An end that is written.                                                  *)
LEMMA EndedIs ==
  ASSUME NEW m, NEW why, HasEnd(m)
  PROVE  HasEnd(Ended(m, why)) /\ Ended(m, why).end = why
BY DEF HasEnd, Ended

(* The copy of a view that was opened at an offset.                         *)
LEMMA ResumedFares == \A c, off, missed : Fares(mirror[c], ResumedMirror(c, off, missed))
BY DEF Fares, HasEnd, ResumedMirror

(* The copies of Replay, one for each position.                             *)
Copy(c, m, r) ==
  IF r.kind = "marker" THEN AfterMarker(m, r, view[c].history)
  ELSE AfterBytes(m, r, IF r.off < view[c].coff THEN view[c].coff ELSE r.off)
EndAt(sent, pos) == {r \in sent : EndOf(r) = pos}
Copied(c, sent, m, pos) ==
  IF EndAt(sent, pos) = {} THEN m ELSE Copy(c, m, CHOOSE r \in EndAt(sent, pos) : TRUE)

(* The recursive function of Replay exists: each copy follows from the one  *)
(* before it.                                                               *)
LEMMA ReplayUnfolds ==
  ASSUME NEW c, NEW sent, head \in Nat
  PROVE  \E f : /\ f[0] = mirror[c] /\ Replay(c, sent) = f[head]
                /\ \A pos \in 1 .. head : f[pos] = Copied(c, sent, f[pos - 1], pos)
<1> DEFINE Good(f, n) == /\ f = [pos \in 0 .. n |-> f[pos]]
                         /\ f[0] = mirror[c]
                         /\ \A pos \in 1 .. n : f[pos] = Copied(c, sent, f[pos - 1], pos)
           T == {n \in Nat : \E f : Good(f, n)}
<1>1. 0 \in T
  <2>1. Good([pos \in 0 .. 0 |-> mirror[c]], 0)
    OBVIOUS
  <2> QED BY <2>1
<1>2. ASSUME NEW n \in Nat, n \in T PROVE n + 1 \in T
  <2>1. PICK f : Good(f, n)
    BY <1>2
  <2> DEFINE g == [pos \in 0 .. n + 1 |-> IF pos = n + 1 THEN Copied(c, sent, f[n], n + 1) ELSE f[pos]]
  <2>2. /\ \A pos \in 0 .. n : g[pos] = f[pos]
        /\ g[n + 1] = Copied(c, sent, f[n], n + 1)
        /\ g = [pos \in 0 .. n + 1 |-> g[pos]]
    OBVIOUS
  <2> HIDE DEF g
  <2>3. ASSUME NEW pos \in 1 .. n + 1 PROVE g[pos] = Copied(c, sent, g[pos - 1], pos)
    <3>1. pos - 1 \in 0 .. n /\ (pos \in 1 .. n \/ pos = n + 1) /\ (pos \in 1 .. n => pos \in 0 .. n)
      OBVIOUS
    <3>2. CASE pos = n + 1
      <4>1. pos - 1 = n
        BY <3>2
      <4> QED BY <2>2, <3>1, <3>2, <4>1
    <3>3. CASE pos \in 1 .. n
      BY <2>1, <2>2, <3>1, <3>3
    <3> QED BY <3>1, <3>2, <3>3
  <2>4. Good(g, n + 1)
    <3>1. 0 \in 0 .. n
      OBVIOUS
    <3>2. g[0] = mirror[c]
      BY <2>1, <2>2, <3>1
    <3> QED BY <2>2, <2>3, <3>2
  <2> HIDE DEF Good
  <2> QED BY <2>4
<1>3. PICK f : Good(f, head)
  BY <1>1, <1>2, NatInduct
<1> DEFINE Then(f1, pos) ==
             IF pos = 0 THEN mirror[c]
             ELSE IF EndAt(sent, pos) = {} THEN f1[pos - 1]
             ELSE Copy(c, f1[pos - 1], CHOOSE r \in EndAt(sent, pos) : TRUE)
           u == CHOOSE f1 : f1 = [pos \in 0 .. head |-> Then(f1, pos)]
<1>4. \A f1, pos : Then(f1, pos) = IF pos = 0 THEN mirror[c] ELSE Copied(c, sent, f1[pos - 1], pos)
  BY DEF Copied
<1>5. Replay(c, sent) = u[head]
  BY Zenon DEF Replay, Copy, EndAt
<1>6. f = [pos \in 0 .. head |-> Then(f, pos)]
  <2>1. \A pos \in 0 .. head : f[pos] = Then(f, pos)
    <3> TAKE pos \in 0 .. head
    <3>1. pos = 0 \/ pos \in 1 .. head
      OBVIOUS
    <3> QED BY <1>3, <1>4, <3>1
  <2> HIDE DEF Then
  <2> QED BY <1>3, <2>1
<1> HIDE DEF Then
<1>7. u = [pos \in 0 .. head |-> Then(u, pos)]
  BY <1>6
<1> HIDE DEF u
<1>8. \A pos \in 0 .. head : u[pos] = Then(u, pos)
  BY <1>7
<1>9. u[0] = mirror[c] /\ \A pos \in 1 .. head : u[pos] = Copied(c, sent, u[pos - 1], pos)
  <2>1. 0 \in 0 .. head /\ \A pos \in 1 .. head : pos \in 0 .. head /\ pos # 0
    OBVIOUS
  <2> QED BY <1>4, <1>8, <2>1
<1> QED BY <1>5, <1>9

(* A resume writes no end.                                                  *)
LEMMA ReplayFares ==
  ASSUME NEW c, NEW sent, head \in Nat
  PROVE  Fares(mirror[c], Replay(c, sent))
<1>1. PICK f : /\ f[0] = mirror[c] /\ Replay(c, sent) = f[head]
               /\ \A pos \in 1 .. head : f[pos] = Copied(c, sent, f[pos - 1], pos)
  BY ReplayUnfolds
<1>2. \A m, pos : Fares(m, Copied(c, sent, m, pos))
  BY CopyFares DEF Copied, Copy
<1> DEFINE T == {n \in Nat : n <= head => Fares(mirror[c], f[n])}
<1>3. 0 \in T
  BY <1>1, CopyFares
<1>4. ASSUME NEW n \in Nat, n \in T PROVE n + 1 \in T
  <2>1. SUFFICES ASSUME n + 1 <= head PROVE Fares(mirror[c], f[n + 1])
    OBVIOUS
  <2>2. PICK pos \in 1 .. head : pos = n + 1 /\ pos - 1 = n
    BY <2>1
  <2>3. Fares(f[n], f[n + 1])
    BY <1>1, <1>2, <2>2
  <2>4. Fares(mirror[c], f[n])
    BY <1>4, <2>1
  <2> QED BY <2>3, <2>4 DEF Fares
<1>5. Nat \subseteq T
  <2> HIDE DEF T
  <2> QED BY <1>3, <1>4, NatInduct
<1> QED BY <1>1, <1>5

(* The copies of a resume.                                                  *)
LEMMA BaseFares ==
  ASSUME NEW c, NEW sent, head \in Nat
  PROVE  Fares(mirror[c], BaseMirror(c, sent))
BY ReplayFares, CopyFares DEF BaseMirror

-----------------------------------------------------------------------------
(* The view that waits for a snapshot has taken what Delivery handed over.  *)
(* A slice still to come lies at its offset or behind it.                   *)
GotSlices(v) ==
  \A a \in Sliced, r \in log :
    a.at = r.at /\ delivered <= r.at /\ a.req = v.serial => v.coff <= r.off
(* It has the slices counted for the first request, and none of a later one *)
(* or those of a snapshot whose end was found, up to its end.               *)
GotWaits(v) ==
  \A i \in 1 .. Len(requests) :
    requests[i].serial = v.serial => v.got = IF i = 1 THEN count ELSE 0
GotEnds(v) ==
  \A i \in 1 .. Len(finished) :
    finished[i].serial = v.serial => v.got = 2 /\ v.cpos = finished[i].at
GotDones(v) ==
  \A i \in 1 .. Len(events) :
    events[i].t = "done" /\ events[i].serial = v.serial /\ events[i].hold # NoHold =>
      v.got = 2 /\ events[i].slices = 2 /\ v.cpos = events[i].hold
Got(v) == GotSlices(v) /\ GotWaits(v) /\ GotEnds(v) /\ GotDones(v)

(* A view is refused by a pane that is given up alone, and a resume belongs *)
(* to a live view.                                                          *)
GotInv ==
  /\ \A c \in Clients : view[c].coff <= End
  /\ \A c \in Clients : view[c].stage = "snapshotting" => Got(view[c])
  /\ \A c \in Clients : HasEnd(mirror[c]) /\ (mirror[c].end = "rejected" => ~open)
  /\ pc.at = "resume" => Live(pc.client)

(* Two views of which one has taken what the other has.                     *)
Even(v, u) ==
  v.serial = u.serial /\ v.got = u.got /\ v.cpos = u.cpos /\ v.coff = u.coff

(* The parts of what a view has taken, after a step.                        *)
LEMMA GotParts ==
  ASSUME NEW v, GotSlices(v)', GotWaits(v)', GotEnds(v)', GotDones(v)'
  PROVE  Got(v)'
BY DEF Got

(* A step that moves nothing, or only the place up to which Delivery has    *)
(* looked.                                                                  *)
LEMMA PassGot ==
  ASSUME LogInv, Types, UNCHANGED <<tags, log, requests, count, finished, events>>,
         delivered' \in Nat, delivered <= delivered', NEW v, Got(v)
  PROVE  Got(v)'
<1>1. Sliced' = Sliced /\ delivered \in Nat
  BY DEF Sliced, Types, DeliveryTypes
<1>2. GotSlices(v)'
  <2> SUFFICES ASSUME NEW a \in Sliced, NEW r \in log, a.at = r.at, delivered' <= r.at, a.req = v.serial
               PROVE  v.coff <= r.off
    BY <1>1 DEF GotSlices
  <2>1. delivered <= r.at
    BY <1>1, RecordIs
  <2> QED BY <2>1 DEF Got, GotSlices
<1> QED BY <1>2 DEF Got, GotWaits, GotEnds, GotDones

(* What the pane writes lies behind every offset.                           *)
LEMMA WriteGot ==
  ASSUME LogInv, TagInv, Types, NEW kind \in Kind, NEW len \in Nat, Publish(kind, len),
         UNCHANGED tags \/ \E t, req : Tagged(t, req),
         UNCHANGED <<delivery, events>>, NEW v \in ViewSet, v.coff <= End, Got(v)
  PROVE  Got(v)'
<1>1. PICK n \in Records : n = NewRecord(kind, len) /\ log' = log \cup {n}
  BY PublishAdds
<1>2. n.off = End /\ n.at = head
  BY <1>1 DEF NewRecord
<1>3. GotSlices(v)'
  <2> SUFFICES ASSUME NEW a \in Sliced', NEW r \in log', a.at = r.at, delivered <= r.at, a.req = v.serial
               PROVE  v.coff <= r.off
    BY DEF GotSlices, delivery
  <2>1. CASE r = n
    BY <1>2, <2>1
  <2>2. CASE r \in log
    <3>1. r.at < head /\ r.at \in Nat /\ head \in Nat
      BY <2>2, RecordIs DEF LogInv
    <3>2. a \in Sliced
      BY <3>1 DEF Sliced, Tagged
    <3> QED BY <2>2, <3>2 DEF Got, GotSlices
  <2> QED BY <1>1, <2>1, <2>2
<1> QED BY <1>3 DEF Got, GotWaits, GotEnds, GotDones, delivery

(* No answer of a pane that is given up has an end.                         *)
LEMMA FailedUnheld ==
  ASSUME Types, NEW asked \in Seq(Waits)
  PROVE  \A i \in 1 .. Len(Failed(asked)) :
           ~(Failed(asked)[i].t = "done" /\ Failed(asked)[i].hold # NoHold)
<1>0. PICK failed : failed = Failed(asked)
  OBVIOUS
<1> DEFINE all == finished \o asked
           dones == [i \in 1 .. Len(all) |-> Done(all[i], NoHold, 0)]
           last == [t |-> "failed", serial |-> 0, hold |-> NoHold, slices |-> 0]
<1>1. all \in Seq(Waits) /\ Len(all) \in Nat
  BY DEF Types, DeliveryTypes
<1>2. \A i \in 1 .. Len(all) : all[i] \in Waits
  BY <1>1
<1> HIDE DEF all
<1>3. \A i \in 1 .. Len(all) : dones[i] \in EventSet /\ dones[i].hold = NoHold
  <2> TAKE i \in 1 .. Len(all)
  <2>1. PICK hold \in Nat \cup {NoHold}, none \in Nat : hold = NoHold /\ none = 0
    OBVIOUS
  <2>2. PICK x \in Waits : x = all[i]
    BY <1>2
  <2>3. dones[i] = Done(x, hold, none)
    BY <2>1, <2>2
  <2>4. PICK e \in EventSet : e = Done(x, hold, none) /\ e.hold = hold
    BY DoneIs
  <2> HIDE DEF dones
  <2> QED BY <2>1, <2>3, <2>4
<1>4. dones \in Seq(EventSet) /\ Len(dones) = Len(all)
  BY <1>1, <1>3
<1>5. last \in EventSet /\ last.hold = NoHold
  BY DEF EventSet
<1> HIDE DEF dones, last
<1>6. /\ <<last>> \in Seq(EventSet) /\ Len(<<last>>) = 1 /\ <<last>>[1] = last
  BY <1>5, ElemsOne
<1>7. failed = dones \o <<last>>
  BY <1>0 DEF Failed, all, dones, last
<1>8. /\ Len(failed) = Len(dones) + Len(<<last>>)
      /\ \A k \in 1 .. Len(dones) : failed[k] = dones[k]
      /\ \A k \in 1 .. Len(<<last>>) : failed[Len(dones) + k] = <<last>>[k]
  BY <1>4, <1>6, <1>7, ElemsConcat
<1>9. failed[Len(dones) + 1] = last
  BY <1>6, <1>8
<1> QED BY <1>0, <1>1, <1>3, <1>4, <1>5, <1>6, <1>8, <1>9

(* A pane that is given up leaves only answers without an end.              *)
LEMMA FailGot ==
  ASSUME LogInv, TagInv, Types, NEW before, NEW after, NEW asked \in Seq(Waits),
         Failure(before, asked, after), delivered <= delivered', delivered' \in Nat,
         \/ before = <<>> /\ after = events
         \/ before = events /\ after = <<>>,
         UNCHANGED <<ring, tags>>, NEW v, Got(v)
  PROVE  Got(v)'
<1>0. PICK failed : failed = Failed(asked)
  OBVIOUS
<1>1. /\ requests' = <<>> /\ finished' = <<>>
      /\ events' = before \o failed \o after /\ events \in Seq(EventSet)
  BY <1>0 DEF Failure, Types, ServerTypes
<1>2. Sliced' = Sliced /\ log' = log
  BY DEF Sliced, ring
<1>3. GotSlices(v)' /\ GotWaits(v)' /\ GotEnds(v)'
  <2>1. delivered \in Nat /\ \A r \in log : r.at \in Nat
    BY RecordIs DEF Types, DeliveryTypes
  <2>2. GotSlices(v)'
    BY <1>2, <2>1 DEF Got, GotSlices
  <2> QED BY <1>1, <2>2 DEF GotWaits, GotEnds
<1>4. \A i \in 1 .. Len(failed) : ~(failed[i].t = "done" /\ failed[i].hold # NoHold)
  BY <1>0, FailedUnheld, Zenon
<1>5. GotDones(v)'
  <2>1. failed \in Seq(EventSet) /\ <<>> \in Seq(EventSet)
    BY <1>0, FailedIs DEF Types
  <2>2. events' = failed \o events \/ events' = events \o failed
    <3>1. CASE before = <<>> /\ after = events
      <4>1. events' = <<>> \o failed \o events
        BY <1>1, <3>1
      <4> QED BY <1>1, <2>1, <4>1
    <3>2. CASE before = events /\ after = <<>>
      <4>1. events' = events \o failed \o <<>>
        BY <1>1, <3>2
      <4>2. events \o failed \in Seq(EventSet)
        BY <1>1, <2>1
      <4> QED BY <4>1, <4>2
    <3> QED BY <3>1, <3>2
  <2>3. \A i \in 1 .. Len(events') :
           \/ \E j \in 1 .. Len(events) : events'[i] = events[j]
           \/ \E j \in 1 .. Len(failed) : events'[i] = failed[j]
    <3>1. CASE events' = failed \o events
      <4>1. /\ Len(events') = Len(failed) + Len(events) /\ Len(failed) \in Nat /\ Len(events) \in Nat
            /\ \A k \in 1 .. Len(failed) : events'[k] = failed[k]
            /\ \A k \in 1 .. Len(events) : events'[Len(failed) + k] = events[k]
        BY <1>1, <2>1, <3>1, ElemsConcat
      <4> TAKE i \in 1 .. Len(events')
      <4>2. CASE i \in 1 .. Len(failed)
        BY <4>1, <4>2
      <4>3. CASE i \notin 1 .. Len(failed)
        <5>1. PICK k \in 1 .. Len(events) : i = Len(failed) + k
          <6>1. i - Len(failed) \in 1 .. Len(events) /\ i = Len(failed) + (i - Len(failed))
            BY <4>1, <4>3
          <6> QED BY <6>1
        <5> QED BY <4>1, <5>1
      <4> QED BY <4>2, <4>3
    <3>2. CASE events' = events \o failed
      <4>1. /\ Len(events') = Len(events) + Len(failed) /\ Len(failed) \in Nat /\ Len(events) \in Nat
            /\ \A k \in 1 .. Len(events) : events'[k] = events[k]
            /\ \A k \in 1 .. Len(failed) : events'[Len(events) + k] = failed[k]
        BY <1>1, <2>1, <3>2, ElemsConcat
      <4> TAKE i \in 1 .. Len(events')
      <4>2. CASE i \in 1 .. Len(events)
        BY <4>1, <4>2
      <4>3. CASE i \notin 1 .. Len(events)
        <5>1. PICK k \in 1 .. Len(failed) : i = Len(events) + k
          <6>1. i - Len(events) \in 1 .. Len(failed) /\ i = Len(events) + (i - Len(events))
            BY <4>1, <4>3
          <6> QED BY <6>1
        <5> QED BY <4>1, <5>1
      <4> QED BY <4>2, <4>3
    <3> QED BY <2>2, <3>1, <3>2
  <2> QED BY <1>4, <2>3 DEF Got, GotDones
<1> QED BY <1>3, <1>5 DEF Got

(* A request that is in one queue is in no other place, and one that was    *)
(* not made yet is in none.                                                 *)
LEMMA OnePlace ==
  ASSUME Types, OwedOnce, NEW serial \in Nat
  PROVE  /\ serial >= next =>
              /\ \A i \in 1 .. Len(requests) : requests[i].serial # serial
              /\ \A i \in 1 .. Len(finished) : finished[i].serial # serial
              /\ \A i \in 1 .. Len(events) : ~(events[i].t = "done" /\ events[i].serial = serial)
         /\ (\E i \in 1 .. Len(requests) : requests[i].serial = serial) =>
              /\ \A i \in 1 .. Len(finished) : finished[i].serial # serial
              /\ \A i \in 1 .. Len(events) : ~(events[i].t = "done" /\ events[i].serial = serial)
<1>1. /\ requests \in Seq(Waits) /\ finished \in Seq(Waits) /\ events \in Seq(EventSet)
      /\ next \in Nat /\ owners \subseteq (1 .. next - 1) \X Clients
  BY DEF Types, DeliveryTypes, ServerTypes
<1>2. PICK a, b, d : /\ a = Hits(requests, WaitsOf(serial)) /\ b = Hits(finished, WaitsOf(serial))
                     /\ d = Hits(events, DonesOf(serial))
  OBVIOUS
<1>3. /\ a \in Nat /\ b \in Nat /\ d \in Nat
      /\ a = 0 <=> Elems(requests) \cap WaitsOf(serial) = {}
      /\ b = 0 <=> Elems(finished) \cap WaitsOf(serial) = {}
      /\ d = 0 <=> Elems(events) \cap DonesOf(serial) = {}
  BY <1>1, <1>2, HitsType
<1>4. \A q \in Seq(Waits) : \A i \in 1 .. Len(q) :
        q[i] \in Elems(q) /\ (q[i].serial = serial => q[i] \in WaitsOf(serial))
  BY DEF Elems, WaitsOf
<1>5. \A i \in 1 .. Len(events) :
        /\ events[i] \in Elems(events)
        /\ events[i].t = "done" /\ events[i].serial = serial => events[i] \in DonesOf(serial)
  BY <1>1 DEF Elems, DonesOf
<1>6. a + b + d <= 1 /\ (serial >= next => a + b + d = 0)
  <2>1. IF HasOwner(serial) THEN a + b + d = 1
        ELSE a + b + d = 0 \/ (a + b + d = 1 /\ serial = next - 1)
    BY <1>2 DEF OwedOnce, Owed
  <2>2. HasOwner(serial) => serial \in 1 .. next - 1
    BY <1>1 DEF HasOwner
  <2> QED BY <1>1, <1>3, <2>1, <2>2
<1>7. /\ a = 0 => \A i \in 1 .. Len(requests) : requests[i].serial # serial
      /\ b = 0 => \A i \in 1 .. Len(finished) : finished[i].serial # serial
      /\ d = 0 => \A i \in 1 .. Len(events) : ~(events[i].t = "done" /\ events[i].serial = serial)
  BY <1>1, <1>3, <1>4, <1>5
<1>8. serial >= next => a = 0 /\ b = 0 /\ d = 0
  BY <1>3, <1>6
<1>9. a # 0 => b = 0 /\ d = 0
  BY <1>3, <1>6
<1> QED BY <1>7, <1>8, <1>9

(* No slice was written for a request that was not made.                    *)
LEMMA SlicedBefore ==
  ASSUME LogInv, TagInv, Types, SlicesInv, NEW a \in Sliced
  PROVE  a.req \in Nat /\ a.req < next
<1>1. PICK w \in Nat : Amount(w)
  BY DEF SlicesInv
<1>2. Num(a) \in 1 .. w /\ w <= 2 * (next - 1) /\ next \in Nat \ {0}
  BY <1>1 DEF Amount, Types, DeliveryTypes
<1>3. /\ a.req \in Nat /\ a.t \in {"first", "last"}
      /\ a.t = "first" => Num(a) = 2 * a.req - 1
      /\ a.t = "last" => Num(a) = 2 * a.req
  BY SlicedIs
<1> QED BY <1>2, <1>3

(* A request that is made: the view that makes it has nothing of it, and    *)
(* those of others are where they were.                                     *)
LEMMA RequestGot ==
  ASSUME LogInv, TagInv, Types, OwedOnce, SlicesInv, Request,
         UNCHANGED <<ring, tags, finished, count, events>>, NEW v \in ViewSet,
         \/ v.serial = next /\ v.got = 0
         \/ v.serial < next /\ Got(v)
  PROVE  Got(v)'
<1>0. /\ requests \in Seq(Waits) /\ next \in Nat \ {0} /\ count \in Nat /\ v.serial \in Nat
      /\ head \in Nat /\ delivered \in Nat /\ delivered <= head
  BY DEF Types, DeliveryTypes, LogInv, ViewSet, SlicesInv, QueueInv
<1>1. Sliced' = Sliced /\ log' = log
  BY DEF Sliced, ring
<1>2. PICK r : r = [serial |-> next, at |-> head, slices |-> 0]
  OBVIOUS
<1>3. r \in Waits /\ r.serial = next
  BY <1>0, <1>2 DEF Waits
<1>4. requests' = Append(requests, r) /\ delivered' \in Nat /\ delivered <= delivered'
  BY <1>0, <1>2 DEF Request, Mint, OneMore
<1>5. /\ Len(requests) \in Nat /\ Len(requests') = Len(requests) + 1 /\ requests'[Len(requests) + 1] = r
      /\ \A k \in 1 .. Len(requests) : requests'[k] = requests[k]
  BY <1>0, <1>3, <1>4, ElemsAppend
<1>6. requests = <<>> => count = 0
  BY DEF SlicesInv, QueueInv
<1>7. CASE v.serial = next /\ v.got = 0
  <2>1. GotSlices(v)'
    <3>1. \A a \in Sliced : a.req # v.serial
      BY <1>0, <1>7, SlicedBefore
    <3> QED BY <1>1, <3>1 DEF GotSlices
  <2>2. /\ \A i \in 1 .. Len(requests) : requests[i].serial # v.serial
        /\ \A i \in 1 .. Len(finished) : finished[i].serial # v.serial
        /\ \A i \in 1 .. Len(events) : ~(events[i].t = "done" /\ events[i].serial = v.serial)
    BY <1>0, <1>7, OnePlace
  <2>3. GotWaits(v)'
    <3> SUFFICES ASSUME NEW i \in 1 .. Len(requests'), requests'[i].serial = v.serial
                 PROVE  v.got = IF i = 1 THEN count ELSE 0
      BY DEF GotWaits
    <3>1. i = Len(requests) + 1
      BY <1>5, <2>2
    <3>2. i = 1 => requests = <<>>
      BY <1>0, <1>5, <3>1
    <3> QED BY <1>6, <1>7, <3>2
  <2> QED BY <2>1, <2>2, <2>3 DEF Got, GotEnds, GotDones
<1>8. CASE v.serial < next /\ Got(v)
  <2>1. GotSlices(v)'
    <3> SUFFICES ASSUME NEW a \in Sliced, NEW q \in log, a.at = q.at, delivered' <= q.at, a.req = v.serial
                 PROVE  v.coff <= q.off
      BY <1>1 DEF GotSlices
    <3>1. delivered <= q.at
      BY <1>0, <1>4, RecordIs
    <3> QED BY <1>8, <3>1 DEF Got, GotSlices
  <2>2. GotWaits(v)'
    <3> SUFFICES ASSUME NEW i \in 1 .. Len(requests'), requests'[i].serial = v.serial
                 PROVE  v.got = IF i = 1 THEN count ELSE 0
      BY DEF GotWaits
    <3>1. i # Len(requests) + 1
      BY <1>0, <1>3, <1>5, <1>8
    <3>2. i \in 1 .. Len(requests) /\ requests[i].serial = v.serial
      BY <1>5, <3>1
    <3> QED BY <1>8, <3>2 DEF Got, GotWaits
  <2> QED BY <1>8, <2>1, <2>2 DEF Got, GotEnds, GotDones
<1> QED BY <1>7, <1>8

(* An end that a done frame confirms is the one the view has reached.       *)
LEMMA DoneGot ==
  ASSUME LogInv, TagInv, Types, SlicesInv, EndDone, NEW v, Got(v)
  PROVE  Got(v)'
<1>1. /\ Delivered /\ delivered' = pc.upper /\ UNCHANGED <<log, tags, requests, count>>
      /\ \/ UNCHANGED <<finished, events>>
         \/ /\ finished # <<>> /\ finished' = Tail(finished)
            /\ events' = Append(events, Done(finished[1], finished[1].at, finished[1].slices))
  BY DoneFinds DEF ring, pane
<1>2. delivered <= delivered' /\ delivered' \in Nat /\ delivered \in Nat
  BY <1>1 DEF Delivered, SlicesInv, PcInv, Types, DeliveryTypes, PcTypes, PcSet
<1>3. CASE UNCHANGED <<finished, events>>
  BY <1>1, <1>2, <1>3, PassGot
<1>4. CASE /\ finished # <<>> /\ finished' = Tail(finished)
           /\ events' = Append(events, Done(finished[1], finished[1].at, finished[1].slices))
  <2>0. finished \in Seq(Waits) /\ events \in Seq(EventSet)
    BY DEF Types, DeliveryTypes, ServerTypes
  <2>1. Len(finished) \in Nat \ {0} /\ finished[1] \in Waits /\ 1 \in 1 .. Len(finished)
    BY <1>4, <2>0, ElemsTail
  <2>2. PICK x \in Waits : x = finished[1]
    BY <2>1
  <2>3. x.at \in Nat \cup {NoHold} /\ x.slices \in Nat /\ x.slices = 2
    BY <2>1, <2>2 DEF Waits, SlicesInv, QueueInv
  <2>4. PICK e : e = Done(x, x.at, x.slices)
    OBVIOUS
  <2>5. e \in EventSet /\ e.serial = x.serial /\ e.hold = x.at /\ e.slices = 2
    <3>1. PICK hold \in Nat \cup {NoHold}, slices \in Nat : hold = x.at /\ slices = x.slices
      BY <2>3
    <3>2. e = Done(x, hold, slices)
      BY <2>4, <3>1
    <3>3. /\ e \in EventSet /\ e.serial = x.serial /\ e.hold = hold /\ e.slices = slices
      BY <3>2, DoneIs
    <3> QED BY <2>3, <3>1, <3>3, Zenon
  <2>6. /\ Len(events) \in Nat /\ Len(events') = Len(events) + 1 /\ events'[Len(events) + 1] = e
        /\ \A k \in 1 .. Len(events) : events'[k] = events[k]
    BY <1>4, <2>0, <2>2, <2>4, <2>5, ElemsAppend
  <2>7. GotDones(v)'
    <3> SUFFICES ASSUME NEW i \in 1 .. Len(events'), events'[i].t = "done",
                        events'[i].serial = v.serial, events'[i].hold # NoHold
                 PROVE  v.got = 2 /\ events'[i].slices = 2 /\ v.cpos = events'[i].hold
      BY DEF GotDones
    <3>1. CASE i = Len(events) + 1
      BY <2>1, <2>2, <2>5, <2>6, <3>1 DEF Got, GotEnds
    <3>2. CASE i \in 1 .. Len(events)
      BY <2>6, <3>2 DEF Got, GotDones
    <3> QED BY <2>6, <3>1, <3>2
  <2>8. \A i \in 1 .. Len(finished') : i + 1 \in 1 .. Len(finished) /\ finished'[i] = finished[i + 1]
    BY <1>4, <2>0, ElemsTail
  <2>9. GotEnds(v)'
    BY <2>8 DEF Got, GotEnds
  <2>10. GotSlices(v)'
    <3>1. Sliced' = Sliced
      BY <1>1 DEF Sliced
    <3> SUFFICES ASSUME NEW a \in Sliced, NEW r \in log, a.at = r.at, delivered' <= r.at, a.req = v.serial
                 PROVE  v.coff <= r.off
      BY <1>1, <3>1 DEF GotSlices
    <3>2. delivered <= r.at
      BY <1>2, RecordIs
    <3> QED BY <3>2 DEF Got, GotSlices
  <2> QED BY <1>1, <2>7, <2>9, <2>10 DEF Got, GotWaits
<1> QED BY <1>1, <1>3, <1>4

(* An event that is taken leaves the others.                                *)
LEMMA TakeGot ==
  ASSUME Types, TakeEvent, NEW v, Got(v)
  PROVE  Got(v)'
<1>1. events # <<>> /\ events' = Tail(events) /\ UNCHANGED <<ring, pane, delivery>>
  BY TakeCases
<1>2. events \in Seq(EventSet)
  BY DEF Types, ServerTypes
<1>3. \A i \in 1 .. Len(events') : i + 1 \in 1 .. Len(events) /\ events'[i] = events[i + 1]
  BY <1>1, <1>2, ElemsTail
<1>4. GotDones(v)'
  BY <1>3 DEF Got, GotDones
<1>5. Sliced' = Sliced /\ UNCHANGED <<log, delivered, requests, count, finished>>
  BY <1>1 DEF Sliced, ring, pane, delivery
<1> QED BY <1>4, <1>5 DEF Got, GotSlices, GotWaits, GotEnds

(* A slice that is handed over: its request is the first, and no other view *)
(* but the one that made it has a part in it.                               *)
LEMMA OtherGot ==
  ASSUME LogInv, TagInv, Types, SlicesInv, HandOver, NEW v, Got(v), v.serial # requests[1].serial
  PROVE  Got(v)'
<1>0. PICK r : r = Earliest(NextSlices)
  OBVIOUS
<1>1. /\ requests # <<>> /\ UNCHANGED <<log, tags, events>> /\ delivered' = EndOf(r)
      /\ \/ /\ count = 1 /\ count' = 0 /\ requests' = Tail(requests)
            /\ finished' = Append(finished, [serial |-> requests[1].serial,
                                             at |-> EndOf(r), slices |-> 2])
         \/ count = 0 /\ count' = 1 /\ UNCHANGED <<requests, finished>>
  BY <1>0, HandsOver DEF ring, pane
<1>2. r \in log /\ delivered <= r.at
  BY <1>0, HandsOver, NextSliceIs
<1>3. delivered \in Nat /\ delivered <= delivered' /\ delivered' \in Nat /\ EndOf(r) \in Nat
  BY <1>1, <1>2, RecordIs DEF Types, DeliveryTypes
<1>4. GotSlices(v)' /\ GotDones(v)'
  <2>1. Sliced' = Sliced
    BY <1>1 DEF Sliced
  <2> SUFFICES ASSUME NEW a \in Sliced, NEW q \in log, a.at = q.at, delivered' <= q.at, a.req = v.serial
               PROVE  v.coff <= q.off
    BY <1>1, <2>1 DEF Got, GotSlices, GotDones
  <2>2. delivered <= q.at
    BY <1>3, RecordIs
  <2> QED BY <2>2 DEF Got, GotSlices
<1>5. requests \in Seq(Waits) /\ finished \in Seq(Waits)
  BY DEF Types, DeliveryTypes
<1>6. CASE /\ count = 1 /\ count' = 0 /\ requests' = Tail(requests)
           /\ finished' = Append(finished, [serial |-> requests[1].serial,
                                             at |-> EndOf(r), slices |-> 2])
  <2>1. \A i \in 1 .. Len(requests') :
          i + 1 \in 1 .. Len(requests) /\ requests'[i] = requests[i + 1] /\ i + 1 # 1
    BY <1>1, <1>5, <1>6, ElemsTail
  <2>2. GotWaits(v)'
    BY <1>6, <2>1 DEF Got, GotWaits
  <2>3. PICK x : x = [serial |-> requests[1].serial, at |-> EndOf(r), slices |-> 2]
    OBVIOUS
  <2>4. requests[1] \in Waits
    BY <1>1, <1>5
  <2>5. x \in Waits /\ x.serial = requests[1].serial
    BY <1>3, <2>3, <2>4 DEF Waits
  <2>6. /\ Len(finished) \in Nat /\ Len(finished') = Len(finished) + 1 /\ finished'[Len(finished) + 1] = x
        /\ \A k \in 1 .. Len(finished) : finished'[k] = finished[k]
    BY <1>5, <1>6, <2>3, <2>5, ElemsAppend
  <2>7. GotEnds(v)'
    BY <2>5, <2>6 DEF Got, GotEnds
  <2> QED BY <1>4, <2>2, <2>7 DEF Got
<1>7. CASE count = 0 /\ count' = 1 /\ UNCHANGED <<requests, finished>>
  BY <1>4, <1>7 DEF Got, GotWaits, GotEnds
<1> QED BY <1>1, <1>6, <1>7

(* The view that made the first request takes the slice: it does not lie    *)
(* before its offset, and the view then has what Delivery counts.           *)
LEMMA FirstGot ==
  ASSUME LogInv, TagInv, Types, OwedOnce, SlicesInv, HandOver, NEW v \in ViewSet, Got(v),
         v.serial = requests[1].serial, NEW late \in BOOLEAN, NEW r, r = Earliest(NextSlices),
         NEW u, u = SlicedView(v, r, late)
  PROVE  ~(r.off < v.coff) /\ r.off <= End /\ Got(u)'
<1>0. r = Earliest(NextSlices)
  OBVIOUS
<1>1. /\ requests # <<>> /\ UNCHANGED <<log, tags, events>> /\ delivered' = EndOf(r)
      /\ pc.at = "deliver" /\ NextSlices # {}
      /\ \/ /\ count = 1 /\ count' = 0 /\ requests' = Tail(requests)
            /\ finished' = Append(finished, [serial |-> requests[1].serial,
                                             at |-> EndOf(r), slices |-> 2])
         \/ count = 0 /\ count' = 1 /\ UNCHANGED <<requests, finished>>
  BY <1>0, HandsOver DEF ring, pane
<1>2. r \in log /\ delivered <= r.at
  BY <1>0, <1>1, NextSliceIs
<1>3. PICK a \in Sliced : a.at = r.at /\ a.req = requests[1].serial
  BY <1>0, <1>1, NextHanded
<1>4. /\ r.off \in Nat /\ EndOf(r) \in Nat /\ r.at < EndOf(r) /\ r.at \in Nat
      /\ OffAfter(r) \in Nat /\ r.off <= OffAfter(r) /\ r.off <= End
  BY <1>2, RecordIs
<1>5. v.coff <= r.off /\ v.coff \in Nat /\ v.got \in Nat /\ v.serial \in Nat
  BY <1>2, <1>3 DEF Got, GotSlices, ViewSet
<1>6. /\ requests \in Seq(Waits) /\ finished \in Seq(Waits) /\ Len(requests) \in Nat \ {0}
      /\ next \in Nat \ {0}
  BY <1>1 DEF Types, DeliveryTypes
<1>7. v.got = count
  BY <1>6 DEF Got, GotWaits
<1>9. u.serial = v.serial /\ u.got = count + 1 /\ u.cpos = EndOf(r) /\ u.coff = r.off
  BY <1>7 DEF SlicedView, ViewSet
<1>10. GotSlices(u)'
  <2>1. Sliced' = Sliced
    BY <1>1 DEF Sliced
  <2> SUFFICES ASSUME NEW b \in Sliced, NEW q \in log, EndOf(r) <= q.at
               PROVE  r.off <= q.off
    BY <1>1, <1>9, <2>1 DEF GotSlices
  <2>2. q.at \in Nat /\ q.off \in Nat
    BY RecordIs
  <2>3. r.at < q.at
    BY <1>4, <2>2
  <2>4. OffAfter(r) <= q.off
    BY <1>2, <2>3 DEF LogInv
  <2> QED BY <1>4, <2>2, <2>4
<1>11. /\ \A i \in 1 .. Len(finished) : finished[i].serial # v.serial
       /\ \A i \in 1 .. Len(events) : ~(events[i].t = "done" /\ events[i].serial = v.serial)
  <2>1. \E i \in 1 .. Len(requests) : requests[i].serial = v.serial
    BY <1>6
  <2> QED BY <1>5, <2>1, OnePlace
<1>12. GotDones(u)'
  BY <1>1, <1>9, <1>11 DEF GotDones
<1>13. \A i \in 1 .. Len(requests) : requests[i].serial = v.serial => i = 1
  <2> TAKE i \in 1 .. Len(requests)
  <2>1. PICK len \in Nat : len = Len(requests)
    BY <1>6
  <2>2. requests[i].serial = next - len + i - 1 /\ requests[1].serial = next - len + 1 - 1
    BY <1>6, <2>1 DEF SlicesInv, QueueInv
  <2> QED BY <1>6, <2>1, <2>2
<1>14. ~(r.off < v.coff) /\ r.off <= End
  BY <1>4, <1>5
<1>15. CASE /\ count = 1 /\ count' = 0 /\ requests' = Tail(requests)
            /\ finished' = Append(finished, [serial |-> requests[1].serial,
                                              at |-> EndOf(r), slices |-> 2])
  <2>1. \A i \in 1 .. Len(requests') :
          i + 1 \in 1 .. Len(requests) /\ requests'[i] = requests[i + 1] /\ i + 1 # 1
    BY <1>1, <1>6, <1>15, ElemsTail
  <2>2. GotWaits(u)'
    BY <1>9, <1>13, <2>1 DEF GotWaits
  <2>3. PICK x : x = [serial |-> requests[1].serial, at |-> EndOf(r), slices |-> 2]
    OBVIOUS
  <2>4. requests[1] \in Waits
    BY <1>1, <1>6
  <2>5. x \in Waits /\ x.at = EndOf(r)
    BY <1>4, <2>3, <2>4 DEF Waits
  <2>6. /\ Len(finished) \in Nat /\ Len(finished') = Len(finished) + 1 /\ finished'[Len(finished) + 1] = x
        /\ \A k \in 1 .. Len(finished) : finished'[k] = finished[k]
    BY <1>6, <1>15, <2>3, <2>5, ElemsAppend
  <2>7. GotEnds(u)'
    BY <1>9, <1>11, <1>15, <2>5, <2>6 DEF GotEnds
  <2> QED BY <1>10, <1>12, <1>14, <2>2, <2>7, GotParts
<1>16. CASE count = 0 /\ count' = 1 /\ UNCHANGED <<requests, finished>>
  <2>1. GotWaits(u)'
    BY <1>9, <1>13, <1>16 DEF GotWaits
  <2>2. GotEnds(u)'
    BY <1>9, <1>11, <1>16 DEF GotEnds
  <2> QED BY <1>10, <1>12, <1>14, <2>1, <2>2, GotParts
<1> QED BY <1>1, <1>15, <1>16

-----------------------------------------------------------------------------
(* What a step does to the views and the copies: a view that goes on        *)
(* waiting keeps what it has, and none is refused while the pane is open.   *)
Kept(v, u) ==
  /\ u.coff <= End'
  /\ u.stage = "snapshotting" => v.stage = "snapshotting" /\ Even(v, u)
Spared(m, k) == HasEnd(k) /\ (k.end = "rejected" => m.end = "rejected" \/ ~open')
MovesOn == \A c \in Clients : Kept(view[c], view'[c]) /\ Spared(mirror[c], mirror'[c])
ResumesLive == pc.at = "resume" => Live(pc.client)

(* A copy without a new end is spared, and so is one with an end that is no *)
(* refusal.                                                                 *)
LEMMA FaresSpared ==
  ASSUME NEW m, HasEnd(m)
  PROVE  /\ \A k : Fares(m, k) => Spared(m, k)
         /\ \A why : why # "rejected" \/ ~open' => Spared(m, Ended(m, why))
         /\ \A k : Fares(m, k) /\ ~open' => \A why : Spared(m, Ended(k, why))
<1>1. \A k : Fares(m, k) => Spared(m, k)
  BY DEF Fares, Spared
<1>2. \A k, why : HasEnd(k) => HasEnd(Ended(k, why)) /\ Ended(k, why).end = why
  BY EndedIs
<1> QED BY <1>1, <1>2 DEF Spared, Fares

(* A view that is closed waits no more.                                     *)
LEMMA ClosedKept ==
  ASSUME NEW v \in ViewSet, v.coff <= End'
  PROVE  \A u : Kept(u, ClosedView(v)) /\ Kept(u, LiveView(v))
BY DEF Kept, ClosedView, LiveView, ViewSet

(* One view changes.                                                        *)
LEMMA SetMoves ==
  ASSUME LogInv, Types, GotInv, End' \in Nat, End <= End',
         NEW c \in Clients, NEW v, NEW w, NEW m, Set(c, State(v, w, m)),
         Kept(view[c], v), Spared(mirror[c], m)
  PROVE  MovesOn
<1>1. /\ view'[c] = v /\ mirror'[c] = m
      /\ \A d \in Clients : d # c => view'[d] = view[d] /\ mirror'[d] = mirror[d]
  BY SetIs DEF Types
<1>2. ASSUME NEW d \in Clients, d # c
      PROVE  Kept(view[d], view'[d]) /\ Spared(mirror[d], mirror'[d])
  <2>1. view[d].coff <= End' /\ HasEnd(mirror[d])
    <3>1. view[d].coff \in Nat /\ End \in Nat /\ view[d].coff <= End /\ HasEnd(mirror[d])
      BY DEF Types, ViewTypes, ViewSet, LogInv, GotInv
    <3> QED BY <3>1
  <2> QED BY <1>1, <1>2, <2>1 DEF Kept, Even, Spared
<1> QED BY <1>1, <1>2 DEF MovesOn

(* No view changes.                                                         *)
LEMMA SameMoves ==
  ASSUME LogInv, Types, GotInv, End' \in Nat, End <= End', UNCHANGED <<view, mirror>>
  PROVE  MovesOn
<1> SUFFICES ASSUME NEW d \in Clients PROVE Kept(view[d], view'[d]) /\ Spared(mirror[d], mirror'[d])
  BY DEF MovesOn
<1>1. view[d].coff \in Nat /\ End \in Nat /\ view[d].coff <= End /\ HasEnd(mirror[d])
  BY DEF Types, ViewTypes, ViewSet, LogInv, GotInv
<1> QED BY <1>1 DEF Kept, Even, Spared

(* Views that are even have taken the same, after a step too.               *)
LEMMA EvenNext ==
  ASSUME NEW v, NEW u, Even(v, u), Got(v)'
  PROVE  Got(u)'
BY DEF Even, Got, GotSlices, GotWaits, GotEnds, GotDones

(* A step that lets what the views have stand.                              *)
LEMMA KeptGot ==
  ASSUME Types, GotInv, MovesOn, ~open => ~open', ResumesLive',
         \A v \in ViewSet : v.coff <= End /\ Got(v) => Got(v)'
  PROVE  GotInv'
<1>1. \A c \in Clients : view'[c].coff <= End'
  BY DEF MovesOn, Kept
<1>2. ASSUME NEW c \in Clients, view'[c].stage = "snapshotting" PROVE Got(view[c])'
  <2>0. PICK u : u = view'[c]
    OBVIOUS
  <2>1. PICK v \in ViewSet : u = view'[c] /\ v = view[c]
    BY <2>0 DEF Types, ViewTypes
  <2>2. v.stage = "snapshotting" /\ Even(v, u)
    BY <1>2, <2>1 DEF MovesOn, Kept
  <2>3. Got(v) /\ v.coff <= End
    BY <2>1, <2>2 DEF GotInv
  <2>4. Got(v)'
    BY <2>3
  <2>5. Got(u)'
    BY <2>2, <2>4, EvenNext
  <2> QED BY <2>1, <2>5
<1>3. \A c \in Clients : HasEnd(mirror[c])' /\ ((mirror[c].end)' = "rejected" => ~open')
  BY DEF MovesOn, Spared, GotInv, HasEnd
<1> QED BY <1>1, <1>2, <1>3 DEF GotInv, ResumesLive

(* A client that asks has nothing yet, or is refused by a pane that is gone.*)
LEMMA AskGot ==
  ASSUME LogInv, TagInv, Types, OwedOnce, AskerOwns, SlicesInv, GotInv, NEW c \in Clients, NEW history \in Asked,
         NEW v \in ViewSet, NEW w, NEW m, Ask(c, history, State(v, w, m)), v.coff <= End,
         Fares(mirror[c], m), ResumesLive'
  PROVE  GotInv'
<1>0. /\ UNCHANGED <<ring, tags>> /\ ViewTypes /\ MirrorMap /\ ServerTypes /\ DeliveryTypes
      /\ HasEnd(mirror[c])
  BY AskCases DEF Types, GotInv
<1>1. End' = End /\ End \in Nat /\ log' = log
  BY <1>0, SameLog DEF LogInv
<1>2. CASE /\ open /\ life # "gone" /\ Request
           /\ asks' = Append(asks, next) /\ owners' = owners \cup {<<next, c>>}
           /\ Set(c, State(AskedView(v, history), w, m))
           /\ UNCHANGED <<finished, count, open, events>>
  <2>1. PICK u : u = AskedView(v, history)
    OBVIOUS
  <2>2. u.serial = next /\ u.got = 0 /\ u.coff = v.coff
    BY <2>1 DEF AskedView, ViewSet
  <2>3. /\ view'[c] = u /\ mirror'[c] = m
        /\ \A d \in Clients : d # c => view'[d] = view[d] /\ mirror'[d] = mirror[d]
    BY <1>0, <1>2, <2>1, SetIs
  <2>4. \A d \in Clients : view'[d].coff <= End'
    BY <1>1, <2>2, <2>3 DEF GotInv
  <2>5. \A d \in Clients : HasEnd(mirror[d])' /\ ((mirror[d].end)' = "rejected" => ~open')
    BY <1>0, <1>2, <2>3 DEF GotInv, HasEnd, Fares
  <2>6. ASSUME NEW d \in Clients, view'[d].stage = "snapshotting" PROVE Got(view[d])'
    <3>1. CASE d = c
      <4>1. Got(u)'
        <5>1. u \in ViewSet
          BY <1>0, <2>1, ViewPuts
        <5> QED BY <1>0, <1>2, <2>2, <5>1, RequestGot
      <4> QED BY <2>3, <3>1, <4>1
    <3>2. CASE d # c
      <4>1. PICK x \in ViewSet : x = view[d]
        BY <1>0 DEF ViewTypes
      <4>2. Got(x) /\ x.stage = "snapshotting" /\ view'[d] = x
        BY <2>3, <2>6, <3>2, <4>1 DEF GotInv
      <4>3. x.serial < next
        <5>1. <<x.serial, d>> \in owners
          BY <4>1, <4>2 DEF AskerOwns
        <5>2. x.serial \in 1 .. next - 1 /\ next \in Nat
          BY <1>0, <5>1 DEF ServerTypes, DeliveryTypes
        <5> QED BY <5>2
      <4>4. Got(x)'
        BY <1>0, <1>2, <4>2, <4>3, RequestGot
      <4> QED BY <4>2, <4>4
    <3> QED BY <3>1, <3>2
  <2> QED BY <2>4, <2>5, <2>6 DEF GotInv, ResumesLive
<1>3. CASE /\ ~open \/ life = "gone"
           /\ Set(c, ClosedState(v, m, "rejected"))
           /\ \/ open /\ GivenUp
              \/ ~open /\ UNCHANGED <<delivery, open, events>>
           /\ UNCHANGED <<asks, owners>>
  <2>1. ~open'
    BY <1>3 DEF GivenUp, Failure
  <2>2. MovesOn
    <3>1. PICK u, no, k, why : u = ClosedView(v) /\ no = FALSE /\ k = Ended(m, why) /\ why = "rejected"
      OBVIOUS
    <3>2. Set(c, State(u, no, k))
      BY <1>3, <3>1 DEF ClosedState
    <3>3. Kept(view[c], u) /\ Spared(mirror[c], k)
      BY <1>0, <1>1, <2>1, <3>1, ClosedKept, FaresSpared
    <3> QED BY <1>1, <3>2, <3>3, SetMoves
  <2>3. ASSUME NEW x \in ViewSet, Got(x) PROVE Got(x)'
    <3>1. CASE open /\ GivenUp
      <4>1. PICK before, after, asked : before = <<>> /\ after = events /\ asked = OneMore
        OBVIOUS
      <4>2. Failure(before, asked, after)
        BY <3>1, <4>1 DEF GivenUp
      <4>3. asked \in Seq(Waits) /\ delivered' \in {head, delivered} /\ delivered' \in Nat
        BY <1>0, <3>1, <4>1, MintTypes DEF GivenUp
      <4>4. delivered <= head /\ delivered \in Nat
        BY <1>0 DEF SlicesInv, QueueInv, DeliveryTypes
      <4>5. delivered <= delivered'
        BY <4>3, <4>4
      <4> QED BY <1>0, <2>3, <4>1, <4>2, <4>3, <4>5, FailGot
    <3>2. CASE UNCHANGED <<delivery, open, events>>
      <4>1. delivered' = delivered /\ delivered \in Nat /\ UNCHANGED <<requests, finished, count>>
        BY <1>0, <3>2 DEF delivery, DeliveryTypes
      <4> QED BY <1>0, <1>1, <2>3, <3>2, <4>1, PassGot
    <3> QED BY <1>3, <3>1, <3>2
  <2> QED BY <2>1, <2>2, <2>3, KeptGot
<1> QED BY <1>2, <1>3, AskCases, Zenon

(* A slice that is handed over is taken by the one view that asked for it,  *)
(* which is not refused.                                                    *)
LEMMA HandOverGot ==
  ASSUME LogInv, TagInv, Types, OwedInv, SlicesInv, GotInv, HandOver
  PROVE  GotInv'
<1>0. PICK r : r = Earliest(NextSlices)
  OBVIOUS
<1>1. /\ pc.at = "deliver" /\ requests # <<>> /\ NextSlices # {} /\ UNCHANGED <<ring, open, pc>>
      /\ \/ Receivers(requests[1].serial) = {} /\ UNCHANGED conns
         \/ \E c \in Receivers(requests[1].serial) :
              \E s \in TakeSlice(At(c), r) : Set(c, s)
  BY <1>0, HandsOver
<1>2. /\ ViewTypes /\ MirrorMap /\ OwedOnce /\ OneOwner /\ AskerOwns
      /\ \A d \in Clients : view[d] \in ViewSet /\ waiting[d] \in BOOLEAN
      /\ requests[1].serial \in Nat
  <2>1. requests[1] \in Waits
    BY <1>1 DEF Types, DeliveryTypes
  <2> QED BY <2>1 DEF Types, OwedInv, ViewTypes, Waits
<1>3. End' = End /\ End \in Nat /\ r \in log
  BY <1>0, <1>1, SameLog, NextSliceIs DEF LogInv
<1>4. ResumesLive'
  BY <1>1 DEF ResumesLive
<1>5. ASSUME NEW d \in Clients, view[d].stage = "snapshotting", view[d].serial = requests[1].serial
      PROVE  d \in Receivers(requests[1].serial)
  BY <1>2, <1>5 DEF AskerOwns, Receivers
<1>6. ASSUME NEW d \in Clients, view[d].stage = "snapshotting", view[d].serial # requests[1].serial,
             view'[d] = view[d]
      PROVE  Got(view[d])'
  <2>1. PICK v : v = view[d] /\ Got(v)
    BY <1>6 DEF GotInv
  <2>2. Got(v)'
    BY <1>6, <2>1, OtherGot
  <2> QED BY <1>6, <2>1, <2>2
<1>7. CASE Receivers(requests[1].serial) = {} /\ UNCHANGED conns
  <2>1. view' = view /\ mirror' = mirror
    BY <1>7 DEF conns
  <2>2. \A d \in Clients : view[d].stage = "snapshotting" => Got(view[d])'
    BY <1>5, <1>6, <1>7, <2>1
  <2> QED BY <1>1, <1>3, <1>4, <2>1, <2>2 DEF GotInv, ResumesLive
<1>8. ASSUME NEW c \in Receivers(requests[1].serial), NEW s \in TakeSlice(At(c), r), Set(c, s)
      PROVE  GotInv'
  <2>1. c \in Clients /\ view[c].stage = "snapshotting" /\ view[c].serial = requests[1].serial
        /\ <<requests[1].serial, c>> \in owners
    BY DEF Receivers
  <2>2. \A d \in Clients : d # c /\ view[d].stage = "snapshotting" => view[d].serial # requests[1].serial
    BY <1>2, <2>1 DEF AskerOwns, OneOwner
  <2>3. PICK v \in ViewSet, out \in BOOLEAN, m \in {mirror[c]} : v = view[c] /\ out = waiting[c] /\ m = mirror[c]
    BY <1>2, <2>1
  <2>4. Got(v) /\ v.serial = requests[1].serial /\ HasEnd(m) /\ (m.end = "rejected" => ~open)
    BY <2>1, <2>3 DEF GotInv
  <2>5. s \in TakeSlice(State(v, out, m), r)
    BY <2>3, AtIs
  <2>6. PICK no \in BOOLEAN : no = FALSE
    OBVIOUS
  <2>7. ~(r.off < v.coff)
    <3>1. PICK u : u = SlicedView(v, r, no)
      OBVIOUS
    <3> QED BY <1>0, <1>2, <2>4, <3>1, FirstGot
  <2>8. ASSUME NEW u, NEW w, NEW k, s = State(u, w, k), u.coff <= End,
               u.stage = "snapshotting" => Got(u)',
               HasEnd(k), k.end = "rejected" => ~open
        PROVE  GotInv'
    <3>1. /\ view'[c] = u /\ mirror'[c] = k
          /\ \A d \in Clients : d # c => view'[d] = view[d] /\ mirror'[d] = mirror[d]
      BY <1>2, <1>8, <2>1, <2>8, SetIs
    <3>2. \A d \in Clients : view'[d].coff <= End'
      BY <1>3, <2>8, <3>1 DEF GotInv
    <3>3. \A d \in Clients : HasEnd(mirror[d])' /\ ((mirror[d].end)' = "rejected" => ~open')
      BY <1>1, <2>8, <3>1 DEF GotInv, HasEnd
    <3>4. ASSUME NEW d \in Clients, view'[d].stage = "snapshotting" PROVE Got(view[d])'
      <4>1. CASE d = c
        BY <2>8, <3>1, <3>4, <4>1
      <4>2. CASE d # c
        BY <1>6, <2>2, <3>1, <3>4, <4>2
      <4> QED BY <4>1, <4>2
    <3> QED BY <1>4, <3>2, <3>3, <3>4 DEF GotInv, ResumesLive
  <2>9. CASE s = ClosedState(v, m, "overflow")
    <3>1. PICK u, k, why : u = ClosedView(v) /\ k = Ended(m, why) /\ why = "overflow"
      OBVIOUS
    <3>2. u.stage = "closed" /\ u.coff = v.coff /\ v.coff <= End
      BY <2>1, <2>3, <3>1 DEF ClosedView, ViewSet, GotInv
    <3>3. HasEnd(k) /\ k.end = "overflow"
      BY <2>4, <3>1, EndedIs
    <3>4. s = State(u, no, k)
      BY <2>6, <2>9, <3>1 DEF ClosedState
    <3> QED BY <2>8, <3>2, <3>3, <3>4
  <2>10. ASSUME NEW late \in Late(out), s = State(SlicedView(v, r, late), late, AfterSlice(m, r))
         PROVE  GotInv'
    <3>1. PICK u, k : u = SlicedView(v, r, late) /\ k = AfterSlice(m, r)
      OBVIOUS
    <3>2. late \in BOOLEAN
      BY DEF Late
    <3>3. r.off <= End /\ Got(u)'
      BY <1>0, <1>2, <2>4, <3>1, <3>2, FirstGot
    <3>4. u.coff = r.off
      BY <3>1 DEF SlicedView, ViewSet
    <3>5. HasEnd(k) /\ k.end = m.end
      BY <2>4, <3>1, CopyFares DEF Fares
    <3>6. s = State(u, late, k)
      BY <2>10, <3>1
    <3> QED BY <2>4, <2>8, <3>3, <3>4, <3>5, <3>6
  <2> QED BY <2>5, <2>7, <2>9, <2>10, SliceCases
<1> QED BY <1>1, <1>7, <1>8

(* An answer that is taken finds its view where the ring says it is, unless *)
(* the pane is given up.                                                    *)
LEMMA TakenGot ==
  ASSUME LogInv, TagInv, Types, OwedInv, SlicesInv, GotInv, TakeEvent
  PROVE  GotInv'
<1>1. /\ pc = Rest /\ events # <<>> /\ UNCHANGED <<ring, pane, delivery, open>>
      /\ \/ Head(events).t = "done" /\ TakesDone(Head(events))
         \/ Head(events).t # "done" /\ TakeFailed
  BY TakeCases
<1>2. /\ ViewTypes /\ MirrorMap /\ OneOwner /\ AskerOwns /\ events \in Seq(EventSet)
      /\ \A d \in Clients : /\ view[d] \in ViewSet /\ waiting[d] \in BOOLEAN
                            /\ HasEnd(mirror[d]) /\ view[d].coff <= End
  BY DEF Types, OwedInv, ViewTypes, ServerTypes, GotInv
<1>3. End' = End /\ End \in Nat
  BY <1>1, SameLog DEF LogInv
<1>4. ResumesLive'
  <2>1. \A c : Decide(c) => pc'.at # "resume"
    BY DEF Decide, Rest
  <2>2. pc.at # "resume"
    BY <1>1 DEF Rest
  <2> QED BY <1>1, <2>1, <2>2 DEF TakesDone, TakeFailed, ResumesLive
<1>5. SUFFICES MovesOn
  <2>1. \A v \in ViewSet : v.coff <= End /\ Got(v) => Got(v)'
    BY TakeGot
  <2> QED BY <1>1, <1>4, <1>5, <2>1, KeptGot
<1>6. CASE TakeFailed
  <2> SUFFICES ASSUME NEW d \in Clients PROVE Kept(view[d], view'[d]) /\ Spared(mirror[d], mirror'[d])
    BY DEF MovesOn
  <2>1. PICK v \in ViewSet, m \in {mirror[d]} : v = view[d] /\ m = mirror[d]
    BY <1>2
  <2>2. view'[d] = IF v.stage = "new" THEN v ELSE ClosedView(v)
    BY <1>6, <2>1 DEF TakeFailed, ClosedView
  <2>3. mirror'[d] = m \/ mirror'[d] = Ended(m, "gone")
    BY <1>6, <2>1 DEF TakeFailed, Ended
  <2>4. Kept(view[d], view'[d])
    <3>1. v.coff <= End' /\ Kept(v, ClosedView(v))
      BY <1>2, <1>3, <2>1, ClosedKept
    <3> QED BY <2>1, <2>2, <3>1 DEF Kept
  <2>5. Spared(mirror[d], mirror'[d])
    <3>1. PICK why : why = "gone"
      OBVIOUS
    <3>2. Spared(m, m) /\ Spared(m, Ended(m, why))
      BY <1>2, <2>1, <3>1, FaresSpared, CopyFares
    <3> QED BY <2>1, <2>3, <3>1, <3>2
  <2> QED BY <2>4, <2>5
<1>7. ASSUME NEW done, done = Head(events), done.t = "done", TakesDone(done) PROVE MovesOn
  <2>1. CASE UNCHANGED conns
    <3>1. view' = view /\ mirror' = mirror
      BY <2>1 DEF conns
    <3> QED BY <1>3, <3>1, SameMoves
  <2>2. ASSUME NEW c \in Clients, <<done.serial, c>> \in owners, Receivers(done.serial) # {},
               NEW s \in OnDone(At(c), done), Set(c, s)
        PROVE  MovesOn
    <3>1. PICK v \in ViewSet, out \in BOOLEAN, m \in {mirror[c]} : v = view[c] /\ out = waiting[c] /\ m = mirror[c]
      BY <1>2
    <3>2. done = events[1] /\ 1 \in 1 .. Len(events) /\ done \in EventSet
      BY <1>1, <1>2, <1>7, ElemsTail
    <3>3. v.stage = "snapshotting" /\ v.serial = done.serial
      <4>1. PICK d \in Receivers(done.serial) : TRUE
        BY <2>2
      <4>2. d \in Clients /\ <<done.serial, d>> \in owners /\ view[d].stage = "snapshotting" /\ view[d].serial = done.serial
        BY DEF Receivers
      <4>3. done.serial \in Nat
        BY <3>2 DEF EventSet
      <4>4. d = c
        BY <1>2, <2>2, <4>2, <4>3 DEF OneOwner
      <4> QED BY <3>1, <4>2, <4>4
    <3>4. Matches(v, done) \/ ~open'
      <4>1. CASE done.hold = NoHold
        BY <1>1, <1>7, <3>2, <4>1 DEF SlicesInv, EventsInv
      <4>2. CASE done.hold # NoHold
        <5>1. GotDones(v)
          BY <3>1, <3>3 DEF GotInv, Got
        <5>2. v.got = 2 /\ done.slices = 2 /\ v.cpos = done.hold
          BY <1>7, <3>2, <3>3, <4>2, <5>1 DEF GotDones
        <5> QED BY <4>2, <5>2 DEF Matches
      <4> QED BY <4>1, <4>2
    <3>5. s \in OnDone(State(v, out, m), done)
      BY <2>2, <3>1, AtIs
    <3>6. ASSUME NEW u, NEW w, NEW k, s = State(u, w, k), Kept(v, u), Spared(m, k) PROVE MovesOn
      BY <1>3, <2>2, <3>1, <3>6, SetMoves
    <3>7. HasEnd(m) /\ v.coff <= End'
      BY <1>2, <1>3, <3>1
    <3>8. ASSUME NEW why, s = ClosedState(v, m, why), why # "rejected" \/ ~open' PROVE MovesOn
      <4>1. PICK no, u, k : no = FALSE /\ u = ClosedView(v) /\ k = Ended(m, why)
        OBVIOUS
      <4>2. Kept(v, u) /\ Spared(m, k)
        BY <3>7, <3>8, <4>1, ClosedKept, FaresSpared
      <4> QED BY <3>6, <3>8, <4>1, <4>2 DEF ClosedState
    <3>9. ASSUME NEW late \in Late(out), NEW k \in {m, DiedAt(m, v)}, s = State(LiveView(v), late, k) PROVE MovesOn
      <4>1. PICK u : u = LiveView(v)
        OBVIOUS
      <4>2. Kept(v, u) /\ Spared(m, k)
        BY <3>7, <4>1, ClosedKept, FaresSpared, CopyFares
      <4> QED BY <3>6, <3>9, <4>1, <4>2
    <3>10. \/ ~Matches(v, done) /\ s = ClosedState(v, m, "rejected")
           \/ s = ClosedState(v, m, "overflow")
           \/ \E late \in Late(out), k \in {m, DiedAt(m, v)} : s = State(LiveView(v), late, k)
      BY <3>5, DoneCases
    <3>11. CASE ~Matches(v, done) /\ s = ClosedState(v, m, "rejected")
      <4>1. PICK why : why = "rejected"
        OBVIOUS
      <4> QED BY <3>4, <3>8, <3>11, <4>1
    <3>12. CASE s = ClosedState(v, m, "overflow")
      <4>1. PICK why : why = "overflow" /\ why # "rejected"
        OBVIOUS
      <4> QED BY <3>8, <3>12, <4>1
    <3> QED BY <3>9, <3>10, <3>11, <3>12
  <2> QED BY <1>7, <2>1, <2>2 DEF TakesDone
<1> QED BY <1>1, <1>6, <1>7

-----------------------------------------------------------------------------
(* Which step keeps what the views have.                                    *)

(* No view is open at first.                                                *)
LEMMA InitGot == ASSUME Init PROVE GotInv
<1>1. End \in Nat
  BY InitLog DEF LogInv
<1>2. \A c \in Clients : view[c].stage = "new" /\ view[c].coff = 0
  BY DEF Init
<1>3. \A c \in Clients : HasEnd(mirror[c]) /\ mirror[c].end = "-"
  BY DEF Init, HasEnd
<1>4. pc.at # "resume"
  BY DEF Init, Rest
<1> QED BY <1>1, <1>2, <1>3, <1>4 DEF GotInv

(* A step that leaves Delivery alone.                                       *)
LEMMA CalmGot ==
  ASSUME LogInv, Types, GotInv, MovesOn, ResumesLive',
         UNCHANGED <<log, tags, requests, finished, delivered, count, events, open>>
  PROVE  GotInv'
<1>1. delivered \in Nat
  BY DEF Types, DeliveryTypes
<1>2. \A v \in ViewSet : v.coff <= End /\ Got(v) => Got(v)'
  <2> SUFFICES ASSUME NEW v \in ViewSet, Got(v) PROVE Got(v)'
    OBVIOUS
  <2>1. delivered' \in Nat /\ delivered <= delivered'
    BY <1>1
  <2> QED BY <2>1, PassGot
<1> QED BY <1>2, KeptGot

(* A function that does not resume, and a client that nobody touched.       *)
LEMMA RestResumes ==
  /\ pc' = Rest => ResumesLive'
  /\ pc'.at # "resume" => ResumesLive'
  /\ \A c : Decide(c) \/ Drained(c) => ResumesLive'
  /\ \A then : Deliver(then) => ResumesLive'
  /\ GotInv /\ UNCHANGED <<pc, view>> => ResumesLive'
<1>1. pc' = Rest => ResumesLive'
  BY DEF ResumesLive, Rest
<1>2. pc'.at # "resume" => ResumesLive'
  BY DEF ResumesLive
<1>3. \A c : Decide(c) => pc'.at # "resume"
  BY DEF Decide, Rest
<1>4. \A c : Drained(c) => pc'.at # "resume"
  BY DEF Drained, Rest
<1>5. \A then : Deliver(then) => pc'.at # "resume"
  BY DEF Deliver, Rest
<1>6. GotInv /\ UNCHANGED <<pc, view>> => ResumesLive'
  BY DEF GotInv, ResumesLive, Live
<1> QED BY <1>1, <1>2, <1>3, <1>4, <1>5, <1>6

(* The pane.                                                                *)
LEMMA PaneGot ==
  ASSUME LogInv, TagInv, Types, GotInv,
         PaneWrites \/ PaneResizes \/ PaneExits \/ PaneCrashes \/ PaneStep
  PROVE  GotInv'
<1>0. BytesLen \in Nat /\ MarkLen \in Nat /\ SliceLen \in Nat /\ {"bytes", "marker", "slice"} \subseteq Kind
  BY Lengths DEF Kind
<1>1. ASSUME NEW kind \in Kind, NEW len \in Nat, Publish(kind, len),
             UNCHANGED tags \/ \E t, req : Tagged(t, req), UNCHANGED <<delivery, server, conns>>
      PROVE  GotInv'
  <2>1. UNCHANGED <<events, open, pc, view, mirror>>
    BY <1>1 DEF server, conns
  <2>2. End' \in Nat /\ End <= End'
    BY <1>1, PublishAdds
  <2>3. MovesOn /\ ResumesLive'
    BY <2>1, <2>2, SameMoves, RestResumes
  <2>4. \A v \in ViewSet : v.coff <= End /\ Got(v) => Got(v)'
    <3> SUFFICES ASSUME NEW v \in ViewSet, v.coff <= End, Got(v) PROVE Got(v)'
      OBVIOUS
    <3> QED BY <1>1, <2>1, WriteGot
  <2> QED BY <2>1, <2>3, <2>4, KeptGot
<1>2. ASSUME UNCHANGED <<ring, tags, delivery, server, conns>> PROVE GotInv'
  <2>1. UNCHANGED <<log, requests, finished, delivered, count, events, open, pc, view, mirror>>
    BY <1>2 DEF ring, delivery, server, conns
  <2>2. End' = End /\ End \in Nat
    BY <1>2, SameLog DEF LogInv
  <2>3. MovesOn /\ ResumesLive'
    BY <2>1, <2>2, SameMoves, RestResumes
  <2> QED BY <1>2, <2>1, <2>3, CalmGot
<1>3. CASE PaneWrites
  <2>1. Publish("bytes", BytesLen) /\ UNCHANGED <<tags, delivery, server, conns>>
    BY <1>3 DEF PaneWrites
  <2> QED BY <1>0, <1>1, <2>1
<1>4. CASE PaneResizes \/ PaneExits
  <2>1. /\ Publish("marker", MarkLen) /\ UNCHANGED <<delivery, server, conns>>
        /\ Tagged("resize", 0) \/ Tagged("dead", 0)
    BY <1>4 DEF PaneResizes, PaneExits
  <2>2. \E t, req : Tagged(t, req)
    BY <2>1
  <2> QED BY <1>0, <1>1, <2>1, <2>2
<1>5. CASE PaneSlices
  <2>1. /\ Publish("slice", SliceLen) /\ UNCHANGED <<delivery, server, conns>>
        /\ Tagged("first", serving.req) \/ Tagged("last", serving.req)
    BY <1>5 DEF PaneSlices
  <2>2. \E t, req : Tagged(t, req)
    BY <2>1
  <2> QED BY <1>0, <1>1, <2>1, <2>2
<1>6. CASE PaneCrashes \/ PaneBegins \/ PaneFull
  BY <1>2, <1>6 DEF PaneCrashes, PaneBegins, PaneFull
<1> QED BY <1>3, <1>4, <1>5, <1>6 DEF PaneStep

(* The walk over the ring ends, and answers at most one request.            *)
LEMMA WalkGot ==
  ASSUME LogInv, TagInv, Types, SlicesInv, GotInv, EndScan \/ EndDone
  PROVE  GotInv'
<1>1. CASE EndScan
  <2>1. /\ Delivered /\ Advance(Keep(pc.upper)) /\ delivered' = pc.upper /\ pc' = Rest
        /\ UNCHANGED <<tags, requests, finished, count, open, events, conns>>
    BY <1>1 DEF EndScan
  <2>2. pc.upper \in Starts /\ pc.upper \in Nat /\ tail <= pc.upper
    BY <2>1, WalkEnds
  <2>3. log' = log /\ End' = End /\ End \in Nat
    BY <2>1, <2>2, ScanReleases DEF LogInv
  <2>4. MovesOn /\ ResumesLive'
    <3>1. view' = view /\ mirror' = mirror
      BY <2>1 DEF conns
    <3> QED BY <2>1, <2>3, <3>1, SameMoves, RestResumes
  <2>5. delivered' \in Nat /\ delivered <= delivered'
    BY <2>1, <2>2 DEF Delivered, SlicesInv, PcInv
  <2>6. \A v \in ViewSet : v.coff <= End /\ Got(v) => Got(v)'
    <3> SUFFICES ASSUME NEW v \in ViewSet, Got(v) PROVE Got(v)'
      OBVIOUS
    <3> QED BY <2>1, <2>3, <2>5, PassGot
  <2> QED BY <2>1, <2>4, <2>6, KeptGot
<1>2. CASE EndDone
  <2>1. pc' = Rest /\ UNCHANGED <<ring, open, conns>>
    BY <1>2, DoneFinds
  <2>2. End' = End /\ End \in Nat
    BY <2>1, SameLog DEF LogInv
  <2>3. MovesOn /\ ResumesLive'
    <3>1. view' = view /\ mirror' = mirror
      BY <2>1 DEF conns
    <3> QED BY <2>1, <2>2, <3>1, SameMoves, RestResumes
  <2>4. \A v \in ViewSet : v.coff <= End /\ Got(v) => Got(v)'
    BY <1>2, DoneGot
  <2> QED BY <2>1, <2>3, <2>4, KeptGot
<1> QED BY <1>1, <1>2

(* Frames, the end of the socket, and the ticker.                           *)
LEMMA ReadGot ==
  ASSUME LogInv, TagInv, Types, GotInv, ReadFrame \/ ReadEnd \/ Scan
  PROVE  GotInv'
<1>1. UNCHANGED <<ring, tags, conns>>
  BY Zenon DEF ReadFrame, ReadEnd, Scan, pane
<1>2. log' = log /\ view' = view /\ mirror' = mirror
  BY <1>1 DEF ring, conns
<1>3. End' = End /\ End \in Nat
  BY <1>1, SameLog DEF LogInv
<1>4. MovesOn
  BY <1>2, <1>3, SameMoves
<1>5. CASE ReadFrame
  <2>1. frames # <<>> /\ UNCHANGED <<delivery, open>>
    BY <1>5, Zenon DEF ReadFrame
  <2>2. Head(frames) \in FrameSet
    BY <2>1, ElemsTail DEF Types, PaneTypes
  <2>3. Head(frames).t \in {"done", "full", "dead"}
    BY <2>2 DEF FrameSet
  <2>4. UNCHANGED events /\ (UNCHANGED pc \/ \E then : Deliver(then))
    BY <1>5, <2>3 DEF ReadFrame
  <2>5. ResumesLive'
    BY <1>2, <2>4, RestResumes
  <2> QED BY <1>1, <1>2, <1>4, <2>1, <2>4, <2>5, CalmGot DEF delivery
<1>6. CASE ReadEnd
  <2>1. Failure(events, requests, <<>>) /\ delivered' = delivered /\ pc' = pc
    BY <1>6 DEF ReadEnd
  <2>2. PICK before, after : before = events /\ after = <<>>
    OBVIOUS
  <2>3. /\ Failure(before, requests, after) /\ requests \in Seq(Waits)
        /\ delivered' \in Nat /\ delivered <= delivered'
    BY <2>1, <2>2 DEF Types, DeliveryTypes
  <2>4. \A v \in ViewSet : v.coff <= End /\ Got(v) => Got(v)'
    <3> SUFFICES ASSUME NEW v \in ViewSet, Got(v) PROVE Got(v)'
      OBVIOUS
    <3> QED BY <1>1, <2>2, <2>3, FailGot
  <2>5. ~open'
    BY <2>1 DEF Failure
  <2>6. ResumesLive'
    BY <1>2, <2>1, RestResumes
  <2> QED BY <1>4, <2>4, <2>5, <2>6, KeptGot
<1>7. CASE Scan
  <2>1. Deliver(0) /\ UNCHANGED <<delivery, open, events>>
    BY <1>7 DEF Scan
  <2>2. ResumesLive'
    BY <2>1, RestResumes
  <2> QED BY <1>1, <1>2, <1>4, <2>1, <2>2, CalmGot DEF delivery
<1> QED BY <1>5, <1>6, <1>7

(* A quiet step that replaces one view.                                     *)
LEMMA SetGot ==
  ASSUME LogInv, Types, GotInv, NEW c \in Clients, NEW v, NEW w, NEW m, Set(c, State(v, w, m)),
         UNCHANGED <<ring, tags, delivery, open, events>>,
         v.coff <= End, v.stage = "snapshotting" => view[c].stage = "snapshotting" /\ Even(view[c], v),
         Spared(mirror[c], m), ResumesLive'
  PROVE  GotInv'
<1>1. End' = End /\ End \in Nat /\ log' = log
  BY SameLog DEF LogInv
<1>2. Kept(view[c], v)
  BY <1>1 DEF Kept
<1>3. MovesOn
  BY <1>1, <1>2, SetMoves
<1> QED BY <1>1, <1>3, CalmGot DEF delivery

(* The views that the operations leave, as far as Delivery is concerned.    *)
LEMMA OffsetsIn ==
  ASSUME LogInv, Types, GotInv, NEW c \in Clients
  PROVE  /\ SkipView(c).coff <= End
         /\ Even(view[c], ClearView(c)) /\ ClearView(c).coff <= End
         /\ PlaceView(c).coff <= End
         /\ \A history : FreshView(c, history).coff <= End
         /\ \A history, off : ResumedView(c, history, off).coff = off
         /\ \A history : Even(view[c], WantedView(c, history)) /\ WantedView(c, history).coff <= End
         /\ view[c].coff <= End
<1>1. PICK u \in ViewSet : u = view[c] /\ u.coff <= End
  BY DEF Types, ViewTypes, GotInv
<1>2. End \in Nat
  BY DEF LogInv
<1>3. SkipView(c).coff <= End
  BY <1>1, <1>2 DEF SkipView, ViewSet
<1>4. Even(view[c], ClearView(c)) /\ ClearView(c).coff <= End
  BY <1>1 DEF ClearView, ViewSet, Even
<1>5. PlaceView(c).coff <= End
  BY <1>1 DEF PlaceView, ViewSet
<1>6. \A history : FreshView(c, history).coff <= End
  BY <1>1, <1>2 DEF FreshView, ViewSet
<1>7. \A history, off : ResumedView(c, history, off).coff = off
  BY <1>1 DEF ResumedView, ViewSet
<1>8. \A history : Even(view[c], WantedView(c, history)) /\ WantedView(c, history).coff <= End
  BY <1>1 DEF WantedView, ViewSet, Even
<1> QED BY <1>1, <1>3, <1>4, <1>5, <1>6, <1>7, <1>8

(* decide().                                                                *)
LEMMA DecidesGot ==
  ASSUME LogInv, TagInv, Types, OwedInv, SlicesInv, GotInv, Decides
  PROVE  GotInv'
<1>1. PICK c \in Clients : c = pc.client
  BY DecidesCases DEF Types, PcTypes
<1>2. /\ view[c] \in ViewSet /\ ViewTypes /\ MirrorMap /\ OwedOnce /\ AskerOwns
      /\ view[c].history \in Asked /\ view[c].wanted \in Asked /\ HasEnd(mirror[c])
  BY DEF Types, ViewTypes, ViewSet, OwedInv, GotInv
<1>3. DecidesAs(c)
  BY <1>1, DecidesCases
<1>4. SkipView(c) \in ViewSet /\ ClearView(c) \in ViewSet /\ PlaceView(c) \in ViewSet
  BY StateViews
<1>5. Alike(SkipView(c), view[c]) /\ Alike(PlaceView(c), view[c])
  BY <1>2, AlikeClients
<1>6. Fares(mirror[c], mirror[c])
  BY CopyFares
<1>7. CASE Quiet /\ UNCHANGED conns /\ pc' = Rest
  <2>1. view' = view /\ mirror' = mirror /\ ResumesLive'
    BY <1>7, RestResumes DEF conns
  <2>2. UNCHANGED <<log, tags, requests, finished, delivered, count, events, open>>
    BY <1>7 DEF Quiet, ring, pane, delivery
  <2>3. End' = End /\ End \in Nat
    BY <1>7, SameLog DEF Quiet, LogInv
  <2>4. MovesOn
    BY <2>1, <2>3, SameMoves
  <2> QED BY <2>1, <2>2, <2>4, CalmGot
<1>8. CASE Asks(c, view[c].wanted, At(c)) /\ pc' = Rest
  <2>1. Ask(c, view[c].wanted, State(view[c], waiting[c], mirror[c]))
    BY <1>8, AtIs DEF Asks
  <2>2. view[c].coff <= End /\ ResumesLive'
    BY <1>8, OffsetsIn, RestResumes
  <2> QED BY <1>2, <1>6, <2>1, <2>2, AskGot
<1>9. ASSUME NEW s \in Sent(SkipState(c)), pc' = Rest, Pumpable(c),
             (s.waiting /\ Set(c, s) /\ Quiet) \/ (~s.waiting /\ Asks(c, "screen", s))
      PROVE  GotInv'
  <2>1. PICK m : m = Skipped(mirror[c], view[c].coff)
    OBVIOUS
  <2>2. PICK late \in Late(waiting[c]) : s = State(SkipView(c), late, m)
    <3>1. s \in Sent(State(SkipView(c), waiting[c], m))
      BY <1>9, <2>1, SkipStateIs
    <3> QED BY <3>1, SentIs
  <2>3. Fares(mirror[c], m) /\ Spared(mirror[c], m)
    BY <1>2, <2>1, CopyFares, FaresSpared
  <2>4. PICK v \in ViewSet : v = SkipView(c) /\ v.coff <= End /\ v.stage # "snapshotting"
    <3>1. view[c].stage = "live"
      BY <1>9 DEF Pumpable, Live
    <3>2. SkipView(c).stage = view[c].stage
      BY <1>5 DEF Alike
    <3> QED BY <1>4, <3>1, <3>2, OffsetsIn
  <2>5. ResumesLive'
    BY <1>9, RestResumes
  <2>6. CASE Set(c, s) /\ Quiet
    <3>1. Set(c, State(v, late, m)) /\ UNCHANGED <<ring, tags, delivery, open, events>>
      BY <2>2, <2>4, <2>6 DEF Quiet, pane
    <3> QED BY <2>3, <2>4, <2>5, <3>1, SetGot
  <2>7. CASE Asks(c, "screen", s)
    <3>1. PICK history \in Asked : history = "screen"
      BY DEF Asked
    <3>2. Ask(c, history, State(v, late, m))
      BY <2>2, <2>4, <2>7, <3>1 DEF Asks
    <3> QED BY <1>2, <2>3, <2>4, <2>5, <3>2, AskGot
  <2> QED BY <1>9, <2>6, <2>7, Zenon
<1>10. ASSUME NEW history \in {view[c].history, "screen"}, Asks(c, history, ClearState(c)), pc' = Rest
       PROVE  GotInv'
  <2>1. Ask(c, history, State(ClearView(c), waiting[c], mirror[c])) /\ history \in Asked
    <3>1. "screen" \in Asked
      BY DEF Asked
    <3> QED BY <1>2, <1>10, <3>1, ClearStateIs DEF Asks
  <2>2. ClearView(c).coff <= End /\ ResumesLive'
    BY <1>10, OffsetsIn, RestResumes
  <2> QED BY <1>2, <1>4, <1>6, <2>1, <2>2, AskGot
<1>11. CASE Pumpable(c) /\ pc' = [pc EXCEPT !.at = "resume"] /\ Set(c, PlaceState(c)) /\ Quiet
  <2>1. PICK v \in ViewSet : v = PlaceView(c) /\ v.coff <= End
    BY <1>4, OffsetsIn
  <2>2. Set(c, State(v, waiting[c], mirror[c])) /\ UNCHANGED <<ring, tags, delivery, open, events>>
    BY <1>11, <2>1, PlaceStateIs DEF Types, Quiet, pane
  <2>3. v.stage = "live"
    BY <1>5, <1>11, <2>1 DEF Pumpable, Live, Alike
  <2>4. ResumesLive'
    <3>1. view'[c] = v
      BY <1>2, <2>2, SetIs
    <3>2. pc'.client = c
      BY <1>1, <1>11 DEF Types, PcTypes, PcSet
    <3> QED BY <2>3, <3>1, <3>2 DEF ResumesLive, Live
  <2>5. Spared(mirror[c], mirror[c])
    BY <1>2, <1>6, FaresSpared
  <2> QED BY <2>1, <2>2, <2>3, <2>4, <2>5, SetGot
<1> QED BY <1>3, <1>7, <1>8, <1>9, <1>10, <1>11, Zenon DEF DecidesAs

(* open().                                                                  *)
LEMMA OpenGot ==
  ASSUME LogInv, TagInv, Types, OwedInv, SlicesInv, GotInv, NEW c \in Clients, Open(c)
  PROVE  GotInv'
<1>1. pc.at # "resume" /\ OpensAs(c)
  <2>1. pc = Rest
    BY OpenCases DEF Idle, AtRest
  <2> QED BY <2>1, OpenCases DEF Rest
<1>2. ViewTypes /\ OwedOnce /\ AskerOwns /\ HasEnd(mirror[c])
  BY DEF Types, OwedInv, GotInv
<1>3. PICK history \in Histories :
        \/ Asks(c, history, FreshState(c, history)) /\ UNCHANGED pc
        \/ \E off \in Oldest .. End :
             Set(c, ResumedState(c, history, off)) /\ Decide(c) /\ Quiet
  BY <1>1 DEF OpensAs
<1>4. history \in Asked
  BY ViewsAssumption DEF Asked
<1>5. CASE Asks(c, history, FreshState(c, history)) /\ UNCHANGED pc
  <2>1. Ask(c, history, State(FreshView(c, history), waiting[c], mirror[c]))
    BY <1>5, FreshStateIs DEF Asks
  <2>2. FreshView(c, history) \in ViewSet /\ FreshView(c, history).coff <= End
    BY <1>4, StateViews, OffsetsIn
  <2>3. Fares(mirror[c], mirror[c])
    BY CopyFares
  <2>4. ResumesLive'
    BY <1>1, <1>5, RestResumes
  <2> QED BY <1>2, <1>4, <2>1, <2>2, <2>3, <2>4, AskGot
<1>6. ASSUME NEW off \in Oldest .. End, Set(c, ResumedState(c, history, off)), Decide(c), Quiet
      PROVE  GotInv'
  <2>1. PICK missed \in BOOLEAN :
           ResumedState(c, history, off)
             = State(ResumedView(c, history, off), waiting[c], ResumedMirror(c, off, missed))
    BY ResumedStateIs
  <2>2. PICK v, m : v = ResumedView(c, history, off) /\ m = ResumedMirror(c, off, missed)
    OBVIOUS
  <2>3. Set(c, State(v, waiting[c], m)) /\ UNCHANGED <<ring, tags, delivery, open, events>>
    BY <1>6, <2>1, <2>2 DEF Quiet, pane
  <2>4. v.stage = "live" /\ v.coff <= End
    BY <1>2, <2>2, AlikeClients, OffsetsIn
  <2>5. Spared(mirror[c], m)
    BY <1>2, <2>2, ResumedFares, FaresSpared
  <2>6. ResumesLive'
    BY <1>6, RestResumes
  <2> QED BY <2>3, <2>4, <2>5, <2>6, SetGot
<1> QED BY <1>3, <1>5, <1>6

(* A resync.                                                                *)
LEMMA ResyncGot ==
  ASSUME LogInv, TagInv, Types, OwedInv, SlicesInv, GotInv,
         NEW c \in Clients, NEW history \in Histories, Resync(c, history)
  PROVE  GotInv'
<1>1. history \in Asked /\ ViewTypes /\ OwedOnce /\ AskerOwns /\ HasEnd(mirror[c])
  BY ViewsAssumption DEF Asked, Types, OwedInv, GotInv
<1>2. PICK v \in ViewSet : /\ v = WantedView(c, history) /\ v.coff <= End
                           /\ v.stage = view[c].stage /\ Even(view[c], v)
  BY <1>1, StateViews, AlikeClients, OffsetsIn DEF Alike
<1>3. WantedState(c, history) = State(v, waiting[c], mirror[c])
  BY <1>2, WantedStateIs
<1>4. ResumesLive'
  <2>1. pc = Rest /\ pc' = pc
    BY ResyncCases DEF Idle, AtRest
  <2> QED BY <2>1, RestResumes
<1>5. Fares(mirror[c], mirror[c]) /\ Spared(mirror[c], mirror[c])
  BY <1>1, CopyFares, FaresSpared
<1>6. \/ Ask(c, history, WantedState(c, history))
      \/ /\ Set(c, WantedState(c, history))
         /\ UNCHANGED <<ring, asks, serving, frames, full, life, tags,
                        delivery, open, dead, owners, events>>
  BY ResyncCases
<1>7. CASE Ask(c, history, WantedState(c, history))
  BY <1>1, <1>2, <1>3, <1>4, <1>5, <1>7, AskGot
<1>8. CASE /\ Set(c, WantedState(c, history))
           /\ UNCHANGED <<ring, asks, serving, frames, full, life, tags,
                          delivery, open, dead, owners, events>>
  BY <1>2, <1>3, <1>4, <1>5, <1>8, SetGot
<1> QED BY <1>6, <1>7, <1>8

(* A resume moves the offset of a live view, and not past the end.          *)
LEMMA ResumeGot ==
  ASSUME LogInv, TagInv, Types, GotInv, Resume
  PROVE  GotInv'
<1>1. PICK c \in Clients : c = pc.client
  BY ResumeCases DEF Types, PcTypes
<1>2. /\ pc.at = "resume" /\ pc' = Rest /\ Quiet /\ ResumesAs(c)
      /\ ViewTypes /\ HasEnd(mirror[c]) /\ view[c].stage = "live"
  BY <1>1, ResumeCases DEF Types, GotInv, Live
<1>3. ResumesLive' /\ UNCHANGED <<ring, tags, delivery, open, events>>
  BY <1>2, RestResumes DEF Quiet, pane
<1>4. ASSUME NEW pos
      PROVE  \E u \in ViewSet : u = BaseView(c, Sending(c, pos)) /\ u.stage = "live" /\ u.coff <= End
  <2>0. PICK u \in ViewSet : u = BaseView(c, Sending(c, pos))
    BY BaseIs
  <2>1. PICK sent : sent = Sending(c, pos) /\ u = BaseView(c, sent)
    BY <2>0
  <2>2. u.stage = "live"
    BY <1>2, <2>1, AlikeClients DEF Alike
  <2>3. view[c].coff <= End /\ view[c] \in ViewSet
    BY <1>2, OffsetsIn DEF ViewTypes
  <2>4. u.coff <= End
    <3>1. CASE sent = {}
      BY <2>1, <2>3, <3>1 DEF BaseView
    <3>2. CASE sent # {}
      <4>1. sent \in SUBSET log
        BY <2>1 DEF Sending, Messages, Between
      <4>2. PICK r \in log : r = Latest(sent)
        BY <3>2, <4>1, LatestIs
      <4>3. OffAfter(r) <= End
        BY <4>2 DEF LogInv
      <4>4. u.coff \in {OffAfter(r), view[c].coff}
        BY <2>1, <2>3, <3>2, <4>2 DEF BaseView, MovedView, ViewSet
      <4> QED BY <2>3, <4>3, <4>4
    <3> QED BY <3>1, <3>2
  <2> QED BY <2>0, <2>2, <2>4
<1>5. \A u \in ViewSet : /\ HeadView(u).stage = u.stage /\ HeadView(u).coff = u.coff
                         /\ HeldView(u).stage = u.stage /\ HeldView(u).coff = u.coff
  BY DEF HeadView, HeldView, ViewSet
<1>6. ASSUME NEW v, NEW w, NEW pos, NEW u \in ViewSet, v \in {HeadView(u), HeldView(u)},
             u.stage = "live", u.coff <= End,
             Set(c, State(v, w, BaseMirror(c, Sending(c, pos))))
      PROVE  GotInv'
  <2>1. PICK m : m = BaseMirror(c, Sending(c, pos))
    OBVIOUS
  <2>2. Fares(mirror[c], m) /\ Spared(mirror[c], m)
    <3>1. Fares(mirror[c], m)
      BY <2>1, BaseFares DEF LogInv
    <3> QED BY <1>2, <3>1, FaresSpared
  <2>3. v.stage = "live" /\ v.coff <= End
    BY <1>5, <1>6
  <2> QED BY <1>3, <1>6, <2>1, <2>2, <2>3, SetGot
<1>7. ASSUME NEW w, Set(c, State(HeadView(BaseView(c, Sending(c, head))), w, BaseMirror(c, Sending(c, head))))
      PROVE  GotInv'
  <2>0. PICK u \in ViewSet : u = BaseView(c, Sending(c, head)) /\ u.stage = "live" /\ u.coff <= End
    BY <1>4
  <2>1. PICK v : v = HeadView(u)
    OBVIOUS
  <2>2. Set(c, State(v, w, BaseMirror(c, Sending(c, head))))
    BY <1>7, <2>0, <2>1
  <2> QED BY <1>6, <2>0, <2>1, <2>2
<1>8. ASSUME NEW pos, NEW w,
             Set(c, State(HeldView(BaseView(c, Sending(c, pos))), w, BaseMirror(c, Sending(c, pos))))
      PROVE  GotInv'
  <2>0. PICK u \in ViewSet : u = BaseView(c, Sending(c, pos)) /\ u.stage = "live" /\ u.coff <= End
    BY <1>4
  <2>1. PICK v : v = HeldView(u)
    OBVIOUS
  <2>2. Set(c, State(v, w, BaseMirror(c, Sending(c, pos))))
    BY <1>8, <2>0, <2>1
  <2> QED BY <1>6, <2>0, <2>1, <2>2
<1> QED BY <1>2, <1>7, <1>8, Zenon DEF ResumesAs

(* What a client and its output begin.                                      *)
LEMMA ClientGot ==
  ASSUME LogInv, TagInv, Types, GotInv, NEW c \in Clients, Pump(c) \/ Writable(c) \/ Leave(c)
  PROVE  GotInv'
<1>0. UNCHANGED ring => End' = End /\ End \in Nat
  BY SameLog DEF LogInv
<1>1. CASE Pump(c) \/ Writable(c)
  <2>1. /\ Decide(c) \/ Drained(c)
        /\ UNCHANGED <<ring, tags, delivery, open, events, view, mirror>>
    BY <1>1 DEF Pump, Writable, pane, conns
  <2>2. MovesOn /\ ResumesLive'
    BY <1>0, <2>1, SameMoves, RestResumes
  <2> QED BY <2>1, <2>2, CalmGot DEF ring, delivery
<1>2. CASE Leave(c)
  <2>1. /\ Set(c, ClosedState(view[c], mirror[c], "left")) /\ Idle
        /\ UNCHANGED <<ring, asks, serving, frames, full, life, tags, delivery, server>>
    BY <1>2, LeaveIs
  <2>2. UNCHANGED <<ring, tags, delivery, open, events>> /\ pc = Rest /\ pc' = pc
    BY <2>1 DEF server, Idle, AtRest
  <2>3. PICK no, u, why, m : /\ no = FALSE /\ u = ClosedView(view[c]) /\ why = "left"
                             /\ m = Ended(mirror[c], why)
    OBVIOUS
  <2>4. Set(c, State(u, no, m))
    BY <2>1, <2>3 DEF ClosedState
  <2>5. u.stage = "closed" /\ u.coff <= End
    <3>1. PICK v \in ViewSet : v = view[c] /\ v.coff <= End
      BY OffsetsIn DEF Types, ViewTypes
    <3> QED BY <2>3, <3>1 DEF ClosedView, ViewSet
  <2>6. Spared(mirror[c], m)
    BY <2>3, FaresSpared DEF GotInv
  <2>7. ResumesLive'
    BY <2>2, RestResumes
  <2> QED BY <2>2, <2>4, <2>5, <2>6, <2>7, SetGot
<1> QED BY <1>1, <1>2

(* Every step keeps what the views have.                                    *)
LEMMA StepGot ==
  ASSUME TypeInv, OwedInv, SlicesInv, GotInv, [Next]_vars
  PROVE  GotInv'
<1>0. LogInv /\ TagInv /\ Types
  BY DEF TypeInv
<1>1. CASE UNCHANGED vars
  <2>1. UNCHANGED <<ring, tags, delivery, open, events, pc, view, mirror>>
    BY <1>1 DEF vars, pane, server, conns
  <2>2. End' = End /\ End \in Nat
    BY <1>0, <2>1, SameLog DEF LogInv
  <2>3. MovesOn /\ ResumesLive'
    BY <1>0, <2>1, <2>2, SameMoves, RestResumes
  <2> QED BY <1>0, <2>1, <2>3, CalmGot DEF ring, delivery
<1>2. CASE PaneWrites \/ PaneResizes \/ PaneExits \/ PaneCrashes \/ PaneStep
  BY <1>0, <1>2, PaneGot
<1>3. CASE ServerStep
  BY <1>0, <1>3, HandOverGot, WalkGot, ReadGot, TakenGot, ClientGot, DecidesGot, ResumeGot DEF ServerStep
<1>4. ASSUME NEW c \in Clients, Writable(c) \/ Open(c) \/ Leave(c) PROVE GotInv'
  BY <1>0, <1>4, ClientGot, OpenGot
<1>5. ASSUME NEW c \in Clients, NEW history \in Histories, Resync(c, history) PROVE GotInv'
  BY <1>0, <1>5, ResyncGot
<1> QED BY <1>1, <1>2, <1>3, <1>4, <1>5 DEF Next

(* What the proof of RefusedOnlyGone rests on.                              *)
LEMMA GotHolds == Spec => [](TypeInv /\ OwedInv /\ SlicesInv /\ GotInv)
<1> DEFINE IInv == TypeInv /\ OwedInv /\ SlicesInv /\ GotInv
<1>1. Init => IInv
  BY InitLog, InitTypes, InitOwed, InitSlices, InitGot DEF TypeInv
<1>2. IInv /\ [Next]_vars => IInv'
  BY StepTypes, StepOwed, StepSlices, StepGot
<1> QED BY <1>1, <1>2, PTL DEF Spec

(* What the counts say is what AnswerOwed says.                             *)
LEMMA OwedAnswers ==
  ASSUME Types, OwedInv, ~open => requests = <<>> /\ finished = <<>>
  PROVE  AnswerOwed
<1> DEFINE dones == {i \in DOMAIN events : events[i].t = "done"}
           serials == {events[i].serial : i \in dones}
           owed == Serials(requests) \cup Serials(finished) \cup serials
           owned == {o[1] : o \in owners}
<1>1. requests \in Seq(Waits) /\ finished \in Seq(Waits) /\ events \in Seq(EventSet)
  BY DEF Types, DeliveryTypes, ServerTypes
<1>2. \A serial \in Nat :
        /\ Hits(requests, WaitsOf(serial)) \in Nat /\ Hits(finished, WaitsOf(serial)) \in Nat
        /\ Hits(requests, WaitsOf(serial)) # 0 <=> serial \in Serials(requests)
        /\ Hits(finished, WaitsOf(serial)) # 0 <=> serial \in Serials(finished)
  BY <1>1, SerialsCount
<1>3. \A serial \in Nat :
        /\ Hits(events, DonesOf(serial)) \in Nat
        /\ Hits(events, DonesOf(serial)) # 0 <=> serial \in serials
  BY <1>1, DonesCount
<1>4. \A serial \in Nat :
        /\ Owed(serial) <= 1
        /\ HasOwner(serial) => Owed(serial) # 0
        /\ ~HasOwner(serial) /\ Owed(serial) # 0 => ~open /\ serial = next - 1
  BY DEF OwedInv, OwedOnce
<1>5. owed \subseteq Nat
  <2>1. Serials(requests) \subseteq Nat /\ Serials(finished) \subseteq Nat
    BY <1>1, SerialsCount
  <2>2. serials \subseteq Nat
    BY <1>1, DonesCount
  <2> QED BY <2>1, <2>2
<1> HIDE DEF serials, dones
<1>6. ASSUME NEW serial \in Nat
      PROVE  /\ HasOwner(serial) => serial \in owed
             /\ ~HasOwner(serial) /\ serial \in owed => ~open /\ serial = next - 1
  <2> DEFINE p == Hits(requests, WaitsOf(serial))
             q == Hits(finished, WaitsOf(serial))
             r == Hits(events, DonesOf(serial))
  <2>1. /\ p \in Nat /\ q \in Nat /\ r \in Nat /\ (HasOwner(serial) => p + q + r # 0)
        /\ ~HasOwner(serial) /\ p + q + r # 0 => ~open /\ serial = next - 1
    BY <1>2, <1>3, <1>4 DEF Owed
  <2>2. serial \in owed <=> p # 0 \/ q # 0 \/ r # 0
    BY <1>2, <1>3
  <2> HIDE DEF p, q, r, owed
  <2> QED BY <2>1, <2>2
<1>7. \A serial \in Nat : serial \in owned <=> HasOwner(serial)
  <2>1. next \in Nat /\ owners \subseteq (1 .. next - 1) \X Clients
    BY DEF Types, DeliveryTypes, ServerTypes
  <2>2. ASSUME NEW serial \in Nat, HasOwner(serial) PROVE serial \in owned
    <3>1. PICK c \in Clients : <<serial, c>> \in owners
      BY <2>2 DEF HasOwner
    <3> QED BY <3>1
  <2>3. ASSUME NEW o \in owners PROVE HasOwner(o[1])
    <3>1. o = <<o[1], o[2]>> /\ o[1] \in 1 .. next - 1 /\ o[2] \in Clients
      BY <2>1
    <3> QED BY <2>1, <3>1 DEF HasOwner
  <2> QED BY <2>2, <2>3
<1>14. owned \subseteq owed
  <2>1. owned \subseteq Nat
    BY DEF Types, DeliveryTypes, ServerTypes
  <2> HIDE DEF owned, owed
  <2> QED BY <1>6, <1>7, <2>1
<1>15. ASSUME owed # owned
       PROVE  ~open /\ \E i \in dones : owed \ owned = {events[i].serial}
  <2>1. PICK serial \in owed : serial \notin owned
    BY <1>14, <1>15
  <2>2. serial \in Nat /\ ~open /\ serial = next - 1
    <3> HIDE DEF owned, owed
    <3> QED BY <1>5, <1>6, <1>7, <2>1
  <2>3. \A other \in owed \ owned : other = serial
    <3> HIDE DEF owned, owed
    <3> QED BY <1>5, <1>6, <1>7, <2>2
  <2>4. serial \in serials
    <3>1. requests = <<>> /\ finished = <<>>
      BY <2>2
    <3>2. Serials(requests) = {} /\ Serials(finished) = {}
      BY <3>1 DEF Serials
    <3> QED BY <2>1, <3>2
  <2>5. PICK i \in dones : events[i].serial = serial
    BY <2>4 DEF serials
  <2>6. owed \ owned = {serial}
    <3> HIDE DEF owned, owed
    <3> QED BY <2>1, <2>3
  <2> QED BY <2>2, <2>5, <2>6
<1>8. /\ \A serial \in Nat : Hits(requests, WaitsOf(serial)) <= 1
      /\ \A serial \in Nat : Hits(finished, WaitsOf(serial)) <= 1
      /\ \A serial \in Nat : Hits(events, DonesOf(serial)) <= 1
  BY <1>2, <1>3, <1>4 DEF Owed
<1>9. /\ IsFiniteSet(Serials(requests)) /\ Cardinality(Serials(requests)) = Len(requests)
      /\ IsFiniteSet(Serials(finished)) /\ Cardinality(Serials(finished)) = Len(finished)
  BY <1>1, <1>8, SerialsCount
<1>10. IsFiniteSet(serials) /\ Cardinality(serials) = Cardinality(dones)
  BY <1>1, <1>8, DonesCount DEF serials, dones
<1>11. /\ Serials(requests) \cap Serials(finished) = {}
       /\ (Serials(requests) \cup Serials(finished)) \cap serials = {}
  <2> SUFFICES ASSUME NEW serial \in owed
               PROVE  /\ ~(serial \in Serials(requests) /\ serial \in Serials(finished))
                      /\ ~(serial \in Serials(requests) /\ serial \in serials)
                      /\ ~(serial \in Serials(finished) /\ serial \in serials)
    OBVIOUS
  <2> DEFINE p == Hits(requests, WaitsOf(serial))
             q == Hits(finished, WaitsOf(serial))
             r == Hits(events, DonesOf(serial))
  <2>1. serial \in Nat
    BY <1>5
  <2>2. p \in Nat /\ q \in Nat /\ r \in Nat /\ p + q + r <= 1
    BY <1>2, <1>3, <1>4, <2>1 DEF Owed
  <2>3. /\ p # 0 <=> serial \in Serials(requests)
        /\ q # 0 <=> serial \in Serials(finished)
        /\ r # 0 <=> serial \in serials
    BY <1>2, <1>3, <2>1
  <2> HIDE DEF p, q, r
  <2> QED BY <2>2, <2>3
<1>12. Cardinality(owed) = Len(requests) + Len(finished) + Cardinality(dones)
  <2>1. /\ IsFiniteSet(Serials(requests) \cup Serials(finished))
        /\ Cardinality(Serials(requests) \cup Serials(finished)) = Len(requests) + Len(finished)
    <3>1. PICK p, q : p = Serials(requests) /\ q = Serials(finished)
      OBVIOUS
    <3>2. IsFiniteSet(p) /\ IsFiniteSet(q) /\ p \cap q = {}
      BY <1>9, <1>11, <3>1
    <3>3. IsFiniteSet(p \cup q) /\ Cardinality(p \cup q) = Cardinality(p) + Cardinality(q)
      BY <3>2, SizesAdd
    <3> QED BY <1>9, <3>1, <3>3
  <2>2. PICK both : both = Serials(requests) \cup Serials(finished)
    OBVIOUS
  <2>3. Cardinality(both \cup serials) = Cardinality(both) + Cardinality(serials)
    BY <1>10, <1>11, <2>1, <2>2, SizesAdd
  <2> QED BY <1>10, <2>1, <2>2, <2>3
<1>13. AskerOwns
  BY DEF OwedInv
<1> QED BY <1>12, <1>13, <1>14, <1>15 DEF AnswerOwed, AskerOwns, owed, owned, serials, dones

(* Every request is owed exactly one answer: it moves from Delivery's queue *)
(* to the requests whose end was seen and to the events, and none is        *)
(* dropped or answered twice, whatever fails between; a view that waits for *)
(* one owns it.  The request that finds the pane process gone is answered   *)
(* with all others, and is the only one that nobody owns (request, deliver, *)
(* snapshot_done, fail_pending, PaneProc::snapshot).                        *)
THEOREM AnswerOwedHolds == Spec => []AnswerOwed
<1>1. TypeInv /\ OwedInv /\ SlicesInv => AnswerOwed
  BY OwedAnswers DEF TypeInv, SlicesInv, QueueInv
<1> QED BY <1>1, GotHolds, PTL

(* A view is refused only because the pane process is gone, and the server  *)
(* gives a pane up for nothing else: a slice never comes before it is       *)
(* waited for nor after it was released, a done frame always finds its      *)
(* request among the finished ones, and the view that it answers has both   *)
(* slices and stands at the end that was held (Delivery::take_slice and     *)
(* snapshot_done, View::on_slice and on_done).                              *)
THEOREM RefusedOnlyGoneHolds == Spec => []RefusedOnlyGone
<1>1. SlicesInv /\ GotInv => RefusedOnlyGone
  BY DEF SlicesInv, QueueInv, GotInv, RefusedOnlyGone
<1> QED BY <1>1, GotHolds, PTL

-----------------------------------------------------------------------------
(* Every offset is where the bytes before it end.                           *)
Rooted(off, at) == off = 0 \/ \E r \in log : r.kind = "bytes" /\ r.at < at /\ OffAfter(r) = off
RootedInv == Rooted(End, head) /\ \A q \in log : Rooted(q.off, q.at)

(* A publication adds a record whose offset is where the last bytes end.    *)
LEMMA PublishRoots ==
  ASSUME LogInv, RootedInv, NEW kind \in Kind, NEW len \in Nat, Publish(kind, len)
  PROVE  RootedInv'
<1>1. PICK n : n = NewRecord(kind, len)
  OBVIOUS
<1>2. /\ log' = log \cup {n} /\ head' \in Nat /\ head < head' /\ head \in Nat
      /\ End' = OffAfter(n) /\ n \in Records
  BY <1>1, PublishAdds DEF LogInv
<1>3. n.off = End /\ n.at = head /\ n.kind = kind
  BY <1>1 DEF NewRecord
<1>4. \A off, at : Rooted(off, at) => Rooted(off, at)'
  BY <1>2 DEF Rooted, OffAfter
<1>5. Rooted(End, head)'
  <2>1. CASE kind = "bytes"
    BY <1>2, <1>3, <2>1 DEF Rooted, OffAfter
  <2>2. CASE kind # "bytes"
    <3>1. End' = End
      BY <1>2, <1>3, <2>2 DEF OffAfter, LogInv
    <3>2. \A r \in log : r.at < head => r.at < head'
      BY <1>2, RecordIs
    <3> QED BY <1>2, <3>1, <3>2 DEF RootedInv, Rooted, OffAfter
  <2> QED BY <2>1, <2>2
<1>6. ASSUME NEW q \in log' PROVE Rooted(q.off, q.at)'
  <2>1. PICK off, at : off = q.off /\ at = q.at
    OBVIOUS
  <2>2. Rooted(off, at)
    BY <1>2, <1>3, <1>6, <2>1 DEF RootedInv
  <2>3. Rooted(off, at)'
    BY <1>4, <2>2
  <2> QED BY <2>1, <2>3
<1> QED BY <1>5, <1>6 DEF RootedInv

(* Offsets stay where bytes end.                                            *)
LEMMA StepRoots == ASSUME LogInv, RootedInv, LogStep PROVE RootedInv'
<1>1. BytesLen \in Nat /\ MarkLen \in Nat /\ SliceLen \in Nat /\ {"bytes", "marker", "slice"} \subseteq Kind
  BY Lengths DEF Kind
<1>2. log' = log /\ head' = head /\ End' = End => RootedInv'
  BY DEF RootedInv, Rooted
<1>3. CASE UNCHANGED <<ring, tags>>
  BY <1>2, <1>3, SameLog
<1>4. ASSUME NEW to \in Starts, Release(to) PROVE RootedInv'
  BY <1>2, <1>4, ReleaseMoves
<1> QED BY <1>1, <1>3, <1>4, PublishRoots DEF LogStep

-----------------------------------------------------------------------------
(* A copy that no message has left wanting.                                 *)
Whole(m) == {"off", "mark", "snap", "skip", "true", "end"} \subseteq DOMAIN m /\ m.true = TRUE

(* A copy is in no snapshot and in no skip.                                 *)
Plain(m) == m.snap = 0 /\ m.skip = FALSE

(* The view's cursor says how far the copy is: no marker lies between them, *)
(* no bytes before the cursor are missing, and the markers from there on    *)
(* lie at its offset or behind it.                                          *)
InPlace(v, m) ==
  /\ m.off = v.coff /\ Plain(m)
  /\ \A q \in log : q.kind = "marker" /\ m.mark <= q.at => v.cpos <= q.at
  /\ \A q \in log : q.kind = "bytes" /\ q.at < v.cpos => OffAfter(q) <= v.coff
  /\ \A q \in log : q.kind = "marker" /\ v.cpos <= q.at => v.coff <= q.off

(* What a view and its client's copy have to do with one another.           *)
Fit(v, m) ==
  /\ Whole(m) /\ v.cpos <= head
  /\ v.stage = "new" => Plain(m)
  /\ v.stage = "snapshotting" => /\ v.got = 1 => m.snap = v.serial
                                 /\ v.got = 2 => InPlace(v, m)
  /\ v.stage = "live" /\ v.wanted = "-" => InPlace(v, m)
AllFit == \A c \in Clients : Fit(view[c], mirror[c])
WantsNothing == pc.at = "resume" => view[pc.client].wanted = "-"
CopyInv == RootedInv /\ AllFit /\ WantsNothing

(* The changes of a copy, field by field.                                   *)
LEMMA EndedWhole ==
  ASSUME NEW m, NEW why, Whole(m)
  PROVE  Whole(Ended(m, why))
BY DEF Whole, Ended

(* A death that a done event tells changes nothing else.                    *)
LEMMA DiedWhole ==
  ASSUME NEW m, NEW v, Whole(m)
  PROVE  /\ Whole(DiedAt(m, v))
         /\ \A u : InPlace(u, m) => InPlace(u, DiedAt(m, v))
<1>1. PICK k : k = DiedAt(m, v)
  OBVIOUS
<1>2. Whole(k) /\ k.off = m.off /\ k.mark = m.mark /\ k.snap = m.snap /\ k.skip = m.skip
  BY <1>1 DEF Whole, DiedAt
<1>3. \A u : InPlace(u, m) => InPlace(u, k)
  BY <1>2 DEF InPlace, Plain
<1> QED BY <1>1, <1>2, <1>3

(* A skip continues the copy that stands at the view's offset.              *)
LEMMA SkippedWhole ==
  ASSUME NEW m, Whole(m)
  PROVE  Whole(Skipped(m, m.off))
BY DEF Whole, Skipped

(* The first slice begins a snapshot.                                       *)
LEMMA FirstWhole ==
  ASSUME NEW m, NEW r, Whole(m), TagOf(r).t = "first"
  PROVE  Whole(AfterSlice(m, r)) /\ AfterSlice(m, r).snap = TagOf(r).req
BY DEF Whole, AfterSlice

(* The last one ends the snapshot that the first began, and the copy is     *)
(* where the slice lies.                                                    *)
LEMMA LastWhole ==
  ASSUME NEW m, NEW r, Whole(m), TagOf(r).t # "first", m.snap = TagOf(r).req
  PROVE  /\ Whole(AfterSlice(m, r)) /\ Plain(AfterSlice(m, r))
         /\ AfterSlice(m, r).off = r.off /\ AfterSlice(m, r).mark = r.at
<1>1. PICK k : k = AfterSlice(m, r)
  OBVIOUS
<1>2. k.true = TRUE
  BY <1>1 DEF Whole, AfterSlice
<1>3. {"off", "mark", "snap", "skip", "true", "end"} \subseteq DOMAIN k
  BY <1>1 DEF Whole, AfterSlice
<1>4. Plain(k) /\ k.off = r.off /\ k.mark = r.at
  BY <1>1 DEF Whole, AfterSlice, Plain
<1> QED BY <1>1, <1>2, <1>3, <1>4 DEF Whole

(* Bytes that begin where the copy ends continue it.                        *)
LEMMA BytesWhole ==
  ASSUME NEW m, NEW r, Whole(m), Plain(m)
  PROVE  /\ Whole(AfterBytes(m, r, m.off)) /\ Plain(AfterBytes(m, r, m.off))
         /\ AfterBytes(m, r, m.off).off = OffAfter(r) /\ AfterBytes(m, r, m.off).mark = m.mark
<1>1. PICK k : k = AfterBytes(m, r, m.off)
  OBVIOUS
<1>2. k.true = TRUE
  BY <1>1 DEF Whole, Plain, AfterBytes
<1>3. {"off", "mark", "snap", "skip", "true", "end"} \subseteq DOMAIN k
  BY <1>1 DEF Whole, AfterBytes
<1>4. Plain(k) /\ k.off = OffAfter(r) /\ k.mark = m.mark
  BY <1>1 DEF Whole, AfterBytes, Plain
<1> QED BY <1>1, <1>2, <1>3, <1>4 DEF Whole

(* A marker at the copy's offset continues it if none before it is missing. *)
LEMMA MarkerWhole ==
  ASSUME NEW m, NEW r, NEW history, Whole(m), Plain(m), r.off = m.off,
         {q \in Between(m.mark, r.at) : q.kind = "marker"} = {}
  PROVE  LET k == AfterMarker(m, r, history) IN
         Whole(k) /\ Plain(k) /\ k.off = m.off /\ k.mark = EndOf(r)
<1>1. PICK k : k = AfterMarker(m, r, history)
  OBVIOUS
<1>2. k.true = TRUE
  BY <1>1 DEF Whole, Plain, AfterMarker
<1>3. {"off", "mark", "snap", "skip", "true", "end"} \subseteq DOMAIN k
  BY <1>1 DEF Whole, AfterMarker
<1>4. Plain(k) /\ k.off = m.off /\ k.mark = EndOf(r)
  BY <1>1 DEF Whole, AfterMarker, Plain
<1> QED BY <1>1, <1>2, <1>3, <1>4 DEF Whole

-----------------------------------------------------------------------------
(* The copy k after those messages of a resume that end at n or before: it  *)
(* is where the last of them ends, and no marker is missing in it.          *)
Replayed(c, sent, k, n) ==
  /\ Whole(k) /\ Plain(k) /\ k.off \in Nat
  /\ k.off = view[c].coff \/ (\E r \in sent : EndOf(r) <= n /\ OffAfter(r) = k.off)
  /\ view[c].coff <= k.off
  /\ \A r \in sent : EndOf(r) <= n => OffAfter(r) <= k.off
  /\ \A q \in log : q.kind = "marker" /\ k.mark <= q.at =>
       view[c].cpos <= q.at /\ (q \in sent => n < EndOf(q))

(* What is sent lies between the cursor and where the resume stops.         *)
LEMMA SendingIs ==
  ASSUME LogInv, NEW c, NEW pos, NEW r
  PROVE  r \in Sending(c, pos) <=>
           /\ r \in log /\ view[c].cpos <= r.at /\ r.at < pos
           /\ ((r.kind = "bytes" /\ OffAfter(r) > view[c].coff) \/ r.kind = "marker")
<1>1. r \in log => r.at < head
  BY RecordIs
<1> QED BY <1>1 DEF Sending, Messages, Between

(* The numbers of two records of the log, the first before the second.      *)
LEMMA Tiles ==
  ASSUME LogInv, NEW q \in log, NEW r \in log
  PROVE  /\ q.at \in Nat /\ EndOf(q) \in Nat /\ OffAfter(q) \in Nat /\ q.off \in Nat
         /\ q.at < EndOf(q) /\ q.off <= OffAfter(q) /\ EndOf(q) <= head
         /\ q.at < r.at => EndOf(q) <= r.at /\ OffAfter(q) <= r.off
         /\ q.at = r.at => q = r
         /\ q.kind # "bytes" => OffAfter(q) = q.off
<1>1. /\ q.at < r.at => EndOf(q) <= r.at /\ OffAfter(q) <= r.off
      /\ q.at = r.at => q = r
  BY DEF LogInv
<1>2. q.kind # "bytes" => OffAfter(q) = q.off
  BY RecordIs DEF OffAfter
<1> QED BY <1>1, <1>2, RecordIs

(* Two records that end at one place are one.                               *)
LEMMA OneEnd ==
  ASSUME LogInv, NEW q \in log, NEW r \in log, EndOf(q) <= EndOf(r)
  PROVE  q = r \/ (q.at < r.at /\ EndOf(q) < EndOf(r) /\ OffAfter(q) <= r.off)
<1>1. /\ q.at \in Nat /\ EndOf(q) \in Nat /\ q.at < EndOf(q)
      /\ r.at \in Nat /\ EndOf(r) \in Nat /\ r.at < EndOf(r)
  BY Tiles
<1>2. r.at < q.at => EndOf(r) <= q.at
  BY Tiles
<1>3. q.at = r.at => q = r
  BY Tiles
<1>4. q.at < r.at => EndOf(q) <= r.at /\ OffAfter(q) <= r.off
  BY Tiles
<1>5. ~(r.at < q.at)
  BY <1>1, <1>2
<1>6. q.at = r.at \/ q.at < r.at
  BY <1>1, <1>5
<1>7. q.at < r.at => EndOf(q) < EndOf(r)
  BY <1>1, <1>4
<1>8. CASE q.at = r.at
  BY <1>3, <1>8
<1>9. CASE q.at < r.at
  BY <1>4, <1>7, <1>9
<1> QED BY <1>6, <1>8, <1>9

(* The next message begins where the copy ends.                             *)
LEMMA NextContinues ==
  ASSUME LogInv, RootedInv, NEW c, NEW pos \in Nat, view[c].coff \in Nat, view[c].cpos \in Nat,
         NEW m, InPlace(view[c], m), NEW n \in Nat, NEW k, Replayed(c, Sending(c, pos), k, n),
         NEW r \in Sending(c, pos), EndOf(r) = n + 1
  PROVE  /\ r.kind = "bytes" =>
              (IF r.off < view[c].coff THEN view[c].coff ELSE r.off) = k.off
         /\ r.kind = "marker" =>
              r.off = k.off /\ {q \in Between(k.mark, r.at) : q.kind = "marker"} = {}
<1>1. /\ r \in log /\ view[c].cpos <= r.at /\ r.at < pos
      /\ ((r.kind = "bytes" /\ OffAfter(r) > view[c].coff) \/ r.kind = "marker")
  BY SendingIs
<1>2. r.at \in Nat /\ r.off \in Nat /\ r.at <= n /\ r.at < EndOf(r)
  BY <1>1, Tiles
<1>3. k.off \in Nat /\ view[c].coff <= k.off
  BY DEF Replayed
<1>4. \A q \in Sending(c, pos) : q \in log
  BY SendingIs
<1>5. k.off = view[c].coff \/ k.off <= r.off
  <2>1. SUFFICES ASSUME NEW q \in Sending(c, pos), EndOf(q) <= n, OffAfter(q) = k.off PROVE k.off <= r.off
    BY DEF Replayed
  <2>2. EndOf(q) <= EndOf(r) /\ EndOf(q) # EndOf(r)
    <3>1. EndOf(q) \in Nat
      BY <1>4, Tiles
    <3> QED BY <2>1, <3>1
  <2> QED BY <1>1, <1>4, <2>1, <2>2, OneEnd
<1>6. r.off <= k.off
  <2>1. Rooted(r.off, r.at)
    BY <1>1 DEF RootedInv
  <2>2. SUFFICES ASSUME NEW b \in log, b.kind = "bytes", b.at < r.at, OffAfter(b) = r.off
                 PROVE  r.off <= k.off
    BY <1>2, <1>3, <2>1 DEF Rooted
  <2>3. b.at \in Nat /\ EndOf(b) \in Nat /\ EndOf(b) <= r.at
    BY <1>1, <2>2, Tiles
  <2>4. CASE b.at < view[c].cpos
    <3>1. OffAfter(b) <= view[c].coff
      BY <2>2, <2>4 DEF InPlace
    <3> QED BY <1>2, <1>3, <2>2, <3>1
  <2>5. CASE ~(b.at < view[c].cpos) /\ OffAfter(b) > view[c].coff
    <3>1. b \in Sending(c, pos)
      BY <1>1, <1>2, <2>2, <2>3, <2>5, SendingIs
    <3>2. EndOf(b) <= n
      BY <1>2, <2>3
    <3> QED BY <2>2, <3>1, <3>2 DEF Replayed
  <2>6. CASE ~(OffAfter(b) > view[c].coff)
    BY <1>2, <1>3, <2>2, <2>6
  <2> QED BY <2>4, <2>5, <2>6
<1>7. CASE r.kind = "bytes"
  BY <1>2, <1>3, <1>5, <1>6, <1>7
<1>8. CASE r.kind = "marker"
  <2>1. view[c].coff <= r.off
    BY <1>1, <1>8 DEF InPlace
  <2>2. ASSUME NEW q \in Between(k.mark, r.at), q.kind = "marker" PROVE FALSE
    <3>1. q \in log /\ k.mark <= q.at /\ q.at < r.at
      BY <2>2 DEF Between
    <3>2. view[c].cpos <= q.at /\ (q \in Sending(c, pos) => n < EndOf(q))
      BY <2>2, <3>1 DEF Replayed
    <3>3. q.at \in Nat /\ EndOf(q) \in Nat /\ EndOf(q) <= r.at
      BY <1>1, <3>1, Tiles
    <3>4. q \in Sending(c, pos)
      BY <1>1, <1>2, <2>2, <3>1, <3>2, <3>3, SendingIs
    <3> QED BY <1>2, <3>2, <3>3, <3>4
  <2>3. r.off = k.off
    BY <1>2, <1>3, <1>5, <1>6, <2>1
  <2> QED BY <1>8, <2>2, <2>3
<1> QED BY <1>1, <1>7, <1>8

(* One message more.                                                        *)
LEMMA ReplayStep ==
  ASSUME LogInv, RootedInv, NEW c, NEW pos \in Nat, view[c].coff \in Nat, view[c].cpos \in Nat,
         NEW m, InPlace(view[c], m), NEW n \in Nat, NEW k, Replayed(c, Sending(c, pos), k, n)
  PROVE  Replayed(c, Sending(c, pos), Copied(c, Sending(c, pos), k, n + 1), n + 1)
<1> DEFINE sent == Sending(c, pos)
<1>1. \A q \in sent : q \in log /\ EndOf(q) \in Nat /\ q.at \in Nat /\ q.at < EndOf(q) /\ OffAfter(q) \in Nat
  BY SendingIs, Tiles
<1>2. CASE EndAt(sent, n + 1) = {}
  <2>1. \A q \in sent : EndOf(q) # n + 1
    BY <1>2 DEF EndAt
  <2>2. \A q \in sent : EndOf(q) <= n + 1 <=> EndOf(q) <= n
    BY <1>1, <2>1
  <2>3. \A q \in sent : n < EndOf(q) <=> n + 1 < EndOf(q)
    BY <1>1, <2>1
  <2>4. Copied(c, sent, k, n + 1) = k
    BY <1>2 DEF Copied
  <2> HIDE DEF sent
  <2>5. Replayed(c, sent, k, n + 1)
    BY <2>2, <2>3 DEF Replayed, sent
  <2> QED BY <2>4, <2>5 DEF sent
<1>3. CASE EndAt(sent, n + 1) # {}
  <2>1. PICK r : r = (CHOOSE q \in EndAt(sent, n + 1) : TRUE)
    OBVIOUS
  <2>2. r \in sent /\ EndOf(r) = n + 1
    BY <1>3, <2>1 DEF EndAt
  <2>3. Copied(c, sent, k, n + 1) = Copy(c, k, r)
    BY <1>3, <2>1 DEF Copied
  <2>4. r \in log /\ view[c].cpos <= r.at /\ r.at \in Nat /\ r.off \in Nat /\ OffAfter(r) \in Nat
        /\ r.off <= OffAfter(r) /\ r.at < n + 1
        /\ ((r.kind = "bytes" /\ OffAfter(r) > view[c].coff) \/ r.kind = "marker")
    BY <2>2, SendingIs, Tiles
  <2>5. ASSUME NEW q \in log, EndOf(q) <= n + 1, q # r
        PROVE  EndOf(q) <= n /\ OffAfter(q) \in Nat /\ OffAfter(q) <= r.off
    <3>1. q.at < r.at /\ EndOf(q) < EndOf(r) /\ OffAfter(q) <= r.off
      BY <2>2, <2>4, <2>5, OneEnd
    <3>2. EndOf(q) \in Nat /\ OffAfter(q) \in Nat
      BY Tiles
    <3> QED BY <2>2, <3>1, <3>2
  <2>6. /\ Whole(k) /\ Plain(k) /\ k.off \in Nat /\ view[c].coff <= k.off
        /\ \A q \in log : q.kind = "marker" /\ k.mark <= q.at =>
             view[c].cpos <= q.at /\ (q \in sent => n < EndOf(q))
    BY DEF Replayed
  <2>7. CASE r.kind = "bytes"
    <3>1. PICK j : j = AfterBytes(k, r, k.off)
      OBVIOUS
    <3>2. Copy(c, k, r) = j
      <4>1. (IF r.off < view[c].coff THEN view[c].coff ELSE r.off) = k.off
        BY <2>2, <2>7, NextContinues
      <4> QED BY <2>7, <3>1, <4>1 DEF Copy
    <3>3. Whole(j) /\ Plain(j) /\ j.off = OffAfter(r) /\ j.mark = k.mark
      BY <2>6, <3>1, BytesWhole
    <3>4. view[c].coff <= OffAfter(r)
      BY <2>4, <2>7
    <3>5. ASSUME NEW q \in sent, EndOf(q) <= n + 1 PROVE OffAfter(q) <= j.off
      BY <1>1, <2>4, <2>5, <3>3, <3>5
    <3>6. ASSUME NEW q \in log, q.kind = "marker", j.mark <= q.at
          PROVE  view[c].cpos <= q.at /\ (q \in sent => n + 1 < EndOf(q))
      <4>1. view[c].cpos <= q.at /\ (q \in sent => n < EndOf(q))
        BY <2>6, <3>3, <3>6
      <4>2. ~(EndOf(q) <= n + 1) \/ EndOf(q) <= n
        BY <2>5, <2>7, <3>6
      <4>3. EndOf(q) \in Nat
        BY Tiles
      <4> QED BY <4>1, <4>2, <4>3
    <3>7. n + 1 <= n + 1
      OBVIOUS
    <3> HIDE DEF sent
    <3>8. Replayed(c, sent, j, n + 1)
      BY <2>2, <2>4, <3>3, <3>4, <3>5, <3>6, <3>7 DEF Replayed
    <3> QED BY <2>3, <3>2, <3>8 DEF sent
  <2>8. CASE r.kind = "marker"
    <3>1. PICK j : j = AfterMarker(k, r, view[c].history)
      OBVIOUS
    <3>2. Copy(c, k, r) = j
      BY <2>8, <3>1 DEF Copy
    <3>3. r.off = k.off /\ {q \in Between(k.mark, r.at) : q.kind = "marker"} = {}
      BY <2>2, <2>8, NextContinues
    <3>4. Whole(j) /\ Plain(j) /\ j.off = k.off /\ j.mark = EndOf(r)
      BY <2>6, <3>1, <3>3, MarkerWhole
    <3>5. OffAfter(r) = r.off
      BY <2>4, <2>8, Tiles
    <3>6. ASSUME NEW q \in sent, EndOf(q) <= n + 1 PROVE OffAfter(q) <= j.off
      BY <1>1, <2>4, <2>5, <3>3, <3>4, <3>5, <3>6
    <3>7. ASSUME NEW q \in log, q.kind = "marker", j.mark <= q.at
          PROVE  view[c].cpos <= q.at /\ (q \in sent => n + 1 < EndOf(q))
      <4>1. q.at \in Nat /\ EndOf(q) \in Nat /\ q.at < EndOf(q)
        BY Tiles
      <4> QED BY <2>2, <2>4, <3>4, <3>7, <4>1
    <3>8. j.off = view[c].coff \/ \E q \in sent : EndOf(q) <= n + 1 /\ OffAfter(q) = j.off
      <4>1. CASE k.off = view[c].coff
        BY <3>4, <4>1
      <4>2. CASE \E q \in sent : EndOf(q) <= n /\ OffAfter(q) = k.off
        <5>1. PICK q \in sent : EndOf(q) <= n /\ OffAfter(q) = k.off
          BY <4>2
        <5>2. EndOf(q) <= n + 1
          BY <1>1, <5>1
        <5> QED BY <3>4, <5>1, <5>2
      <4> QED BY <4>1, <4>2 DEF Replayed
    <3> HIDE DEF sent
    <3>9. Replayed(c, sent, j, n + 1)
      BY <2>6, <3>4, <3>6, <3>7, <3>8 DEF Replayed
    <3> QED BY <2>3, <3>2, <3>9 DEF sent
  <2> QED BY <2>4, <2>7, <2>8
<1> QED BY <1>2, <1>3

(* All of them.                                                             *)
LEMMA ReplayWhole ==
  ASSUME LogInv, RootedInv, NEW c, NEW pos \in Nat, view[c].coff \in Nat, view[c].cpos \in Nat,
         Whole(mirror[c]), InPlace(view[c], mirror[c])
  PROVE  Replayed(c, Sending(c, pos), Replay(c, Sending(c, pos)), head)
<1> DEFINE sent == Sending(c, pos)
<1>1. head \in Nat
  BY DEF LogInv
<1>2. PICK f : /\ f[0] = mirror[c] /\ Replay(c, sent) = f[head]
               /\ \A n \in 1 .. head : f[n] = Copied(c, sent, f[n - 1], n)
  BY <1>1, ReplayUnfolds
<1> DEFINE T == {n \in Nat : n <= head => Replayed(c, sent, f[n], n)}
<1>3. 0 \in T
  <2>1. \A q \in sent : EndOf(q) \in Nat /\ 0 < EndOf(q)
    BY SendingIs, Tiles
  <2>2. Plain(mirror[c]) /\ mirror[c].off = view[c].coff
    BY DEF InPlace
  <2>3. \A q \in log : q.kind = "marker" /\ mirror[c].mark <= q.at => view[c].cpos <= q.at
    BY DEF InPlace
  <2>4. \A q \in sent : ~(EndOf(q) <= 0)
    BY <2>1
  <2> HIDE DEF sent
  <2>5. Replayed(c, sent, mirror[c], 0)
    BY <2>1, <2>2, <2>3, <2>4 DEF Replayed
  <2> QED BY <1>2, <2>5
<1>4. ASSUME NEW n \in Nat, n \in T PROVE n + 1 \in T
  <2>1. SUFFICES ASSUME n + 1 <= head PROVE Replayed(c, sent, f[n + 1], n + 1)
    OBVIOUS
  <2>2. Replayed(c, sent, f[n], n)
    BY <1>1, <1>4, <2>1
  <2>3. f[n + 1] = Copied(c, sent, f[n], n + 1)
    <3>1. PICK p \in 1 .. head : p = n + 1 /\ p - 1 = n
      BY <1>1, <2>1
    <3> QED BY <1>2, <3>1
  <2>4. Replayed(c, sent, Copied(c, sent, f[n], n + 1), n + 1)
    BY <2>2, ReplayStep
  <2> QED BY <2>3, <2>4
<1>5. Nat \subseteq T
  <2> HIDE DEF T
  <2> QED BY <1>3, <1>4, NatInduct
<1>6. head <= head
  BY <1>1
<1> QED BY <1>1, <1>2, <1>5, <1>6

-----------------------------------------------------------------------------
(* A copy that has all messages up to the last of them.                     *)
LEMMA ReplayEnds ==
  ASSUME LogInv, RootedInv, NEW c, NEW pos \in Nat, view[c].coff \in Nat, view[c].cpos \in Nat,
         Whole(mirror[c]), InPlace(view[c], mirror[c]), Sending(c, pos) # {}
  PROVE  LET sent == Sending(c, pos)
             k == Replay(c, sent)
             r == Latest(sent)
         IN  /\ Whole(k) /\ Plain(k) /\ r \in log /\ view[c].cpos <= r.at /\ r.at < pos
             /\ k.off = IF OffAfter(r) > view[c].coff THEN OffAfter(r) ELSE view[c].coff
             /\ \A q \in log : q.kind = "marker" /\ k.mark <= q.at => EndOf(r) <= q.at /\ q \notin sent
             /\ \A q \in log : q.kind = "bytes" /\ q \in sent => OffAfter(q) <= k.off
<1> DEFINE sent == Sending(c, pos)
<1>1. PICK k : k = Replay(c, sent)
  OBVIOUS
<1>2. PICK r : r = Latest(sent)
  OBVIOUS
<1>3. Replayed(c, sent, k, head)
  BY <1>1, ReplayWhole
<1>4. \A q \in sent : q \in log
  BY SendingIs
<1>5. r \in sent /\ \A q \in sent : q.at <= r.at
  <2>1. sent \in SUBSET log
    BY <1>4
  <2> QED BY <1>2, <2>1, LatestIs
<1>6. r \in log /\ view[c].cpos <= r.at /\ r.at < pos
  BY <1>5, SendingIs
<1>7. OffAfter(r) \in Nat /\ EndOf(r) <= head /\ r.at \in Nat /\ EndOf(r) \in Nat
  BY <1>6, Tiles
<1>8. k.off = IF OffAfter(r) > view[c].coff THEN OffAfter(r) ELSE view[c].coff
  <2>1. k.off \in Nat /\ view[c].coff <= k.off /\ OffAfter(r) <= k.off
    BY <1>3, <1>5, <1>7 DEF Replayed
  <2>2. CASE k.off = view[c].coff
    BY <1>7, <2>1, <2>2
  <2>3. CASE \E q \in sent : EndOf(q) <= head /\ OffAfter(q) = k.off
    <3>1. PICK q \in sent : OffAfter(q) = k.off
      BY <2>3
    <3>2. OffAfter(q) <= OffAfter(r)
      <4>1. q \in log /\ q.at <= r.at
        BY <1>4, <1>5
      <4>2. r.off <= OffAfter(r) /\ r.off \in Nat /\ OffAfter(q) \in Nat /\ q.at \in Nat
        BY <1>6, <4>1, Tiles
      <4>3. q.at = r.at \/ q.at < r.at
        BY <1>7, <4>1, <4>2
      <4>4. CASE q.at = r.at
        <5>1. q = r
          BY <1>6, <4>1, <4>4, Tiles
        <5> QED BY <4>2, <5>1
      <4>5. CASE q.at < r.at
        <5>1. OffAfter(q) <= r.off
          BY <1>6, <4>1, <4>5, Tiles
        <5> QED BY <1>7, <4>2, <5>1
      <4> QED BY <4>3, <4>4, <4>5
    <3> QED BY <1>7, <2>1, <3>1, <3>2
  <2> QED BY <1>3, <2>2, <2>3 DEF Replayed
<1>9. ASSUME NEW q \in log, q.kind = "marker", k.mark <= q.at PROVE EndOf(r) <= q.at /\ q \notin sent
  <2>1. view[c].cpos <= q.at /\ (q \in sent => head < EndOf(q))
    BY <1>3, <1>9 DEF Replayed
  <2>2. EndOf(q) \in Nat /\ EndOf(q) <= head /\ head \in Nat /\ q.at \in Nat
    BY Tiles DEF LogInv
  <2>3. q \notin sent
    BY <2>1, <2>2
  <2>4. ~(q.at < pos)
    BY <1>9, <2>1, <2>3, SendingIs
  <2>5. r.at < q.at
    BY <1>6, <1>7, <2>2, <2>4
  <2> QED BY <1>6, <2>3, <2>5, Tiles
<1>10. ASSUME NEW q \in log, q \in sent PROVE OffAfter(q) <= k.off
  BY <1>3, <1>10, Tiles DEF Replayed
<1>11. Whole(k) /\ Plain(k)
  BY <1>3 DEF Replayed
<1> HIDE DEF sent
<1> QED BY <1>1, <1>2, <1>6, <1>8, <1>9, <1>10, <1>11 DEF sent

(* A batch that stops leaves the cursor behind the last message it sent.    *)
LEMMA HeldPlace ==
  ASSUME LogInv, RootedInv, NEW c, NEW pos \in Nat, view[c] \in ViewSet,
         Fit(view[c], mirror[c]), InPlace(view[c], mirror[c])
  PROVE  LET v == HeldView(BaseView(c, Sending(c, pos)))
             m == BaseMirror(c, Sending(c, pos)) IN
         Whole(m) /\ InPlace(v, m) /\ v.cpos <= head
<1> DEFINE sent == Sending(c, pos)
<1>1. view[c].coff \in Nat /\ view[c].cpos \in Nat /\ Whole(mirror[c]) /\ view[c].cpos <= head
  BY DEF ViewSet, Fit
<1>2. CASE sent = {}
  <2>1. PICK v : v = HeldView(view[c])
    OBVIOUS
  <2>2. v.cpos = view[c].cpos /\ v.coff = view[c].coff
    BY <2>1 DEF HeldView, ViewSet
  <2>3. InPlace(v, mirror[c])
    BY <2>2 DEF InPlace
  <2>4. BaseView(c, sent) = view[c] /\ BaseMirror(c, sent) = mirror[c]
    BY <1>2 DEF BaseView, BaseMirror
  <2> QED BY <1>1, <2>1, <2>2, <2>3, <2>4
<1>3. CASE sent # {}
  <2>1. PICK k : k = Replay(c, sent)
    OBVIOUS
  <2>2. PICK r : r = Latest(sent)
    OBVIOUS
  <2>3. /\ Whole(k) /\ Plain(k) /\ r \in log /\ view[c].cpos <= r.at /\ r.at < pos
        /\ k.off = IF OffAfter(r) > view[c].coff THEN OffAfter(r) ELSE view[c].coff
        /\ \A q \in log : q.kind = "marker" /\ k.mark <= q.at => EndOf(r) <= q.at /\ q \notin sent
        /\ \A q \in log : q.kind = "bytes" /\ q \in sent => OffAfter(q) <= k.off
    BY <1>1, <1>3, <2>1, <2>2, ReplayEnds
  <2>4. PICK v : v = HeldView(MovedView(c, r))
    OBVIOUS
  <2>5. /\ v.cpos = EndOf(r)
        /\ v.coff = IF OffAfter(r) > view[c].coff THEN OffAfter(r) ELSE view[c].coff
    BY <2>4 DEF HeldView, MovedView, ViewSet
  <2>6. r.at \in Nat /\ EndOf(r) \in Nat /\ OffAfter(r) \in Nat /\ r.at < EndOf(r) /\ EndOf(r) <= head
        /\ r.off <= OffAfter(r) /\ r.off \in Nat
    BY <2>3, Tiles
  <2>7. v.coff \in Nat /\ OffAfter(r) <= v.coff /\ view[c].coff <= v.coff
    BY <1>1, <2>5, <2>6
  <2>8. ASSUME NEW q \in log, q.at < v.cpos PROVE OffAfter(q) <= v.coff
    <3>1. q.at \in Nat /\ OffAfter(q) \in Nat
      BY Tiles
    <3>2. ~(r.at < q.at)
      BY <2>3, <2>5, <2>6, <2>8, <3>1, Tiles
    <3>3. q.at = r.at \/ q.at < r.at
      BY <2>6, <3>1, <3>2
    <3>4. CASE q.at = r.at
      <4>1. q = r
        BY <2>3, <3>4, Tiles
      <4> QED BY <2>7, <4>1
    <3>5. CASE q.at < r.at
      <4>1. OffAfter(q) <= r.off
        BY <2>3, <3>5, Tiles
      <4> QED BY <2>6, <2>7, <3>1, <4>1
    <3> QED BY <3>3, <3>4, <3>5
  <2>9. ASSUME NEW q \in log, q.kind = "marker", v.cpos <= q.at PROVE v.coff <= q.off
    <3>1. q.at \in Nat /\ q.off \in Nat
      BY Tiles
    <3>2. r.at < q.at /\ view[c].cpos <= q.at
      BY <1>1, <2>3, <2>5, <2>6, <2>9, <3>1
    <3>3. OffAfter(r) <= q.off
      BY <2>3, <3>2, Tiles
    <3>4. view[c].coff <= q.off
      BY <2>9, <3>2 DEF InPlace
    <3> QED BY <2>5, <3>3, <3>4
  <2>10. InPlace(v, k)
    BY <2>3, <2>5, <2>8, <2>9 DEF InPlace
  <2>11. BaseView(c, sent) = MovedView(c, r) /\ BaseMirror(c, sent) = k
    BY <1>3, <2>1, <2>2 DEF BaseView, BaseMirror
  <2> QED BY <2>3, <2>4, <2>5, <2>6, <2>10, <2>11
<1> QED BY <1>2, <1>3

(* All messages leave it at the head.                                       *)
LEMMA HeadPlace ==
  ASSUME LogInv, RootedInv, NEW c, view[c] \in ViewSet,
         Fit(view[c], mirror[c]), InPlace(view[c], mirror[c])
  PROVE  LET v == HeadView(BaseView(c, Sending(c, head)))
             m == BaseMirror(c, Sending(c, head)) IN
         Whole(m) /\ InPlace(v, m) /\ v.cpos <= head
<1> DEFINE sent == Sending(c, head)
<1>1. view[c].coff \in Nat /\ view[c].cpos \in Nat /\ Whole(mirror[c]) /\ head \in Nat /\ head <= head
  BY DEF ViewSet, Fit, LogInv
<1>2. \A q \in log : q.at \in Nat /\ EndOf(q) <= head /\ q.at < head /\ OffAfter(q) \in Nat
  BY RecordIs
<1>3. PICK v : v = HeadView(BaseView(c, sent))
  OBVIOUS
<1>4. PICK m : m = BaseMirror(c, sent)
  OBVIOUS
<1>5. v.cpos = head /\ v.coff = BaseView(c, sent).coff
  BY <1>3 DEF HeadView, BaseView, MovedView, ViewSet
<1>6. ASSUME NEW q \in log, q.kind = "bytes", ~(q.at < view[c].cpos), OffAfter(q) > view[c].coff
      PROVE  q \in sent
  BY <1>1, <1>2, <1>6, SendingIs
<1>7. ASSUME NEW q \in log, q.kind = "marker", view[c].cpos <= q.at PROVE q \in sent
  BY <1>2, <1>7, SendingIs
<1>8. ASSUME NEW q \in log, q.kind = "bytes", q.at < view[c].cpos PROVE OffAfter(q) <= view[c].coff
  BY <1>8 DEF InPlace
<1>9. CASE sent = {}
  <2>1. v.coff = view[c].coff /\ m = mirror[c]
    BY <1>4, <1>5, <1>9 DEF BaseView, BaseMirror
  <2>2. ASSUME NEW q \in log, q.kind = "bytes" PROVE OffAfter(q) <= v.coff
    BY <1>1, <1>2, <1>6, <1>8, <1>9, <2>1, <2>2
  <2>3. ASSUME NEW q \in log, q.kind = "marker", m.mark <= q.at PROVE FALSE
    <3>1. view[c].cpos <= q.at
      BY <2>1, <2>3 DEF InPlace
    <3> QED BY <1>7, <1>9, <2>3, <3>1
  <2>4. m.off = v.coff /\ Plain(m) /\ Whole(m)
    BY <1>1, <2>1 DEF InPlace
  <2>5. InPlace(v, m)
    BY <1>1, <1>2, <1>5, <2>2, <2>3, <2>4 DEF InPlace
  <2> QED BY <1>1, <1>3, <1>4, <1>5, <2>4, <2>5
<1>10. CASE sent # {}
  <2>1. PICK r : r = Latest(sent)
    OBVIOUS
  <2>2. m = Replay(c, sent) /\ BaseView(c, sent) = MovedView(c, r)
    BY <1>4, <1>10, <2>1 DEF BaseMirror, BaseView
  <2>3. /\ Whole(m) /\ Plain(m) /\ r \in log
        /\ m.off = IF OffAfter(r) > view[c].coff THEN OffAfter(r) ELSE view[c].coff
        /\ view[c].cpos <= r.at
        /\ \A q \in log : q.kind = "marker" /\ m.mark <= q.at => EndOf(r) <= q.at /\ q \notin sent
        /\ \A q \in log : q.kind = "bytes" /\ q \in sent => OffAfter(q) <= m.off
    BY <1>1, <1>10, <2>1, <2>2, ReplayEnds
  <2>4. v.coff = m.off /\ view[c].coff <= m.off /\ m.off \in Nat
    <3>1. OffAfter(r) \in Nat
      BY <1>2, <2>3
    <3>2. v.coff = m.off
      BY <1>5, <2>2, <2>3 DEF MovedView, ViewSet
    <3> QED BY <1>1, <2>3, <3>1, <3>2
  <2>5. ASSUME NEW q \in log, q.kind = "bytes" PROVE OffAfter(q) <= v.coff
    <3>1. CASE q \in sent
      BY <2>3, <2>4, <2>5, <3>1
    <3>2. CASE q \notin sent
      <4>1. OffAfter(q) <= view[c].coff
        BY <1>1, <1>2, <1>6, <1>8, <2>5, <3>2
      <4> QED BY <1>1, <1>2, <2>4, <4>1
    <3> QED BY <3>1, <3>2
  <2>6. ASSUME NEW q \in log, q.kind = "marker", m.mark <= q.at PROVE FALSE
    <3>1. EndOf(r) <= q.at /\ q \notin sent
      BY <2>3, <2>6
    <3>2. r.at \in Nat /\ EndOf(r) \in Nat /\ r.at < EndOf(r)
      BY <2>3, Tiles
    <3>3. view[c].cpos <= q.at
      BY <1>1, <1>2, <2>3, <3>1, <3>2
    <3> QED BY <1>7, <2>6, <3>1, <3>3
  <2>7. InPlace(v, m)
    BY <1>1, <1>2, <1>5, <2>3, <2>4, <2>5, <2>6 DEF InPlace
  <2> QED BY <1>1, <1>3, <1>4, <1>5, <2>3, <2>7
<1> QED BY <1>9, <1>10

-----------------------------------------------------------------------------
(* Which view and copy fit each other after a step.                         *)

(* A step that publishes nothing.                                           *)
LEMMA SameFit ==
  ASSUME log' = log, head' = head, NEW v, NEW m, Fit(v, m)
  PROVE  Fit(v, m)'
BY DEF Fit, InPlace

(* A record that is published lies at the head, behind every cursor.        *)
LEMMA GrowFit ==
  ASSUME LogInv, NEW kind \in Kind, NEW len \in Nat, Publish(kind, len),
         NEW v \in ViewSet, v.coff <= End, NEW m, Fit(v, m)
  PROVE  Fit(v, m)'
<1>1. PICK n : n = NewRecord(kind, len)
  OBVIOUS
<1>2. /\ log' = log \cup {n} /\ head' \in Nat /\ head < head' /\ head \in Nat
      /\ n.off = End /\ n.at = head
  BY <1>1, PublishAdds DEF LogInv, NewRecord
<1>3. v.cpos \in Nat /\ v.cpos <= head /\ v.cpos <= head'
  BY <1>2 DEF ViewSet, Fit
<1>4. ASSUME InPlace(v, m) PROVE InPlace(v, m)'
  <2>1. \A q \in log' : q.kind = "marker" /\ m.mark <= q.at => v.cpos <= q.at
    BY <1>2, <1>3, <1>4 DEF InPlace
  <2>2. \A q \in log' : q.kind = "bytes" /\ q.at < v.cpos => q \in log
    BY <1>2, <1>3
  <2>3. \A q \in log' : q.kind = "marker" /\ v.cpos <= q.at => v.coff <= q.off
    BY <1>2, <1>4 DEF InPlace
  <2>4. \A q \in log' : q.kind = "bytes" /\ q.at < v.cpos => OffAfter(q) <= v.coff
    BY <1>4, <2>2 DEF InPlace
  <2> QED BY <1>4, <2>1, <2>3, <2>4 DEF InPlace
<1> QED BY <1>3, <1>4 DEF Fit

(* A view that closes.                                                      *)
LEMMA ClosedFit ==
  ASSUME NEW v \in ViewSet, NEW m, Whole(m), v.cpos <= head, NEW why
  PROVE  Fit(ClosedView(v), Ended(m, why))
<1>1. PICK u, k : u = ClosedView(v) /\ k = Ended(m, why)
  OBVIOUS
<1>2. u.stage = "closed" /\ u.cpos = v.cpos
  BY <1>1 DEF ClosedView, ViewSet
<1>3. Whole(k)
  BY <1>1, EndedWhole
<1>4. Fit(u, k)
  BY <1>2, <1>3 DEF Fit
<1> QED BY <1>1, <1>4

(* One view and its copy are replaced.                                      *)
LEMMA SetFit ==
  ASSUME ViewTypes, MirrorMap, AllFit, log' = log, head' = head,
         NEW c \in Clients, NEW v, NEW w, NEW m, Set(c, State(v, w, m)), Fit(v, m)
  PROVE  AllFit'
<1>1. /\ view'[c] = v /\ mirror'[c] = m
      /\ \A d \in Clients : d # c => view'[d] = view[d] /\ mirror'[d] = mirror[d]
  BY SetIs
<1>2. SUFFICES ASSUME NEW d \in Clients PROVE Fit(view[d], mirror[d])'
  BY DEF AllFit
<1>3. PICK u, k : u = view'[d] /\ k = mirror'[d]
  OBVIOUS
<1>4. Fit(u, k)
  BY <1>1, <1>3 DEF AllFit
<1>5. Fit(u, k)'
  BY <1>4, SameFit
<1> QED BY <1>3, <1>5

(* None is.                                                                 *)
LEMMA KeepFit ==
  ASSUME AllFit, UNCHANGED <<log, head, view, mirror>>
  PROVE  AllFit'
<1>1. SUFFICES ASSUME NEW d \in Clients PROVE Fit(view[d], mirror[d])'
  BY DEF AllFit
<1>2. PICK u, k : u = view[d] /\ k = mirror[d]
  OBVIOUS
<1>3. Fit(u, k)'
  BY <1>2, SameFit DEF AllFit
<1> QED BY <1>2, <1>3

(* A client asks.                                                           *)
LEMMA AskFit ==
  ASSUME LogInv, Types, AllFit, NEW c \in Clients, NEW history \in Asked,
         NEW v \in ViewSet, NEW w, NEW m, Ask(c, history, State(v, w, m)),
         Whole(m), v.cpos <= head
  PROVE  AllFit'
<1>0. ViewTypes /\ MirrorMap /\ DeliveryTypes
  BY DEF Types
<1>1. log' = log /\ head' = head
  BY AskCases, SameLog
<1>2. CASE Set(c, State(AskedView(v, history), w, m))
  <2>1. PICK u : u = AskedView(v, history)
    OBVIOUS
  <2>2. u.stage = "snapshotting" /\ u.got = 0 /\ u.cpos = v.cpos
    BY <2>1 DEF AskedView, ViewSet
  <2>3. Fit(u, m)
    BY <2>2 DEF Fit
  <2>4. Set(c, State(u, w, m))
    BY <1>2, <2>1
  <2> QED BY <1>0, <1>1, <2>3, <2>4, SetFit
<1>3. CASE Set(c, ClosedState(v, m, "rejected"))
  <2>1. PICK u, no, k, why : u = ClosedView(v) /\ no = FALSE /\ k = Ended(m, why) /\ why = "rejected"
    OBVIOUS
  <2>2. Set(c, State(u, no, k))
    BY <1>3, <2>1 DEF ClosedState
  <2>3. Fit(u, k)
    BY <2>1, ClosedFit
  <2> QED BY <1>0, <1>1, <2>2, <2>3, SetFit
<1>4. \/ Set(c, State(AskedView(v, history), w, m))
      \/ Set(c, ClosedState(v, m, "rejected"))
  BY AskCases, Zenon
<1> QED BY <1>2, <1>3, <1>4

(* A function that does not resume, and a client that nobody touched.       *)
LEMMA RestWants ==
  /\ pc' = Rest => WantsNothing'
  /\ pc'.at # "resume" => WantsNothing'
  /\ \A c : Decide(c) \/ Drained(c) => WantsNothing'
  /\ \A then : Deliver(then) => WantsNothing'
  /\ WantsNothing /\ UNCHANGED <<pc, view>> => WantsNothing'
<1>1. pc' = Rest => WantsNothing'
  BY DEF WantsNothing, Rest
<1>2. pc'.at # "resume" => WantsNothing'
  BY DEF WantsNothing
<1>3. \A c : Decide(c) => pc'.at # "resume"
  BY DEF Decide, Rest
<1>4. \A c : Drained(c) => pc'.at # "resume"
  BY DEF Drained, Rest
<1>5. \A then : Deliver(then) => pc'.at # "resume"
  BY DEF Deliver, Rest
<1>6. WantsNothing /\ UNCHANGED <<pc, view>> => WantsNothing'
  BY DEF WantsNothing
<1> QED BY <1>1, <1>2, <1>3, <1>4, <1>5, <1>6

(* A view that may resume stands at the tail or behind it.                  *)
LEMMA PlaceFit ==
  ASSUME LogInv, NEW c, view[c] \in ViewSet, ~Behind(view[c].cpos),
         Fit(view[c], mirror[c]), InPlace(view[c], mirror[c])
  PROVE  Fit(PlaceView(c), mirror[c]) /\ PlaceView(c).wanted = view[c].wanted
<1>1. PICK v : v = PlaceView(c)
  OBVIOUS
<1>2. /\ v.stage = view[c].stage /\ v.wanted = view[c].wanted /\ v.coff = view[c].coff
      /\ v.got = view[c].got /\ v.serial = view[c].serial
      /\ v.cpos = IF view[c].cpos < tail THEN tail ELSE view[c].cpos
  BY <1>1 DEF PlaceView, ViewSet
<1>3. tail \in Nat /\ head \in Nat /\ tail <= head /\ view[c].cpos \in Nat /\ view[c].cpos <= head
  BY DEF LogInv, ViewSet, Fit
<1>4. ASSUME NEW q \in log, q.kind \in {"bytes", "marker"}
      PROVE  q.at \in Nat /\ (q.at < v.cpos => q.at < view[c].cpos)
  <2>1. q.at \in Nat
    BY RecordIs
  <2>2. ~(view[c].cpos <= q.at /\ q.at < tail)
    BY <1>4 DEF Behind, DataKind
  <2> QED BY <1>2, <1>3, <2>1, <2>2
<1>5. \A q \in log : q.kind = "marker" /\ mirror[c].mark <= q.at => v.cpos <= q.at
  <2> SUFFICES ASSUME NEW q \in log, q.kind = "marker", mirror[c].mark <= q.at PROVE v.cpos <= q.at
    OBVIOUS
  <2>1. view[c].cpos <= q.at
    BY DEF InPlace
  <2> QED BY <1>2, <1>3, <1>4, <2>1
<1>6. \A q \in log : q.kind = "bytes" /\ q.at < v.cpos => OffAfter(q) <= v.coff
  BY <1>2, <1>4 DEF InPlace
<1>7. \A q \in log : q.kind = "marker" /\ v.cpos <= q.at => v.coff <= q.off
  <2> SUFFICES ASSUME NEW q \in log, q.kind = "marker", v.cpos <= q.at PROVE v.coff <= q.off
    OBVIOUS
  <2>1. view[c].cpos <= q.at
    BY <1>2, <1>3, <1>4
  <2> QED BY <1>2, <2>1 DEF InPlace
<1>8. InPlace(v, mirror[c])
  BY <1>2, <1>5, <1>6, <1>7 DEF InPlace
<1>9. Fit(v, mirror[c])
  BY <1>2, <1>3, <1>8 DEF Fit
<1> QED BY <1>1, <1>2, <1>9

-----------------------------------------------------------------------------
(* The records from an offset that the ring still has.                      *)
LEMMA ResumedPlace ==
  ASSUME LogInv, NEW off \in Oldest .. End, NEW v, NEW m,
         v.coff = off, v.cpos = ResumeAt(off), m.off = off, m.mark = ResumeAt(off), Plain(m)
  PROVE  InPlace(v, m) /\ v.cpos <= head /\ off \in Nat
<1>0. tail \in Starts /\ tail \in Nat /\ head \in Nat /\ tail <= head /\ End \in Nat
  BY DEF LogInv
<1>1. /\ Oldest \in Nat /\ off \in Nat
      /\ \A q \in log : q.at < tail => OffAfter(q) <= Oldest
  <2>1. CASE tail < head
    <3>1. PICK r \in log : r.at = tail
      BY <1>0, <2>1 DEF Starts
    <3>2. (CHOOSE q \in log : q.at = tail) = r
      BY <3>1, Tiles
    <3>3. Oldest = r.off
      BY <2>1, <3>2 DEF Oldest
    <3>4. r.off \in Nat
      BY <3>1, Tiles
    <3>5. \A q \in log : q.at < tail => OffAfter(q) <= r.off
      BY <3>1, Tiles
    <3> QED BY <1>0, <3>3, <3>4, <3>5
  <2>2. CASE ~(tail < head)
    <3>1. Oldest = End
      BY <2>2 DEF Oldest
    <3> QED BY <1>0, <3>1, RecordIs
  <2> QED BY <2>1, <2>2
<1> DEFINE Old(r)  == IF r.kind = "bytes" THEN OffAfter(r) <= off ELSE r.off < off
           later == {r \in Between(tail, head) : ~Old(r)}
<1>2. ResumeAt(off) = IF later = {} THEN head ELSE Earliest(later).at
  BY DEF ResumeAt
<1>3. later \in SUBSET log
  BY DEF Between
<1>4. \A q \in log : /\ q.at \in Nat /\ q.at < head /\ OffAfter(q) \in Nat /\ q.off \in Nat
                     /\ q.off <= OffAfter(q)
  BY RecordIs
<1>5. ASSUME NEW q \in log, q.at < ResumeAt(off) PROVE q.at < tail \/ Old(q)
  <2>1. CASE q \in later
    <3>1. Earliest(later) \in later /\ Earliest(later).at <= q.at
      BY <1>3, <2>1, EarliestIs
    <3>2. Earliest(later).at \in Nat
      BY <1>3, <1>4, <3>1
    <3> QED BY <1>2, <1>4, <1>5, <2>1, <3>1, <3>2
  <2>2. CASE q \notin later
    <3>1. q.at < head /\ q.at \in Nat
      BY <1>4
    <3> QED BY <1>0, <2>2, <3>1 DEF Between
  <2> QED BY <2>1, <2>2
<1>6. ASSUME NEW q \in log, q.kind = "marker", ResumeAt(off) <= q.at PROVE off <= q.off
  <2>1. q.at < head /\ q.at \in Nat /\ q.off \in Nat
    BY <1>4
  <2>2. later # {}
    BY <1>0, <1>2, <1>6, <2>1
  <2>3. PICK e \in later : e.at = ResumeAt(off)
    BY <1>2, <1>3, <2>2, EarliestIs
  <2>4. e \in log /\ ~Old(e)
    BY <1>3, <2>3
  <2>5. off <= OffAfter(e) /\ (e.kind # "bytes" => off <= e.off)
    BY <1>1, <1>4, <2>4
  <2>6. e.at = q.at \/ e.at < q.at
    BY <1>4, <1>6, <2>1, <2>3, <2>4
  <2>7. CASE e.at = q.at
    <3>1. e = q
      BY <2>4, <2>7, Tiles
    <3> QED BY <1>6, <2>5, <3>1
  <2>8. CASE e.at < q.at
    <3>1. OffAfter(e) <= q.off
      BY <2>4, <2>8, Tiles
    <3> QED BY <1>1, <1>4, <2>1, <2>4, <2>5, <3>1
  <2> QED BY <2>6, <2>7, <2>8
<1>7. ResumeAt(off) <= head
  <2>1. CASE later = {}
    BY <1>0, <1>2, <2>1
  <2>2. CASE later # {}
    <3>1. Earliest(later) \in log
      BY <1>3, <2>2, EarliestIs
    <3> QED BY <1>0, <1>2, <1>4, <2>2, <3>1
  <2> QED BY <2>1, <2>2
<1>8. ASSUME NEW q \in log, q.kind = "bytes", q.at < ResumeAt(off) PROVE OffAfter(q) <= off
  <2>1. CASE q.at < tail
    <3>1. OffAfter(q) <= Oldest
      BY <1>1, <2>1
    <3> QED BY <1>0, <1>1, <1>4, <3>1
  <2>2. CASE Old(q)
    BY <1>8, <2>2
  <2> QED BY <1>5, <1>8, <2>1, <2>2
<1> HIDE DEF later, Old
<1>9. InPlace(v, m)
  BY <1>6, <1>8 DEF InPlace
<1> QED BY <1>1, <1>7, <1>9

(* open().                                                                  *)
LEMMA OpenFit ==
  ASSUME LogInv, Types, AllFit, NEW c \in Clients, Open(c)
  PROVE  AllFit' /\ WantsNothing'
<1>1. pc.at # "resume" /\ OpensAs(c) /\ view[c].stage = "new"
  <2>1. pc = Rest
    BY OpenCases DEF Idle, AtRest
  <2> QED BY <2>1, OpenCases DEF Rest
<1>2. /\ ViewTypes /\ MirrorMap /\ view[c] \in ViewSet /\ Whole(mirror[c]) /\ Plain(mirror[c])
      /\ tail <= head
  BY <1>1 DEF Types, ViewTypes, AllFit, Fit, LogInv
<1>3. PICK history \in Histories :
        \/ Asks(c, history, FreshState(c, history)) /\ UNCHANGED pc
        \/ \E off \in Oldest .. End :
             Set(c, ResumedState(c, history, off)) /\ Decide(c) /\ Quiet
  BY <1>1 DEF OpensAs
<1>4. history \in Asked
  BY ViewsAssumption DEF Asked
<1>5. CASE Asks(c, history, FreshState(c, history)) /\ UNCHANGED pc
  <2>1. Ask(c, history, State(FreshView(c, history), waiting[c], mirror[c]))
    BY <1>5, FreshStateIs DEF Asks
  <2>2. PICK v \in ViewSet : v = FreshView(c, history) /\ v.cpos = tail
    <3>1. FreshView(c, history) \in ViewSet
      BY <1>4, StateViews
    <3>2. FreshView(c, history).cpos = tail
      BY <1>2 DEF FreshView, ViewSet
    <3> QED BY <3>1, <3>2
  <2>3. AllFit'
    BY <1>2, <1>4, <2>1, <2>2, AskFit
  <2> QED BY <1>1, <1>5, <2>3, RestWants
<1>6. ASSUME NEW off \in Oldest .. End, Set(c, ResumedState(c, history, off)), Decide(c), Quiet
      PROVE  AllFit' /\ WantsNothing'
  <2>1. PICK missed \in BOOLEAN :
           ResumedState(c, history, off)
             = State(ResumedView(c, history, off), waiting[c], ResumedMirror(c, off, missed))
    BY ResumedStateIs
  <2>2. PICK v, m : v = ResumedView(c, history, off) /\ m = ResumedMirror(c, off, missed)
    OBVIOUS
  <2>3. Set(c, State(v, waiting[c], m)) /\ log' = log /\ head' = head
    BY <1>6, <2>1, <2>2, SameLog DEF Quiet
  <2>4. v.stage = "live" /\ v.coff = off /\ v.cpos = ResumeAt(off)
    BY <1>2, <2>2 DEF ResumedView, ViewSet
  <2>5. Whole(m)
    BY <1>2, <2>2 DEF Whole, ResumedMirror
  <2>6. Plain(m) /\ m.off = off /\ m.mark = ResumeAt(off)
    BY <1>2, <2>2 DEF Whole, Plain, ResumedMirror
  <2>7. InPlace(v, m) /\ v.cpos <= head
    BY <2>4, <2>6, ResumedPlace
  <2>8. Fit(v, m)
    BY <2>4, <2>5, <2>7 DEF Fit
  <2>9. AllFit'
    BY <1>2, <2>3, <2>8, SetFit
  <2> QED BY <1>6, <2>9, RestWants
<1> QED BY <1>3, <1>5, <1>6

(* decide().                                                                *)
LEMMA DecidesFit ==
  ASSUME LogInv, Types, AllFit, Decides
  PROVE  AllFit' /\ WantsNothing'
<1>1. PICK c \in Clients : c = pc.client
  BY DecidesCases DEF Types, PcTypes
<1>2. /\ view[c] \in ViewSet /\ ViewTypes /\ MirrorMap
      /\ view[c].history \in Asked /\ view[c].wanted \in Asked
      /\ Fit(view[c], mirror[c]) /\ Whole(mirror[c]) /\ view[c].cpos <= head
  BY DEF Types, ViewTypes, ViewSet, AllFit, Fit
<1>3. DecidesAs(c)
  BY <1>1, DecidesCases
<1>4. SkipView(c) \in ViewSet /\ ClearView(c) \in ViewSet /\ PlaceView(c) \in ViewSet
  BY StateViews
<1>5. Pumpable(c) /\ view[c].wanted = "-" => InPlace(view[c], mirror[c])
  BY <1>2 DEF Pumpable, Live, Fit
<1>6. CASE Quiet /\ UNCHANGED conns /\ pc' = Rest
  <2>1. UNCHANGED <<log, head, view, mirror>>
    BY <1>6 DEF conns, Quiet, ring
  <2> QED BY <1>6, <2>1, KeepFit, RestWants
<1>7. CASE Asks(c, view[c].wanted, At(c)) /\ pc' = Rest
  <2>1. Ask(c, view[c].wanted, State(view[c], waiting[c], mirror[c]))
    BY <1>7, AtIs DEF Asks
  <2>2. AllFit'
    BY <1>2, <2>1, AskFit
  <2> QED BY <1>7, <2>2, RestWants
<1>8. ASSUME NEW s \in Sent(SkipState(c)), pc' = Rest, Pumpable(c), view[c].wanted = "-",
             (s.waiting /\ Set(c, s) /\ Quiet) \/ (~s.waiting /\ Asks(c, "screen", s))
      PROVE  AllFit' /\ WantsNothing'
  <2>1. PICK m : m = Skipped(mirror[c], view[c].coff)
    OBVIOUS
  <2>2. PICK late \in Late(waiting[c]) : s = State(SkipView(c), late, m)
    <3>1. s \in Sent(State(SkipView(c), waiting[c], m))
      BY <1>8, <2>1, SkipStateIs
    <3> QED BY <3>1, SentIs
  <2>3. Whole(m)
    <3>1. mirror[c].off = view[c].coff
      BY <1>5, <1>8 DEF InPlace
    <3> QED BY <1>2, <2>1, <3>1, SkippedWhole
  <2>4. PICK v \in ViewSet : v = SkipView(c)
    BY <1>4
  <2>5. v.stage = "live" /\ v.wanted = "screen" /\ v.cpos <= head
    BY <1>2, <1>8, <2>4 DEF SkipView, ViewSet, Pumpable, Live
  <2>6. WantsNothing'
    BY <1>8, RestWants
  <2>7. CASE Set(c, s) /\ Quiet
    <3>1. Set(c, State(v, late, m)) /\ log' = log /\ head' = head
      BY <2>2, <2>4, <2>7, SameLog DEF Quiet
    <3>2. Fit(v, m)
      BY <2>3, <2>5 DEF Fit
    <3> QED BY <1>2, <2>6, <3>1, <3>2, SetFit
  <2>8. CASE Asks(c, "screen", s)
    <3>1. PICK history \in Asked : history = "screen"
      BY DEF Asked
    <3>2. Ask(c, history, State(v, late, m))
      BY <2>2, <2>4, <2>8, <3>1 DEF Asks
    <3> QED BY <2>3, <2>5, <2>6, <3>2, AskFit
  <2> QED BY <1>8, <2>7, <2>8, Zenon
<1>9. ASSUME NEW history \in {view[c].history, "screen"}, Asks(c, history, ClearState(c)), pc' = Rest
      PROVE  AllFit' /\ WantsNothing'
  <2>1. Ask(c, history, State(ClearView(c), waiting[c], mirror[c])) /\ history \in Asked
    <3>1. "screen" \in Asked
      BY DEF Asked
    <3> QED BY <1>2, <1>9, <3>1, ClearStateIs DEF Asks
  <2>2. ClearView(c).cpos <= head
    BY <1>2 DEF ClearView, ViewSet
  <2>3. AllFit'
    BY <1>2, <1>4, <2>1, <2>2, AskFit
  <2> QED BY <1>9, <2>3, RestWants
<1>10. CASE /\ Pumpable(c) /\ view[c].wanted = "-" /\ pc' = [pc EXCEPT !.at = "resume"]
            /\ ~Behind(view[c].cpos) /\ Set(c, PlaceState(c)) /\ Quiet
  <2>1. PICK v \in ViewSet : v = PlaceView(c)
    BY <1>4
  <2>2. Set(c, State(v, waiting[c], mirror[c])) /\ log' = log /\ head' = head
    BY <1>2, <1>10, <2>1, PlaceStateIs, SameLog DEF Quiet
  <2>3. Fit(v, mirror[c]) /\ v.wanted = "-"
    BY <1>2, <1>5, <1>10, <2>1, PlaceFit
  <2>4. WantsNothing'
    <3>1. view'[c] = v
      BY <1>2, <2>2, SetIs
    <3>2. pc'.client = c
      BY <1>1, <1>10 DEF Types, PcTypes, PcSet
    <3> QED BY <2>3, <3>1, <3>2 DEF WantsNothing
  <2>5. AllFit'
    BY <1>2, <2>2, <2>3, SetFit
  <2> QED BY <2>4, <2>5
<1> QED BY <1>3, <1>6, <1>7, <1>8, <1>9, <1>10, Zenon DEF DecidesAs

-----------------------------------------------------------------------------
(* A resync.                                                                *)
LEMMA ResyncFit ==
  ASSUME LogInv, Types, AllFit, NEW c \in Clients, NEW history \in Histories, Resync(c, history)
  PROVE  AllFit' /\ WantsNothing'
<1>1. /\ history \in Asked /\ history # "-" /\ ViewTypes /\ MirrorMap /\ Fit(view[c], mirror[c])
      /\ view[c] \in ViewSet /\ view[c].stage \in {"live", "snapshotting"}
  BY ViewsAssumption, ResyncCases DEF Asked, Types, ViewTypes, AllFit
<1>2. PICK v \in ViewSet : v = WantedView(c, history)
  BY <1>1, StateViews
<1>3. /\ v.stage = view[c].stage /\ v.wanted = history /\ v.cpos = view[c].cpos /\ v.coff = view[c].coff
      /\ v.got = view[c].got /\ v.serial = view[c].serial
  BY <1>1, <1>2 DEF WantedView, ViewSet
<1>4. WantedState(c, history) = State(v, waiting[c], mirror[c])
  BY <1>2, WantedStateIs
<1>5. WantsNothing'
  <2>1. pc = Rest /\ pc' = pc
    BY ResyncCases DEF Idle, AtRest
  <2> QED BY <2>1, RestWants
<1>6. Fit(v, mirror[c])
  BY <1>1, <1>3 DEF Fit, InPlace
<1>7. CASE Ask(c, history, WantedState(c, history))
  <2>1. Whole(mirror[c]) /\ v.cpos <= head
    BY <1>6 DEF Fit
  <2> QED BY <1>1, <1>4, <1>5, <1>7, <2>1, AskFit
<1>8. CASE Set(c, WantedState(c, history)) /\ UNCHANGED ring
  <2>1. log' = log /\ head' = head
    BY <1>8, SameLog
  <2> QED BY <1>1, <1>4, <1>5, <1>6, <1>8, <2>1, SetFit
<1> QED BY <1>7, <1>8, ResyncCases

(* A slice begins the snapshot, or ends it where it lies.                   *)
LEMMA SliceFit ==
  ASSUME LogInv, NEW v \in ViewSet, NEW m, Fit(v, m), v.stage = "snapshotting",
         NEW r \in log, r.kind = "slice", TagOf(r).req = v.serial,
         \/ v.got = 0 /\ TagOf(r).t = "first"
         \/ v.got = 1 /\ TagOf(r).t = "last",
         NEW late
  PROVE  Fit(SlicedView(v, r, late), AfterSlice(m, r))
<1>1. PICK u, k : u = SlicedView(v, r, late) /\ k = AfterSlice(m, r)
  OBVIOUS
<1>2. /\ u.stage = "snapshotting" /\ u.serial = v.serial /\ u.got = v.got + 1
      /\ u.cpos = EndOf(r) /\ u.coff = r.off
  BY <1>1 DEF SlicedView, ViewSet
<1>3. r.at \in Nat /\ EndOf(r) \in Nat /\ r.at < EndOf(r) /\ EndOf(r) <= head /\ OffAfter(r) = r.off
  BY Tiles
<1>4. CASE v.got = 0 /\ TagOf(r).t = "first"
  <2>1. Whole(k) /\ k.snap = u.serial
    BY <1>1, <1>2, <1>4, FirstWhole DEF Fit
  <2>2. u.got = 1
    BY <1>2, <1>4
  <2> QED BY <1>1, <1>2, <1>3, <2>1, <2>2 DEF Fit
<1>5. CASE v.got = 1 /\ TagOf(r).t = "last"
  <2>1. Whole(k) /\ Plain(k) /\ k.off = r.off /\ k.mark = r.at
    BY <1>1, <1>5, LastWhole DEF Fit
  <2>2. ASSUME NEW q \in log, q.kind \in {"bytes", "marker"}
        PROVE  q.at \in Nat /\ (q.at < r.at \/ (r.at < q.at /\ EndOf(r) <= q.at /\ r.off <= q.off))
    <3>1. q.at \in Nat /\ q.at # r.at
      BY <2>2, Tiles
    <3>2. r.at < q.at => EndOf(r) <= q.at /\ r.off <= q.off
      BY <1>3, Tiles
    <3> QED BY <1>3, <3>1, <3>2
  <2>3. \A q \in log : q.kind = "marker" /\ k.mark <= q.at => u.cpos <= q.at
    BY <1>2, <1>3, <2>1, <2>2
  <2>4. \A q \in log : q.kind = "bytes" /\ q.at < u.cpos => OffAfter(q) <= u.coff
    <3> SUFFICES ASSUME NEW q \in log, q.kind = "bytes", q.at < u.cpos PROVE OffAfter(q) <= u.coff
      OBVIOUS
    <3>1. q.at < r.at
      BY <1>2, <1>3, <2>2
    <3> QED BY <1>2, <3>1, Tiles
  <2>5. \A q \in log : q.kind = "marker" /\ u.cpos <= q.at => u.coff <= q.off
    BY <1>2, <1>3, <2>2
  <2>6. InPlace(u, k)
    BY <1>2, <2>1, <2>3, <2>4, <2>5 DEF InPlace
  <2>7. u.got = 2
    BY <1>2, <1>5
  <2> QED BY <1>1, <1>2, <1>3, <2>1, <2>6, <2>7 DEF Fit
<1> QED BY <1>4, <1>5

(* Delivery hands a slice over.                                             *)
LEMMA HandOverFit ==
  ASSUME LogInv, TagInv, Types, SlicesInv, GotInv, AllFit, HandOver
  PROVE  AllFit' /\ WantsNothing'
<1>0. PICK r : r = Earliest(NextSlices)
  OBVIOUS
<1>1. /\ pc.at = "deliver" /\ requests # <<>> /\ NextSlices # {} /\ UNCHANGED <<ring, pc>>
      /\ count = 1 \/ count = 0
      /\ \/ Receivers(requests[1].serial) = {} /\ UNCHANGED conns
         \/ \E c \in Receivers(requests[1].serial) :
              \E s \in TakeSlice(At(c), r) : Set(c, s)
  BY <1>0, HandsOver
<1>2. /\ ViewTypes /\ MirrorMap
      /\ \A d \in Clients : view[d] \in ViewSet /\ waiting[d] \in BOOLEAN
  BY DEF Types, ViewTypes
<1>3. log' = log /\ head' = head /\ r \in log /\ r.kind = "slice"
  BY <1>0, <1>1, SameLog, NextSliceIs
<1>4. /\ TagOf(r).req = requests[1].serial
      /\ TagOf(r).t = (IF count = 0 THEN "first" ELSE "last")
  BY <1>0, <1>1, NextHanded
<1>5. WantsNothing'
  BY <1>1, RestWants
<1>6. CASE UNCHANGED conns
  BY <1>3, <1>5, <1>6, KeepFit DEF conns
<1>7. ASSUME NEW c \in Receivers(requests[1].serial), NEW s \in TakeSlice(At(c), r), Set(c, s)
      PROVE  AllFit' /\ WantsNothing'
  <2>1. c \in Clients /\ view[c].stage = "snapshotting" /\ view[c].serial = requests[1].serial
    BY DEF Receivers
  <2>2. PICK v \in ViewSet, out \in BOOLEAN, m \in {mirror[c]} : v = view[c] /\ out = waiting[c] /\ m = mirror[c]
    BY <1>2, <2>1
  <2>3. Fit(v, m) /\ Whole(m) /\ v.cpos <= head /\ v.got = count
    <3>1. Fit(v, m)
      BY <2>1, <2>2 DEF AllFit
    <3>2. GotWaits(v)
      BY <2>1, <2>2 DEF GotInv, Got
    <3>3. 1 \in 1 .. Len(requests)
      BY <1>1 DEF Types, DeliveryTypes
    <3>4. v.got = count
      BY <2>1, <2>2, <3>2, <3>3 DEF GotWaits
    <3> QED BY <3>1, <3>4 DEF Fit
  <2>4. s \in TakeSlice(State(v, out, m), r)
    BY <1>7, <2>2, AtIs
  <2>5. ASSUME NEW u, NEW w, NEW k, s = State(u, w, k), Fit(u, k) PROVE AllFit' /\ WantsNothing'
    BY <1>2, <1>3, <1>5, <1>7, <2>1, <2>5, SetFit
  <2>6. ASSUME NEW why, s = ClosedState(v, m, why) PROVE AllFit' /\ WantsNothing'
    <3>1. PICK u, no, k : u = ClosedView(v) /\ no = FALSE /\ k = Ended(m, why)
      OBVIOUS
    <3>2. Fit(u, k)
      BY <2>3, <3>1, ClosedFit
    <3>3. s = State(u, no, k)
      BY <2>6, <3>1 DEF ClosedState
    <3> QED BY <2>5, <3>2, <3>3
  <2>7. ASSUME NEW late \in Late(out), s = State(SlicedView(v, r, late), late, AfterSlice(m, r))
        PROVE  AllFit' /\ WantsNothing'
    <3>1. PICK u, k : u = SlicedView(v, r, late) /\ k = AfterSlice(m, r)
      OBVIOUS
    <3>2. \/ v.got = 0 /\ TagOf(r).t = "first"
          \/ v.got = 1 /\ TagOf(r).t = "last"
      BY <1>1, <1>4, <2>3
    <3>3. TagOf(r).req = v.serial /\ v.stage = "snapshotting"
      BY <1>4, <2>1, <2>2
    <3>4. Fit(u, k)
      BY <1>3, <2>3, <3>1, <3>2, <3>3, SliceFit
    <3>5. s = State(u, late, k)
      BY <2>7, <3>1
    <3> QED BY <2>5, <3>4, <3>5
  <2>8. \/ \E why : s = ClosedState(v, m, why)
        \/ \E late \in Late(out) : s = State(SlicedView(v, r, late), late, AfterSlice(m, r))
    BY <2>4, SliceCases
  <2> QED BY <2>6, <2>7, <2>8
<1> QED BY <1>1, <1>6, <1>7

(* An answer makes a view live that has both slices.                        *)
LEMMA TakenFit ==
  ASSUME LogInv, TagInv, Types, OwedInv, SlicesInv, GotInv, AllFit, TakeEvent
  PROVE  AllFit' /\ WantsNothing'
<1>1. /\ pc = Rest /\ events # <<>> /\ UNCHANGED ring
      /\ \/ Head(events).t = "done" /\ TakesDone(Head(events))
         \/ Head(events).t # "done" /\ TakeFailed
  BY TakeCases
<1>2. /\ ViewTypes /\ MirrorMap /\ OneOwner /\ events \in Seq(EventSet)
      /\ \A d \in Clients : /\ view[d] \in ViewSet /\ waiting[d] \in BOOLEAN
                            /\ Fit(view[d], mirror[d]) /\ Whole(mirror[d]) /\ view[d].cpos <= head
  BY DEF Types, OwedInv, ViewTypes, ServerTypes, AllFit, Fit
<1>3. log' = log /\ head' = head
  BY <1>1, SameLog
<1>4. WantsNothing'
  <2>1. \A c : Decide(c) => pc'.at # "resume"
    BY DEF Decide, Rest
  <2>2. pc.at # "resume"
    BY <1>1 DEF Rest
  <2> QED BY <1>1, <2>1, <2>2 DEF TakesDone, TakeFailed, WantsNothing
<1>5. CASE TakeFailed
  <2>1. ASSUME NEW d \in Clients PROVE Fit(view[d], mirror[d])'
    <3>1. PICK v \in ViewSet, m \in {mirror[d]} : v = view[d] /\ m = mirror[d]
      BY <1>2
    <3>2. view'[d] = IF v.stage = "new" THEN v ELSE ClosedView(v)
      BY <1>5, <3>1 DEF TakeFailed, ClosedView
    <3>3. mirror'[d] = IF v.stage \in {"new", "closed"} THEN m ELSE Ended(m, "gone")
      BY <1>5, <3>1 DEF TakeFailed, Ended
    <3>4. PICK u, k : u = view'[d] /\ k = mirror'[d]
      OBVIOUS
    <3>5. Fit(v, m) /\ Whole(m) /\ v.cpos <= head
      BY <1>2, <3>1
    <3>6. Fit(u, k)
      <4>1. CASE v.stage = "new"
        BY <3>2, <3>3, <3>4, <3>5, <4>1
      <4>2. CASE v.stage = "closed"
        <5>1. u.stage = "closed" /\ u.cpos = v.cpos /\ k = m
          BY <3>2, <3>3, <3>4, <4>2 DEF ClosedView, ViewSet
        <5> QED BY <3>5, <5>1 DEF Fit
      <4>3. CASE v.stage \notin {"new", "closed"}
        <5>1. PICK why : why = "gone"
          OBVIOUS
        <5>2. u = ClosedView(v) /\ k = Ended(m, why)
          BY <3>2, <3>3, <3>4, <4>3, <5>1
        <5> QED BY <3>5, <5>2, ClosedFit
      <4> QED BY <4>1, <4>2, <4>3
    <3>7. Fit(u, k)'
      BY <1>3, <3>6, SameFit
    <3> QED BY <3>4, <3>7
  <2> QED BY <1>4, <2>1 DEF AllFit
<1>6. ASSUME NEW done, done = Head(events), done.t = "done", TakesDone(done) PROVE AllFit'
  <2>1. CASE UNCHANGED conns
    BY <1>3, <2>1, KeepFit DEF conns
  <2>2. ASSUME NEW c \in Clients, <<done.serial, c>> \in owners, Receivers(done.serial) # {},
               NEW s \in OnDone(At(c), done), Set(c, s)
        PROVE  AllFit'
    <3>1. PICK v \in ViewSet, out \in BOOLEAN, m \in {mirror[c]} : v = view[c] /\ out = waiting[c] /\ m = mirror[c]
      BY <1>2
    <3>2. done = events[1] /\ 1 \in 1 .. Len(events) /\ done \in EventSet
      BY <1>1, <1>2, <1>6, ElemsTail
    <3>3. v.stage = "snapshotting" /\ v.serial = done.serial
      <4>1. PICK d \in Receivers(done.serial) : TRUE
        BY <2>2
      <4>2. d \in Clients /\ <<done.serial, d>> \in owners /\ view[d].stage = "snapshotting" /\ view[d].serial = done.serial
        BY DEF Receivers
      <4>3. done.serial \in Nat
        BY <3>2 DEF EventSet
      <4>4. d = c
        BY <1>2, <2>2, <4>2, <4>3 DEF OneOwner
      <4> QED BY <3>1, <4>2, <4>4
    <3>4. Fit(v, m) /\ Whole(m) /\ v.cpos <= head
      BY <1>2, <3>1
    <3>5. Matches(v, done) => InPlace(v, m)
      <4>1. GotDones(v)
        BY <3>1, <3>3 DEF GotInv, Got
      <4>2. Matches(v, done) => v.got = 2
        BY <1>6, <3>2, <3>3, <4>1 DEF GotDones, Matches
      <4> QED BY <3>3, <3>4, <4>2 DEF Fit
    <3>6. s \in OnDone(State(v, out, m), done)
      BY <2>2, <3>1, AtIs
    <3>7. ASSUME NEW u, NEW w, NEW k, s = State(u, w, k), Fit(u, k) PROVE AllFit'
      BY <1>2, <1>3, <2>2, <3>7, SetFit
    <3>8. ASSUME NEW why, s = ClosedState(v, m, why) PROVE AllFit'
      <4>1. PICK no, u, k : no = FALSE /\ u = ClosedView(v) /\ k = Ended(m, why)
        OBVIOUS
      <4>2. Fit(u, k)
        BY <3>4, <4>1, ClosedFit
      <4> QED BY <3>7, <3>8, <4>1, <4>2 DEF ClosedState
    <3>9. ASSUME NEW late \in Late(out), NEW k \in {m, DiedAt(m, v)}, s = State(LiveView(v), late, k),
                 Matches(v, done)
          PROVE  AllFit'
      <4>1. PICK u : u = LiveView(v)
        OBVIOUS
      <4>2. u.stage = "live" /\ u.cpos = v.cpos /\ u.coff = v.coff
        BY <4>1 DEF LiveView, ViewSet
      <4>3. InPlace(v, k) /\ Whole(k)
        BY <3>4, <3>5, <3>9, DiedWhole
      <4>4. InPlace(u, k)
        BY <4>2, <4>3 DEF InPlace
      <4>5. Fit(u, k)
        BY <3>4, <4>2, <4>3, <4>4 DEF Fit
      <4> QED BY <3>7, <3>9, <4>1, <4>5
    <3>10. \/ \E why : s = ClosedState(v, m, why)
           \/ /\ Matches(v, done)
              /\ \E late \in Late(out), k \in {m, DiedAt(m, v)} : s = State(LiveView(v), late, k)
      BY <3>6, DoneCases
    <3> QED BY <3>8, <3>9, <3>10
  <2> QED BY <1>6, <2>1, <2>2 DEF TakesDone
<1> QED BY <1>1, <1>4, <1>5, <1>6

-----------------------------------------------------------------------------
(* A resume sends the records from the cursor on.                           *)
LEMMA ResumeFit ==
  ASSUME LogInv, Types, RootedInv, GotInv, AllFit, WantsNothing, Resume
  PROVE  AllFit' /\ WantsNothing'
<1>1. PICK c \in Clients : c = pc.client
  BY ResumeCases DEF Types, PcTypes
<1>2. /\ pc.at = "resume" /\ pc' = Rest /\ Quiet /\ ResumesAs(c)
      /\ ViewTypes /\ MirrorMap /\ view[c] \in ViewSet /\ Fit(view[c], mirror[c])
      /\ view[c].stage = "live" /\ view[c].wanted = "-"
  BY <1>1, ResumeCases DEF Types, ViewTypes, GotInv, Live, AllFit, WantsNothing
<1>3. InPlace(view[c], mirror[c])
  BY <1>2 DEF Fit
<1>4. log' = log /\ head' = head /\ WantsNothing'
  BY <1>2, SameLog, RestWants DEF Quiet
<1>5. ASSUME NEW pos, NEW u, u = BaseView(c, Sending(c, pos))
      PROVE  u \in ViewSet /\ u.stage = "live"
  <2>1. PICK sent : sent = Sending(c, pos) /\ u = BaseView(c, sent)
    BY <1>5
  <2>2. u.stage = "live"
    BY <1>2, <2>1, AlikeClients DEF Alike
  <2> QED BY <1>5, <2>2, BaseIs
<1>6. ASSUME NEW v, NEW w, NEW m, Set(c, State(v, w, m)), v.stage = "live",
             Whole(m), InPlace(v, m), v.cpos <= head
      PROVE  AllFit'
  <2>1. Fit(v, m)
    BY <1>6 DEF Fit
  <2> QED BY <1>2, <1>4, <1>6, <2>1, SetFit
<1>7. ASSUME NEW w, Set(c, State(HeadView(BaseView(c, Sending(c, head))), w, BaseMirror(c, Sending(c, head))))
      PROVE  AllFit'
  <2>1. PICK u, v, m : /\ u = BaseView(c, Sending(c, head)) /\ v = HeadView(u)
                       /\ m = BaseMirror(c, Sending(c, head))
    OBVIOUS
  <2>2. v.stage = "live"
    <3>1. u \in ViewSet /\ u.stage = "live"
      BY <1>5, <2>1
    <3> QED BY <2>1, <3>1 DEF HeadView, ViewSet
  <2>3. Whole(m) /\ InPlace(v, m) /\ v.cpos <= head
    BY <1>2, <1>3, <2>1, HeadPlace
  <2>4. Set(c, State(v, w, m))
    BY <1>7, <2>1
  <2> QED BY <1>6, <2>2, <2>3, <2>4
<1>8. ASSUME NEW pos \in Starts, NEW w,
             Set(c, State(HeldView(BaseView(c, Sending(c, pos))), w, BaseMirror(c, Sending(c, pos))))
      PROVE  AllFit'
  <2>0. pos \in Nat
    BY RecordIs DEF Starts, LogInv
  <2>1. PICK u, v, m : /\ u = BaseView(c, Sending(c, pos)) /\ v = HeldView(u)
                       /\ m = BaseMirror(c, Sending(c, pos))
    OBVIOUS
  <2>2. v.stage = "live"
    <3>1. u \in ViewSet /\ u.stage = "live"
      BY <1>5, <2>1
    <3> QED BY <2>1, <3>1 DEF HeldView, ViewSet
  <2>3. Whole(m) /\ InPlace(v, m) /\ v.cpos <= head
    BY <1>2, <1>3, <2>0, <2>1, HeldPlace
  <2>4. Set(c, State(v, w, m))
    BY <1>8, <2>1
  <2> QED BY <1>6, <2>2, <2>3, <2>4
<1> QED BY <1>2, <1>4, <1>7, <1>8, Zenon DEF ResumesAs

(* What a client and its output begin.                                      *)
LEMMA ClientFit ==
  ASSUME LogInv, Types, AllFit, NEW c \in Clients, Pump(c) \/ Writable(c) \/ Leave(c)
  PROVE  AllFit' /\ WantsNothing'
<1>1. CASE Pump(c) \/ Writable(c)
  <2>1. (Decide(c) \/ Drained(c)) /\ UNCHANGED <<log, head, view, mirror>>
    BY <1>1 DEF Pump, Writable, conns, ring
  <2> QED BY <2>1, KeepFit, RestWants
<1>2. CASE Leave(c)
  <2>1. Set(c, ClosedState(view[c], mirror[c], "left")) /\ Idle /\ UNCHANGED <<ring, server>>
    BY <1>2, LeaveIs
  <2>2. log' = log /\ head' = head /\ WantsNothing'
    <3>1. pc = Rest /\ pc' = pc
      BY <2>1 DEF server, Idle, AtRest
    <3> QED BY <2>1, <3>1, SameLog, RestWants
  <2>3. /\ ViewTypes /\ MirrorMap /\ view[c] \in ViewSet
        /\ Whole(mirror[c]) /\ view[c].cpos <= head
    BY DEF Types, ViewTypes, AllFit, Fit
  <2>4. PICK no, u, why, m : /\ no = FALSE /\ u = ClosedView(view[c]) /\ why = "left"
                             /\ m = Ended(mirror[c], why)
    OBVIOUS
  <2>5. Set(c, State(u, no, m))
    BY <2>1, <2>4 DEF ClosedState
  <2>6. Fit(u, m)
    BY <2>3, <2>4, ClosedFit
  <2> QED BY <2>2, <2>3, <2>5, <2>6, SetFit
<1> QED BY <1>1, <1>2

(* The pane.                                                                *)
LEMMA PaneFit ==
  ASSUME LogInv, Types, GotInv, AllFit, WantsNothing,
         PaneWrites \/ PaneResizes \/ PaneExits \/ PaneCrashes \/ PaneStep
  PROVE  AllFit' /\ WantsNothing'
<1>0. BytesLen \in Nat /\ MarkLen \in Nat /\ SliceLen \in Nat /\ {"bytes", "marker", "slice"} \subseteq Kind
  BY Lengths DEF Kind
<1>1. ASSUME NEW kind \in Kind, NEW len \in Nat, Publish(kind, len), UNCHANGED <<server, conns>>
      PROVE  AllFit' /\ WantsNothing'
  <2>1. UNCHANGED <<pc, view, mirror>>
    BY <1>1 DEF server, conns
  <2>2. ASSUME NEW d \in Clients PROVE Fit(view[d], mirror[d])'
    <3>1. PICK v \in ViewSet, m \in {mirror[d]} : v = view[d] /\ m = mirror[d]
      BY DEF Types, ViewTypes
    <3>2. v.coff <= End /\ Fit(v, m)
      BY <3>1 DEF GotInv, AllFit
    <3>3. Fit(v, m)'
      BY <1>1, <3>2, GrowFit
    <3> QED BY <2>1, <3>1, <3>3
  <2> QED BY <2>1, <2>2, RestWants DEF AllFit
<1>2. ASSUME UNCHANGED <<ring, server, conns>> PROVE AllFit' /\ WantsNothing'
  <2>1. UNCHANGED <<log, head, pc, view, mirror>>
    BY <1>2 DEF ring, server, conns
  <2> QED BY <2>1, KeepFit, RestWants
<1>3. CASE PaneWrites
  <2>1. Publish("bytes", BytesLen) /\ UNCHANGED <<server, conns>>
    BY <1>3 DEF PaneWrites
  <2> QED BY <1>0, <1>1, <2>1
<1>4. CASE PaneResizes \/ PaneExits
  <2>1. Publish("marker", MarkLen) /\ UNCHANGED <<server, conns>>
    BY <1>4 DEF PaneResizes, PaneExits
  <2> QED BY <1>0, <1>1, <2>1
<1>5. CASE PaneSlices
  <2>1. Publish("slice", SliceLen) /\ UNCHANGED <<server, conns>>
    BY <1>5 DEF PaneSlices
  <2> QED BY <1>0, <1>1, <2>1
<1>6. CASE PaneCrashes \/ PaneBegins \/ PaneFull
  BY <1>2, <1>6 DEF PaneCrashes, PaneBegins, PaneFull
<1> QED BY <1>3, <1>4, <1>5, <1>6 DEF PaneStep

(* The walk over the ring and the frames leave the views alone.             *)
LEMMA WalkFit ==
  ASSUME LogInv, TagInv, Types, SlicesInv, AllFit, WantsNothing,
         EndScan \/ EndDone \/ ReadFrame \/ ReadEnd \/ Scan
  PROVE  AllFit' /\ WantsNothing'
<1>1. CASE EndScan
  <2>1. log' = log /\ head' = head
    <3>1. pc.upper \in Starts /\ pc.upper \in Nat /\ tail <= pc.upper
      BY <1>1, WalkEnds DEF EndScan
    <3> QED BY <1>1, <3>1, ScanReleases DEF EndScan
  <2>2. UNCHANGED <<view, mirror>> /\ pc' = Rest
    BY <1>1 DEF EndScan, conns
  <2> QED BY <2>1, <2>2, KeepFit, RestWants
<1>2. CASE EndDone
  <2>1. UNCHANGED <<log, head, view, mirror>> /\ pc' = Rest
    BY <1>2 DEF EndDone, conns, ring
  <2> QED BY <2>1, KeepFit, RestWants
<1>3. CASE ReadFrame \/ ReadEnd \/ Scan
  <2>1. UNCHANGED <<log, head, view, mirror>>
    BY <1>3 DEF ReadFrame, ReadEnd, Scan, conns, ring
  <2>2. WantsNothing'
    <3>1. CASE ReadFrame
      <4>1. frames # <<>>
        BY <3>1 DEF ReadFrame
      <4>2. Head(frames) \in FrameSet
        BY <4>1, ElemsTail DEF Types, PaneTypes
      <4>3. Head(frames).t \in {"done", "full", "dead"}
        BY <4>2 DEF FrameSet
      <4>4. UNCHANGED pc \/ \E then : Deliver(then)
        BY <3>1, <4>3 DEF ReadFrame
      <4> QED BY <2>1, <4>4, RestWants
    <3>2. CASE ReadEnd
      BY <2>1, <3>2, RestWants DEF ReadEnd
    <3>3. CASE Scan
      BY <3>3, RestWants DEF Scan
    <3> QED BY <1>3, <3>1, <3>2, <3>3
  <2> QED BY <2>1, <2>2, KeepFit
<1> QED BY <1>1, <1>2, <1>3

(* The copies of views that are not open are whole.                         *)
LEMMA InitCopy == ASSUME Init PROVE CopyInv
<1>1. LogInv /\ log = {} /\ head = 0 /\ End = 0
  BY InitLog DEF Init, LogInit, LogInv, Ends
<1>2. RootedInv
  BY <1>1 DEF RootedInv, Rooted
<1>3. ASSUME NEW c \in Clients PROVE Fit(view[c], mirror[c])
  <2>1. view[c].stage = "new" /\ view[c].cpos = 0
    BY DEF Init
  <2>2. Whole(mirror[c]) /\ Plain(mirror[c])
    BY DEF Init, Whole, Plain
  <2> QED BY <1>1, <2>1, <2>2 DEF Fit
<1>4. WantsNothing
  BY DEF WantsNothing, Init, Rest
<1> QED BY <1>2, <1>3, <1>4 DEF CopyInv, AllFit

(* Every step keeps the copies whole.                                       *)
LEMMA StepCopy ==
  ASSUME TypeInv, OwedInv, SlicesInv, GotInv, CopyInv, [Next]_vars
  PROVE  CopyInv'
<1>0. LogInv /\ TagInv /\ Types /\ RootedInv /\ AllFit /\ WantsNothing
  BY DEF TypeInv, CopyInv
<1>1. RootedInv'
  BY <1>0, NextLog, StepRoots
<1>2. CASE UNCHANGED vars
  <2>1. UNCHANGED <<log, head, pc, view, mirror>>
    BY <1>2 DEF vars, ring, server, conns
  <2> QED BY <1>0, <1>1, <2>1, KeepFit, RestWants DEF CopyInv
<1>3. CASE PaneWrites \/ PaneResizes \/ PaneExits \/ PaneCrashes \/ PaneStep
  BY <1>0, <1>1, <1>3, PaneFit DEF CopyInv
<1>4. CASE ServerStep
  <2>1. AllFit' /\ WantsNothing'
    BY <1>0, <1>4, HandOverFit, WalkFit, TakenFit, ClientFit, DecidesFit, ResumeFit DEF ServerStep
  <2> QED BY <1>1, <2>1 DEF CopyInv
<1>5. ASSUME NEW c \in Clients, Writable(c) \/ Open(c) \/ Leave(c) PROVE CopyInv'
  BY <1>0, <1>1, <1>5, ClientFit, OpenFit DEF CopyInv
<1>6. ASSUME NEW c \in Clients, NEW history \in Histories, Resync(c, history) PROVE CopyInv'
  BY <1>0, <1>1, <1>6, ResyncFit DEF CopyInv
<1> QED BY <1>2, <1>3, <1>4, <1>5, <1>6 DEF Next

(* The copy that a client makes of what it is sent is true: each message    *)
(* continues it with no byte and no marker missed, repeated or out of       *)
(* order, and while its view is live the cursor says how far it is, for any *)
(* clients, ring and lengths (View::pump_live, resume, flush_batch,         *)
(* on_slice and on_done of view.rs).                                        *)
THEOREM MirrorTrueHolds == Spec => []MirrorTrue
<1> DEFINE IInv == TypeInv /\ OwedInv /\ SlicesInv /\ GotInv
<1>1. Init => CopyInv
  BY InitCopy
<1>2. IInv /\ CopyInv /\ [Next]_vars => CopyInv'
  BY StepCopy
<1>3. TypeInv /\ CopyInv => MirrorTrue
  <2> SUFFICES ASSUME TypeInv, CopyInv, NEW c \in Clients
               PROVE  mirror[c].true /\ (Live(c) /\ view[c].wanted = "-" => InStep(c))
    BY DEF MirrorTrue
  <2>1. Fit(view[c], mirror[c]) /\ LogInv /\ view[c] \in ViewSet
    BY DEF CopyInv, AllFit, TypeInv, Types, ViewTypes
  <2>2. mirror[c].true = TRUE
    BY <2>1 DEF Fit, Whole
  <2>3. ASSUME Live(c), view[c].wanted = "-" PROVE InStep(c)
    <3>1. InPlace(view[c], mirror[c])
      BY <2>1, <2>3 DEF Fit, Live
    <3>2. ASSUME NEW q \in Between(mirror[c].mark, view[c].cpos), q.kind = "marker" PROVE FALSE
      <4>1. q \in log /\ q.at < view[c].cpos /\ view[c].cpos <= q.at
        BY <3>1, <3>2 DEF Between, InPlace
      <4>2. q.at \in Nat /\ view[c].cpos \in Nat
        BY <2>1, <4>1, RecordIs DEF ViewSet
      <4> QED BY <4>1, <4>2
    <3> QED BY <3>1, <3>2 DEF InStep, InPlace, Plain
  <2> QED BY <2>2, <2>3
<1> QED BY <1>1, <1>2, <1>3, GotHolds, PTL DEF Spec
=============================================================================
