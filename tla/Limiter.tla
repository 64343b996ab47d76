------------------------------ MODULE Limiter ------------------------------
(* Which exec sessions of a runtime run (runtime/exec.rs, Limiter): at most *)
(* Cap at once, the others wait in order, and one that the far side refused *)
(* is parked until another ends.                                            *)
EXTENDS Filter, SequencesExt, FiniteSetsExt

CONSTANT Cap  \* MAX_SESSIONS

ASSUME CapAssumption == Cap \in Nat \ {0}

NoSessions == [running |-> 0, waiting |-> <<>>, parked |-> <<>>]

(* One session fewer runs: saturating_sub.                                  *)
Less(n) == IF n = 0 THEN 0 ELSE n - 1

(* The sessions of `next`, in order, that the free slots admit.             *)
Fitting(l, next) == SubSeq(next, 1, Min({Len(next), Cap - l.running}))

(* fill(parked_first): what starts, and the limiter after it.               *)
Fill(l, parkedFirst) ==
  LET next   == IF parkedFirst THEN l.parked \o l.waiting ELSE l.waiting
      start  == IF l.running < Cap THEN Fitting(l, next) ELSE <<>>
      taken  == ToSet(start)
      Left(q) == Only(q, ToSet(q) \ taken)
  IN [start |-> start,
      lim |-> [running |-> l.running + Len(start),
               waiting |-> Left(l.waiting), parked |-> Left(l.parked)]]

Joins(l) == l.running < Cap /\ l.waiting = <<>>

(* join: the session runs, or waits at the end of the queue.                *)
Join(l, t) == IF Joins(l) THEN [l EXCEPT !.running = @ + 1]
              ELSE [l EXCEPT !.waiting = Append(@, t)]

(* leave: a session ended, and those that were refused try again first.     *)
LeaveSlot(l) == Fill([l EXCEPT !.running = Less(@)], TRUE)

(* retry: a refused session starts again at once when nothing else runs or  *)
(* a session ended since it started; otherwise it parks.                    *)
Again(l, late) == Less(l.running) = 0 \/ late

Retry(l, t, late) ==
  LET rest == [l EXCEPT !.running = Less(@)]
      now  == Fill([rest EXCEPT !.running = @ + 1], FALSE)
  IN IF Again(l, late) THEN [now EXCEPT !.start = <<t>> \o @]
     ELSE Fill([rest EXCEPT !.parked = Append(@, t)], FALSE)

Forget(l, t) ==
  LET Kept(q) == Only(q, ToSet(q) \ {t})
  IN [l EXCEPT !.waiting = Kept(@), !.parked = Kept(@)]
=============================================================================
