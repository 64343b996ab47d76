------------------------------- MODULE Views --------------------------------
(***************************************************************************)
(* The views of one pane: the server streams the pane's record log to each *)
(* of them, from a snapshot or from an offset the client still has, across *)
(* outputs that stall and overflow, a tail that moves on, a pane that      *)
(* writes while the server looks, and a pane process that ends.            *)
(*                                                                         *)
(* The log is RecordLog's.  A snapshot is two slice records (a first and   *)
(* an empty last one) and a done frame on the control socket, which may be *)
(* read before or after the slices are found.  The server is one thread:   *)
(* pc is the function that is between two looks at the log, and events     *)
(* what the frames it read left to dispatch.                               *)
(***************************************************************************)
EXTENDS RecordLog, Sequences, FiniteSets

CONSTANTS
  Clients,    (* each opens one view of the pane                            *)
  None,       (* no client                                                  *)
  Histories,  (* what a client may ask for: "screen" (none), "all"          *)
  BytesLen, MarkLen, SliceLen,   (* payload lengths of the records          *)
  Threshold,  (* RESUME_THRESHOLD: 65536 in the code                        *)
  Load        (* bounds: how often each of Inputs happens                   *)

Inputs == {"bytes", "resize", "exit", "crash", "resync", "leave"}

ASSUME ViewsAssumption ==
  /\ {BytesLen, MarkLen, SliceLen} \subseteq Nat \ {0} /\ Threshold \in Nat
  /\ Load \in [Inputs -> Nat] /\ Histories \subseteq {"screen", "all"}

VARIABLES
  (* the pane process                                                       *)
  asks,      (* the snapshot requests it has still to read                  *)
  serving,   (* the one it writes: [req, left], left slices to go           *)
  frames,    (* what it sent on the socket: [t, req]                        *)
  full,      (* it announced a full ring and has had no tail since          *)
  life,      (* "running", its program "exited", or the process "gone"      *)
  tags,      (* of markers and slices: [at, t, req]                         *)
  load,      (* what is left of Load                                        *)
  (* Delivery: Waiting entries are [serial, at, slices]                     *)
  requests, finished, delivered, count, next,
  (* the server                                                             *)
  open, dead,   (* PaneProc's stage is Open; PaneProc.dead                  *)
  owners,       (* <<serial, client>> of the requests not answered          *)
  events,       (* Io.events: [t, serial, hold, slices]                     *)
  dispatching,
  pc,           (* [at, client, upper, then]                                *)
  view,         (* View, by client                                          *)
  waiting,      (* Output.waiting(), by client                              *)
  mirror        (* history: what the messages sent to a client amount to    *)

pane     == <<asks, serving, frames, full, life, tags, load>>
delivery == <<requests, finished, delivered, count, next>>
server   == <<open, dead, owners, events, dispatching, pc>>
conns    == <<view, waiting, mirror>>
vars     == <<ring, pane, delivery, server, conns>>

Rest   == [at |-> "rest", client |-> None, upper |-> 0, then |-> 0]
NoServing == [req |-> 0, left |-> 0]

Init ==
  /\ LogInit
  /\ asks = <<>> /\ serving = NoServing /\ frames = <<>> /\ full = FALSE
  /\ life = "running" /\ tags = {} /\ load = Load
  /\ requests = <<>> /\ finished = <<>> /\ delivered = 0 /\ count = 0 /\ next = 1
  /\ open = TRUE /\ dead = FALSE /\ owners = {} /\ events = <<>>
  /\ dispatching = FALSE /\ pc = Rest
  /\ view = [c \in Clients |->
               [stage |-> "new", serial |-> 0, got |-> 0, cpos |-> 0, coff |-> 0,
                blocked |-> FALSE, history |-> "-", wanted |-> "-"]]
  /\ waiting = [c \in Clients |-> FALSE]
  /\ mirror = [c \in Clients |->
                 [off |-> 0, mark |-> 0, snap |-> 0, skip |-> FALSE, true |-> TRUE,
                  death |-> -1, reflowed |-> FALSE, missed |-> FALSE, end |-> "-"]]

End       == CHOOSE off \in Ends : TRUE
TagOf(r)  == CHOOSE tag \in tags : tag.at = r.at
Between(from, to) == {r \in log : from <= r.at /\ r.at < to}
Earliest(recs)    == CHOOSE r \in recs : \A q \in recs : r.at <= q.at
Latest(recs)      == CHOOSE r \in recs : \A q \in recs : q.at <= r.at
Use(what) == load[what] > 0 /\ load' = [load EXCEPT ![what] = @ - 1]

-----------------------------------------------------------------------------
(* The pane process (see PaneLink for how it finds room and reports it).    *)

Tagged(t, req) == tags' = tags \cup {[at |-> head, t |-> t, req |-> req]}

PaneWrites ==
  /\ life = "running" /\ serving = NoServing
  /\ Use("bytes") /\ Publish("bytes", BytesLen)
  /\ UNCHANGED <<asks, serving, frames, full, life, tags, delivery, server, conns>>

PaneResizes ==
  /\ life # "gone" /\ serving = NoServing
  /\ Use("resize") /\ Publish("marker", MarkLen) /\ Tagged("resize", 0)
  /\ UNCHANGED <<asks, serving, frames, full, life, delivery, server, conns>>

PaneExits ==
  /\ life = "running" /\ serving = NoServing
  /\ Use("exit") /\ Publish("marker", MarkLen) /\ Tagged("dead", 0)
  /\ life' = "exited"
  /\ frames' = Append(frames, [t |-> "dead", req |-> 0])
  /\ UNCHANGED <<asks, serving, full, delivery, server, conns>>

(* A snapshot is written without a pty read in between.                     *)
PaneBegins ==
  /\ life # "gone" /\ serving = NoServing /\ asks # <<>>
  /\ serving' = [req |-> Head(asks), left |-> 2]
  /\ asks' = Tail(asks)
  /\ UNCHANGED <<ring, frames, full, life, tags, load, delivery, server, conns>>

PaneSlices ==
  /\ life # "gone" /\ serving # NoServing
  /\ Publish("slice", SliceLen)
  /\ IF serving.left = 2
     THEN Tagged("first", serving.req) /\ serving' = [serving EXCEPT !.left = 1]
          /\ UNCHANGED frames
     ELSE Tagged("last", serving.req) /\ serving' = NoServing
          /\ frames' = Append(frames, [t |-> "done", req |-> serving.req])
  /\ UNCHANGED <<asks, full, life, load, delivery, server, conns>>

PaneFull ==
  /\ life # "gone" /\ ~full
  /\ \/ serving # NoServing /\ head + Header + SliceLen > tail + Capacity
     \/ load["bytes"] > 0 /\ head + Header + BytesLen > tail + Capacity
  /\ full' = TRUE
  /\ frames' = Append(frames, [t |-> "full", req |-> 0])
  /\ UNCHANGED <<ring, asks, serving, life, tags, load, delivery, server, conns>>

PaneCrashes ==
  /\ life # "gone" /\ Use("crash")
  /\ life' = "gone" /\ asks' = <<>> /\ serving' = NoServing
  /\ UNCHANGED <<ring, frames, full, tags, delivery, server, conns>>

-----------------------------------------------------------------------------
(* What one message does to a client's copy of the terminal.  off and mark  *)
(* say how far the copy is: bytes before off, markers before mark.  true is *)
(* lost when a message does not continue it.                                *)

AfterBytes(m, r, from) ==
  [m EXCEPT !.true = @ /\ from = m.off /\ m.snap = 0 /\ ~m.skip, !.off = OffAfter(r)]

AfterMarker(m, r, history) ==
  [m EXCEPT !.true = /\ @ /\ r.off = m.off /\ m.snap = 0 /\ ~m.skip
                     /\ {q \in Between(m.mark, r.at) : q.kind = "marker"} = {},
            !.mark = EndOf(r),
            !.death = IF TagOf(r).t = "dead" /\ @ = -1 THEN r.off ELSE @,
            !.reflowed = @ \/ (TagOf(r).t = "resize" /\ history = "screen")]

AfterSlice(m, r) ==
  IF TagOf(r).t = "first"
  THEN [m EXCEPT !.snap = TagOf(r).req]
  ELSE [m EXCEPT !.true = @ /\ m.snap = TagOf(r).req, !.snap = 0, !.skip = FALSE,
                 !.off = r.off, !.mark = r.at, !.reflowed = FALSE, !.missed = FALSE]

Skipped(m, from) == [m EXCEPT !.true = @ /\ from = m.off, !.skip = TRUE]

(* A view, its output and its client after an operation.                    *)
At(c)         == [view |-> view[c], waiting |-> waiting[c], mirror |-> mirror[c]]
Set(c, state) == /\ view' = [view EXCEPT ![c] = state.view]
                 /\ waiting' = [waiting EXCEPT ![c] = state.waiting]
                 /\ mirror' = [mirror EXCEPT ![c] = state.mirror]

Closed(state, why) ==
  [state EXCEPT !.view.stage = "closed", !.waiting = FALSE, !.mirror.end = why]

(* What waits may grow past its limits (see Outbox).                        *)
Overflows(state) == IF state.waiting THEN {Closed(state, "overflow")} ELSE {}

(* A message sent on a clear output may leave it waiting.                   *)
Sent(state) == {[state EXCEPT !.waiting = late] : late \in {state.waiting, TRUE}}

-----------------------------------------------------------------------------
(* Delivery and PaneProc.                                                   *)

Done(w, hold, slices) == [t |-> "done", serial |-> w.serial, hold |-> hold, slices |-> slices]
NoHold == -1

(* failure(): close, fail_pending, die.  Those that are answered: finished,  *)
(* and the requests.                                                        *)
Failed_PendingOnly(asked) ==   \* mutant: the requests with a held end are forgotten
  [i \in 1 .. Len(asked) |-> Done(asked[i], NoHold, 0)]
  \o <<[t |-> "failed", serial |-> 0, hold |-> NoHold, slices |-> 0]>>

Failed(asked) ==
  [i \in 1 .. Len(finished \o asked) |-> Done((finished \o asked)[i], NoHold, 0)]
  \o <<[t |-> "failed", serial |-> 0, hold |-> NoHold, slices |-> 0]>>

Failure(before, asked, after) ==
  /\ open' = FALSE
  /\ requests' = <<>> /\ finished' = <<>> /\ count' = 0
  /\ events' = before \o Failed(asked) \o after
  /\ UNCHANGED dead

(* Delivery::request: the requests with one more.                           *)
OneMore == Append(requests, [serial |-> next, at |-> head, slices |-> 0])
Mint  == /\ next' = next + 1
         /\ delivered' = IF requests = <<>> THEN head ELSE delivered

(* PaneProc::snapshot for client c, whose state is otherwise to become s.   *)
(* If the pane process is gone, the send fails: the request is answered     *)
(* with all others, and nobody owns it.                                     *)
Ask(c, history, s) ==
  \/ /\ open /\ life # "gone"
     /\ Mint /\ requests' = OneMore
     /\ asks' = Append(asks, next)
     /\ owners' = owners \cup {<<next, c>>}
     /\ Set(c, [s EXCEPT !.view.stage = "snapshotting", !.view.serial = next,
                         !.view.got = 0, !.view.history = history,
                         !.view.wanted = "-"])
     /\ UNCHANGED <<ring, serving, frames, full, life, tags, finished, count,
                    open, dead, events>>
  \/ /\ ~open \/ life = "gone"
     /\ Set(c, Closed(s, "rejected"))
     /\ \/ open /\ Mint /\ Failure(<<>>, OneMore, events)
        \/ ~open /\ UNCHANGED <<delivery, open, dead, events>>
     /\ UNCHANGED <<ring, asks, serving, frames, full, life, tags, owners>>

(* on_slice() of the view that owns the request, if there is one.           *)
TakeSlice(state, r) ==
  IF r.off < state.view.coff
  THEN {Closed(state, "rejected")}
  ELSE {[s EXCEPT !.view.got = @ + 1, !.view.cpos = EndOf(r), !.view.coff = r.off,
                  !.view.blocked = @ \/ s.waiting, !.mirror = AfterSlice(@, r)] :
          s \in Sent(state)}
       \cup Overflows(state)

Receivers(serial) ==
  {c \in Clients : /\ <<serial, c>> \in owners
                   /\ view[c].stage = "snapshotting" /\ view[c].serial = serial}

(* deliver(): the walk up to the next slice that a request waits for.       *)
NextSlices == {r \in Between(delivered, pc.upper) : r.kind = "slice"}

HandOver ==
  /\ pc.at = "deliver" /\ requests # <<>> /\ NextSlices # {}
  /\ LET r     == Earliest(NextSlices)
         front == Head(requests)
     IN IF front.at > r.at \/ delivered < tail
        THEN /\ Failure(<<>>, requests, events) /\ pc' = Rest
             /\ UNCHANGED <<delivered, next, conns>>
        ELSE /\ delivered' = EndOf(r)
             /\ IF TagOf(r).t = "last"
                THEN /\ requests' = Tail(requests) /\ count' = 0
                     /\ finished' = Append(finished, [serial |-> front.serial,
                                                      at |-> EndOf(r),
                                                      slices |-> count + 1])
                ELSE count' = count + 1 /\ UNCHANGED <<requests, finished>>
             /\ IF Receivers(front.serial) = {}
                THEN UNCHANGED conns
                ELSE \E c \in Receivers(front.serial) :
                       \E s \in TakeSlice(At(c), r) : Set(c, s)
             /\ UNCHANGED <<next, open, dead, events, pc>>
  /\ UNCHANGED <<ring, pane, owners, dispatching>>

Delivered == pc.at = "deliver" /\ (requests = <<>> \/ NextSlices = {})

(* The rest of scan(): a snapshot's end is held until its done frame.       *)
Keep(upper) == IF finished = <<>> THEN upper ELSE Lesser(finished[1].at, upper)

Advance(keep) ==
  LET from == Retain(pc.upper, keep)
      stop == {to \in Starts : tail <= to /\ from <= to}
  IN  \E to \in stop :
        /\ \A other \in stop : to <= other
        /\ IF tail < to THEN Release(to) ELSE UNCHANGED ring

(* scan() alone, from the ticker or an Output event, or for a full frame,   *)
(* which is answered with the tail.                                         *)
EndScan ==
  /\ Delivered /\ pc.then = 0
  /\ Advance(Keep(pc.upper))
  /\ delivered' = pc.upper
  /\ full' = FALSE
  /\ pc' = Rest
  /\ UNCHANGED <<asks, serving, frames, life, tags, load, requests, finished, count,
                 next, open, dead, owners, events, dispatching, conns>>

(* deliver_now() and snapshot_done() for a done frame of request pc.then.   *)
EndDone ==
  /\ Delivered /\ pc.then # 0
  /\ delivered' = pc.upper
  /\ IF finished # <<>>
     THEN /\ UNCHANGED <<requests, count>>
          /\ IF finished[1].serial = pc.then
             THEN /\ finished' = Tail(finished)
                  /\ events' = Append(events, Done(finished[1], finished[1].at,
                                                   finished[1].slices))
             ELSE UNCHANGED <<finished, events>>
     ELSE /\ UNCHANGED finished
          /\ IF requests # <<>> /\ requests[1].serial = pc.then
             THEN /\ requests' = Tail(requests) /\ count' = 0
                  /\ events' = Append(events, Done(requests[1], NoHold, 0))
             ELSE UNCHANGED <<requests, count, events>>
  /\ pc' = Rest
  /\ UNCHANGED <<ring, pane, next, open, dead, owners, dispatching, conns>>

-----------------------------------------------------------------------------
(* The server's turns.  Idle: between them.                                 *)

AtRest == pc = Rest /\ ~dispatching
Idle   == AtRest /\ events = <<>>

Deliver_NotForDone(then) ==   \* mutant: a done frame does not look at the ring first
  pc' = [Rest EXCEPT !.at = "deliver", !.upper = IF then = 0 THEN head ELSE delivered,
                     !.then = then]

Deliver(then) == pc' = [Rest EXCEPT !.at = "deliver", !.upper = head, !.then = then]

ReadFrame ==
  /\ AtRest /\ open /\ frames # <<>>
  /\ frames' = Tail(frames)
  /\ CASE Head(frames).t = "done" -> Deliver(Head(frames).req) /\ UNCHANGED <<dead, events>>
       [] Head(frames).t = "full" -> Deliver(0) /\ UNCHANGED <<dead, events>>
       [] Head(frames).t = "dead" -> dead' = TRUE /\ UNCHANGED <<events, pc>>
  /\ UNCHANGED <<ring, asks, serving, full, life, tags, load, delivery, open, owners,
                 dispatching, conns>>

ReadEnd ==
  /\ AtRest /\ open /\ frames = <<>> /\ life = "gone"
  /\ Failure(events, requests, <<>>)
  /\ UNCHANGED <<delivered, next, ring, pane, owners, dispatching, pc, conns>>

(* The ticker's scan, when it does anything.                                *)
Scan ==
  /\ Idle /\ open
  /\ \/ requests # <<>> /\ delivered < head
     \/ tail < Retain(head, Keep(head))
  /\ Deliver(0)
  /\ UNCHANGED <<ring, pane, delivery, open, dead, owners, events, dispatching, conns>>

Decide(c) == pc' = [Rest EXCEPT !.at = "decide", !.client = c]
(* A socket that has just become writable takes something.                  *)
Drained(c) == pc' = [Rest EXCEPT !.at = "decide", !.client = c, !.then = 1]

(* Taking an event; an event that pumps a view goes on with that.           *)
OnDone(state, done) ==
  IF /\ done.hold # NoHold
     /\ state.view.got > 0 /\ state.view.got = done.slices
     /\ state.view.cpos = done.hold
  THEN IF dead
       THEN {[s EXCEPT !.view.stage = "live",
                       !.mirror.death = IF @ = -1 THEN s.view.coff ELSE @] :
               s \in Sent(state)} \cup Overflows(state)
       ELSE {[state EXCEPT !.view.stage = "live"]}
  ELSE {Closed(state, "rejected")}

TakeDone ==
  LET done == Head(events)
      owner == {c \in Clients : <<done.serial, c>> \in owners}
  IN  /\ owners' = {o \in owners : o[1] # done.serial}
      /\ IF owner = {}
         THEN UNCHANGED <<conns, pc>>
         ELSE \E c \in owner :
                /\ Decide(c)
                /\ IF Receivers(done.serial) = {}
                   THEN UNCHANGED conns
                   ELSE \E s \in OnDone(At(c), done) : Set(c, s)

(* A failed pane is deleted: close_views.                                   *)
TakeFailed ==
  /\ view' = [c \in Clients |-> IF view[c].stage = "new" THEN view[c]
                                ELSE [view[c] EXCEPT !.stage = "closed"]]
  /\ mirror' = [c \in Clients |-> IF view[c].stage \in {"new", "closed"} THEN mirror[c]
                                  ELSE [mirror[c] EXCEPT !.end = "gone"]]
  /\ waiting' = [c \in Clients |-> FALSE]
  /\ UNCHANGED <<owners, pc>>

TakeEvent ==
  /\ pc = Rest /\ events # <<>>
  /\ events' = Tail(events)
  /\ dispatching' = (Len(events) > 1)
  /\ IF Head(events).t = "done" THEN TakeDone ELSE TakeFailed
  /\ UNCHANGED <<ring, pane, delivery, open, dead>>

-----------------------------------------------------------------------------
(* Views.                                                                   *)

Live(c) == view[c].stage = "live"

(* Reader::reachable: bytes or a marker at or after pos were released.      *)
Behind(pos) == \E r \in log : r.kind \in DataKind /\ pos <= r.at /\ r.at < tail

Pumpable(c) ==
  Live(c) /\ ~waiting[c] /\ (view[c].wanted # "-" \/ view[c].cpos < head)

(* pump(): a view the ticker, an Output event or a Dead event reaches.      *)
Pump(c) ==
  /\ Idle /\ Pumpable(c)
  /\ Decide(c)
  /\ UNCHANGED <<ring, pane, delivery, open, dead, owners, events, dispatching, conns>>

ResizeAhead(c, pos) ==
  \E r \in Between(pos, head) :
    r.kind = "marker" /\ TagOf(r).t = "resize" /\ view[c].coff <= r.off

(* decide(), with what pump_live() reads before it.                         *)
Decision_NeverBehind(c) ==   \* mutant: a released position is resumed
  IF view[c].blocked /\ End - view[c].coff >= Threshold THEN "skip"
  ELSE IF view[c].history = "screen" /\ ResizeAhead(c, view[c].cpos) THEN "snapshot"
  ELSE "resume"

Decision(c) ==
  IF view[c].blocked /\ End - view[c].coff >= Threshold THEN "skip"
  ELSE IF \/ Behind(view[c].cpos)
          \/ view[c].history = "screen" /\ ResizeAhead(c, view[c].cpos) THEN "snapshot"
  ELSE "resume"

Skip_Forgets(c) ==   \* mutant: a skip whose message waits asks for nothing
  \E s \in Sent([At(c) EXCEPT !.view.blocked = FALSE, !.view.coff = End,
                              !.mirror = Skipped(@, view[c].coff)]) :
    IF s.waiting
    THEN /\ Set(c, s)
         /\ UNCHANGED <<ring, pane, delivery, open, dead, owners, events>>
    ELSE Ask(c, "screen", s) /\ UNCHANGED load

Skip(c) ==
  \E s \in Sent([At(c) EXCEPT !.view.blocked = FALSE, !.view.coff = End,
                              !.view.wanted = "screen",
                              !.mirror = Skipped(@, view[c].coff)]) :
    IF s.waiting
    THEN /\ Set(c, s)
         /\ UNCHANGED <<ring, pane, delivery, open, dead, owners, events>>
    ELSE Ask(c, "screen", s) /\ UNCHANGED load

PumpLive(c) ==
  \/ ~Pumpable(c) /\ pc' = Rest
     /\ UNCHANGED <<ring, pane, delivery, open, dead, owners, events, conns>>
  \/ Pumpable(c) /\ view[c].wanted # "-" /\ pc' = Rest
     /\ Ask(c, view[c].wanted, At(c)) /\ UNCHANGED load
  \/ /\ Pumpable(c) /\ view[c].wanted = "-"
     /\ CASE Decision(c) = "skip" -> Skip(c) /\ pc' = Rest
          [] Decision(c) = "snapshot" ->
               /\ pc' = Rest /\ UNCHANGED load
               /\ Ask(c, IF Behind(view[c].cpos) THEN view[c].history ELSE "screen",
                      [At(c) EXCEPT !.view.blocked = FALSE])
          [] Decision(c) = "resume" ->
               /\ pc' = [pc EXCEPT !.at = "resume"]
               /\ Set(c, [At(c) EXCEPT !.view.blocked = FALSE,
                            !.view.cpos = IF @ < tail THEN tail ELSE @])
               /\ UNCHANGED <<ring, pane, delivery, open, dead, owners, events>>

Decides ==
  /\ pc.at = "decide"
  /\ PumpLive(pc.client)
  /\ UNCHANGED dispatching

(* resume(): the messages from the cursor to the head as it is now.         *)
Messages(c) ==
  {r \in Between(view[c].cpos, head) :
     \/ r.kind = "bytes" /\ OffAfter(r) > view[c].coff
     \/ r.kind = "marker"}

(* The client's copy after the messages of sent, one after another: after   *)
(* those that end at pos or before.                                         *)
Replay(c, sent) ==
  LET After(m, r) == IF r.kind = "marker" THEN AfterMarker(m, r, view[c].history)
                     ELSE AfterBytes(m, r, IF r.off < view[c].coff THEN view[c].coff ELSE r.off)
      upTo[pos \in 0 .. head] ==
        LET ended == {r \in sent : EndOf(r) = pos} IN
        IF pos = 0 THEN mirror[c]
        ELSE IF ended = {} THEN upTo[pos - 1]
        ELSE After(upTo[pos - 1], CHOOSE r \in ended : TRUE)
  IN  upTo[head]

(* The cursor is behind the last one; the offset moves with bytes alone.    *)
Moved(c, sent) ==
  IF sent = {} THEN At(c)
  ELSE [At(c) EXCEPT
          !.view.cpos = EndOf(Latest(sent)),
          !.view.coff = IF OffAfter(Latest(sent)) > @ THEN OffAfter(Latest(sent)) ELSE @,
          !.mirror = Replay(c, sent)]

(* flush_batch() stops where the output does: among bytes records, or after *)
(* the last of a batch.  A marker is always taken, by the queue if need be. *)
MayStop(sent, rest) ==
  \/ rest # {} /\ Earliest(rest).kind = "bytes"
  \/ sent # {} /\ Latest(sent).kind = "bytes"

Resume ==
  /\ pc.at = "resume"
  /\ LET c == pc.client
         msgs == Messages(c)
         all == [Moved(c, msgs) EXCEPT !.view.cpos = head]
     IN \/ Set(c, all)
        \/ /\ msgs # {} /\ Latest(msgs).kind = "marker"
           /\ Set(c, [all EXCEPT !.waiting = TRUE])
        \/ \E pos \in Starts :
             LET sent == {r \in msgs : r.at < pos} IN
             /\ Cardinality(sent) >= pc.then
             /\ MayStop(sent, msgs \ sent)
             /\ Set(c, [Moved(c, sent) EXCEPT !.view.blocked = TRUE, !.waiting = TRUE])
  /\ pc' = Rest
  /\ UNCHANGED <<ring, pane, delivery, open, dead, owners, events, dispatching>>

(* The socket has taken everything, and conn_ready pumps the view.          *)
Writable(c) ==
  /\ Idle /\ waiting[c]
  /\ waiting' = [waiting EXCEPT ![c] = FALSE]
  /\ Drained(c)
  /\ UNCHANGED <<ring, pane, delivery, open, dead, owners, events, dispatching, view, mirror>>

(* View::new and open(): a snapshot, or the records from an offset that the *)
(* ring still has.                                                          *)
Oldest == IF tail < head THEN (CHOOSE r \in log : r.at = tail).off ELSE End

ResumeAt(off) ==
  LET later == {r \in Between(tail, head) :
                  ~(IF r.kind = "bytes" THEN OffAfter(r) <= off ELSE r.off < off)}
  IN  IF later = {} THEN head ELSE Earliest(later).at

Open(c) ==
  /\ Idle /\ open /\ view[c].stage = "new"
  /\ \E history \in Histories :
       LET fresh == [At(c) EXCEPT !.view.stage = "live", !.view.cpos = tail,
                                  !.view.coff = End, !.view.history = history]
       IN \/ Ask(c, history, fresh) /\ UNCHANGED <<load, pc>>
          \/ \E off \in Oldest .. End :
               LET at == ResumeAt(off) IN
               /\ Set(c, [fresh EXCEPT !.view.cpos = at, !.view.coff = off,
                            !.mirror.off = off, !.mirror.mark = at,
                            !.mirror.missed = \E r \in Between(0, tail) :
                                                r.kind = "marker" /\ off <= r.off])
               /\ Decide(c)
               /\ UNCHANGED <<ring, pane, delivery, open, dead, owners, events>>
  /\ UNCHANGED dispatching

(* view_text: a resync request.                                             *)
Resync(c, history) ==
  /\ Idle /\ view[c].stage \in {"live", "snapshotting"} /\ Use("resync")
  /\ LET s == [At(c) EXCEPT !.view.wanted = history] IN
     IF Live(c) /\ ~waiting[c]
     THEN Ask(c, history, s)
     ELSE Set(c, s) /\ UNCHANGED <<ring, asks, serving, frames, full, life, tags,
                                   delivery, open, dead, owners, events>>
  /\ UNCHANGED <<dispatching, pc>>

(* The client goes away.                                                    *)
Leave(c) ==
  /\ Idle /\ view[c].stage \in {"live", "snapshotting"}
  /\ Use("leave")
  /\ Set(c, Closed(At(c), "left"))
  /\ UNCHANGED <<ring, asks, serving, frames, full, life, tags, delivery, server>>

-----------------------------------------------------------------------------
PaneStep == PaneBegins \/ PaneSlices \/ PaneFull

ServerStep ==
  \/ HandOver \/ EndScan \/ EndDone
  \/ ReadFrame \/ ReadEnd \/ Scan \/ TakeEvent
  \/ \E c \in Clients : Pump(c)
  \/ Decides \/ Resume

Next ==
  \/ PaneWrites \/ PaneResizes \/ PaneExits \/ PaneCrashes \/ PaneStep
  \/ ServerStep
  \/ \E c \in Clients : Writable(c) \/ Open(c) \/ Leave(c)
  \/ \E c \in Clients, history \in Histories : Resync(c, history)

(* The pane and the server run; a client whose output waits reads on.  The  *)
(* ticker runs while a view waits or output is produced (State::tick), and  *)
(* a head frame starts it (PaneLink's OutputRead).                          *)
Spec ==
  /\ Init /\ [][Next]_vars
  /\ WF_vars(PaneStep) /\ WF_vars(ServerStep)
  /\ \A c \in Clients : WF_vars(Writable(c))

-----------------------------------------------------------------------------
(* Properties.                                                              *)

InStep(c) ==
  /\ mirror[c].off = view[c].coff
  /\ {r \in Between(mirror[c].mark, view[c].cpos) : r.kind = "marker"} = {}
  /\ mirror[c].snap = 0 /\ ~mirror[c].skip

(* What a client is sent is the pane's output: each message continues its   *)
(* copy with no byte and no marker missed, repeated or out of order, slices *)
(* of two snapshots never mix, a skip is followed by a snapshot, and while  *)
(* a view is live its cursor says exactly how far the copy is (view.rs:     *)
(* pump_live, resume, flush_batch, on_slice, on_done).                      *)
MirrorTrue ==
  \A c \in Clients :
    mirror[c].end = "-" =>
      /\ mirror[c].true
      /\ Live(c) /\ view[c].wanted = "-" => InStep(c)

(* A view is refused only because the pane process is gone, and the server  *)
(* gives a pane up for nothing else: no slice comes early, none is released *)
(* before it is taken, and every done frame finds its view where the ring   *)
(* says it is (Fault::EarlySlice, Invalid::Slice, on_done's mismatch).      *)
RefusedOnlyGone ==
  /\ \A c \in Clients : mirror[c].end = "rejected" => ~open
  /\ ~open => life = "gone"

Serials(waits) == {waits[i].serial : i \in DOMAIN waits}

(* Every request is owed exactly one answer: it is in one place, one of     *)
(* Delivery's queues or the events, and a view that waits for it is its     *)
(* owner.  Only a request that found the pane process gone has no owner:    *)
(* one, whose answer comes with those of the failure (the owners map of     *)
(* state.rs against Delivery.requests, finished and PaneProc::snapshot).    *)
AnswerOwed ==
  LET dones == {i \in DOMAIN events : events[i].t = "done"}
      owed  == Serials(requests) \cup Serials(finished) \cup {events[i].serial : i \in dones}
      owned == {o[1] : o \in owners}
  IN  /\ owned \subseteq owed
      /\ Cardinality(owed) = Len(requests) + Len(finished) + Cardinality(dones)
      /\ owed # owned =>
           ~open /\ \E i \in dones : owed \ owned = {events[i].serial}
      /\ \A c \in Clients : view[c].stage = "snapshotting" => <<view[c].serial, c>> \in owners

Settled(c) ==
  Live(c) /\ view[c].wanted = "-" /\ view[c].cpos = head /\ mirror[c].off = End

(* Every view whose client reads ends with all of the pane's output and a   *)
(* live stream, or closed: no snapshot, skip or stall leaves one waiting.   *)
ViewsCatchUp ==
  \A c \in Clients : <>[](view[c].stage \in {"new", "closed"} \/ Settled(c))

(* docs/protocol.md:338: a death marker is applied at its offset.           *)
DeathAtItsOffset ==
  \A c \in Clients : mirror[c].death # -1 =>
    \E r \in log : r.kind = "marker" /\ TagOf(r).t = "dead" /\ r.off = mirror[c].death

(* docs/protocol.md:387: a partial mirror gets a snapshot after a resize.   *)
PartialRefreshed == \A c \in Clients : Settled(c) => ~mirror[c].reflowed

(* docs/protocol.md:396: the view begins with the bytes and the markers     *)
(* since its offset.                                                        *)
ResumedWhole == \A c \in Clients : Settled(c) => ~mirror[c].missed
=============================================================================
