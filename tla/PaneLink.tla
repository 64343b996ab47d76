------------------------------ MODULE PaneLink ------------------------------
(***************************************************************************)
(* One pane process (ko_pane) and the server (ko_server) that owns it: the *)
(* shared ring between them, the control socket in both directions, the    *)
(* pane's turn (control frames, pty reads, death, history clear), its      *)
(* nested wait for room, and the server's scans, which a head frame starts *)
(* and a timer continues.                                                  *)
(*                                                                         *)
(* Payloads are lengths.  The header, the buffer and the lengths of the    *)
(* markers are parameters, so that a small buffer has the same corners as  *)
(* the real one: room for less than a marker before the end of the buffer, *)
(* a pad, a ring that is full.  The two accesses of a commit and the two   *)
(* ends of a scan are steps of their own; module Ring splits them further. *)
(***************************************************************************)
EXTENDS RingFormat, Filter, Sequences, FiniteSets, SequencesExt

CONSTANTS
  ResizeLen, DeadLen, ClearLen, (* 9, 17 and 4 in the code                  *)
  Batch,                        (* bound: Output events of one read of the  *)
                                (* socket (the code bounds its reads)       *)
  Budgets                       (* bounds: how often each request is sent,  *)
                                (* the bytes the program writes and whether *)
                                (* it exits                                 *)

Requests == {"screen", "resize", "clear", "exit"}

ASSUME LengthsAssumption ==
  /\ {ResizeLen, DeadLen, ClearLen} \subseteq Nat \ {0}
  /\ \A len \in {ResizeLen, DeadLen, ClearLen} : 2 * Header + len <= Capacity \div 2
  /\ Batch \in Nat \ {0}
  /\ Budgets \subseteq [Requests \cup {"output", "die"} -> Nat]

VARIABLES
  (* the ring: its three words, and the records not yet released            *)
  head, tail, read, recs,
  (* the control socket, and the program on the pty                         *)
  toPane, toServer,
  ptyLeft,   (* bytes it has still to write                                 *)
  child,     (* "running", or "exited" once the OS would report its exit    *)
  (* the pane process                                                       *)
  pc,        (* where its turn is                                           *)
  job,       (* what it wants room for: [t, min, req, next]                 *)
  room,      (* what available() answered last                              *)
  wtail,     (* Writer.tail                                                 *)
  pend,      (* the record being committed: [kind, len, at, then]           *)
  input, deferred, output, (* Io.input, Io.deferred, Out.output             *)
  flags,     (* of Out.full, Out.stopping, Out.child_signal, Live.clear_due *)
             (* and Process.eof those that are set; "pipe" for a SIGCHLD    *)
             (* waiting in the signal pipe                                  *)
  life,      (* Process.life                                                *)
  (* the server                                                             *)
  open,      (* the pane's stage is Open                                    *)
  seen, observed, busy, ticker,
  phase,     (* "idle", "read" a batch of frames, "dispatch" its events     *)
  scan,      (* why a scan is under way, or "none"                          *)
  outputs,   (* the Event::Output on_frame pushed and dispatch has to take  *)
  died,      (* PaneProc.dead                                               *)
  (* the clients' requests, numbered in the order they were sent, and the   *)
  (* history of those applied                                               *)
  sent, budget, applied

ring   == <<head, tail, read, recs>>
pty    == <<ptyLeft, child>>
pane   == <<pc, job, room, wtail, pend, input, deferred, output, flags, life>>
server == <<open, seen, observed, busy, ticker, phase, scan, outputs, died>>
load   == <<sent, budget>>
vars   == <<ring, toPane, toServer, pty, pane, server, load, applied>>

Idling == [t |-> "pty", min |-> 1, req |-> 0, next |-> "dead"]
None   == [kind |-> "pad", len |-> 0, at |-> 0, then |-> "poll"]

Init ==
  /\ budget \in Budgets
  /\ head = 0 /\ tail = 0 /\ read = 0 /\ recs = {}
  /\ toPane = <<>> /\ toServer = <<>>
  /\ ptyLeft = budget["output"] /\ child = "running"
  /\ pc = "poll" /\ job = Idling /\ room = 0 /\ wtail = 0 /\ pend = None
  /\ input = <<>> /\ deferred = <<>> /\ output = <<>>
  /\ flags = {} /\ life = "running"
  /\ open = TRUE /\ seen = 0 /\ observed = 0 /\ busy = FALSE /\ ticker = FALSE
  /\ phase = "idle" /\ scan = "none" /\ outputs = 0 /\ died = FALSE
  /\ sent = 0 /\ applied = <<>>

-----------------------------------------------------------------------------
(* The program on the pty.                                                  *)

ChildExits ==
  /\ child = "running" /\ budget["die"] > 0
  /\ child' = "exited"
  /\ flags' = flags \cup {"pipe"}
  /\ UNCHANGED <<ring, toPane, toServer, ptyLeft, pc, job, room, wtail, pend,
                 input, deferred, output, life, server, load, applied>>

(* A read at the end of its output returns 0 once it has exited.            *)
PtyEnded    == child = "exited" /\ ptyLeft = 0

-----------------------------------------------------------------------------
(* The pane's turn.  pc is                                                  *)
(*   poll      waiting for the socket, a signal, the pty or a timer         *)
(*   route     handling the control frames it read                          *)
(*   settle    taking the child's exit, on the way to the pty               *)
(*   avail     calling available() for job;  use: deciding on its answer    *)
(*   blocked   in wait_space's nested poll                                  *)
(*   publish, published       between the accesses of a commit              *)
(*   dead, clear, flush       the rest of the turn;  stopped: left it       *)

Start(what, min, req, next) ==
  /\ job' = [t |-> what, min |-> min, req |-> req, next |-> next]
  /\ pc' = "avail"

(* poll returns what is ready: frames, a signal, and the pty, which is not  *)
(* watched while the ring is announced full or after its end.  A turn of a  *)
(* timer alone reads the pty only while an exit is pending.                 *)
Wake ==
  /\ pc = "poll" /\ "stopping" \notin flags
  /\ \/ toPane # <<>>
     \/ "pipe" \in flags
     \/ (ptyLeft > 0 \/ PtyEnded) /\ flags \cap {"full", "eof"} = {}
     \/ life = "exited" /\ "eof" \notin flags
  /\ input' = toPane /\ toPane' = <<>>
  /\ flags' = IF "pipe" \in flags THEN (flags \ {"pipe"}) \cup {"signal"} ELSE flags
  /\ IF toPane # <<>>
     THEN pc' = "route" /\ job' = [Idling EXCEPT !.t = "urgent"]
     ELSE /\ pc' = "settle"
          /\ job' = [Idling EXCEPT !.t = IF "pipe" \in flags THEN "urgent" ELSE "pty"]
  /\ UNCHANGED <<ring, toServer, pty, room, wtail, pend, deferred, output, life,
                 server, load, applied>>

Stop ==
  /\ pc = "poll" /\ "stopping" \in flags
  /\ pc' = "stopped"
  /\ UNCHANGED <<ring, toPane, toServer, pty, job, room, wtail, pend, input, deferred,
                 output, flags, life, server, load, applied>>

FlagsAfter(frame) ==
  CASE frame.t = "tail"  -> flags \ {"full"}
    [] frame.t = "exit"  -> flags \cup {"stopping"}
    [] frame.t = "clear" -> flags \cup {"clear"}
    [] OTHER             -> flags

(* control(): one frame of what was read.  A resize first waits for room,   *)
(* and counts as applied once its marker is committed.                      *)
Route ==
  /\ pc = "route" /\ input # <<>>
  /\ input' = Tail(input)
  /\ LET frame == Head(input) IN
     /\ applied' = (IF frame.t \in {"tail", "resize"} THEN applied ELSE Append(applied, frame.req))
     /\ flags' = FlagsAfter(frame)
     /\ CASE frame.t = "resize" -> Start("resize", ResizeLen, frame.req, "route")
          [] frame.t = "clear"  -> Start("clear", ClearLen, 0, "route")
          [] OTHER              -> UNCHANGED <<pc, job>>
  /\ UNCHANGED <<ring, toPane, toServer, pty, room, wtail, pend, deferred, output, life,
                 server, load>>

(* Its end: the frames a nested wait deferred are run next, then the turn   *)
(* goes on with an urgent read of the pty.                                  *)
Routed ==
  /\ pc = "route" /\ input = <<>>
  /\ IF deferred # <<>>
     THEN input' = deferred /\ deferred' = <<>> /\ UNCHANGED <<pc, job>>
     ELSE pc' = "settle" /\ job' = [Idling EXCEPT !.t = "urgent"] /\ UNCHANGED <<input, deferred>>
  /\ UNCHANGED <<ring, toPane, toServer, pty, room, wtail, pend, output, flags, life,
                 server, load, applied>>

(* settle_child().                                                          *)
Settle ==
  /\ pc = "settle"
  /\ pc' = "avail"
  /\ flags' = flags \ {"signal"}
  /\ life' = IF "signal" \in flags /\ life = "running" THEN child ELSE life
  /\ UNCHANGED <<ring, toPane, toServer, pty, job, room, wtail, pend, input, deferred,
                 output, server, load, applied>>

(* What is committed next, and where the turn goes on after it.             *)
Write(kind, len, then) ==
  /\ pend' = [kind |-> kind, len |-> len, at |-> head, then |-> then]
  /\ pc' = "publish"

PadDue ==
  AtPad(head) /\ ToEnd(head) <= Free(head, tail) /\ Fits(head, tail, PadLen(head))

(* available(), with the pad of the buffer's end.                           *)
Available ==
  /\ pc = "avail"
  /\ wtail' = tail
  /\ IF PadDue
     THEN room' = LapRoom(head, tail) /\ Write("pad", PadLen(head), "use")
     ELSE room' = Room(head, tail) /\ pc' = "use" /\ UNCHANGED pend
  /\ UNCHANGED <<ring, toPane, toServer, pty, job, input, deferred, output, flags, life,
                 server, load, applied>>

Announce(frame) == output' = Append(output, frame)

AnnounceFull ==
  /\ flags' = flags \cup {"full"}
  /\ IF "full" \in flags THEN UNCHANGED output ELSE Announce("full")

(* read_pty() and clear_history() give up when there is no room ...         *)
NoRoom ==
  /\ pc = "use" /\ job.t \in {"pty", "urgent", "clear"} /\ room = 0
  /\ AnnounceFull
  /\ pc' = job.next
  /\ UNCHANGED <<ring, toPane, toServer, pty, job, room, wtail, pend, input, deferred, life,
                 server, load, applied>>

(* ... read_pty() else reads what there is, up to the room, perhaps to the  *)
(* end; a read that a frame or a signal made urgent may find nothing.       *)
ReadPty(n, ended) ==
  /\ pc = "use" /\ job.t \in {"pty", "urgent"} /\ room > 0
  /\ n <= Lesser(room, ptyLeft)
  /\ n = 0 => ptyLeft = 0 \/ job.t = "urgent"
  /\ ended => PtyEnded \/ (child = "exited" /\ n = ptyLeft /\ n < room)
  /\ PtyEnded => ended
  /\ ptyLeft' = ptyLeft - n
  /\ flags' = IF ended THEN flags \cup {"eof"} ELSE flags
  /\ IF n = 0 THEN pc' = job.next /\ UNCHANGED pend ELSE Write("bytes", n, job.next)
  /\ UNCHANGED <<ring, toPane, toServer, child, job, room, wtail, input, deferred, output,
                 life, server, load, applied>>

Filler_GivesUp ==   \* mutant: too little room ends the attempt
  pc' = job.next /\ UNCHANGED pend

Filler == Write("pad", room, "avail")

(* clear_history(): the escape sequence when it fits, else a pad that uses  *)
(* up the room, until it does.                                              *)
Clear ==
  /\ pc = "use" /\ job.t = "clear" /\ room > 0
  /\ IF room >= ClearLen
     THEN flags' = flags \ {"clear"} /\ Write("bytes", ClearLen, job.next)
     ELSE Filler /\ UNCHANGED flags
  /\ UNCHANGED <<ring, toPane, toServer, pty, job, room, wtail, input, deferred, output,
                 life, server, load, applied>>

Enough == room >= job.min

(* wait_space(): block when there is too little room, ...                   *)
Block ==
  /\ pc = "use" /\ job.t \in {"resize", "dead"}
  /\ ~Enough /\ "stopping" \notin flags
  /\ AnnounceFull
  /\ pc' = "blocked"
  /\ UNCHANGED <<ring, toPane, toServer, pty, job, room, wtail, pend, input, deferred, life,
                 server, load, applied>>

(* ... leave the turn when told to stop, else write the marker.             *)
PutMarker ==
  /\ pc = "use" /\ job.t \in {"resize", "dead"}
  /\ Enough \/ "stopping" \in flags
  /\ IF "stopping" \in flags
     THEN pc' = "stopped" /\ UNCHANGED pend
     ELSE Write(job.t, job.min, job.next)
  /\ UNCHANGED <<ring, toPane, toServer, pty, job, room, wtail, input, deferred, output, flags,
                 life, server, load, applied>>

Nested_OnlyNew ==   \* mutant: frames that control() has not come to are lost
  toPane

Nested == IF toPane = <<>> THEN <<>> ELSE input \o toPane

Acting_TailOnly == {"tail"}   \* mutant: exit waits with the other frames

Acting == {"tail", "exit"}

(* poll_once() in wait_space(), with no deadline: it returns for a signal,  *)
(* for frames, and at once while there is output to write.  Frames go       *)
(* through nested_control(): tail and exit act, the others are deferred,    *)
(* together with those that control() has not come to.                      *)
Blocked ==
  /\ pc = "blocked"
  /\ toPane # <<>> \/ "pipe" \in flags \/ output # <<>>
  /\ toServer' = toServer \o output
  /\ output' = <<>>
  /\ LET kinds == {f.t : f \in Range(Nested)} \cap Acting
     IN  /\ deferred' = deferred \o Only(Nested, {f \in Range(Nested) : f.t \notin Acting})
         /\ input' = IF toPane = <<>> THEN input ELSE <<>>
         /\ flags' = (flags \ ({"pipe"} \cup IF "tail" \in kinds THEN {"full"} ELSE {}))
                     \cup (IF "pipe" \in flags THEN {"signal"} ELSE {})
                     \cup (IF "exit" \in kinds THEN {"stopping"} ELSE {})
  /\ toPane' = <<>>
  /\ pc' = "avail"
  /\ UNCHANGED <<ring, pty, job, room, wtail, pend, life, server, load, applied>>

(* commit(): the Head store, then the Read load that decides whether the    *)
(* reader is told, then what the caller does next.                          *)
Publish ==
  /\ pc = "publish"
  /\ head' = head + Header + pend.len
  /\ recs' = recs \cup {[kind |-> pend.kind, at |-> pend.at]}
  /\ pc' = "published"
  /\ UNCHANGED <<tail, read, toPane, toServer, pty, job, room, wtail, pend, input, deferred,
                 output, flags, life, server, load, applied>>

Idle == read = pend.at

Told_Marker == <<>>   \* mutant: the marker is all the server gets

Told == IF pend.kind = "dead" THEN <<"dead">> ELSE <<>>

Published ==
  /\ pc = "published"
  /\ output' = output \o (IF Idle THEN <<"head">> ELSE <<>>) \o Told
  /\ life' = IF pend.kind = "dead" THEN "dead" ELSE life
  /\ applied' = IF pend.kind = "resize" THEN Append(applied, job.req) ELSE applied
  /\ pc' = pend.then
  /\ UNCHANGED <<ring, toPane, toServer, pty, job, room, wtail, pend, input, deferred, flags,
                 server, load>>

Died == life = "exited" /\ "eof" \in flags

(* The rest of the turn: dead(), clear_history(), flush().                  *)
Dead ==
  /\ pc = "dead"
  /\ IF Died
     THEN Start("dead", DeadLen, 0, "clear")
     ELSE pc' = "clear" /\ UNCHANGED job
  /\ UNCHANGED <<ring, toPane, toServer, pty, room, wtail, pend, input, deferred, output,
                 flags, life, server, load, applied>>

ClearDue ==
  /\ pc = "clear"
  /\ IF "clear" \in flags
     THEN Start("clear", ClearLen, 0, "flush")
     ELSE pc' = "flush" /\ UNCHANGED job
  /\ UNCHANGED <<ring, toPane, toServer, pty, room, wtail, pend, input, deferred, output,
                 flags, life, server, load, applied>>

Flush ==
  /\ pc = "flush"
  /\ toServer' = toServer \o output
  /\ output' = <<>>
  /\ pc' = "poll"
  /\ UNCHANGED <<ring, toPane, pty, job, room, wtail, pend, input, deferred, flags, life,
                 server, load, applied>>

PaneStep ==
  \/ Wake \/ Stop \/ Route \/ Routed \/ Settle
  \/ Available \/ NoRoom \/ Clear \/ Block \/ PutMarker \/ Blocked
  \/ \E n \in 0 .. ptyLeft, ended \in BOOLEAN : ReadPty(n, ended)
  \/ Publish \/ Published
  \/ Dead \/ ClearDue \/ Flush

-----------------------------------------------------------------------------
(* The server.  One thread: a batch of frames is read, its events are       *)
(* dispatched, and the ticker is due between turns.                         *)

Send(t) ==
  /\ open /\ phase = "idle" /\ scan = "none"
  /\ budget[t] > 0
  /\ budget' = [budget EXCEPT ![t] = @ - 1]
  /\ sent' = sent + 1
  /\ toPane' = Append(toPane, [t |-> t, req |-> sent + 1])
  /\ open' = (t # "exit")   \* shutdown() sends exit and closes the stage
  /\ UNCHANGED <<ring, toServer, pty, pane, seen, observed, busy, ticker, phase, scan, outputs,
                 died, applied>>

(* on_frame(): a head leaves an Output event; full scans and answers with   *)
(* the tail before it does.                                                 *)
ReadFrame ==
  /\ open /\ phase \in {"idle", "read"} /\ scan = "none"
  /\ toServer # <<>> /\ outputs < Batch
  /\ toServer' = Tail(toServer)
  /\ phase' = "read"
  /\ outputs' = outputs + (IF Head(toServer) = "head" THEN 1 ELSE 0)
  /\ scan' = IF Head(toServer) = "full" THEN "full" ELSE "none"
  /\ died' = (died \/ Head(toServer) = "dead")
  /\ UNCHANGED <<ring, toPane, pty, pane, open, seen, observed, busy, ticker, load, applied>>

ReadEnds ==
  /\ open /\ phase = "read" /\ scan = "none"
  /\ phase' = "dispatch"
  /\ UNCHANGED <<ring, toPane, toServer, pty, pane, open, seen, observed, busy, ticker, scan,
                 outputs, died, load, applied>>

Storing == [full |-> "full store", output |-> "output store", tick |-> "tick store"]

(* Delivery::scan(): the load of Head that it is about, ...                 *)
ScanLoad ==
  /\ open /\ scan \in {"full", "output", "tick"}
  /\ seen' = head
  /\ observed' = head
  /\ busy' = (head # observed)
  /\ scan' = Storing[scan]
  /\ UNCHANGED <<ring, toPane, toServer, pty, pane, open, ticker, phase, outputs, died, load, applied>>

(* ... and the stores of Tail and Read, where nothing waits for a snapshot. *)
Boundaries == {r.at : r \in {q \in recs : q.at < seen}} \cup {seen}

Released(to) ==
  LET limit == Retain(seen, seen) IN
  limit <= to /\ \A b \in Boundaries : limit <= b => to <= b

Answers_Never == FALSE   \* mutant: full is taken as a head frame

Answers == scan = Storing["full"]

Ticking_Stops == IF scan = Storing["tick"] THEN FALSE ELSE ticker   \* mutant

Ticking == IF scan = Storing["tick"] THEN busy ELSE ticker

ScanStore ==
  /\ open /\ scan \in Range(Storing)
  /\ \E to \in Boundaries :
       /\ Released(to)
       /\ tail' = to
       /\ recs' = {r \in recs : r.at >= to}
  /\ read' = seen
  /\ scan' = "none"
  /\ toPane' = IF Answers THEN Append(toPane, [t |-> "tail", req |-> 0]) ELSE toPane
  /\ outputs' = outputs + (IF scan = Storing["full"] THEN 1 ELSE 0)
  /\ ticker' = Ticking
  /\ UNCHANGED <<head, toServer, pty, pane, open, seen, observed, busy, phase, died, load, applied>>

(* dispatch(): Event::Output scans unless the ticker will.                  *)
DispatchOutput ==
  /\ open /\ phase = "dispatch" /\ scan = "none" /\ outputs > 0
  /\ outputs' = outputs - 1
  /\ ticker' = TRUE
  /\ scan' = IF ~ticker \/ ~busy THEN "output" ELSE "none"
  /\ UNCHANGED <<ring, toPane, toServer, pty, pane, open, seen, observed, busy, phase, died, load, applied>>

Dispatched ==
  /\ open /\ phase = "dispatch" /\ scan = "none" /\ outputs = 0
  /\ phase' = "idle"
  /\ UNCHANGED <<ring, toPane, toServer, pty, pane, open, seen, observed, busy, ticker, scan,
                 outputs, died, load, applied>>

(* tick(): scan, and stop the ticker when nothing came.                     *)
Tick ==
  /\ open /\ phase = "idle" /\ scan = "none" /\ ticker
  /\ scan' = "tick"
  /\ UNCHANGED <<ring, toPane, toServer, pty, pane, open, seen, observed, busy, ticker, phase,
                 outputs, died, load, applied>>

ServerStep ==
  \/ ReadFrame \/ ReadEnds \/ ScanLoad \/ ScanStore
  \/ DispatchOutput \/ Dispatched \/ Tick

Next ==
  \/ ChildExits
  \/ PaneStep
  \/ \E t \in Requests : Send(t)
  \/ ServerStep

Spec == Init /\ [][Next]_vars

(* Both processes are loops around poll: neither rests while it can go on.  *)
(* Nothing makes a client send a request or the program exit.               *)
FairSpec == Spec /\ WF_vars(PaneStep) /\ WF_vars(ServerStep)

-----------------------------------------------------------------------------
(* Properties.                                                              *)

Frame == [t : Requests \cup {"tail"}, req : Nat]

(* The variables keep their ranges.                                         *)
TypeOK ==
  /\ {head, tail, read, ptyLeft, room, wtail, seen, observed, outputs, sent} \subseteq Nat
  /\ recs \subseteq [kind : {"bytes", "pad", "resize", "dead"}, at : Nat]
  /\ {toPane, input, deferred} \subseteq Seq(Frame)
  /\ {toServer, output} \subseteq Seq({"head", "full", "dead"})
  /\ child \in {"running", "exited"} /\ life \in {"running", "exited", "dead"}
  /\ pc \in {"poll", "route", "settle", "avail", "use", "blocked", "publish", "published",
             "dead", "clear", "flush", "stopped"}
  /\ flags \subseteq {"full", "stopping", "signal", "clear", "eof", "pipe"}
  /\ {open, busy, ticker, died} \subseteq BOOLEAN
  /\ phase \in {"idle", "read", "dispatch"}

Times(seq, x) == Cardinality({i \in DOMAIN seq : seq[i] = x})
TailFrame     == [t |-> "tail", req |-> 0]

(* The pane believes the ring is full exactly while one question about it   *)
(* is under way: one full frame, or its scan, or one tail frame.  So a full *)
(* pane is always about to hear of room, and never asks twice               *)
(* (Out::announce_full, on_frame of Full, Request::Tail).                   *)
FullIsOutstanding ==
  Times(output \o toServer, "full") + Times(toPane \o input, TailFrame)
    + (IF scan \in {"full", Storing["full"]} THEN 1 ELSE 0)
  = (IF "full" \in flags THEN 1 ELSE 0)

(* When nothing will make the server look at the ring again, it has seen    *)
(* all of it (Commit::Idle, Event::Output, tick).                           *)
QuietIsCaughtUp ==
  /\ open /\ ~ticker /\ scan = "none" /\ outputs = 0
  /\ {"head", "full"} \cap Range(output \o toServer) = {}
  /\ pc # "published"
  => observed = head

(* A commit is never refused, whichever caller makes it after whichever     *)
(* wait: a refusal stops the pane (Out::published, Commit::Refused).        *)
NeverRefused == pc = "publish" => Fits(head, wtail, pend.len)

(* The Dead marker comes after everything the program wrote, and the server *)
(* hears of the death after the marker (Pane::dead).                        *)
DeadIsLast ==
  /\ pend.kind = "dead" \/ life = "dead" => ptyLeft = 0 /\ child = "exited"
  /\ died \/ "dead" \in Range(output \o toServer) => life = "dead"

(* No record is refused, no head is left unnoticed, no full is forgotten,   *)
(* and every request is applied once, or waits: on the socket, among the    *)
(* frames read, among those a nested wait deferred, or as the resize that   *)
(* waits for room. A nested wait loses none (Out::published, Commit::Idle,  *)
(* Io::nested_control, Pane::control).                                      *)
Resizing ==
  IF job.t = "resize" /\ pc \in {"avail", "use", "blocked", "publish", "published"}
  THEN {job.req} \ Range(applied)
  ELSE {}

Waiting == {f.req : f \in Range(input) \cup Range(deferred) \cup Range(toPane)} \ {0}

NothingLost ==
  /\ NeverRefused /\ QuietIsCaughtUp /\ FullIsOutstanding
  /\ pc # "stopped" /\ "stopping" \notin flags =>
       /\ Range(applied) \cup Waiting \cup Resizing = 1 .. sent
       /\ Len(applied) + Cardinality(Waiting) + Cardinality(Resizing) = sent

(* A head the pane published is seen by a scan (Commit::Idle, the ticker).  *)
CaughtUp == open /\ observed # head ~> observed = head \/ ~open

(* A pane that found the ring full asks once, and hears that there is room. *)
FullAnswered == open /\ "full" \in flags ~> "full" \notin flags \/ ~open

(* A full ring delays the program's output, but all of it is read.          *)
OutputRead == <>(ptyLeft = 0 \/ ~open)

(* Every request takes effect, a clear of the history when there is room.   *)
RequestsApplied ==
  \A n \in 1 .. 2 : open /\ sent >= n ~> n \in Range(applied) \/ ~open
ClearDone == open /\ "clear" \in flags ~> "clear" \notin flags \/ ~open

(* The server hears of the program's exit, after all that it wrote.         *)
DeathTold == []DeadIsLast /\ (open /\ child = "exited" ~> died \/ ~open)

(* A pane that was told to exit leaves its turn, whatever it waits for.     *)
ExitStops == ~open ~> pc = "stopped"
=============================================================================
