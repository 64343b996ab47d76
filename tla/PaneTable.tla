----------------------------- MODULE PaneTable -----------------------------
(* The panes of the server: the document, the table of panes and those that *)
(* were removed (panes.rs), the stops that wait (state/pane_ops.rs), the    *)
(* sweep (state/sweep.rs) and the processes that keep the panes.            *)
(*                                                                          *)
(* A reply that was held may be followed on its connection by requests that *)
(* were sent before it: answering serves them at once, inside the handler   *)
(* that answered.  `calls` is what the handler that runs has still to do.   *)
EXTENDS Integers, SequencesExt, FiniteSets

CONSTANTS Panes,     \* the numbers of the panes, each given out once
          Conns,     \* connections of requests
          Parents,   \* of each pane: the parents that it may be given
          Close,     \* of each pane: "exit", "on_exit" or "keep"
          Groups,    \* what one delete removes: a pane, a window, a session
          Batches,   \* the panes that one put of the layout creates, in order
          None

ASSUME PaneTableAssumption ==
  /\ None \notin Panes \cup Conns
  /\ Parents \in [Panes -> SUBSET (Panes \cup {None})]
  /\ Close \in [Panes -> {"exit", "on_exit", "keep"}]
  /\ Groups \subseteq SUBSET Panes
  /\ \A b \in Batches : b \in Seq(Panes) /\ IsInjective(b)

VARIABLES
  doc,        \* the panes of the document
  table,      \* Panes.panes, in order
  removed,    \* Panes.removed
  parent,     \* of the pane, when it was made: a pane, or None
  row,        \* what ended the pane, as its row says: PaneProc.dead
  life,       \* PaneProc.stage
  proc,       \* the pane process: "none", "run", "killed", "zombie", "gone"
  sigchld,    \* a process ended and the server has not looked
  waits,      \* Stops.waits
  doomed,     \* Stops.doomed
  escalation, \* Stops.escalation: the pane whose deadline it is set for
  due,        \* Sweep.due, for the next tick of the model
  linger,     \* the panes whose grace runs when Sweep.timer is armed
  old,        \* panes that have been dead for the grace
  shown,      \* the pane that a focused client shows
  withheld,   \* State.withheld
  held,       \* State.held: deaths of withheld panes
  conn,       \* what the reply of each connection waits for
  passed,     \* connections whose wait on a runtime is over
  calls       \* what the handler that runs has still to do

panes   == <<doc, table, removed>>
procs   == <<parent, row, life, proc, sigchld>>
stops   == <<waits, doomed, escalation>>
sweeps  == <<due, linger, old, shown>>
batch   == <<withheld, held>>
replies == <<conn, passed>>
vars == <<panes, procs, stops, sweeps, batch, replies, calls>>
----------------------------------------------------------------------------
Call(op, who, more) == [op |-> op, who |-> who, more |-> more]
Plain(op)        == Call(op, None, <<>>)
For(op, who)     == Call(op, who, <<>>)
Death(p, cause)  == Call("dead", p, cause)
Drop(ps)       == Call("delete", None, ps)

\* sweep_soon, and then settle_stops
Settle == <<Plain("settle")>>

AtRest == calls = <<>>
Do(op) == ~AtRest /\ Head(calls).op = op
Who  == Head(calls).who
More == Head(calls).more
Then(next) == calls' = next \o Tail(calls)
Handler(s) == AtRest /\ calls' = s

Idle    == [kind |-> "idle", pane |-> None]
Held(kind, p) == [kind |-> kind, pane |-> p]

InTable(p) == p \in ToSet(table)
Dead(p) == row[p] # "live"
Lives(p) == InTable(p) /\ ~Dead(p)         \* Standing::Live
----------------------------------------------------------------------------
(* delete_pane, delete_window, delete_session: the document goes first; each *)
(* pane is then stopped.  Senders that wait on its queue are answered while  *)
(* it is still in the table, and runtime waits that are over after it left.  *)
Stopped(p) == <<For("senders", p), For("take", p), Plain("passed")>>

Delete ==
  /\ Do("delete")
  /\ LET ps == More \cap doc
     IN /\ doc' = doc \ ps
        /\ Then(IF ps = {} THEN <<>>
                ELSE FlattenSeq([i \in DOMAIN SetToSeq(ps) |->
                                   Stopped(SetToSeq(ps)[i])])
                     \o Settle \o <<Plain("changed")>>)
  /\ UNCHANGED <<table, removed, procs, stops, sweeps, batch, replies>>

(* Panes::remove: the process is told to exit and its socket is closed.     *)
Take ==
  /\ Do("take") /\ Then(<<>>)
  /\ IF InTable(Who)
     THEN /\ table' = SelectSeq(table, LAMBDA p : p # Who)
          /\ removed' = removed \cup {Who}
          /\ life' = [life EXCEPT ![Who] = IF @ = "open" THEN "closed" ELSE @]
     ELSE UNCHANGED <<table, removed, life>>
  /\ UNCHANGED <<doc, parent, row, proc, sigchld, stops, sweeps, batch, replies>>

(* kill_pane: what lived when it was removed is doomed, and arm_escalation  *)
(* sets the timer to the earliest deadline.  All delays are the same, so    *)
(* `doomed` is in the order of its deadlines.                               *)
Earliest_Last(ps) == IF ps = <<>> THEN None ELSE Last(ps)
Earliest(ps)      == IF ps = <<>> THEN None ELSE Head(ps)

Kill ==
  /\ Do("kill")
  /\ Then(<<Drop({Who})>> \o (IF Lives(Who) THEN <<For("doom", Who)>> ELSE <<>>))
  /\ UNCHANGED <<panes, procs, stops, sweeps, batch, replies>>

Doom ==
  /\ Do("doom") /\ Then(<<>>)
  /\ doomed' = Append(doomed, Who)
  /\ escalation' = Earliest(doomed')
  /\ UNCHANGED <<waits, panes, procs, sweeps, batch, replies>>

(* answer_stop, for a stop that left the list.                              *)
AnswerStop(s) == <<For("kill", s.pane), For("reply", s.conn)>>

(* sweep_soon and settle_stops: the stops of panes that are gone or dead.   *)
Over_Gone(s) == ~InTable(s.pane)
Over(s) == ~InTable(s.pane) \/ Dead(s.pane)

SettleStops ==
  /\ Do("settle")
  /\ due' = TRUE
  /\ LET ended == SelectSeq(waits, Over)
     IN /\ waits' = SelectSeq(waits, LAMBDA s : ~Over(s))
        /\ Then(FlattenSeq([i \in DOMAIN ended |-> AnswerStop(ended[i])]))
  /\ UNCHANGED <<doomed, escalation, linger, old, shown, panes, procs, batch,
                 replies>>

(* changed: a client whose pane left the document shows another, or none;   *)
(* refocus sweeps when the shown panes changed.                             *)
Shows_Unswept(p) == shown' = p /\ UNCHANGED due
Shows(p) ==
  /\ shown' = p
  /\ due' = (due \/ p # shown)

Changed ==
  /\ Do("changed") /\ Then(<<>>)
  /\ IF shown \in doc \cup {None} THEN UNCHANGED <<shown, due>>
     ELSE \E p \in doc \cup {None} : Shows(p)
  /\ UNCHANGED <<linger, old, panes, procs, stops, batch, replies>>
----------------------------------------------------------------------------
(* A reply, and the next request of its connection.                         *)
Reply ==
  /\ Do("reply")
  /\ conn' = [conn EXCEPT ![Who] = Idle]
  /\ Then(<<For("next", Who)>>)
  /\ UNCHANGED <<passed, panes, procs, stops, sweeps, batch>>

(* answer_waits: the senders of a pane that ended leave the list, and each  *)
(* is answered.                                                             *)
Senders ==
  /\ Do("senders")
  /\ LET told == {c \in Conns : conn[c] = Held("post", Who)}
     IN /\ conn' = [c \in Conns |-> IF c \in told THEN Held("told", None) ELSE conn[c]]
        /\ Then([i \in DOMAIN SetToSeq(told) |-> For("reply", SetToSeq(told)[i])])
  /\ UNCHANGED <<passed, panes, procs, stops, sweeps, batch>>

(* runtimes_changed: the waits on runtimes that are over.                   *)
AnswerPassed ==
  /\ Do("passed")
  /\ passed' = {}
  /\ Then([i \in DOMAIN SetToSeq(passed) |-> For("reply", SetToSeq(passed)[i])])
  /\ UNCHANGED <<conn, panes, procs, stops, sweeps, batch>>

(* Nothing more was sent, or the request waits to be read.                  *)
NoRequest ==
  /\ Do("next") /\ Then(<<>>)
  /\ UNCHANGED <<panes, procs, stops, sweeps, batch, replies>>

Served(more) == Then(more \o <<For("next", Who)>>)

(* stop_route: a stop at once, or of a dead pane, and one that waits.  A     *)
(* client that stops a doomed pane again is left out, as a bound.           *)
StopNow(p) ==
  /\ Do("next") /\ InTable(p) /\ p \notin ToSet(doomed)
  /\ Served(<<For("kill", p)>>)
  /\ UNCHANGED <<panes, procs, stops, sweeps, batch, replies>>

StopWaits(p) ==
  /\ Do("next") /\ Lives(p)
  /\ waits' = Append(waits, [conn |-> Who, pane |-> p])
  /\ conn' = [conn EXCEPT ![Who] = Held("stop", p)]
  /\ Then(<<>>)
  /\ UNCHANGED <<doomed, escalation, passed, panes, procs, sweeps, batch>>

DeleteRoute(ps) ==
  /\ Do("next") /\ ps \cap doc # {}
  /\ Served(<<Drop(ps)>>)
  /\ UNCHANGED <<panes, procs, stops, sweeps, batch, replies>>

(* A post that waits for its answer, and a wait for a runtime.              *)
PostWaits(p) ==
  /\ Do("next") /\ Lives(p)
  /\ conn' = [conn EXCEPT ![Who] = Held("post", p)]
  /\ Then(<<>>)
  /\ UNCHANGED <<passed, panes, procs, stops, sweeps, batch>>

RuntimeWaits ==
  /\ Do("next")
  /\ conn' = [conn EXCEPT ![Who] = Held("runtime", None)]
  /\ Then(<<>>)
  /\ UNCHANGED <<passed, panes, procs, stops, sweeps, batch>>

(* put_layout: the document takes the new panes, and each is started; their *)
(* events are withheld until all are.                                       *)
Starts(todo, done, before) ==
  Call("start", None, [todo |-> todo, done |-> done, before |-> before])

Fresh(p) == row[p] = "none"
Admitted(q) == q = None \/ Lives(q)                       \* admit_parent

Put(b) ==
  /\ Do("next") /\ \A p \in ToSet(b) : Fresh(p)
  /\ \E given \in [ToSet(b) -> Panes \cup {None}] :
       /\ \A p \in ToSet(b) : given[p] \in Parents[p] /\ Admitted(given[p])
       /\ parent' = [p \in Panes |-> IF p \in ToSet(b) THEN given[p] ELSE parent[p]]
  /\ doc' = doc \cup ToSet(b)
  /\ withheld' = withheld \cup ToSet(b)
  /\ row' = [p \in Panes |-> IF p \in ToSet(b) THEN "given" ELSE row[p]]
  /\ Served(<<Starts(b, <<>>, doc)>>)
  /\ UNCHANGED <<table, removed, life, proc, sigchld, stops, sweeps, held,
                 replies>>

(* add_pane, whose process may fail before the others are started.          *)
StartPane ==
  /\ Do("start") /\ More.todo # <<>>
  /\ LET p == Head(More.todo)
         rest == Starts(Tail(More.todo), Append(More.done, p), More.before)
     IN /\ table' = Append(table, p)
        /\ proc' = [proc EXCEPT ![p] = "run"]
        /\ \/ /\ row' = [row EXCEPT ![p] = "live"]
              /\ life' = [life EXCEPT ![p] = "open"]
              /\ Then(<<rest>>)
           \/ /\ row' = [row EXCEPT ![p] = "failed"]
              /\ life' = [life EXCEPT ![p] = "closed"]
              /\ Then(<<Death(p, "failed"), rest>>)
  /\ UNCHANGED <<doc, removed, parent, sigchld, stops, sweeps, batch, replies>>

(* A pane does not start: those before it are removed again, and the        *)
(* document goes back to what it was.                                       *)
RemovePane_Forgotten(p) == Settle
RemovePane(p) == Stopped(p) \o Settle

StartFails ==
  /\ Do("start") /\ More.todo # <<>>
  /\ Then(FlattenSeq([i \in DOMAIN More.done |-> RemovePane(More.done[i])])
          \o <<Call("rollback", None, [before |-> More.before, done |-> More.done])>>)
  /\ UNCHANGED <<panes, procs, stops, sweeps, batch, replies>>

Rollback ==
  /\ Do("rollback") /\ Then(<<>>)
  /\ withheld' = {} /\ held' = <<>>
  /\ doc' = More.before
  /\ UNCHANGED <<table, removed, procs, stops, sweeps, replies>>

(* release: the withheld deaths happen now.                                 *)
Started ==
  /\ Do("start") /\ More.todo = <<>>
  /\ Then(<<Plain("changed"), Plain("release"), Plain("passed")>>)
  /\ UNCHANGED <<panes, procs, stops, sweeps, batch, replies>>

Release ==
  /\ Do("release")
  /\ withheld' = {} /\ held' = <<>>
  /\ Then(held)
  /\ UNCHANGED <<panes, procs, stops, sweeps, replies>>

(* Event::Dead: a pane whose process failed is deleted.                     *)
Died ==
  /\ Do("dead")
  /\ IF Who \in withheld
     THEN held' = Append(held, Head(calls)) /\ Then(<<>>)
     ELSE /\ Then(<<For("senders", Who)>>
                  \o (IF More = "failed" THEN <<Drop({Who})>> ELSE <<>>)
                  \o <<Plain("passed")>> \o Settle)
          /\ UNCHANGED held
  /\ UNCHANGED <<withheld, panes, procs, stops, sweeps, replies>>
----------------------------------------------------------------------------
(* panes::sweep: an orphan, and an on_exit pane that has been dead for the  *)
(* grace, stay while they are shown; an exit pane that exited does not.     *)
Orphan(p)  == parent[p] # None /\ ~Lives(parent[p])
Lingers(p) == Close[p] = "on_exit" /\ Dead(p)
Exited(p)  == Close[p] = "exit" /\ row[p] \in {"exited", "failed"}
Swept(p) == Exited(p) \/ (p # shown /\ (Orphan(p) \/ (Lingers(p) /\ p \in old)))

Sweep ==
  /\ Do("sweep")
  /\ LET next == {p \in ToSet(table) : Lingers(p) /\ p \notin old}
     IN Then([i \in DOMAIN SelectSeq(table, Swept) |->
                Drop({SelectSeq(table, Swept)[i]})]
             \o <<Call("linger", None, next)>>)
  /\ UNCHANGED <<panes, procs, stops, sweeps, batch, replies>>

StartLinger ==
  /\ Do("linger") /\ Then(<<>>)
  /\ linger' = More
  /\ UNCHANGED <<due, old, shown, panes, procs, stops, batch, replies>>
----------------------------------------------------------------------------
(* State::reap: the panes of the table by index, and then those removed.    *)
ReapAt(i, n) == IF i <= n THEN <<Call("reap", None, [at |-> i, of |-> n])>>
                ELSE <<Plain("bury")>>

ReapPane ==
  /\ Do("reap")
  /\ IF More.at > Len(table) THEN Then(<<Plain("bury")>>) /\ UNCHANGED <<row, life, proc>>
     ELSE LET p == table[More.at]
              next == ReapAt(More.at + 1, More.of)
          IN IF proc[p] # "zombie" THEN Then(next) /\ UNCHANGED <<row, life, proc>>
             ELSE /\ proc' = [proc EXCEPT ![p] = "gone"]
                  /\ life' = [life EXCEPT ![p] = "reaped"]
                  /\ IF life[p] = "open"
                     THEN row' = [row EXCEPT ![p] = "failed"]
                          /\ Then(<<Death(p, "failed")>> \o next)
                     ELSE row' = row /\ Then(next)
  /\ UNCHANGED <<parent, sigchld, panes, stops, sweeps, batch, replies>>

(* Panes::reap                                                              *)
Bury ==
  /\ Do("bury") /\ Then(<<>>)
  /\ LET ended == {p \in removed : proc[p] = "zombie"}
         After(f, value) == [p \in Panes |-> IF p \in ended THEN value ELSE f[p]]
     IN /\ proc' = After(proc, "gone")
        /\ life' = After(life, "reaped")
  /\ removed' = {p \in removed : life'[p] # "reaped"}
  /\ UNCHANGED <<doc, table, parent, row, sigchld, stops, sweeps, batch, replies>>

Reap ==
  /\ sigchld /\ sigchld' = FALSE
  /\ Handler(ReapAt(1, Len(table)))
  /\ UNCHANGED <<parent, row, life, proc, panes, stops, sweeps, batch, replies>>
----------------------------------------------------------------------------
(* The program of a pane ends, or never ran, and the pane process says so.  *)
PaneDies(p) ==
  /\ InTable(p) /\ row[p] = "live" /\ proc[p] = "run"
  /\ \E cause \in {"exited", "unstarted"} :
       row' = [row EXCEPT ![p] = cause] /\ Handler(<<Death(p, cause)>>)
  /\ UNCHANGED <<parent, life, proc, sigchld, panes, stops, sweeps, batch, replies>>

(* The socket of a pane process ends.                                       *)
SocketEnds(p) ==
  /\ InTable(p) /\ life[p] = "open" /\ proc[p] = "zombie"
  /\ row' = [row EXCEPT ![p] = "failed"]
  /\ life' = [life EXCEPT ![p] = "closed"]
  /\ Handler(<<Death(p, "failed")>>)
  /\ UNCHANGED <<parent, proc, sigchld, panes, stops, sweeps, batch, replies>>

ProcessEnds(p) ==
  /\ AtRest /\ proc[p] \in {"run", "killed"}
  /\ proc' = [proc EXCEPT ![p] = "zombie"]
  /\ sigchld' = TRUE
  /\ UNCHANGED <<parent, row, life, panes, stops, sweeps, batch, replies, calls>>

(* A connection sends requests, or closes (forget_stops).                   *)
Arrives(c) ==
  /\ conn[c] = Idle
  /\ Handler(<<For("next", c)>>)
  /\ UNCHANGED <<panes, procs, stops, sweeps, batch, replies>>

Leaves(c) ==
  /\ AtRest /\ conn[c] # Idle
  /\ LET mine == SelectSeq(waits, LAMBDA s : s.conn = c)
     IN /\ calls' = [i \in DOMAIN mine |-> For("kill", mine[i].pane)]
        /\ waits' = SelectSeq(waits, LAMBDA s : s.conn # c)
  /\ conn' = [conn EXCEPT ![c] = Idle]
  /\ passed' = passed \ {c}
  /\ UNCHANGED <<doomed, escalation, panes, procs, sweeps, batch>>

(* stop_due; a wait for an answer or for a runtime ends; the latter in two   *)
(* lists, of starts and of checks.                                          *)
StopDue(c) ==
  /\ conn[c].kind = "stop"
  /\ Handler(AnswerStop([conn |-> c, pane |-> conn[c].pane]))
  /\ waits' = SelectSeq(waits, LAMBDA s : s.conn # c)
  /\ UNCHANGED <<doomed, escalation, panes, procs, sweeps, batch, replies>>

PostAnswered(c) ==
  /\ conn[c].kind = "post"
  /\ Handler(<<For("reply", c)>>)
  /\ UNCHANGED <<panes, procs, stops, sweeps, batch, replies>>

RuntimesSettle(starting, checked) ==
  /\ starting \cup checked # {} /\ starting \cap checked = {}
  /\ \A c \in starting \cup checked : conn[c].kind = "runtime"
  /\ Handler([i \in DOMAIN SetToSeq(starting) |-> For("reply", SetToSeq(starting)[i])]
             \o <<Plain("passed")>>)
  /\ passed' = checked
  /\ UNCHANGED <<conn, panes, procs, stops, sweeps, batch>>

(* escalate, when the deadline of the timer is over: those whose deadlines   *)
(* are over too are the first of the doomed.                                *)
Escalate ==
  /\ AtRest /\ escalation # None
  /\ \E n \in 1 .. Len(doomed) :
       LET over == ToSet(SubSeq(doomed, 1, n))
           left == SubSeq(doomed, n + 1, Len(doomed))
       IN /\ escalation \in over
          /\ doomed' = left
          /\ escalation' = Earliest(left)
          /\ proc' = [p \in Panes |-> IF p \in over \cap removed /\ proc[p] = "run"
                                      THEN "killed" ELSE proc[p]]
  /\ UNCHANGED <<waits, parent, row, life, sigchld, panes, sweeps, batch, replies, calls>>

(* model_tick, and the timer of the sweep.                                  *)
SweepDue ==
  /\ due /\ due' = FALSE
  /\ Handler(<<Plain("sweep")>>)
  /\ UNCHANGED <<linger, old, shown, panes, procs, stops, batch, replies>>

LingerDue ==
  /\ linger \cap old # {} /\ linger' = {}
  /\ Handler(<<Plain("sweep")>>)
  /\ UNCHANGED <<due, old, shown, panes, procs, stops, batch, replies>>

Ages(p) ==
  /\ AtRest /\ Lingers(p) /\ InTable(p) /\ p \notin old
  /\ old' = old \cup {p}
  /\ UNCHANGED <<due, linger, shown, panes, procs, stops, batch, replies, calls>>

(* A client selects a pane, or loses the focus.                             *)
Focus(p) ==
  /\ AtRest /\ p \in doc \cup {None} /\ p # shown
  /\ Shows(p)
  /\ UNCHANGED <<linger, old, panes, procs, stops, batch, replies, calls>>
----------------------------------------------------------------------------
Init ==
  /\ doc = {} /\ table = <<>> /\ removed = {}
  /\ parent = [p \in Panes |-> None]
  /\ row = [p \in Panes |-> "none"] /\ life = [p \in Panes |-> "reaped"]
  /\ proc = [p \in Panes |-> "none"] /\ sigchld = FALSE
  /\ waits = <<>> /\ doomed = <<>> /\ escalation = None
  /\ due = FALSE /\ linger = {} /\ old = {} /\ shown = None
  /\ withheld = {} /\ held = <<>>
  /\ conn = [c \in Conns |-> Idle] /\ passed = {}
  /\ calls = <<>>

PaneCall == \/ Delete \/ Take \/ Kill \/ Doom \/ SettleStops \/ Changed
            \/ StartPane \/ StartFails \/ Rollback \/ Started \/ Release \/ Died
            \/ Sweep \/ StartLinger \/ ReapPane \/ Bury
ReplyCall == Reply \/ Senders \/ AnswerPassed
Request ==
  \/ NoRequest \/ RuntimeWaits
  \/ \E p \in Panes : StopNow(p) \/ StopWaits(p) \/ PostWaits(p)
  \/ \E ps \in Groups : DeleteRoute(ps)
  \/ \E b \in Batches : Put(b)
Calls == PaneCall \/ ReplyCall \/ Request

Timers == \/ Escalate \/ SweepDue \/ LingerDue
          \/ \E c \in Conns : StopDue(c)
World ==
  \/ \E p \in Panes : \/ PaneDies(p) \/ SocketEnds(p) \/ ProcessEnds(p)
                      \/ Ages(p)
  \/ \E p \in Panes \cup {None} : Focus(p)
  \/ \E c \in Conns : Arrives(c) \/ Leaves(c) \/ PostAnswered(c)
  \/ \E starting, checked \in SUBSET Conns : RuntimesSettle(starting, checked)

Next == Calls \/ Timers \/ World \/ Reap

Spec == Init /\ [][Next]_vars
----------------------------------------------------------------------------
(* A put starts all of its panes or none.  When a pane does not start, what *)
(* was started before it has left the table by the time the document goes   *)
(* back, whatever ran while each was removed (docs/protocol.md:632-635).    *)
(* Between handlers no death is withheld, and a pane that document and      *)
(* table share was started, and its failure, if any, was acted on, also if  *)
(* it came while the others of its batch were started (state.rs, release).  *)
BatchWhole ==
  /\ Do("rollback") => ToSet(More.done) \cap ToSet(table) = {}
  /\ AtRest => /\ withheld = {} /\ held = <<>>
               /\ \A p \in doc \cap ToSet(table) : row[p] \notin {"given", "failed"}

(* Between handlers a stop waits on a live pane of the table, for one       *)
(* connection whose reply is held for it: settle_stops answers from a list  *)
(* of its own while the handlers it calls add waits and remove panes.       *)
StopsHeld ==
  AtRest =>
    /\ \A i \in DOMAIN waits : /\ Lives(waits[i].pane)
                               /\ conn[waits[i].conn] = Held("stop", waits[i].pane)
    /\ \A c \in Conns : conn[c].kind = "stop" =>
         Cardinality({i \in DOMAIN waits : waits[i].conn = c}) = 1

(* Between handlers what is doomed is not in document and table, and the one*)
(* timer of all of them is set to a deadline that is no later than that of  *)
(* any: no later stop puts off the kill of an earlier one (next_escalation).*)
DoomedWatched ==
  AtRest =>
    /\ ToSet(doomed) \cap ToSet(table) \cap doc = {}
    /\ \A i \in DOMAIN doomed : \E j \in 1 .. i : escalation = doomed[j]

(* A pane of the document that the sweep does not keep is not forgotten: the*)
(* next tick sweeps, or the timer of its grace is armed, whoever's death,   *)
(* departure or glance made it so (docs/design.md:449, sweep.rs).           *)
Unkept(p) == /\ InTable(p) /\ p \in doc
             /\ Exited(p) \/ (p # shown /\ (Orphan(p) \/ Lingers(p)))

SweepAhead ==
  AtRest => \A p \in Panes : Unkept(p) => due \/ (p \in linger /\ Lingers(p))

(* What the documents say, and the code does not keep to.                   *)

(* GET /panes and the layout have the same panes (docs/protocol.md:559).    *)
TableMatches == AtRest => doc = ToSet(table)

(* A stop that waited is answered when its pane is dead, its process ended, *)
(* or the kill of the process is ahead (docs/protocol.md:688-694).          *)
StoppedKilled ==
  Do("reply") /\ conn[Who].kind = "stop" =>
    LET p == conn[Who].pane
    IN Dead(p) \/ proc[p] # "run" \/ p \in ToSet(doomed)

(* The server reaps a pane process on SIGCHLD (docs/design-ko.md:122).      *)
ReapedOnSignal == AtRest /\ ~sigchld => \A p \in Panes : proc[p] # "zombie"
=============================================================================
