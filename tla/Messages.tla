------------------------------ MODULE Messages ------------------------------
(* The messages of agents, ko_server/src/state/messages.rs over the queues  *)
(* of Inbox, with what the server around them does that touches the same    *)
(* state: requests on connections, timers, the end of a pane, the end of a  *)
(* turn.  The server is one thread.  A call that runs other handlers before *)
(* it is done leaves what remains of it on a stack: "todo".  An answer to a *)
(* waiting sender is such a call, since the sender may have sent another    *)
(* request behind the one that waits, and that is served at once.           *)
EXTENDS Inbox

CONSTANTS Panes, Conns,
          Parent,    \* the parent of a pane, or None
          EndedId,   \* the id of the message that tells a parent of a pane's end
          Batches,   \* what a client sends in one go: requests, each behind the one before
          MaxSeq     \* bound: about how many messages a pane is sent

Requests == [op : {"post"}, pane : Panes, id : Ids]
            \union [op : {"open"}, pane : Panes]
            \union [op : {"delete"}, panes : Seq(Panes)]

ASSUME MessagesAssumption ==
    /\ None \notin Panes /\ None \notin Conns /\ None \notin Outcomes
    /\ Parent \in [Panes -> Panes \union {None}]
    /\ \A p \in Panes : Parent[p] # p
    /\ EndedId \in [Panes -> Ids]
    /\ Batches \subseteq Seq(Requests)
    /\ \A b \in Batches : \A k \in DOMAIN b : b[k].op = "open" => k = Len(b)

VARIABLES inbox,     \* the queue of each pane
          proc,      \* a pane is Live, Dead, or Gone from the pane table
          listed,    \* the panes of the document
          phase,     \* a connection is in Head, Handling, Stream or Closed
          out,       \* its output is Open, Draining behind a close frame, or Shut
          role,      \* the pane of a stream
          input,     \* requests that are read but not served
          waits,     \* posts that wait for the answer of a receiver
          todo,      \* what the current turn still has to do
          shown,     \* the last inbox event of a pane
          sent,      \* history: the numbers written, per stream
          verdicts,  \* history: answers of receivers that counted
          reply      \* history: the last reply to a post

server == <<inbox, proc, listed, phase, out, role, input, waits, todo, shown>>
vars == <<inbox, proc, listed, phase, out, role, input, waits, todo, shown,
          sent, verdicts, reply>>

Post(p, id) == [op |-> "post", pane |-> p, id |-> id]
OpenStream(p) == [op |-> "open", pane |-> p]
Delete(ps) == [op |-> "delete", panes |-> ps]

Serve(c) == [op |-> "serve", conn |-> c]
Answer(w, state) == [op |-> "answer", conn |-> w.conn, pane |-> w.pane, id |-> w.id,
                     seq |-> w.seq, state |-> state]
Show(p, open) == [op |-> "show", pane |-> p, open |-> open]
Finish(c) == [op |-> "finish", conn |-> c]
Flush(p) == [op |-> "flush", pane |-> p]
Stop(p) == [op |-> "stop", pane |-> p]
Drop(p) == [op |-> "remove", pane |-> p]
Reap == [op |-> "reap"]

NoReply == [conn |-> None, pane |-> None, id |-> None, seq |-> 0, state |-> None]

Init ==
    /\ inbox = [p \in Panes |-> Empty]
    /\ proc = [p \in Panes |-> "Live"]
    /\ listed = Panes
    /\ phase = [c \in Conns |-> "Head"]
    /\ out = [c \in Conns |-> "Open"]
    /\ role = [c \in Conns |-> None]
    /\ input = [c \in Conns |-> <<>>]
    /\ waits = <<>>
    /\ todo = <<>>
    /\ shown = [p \in Panes |-> FALSE]
    /\ sent = [c \in Conns |-> <<>>]
    /\ verdicts = {}
    /\ reply = NoReply

-----------------------------------------------------------------------------
Rest == Tail(todo)
Doing(op) == todo # <<>> /\ Head(todo).op = op
Now == Head(todo)

(* The waits in "hit" are over: they are answered in order before the     *)
(* turn goes on with "rest".                                                *)
Release(hit, state, rest) ==
    LET over == Only(waits, hit)
    IN  /\ waits' = Only(waits, ToSet(waits) \ hit)
        /\ todo' = [k \in DOMAIN over |-> Answer(over[k], state)] \o rest

(* The frames of "box" go to its stream.  A write that fails shuts the      *)
(* output; an output that is not open takes none, but all count as written. *)
Write(box) ==
    LET c == box.stream
        frames == [k \in DOMAIN Due(box) |-> Due(box)[k].seq]
    IN  IF c = None \/ frames = <<>> \/ out[c] # "Open" THEN UNCHANGED <<out, sent>>
        ELSE \E n \in 0..Len(frames) :
                /\ sent' = [sent EXCEPT ![c] = @ \o SubSeq(frames, 1, n)]
                /\ out' = [out EXCEPT ![c] = IF n < Len(frames) THEN "Shut" ELSE @]

(* A close frame waits behind what the peer has not taken yet.              *)
Sealed(c) == out' \in {[out EXCEPT ![c] = life] : life \in {"Draining", "Shut"}}

Enqueued_Unwritten(p, id) == Admitted(inbox[p], id)

(* The queue of p after it took a new message.                              *)
Enqueued(p, id) == Pumped(Admitted(inbox[p], id))

-----------------------------------------------------------------------------
(* The client of a connection sends requests; nothing follows an upgrade.   *)
Posts(c, p) == Len(SelectSeq(input[c], LAMBDA r : r.op = "post" /\ r.pane = p))

Within(r) ==
    r.op = "post" =>
      \/ inbox[r.pane].known[r.id] # Unknown
      \/ inbox[r.pane].last + MapThenSumSet(LAMBDA c : Posts(c, r.pane), Conns) < MaxSeq

Request(c) ==
    /\ todo = <<>> /\ phase[c] = "Head" /\ out[c] = "Open"
    /\ \E batch \in Batches :
          /\ \A k \in DOMAIN batch : Within(batch[k])
          /\ input' = [input EXCEPT ![c] = batch]
    /\ todo' = <<Serve(c)>>
    /\ reply' = NoReply
    /\ UNCHANGED <<inbox, proc, listed, phase, out, role, waits, shown, sent, verdicts>>

Serving(c) ==
    /\ Doing("serve") /\ Now.conn = c
    /\ phase[c] = "Head" /\ out[c] = "Open" /\ input[c] # <<>>

Replied(c, p, id, seq, state) ==
    reply' = [conn |-> c, pane |-> p, id |-> id, seq |-> seq, state |-> state]

PostMessage(c) ==
    LET p == Head(input[c]).pane
        id == Head(input[c]).id
        kind == Admission(inbox[p], id)
        box == IF kind = "New" THEN Enqueued(p, id) ELSE inbox[p]
        status == Status(box, id)
    IN  /\ Serving(c) /\ Head(input[c]).op = "post"
        /\ input' = [input EXCEPT ![c] = Tail(@)]
        /\ \/ /\ proc[p] # "Live"
              /\ Replied(c, p, id, 0, "Gone")
              /\ UNCHANGED <<inbox, phase, out, waits, sent>>
           \/ /\ proc[p] = "Live" /\ kind = "Full"
              /\ Replied(c, p, id, 0, "Full")
              /\ UNCHANGED <<inbox, phase, out, waits, sent>>
           \/ /\ proc[p] = "Live" /\ kind # "Full"
              /\ inbox' = [inbox EXCEPT ![p] = box]
              /\ IF kind = "New" THEN Write(Admitted(inbox[p], id)) ELSE UNCHANGED <<out, sent>>
              /\ IF status = "Delivered"
                 THEN /\ phase' = [phase EXCEPT ![c] = "Handling"]
                      /\ waits' = Append(waits, [conn |-> c, pane |-> p, id |-> id,
                                                 seq |-> box.known[id].seq])
                      /\ UNCHANGED reply
                 ELSE /\ Replied(c, p, id, box.known[id].seq, status)
                      /\ UNCHANGED <<phase, waits>>
        /\ UNCHANGED <<proc, listed, role, todo, shown, verdicts>>

(* A second stream is refused.                                              *)
AdmitsStream(p) == proc[p] = "Live" /\ inbox[p].stream = None

Messages(c) ==
    LET p == Head(input[c]).pane
        box == Opened(inbox[p], c)
    IN  /\ Serving(c) /\ Head(input[c]).op = "open"
        /\ input' = [input EXCEPT ![c] = Tail(@)]
        /\ IF AdmitsStream(p)
           THEN /\ inbox' = [inbox EXCEPT ![p] = Pumped(box)]
                /\ phase' = [phase EXCEPT ![c] = "Stream"]
                /\ role' = [role EXCEPT ![c] = p]
                /\ shown' = [shown EXCEPT ![p] = TRUE]
                /\ Write(box)
           ELSE UNCHANGED <<inbox, phase, out, role, shown, sent>>
        /\ UNCHANGED <<proc, listed, waits, todo, verdicts, reply>>

ServeDelete(c) ==
    /\ Serving(c) /\ Head(input[c]).op = "delete"
    /\ input' = [input EXCEPT ![c] = Tail(@)]
    /\ todo' = <<Head(input[c])>> \o todo
    /\ UNCHANGED <<inbox, proc, listed, phase, out, role, waits, shown, sent, verdicts, reply>>

Served(c) ==
    /\ Doing("serve") /\ Now.conn = c /\ ~Serving(c)
    /\ todo' = Rest
    /\ UNCHANGED <<inbox, proc, listed, phase, out, role, input, waits, shown,
                   sent, verdicts, reply>>

-----------------------------------------------------------------------------
CloseStream_Silent(p) ==
    IF inbox[p].stream = None THEN <<>> ELSE <<Finish(inbox[p].stream)>>

CloseStream(p) ==
    IF inbox[p].stream = None THEN <<>> ELSE <<Finish(inbox[p].stream), Show(p, FALSE)>>

(* The queue of p ends, and its parent is told if "tell" says so.           *)
Ended(p, tell, rest) ==
    LET q == Parent[p]
        told == tell /\ q # None /\ proc[q] = "Live"
        new == told /\ Admission(inbox[q], EndedId[p]) = "New"
    IN  /\ inbox' = [r \in Panes |->
                       IF r = p THEN Cleared(inbox[p])
                       ELSE IF new /\ r = q THEN Enqueued(q, EndedId[p])
                       ELSE inbox[r]]
        /\ IF new THEN Write(Admitted(inbox[q], EndedId[p])) ELSE UNCHANGED <<out, sent>>
        /\ Release({w \in ToSet(waits) : w.pane = p}, "Gone", CloseStream(p) \o rest)

(* The program of a pane ends.  One that never started is removed as well.  *)
Dies(p) ==
    /\ todo = <<>> /\ proc[p] = "Live"
    /\ proc' = [proc EXCEPT ![p] = "Dead"]
    /\ \E rest \in {<<>>, <<Delete(<<p>>)>>} : Ended(p, TRUE, rest)
    /\ UNCHANGED <<listed, phase, role, input, shown, verdicts, reply>>

(* Panes leave the document together and are stopped one after another.     *)
DeletePanes ==
    /\ Doing("delete")
    /\ listed' = listed \ ToSet(Now.panes)
    /\ LET removal == Only(Now.panes, listed)
       IN  todo' = [k \in DOMAIN removal |-> Stop(removal[k])] \o Rest
    /\ UNCHANGED <<inbox, proc, phase, out, role, input, waits, shown, sent, verdicts, reply>>

TellsParent_Never(p) == FALSE

(* A pane that is removed alive is news to its parent.                      *)
TellsParent(p) == proc[p] = "Live"

StopPane ==
    /\ Doing("stop")
    /\ Ended(Now.pane, TellsParent(Now.pane), <<Drop(Now.pane)>> \o Rest)
    /\ UNCHANGED <<proc, listed, phase, role, input, shown, verdicts, reply>>

RemovePane ==
    /\ Doing("remove")
    /\ proc' = [proc EXCEPT ![Now.pane] = "Gone"]
    /\ inbox' = [inbox EXCEPT ![Now.pane] = Empty]
    /\ todo' = Rest
    /\ UNCHANGED <<listed, phase, out, role, input, waits, shown, sent, verdicts, reply>>

FinishStream ==
    /\ Doing("finish")
    /\ IF out[Now.conn] = "Open" THEN Sealed(Now.conn) ELSE UNCHANGED out
    /\ todo' = Rest
    /\ UNCHANGED <<inbox, proc, listed, phase, role, input, waits, shown, sent, verdicts, reply>>

ShowInbox ==
    /\ Doing("show")
    /\ shown' = [shown EXCEPT ![Now.pane] = Now.open]
    /\ todo' = Rest
    /\ UNCHANGED <<inbox, proc, listed, phase, out, role, input, waits, sent, verdicts, reply>>

FlushMessages ==
    /\ Doing("flush")
    /\ inbox' = [inbox EXCEPT ![Now.pane] = Pumped(@)]
    /\ Write(inbox[Now.pane])
    /\ todo' = Rest
    /\ UNCHANGED <<proc, listed, phase, role, input, waits, shown, verdicts, reply>>

AnswerSender_Holds ==
    /\ Doing("answer")
    /\ Replied(Now.conn, Now.pane, Now.id, Now.seq, Now.state)
    /\ todo' = <<Serve(Now.conn)>> \o Rest
    /\ UNCHANGED <<inbox, proc, listed, phase, out, role, input, waits, shown, sent, verdicts>>

(* The sender gets its answer, and what it sent behind is served.           *)
AnswerSender ==
    /\ Doing("answer")
    /\ Replied(Now.conn, Now.pane, Now.id, Now.seq, Now.state)
    /\ phase' = [phase EXCEPT ![Now.conn] = "Head"]
    /\ todo' = <<Serve(Now.conn)>> \o Rest
    /\ UNCHANGED <<inbox, proc, listed, out, role, input, waits, shown, sent, verdicts>>

-----------------------------------------------------------------------------
WaitsFor_Pane(w, p, id) == w.pane = p

WaitsFor(w, p, id) == w.pane = p /\ w.id = id

(* The receiver may answer anything, also what it never got.                *)
Settle(c, id, outcome) ==
    LET p == role[c]
    IN  /\ Settles(inbox[p], id)
        /\ inbox' = [inbox EXCEPT ![p] = Settled(@, id, outcome)]
        /\ verdicts' = verdicts \union
             {[pane |-> p, id |-> id, seq |-> inbox[p].known[id].seq, is |-> outcome]}
        /\ Release({w \in ToSet(waits) : WaitsFor(w, p, id)}, outcome, <<Flush(p)>>)

StreamText(c) ==
    /\ todo = <<>> /\ phase[c] = "Stream" /\ out[c] = "Open"
    /\ \E id \in Ids, outcome \in Outcomes : Settle(c, id, outcome)
    /\ UNCHANGED <<proc, listed, phase, out, role, input, shown, sent, reply>>

(* Any other text closes the stream.                                        *)
Reject(c) ==
    /\ todo = <<>> /\ phase[c] = "Stream" /\ out[c] = "Open"
    /\ Sealed(c)
    /\ UNCHANGED <<inbox, proc, listed, phase, role, input, waits, todo, shown,
                   sent, verdicts, reply>>

(* The peer closes, a ping times out or a write fails; a draining output is *)
(* done or stalls.                                                          *)
Hangup(c) ==
    /\ todo = <<>> /\ phase[c] # "Closed" /\ out[c] # "Shut"
    /\ out' = [out EXCEPT ![c] = "Shut"]
    /\ UNCHANGED <<inbox, proc, listed, phase, role, input, waits, todo, shown,
                   sent, verdicts, reply>>

(* The deadline of a wait.                                                  *)
MessageDue(c) ==
    /\ todo = <<>>
    /\ \E k \in DOMAIN waits : waits[k].conn = c
    /\ Release({w \in ToSet(waits) : w.conn = c}, "Delivered", <<>>)
    /\ UNCHANGED <<inbox, proc, listed, phase, out, role, input, shown, sent, verdicts, reply>>

(* The end of a turn removes the connections that are shut.                 *)
EndTurn ==
    /\ todo = <<>>
    /\ \E c \in Conns : phase[c] # "Closed" /\ out[c] = "Shut"
    /\ todo' = <<Reap>>
    /\ UNCHANGED <<inbox, proc, listed, phase, out, role, input, waits, shown,
                   sent, verdicts, reply>>

IsStream(c) == phase[c] = "Stream" /\ inbox[role[c]].stream = c
Interrupts(c, w) == IsStream(c) /\ w.pane = role[c]

(* Its own waits are forgotten; a stream that closes puts its messages back *)
(* and answers those who wait for them.                                     *)
ReapConn(c) ==
    LET p == role[c]
        kept == Only(waits, {w \in ToSet(waits) : w.conn # c})
        hit == {w \in ToSet(kept) : Interrupts(c, w)}
        over == Only(kept, hit)
    IN  /\ Doing("reap") /\ phase[c] # "Closed" /\ out[c] = "Shut"
        /\ phase' = [phase EXCEPT ![c] = "Closed"]
        /\ role' = [role EXCEPT ![c] = None]
        /\ input' = [input EXCEPT ![c] = <<>>]
        /\ sent' = [sent EXCEPT ![c] = <<>>]
        /\ waits' = Only(kept, ToSet(kept) \ hit)
        /\ inbox' = IF IsStream(c) THEN [inbox EXCEPT ![p] = Closed(@)] ELSE inbox
        /\ todo' = [k \in DOMAIN over |-> Answer(over[k], "Queued")]
                   \o (IF IsStream(c) THEN <<Show(p, FALSE)>> ELSE <<>>) \o todo
        /\ UNCHANGED <<proc, listed, out, shown, verdicts, reply>>

Reaped ==
    /\ Doing("reap")
    /\ \A c \in Conns : phase[c] # "Closed" => out[c] # "Shut"
    /\ todo' = Rest
    /\ UNCHANGED <<inbox, proc, listed, phase, out, role, input, waits, shown,
                   sent, verdicts, reply>>

Accept(c) ==
    /\ todo = <<>> /\ phase[c] = "Closed"
    /\ phase' = [phase EXCEPT ![c] = "Head"]
    /\ out' = [out EXCEPT ![c] = "Open"]
    /\ UNCHANGED <<inbox, proc, listed, role, input, waits, todo, shown, sent, verdicts, reply>>

-----------------------------------------------------------------------------
(* A turn goes on with what it has to do.                                   *)
Turn ==
    \/ \E c \in Conns : PostMessage(c) \/ Messages(c) \/ ServeDelete(c) \/ Served(c)
    \/ DeletePanes \/ StopPane \/ RemovePane \/ FinishStream \/ ShowInbox \/ FlushMessages \/ AnswerSender
    \/ \E c \in Conns : ReapConn(c)
    \/ Reaped

Environment ==
    \/ \E c \in Conns : Request(c) \/ StreamText(c) \/ Reject(c) \/ Hangup(c) \/ Accept(c)
    \/ \E p \in Panes : Dies(p)

Next == Turn \/ Environment \/ EndTurn \/ \E c \in Conns : MessageDue(c)

Spec == Init /\ [][Next]_vars

(* The loop of the server runs and its timers fire.                         *)
FairSpec == Spec /\ WF_vars(Turn) /\ WF_vars(EndTurn) /\ \A c \in Conns : WF_vars(MessageDue(c))
-----------------------------------------------------------------------------
Waits == [conn : Conns, pane : Panes, id : Ids, seq : Nat]
States == Outcomes \union {"Queued", "Delivered", "Full", "Gone"}

(* The variables keep their ranges.                                         *)
TypeOK ==
    /\ \A p \in Panes :
          /\ inbox[p].stream \in Conns \union {None}
          /\ inbox[p].last \in Nat /\ inbox[p].bytes \in Nat
          /\ inbox[p].fifo \in Seq([id : Ids, seq : Nat, place : Places])
          /\ \A i \in Ids : inbox[p].known[i] \in Known
          /\ inbox[p].settled \in Seq(Ids)
    /\ proc \in [Panes -> {"Live", "Dead", "Gone"}]
    /\ listed \subseteq Panes
    /\ phase \in [Conns -> {"Head", "Handling", "Stream", "Closed"}]
    /\ out \in [Conns -> {"Open", "Draining", "Shut"}]
    /\ \A c \in Conns : role[c] \in IF phase[c] = "Stream" THEN Panes ELSE {None}
    /\ waits \in Seq(Waits)
    /\ shown \in [Panes -> BOOLEAN]
    /\ \A v \in verdicts : v.is \in Outcomes
    /\ reply.state \in States \union {None}

(* A sender that waits is held on its connection, once, and the message it  *)
(* waits for is written and unanswered: when its stream closes, the answer  *)
(* comes or the pane ends, the wait is over in the same step.  A pane that  *)
(* is gone has no queue: a post pipelined behind one that its end answers   *)
(* may wait for it until the deadline.                                      *)
WaitsMatch ==
    /\ \A k \in DOMAIN waits :
          LET w == waits[k]
          IN  /\ phase[w.conn] = "Handling"
              /\ proc[w.pane] # "Gone" =>
                    /\ inbox[w.pane].known[w.id] = [is |-> "Pending", seq |-> w.seq]
                    /\ Status(inbox[w.pane], w.id) = "Delivered"
    /\ \A c \in Conns :
          phase[c] = "Handling" =>
            Cardinality({k \in DOMAIN waits : waits[k].conn = c})
              + Cardinality({k \in DOMAIN todo : todo[k].op = "answer" /\ todo[k].conn = c}) = 1

(* Every queue is consistent, and the waits of the senders agree with it.   *)
QueueConsistent == WaitsMatch /\ \A p \in Panes : Consistent(inbox[p])

(* No message stays behind: between two turns the stream of a pane has      *)
(* everything the window lets through.  flush_messages is called only after *)
(* some changes of the queue; these are enough.                             *)
NothingStuck ==
    todo = <<>> => \A p \in Panes : Due(inbox[p]) = <<>>

(* What counts as written was written to the stream, if that still works,   *)
(* and each stream gets messages once and in the order of arrival.          *)
WrittenInOrder ==
    \A c \in Conns :
      /\ \A j, k \in DOMAIN sent[c] : j < k => sent[c][j] < sent[c][k]
      /\ \A p \in Panes : inbox[p].stream = c /\ out[c] = "Open" =>
            \A e \in ToSet(inbox[p].fifo) :
               e.place = "Out" => e.seq \in ToSet(sent[c])

(* A sender is told acked or refused only if a receiver said so of that     *)
(* message: not of an older one with the same id.                           *)
TrueTo(r) ==
    r.state \in Outcomes =>
      [pane |-> r.pane, id |-> r.id, seq |-> r.seq, is |-> r.state] \in verdicts

AnswersTrue ==
    /\ TrueTo(reply)
    /\ \A k \in DOMAIN todo : todo[k].op = "answer" => TrueTo(todo[k])

(* A parent hears of the end of a child once: a dead child that is removed  *)
(* is not news.                                                             *)
EndedOnce ==
    \A p \in Panes : \A v \in verdicts :
      v.id = EndedId[p] =>
        /\ \A w \in verdicts : w.pane = v.pane /\ w.id = v.id => w = v
        /\ inbox[v.pane].known[v.id].is # "Pending"

(* docs/protocol.md:735: the row says whether the stream is open, "with an  *)
(* `inbox` event on each change": between two turns the last event told     *)
(* whether the stream of a pane is open.                                    *)
ShownTrue ==
    todo = <<>> => \A p \in Panes :
      proc[p] # "Gone" => shown[p] = (inbox[p].stream # None)

(* docs/protocol.md:736: "A close, a ping timeout and the pane's death      *)
(* close the stream": between two turns an open stream is that of a pane    *)
(* that lives.                                                              *)
StreamOwned ==
    todo = <<>> => \A c \in Conns :
      phase[c] = "Stream" /\ out[c] = "Open" =>
        proc[role[c]] = "Live" /\ inbox[role[c]].stream = c

(* What holds for every pipeline: no client takes a stream for open that is *)
(* not, since each close is told after it (stream_closed, pane_ended); and  *)
(* while a pane is in the table, the one open stream to it is the one that  *)
(* its queue writes to, and the pane lives (admit_stream, pane_ended).      *)
StreamTrue ==
    todo = <<>> =>
      /\ \A p \in Panes :
            proc[p] # "Gone" /\ shown[p] => inbox[p].stream # None
      /\ \A c \in Conns :
            phase[c] = "Stream" /\ out[c] = "Open" /\ proc[role[c]] # "Gone" =>
              proc[role[c]] = "Live" /\ inbox[role[c]].stream = c

(* A message leaves the queue when its receiver answered or its pane ends:  *)
(* no close, reopen, timeout or retry loses it.                             *)
OnlySettledLeave ==
    [][\A p \in Panes : p \in listed' /\ proc'[p] = "Live" =>
         \A e \in ToSet(inbox[p].fifo) :
            \/ \E f \in ToSet(inbox'[p].fifo) : f.seq = e.seq
            \/ \E v \in verdicts' : v.pane = p /\ v.seq = e.seq]_vars

(* An answer counts only if its message was written to the stream that      *)
(* gives it.                                                                *)
VerdictOnWritten ==
    [][\A v \in verdicts' \ verdicts :
         LET c == inbox[v.pane].stream
         IN  c # None /\ v.seq \in ToSet(sent[c])]_vars

(* A message leaves the queue only for an answer, and only one that was     *)
(* written can be answered.                                                 *)
EntriesLeave == OnlySettledLeave /\ VerdictOnWritten

(* The end of a pane reaches the queue of its parent, unless that is full,  *)
(* and only once.                                                           *)
EndTold ==
  /\ []EndedOnce
  /\ [][\A p \in Panes : proc[p] = "Live" /\ proc'[p] # "Live" =>
         LET q == Parent[p]
         IN  q # None /\ q \in listed /\ proc[q] = "Live" =>
               \/ inbox'[q].known[EndedId[p]] # Unknown
               \/ IsFull(inbox[q], EndedId[p])]_vars

(* A sender that waits is answered, or its connection is gone.              *)
PostAnswered ==
    \A c \in Conns : phase[c] = "Handling" ~> phase[c] # "Handling"
=============================================================================
