------------------------------- MODULE Inbox -------------------------------
(* The message queue of one pane, ko_server/src/inbox.rs, as operators on a *)
(* record: the stream that may take messages, the queue in order of arrival *)
(* and the ids that are remembered.  An entry of the queue is Fresh (never  *)
(* written), Out (written to the open stream) or Back (written to a stream  *)
(* that closed).  A message is its id; what it carries is its size.         *)
EXTENDS Filter, SequencesExt

CONSTANTS Ids,          \* what senders name their messages
          SizeOf,       \* bytes of text and data, per id
          None,         \* no stream, no parent
          Window,       \* WINDOW
          CapMessages,  \* CAP_MESSAGES
          CapBytes,     \* CAP_BYTES
          Remembered    \* SETTLED

ASSUME InboxAssumption ==
    /\ SizeOf \in [Ids -> Nat]
    /\ Window \in Nat \ {0}
    /\ CapMessages \in Nat
    /\ CapBytes \in Nat
    /\ Remembered \in Nat \ {0}

Places == {"Fresh", "Out", "Back"}
Outcomes == {"Acked", "Refused"}

(* known: what an id stands for, and the number of its message.             *)
Unknown == [is |-> "Unknown", seq |-> 0]
Known == {Unknown} \union [is : {"Pending"} \union Outcomes, seq : Nat \ {0}]

Empty == [stream  |-> None,
          last    |-> 0,
          fifo    |-> <<>>,
          bytes   |-> 0,
          known   |-> [i \in Ids |-> Unknown],
          settled |-> <<>>]

Entry(box, id) == CHOOSE k \in DOMAIN box.fifo : box.fifo[k].seq = box.known[id].seq

(* What a sender is told of an id that is known.                            *)
Status(box, id) ==
    IF box.known[id].is # "Pending" THEN box.known[id].is
    ELSE IF box.fifo[Entry(box, id)].place = "Out" THEN "Delivered"
    ELSE "Queued"

Opened(box, stream) == [box EXCEPT !.stream = stream]

Closed_Requeues(box) ==
    LET old == SelectSeq(box.fifo, LAMBDA e : e.place = "Out")
    IN  [box EXCEPT !.stream = None,
                    !.fifo = SelectSeq(box.fifo, LAMBDA e : e.place # "Out")
                             \o [k \in DOMAIN old |-> [old[k] EXCEPT !.place = "Back"]]]

Closed_Drops(box) ==
    [box EXCEPT !.stream = None,
                !.fifo = SelectSeq(@, LAMBDA e : e.place # "Out")]

(* The leading written entries are to be written again.                     *)
Closed(box) ==
    [box EXCEPT !.stream = None,
                !.fifo = [k \in DOMAIN box.fifo |->
                            IF \A j \in 1..k : box.fifo[j].place = "Out"
                            THEN [box.fifo[k] EXCEPT !.place = "Back"]
                            ELSE box.fifo[k]]]

Cleared(box) == [Empty EXCEPT !.last = box.last]

IsFull(box, id) ==
    \/ Len(box.fifo) >= CapMessages
    \/ box.bytes + SizeOf[id] > CapBytes

Admission(box, id) ==
    IF box.known[id] # Unknown THEN "Repeat"
    ELSE IF IsFull(box, id) THEN "Full" ELSE "New"

Admitted(box, id) ==
    IF Admission(box, id) # "New" THEN box
    ELSE [box EXCEPT !.last = @ + 1,
                     !.bytes = @ + SizeOf[id],
                     !.known[id] = [is |-> "Pending", seq |-> box.last + 1],
                     !.fifo = Append(@, [id |-> id, seq |-> box.last + 1, place |-> "Fresh"])]

(* next_write until it answers nothing: the entries not written among the   *)
(* first Window, in order.                                                  *)
Due(box) ==
    IF box.stream = None THEN <<>>
    ELSE Only(SubSeq(box.fifo, 1, IF Len(box.fifo) < Window THEN Len(box.fifo) ELSE Window),
              {entry \in ToSet(box.fifo) : entry.place # "Out"})

Pumped(box) ==
    IF box.stream = None THEN box
    ELSE [box EXCEPT !.fifo = [k \in DOMAIN @ |->
                                 IF k <= Window THEN [@[k] EXCEPT !.place = "Out"] ELSE @[k]]]

(* Only a message that was written can be acked or refused.                 *)
Settles(box, id) ==
    /\ box.known[id].is = "Pending"
    /\ box.fifo[Entry(box, id)].place # "Fresh"

Settled_KeepsEvicted(box, id, outcome) ==
    [box EXCEPT !.fifo = RemoveAt(@, Entry(box, id)),
                !.bytes = @ - SizeOf[id],
                !.settled = IF Len(@) = Remembered THEN Append(Tail(@), id) ELSE Append(@, id),
                !.known[id].is = outcome]

(* The oldest of the remembered ids makes room for a new one.               *)
Settled(box, id, outcome) ==
    LET ring == Append(box.settled, id)
        evict == Len(ring) > Remembered
        known == [box.known EXCEPT ![id].is = outcome]
    IN  [box EXCEPT !.fifo = RemoveAt(@, Entry(box, id)),
                    !.bytes = @ - SizeOf[id],
                    !.settled = IF evict THEN Tail(ring) ELSE ring,
                    !.known = IF evict THEN [known EXCEPT ![Head(ring)] = Unknown] ELSE known]

-----------------------------------------------------------------------------
Bytes(fifo) ==
    LET upTo[n \in 0 .. Len(fifo)] ==
          IF n = 0 THEN 0 ELSE upTo[n - 1] + SizeOf[fifo[n].id]
    IN  upTo[Len(fifo)]

(* The queue, the ids and the ring agree: every pending id has one entry,   *)
(* every settled id one place in the ring, bytes is the sum of the sizes,   *)
(* and what is written is the head of the queue and within WINDOW.          *)
Consistent(box) ==
    LET n == Len(box.fifo)
    IN  /\ \A k \in 1..n : /\ box.known[box.fifo[k].id] = [is |-> "Pending", seq |-> box.fifo[k].seq]
                           /\ box.fifo[k].place = "Out" => k <= Window /\ box.stream # None
                           /\ box.fifo[k].seq <= box.last
        /\ \A j, k \in 1..n : j < k => /\ box.fifo[j].seq < box.fifo[k].seq
                                       /\ box.fifo[k].place # "Fresh" => box.fifo[j].place # "Fresh"
                                       /\ box.fifo[k].place = "Out" => box.fifo[j].place = "Out"
        /\ {i \in Ids : box.known[i].is = "Pending"} = {box.fifo[k].id : k \in 1..n}
        /\ {i \in Ids : box.known[i].is \in Outcomes} = ToSet(box.settled)
        /\ IsInjective(box.settled) /\ Len(box.settled) <= Remembered
        /\ box.bytes = Bytes(box.fifo)
        /\ n <= CapMessages /\ box.bytes <= CapBytes
=============================================================================
