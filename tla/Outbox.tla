------------------------------- MODULE Outbox -------------------------------
(***************************************************************************)
(* The output of one connection: what a socket does not take at once waits *)
(* in a queue with a cap, a view's goes on to a spill file with a limit,   *)
(* and what exceeds both ends the output.                                  *)
(*                                                                         *)
(* A message is a number and a length; its parts <<number, i>> are what    *)
(* the socket takes one by one, and wire is what it took.  The server is   *)
(* one thread, so an operation runs its flush() to the end before the next *)
(* begins; pc says how far the flush is.                                   *)
(***************************************************************************)
EXTENDS Naturals, Sequences, SequencesExt

CONSTANTS
  Lens,      (* lengths of messages                                         *)
  Cap,       (* Queue.cap                                                   *)
  Piece,     (* what fill() takes from the spill file at once               *)
  Limit,     (* Spill.limit                                                 *)
  Sent       (* bound: messages that are handed to the output               *)

ASSUME OutboxAssumption ==
  /\ Lens \subseteq Nat \ {0} /\ {Cap, Piece, Limit, Sent} \subseteq Nat
  /\ Piece <= Cap      (* fill() asks for self.cap.min(PIECE)               *)

VARIABLES
  chunks,    (* Queue.chunks: [parts, tail]                                 *)
  taken,     (* Queue.sent: parts of the first chunk that were written      *)
  bytes,     (* Queue.bytes                                                 *)
  policy,    (* "plain", "view", "draining" or "sealed"                     *)
  spill,     (* messages in the spill file                                  *)
  spilled,   (* Spill.end: bytes ever written to it                         *)
  goodbye,   (* the tail that a draining queue ends with                    *)
  pixels,    (* Output.pixels: parts of a body that is sent from its object *)
  refused, shut,
  phase,     (* the connection's: "head", "streaming", "ws" or "closing"    *)
  pc,        (* "rest", or flush(): "drain" on a writable socket, "flush"   *)
             (* before its first write, "more" after one                    *)
  next,      (* the number of the next message                              *)
  (* history *)
  wire,      (* what the socket took                                        *)
  accepted,  (* the messages that the output took on, in order              *)
  lost       (* an overflow or a failed read dropped what was queued        *)

queue  == <<chunks, taken, bytes, policy, spill, spilled, goodbye>>
output == <<pixels, refused, shut>>
past   == <<wire, accepted, lost>>
vars   == <<queue, output, phase, pc, next, past>>

Msg(n, len) == [n |-> n, len |-> len]
Parts(m)    == [i \in 1 .. m.len |-> <<m.n, i>>]
Whole(msgs) == FlattenSeq([i \in DOMAIN msgs |-> Parts(msgs[i])])
From(seq, i) == SubSeq(seq, i, Len(seq))

Farewell == Msg(0, 2)        (* the close frame of an overflow              *)
Close(n) == Msg(n, 1)        (* the close frame of finish() and reject()    *)
NoTail   == Msg(0, 0)

Chunk(parts, tail) == [parts |-> parts, tail |-> tail]

Init ==
  /\ chunks = <<>> /\ taken = 0 /\ bytes = 0
  /\ policy = "plain" /\ spill = <<>> /\ spilled = 0 /\ goodbye = NoTail
  /\ pixels = <<>> /\ refused = FALSE /\ shut = FALSE
  /\ phase = "head" /\ pc = "rest" /\ next = 1
  /\ wire = <<>> /\ accepted = <<>> /\ lost = FALSE

-----------------------------------------------------------------------------
(* Queue.  An operator gives the queue after a call as a record.            *)

Now == [chunks |-> chunks, taken |-> taken, bytes |-> bytes, policy |-> policy,
        spill |-> spill, spilled |-> spilled, goodbye |-> goodbye,
        accepted |-> accepted, lost |-> lost]

Becomes(q) ==
  /\ chunks' = q.chunks /\ taken' = q.taken /\ bytes' = q.bytes /\ policy' = q.policy
  /\ spill' = q.spill /\ spilled' = q.spilled /\ goodbye' = q.goodbye
  /\ accepted' = q.accepted /\ lost' = q.lost

Sealed(q)   == q.policy \in {"draining", "sealed"}
Spilling(q) == q.policy = "draining" \/ q.spill # <<>>
IsEmpty(q)  == q.chunks = <<>> /\ ~Spilling(q)

Queued(q, parts, tail) ==
  [q EXCEPT !.bytes = @ + Len(parts), !.chunks = Append(@, Chunk(parts, tail))]

(* overflow(): the chunk in flight stays, so that the farewell follows a    *)
(* message boundary; a queue without a farewell drops everything.           *)
InFlight_Sent(q) ==   \* mutant: the tail of a message counts as a whole one
  q.chunks # <<>> /\ q.taken > 0
InFlight(q) == q.chunks # <<>> /\ (q.taken > 0 \/ Head(q.chunks).tail)

Overflow_KeepsCount(q) ==   \* mutant: the count of what was dropped stays
  LET kept == IF q.policy = "view" /\ InFlight(q) THEN <<Head(q.chunks)>> ELSE <<>>
      cut  == [q EXCEPT !.policy = "sealed", !.spill = <<>>, !.goodbye = NoTail,
                        !.chunks = kept, !.lost = TRUE]
  IN  IF q.policy = "view" THEN Queued(cut, Parts(Farewell), FALSE) ELSE cut

Overflow(q) ==
  LET kept == IF q.policy = "view" /\ InFlight(q) THEN <<Head(q.chunks)>> ELSE <<>>
      cut  == [q EXCEPT !.policy = "sealed", !.spill = <<>>, !.goodbye = NoTail,
                        !.chunks = kept, !.lost = TRUE,
                        !.bytes = IF kept = <<>> THEN 0
                                  ELSE Len(kept[1].parts) - q.taken]
  IN  IF q.policy = "view" THEN Queued(cut, Parts(Farewell), FALSE) ELSE cut

(* push(): queue, spill or overflow.  A write to the file may fail.         *)
Fits(q, len) == ~Spilling(q) /\ q.bytes + len <= Cap

Stored(q, m) ==
  [q EXCEPT !.spill = Append(@, m), !.spilled = @ + m.len, !.accepted = Append(@, m)]

Pushed(q, m, fit) ==
  CASE Fits(q, m.len) -> {[Queued(q, Parts(m), FALSE) EXCEPT !.accepted = Append(@, m)]}
    [] OTHER ->
         (IF q.policy = "view" /\ (Spilling(q) \/ fit = "spill") /\ q.spilled + m.len <= Limit
          THEN {Stored(q, m)} ELSE {})
         \cup {Overflow(q)}

(* finish(): the tail goes behind everything, that in the file included.    *)
Finished(q, m) ==
  IF q.spill # <<>>
  THEN [q EXCEPT !.policy = "draining", !.goodbye = m]
  ELSE [Queued(q, Parts(m), TRUE) EXCEPT !.policy = "sealed"]

(* fill(): messages from the file, at least one, within the piece; the last *)
(* of a draining file is followed by the tail.  A read may fail.            *)
Budgeted(msgs, n) == n = 1 \/ Len(Whole(SubSeq(msgs, 1, n))) <= Piece

Filled(q) ==
  LET n     == CHOOSE i \in 1 .. Len(q.spill) :
                 /\ Budgeted(q.spill, i)
                 /\ i < Len(q.spill) => ~Budgeted(q.spill, i + 1)
      left  == From(q.spill, n + 1)
      read  == [q EXCEPT !.spill = left,
                         !.spilled = IF left = <<>> THEN 0 ELSE @,
                         !.bytes = @ + Len(Whole(SubSeq(q.spill, 1, n))),
                         !.chunks = [i \in 1 .. n |-> Chunk(Parts(q.spill[i]), FALSE)]]
  IN  {IF left = <<>> /\ q.policy = "draining"
       THEN [Queued(read, Parts(q.goodbye), TRUE) EXCEPT !.policy = "sealed",
                                                          !.goodbye = NoTail]
       ELSE read,
       Overflow(q)}

(* The parts of chunks, in the order they are sent.                        *)
Flat(cs) == FlattenSeq([i \in DOMAIN cs |-> cs[i].parts])

(* written(): chunks that were sent to the end leave, the count goes on in  *)
(* the next.                                                                *)
Written(q, count) ==
  LET total   == q.taken + count
      held(k) == Len(Flat(SubSeq(q.chunks, 1, k)))
      done    == CHOOSE k \in 0 .. Len(q.chunks) :
                   /\ held(k) <= total
                   /\ k < Len(q.chunks) => total < held(k + 1)
  IN  [q EXCEPT !.chunks = From(@, done + 1), !.taken = total - held(done), !.bytes = @ - count]

(* What waits in the queue, in the order it is sent.                        *)
Unsent == From(Flat(chunks), taken + 1)

-----------------------------------------------------------------------------
(* flush().                                                                 *)

IsOpen    == ~shut /\ ~Sealed(Now)
Waiting   == refused \/ ~IsEmpty(Now) \/ pixels # <<>>
Available == IsOpen /\ ~Waiting
Flush(p)  == pc' = (IF shut' THEN "rest" ELSE p)

Refill ==
  /\ pc # "rest" /\ chunks = <<>> /\ Spilling(Now)
  /\ \E q \in Filled(Now) : Becomes(q)
  /\ pc' = IF pc = "more" THEN "flush" ELSE pc
  /\ UNCHANGED <<output, phase, next, wire>>

Transmit ==
  /\ pc # "rest" /\ chunks # <<>>
  /\ \E count \in 1 .. Len(Unsent) :
       /\ wire' = wire \o SubSeq(Unsent, 1, count)
       /\ Becomes(Written(Now, count))
  /\ pc' = "more"
  /\ UNCHANGED <<output, phase, next>>

(* The loop ends when the socket takes no more, when nothing is left or     *)
(* when FLUSH_BYTES were sent.  pull() then sends of the pixels, and a      *)
(* sealed output with nothing left shuts.                                   *)
Pulled ==
  IF Sealed(Now) THEN {<<>>}
  ELSE IF pixels = <<>> \/ ~IsEmpty(Now) THEN {pixels}
  ELSE {From(pixels, i) : i \in (IF pc = "drain" THEN 2 ELSE 1) .. Len(pixels) + 1}

Done ==
  \/ pc = "more"
  \/ pc = "flush" /\ ~(chunks = <<>> /\ Spilling(Now))
  \/ pc = "drain" /\ IsEmpty(Now)

EndFlush_LeavesOpen ==   \* mutant: a sealed output is left for the peer to close
  /\ Done
  /\ \E left \in Pulled :
       /\ pixels' = left
       /\ wire' = IF Sealed(Now) THEN wire
                  ELSE wire \o SubSeq(pixels, 1, Len(pixels) - Len(left))
  /\ UNCHANGED shut
  /\ pc' = "rest"
  /\ UNCHANGED <<queue, refused, phase, next, accepted, lost>>

EndFlush ==
  /\ Done
  /\ \E left \in Pulled :
       /\ pixels' = left
       /\ wire' = IF Sealed(Now) THEN wire
                  ELSE wire \o SubSeq(pixels, 1, Len(pixels) - Len(left))
  /\ shut' = (Sealed(Now) /\ IsEmpty(Now))
  /\ pc' = "rest"
  /\ UNCHANGED <<queue, refused, phase, next, accepted, lost>>

(* The socket fails.                                                        *)
Broken ==
  /\ pc # "rest" /\ (chunks # <<>> \/ pixels # <<>>)
  /\ shut' = TRUE /\ pc' = "rest"
  /\ UNCHANGED <<queue, pixels, refused, phase, next, past>>

-----------------------------------------------------------------------------
(* Operations.                                                              *)

Idle   == pc = "rest" /\ ~shut
Use(k) == next + k - 1 <= Sent /\ next' = next + k

(* close(): an open output shuts at once, a draining one sends the rest.    *)
Shuts(q) == ~Sealed(q) \/ IsEmpty(q)

(* Output::send, with respond() and refuse() above it.                      *)
SendHttp(len) ==
  /\ Idle /\ phase = "head" /\ IsOpen /\ Use(1)
  /\ \E q \in Pushed(Now, Msg(next, len), "cap") : Becomes(q)
  /\ phase' \in {"head", "closing"}
  /\ pc' = "flush"
  /\ UNCHANGED <<output, wire>>

(* send_pixels(): a head and a body that is read from a mapping.  A body    *)
(* that leaves at once does not make the phase streaming; here that is an   *)
(* EndStreaming right away.                                                 *)
SendPixels(len, body) ==
  /\ Idle /\ phase = "head" /\ IsOpen /\ Use(2)
  /\ \E q \in Pushed(Now, Msg(next, len), "cap") :
       IF Sealed(q)
       THEN Becomes(q) /\ UNCHANGED <<pixels, phase>>
       ELSE /\ Becomes([q EXCEPT !.accepted = Append(@, Msg(next + 1, body))])
            /\ pixels' = Parts(Msg(next + 1, body))
            /\ phase' = "streaming"
  /\ pc' = "flush"
  /\ UNCHANGED <<refused, shut, wire>>

(* upgrade(): the handshake, then for a view its policy; other roles keep   *)
(* the one of requests.                                                     *)
Upgrade(len) ==
  /\ Idle /\ phase = "head" /\ IsOpen /\ Use(1)
  /\ \E q \in Pushed(Now, Msg(next, len), "cap"), role \in {"view", "plain"} :
       Becomes([q EXCEPT !.policy = IF Sealed(q) THEN @ ELSE role])
  /\ phase' = "ws"
  /\ pc' = "flush"
  /\ UNCHANGED <<output, wire>>

(* Ws::send: a text or a ping.  A refused one closes.                       *)
SendText(len) ==
  /\ Idle /\ phase = "ws" /\ IsOpen /\ Use(1)
  /\ \E q \in Pushed(Now, Msg(next, len), "cap") :
       /\ Becomes(q)
       /\ IF Sealed(q)
          THEN shut' = Shuts(q) /\ pc' = "rest"
          ELSE pc' = "flush" /\ UNCHANGED shut
  /\ UNCHANGED <<pixels, refused, phase, wire>>

(* record(): to the socket if nothing waits, the rest as a tail; else, and  *)
(* if the socket takes nothing, blocked (Fit::Cap) or queued (Fit::Spill).  *)
(* Only views send records.                                                 *)
Record(len) ==
  /\ Idle /\ phase = "ws" /\ policy = "view" /\ IsOpen /\ Use(1)
  /\ LET m == Msg(next, len) IN
     \E count \in (IF Available THEN 0 .. len ELSE {0}) :
       /\ wire' = wire \o SubSeq(Parts(m), 1, count)
       /\ refused' = (IF Available THEN count = 0 ELSE refused)
       /\ IF count > 0
          THEN /\ Becomes(IF count = len THEN [Now EXCEPT !.accepted = Append(@, m)]
                          ELSE [Queued(Now, From(Parts(m), count + 1), TRUE)
                                  EXCEPT !.accepted = Append(@, m)])
               /\ UNCHANGED pc
          ELSE \/ UNCHANGED <<queue, accepted, lost, pc>>
               \/ \E q \in Pushed(Now, m, "spill") :
                    Becomes(q) /\ pc' = (IF Sealed(q) THEN "flush" ELSE "rest")
  /\ UNCHANGED <<pixels, shut, phase>>

(* send_batch(): two records at once; those that the socket does not reach  *)
(* are not taken on.                                                        *)
SendBatch(len1, len2) ==
  /\ Idle /\ phase = "ws" /\ policy = "view" /\ Available /\ Use(2)
  /\ LET m1 == Msg(next, len1)
         m2 == Msg(next + 1, len2)
         both == Parts(m1) \o Parts(m2)
     IN \E count \in 0 .. Len(both) :
          LET reached == IF count = 0 THEN <<>> ELSE IF count <= len1 THEN <<m1>> ELSE <<m1, m2>>
              rest    == From(Whole(reached), count + 1)
              q       == [Now EXCEPT !.accepted = @ \o reached]
          IN /\ wire' = wire \o SubSeq(both, 1, count)
             /\ refused' = (count = 0)
             /\ Becomes(IF rest = <<>> THEN q ELSE Queued(q, rest, TRUE))
  /\ UNCHANGED <<pixels, shut, phase, pc>>

(* Ws::close_with: finish(), and close() behind it in reject().             *)
Finish ==
  /\ Idle /\ phase = "ws" /\ IsOpen /\ Use(1)
  /\ Becomes(Finished([Now EXCEPT !.accepted = Append(@, Close(next))], Close(next)))
  /\ pc' = "flush"
  /\ UNCHANGED <<output, phase, wire>>

(* close(): the peer closed, a pane is gone, a read failed.                 *)
Closes ==
  /\ Idle /\ Shuts(Now)
  /\ shut' = TRUE
  /\ UNCHANGED <<queue, pixels, refused, phase, pc, next, past>>

(* writable(), and the next request of a connection that was streaming.     *)
Writable ==
  /\ Idle /\ (Waiting \/ Sealed(Now))
  /\ refused' = FALSE
  /\ pc' = "drain"
  /\ UNCHANGED <<queue, pixels, shut, phase, next, past>>

EndStreaming ==
  /\ Idle /\ phase = "streaming" /\ ~Waiting
  /\ phase' = "head"
  /\ UNCHANGED <<queue, output, pc, next, past>>

(* Conn::settle: a closing connection with nothing left closes.             *)
Settle ==
  /\ Idle /\ phase = "closing" /\ ~Waiting
  /\ shut' = TRUE
  /\ UNCHANGED <<queue, pixels, refused, phase, pc, next, past>>

-----------------------------------------------------------------------------
FlushStep == Refill \/ Transmit \/ EndFlush

Operation ==
  \/ \E len \in Lens : SendHttp(len) \/ Upgrade(len) \/ SendText(len) \/ Record(len)
  \/ \E len, body \in Lens : SendPixels(len, body) \/ SendBatch(len, body)
  \/ Finish \/ Closes

Next ==
  \/ FlushStep \/ Broken
  \/ Operation
  \/ Writable \/ EndStreaming \/ Settle

(* The thread runs, and a peer that reads makes the socket writable.        *)
Spec ==
  /\ Init /\ [][Next]_vars
  /\ WF_vars(FlushStep) /\ WF_vars(Writable) /\ WF_vars(EndStreaming) /\ WF_vars(Settle)

-----------------------------------------------------------------------------
(* Properties.                                                              *)

(* What the peer has is whole messages in the order the output took them    *)
(* on, and the beginning of at most one more.  As long as nothing was given *)
(* up, every other part is in the queue, in the file or in the body that is *)
(* sent, in that order and once.  After an overflow it is a prefix of the   *)
(* messages that ends between two of them, and the farewell (Queue::push,   *)
(* overflow, finish, fill, written; Output::record, send_batch, pull).      *)
WireTrue ==
  LET all == Whole(accepted)
      waits == Unsent \o Whole(spill)
               \o (IF policy = "draining" THEN Parts(goodbye) ELSE <<>>)
  IN  IF ~lost
      THEN all = wire \o waits \o pixels
      ELSE \/ IsPrefix(wire, all)
           \/ \E j \in 0 .. Len(accepted) :
                IsPrefix(wire, Whole(Append(SubSeq(accepted, 1, j), Farewell)))

(* The counter that the cap is compared with is what the queue holds, and   *)
(* the queue and the file stay within their limits: the cap or one message, *)
(* the close frame or farewell and the chunk in flight on top of it.        *)
Bounded ==
  /\ bytes = Len(Unsent)
  /\ \A len \in Lens : (\A other \in Lens : other <= len) =>
       bytes <= (IF Cap < len THEN len ELSE Cap) + (IF Sealed(Now) THEN Farewell.len ELSE 0)
  /\ Len(Whole(spill)) <= spilled /\ spilled <= Limit

(* An output that will take nothing more on sends the rest to a peer that   *)
(* reads, and shuts.                                                        *)
EndsShut == (Sealed(Now) \/ phase = "closing") ~> shut
=============================================================================
