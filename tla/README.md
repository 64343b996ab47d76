# A verification project for kido

kido is a terminal workspace: a server (`ko_server`) owns panes, each pane is
a process of its own (`ko_pane`) that runs a program on a pty, and clients
(`ko_tui`, the apps over `ko_client`) show the panes and edit the layout. The
output of a pane reaches the server through a ring in shared memory
(`ko_pane_wire`); small control frames go over a socket beside it.

This directory holds TLA+ modules that model that system from its source, TLC
configurations that check them on small instances, and TLAPS proofs of what
holds for every instance.

    tlc -config MCRing.cfg Ring.tla
    tlc -config PaneLink.cfg MCPaneLink.tla
    tlc -config MessagesQueue.cfg MCMessages.tla      (and MessagesEnds, MessagesShown,
                                                       MessagesOrphan)
    tlc -config ViewsShared.cfg MCViews.tla           (and ViewsEnding.cfg)
    tlc -config Outbox.cfg Outbox.tla
    tlc -config Runtimes.cfg Runtimes.tla             (and RuntimesLive, RuntimesStuck)
    tlc -config PaneTable.cfg MCPaneTable.tla         (and PaneTableRollback,
                                                       PaneTableStops, PaneTableReap)
    tlc -config Layout.cfg MCLayout.tla
    tlapm RingProofs.tla            (and RingFormatProofs, FilterProofs, PaneLinkProofs,
                                     MessagesProofs, ViewsProofs, RuntimesProofs,
                                     OutboxProofs)

## The system

| component | state it keeps | operations | hard part |
|---|---|---|---|
| pane ring, `ko_pane_wire/src/ring.rs` | three words (head, tail, read) and a byte buffer shared by two processes; each side caches what it loaded of the other's words | writer: `available`, `fill`, `publish`; reader: `head`, `end_offset`, `advance`, `resume` | no lock: what a side believes is always old; records must not wrap, not overwrite, not lose a wake-up |
| pane process, `ko_pane/src/{pane,io,run}.rs` | the terminal, the pty, the frames read and deferred, `full`, `stopping`, the life of the program | one turn per `poll`: control frames, pty read, death, history clear, flush; `wait_space` nests a second poll in the turn | a request that needs room blocks the turn, and what arrives meanwhile has to be set aside and run later |
| pane proxy, `ko_server/src/pane_proc.rs` | the stage of the pane, requests that await a reply, what it observed of the ring | `on_frame`, `scan`, `send`, `shutdown`, `reap` | frames and ring contents travel on two channels and have to be put back in order |
| delivery, `ko_server/src/delivery.rs` | snapshot requests and finished snapshots with the positions they hold | `request`, `deliver`, `scan`, `snapshot_done`, `seek` | the tail must not pass slices nobody took, and must pass them once somebody did |
| views, `ko_server/src/view.rs` | one client's cursor in a pane: live, in a snapshot, or closed | `pump`, `on_slice`, `on_done`, `resume` | a slow client is dropped to a snapshot, and comes back without a gap or a repeat |
| server state, `ko_server/src/state.rs` | all panes, connections, the ticker, the dispatch of events | `event`, `tick`, `settle`, requests from `router.rs` | one thread, but events, timers and closes of one turn interact |
| agent messages, `inbox.rs`, `state/messages.rs` | one queue per pane, ids known, posts that wait for an answer | `admit`, `next_write`, `settle`, `open`, `close`, `submit`, `message_due` | retries with the same id, a receiver that goes away, a window of unanswered messages |
| pane table, `panes.rs`, `state/sweep.rs` | stopping and dead panes, escalation timers | remove, escalate, sweep | a process that does not exit, requests that wait for it |
| layout, `layout.rs`, `client.rs` | the document of sessions, windows, splits and the pane each client is at | edits, removal with its focus rules | every edit keeps the tree well formed and no client at a pane that is gone |
| pane status, `pane_status.rs`, `program_status.rs`, `model.rs` | what a pane is doing, from prompts, foreground and telemetry | reports, promotion timers | late and contradictory reports |
| runtimes, `runtime/*`, `state/{runtime,exec,visit}_ops.rs` | containers and ssh links with the panes and executions that use them | start, reuse, leave, fail | a start races a leave; a shared failure |
| connections, `conn.rs`, `ws.rs`, `spill.rs` | output queues, pings, spill file | send, close, ping | a slow or silent peer |
| client model, `ko_client/src/{model,edit,layout}.rs` | the layout as announced and the edits not yet confirmed | optimistic edit, announce | an announcement that crosses an edit |

The rest (codecs, configuration, the terminal emulator binding, rendering, the
apps, the command line, tests and benchmarks) is listed in `PROJECT.json` with
the reason it is not modelled.

What makes each modelled component correct is stated at the end of its module and
summed up in the table of runs below.

## Modules

**RingFormat** is the arithmetic of the ring without state: which record fits
(`Fits` is `Writer::fits`), how much room `available()` answers (`Room`,
`LapRoom`, with the pad at the end of the buffer), and how far `advance` may
release (`Retain`). Both modules below use it, so both speak about the same
corners: fewer bytes before the end than a header and a half need, a record
that ends exactly at the end, a ring that is full.

**Ring** is the writer and the reader over one buffer. An action is one access
to a shared word, or the local work between two of them: `Available`, `Fill`,
`Commit`, `WriteHeader`, `StoreHead`, `LoadRead` for the writer, `LoadHead` or
`EndOffset`, `Advance`, `StoreTail`, `StoreRead` for the reader. The words are
sequentially consistent atomics in the code (`mapping.rs`), so an interleaving of
these accesses is all that can happen. `cells` holds for every byte of the
buffer the position last written there; reading position p is sound when the
cell of p holds p. `log` is the history of published records and `wake` the
promise of a head frame, both only observed by the properties, and by the
reader's walk over the headers it can see.

**PaneLink** is a pane process and the server around that ring, coarser inside
the ring (a commit is two steps, a scan is two steps) and complete around it:
the turn of `run.rs` as a program counter, `control`, `wait_space` with its
nested poll and `nested_control`, the resize, the death marker, `clear_history`
with its filler pads, the head, full, tail and dead frames, the server's read
of a batch of frames, the events it dispatches, the ticker. Payloads are
lengths. `job` is what the turn wants room for, `pend` the record it commits
and where it goes on. `applied` is the history of requests that took effect.

The pane's event frames (title, bell and so on), its searches, images, clipboard
and snapshots, and a socket that stops taking writes are left out of PaneLink.
With no snapshot waiting, `Delivery::scan` keeps nothing back but half the
buffer, which is what `Released` says.

**Filter** is one operator: `Only(s, S)`, the elements of a sequence that belong to
a set, in their order, which is what `Vec::retain` and `extract_if` leave. It is a
recursive function and no `SelectSeq`, so that it can be reasoned about; Inbox,
Messages, PaneLink, Limiter and Runtimes use it for every queue that the code filters.

**Inbox** is the queue of messages of one pane (`inbox.rs`) as operators on a
record: `Admitted`, `Pumped` (`next_write` until it answers nothing), `Settled`,
`Opened`, `Closed`, `Cleared`, `Status`. It has no variables.

**Messages** puts one such queue in every pane and adds what uses them:
connections that post and wait, streams that take messages and answer, the
deadline of a wait, the end of a pane and what its parent is told, the removal
of several panes at once, and the end of a turn, which removes the connections
that are shut. The server is one thread, so most actions are a whole handler.
The exception is what the code does inside a handler by calling another one: an
answer to a held connection (`router::finish`) serves what the client sent
behind the request that waited. The variable `todo` is the call stack of such a
turn. A handler pushes what it has left (answers in the order of the waits,
then its events, then the removal of the pane), and nothing from outside happens
while the stack is not empty. `input` holds the requests read and not served;
`Batches` says what a client may send in one go.

An output is Open, Draining (a close frame waits behind data the peer does not
read) or Shut. Ids stand for messages, `SizeOf` for their text. What a receiver
may answer is not restricted: any id, either outcome, at any time. Left out:
sender stamps, scopes and relations, which change no state here; what a client
sends behind an upgrade before it is answered; a half-closed connection, which
the model closes at once.

**RecordLog** is what the ring promises to those who use it: a log of whole
records with consecutive byte offsets, a head that the writer moves, and a tail
that the reader moves from one boundary to a later one, never into the newest
half. Ring is shown to implement it (`ImplementsLog`): a record appears whole at
the store of the head, the tail moves at its store, every other access is
invisible.

**Views** is built on that log and not on the ring: the server streams the log of
one pane to its clients. It has the pane's side of a snapshot (a slice that
carries the screen, an empty last one, a done frame on the socket), the server's
queues of requests and of finished snapshots (`delivery.rs`), each client's view
(`view.rs`: live, in a snapshot, skipping, closed) and the output of its
connection as a limit that a client which does not read runs into. The server
is one thread, but the pane writes while it runs: `pc` is the function that lies
between two looks at the head, so `pump_view` decides with one head and streams
up to another. `mirror` is the copy of the terminal at the client; it follows from
what was sent and is only observed.

**Outbox** is the output of a connection (`conn.rs`, `ws.rs`, `spill.rs`): a
queue with a cap, a spill file for a view, the record that a socket took a part
of, the farewell, the close frame. A message is a number and its parts; `wire`
is what the socket took. Failing writes, short reads and a file at its limit are
choices of the environment. The loop of `written()`, which takes chunks from the
front until the count is used up, is said by its result: the one number of chunks
that end within the count.

**Limiter** is the pure part of the exec sessions of one runtime
(`runtime/exec.rs`): which run, wait and are parked. **Runtimes** is one runtime:
its link through the stages of a start, the watch, idleness, a stop and a
deletion (`runtime/mod.rs`), the processes that each of them starts and those
that were told to leave (`leaving.rs`), the panes that wait for it, and the exec
sessions with their limiter (`state/runtime_ops.rs`, `state/exec_ops.rs`).
`calls` is what the handler that runs has still to do, as settling a wait starts
sessions that may fail and settle more waits. Processes end, and SIGCHLD is
looked at, in any order.

**PaneTable** is the life of panes above the proxy: the document as a set of
panes, the table and those that were removed (`panes.rs`), a put of a batch with
its rollback, deletes, stops and the replies they hold, the escalation, the sweep
with its grace (`state/sweep.rs`), and the reaping of processes. As in Messages, a
reply may be followed by requests that the client sent behind it, which are
served inside of the handler that answers. What a pane in a batch is a child
of, and how it ends (`exit`, `on_exit`, `keep`), comes from constants.

**Tiles** is the arithmetic of `layout.rs`: `Shares`, which cuts a window into
cells in proportion, with minimums and a reserve; `ResizeAxis`, which deals and
takes cells one at a time; `RemoveLeaf`, which gives the cells of a leaf and its
divider to one neighbour; `Placed`, which keeps floats inside. **Layout** is the
document over it: puts of whole layouts by clients that read the last one, with
panes added, moved, zoomed and sized, the rollback, removals with their rules of
focus, and resizes. A session only groups windows here, and is left out.

**MCMessages** says which ids, sizes, parents and batches the runs use,
**MCPaneLink** what a program writes and how often each kind of request is sent,
**MCViews** what a pane does and whether it crashes, **MCPaneTable** which panes are
put together, **MCLayout** the sizes that are asked for.

**RingFormatProofs** holds the lemmas about the arithmetic of RingFormat,
**RingProofs** the invariants of Ring, its refinement of RecordLog and the caches of
the reader, **PaneLinkProofs** the theorems about PaneLink.
**FilterProofs** holds what `Only` keeps and how the elements of a sequence are
counted, **MessagesProofs** what each operation of Inbox does to one queue and the
theorems about Messages, **ViewsProofs** the theorems about Views, **RuntimesProofs**
those about Runtimes, **OutboxProofs** what `FlattenSeq` does to sequences and the
theorems about Outbox.

## What is checked

Names are those of the runs in `PROJECT.json`.

| run | instance | shows |
|---|---|---|
| ring | header 2, buffer 9, two laps, records of bytes and markers | `Windows`, `Intact`: nothing readable is overwritten, whatever the two sides still believe. `CachesExact`: what the reader remembers of offsets and losses. `NoLostWakeup`. `RoomIsUsable`: an answer of `available()` can be used. `ImplementsLog`: the refinement of RecordLog, whose tail leaves the newest half |
| pane | header 1, buffer 8, markers of one byte; a clear, an exit and a death; a resize and a death; more output, a screen request and a resize; fair turns | `NothingLost`: no record is refused, a server at rest has seen every head, a full that was said is outstanding, every request is applied once or waits. `CaughtUp`: the server sees every head. `FullAnswered`: each full is answered. `ClearDone`, `ExitStops`. `DeathTold`: the exit is told, and its marker follows all of the output |
| messages | one pane, three connections, three messages of 2, 1 and 0 bytes, a window of two, one remembered id, three numbers | `QueueConsistent`: queue, ids, ring, byte counter and the posts that wait agree and what is written is the head of the queue. `WrittenInOrder`, `EntriesLeave`: each stream gets the queue in order, only an answer for a written message takes one from it. `AnswersTrue`: what senders are told a receiver said, of that very message |
| messages_ends | a parent and a child, two connections, a queue that fills; an upgrade or a removal sent behind a post that waits; fair turns | `StreamTrue`: no client takes a closed stream for open, and the open stream of a listed pane is its queue's. `EndTold`: a parent hears of the end of its child, once. `NothingStuck`: it is written. `PostAnswered`: a sender that is held is answered or gone |
| views | two clients, 2 records of output, a crash, a leave; outputs that stall and overflow at any time | `MirrorTrue`: what a client is sent continues its copy, whatever it missed. `RefusedOnlyGone`: no fault of the protocol is found where there is none. `AnswerOwed`: each request has one owner and one answer to come, also when one finds the pane process gone |
| views_ending | one client with a partial mirror, a resize, an exit, a crash and a resync; fair turns and a client that reads | `ViewsCatchUp` |
| outbox | messages of 1 and 2 parts, a cap of 2, a file of 4, 6 messages | `WireTrue`: whole messages, in order, then the farewell or the close frame. `Bounded`. `EndsShut`: a sealed output shuts |
| runtimes | ssh or container, two processes that may fail to start, a pane that waits, two sessions with one slot, two cleanup commands in line | `CleanStart`: a start runs alone. `HelpersOwned`: each process has one place that waits for it. `SlotsMatch`: the slots are those of the sessions that run. `WaitsHeld`: what is held will be answered |
| runtimes_live | ssh or container, three sessions over two slots, a far side that refuses, two cleanup commands in line; fair handlers, kills and limits | `StartsEndOrStall`: a start ends, or waits for a cleanup that stands still. `SessionsStart`: a session that waits for the link, stands in line or is parked is started or told |
| panes | two panes, one perhaps a child of the other, two connections | `BatchWhole`: a put starts all of its panes or leaves none, and no death is withheld for ever. `StopsHeld`: a stop waits once, for a live pane. `DoomedWatched`: the one timer of the escalation is set to a deadline no later than any. `SweepAhead`: a pane that the rules do not keep is swept |
| layout | three panes, two windows, windows of 5x4, 2x7 and up to 7 | `WellFormed`: windows are filled to the cell, floats are inside, focus and zoom exist. `PutBackSame`: what a client reads and puts back changes nothing. `NobodyShrinks`: a removal takes cells from nobody |
| resize_tail | the pane against its ring, markers of 3 bytes | fails: `RequestsApplied` |

Bounds. A header of 1 or 2 bytes and a buffer of 8 to 10 keep every ratio the
code depends on: a pad room of two headers, records that end exactly at the
end, a buffer of at least four headers, markers that fit in half of it. Two laps
(`MaxHead` 18) are enough in Ring, because a cell is wrong only against the
position one lap before or after, and each lap starts in every phase the first
one can end in. PaneLink's `MaxHead` of 100 is never reached: `Budgets` bounds
the run. `Batch` bounds how many frames one read of the socket takes, as the read
budget of `ko_sys` does. The run of the pane uses markers of one byte, and a clear
of two, so that the flaw of resize_tail does not hide every other question.

In Messages a window of one or two and a ring of one id reach what 16 and 4096
reach: a message behind the window, acks out of order, an id that was settled,
forgotten and sent again (which needs three numbers, `MaxSeq`). `MaxSeq` bounds
what clients send and no handler. Three connections are a stream, a sender that
waits and another one, or the next stream. The connections are symmetric, and
symmetry is used where no liveness is checked. A pipeline of two is enough for a
handler inside a handler. `messages` sends one request at a time and has all of the
ids, with three connections; `messages_ends` pipelines, with two: a stream and a
sender whose upgrade makes it the next stream. That queues stay consistent for every
pipeline is proved (`QueuesHold`).

In Views, `Load` bounds what the pane does, not what server and clients do.
Two clients are needed for a snapshot that serves one while the other's is
under way; a threshold of four bytes is passed by two records, so a client is
behind, at, or ahead of it. In Outbox a message of two parts is cut by the socket,
and six parts fill the queue and the file and exceed both. In Runtimes two
processes are an old helper that still leaves and one of the new start; `MaxQueue`
bounds the cleanup commands in line, and two are one that does not start and one
behind it. One slot for two sessions makes the second stand in line. runtimes_live has
three sessions over two slots, so that one stands in line while two run, and one that
the far side refuses while another runs is parked; one process number does there,
as a session whose helper was reaped still runs until its output is read. The
sessions are alike, so `Followed` names one: what is asked of it rests on its own
timer, and the timers of the others need not fire. In PaneTable a
batch of two has a pane before the one that fails; two connections are one whose
reply is held and one that removes what it waits for. A rollback inside a rollback takes three panes,
too many for a full search; the properties of the run were searched there breadth
first over more than 20 million states without a violation. In Layout three panes
make every shape with a nested split, a float over a tile, and a window of one and
one of two.

Deadlock is checked in Ring, where the writer may always load the tail again, in
Messages, where a connection may always close, and in Runtimes. Elsewhere a
system with nothing to do rests, or a bound ends the run (`Sent` in Outbox,
`MaxPanes` in Layout), and the check is off.

Fairness. In PaneLink, Views and Messages, weak fairness of the pane's turn and of
the server's loop: each is a loop around `poll` that goes on when something is
ready, the ticker is a timer that keeps firing until it is stopped, and the timer
of a wait fires. In Views and Outbox a socket that the client reads becomes
writable, which is the only thing asked of a client; no action of a program on a
pty is fair. In Runtimes handlers end, SIGCHLD is looked at, timers expire, and a
process that was told to leave ends, since the server kills it after a while;
these are strong fairness where another event may take the place of one. No
helper in use is assumed to end. A property with an open pane on its left
side says so (`open`), because a server that removed the pane does not look at it
again. PaneTable has no fairness: its two timers are stated as safety
(`DoomedWatched`, `SweepAhead`: whoever waits for a timer, it is armed), since the
strong fairness that a direct statement needs is out of TLC's reach at this size.

## Disagreements found

- **resize_tail.** `Io::wait_space(minimum)` waits until `available()` answers
  the minimum. If the end of the buffer has room for some payload, but less than the
  minimum, no pad is due and nothing but the waiting pane could write past it.
  Full and tail are exchanged for ever and the resize (9 bytes), death marker
  (17) or slice (3) is not written. `Live::clear_history` knows the case and writes
  a filler pad.
- **Deferred frames.** A request that arrives while `dead()` waits for room is
  deferred, and deferred frames run only at the end of `control()`, which needs
  another frame. When that frame comes, it is run before the deferred one.
- **MessagesShown.cfg** (`ShownTrue`). `stream_closed` frees the stream, answers who
  waits, then broadcasts `inbox: false`. If one of the answered connections had an
  upgrade pipelined, the next stream is opened and announced in between, and clients
  are left with false while a stream is open, against docs/protocol.md:735.
- **MessagesOrphan.cfg** (`StreamOwned`). `stop_pane` runs `pane_ended` while the pane
  is still in the table and alive. An upgrade pipelined behind a post that waits
  there is served and opens a stream; the pane is removed and the stream stays, though
  the pane's death closes it by docs/protocol.md:736.
- **PaneTableRollback.cfg** (`TableMatches`). Two waits for runtimes end in one turn. The
  connection of the first has put a batch behind it whose second pane fails;
  removing the first pane answers the other wait, whose connection has a put of
  its own behind it, and that one succeeds. `rollback(before)` then takes its
  pane from the document while it stays in the table (state.rs:512-520), so that
  `GET /panes` and the layout differ, against docs/protocol.md:559. What does
  hold of a batch that fails is `BatchWhole`.
- **PaneTableStops.cfg** (`StoppedKilled`). A stop that waits while the pane is deleted is
  answered, but nothing kills the pane after the delay: `kill_pane` does not find the
  pane any more, and a delete by itself dooms nothing (docs/protocol.md:688-694
  against `settle_stops`).
- **PaneTableReap.cfg** (`ReapedOnSignal`). `reap` walks the table with
  `0..self.panes.len()` and `nth(index)`; a pane that is found dead is deleted
  from the table inside of the walk, so the next one is not looked at. Its socket
  ends and removes it, but nothing waits for its process before the next SIGCHLD
  (docs/design-ko.md:121 has the server reap on `SIGCHLD`).
- **RuntimesStuck.cfg** (`StartsEnd`). `drive` takes the next cleanup command when the
  last one ended. If it does not start (`exec::detached` fails) and another is behind
  it, nothing is left whose end would bring `drive` back: the link stays in cleaning,
  and a start that waits for it is `Starting` without a deadline, until some other
  child of the server ends. docs/design-runtimes.md:335 promises one deadline of 120 s
  for every stage of a start; in the code it is that of the `up` stage, which has not
  begun. `StartsEndOrStall` says that this is the only way for a start to hang.
- **Partial mirrors** (`PartialRefreshed`, `DeathAtItsOffset`, `ResumedWhole`). A
  client that resumes with a partial mirror over a resize is not sent a new
  snapshot (docs/protocol.md:387 says it is), nor the markers since its offset
  (docs/protocol.md:396), and the end of the program may come at another offset than
  that of its marker (docs/protocol.md:338).
- **Idle links** (`IdleArmed`). Opening an exec websocket does not call `occupy`
  (runtime/mod.rs:1377) but ends the idle timer's turn when it fires, and nothing
  arms it again: the link stays up unused, against docs/design-runtimes.md:370.

`PROJECT.json` lists the run resize_tail and quotes what it contradicts. The entries
named after a configuration are reproduced by it, in seconds: TLC stops at the
property named. Partial mirrors and idle links were found while the modules were
checked; the properties named stay in the modules.

Two more consequences of the code are visible in the models: the answer to a full
frame can lie unread in the pane's input behind a resize that waits in `wait_space`
(with longer markers, and a screen request and a resize in one budget, `FullAnswered`
fails); and while a stream drains behind a close frame, messages are marked written
though `Ws::send` drops them, so a sender may hear `delivered` of a message that was
not written (it is not lost: the close puts it back).

## What is proved

The assumptions are those of the modules on their constants (`FormatAssumption`,
`KindsAssumption`, `LengthsAssumption`, `InboxAssumption`, `MessagesAssumption`,
`CapAssumption`, `RuntimesAssumption`, `OutboxAssumption`; the last says that a piece
is at most the cap, as `fill()` asks for `self.cap.min(PIECE)`). The
theorems about the ring hold for every header length, capacity of at least four
headers, `MaxHead` and set of kinds, those about the pane also for every length of a
marker and every number of requests, those about messages for any panes, parents,
connections, ids and sizes, any caps and window, and any batch a client sends, those about runtimes for any
process numbers, waiting panes, stages, kinds and slots, and finitely many sessions,
those about outputs for any cap, piece, limit and set of lengths. Every
property of the run ring is proved, every safety property of the run pane, of the
runs of messages all but `StreamTrue` and `EndTold`, and every invariant of the runs
views, outbox and runtimes.

**RingProofs**: `TypesHold`, `WindowsHold`, `BytesHold`, `RoomHolds`, `WakeupsHold`
prove the invariants `TypeOK`, `Windows`, `Intact`, `RoomIsUsable`, `NoLostWakeup`,
and `HalfIsKept` the action property `KeepsHalf`, which `ImplementsLog` also implies. The inductive invariant is
`RingInv`. `Windows` alone is not inductive: that the head stays within a lap of the
cached tail after a commit needs what was decided at its start (`Committing`: the
pending record fits, starts at the head), that the tail the reader is about to store
is between the old one and what it saw needs `Releasing`, and that a commit of the
pad at the end is possible needs that a header fits at every head (`HeaderFits`: a
record leaves either nothing or a header's place behind it). The bytes need one more
invariant, `Staged`: which positions hold their bytes at each point of a commit. It
follows from two lemmas about a write of at most a lap (`WrittenIn`, `WrittenOut`),
which rest on the positions of less than a lap having different cells
(`CellInjective`). The prover knows little of `%`: `ModInjective`, `ModAdd` and
`ModWrap` are derived from the existence and uniqueness of quotient and remainder.
The wake-up and the room each need a conjunct of their own.

In the same module `LogImplemented` proves that Ring implements RecordLog. Beside
`RingInv` it needs `Numbered` (the offset that the writer counts is the one where the
log ends, and a record on its way carries it) and `Bounded` (what the reader saw, and
the tail it is about to store, are boundaries of records). `StoreHead` maps to a
publication, `StoreTail` to a release, every other step to a stutter. `CachesHold`
proves `CachesExact`. It needs `Tiled`: the records lie beside one another without a
gap, each begins where another ends, and offsets add up across that border. With it,
a walk from one boundary to a later one finds the offset of the later one whatever
lies between (`WalkExact`), and what it says of lost markers is right (`WalkTells`);
`CacheInv` says which boundaries the reader's caches speak of.

**PaneLinkProofs**: `NothingIsLost` proves `NothingLost`, below the bound `MaxHead` of
the model; its conjuncts have arguments of their own, which `PaneInv` joins.

- `NoneRefused`: no commit is refused. Every caller takes at most what `available()`
  answered; each part of that is placed well at the head, or behind the pad that
  `available()` commits first (`RoomGood`), and the head does not move before that
  commit (`Committing`).
- `NoneUnnoticed`: a server that no timer, frame or event will make scan has observed
  every head. `QuietInv` follows the two accesses of a commit and the two ends of a
  scan: a ticker stops only behind a scan that found nothing new, whose head is then
  the one stored in Read, which the next commit finds and answers with a head frame.
- `FullsAnswered`: the pane believes that the ring is full exactly while one question
  is under way. `FullInv` counts it: full frames said and sent, a scan for one, tails
  sent and read add up to one or to none. To count through the nested wait needs
  what it does to a queue as a whole (`Hits` over a concatenation and over a filter),
  and that tails lie in no other queue (`FrameTypes`).
- Requests: `OnceEach` counts each number over what was applied, the frames read, set
  aside and not yet read, and the resize that waits for room: once if it was sent,
  unless the pane stops, which drops what waits. The count moves with the frame from
  queue to queue, also when a wait reads frames behind a resize. That a step sees
  only these places needs `Turn`: frames are read and not run only in `control()` or
  in a wait that returns to it, and a commit goes on with what its job says.

`DeathIsLast`: the death marker comes after the last byte of output and the dead frame
after the marker (`DeadIsLast`, in `DeathTold`); the invariant is that end-of-file is
only seen when the program is over and read (`DeathInv`).

**MessagesProofs**: `MessagesInductive` proves the invariant `MessagesInv`, and from it
follow `QueuesHold` (`QueueConsistent`), `WritesInOrder` (`WrittenInOrder`),
`AnswersHold` (`AnswersTrue`), `NothingStays` (`NothingStuck`), `EntriesLast`
(`EntriesLeave`) and `MessagesTyped`. Each queue is handled first by itself:
the first part of the module states for every operation of Inbox what it does to the queue, the ids, the ring
of remembered ids and the byte counter, as one invariant of a queue (`BoxInv`). The
counter is the sum of the sizes of what is queued, which the operations change by
one size; `Bytes` is a recursive function, and `BytesWithout` says what a removal
from the middle leaves. The parts of `MessagesInv`, none of which is inductive alone:

- `Types`, with `BoxInv` of every queue.
- `Turns`: a connection that is held is held by one wait or by one answer still to
  come, never both, and the message of a wait is written and unanswered. Handlers
  call one another, so all of it has to hold between any two tasks of a turn: with
  some waits answered and others not, while the pane that ended is half removed.
- `Streams`: the stream of a queue is a connection in that role that was sent what
  counts as written (`SentOK`); what the window lets through is written or a flush is
  still to come; an open stream is its pane's, or it is about to end.
- `Settlements`: an outcome that is remembered was said by a receiver, of the message
  with that number and not of an older one with its id.

One thing the proof showed: a pane that is gone has no queue, and still a post may
wait for it. When the end of a pane answers a held post, a post that the client sent
behind it is served inside of that handler and may be queued and held in the pane
that ends; it is answered at its deadline. `WaitsMatch` says so.

**ViewsProofs**: `TypesHold` proves that the records tile the log, that each marker and
each slice has its tag (`LogInv`, `TagInv`) and the types, and `AnswerOwedHolds` proves
`AnswerOwed` from `OwedInv`, for any number of clients:

- `OwedOnce`: a serial is counted over the requests, those whose end was seen and
  the done events: once while it has an owner. Without one it is not there, or once,
  among the events, for the request that found the pane process gone: `snapshot` puts it
  into the requests before the send fails, the failure answers it with all others,
  and the view that asked was not given a serial (pane_proc.rs:632-639). A count is
  needed, not membership: a request that is found moves from the first to the second,
  a done frame moves it to the events, a failure moves all that are left at once, and
  an event that is taken removes the owner with it; none of them says by itself that
  no copy stays behind.
- `OneOwner`, `AskerOwns`: a serial has one owner, and a view that waits is the owner of
  the serial it waits for. With the count this makes the done event find that view.

`RefusedOnlyGoneHolds` proves `RefusedOnlyGone`: each fault that the model's walk and
its views can find (`Fault::EarlySlice`, `Fault::Ring` for a slice that was released,
`Invalid::Slice` for an offset that goes back, a done frame whose view has other slices)
is shown to be out of reach while the pane process lives. What
makes it true is spread over the log, the queues of the pane, of Delivery and of the
server and the views, so it needs two invariants more:

- `SlicesInv` numbers the slices: those of request n are 2n - 1 and 2n (`Num`), they
  lie in the log in that order without a gap (`Ordered`, `Amount`), and Delivery has
  handed over exactly those up to `Handed`, a number made from its queues
  (`QueueInv`): a slice lies before `delivered` if and only if its number is at most
  `Handed`. So the next slice that is found belongs to the first request (`NextHanded`)
  and, as a scan releases nothing behind `delivered`, was not released. A done frame is
  sent behind its last slice (`FramesInv`) and read after a look at the ring (`PcInv`),
  so the request it names has left the queue (`DoneFinds`), and a done event without
  an end is one of a failure (`EventsInv`).
- `GotInv` says of each view that waits what it has, by the place of its request: as
  many slices as Delivery counts if it is the first, none if it is behind, both and the
  end that is held if it is among the finished or the events; and that a slice still to
  come does not lie before its offset (`GotSlices`), which holds because an offset is
  never past the end of the log when the view asks. A view that is closed, whose
  client left or overflowed, has no part in it: its request goes on and nobody is there
  to be refused. A pane given up makes done events without an end, and with them the
  refusals that the property allows.

`MirrorTrueHolds` proves `MirrorTrue` from a last invariant, `CopyInv`, on top of these:

- `RootedInv`: an offset of a record, and that at the head, is 0 or where the bytes of
  an earlier record end. It is what makes the offsets of the log an answer to "which
  bytes lie before": two offsets of the log without bytes between them are the same.
- `Fit`, of each view and its copy: no message has left the copy wanting (`Whole`); a
  view that has one slice has a copy in that snapshot; a view that has both, and a
  live one that wants nothing, is `InPlace`. That is `InStep` of the property, made
  inductive: no marker lies between the copy and the cursor and no bytes before the
  cursor are missing from it, and the markers from the cursor on lie at the view's
  offset or behind it. The last part is what the property does not say
  and a resume needs, as it sends every marker from the cursor on, whatever its offset.
- `WantsNothing`: a view that is between its decision and its resume wants no snapshot.

Each way to become live is shown to leave the view in place: the last slice of a
snapshot (`SliceFit`, kept until the done event by the count of `GotInv`), a position
that the ring finds for an offset (`ResumedPlace`: what was released lies before the
oldest offset), a cursor moved on to the tail (`PlaceFit`: only slices were released
there, or the view had decided for a snapshot), and a record published meanwhile
(`GrowFit`). A resume sends a prefix of what lies between the cursor and the head:
`ReplayStep` shows of one message that it continues the copy that the earlier ones made,
`ReplayWhole` of all of them, and `HeldPlace` and `HeadPlace` that the cursor which a
batch that stops, or one that ends, leaves behind is where that copy is.

What a resume makes of a copy is an induction over the positions of the log
(`ReplayUnfolds`, `ReplayFares`, `ReplayWhole`), with `NatInduct` of FilterProofs.

The operations of a view are nested updates of one record (the view, its output and the
client's copy); `AskCases`, `SliceCases`, `DoneCases`, `DecidesCases` and `ResumeCases`
take each apart once into the states that it may leave, and the steps use those.

**RuntimesProofs**: `RuntimesHolds` proves the invariant `RuntimesInv`, and from it
follow `HelpersHaveOwner` (`HelpersOwned`) and `StartsAreClean` (`CleanStart`);
`WaitsAreHeld` (`WaitsHeld`) needs `WaitsInv`, which adds two parts to it, and
`SlotsAreMatched` (`SlotsMatch`) needs `SlotInv`, which adds four others. The
hard part is again that it has to hold between any two calls of a handler, at places
where the code relies on what an earlier call of the same handler left.

- `OneOwner`, `Accounted`: a process is one child's, one session's, the link's helper
  or its watch, or on one list of those that were told to leave, and every process
  that was not waited for is one of these. `WaitedIs` says what a step does to all
  other processes that waits for some and starts one.
- `RolesKept`: a command of a start, of a stop or of a deletion that still runs is in
  use, or on the list `reaping` that the next command waits for. This is what
  `CleanStart` follows from; alone it is not inductive, since it says nothing
  of a stage that a call further down will start.
- `CallsInv`: a call that starts a stage or a watch comes when nothing of the last
  start is left (`Clean`), and while either runs nothing of it comes back; a session
  that is finished gave its process up; a deletion follows the end of the link.
- `StackInv`: what a handler must do at once (`AtOnce`) is the next call, so nothing
  runs between the test of `advance` and the start that it decides, and a deletion is
  the last call of its handler. Each action is shown once to be of the shape that these
  arguments need (`LinkLeaves`, `ExecLeaves` for what it pushes, `ProcStep` for the
  processes, `QuietCalls` for the queue of commands).
- `WaitsTold`: a call that may change the state of the link (`Needs`) has a call
  behind it in its handler that tells those who wait (`Tells`), and so has whatever a
  check left to answer. So between handlers nobody waits for a link that does not
  start, and nothing is left in `passed`. That it holds is not local: the code that
  changes the link and the code that tells are in different calls.
- `WaitsOnce`: a waiter whose reply is held has exactly one place, and one whose
  reply went out has none: the row `waits`, a call to come that is about it, a child
  that checks or delivers for it, or `passed`. `WaitsHeld` looks only at two of the four
  and is not inductive without the others: `Collect` turns children into calls,
  `Unlink` turns the row into calls, the end of the link turns children into `passed`.

- `Counted`: `SlotsMatch` speaks of the time between two handlers; within one, the
  slots that are taken are those of the sessions that run, and those of the calls to
  come that start a session (`spawn`) or give a slot back (`leave`). `Full`: they are at
  most `Cap`, nobody stands in line while one is free, and nobody is parked while no
  session runs. The operators of Limiter keep it for any line (`LeaveSlots` and those
  around it).
- `Placed`: a queued session has exactly one place, in `waits`, in the line or in a call
  that answers it, goes on with it, joins the line or starts it, and others have none.
  The one exception is a session that has left its place and that the call at hand,
  `release`, drops. Its timer runs while it is in line, and on to the call that starts it.
- `Ordered`: no call that ends sessions stands before one that gives a place to a session
  it ends. Without it a session that ended would be started by a call still to come, and
  the slot counted for nobody. It depends on what each handler pushes, in which order.

`Collect` takes the children that ended in any order; the order is an injection of
numbers, which the prover can take apart.

**OutboxProofs**: `OutboxHolds` proves the invariant `OutboxInv`, from which `WireHolds`
(`WireTrue`) and `BoundsHold` (`Bounded`) follow. Both speak of sequences that are cut at
any place and joined again, so the first part of the module is about those:
`FlattenSeq` is a recursive function of the library, `FlattenUnfolds` shows that it
exists, and `FlattenAppend`, `FlattenConcat` and `CutTwice` what it does to one element
more, to two parts and to a part of a part.

- `Pieces` are the chunks, the messages of the file and the tail of a draining queue,
  in the order they are sent. `Line` names the wire up to the first of them: what the
  peer has is that much and `taken` parts of the first piece.
- `Kept`, while nothing was given up: what was taken on is that wire, the pieces and
  the body, and every piece *ends* at the end of a message. The first piece also
  begins at one, unless it is the tail of a record (`Cut`). `WireTrue` alone is not
  inductive, as it says nothing of where a chunk ends: an overflow cuts the queue
  behind the chunk in flight, and the farewell is only readable if that is the end of
  a message. That the tail of a record counts as in flight before a part of it was
  sent is what the case of `Cut` needs.
- `Given`, after the overflow of a view: the pieces end with the farewell, and the
  wire with them is a prefix of the messages and the farewell. `Dropped`, after any
  other: nothing waits, and the peer has a prefix.
- `Counted`: `bytes` and `taken` add up to what the chunks hold, and `taken` is less
  than the first chunk. `Limits` bounds both by `Roomy` (at most the cap, or at most one
  message), with room for a close frame where the policy says that it may be there;
  a file that was ended is not empty.
- `Stages`: a body is being sent only in the phase streaming, before the upgrade, when
  nothing can spill; so pixels never have to wait behind a file.

The operators on a queue are shown each to keep `QueueInv` for any queue and any wire
(`PushedKeeps`, `OverflowKeeps`, `FinishedKeeps`, `FilledKeeps`, `WrittenKeeps`,
`DirectKeeps`), and the actions follow from those by what they call.

The induction that these need (over the prefixes of a sequence) is `NatInduct` of
FilterProofs, stated for a set of numbers and not for a predicate, and proved from the
least element of a set.

Only model-checked: all liveness, as the prover reasons neither about fairness nor
about ENABLED (`PostAnswered`, `CaughtUp`, `FullAnswered`, `ClearDone`, `ExitStops`, the
second half of `DeathTold`, `ViewsCatchUp`, `StartsEndOrStall`, `SessionsStart`,
`EndsShut`); `StreamTrue`; `EndTold`, whose first half needs that no sender
uses the id `ended-<pane>` that the server makes; PaneTable (`BatchWhole`, `StopsHeld`,
`DoomedWatched`, `SweepAhead`); and Tiles with Layout, whose recursive operators are
out of the prover's reach.

## Not modelled

- *In the modelled parts.* Pane: event frames, searches, images, clipboard. Messages:
  sender stamps, scopes and relations; what a client sends behind an upgrade
  before it is answered. Views: searches and images; a snapshot has two slices.
  Outbox: TLS and the parsing of requests. Runtimes: visits, the command kind, the
  shutdown of the server, the times of the escalation; a request behind a held
  wait is taken as arriving in a later turn; process numbers are not reused while
  listed. The forced removal of an ad-hoc runtime with its session is a down and a
  deletion. One thing is as the code has it, and worth knowing: a check that ends late
  goes to the list of those that leave without a call of `runtimes_changed`. PaneTable: listings, the scope of callers, the
  environment of panes, shutdown. Layout: sessions, names, variables, pixels, the
  revision, and the order of z that a client gives.
- *Pane status* (`pane_status.rs`, `program_status.rs`, `model.rs`): what a pane is
  doing, from prompts, telemetry and timers. It is a function of its history with
  many inputs, and could be a module like Limiter; not written.
- *Clipboard and media* (`clipboard.rs`, `media.rs`): one reply each, with a limit.
- *Client model* (`ko_client`): optimistic edits against announcements. The edits
  are those of Layout; the composition of the two is not written.
- *Client links, terminal client, applications, command line*: input and output
  around libraries and operating systems, whose state is mostly what is shown.
- *Terminal emulator binding, its vendored library, frame codecs, shell integration,
  configuration*: generated, or conversions without a state to interleave.
- *Server process*: sockets, locks and files of one start; its steps are the
  operating system's.
