------------------------------ MODULE Runtimes ------------------------------
(* One runtime of the server: its link (runtime/mod.rs), the panes and exec *)
(* sessions that use it (state/runtime_ops.rs, state/exec_ops.rs), and the  *)
(* helper processes that the server starts for it and gets rid of           *)
(* (runtime/leaving.rs).                                                    *)
(*                                                                          *)
(* Handlers call one another and themselves: settling a wait starts a       *)
(* session, which may fail and settle more waits.  `calls` is what the      *)
(* handler that runs has still to do, the next call first; the outside      *)
(* world acts between handlers, and processes end at any time.              *)
EXTENDS Limiter, FiniteSets

CONSTANTS Pids,      \* the numbers of the processes the server may have
          Waiters,   \* connections of panes that ask for the state of the link
          Sessions,  \* connections of exec sessions
          Followed,  \* the sessions that the liveness properties follow
          Stages,    \* the commands of an up step
          MaxQueue,  \* bound on the cleanup commands that wait
          Kinds,     \* "ssh": checks and tokens; "container": a watch
          None

ASSUME RuntimesAssumption ==
  /\ IsFiniteSet(Sessions)
  /\ Pids \subseteq Nat /\ Stages \in Nat \ {0} /\ MaxQueue \in Nat \ {0}
  /\ Kinds \subseteq {"ssh", "container"}
  /\ None \notin Pids \cup Waiters \cup Sessions
  /\ Waiters \cap Sessions = {}

ASSUME FollowedAssumption == Followed \subseteq Sessions

VARIABLES
  kind,      \* of the runtime's settings
  link,      \* Link: phase, stage, helper, watch, idle timer, occupied
  children,  \* Registry.children: checks and deliveries with who waits for them
  queue,     \* Cleanup.queue: the commands that still have to run
  reaping,   \* Cleanup.reaping: what the next of them waits for
  dying,     \* Registry.dying: helpers dropped and not yet handed over
  cleaning,  \* Registry.cleaning: cleanup commands not yet tracked
  passed,    \* Registry.passed: waiters whose check has its answer
  waits,     \* Registry.waits
  deleting,  \* Registry.deleting
  dir,       \* the runtime's directory exists
  leaving,   \* Leaving.doomed
  proc,      \* the processes: role, and "free", "run" or "zombie"
  sigchld,   \* a child ended and the server has not looked
  held,      \* waiters whose reply is held
  resident,  \* a pane of the runtime is in the table
  sess,      \* exec sessions
  lim,       \* the limiter of the runtime
  calls      \* what the handler that runs has still to do

registry == <<children, dying, cleaning, passed, waits>>
cleanup  == <<queue, reaping>>
storage  == <<deleting, dir>>
clients  == <<held, resident>>
execs    == <<sess, lim>>
vars == <<kind, link, registry, cleanup, storage, leaving, proc, sigchld,
          clients, execs, calls>>
----------------------------------------------------------------------------
NoProc == [role |-> "none", st |-> "free"]
NoSess == [stage |-> "none", timer |-> FALSE, retried |-> FALSE,
           pid |-> None, late |-> FALSE]
Down == [phase |-> "none", n |-> 0, helper |-> None, watch |-> None,
         idle |-> FALSE, occupied |-> FALSE]

Live == link.phase \in {"cleaning", "stage", "up"}     \* Link::live
Pending_QueueOnly == queue # <<>>
Pending == queue # <<>> \/ reaping # {}                \* cleanups has the key

(* Registry::state                                                          *)
LinkState == CASE link.phase = "none" -> "down"
               [] link.phase \in {"cleaning", "stage"} -> "starting"
               [] OTHER -> link.phase

(* The lists of process numbers that the server looks at again.             *)
Listed == leaving \cup dying \cup cleaning \cup reaping

(* A number that is still on a list is not given out again.  The start of a *)
(* process may always fail: no number is free, or the command does not run. *)
Free == {p \in Pids : proc[p].st = "free"} \ Listed
NewPid == Min(Free)
Attempts == {{}} \cup (IF Free = {} THEN {} ELSE {{NewPid}})
Running(ps) == {p \in ps \ {None} : proc[p].st = "run"}
Spawned(p, role) == [proc EXCEPT ![p] = [role |-> role, st |-> "run"]]

(* waitpid on each: the zombies are gone.                                   *)
Waited(ps) ==
  [p \in Pids |-> IF p \in ps /\ proc[p].st = "zombie" THEN NoProc ELSE proc[p]]

Call(op, who, state) == [op |-> op, who |-> who, state |-> state]
Plain(op)     == Call(op, None, "")
For(op, who)  == Call(op, who, "")
ForEach(op, s) == [i \in DOMAIN s |-> For(op, s[i])]
Answers(s, state) == [i \in DOMAIN s |-> Call("answer", s[i], state)]

\* touch_runtime, then runtimes_changed
Notice == <<Plain("notice")>>

AtRest == calls = <<>>
Do(op) == ~AtRest /\ Head(calls).op = op
Who == Head(calls).who
Then(more) == calls' = more \o Tail(calls)
----------------------------------------------------------------------------
(* State::occupied: a pane of the table, or a session that has not ended.   *)
Using(c) == sess[c].stage \in {"open", "queued", "running"}
Occupied == resident \/ \E c \in Sessions : Using(c)

(* touch_runtime and Registry::occupy: the idle timer follows the change.   *)
Touched == IF Live /\ link.occupied # Occupied
           THEN [link EXCEPT !.occupied = Occupied, !.idle = ~Occupied]
           ELSE link

Touch ==
  /\ Do("touch") /\ Then(<<>>)
  /\ link' = Touched
  /\ UNCHANGED <<kind, registry, cleanup, storage, leaving, proc, sigchld,
                 clients, execs>>
----------------------------------------------------------------------------
(* drive: the next cleanup command runs when all before it were reaped.  A  *)
(* command that does not start is gone, and the one after it waits for the  *)
(* next drive.                                                              *)
Drive(commands, before, after) ==
  LET still == Running(before)
      next  == still = {} /\ commands # <<>>
  IN \E new \in IF next THEN Attempts ELSE {{}} :
     /\ queue' = IF next THEN Tail(commands) ELSE commands
     /\ reaping' = still \cup new
     /\ cleaning' = cleaning \cup new
     /\ proc' = [p \in Pids |-> IF p \in new
                  THEN [role |-> Head(commands), st |-> "run"] ELSE after[p]]

(* Registry::end: what the link runs ends, the waiters behind its children  *)
(* get their answer, and the stop command waits for the helpers.            *)
Helpers_NoWatch == {c.pid : c \in children} \cup ({link.helper} \ {None})
Helpers == {c.pid : c \in children} \cup ({link.helper, link.watch} \ {None})

End(after) ==
  /\ link' = after
  /\ children' = {}
  /\ passed' = passed \cup ({c.who : c \in children} \ {None})
  /\ dying' = dying \cup Running(Helpers)
  /\ Drive(Append(queue, "stop"), reaping \cup Running(Helpers),
           Waited(Helpers \cup reaping))

(* begin: a link that is not live is made anew; its first stage waits for   *)
(* the cleanup of the last one.                                             *)
Began == [Down EXCEPT !.phase = "cleaning", !.occupied = TRUE]

Begin ==
  /\ Do("begin")
  /\ IF Live THEN UNCHANGED <<link, storage>> /\ Then(<<>>)
     ELSE /\ deleting' = FALSE
          /\ \/ link' = Began /\ dir' = TRUE
                /\ Then(IF Pending THEN <<>> ELSE <<Plain("stage")>>)
             \/ link' = [Began EXCEPT !.phase = "failed"]     \* bind failed
                /\ dir' = dir /\ Then(<<>>)
  /\ UNCHANGED <<kind, registry, cleanup, leaving, proc, sigchld, clients, execs>>

(* start_steps and next_step: a stage is spawned, or the start fails.       *)
StartStage ==
  /\ Do("stage")
  /\ \/ /\ Free # {}
        /\ link' = [link EXCEPT !.phase = "stage", !.n = @ + 1, !.helper = NewPid]
        /\ proc' = Spawned(NewPid, "stage")
        /\ Then(<<>>)
     \/ Then(<<Plain("fail")>>) /\ UNCHANGED <<link, proc>>
  /\ UNCHANGED <<kind, registry, cleanup, storage, leaving, sigchld, clients, execs>>

Fail ==
  /\ Do("fail")
  /\ End([Down EXCEPT !.phase = "failed", !.occupied = link.occupied])
  /\ Then(<<>>)
  /\ UNCHANGED <<kind, waits, storage, leaving, sigchld, clients, execs>>

(* restart, of a link that is up.                                           *)
Restart ==
  /\ Do("restart")
  /\ IF link.phase = "up"
     THEN End(Down) /\ Then(<<Plain("begin")>>)
     ELSE /\ Then(<<>>)
          /\ UNCHANGED <<link, children, dying, cleaning, passed, cleanup, proc>>
  /\ UNCHANGED <<kind, waits, storage, leaving, sigchld, clients, execs>>
----------------------------------------------------------------------------
(* The children of a link that is up: a check that it still is, and the     *)
(* delivery of a pane's token.                                              *)
Child(p, job, who) == [pid |-> p, job |-> job, who |-> who]

Spawns(job, who) ==
  /\ children' = children \cup {Child(NewPid, job, who)}
  /\ proc' = Spawned(NewPid, job)

(* pass_token, for a waiter whose pane may have left.                       *)
PassToken(who) ==
  \/ /\ resident /\ link.phase # "none" /\ Free # {}
     /\ Spawns("check", who) /\ UNCHANGED held
  \/ held' = held \ {who} /\ UNCHANGED <<children, proc>>

(* answer_wait                                                              *)
Answer ==
  /\ Do("answer")
  /\ LET up == Head(calls).state = "up"
     IN IF Who \in Sessions
        THEN /\ Then(IF sess[Who].stage = "none" THEN <<>>
                     ELSE <<For(IF up THEN "join" ELSE "release", Who)>>)
             /\ UNCHANGED <<held, children, proc>>
        ELSE /\ IF up /\ link.phase = "up" /\ kind = "ssh" THEN PassToken(Who)
                ELSE held' = held \ {Who} /\ UNCHANGED <<children, proc>>
             /\ Then(<<>>)
  /\ UNCHANGED <<kind, link, dying, cleaning, passed, waits, cleanup, storage,
                 leaving, sigchld, resident, execs>>

(* The waiters behind a dropped check are forgotten.                         *)
TellPassed_None == passed' = {} /\ UNCHANGED held

(* answer_passed, for each.                                                 *)
TellPassed == passed' = {} /\ held' = held \ passed

(* take_settled: the waits of links that do not start any more.             *)
Settled == IF LinkState = "starting" THEN <<>> ELSE waits

(* runtimes_changed: the helpers that the registry dropped are signalled    *)
(* and tracked, and the waits that are over get their answer.               *)
Changed ==
  /\ Do("changed") \/ Do("notice")
  /\ link' = IF Do("notice") THEN Touched ELSE link
  /\ leaving' = leaving \cup dying \cup cleaning
  /\ dying' = {} /\ cleaning' = {}
  /\ waits' = IF LinkState = "starting" THEN waits ELSE <<>>
  /\ IF Settled = <<>> THEN Then(<<>>) /\ TellPassed
     ELSE /\ Then(Answers(Settled, LinkState) \o <<Plain("passed")>>)
          /\ UNCHANGED <<held, passed>>
  /\ UNCHANGED <<kind, children, cleanup, storage, proc, sigchld, resident,
                 execs>>

AnswerPassed ==
  /\ Do("passed")
  /\ TellPassed
  /\ Then(<<>>)
  /\ UNCHANGED <<kind, link, children, dying, cleaning, waits, cleanup, storage,
                 leaving, proc, sigchld, resident, execs>>
----------------------------------------------------------------------------
(* Exec sessions.                                                           *)
SetSess(c, s) == sess' = [sess EXCEPT ![c] = s]
Queued(c)  == sess[c].stage = "queued"
Runs(c) == sess[c].stage = "running"

(* leave: every session that still runs started before this end.            *)
LateAfter(s) == [c \in Sessions |-> IF s[c].stage = "running"
                                    THEN [s[c] EXCEPT !.late = TRUE] ELSE s[c]]

(* exec_proceed                                                             *)
Proceed ==
  /\ Do("proceed")
  /\ LET c == Who
     IN CASE LinkState = "starting" -> waits' = Append(waits, c) /\ Then(<<>>)
          [] LinkState = "up" -> waits' = waits /\ Then(<<For("join", c)>>)
          [] OTHER -> waits' = waits /\ Then(<<For("release", c)>>)
  /\ UNCHANGED <<kind, link, children, dying, cleaning, passed, cleanup, storage,
                 leaving, proc, sigchld, clients, execs>>

(* exec_wait_timer, of a session that waits for a slot.                     *)
Timed(c) == [sess[c] EXCEPT !.timer = Queued(c)]

(* exec_join: the session runs, or waits for a slot with a timer.           *)
JoinSlot ==
  /\ Do("join")
  /\ lim' = Join(lim, Who)
  /\ IF Joins(lim) THEN Then(<<For("spawn", Who)>>) /\ sess' = sess
     ELSE SetSess(Who, Timed(Who)) /\ Then(<<>>)
  /\ UNCHANGED <<kind, link, registry, cleanup, storage, leaving, proc, sigchld,
                 clients>>

(* exec_start and exec_spawn: the messages that came meanwhile may be       *)
(* wrong, and the helper may end before it is first read.                   *)
SpawnSession ==
  /\ Do("spawn")
  /\ LET c == Who
     IN IF ~Queued(c) THEN Then(<<>>) /\ UNCHANGED <<sess, proc>>
        ELSE \/ /\ Free # {}
                /\ SetSess(c, [NoSess EXCEPT !.stage = "running", !.pid = NewPid,
                                             !.retried = sess[c].retried])
                /\ proc' = Spawned(NewPid, "session")
                /\ Then(<<For("pump", c)>>) \/ Then(<<For("release", c)>>)
             \/ /\ SetSess(c, [sess[c] EXCEPT !.timer = FALSE])
                /\ Then(<<For("release", c), Plain("leave")>>)
                /\ UNCHANGED proc
  /\ UNCHANGED <<kind, link, registry, cleanup, storage, leaving, sigchld,
                 clients, lim>>

LeaveLimiter ==
  /\ Do("leave")
  /\ lim' = LeaveSlot(lim).lim
  /\ sess' = LateAfter(sess)
  /\ Then(ForEach("spawn", LeaveSlot(lim).start))
  /\ UNCHANGED <<kind, link, registry, cleanup, storage, leaving, proc, sigchld,
                 clients>>

(* exec_release, at an error, the exit or the end of the connection: the    *)
(* timer, the place in the queue and the wait go, or the helper and its     *)
(* slot.                                                                    *)
Forgotten_Not(c) == UNCHANGED waits
Forgotten(c) == waits' = Only(waits, ToSet(waits) \ {c})

Release(c, after) ==
  /\ CASE Queued(c) ->
            /\ lim' = Forget(lim, c)
            /\ Forgotten(c)
            /\ SetSess(c, after)
            /\ Then(Notice)
            /\ UNCHANGED <<leaving, proc>>
       [] Runs(c) ->
            /\ lim' = LeaveSlot(lim).lim
            /\ sess' = LateAfter([sess EXCEPT ![c] = after])
            /\ leaving' = leaving \cup Running({sess[c].pid})
            /\ proc' = Waited({sess[c].pid})
            /\ Then(ForEach("spawn", LeaveSlot(lim).start) \o Notice)
            /\ UNCHANGED waits
       [] OTHER ->
            /\ SetSess(c, after)
            /\ Then(Notice)
            /\ UNCHANGED <<lim, waits, leaving, proc>>
  /\ UNCHANGED <<kind, link, children, dying, cleaning, passed, cleanup, storage,
                 sigchld, clients>>

EndSession == Do("release") /\ sess[Who].stage # "none"
              /\ Release(Who, [NoSess EXCEPT !.stage = "ended"])
CloseSession == Do("gone") /\ Release(Who, NoSess)

(* pump_exec: the helper that ended is reaped; the session is over when its *)
(* output was read to the end, which a client that does not read delays.    *)
Pump ==
  /\ Do("pump")
  /\ LET c == Who
         ended == Runs(c) /\ Running({sess[c].pid}) = {}
     IN IF ~ended THEN Then(<<>>) /\ UNCHANGED <<sess, proc>>
        ELSE /\ proc' = Waited({sess[c].pid})
             /\ SetSess(c, [sess[c] EXCEPT !.pid = None])
             /\ Then(<<>>) \/ Then(<<For("finished", c)>>)
  /\ UNCHANGED <<kind, link, registry, cleanup, storage, leaving, sigchld,
                 clients, lim>>

(* exec_finished: an exit; or for ssh, a refusal before any output, which   *)
(* is tried once more, or an error, at which the link is suspected.         *)
FinishExit ==
  /\ Do("finished") /\ Then(<<For("release", Who)>>)
  /\ UNCHANGED <<kind, link, registry, cleanup, storage, leaving, proc, sigchld,
                 clients, execs>>

FinishError ==
  /\ Do("finished") /\ kind = "ssh"
  /\ \/ /\ link.phase # "none" /\ Free # {}
        /\ ~\E ch \in children : ch.job = "check" /\ ch.who = None
        /\ Spawns("check", None)
     \/ UNCHANGED <<children, proc>>
  /\ Then(<<For("release", Who)>>)
  /\ UNCHANGED <<kind, link, dying, cleaning, passed, waits, cleanup, storage,
                 leaving, sigchld, clients, execs>>

(* What is left of a refused session: it waits again, with a timer when it  *)
(* is parked.                                                               *)
Refused_NoTimer(parked) == [NoSess EXCEPT !.stage = "queued", !.retried = TRUE]
Refused(parked) == [NoSess EXCEPT !.stage = "queued", !.retried = TRUE,
                                  !.timer = parked]

FinishRetry ==
  /\ Do("finished") /\ kind = "ssh" /\ ~sess[Who].retried
  /\ LET c == Who
         r == Retry(lim, c, sess[c].late)
     IN /\ lim' = r.lim
        /\ SetSess(c, Refused(~Again(lim, sess[c].late)))
        /\ Then(ForEach("spawn", r.start))
  /\ UNCHANGED <<kind, link, registry, cleanup, storage, leaving, proc, sigchld,
                 clients>>
----------------------------------------------------------------------------
(* Registry::reap and what State::reap does after it.                       *)
Zombie(p) == p # None /\ proc[p].st = "zombie"

(* advance: the stage ended, and the next runs, the link is up, or the      *)
(* start failed.                                                            *)
NoHelper == [link EXCEPT !.helper = None]

Advance ==
  /\ Do("advance")
  /\ IF link.phase = "stage" /\ Zombie(link.helper)
     THEN /\ link' = [NoHelper EXCEPT !.phase = "cleaning"]
          /\ proc' = Waited({link.helper})
          /\ \/ link.n < Stages /\ Then(<<Plain("stage")>>)
             \/ link.n = Stages /\ Then(<<Plain("watch")>>)
             \/ Then(<<Plain("fail")>>)
     ELSE Then(<<>>) /\ UNCHANGED <<link, proc>>
  /\ UNCHANGED <<kind, registry, cleanup, storage, leaving, sigchld, clients, execs>>

(* watch: the link is up, for a container with a watch on it.               *)
GoUp ==
  /\ Do("watch")
  /\ LET up == [link EXCEPT !.phase = "up"]
     IN IF kind = "ssh" THEN link' = up /\ Then(<<>>) /\ UNCHANGED proc
        ELSE \/ /\ Free # {}
                /\ link' = [up EXCEPT !.watch = NewPid]
                /\ proc' = Spawned(NewPid, "watch")
                /\ Then(<<>>)
             \/ Then(<<Plain("fail")>>) /\ UNCHANGED <<link, proc>>
  /\ UNCHANGED <<kind, registry, cleanup, storage, leaving, sigchld, clients, execs>>

(* The children that ended leave the list, and each is finished.            *)
Collect ==
  /\ Do("collect")
  /\ LET done == {c \in children : Zombie(c.pid)}
     IN /\ children' = children \ done
        /\ proc' = Waited({c.pid : c \in done})
        /\ \E order \in [1 .. Cardinality(done) -> done] :
             /\ IsInjective(order)
             /\ Then([i \in DOMAIN order |->
                       Call("finish", order[i].who, order[i].job)])
  /\ UNCHANGED <<kind, link, dying, cleaning, passed, waits, cleanup, storage,
                 leaving, sigchld, clients, execs>>

(* finish: a check that passed goes on to deliver; one that failed starts   *)
(* the link again; after a delivery the waiter is answered.                 *)
FinishCheck ==
  /\ Do("finish") /\ Head(calls).state = "check"
  /\ \/ /\ Who # None /\ link.phase # "none" /\ Free # {}     \* deliver
        /\ Spawns("deliver", Who)
        /\ Then(<<>>) /\ UNCHANGED passed
     \/ /\ passed' = passed \cup ({Who} \ {None})     \* or nothing to deliver
        /\ Then(<<>>) /\ UNCHANGED <<children, proc>>
     \/ /\ passed' = passed \cup ({Who} \ {None})               \* it failed
        /\ Then(<<Plain("restart")>>) /\ UNCHANGED <<children, proc>>
  /\ UNCHANGED <<kind, link, dying, cleaning, waits, cleanup, storage, leaving,
                 sigchld, clients, execs>>

FinishDeliver ==
  /\ Do("finish") /\ Head(calls).state = "deliver"
  /\ passed' = passed \cup {Who}
  /\ Then(<<>>)
  /\ UNCHANGED <<kind, link, children, dying, cleaning, waits, cleanup, storage,
                 leaving, proc, sigchld, clients, execs>>

(* settle: drive; then directories that waited for a cleanup go, and a      *)
(* start that waited for it goes on.                                        *)
Ready_Driven == link.phase = "cleaning" /\ queue # <<>> /\ ~Pending'
Ready == link.phase = "cleaning" /\ ~Pending'

Settle ==
  /\ Do("settle")
  /\ Drive(queue, reaping, Waited(reaping))
  /\ IF deleting /\ ~Pending' THEN deleting' = FALSE /\ dir' = FALSE
     ELSE UNCHANGED storage
  /\ Then(IF Ready THEN <<Plain("stage")>> ELSE <<>>)
  /\ UNCHANGED <<kind, link, children, dying, passed, waits, leaving, sigchld,
                 clients, execs>>

(* A container whose watch ended is taken down.                             *)
WatchEnds ==
  /\ Do("watched")
  /\ IF Zombie(link.watch)
     THEN /\ link' = [link EXCEPT !.watch = None]
          /\ proc' = Waited({link.watch})
          /\ Then(<<Plain("down")>>)
     ELSE Then(<<>>) /\ UNCHANGED <<link, proc>>
  /\ UNCHANGED <<kind, registry, cleanup, storage, leaving, sigchld, clients, execs>>

PumpAll ==
  /\ Do("pumps")
  /\ Then(ForEach("pump", SetToSeq({c \in Sessions : Runs(c)})))
  /\ UNCHANGED <<kind, link, registry, cleanup, storage, leaving, proc, sigchld,
                 clients, execs>>

ReapLeaving ==
  /\ Do("bury")
  /\ leaving' = Running(leaving)
  /\ proc' = Waited(leaving)
  /\ Then(<<>>)
  /\ UNCHANGED <<kind, link, registry, cleanup, storage, sigchld, clients, execs>>
----------------------------------------------------------------------------
(* force_down_runtime: the sessions end, those in the queue first, then the *)
(* link, and who waits for it is told.                                      *)
ForceDown ==
  /\ Do("down")
  /\ LET queued == {c \in Sessions : Queued(c)}
         others == {c \in Sessions : Using(c)} \ queued
     IN Then(ForEach("release", SetToSeq(queued) \o SetToSeq(others))
              \o <<Plain("unlink")>>)
  /\ UNCHANGED <<kind, link, registry, cleanup, storage, leaving, proc, sigchld,
                 clients, execs>>

Unlink ==
  /\ Do("unlink")
  /\ LET told == Answers(waits, "down") \o <<Plain("changed")>>
     IN IF link.phase = "none"
        THEN /\ Then(told)
             /\ UNCHANGED <<link, children, dying, cleaning, passed, cleanup, proc>>
        ELSE End(Down) /\ Then(told)
  /\ waits' = <<>>
  /\ UNCHANGED <<kind, storage, leaving, sigchld, clients, execs>>

(* Registry::delete and remove_directory: only a container has a command    *)
(* for it.                                                                  *)
Delete ==
  /\ Do("delete")
  /\ IF kind = "container"
     THEN Drive(Append(queue, "delete"), reaping, Waited(reaping))
     ELSE Drive(queue, reaping, Waited(reaping))
  /\ IF Pending' THEN deleting' = TRUE /\ dir' = dir
     ELSE dir' = FALSE /\ UNCHANGED deleting
  /\ Then(<<>>)
  /\ UNCHANGED <<kind, link, children, dying, passed, waits, leaving, sigchld,
                 clients, execs>>
----------------------------------------------------------------------------
(* What starts a handler.  MaxQueue bounds how often a link is started while *)
(* the commands of the earlier ones wait.                                   *)
Handler(s) == AtRest /\ calls' = s
CanStart == Live \/ Len(queue) < MaxQueue

(* start_runtime, and exec_begin: a link that is down or failed begins.     *)
BeginCalls == IF Live THEN <<>> ELSE <<Plain("begin")>>

UpRoute ==
  /\ CanStart /\ Handler(BeginCalls \o Notice)
  /\ UNCHANGED <<kind, link, registry, cleanup, storage, leaving, proc, sigchld,
                 clients, execs>>

(* down_runtime: refused while a session or a pane that lives uses the      *)
(* runtime, unless it is forced; a pane of the table may be dead.           *)
InSession == \E c \in Sessions : Using(c)

DownRoute ==
  /\ Handler(<<Plain("down")>>)
  /\ UNCHANGED <<kind, link, registry, cleanup, storage, leaving, proc, sigchld,
                 clients, execs>>

DeleteRoute ==
  /\ ~InSession /\ Len(queue) < MaxQueue
  /\ Handler(<<Plain("down"), Plain("delete")>>)
  /\ UNCHANGED <<kind, link, registry, cleanup, storage, leaving, proc, sigchld,
                 clients, execs>>

(* put_layout adds a pane of the runtime; stop_pane removes it.             *)
PaneArrives ==
  /\ ~resident /\ CanStart
  /\ resident' = TRUE
  /\ Handler(<<Plain("begin")>> \o Notice)
  /\ UNCHANGED <<kind, link, registry, cleanup, storage, leaving, proc, sigchld,
                 held, execs>>

PaneLeaves ==
  /\ resident /\ resident' = FALSE
  /\ Handler(Notice)
  /\ UNCHANGED <<kind, link, registry, cleanup, storage, leaving, proc, sigchld,
                 held, execs>>

(* wait_runtime, of a pane: the reply waits for a check of the link, or for *)
(* the start; any other state is answered at once.                          *)
WaitRoute(w) ==
  /\ AtRest /\ resident /\ w \notin held
  /\ \/ /\ link.phase = "up" /\ kind = "ssh"
        /\ Free # {} /\ Spawns("check", w) /\ UNCHANGED waits
     \/ /\ LinkState = "starting"
        /\ waits' = Append(waits, w) /\ UNCHANGED <<children, proc>>
  /\ held' = held \cup {w}
  /\ UNCHANGED <<kind, link, dying, cleaning, passed, cleanup, storage, leaving,
                 sigchld, resident, execs, calls>>

(* expire_pane_wait and forget_wait: the time of the wait is over, or the   *)
(* connection closed; its check is dropped.                                 *)
WaitEnds(w) ==
  /\ AtRest /\ w \in held
  /\ LET mine == {c \in children : c.who = w}
         pids == {c.pid : c \in mine}
     IN /\ children' = children \ mine
        /\ dying' = dying \cup Running(pids)
        /\ proc' = Waited(pids)
  /\ Forgotten(w)
  /\ held' = held \ {w}
  /\ UNCHANGED <<kind, link, cleaning, passed, cleanup, storage, leaving, sigchld,
                 resident, execs, calls>>

(* The upgrade to an exec session, its first message, and its end.          *)
OpenSession(c) ==
  /\ AtRest /\ sess[c].stage = "none"
  /\ SetSess(c, [NoSess EXCEPT !.stage = "open"])
  /\ UNCHANGED <<kind, link, registry, cleanup, storage, leaving, proc, sigchld,
                 clients, lim, calls>>

ExecRequest(c) ==
  /\ sess[c].stage = "open" /\ CanStart
  /\ SetSess(c, [sess[c] EXCEPT !.stage = "queued"])
  /\ Handler(BeginCalls \o <<Plain("touch"), For("proceed", c), Plain("changed")>>)
  /\ UNCHANGED <<kind, link, registry, cleanup, storage, leaving, proc, sigchld,
                 clients, lim>>

(* A message that is wrong, or the exec_wait timer of a session in line.    *)
FailSession(c) ==
  /\ sess[c].stage \in {"open", "running"} \/ sess[c].timer
  /\ Handler(<<For("release", c)>>)
  /\ UNCHANGED <<kind, link, registry, cleanup, storage, leaving, proc, sigchld,
                 clients, execs>>

CloseConn(c) ==
  /\ sess[c].stage # "none"
  /\ Handler(<<For("gone", c)>>)
  /\ UNCHANGED <<kind, link, registry, cleanup, storage, leaving, proc, sigchld,
                 clients, execs>>

(* The client read: the output of a session whose helper was reaped drains. *)
ReadOutput(c) ==
  /\ Runs(c) /\ sess[c].pid = None
  /\ Handler(<<For("pump", c)>>)
  /\ UNCHANGED <<kind, link, registry, cleanup, storage, leaving, proc, sigchld,
                 clients, execs>>

(* Timers: of the idle link, of the up step, of a child.                    *)
IdleDue ==
  /\ link.idle
  /\ link' = [link EXCEPT !.idle = FALSE]
  /\ \/ ~InSession /\ Handler(<<Plain("down")>>)
     \/ Occupied /\ Handler(<<>>)
  /\ UNCHANGED <<kind, registry, cleanup, storage, leaving, proc, sigchld,
                 clients, execs>>

UpLimit ==
  /\ link.phase = "stage"
  /\ Handler(<<Plain("fail"), Plain("changed")>>)
  /\ UNCHANGED <<kind, link, registry, cleanup, storage, leaving, proc, sigchld,
                 clients, execs>>

QuickLimit(c) ==
  /\ children' = children \ {c}
  /\ dying' = dying \cup Running({c.pid})
  /\ proc' = Waited({c.pid})
  /\ passed' = passed \cup ({c.who} \ {None})
  /\ Handler(<<Plain("changed")>>)
  /\ UNCHANGED <<kind, link, cleaning, waits, cleanup, storage, leaving, sigchld,
                 clients, execs>>

(* SIGCHLD.  A call is left out when nothing that it looks for has ended.   *)
ReapCalls ==
  LET When(cond, op) == IF cond THEN <<Plain(op)>> ELSE <<>>
  IN When(link.phase = "stage" /\ Zombie(link.helper), "advance")
     \o When(\E c \in children : Zombie(c.pid), "collect")
     \o <<Plain("settle")>>
     \o When(Zombie(link.watch), "watched")
     \o <<Plain("changed")>>
     \o When(\E c \in Sessions : Queued(c) \/ Runs(c), "pumps")
     \o When(\E p \in Listed : Zombie(p), "bury")

Reap ==
  /\ sigchld /\ sigchld' = FALSE
  /\ Handler(ReapCalls)
  /\ UNCHANGED <<kind, link, registry, cleanup, storage, leaving, proc, clients,
                 execs>>

(* A process ends: also a session's helper before it is first read.         *)
ProcessEnds(p) ==
  /\ AtRest \/ (Do("pump") /\ sess[Who].pid = p)
  /\ proc[p].st = "run"
  /\ proc' = [proc EXCEPT ![p].st = "zombie"]
  /\ sigchld' = TRUE
  /\ UNCHANGED <<kind, link, registry, cleanup, storage, leaving, clients, execs,
                 calls>>
----------------------------------------------------------------------------
Init ==
  /\ kind \in Kinds
  /\ link = Down /\ children = {} /\ dying = {} /\ cleaning = {}
  /\ passed = {} /\ waits = <<>> /\ queue = <<>> /\ reaping = {}
  /\ deleting = FALSE /\ dir = FALSE
  /\ leaving = {}
  /\ proc = [p \in Pids |-> NoProc] /\ sigchld = FALSE
  /\ held = {} /\ resident = FALSE
  /\ sess = [c \in Sessions |-> NoSess] /\ lim = NoSessions
  /\ calls = <<>>

ReapCall == \/ Advance \/ GoUp \/ Collect \/ FinishCheck \/ FinishDeliver
            \/ Settle \/ WatchEnds \/ PumpAll \/ ReapLeaving
LinkCall == \/ Begin \/ StartStage \/ Fail \/ Restart \/ ForceDown
            \/ Unlink \/ Delete \/ Touch \/ Changed
            \/ Answer \/ AnswerPassed
ExecCall == \/ Proceed \/ JoinSlot \/ SpawnSession \/ LeaveLimiter
            \/ EndSession \/ CloseSession \/ Pump \/ FinishExit
            \/ FinishError \/ FinishRetry
Calls == ReapCall \/ LinkCall \/ ExecCall

Timers == \/ IdleDue \/ UpLimit \/ \E c \in children : QuickLimit(c)
Requests ==
  \/ UpRoute \/ DownRoute \/ DeleteRoute \/ PaneArrives \/ PaneLeaves
  \/ \E w \in Waiters : WaitRoute(w) \/ WaitEnds(w)
  \/ \E c \in Sessions : \/ OpenSession(c) \/ ExecRequest(c) \/ FailSession(c)
                          \/ CloseConn(c) \/ ReadOutput(c)

Next == Calls \/ Timers \/ Requests \/ Reap \/ \E p \in Pids : ProcessEnds(p)

Spec == Init /\ [][Next]_vars

(* A handler runs to its end, SIGCHLD is looked at, timers expire, and a    *)
(* process that was told to leave ends, for the server kills it after a     *)
(* while (leaving.rs, escalate).  Nothing says that a helper in use ends.   *)
(* Of the timers of sessions, only those of the followed are relied on.     *)
Fairness ==
  /\ WF_vars(Calls) /\ SF_vars(Reap) /\ SF_vars(UpLimit)
  /\ \A p \in Pids : SF_vars(p \in leaving /\ ProcessEnds(p))
  /\ \A c \in Followed : SF_vars(sess[c].timer /\ FailSession(c))

FairSpec == Spec /\ Fairness
----------------------------------------------------------------------------
(* An old command never stops a new start: while a stage or a watch of the  *)
(* link runs, no stage, watch, stop or delete of an earlier one does, and   *)
(* none waits to run (docs/design-runtimes.md:754).                         *)
CleanStart ==
  link.phase \in {"stage", "up"} =>
    /\ queue = <<>>
    /\ \A p \in Pids : proc[p].st = "run"
                       /\ proc[p].role \in {"stage", "watch", "stop", "delete"}
                      => p \in {link.helper, link.watch}

(* Every process that the server started and did not wait for is in one     *)
(* place that will wait for it, and what is in use is on no list of those   *)
(* that are told to leave.                                                  *)
InUse == Helpers \cup ({sess[c].pid : c \in Sessions} \ {None})

HelpersOwned ==
  /\ \A p \in Pids : proc[p].st # "free" => p \in InUse \cup Listed
  /\ InUse \cap Listed = {}
  /\ \A p \in Pids : Cardinality({c \in children : c.pid = p})
       + Cardinality({c \in Sessions : sess[c].pid = p})
       + (IF p \in {link.helper, link.watch} THEN 1 ELSE 0) <= 1

(* Between handlers the limiter counts the sessions that run, and each      *)
(* session that is queued waits in one place, with a timer unless it waits  *)
(* for a link that starts; who waits in line has a session before it whose  *)
(* end lets it run.                                                         *)
Places(c) ==
  Cardinality({i \in DOMAIN waits : waits[i] = c})
  + Cardinality({i \in DOMAIN lim.waiting : lim.waiting[i] = c})
  + Cardinality({i \in DOMAIN lim.parked : lim.parked[i] = c})

SlotsMatch ==
  AtRest =>
    /\ lim.running = Cardinality({c \in Sessions : Runs(c)})
    /\ lim.waiting # <<>> => lim.running = Cap
    /\ lim.parked # <<>> => lim.running > 0
    /\ \A c \in Sessions :
         /\ Places(c) = IF Queued(c) THEN 1 ELSE 0
         /\ sess[c].timer <=> c \in ToSet(lim.waiting) \cup ToSet(lim.parked)

(* A reply is held only while something will answer it: a start, or a check *)
(* or a delivery that the link still runs.                                  *)
WaitsHeld ==
  AtRest =>
    /\ waits # <<>> => LinkState = "starting"
    /\ \A w \in held : w \in ToSet(waits) \/ \E c \in children : c.who = w
    /\ \A c \in children : c.who # None => c.who \in held

(* docs/design-runtimes.md:370: a runtime that nothing uses goes down after *)
(* the idle time: a link that is live and unused has its timer.             *)
IdleArmed == AtRest /\ Live /\ ~Occupied => link.idle

(* What docs/design-runtimes.md:335 says of the limit of a start: it covers *)
(* every stage, so a start comes to an end, up or failed, whatever the      *)
(* helpers of earlier starts do.                                            *)
StartsEnd == LinkState = "starting" ~> LinkState # "starting"

(* The cleanup stands still: commands wait, and no process is left whose    *)
(* end would have the server look at them (runtime/mod.rs, drive).          *)
Stalled == queue # <<>> /\ reaping = {}

(* A start comes to an end, or waits for a cleanup that stands still; what  *)
(* the helpers of earlier starts do cannot hold it for ever (settle and the *)
(* limit of the up step).                                                   *)
StartsEndOrStall ==
  []<>(LinkState # "starting") \/ <>[](LinkState = "starting" /\ Stalled)

(* A session that waits, for the link, for a slot or for another end, is    *)
(* started or told that it is not, unless the start that it waits for does  *)
(* not end (state/exec_ops.rs, answer_wait and exec_wait).  Its own timer is*)
(* enough: the timers of the others need not fire.                          *)
SessionsStart ==
  \A c \in Followed : []<>~Queued(c) \/ <>[](c \in ToSet(waits) /\ Stalled)
=============================================================================
