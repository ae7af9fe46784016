---------------------------- MODULE ShimService ----------------------------
(***************************************************************************)
(* The containerd shim of ONE container (StartShim groups by container     *)
(* id): the handlers of the task API, each in a goroutine of its own, the  *)
(* goroutine of processExits that turns exits into events, and the one of  *)
(* forward that publishes the events.  They share the map of containers,   *)
(* the mutex eventSendMu, the mutex and the state of the init process      *)
(* (containerd's process.Init, external), and the events channel.          *)
(*                                                                         *)
(* The reaper is seen from its promises (module Reaper): every runu        *)
(* command that ends raises a SIGCHLD and returns to its caller, and each  *)
(* SIGCHLD leads to one more report of the exit of init once it is gone.   *)
(* Exits of other processes match nothing and are left out.                *)
(***************************************************************************)
EXTENDS Naturals, Sequences

CONSTANTS
  Reqs,      \* requests of the task API
  Op,        \* what each of them asks for
  Orderly,   \* containerd sends Shutdown only when it is through
  EventCap,  \* capacity of the events channel, 128 in the code
  Exits,     \* the goroutine of processExits as the holder of a mutex
  None       \* nobody holds the mutex

Ops == {"create", "start", "delete", "kill", "query", "wait", "shutdown"}

ASSUME ShimAssumption ==
  /\ Op \in [Reqs -> Ops]
  /\ \A a, b \in Reqs : Op[a] = "create" /\ Op[b] = "create" => a = b
  /\ Orderly \in BOOLEAN
  /\ EventCap \in Nat \ {0}
  /\ Exits \notin Reqs /\ None \notin Reqs \cup {Exits}

VARIABLES
  pc,          \* control of the handlers
  registered,  \* the container is in the map s.containers
  proc,        \* state of process.Init
  exited,      \* its wait channel is closed
  guest,       \* the guest; "dead" while the helper in init.pid lives on
  sigchld,     \* signals in the channel of handleSignals
  reports,     \* exits of init in the channel s.ec
  exits,       \* control of processExits
  sendMu,      \* holder of eventSendMu
  procMu,      \* holder of the mutex of process.Init
  events,      \* the channel s.events
  published,   \* the events that forward has handed to the publisher
  closed,      \* s.events is closed; Shutdown keeps s.mu for good
  crashed      \* the shim has panicked

task  == <<proc, exited, guest>>
chans == <<sigchld, reports>>
mutex == <<sendMu, procMu>>
outs  == <<events, published>>
vars  == <<pc, registered, task, chans, exits, mutex, outs, closed, crashed>>

\* Those of getTopic that belong to what is modelled here.
Event == {"TaskCreate", "TaskStart", "TaskExit", "TaskDelete"}

TypeOK ==
  /\ pc \in [Reqs -> {"idle", "runu", "insert", "sendMu", "procMu", "started",
                      "remove", "stamp", "send", "reply", "wait", "done",
                      "failed"}]
  /\ registered \in BOOLEAN
  /\ proc \in {"none", "created", "running", "stopped", "deleted"}
  /\ exited \in BOOLEAN
  /\ guest \in {"none", "alive", "dead", "gone"}
  /\ sigchld \in Nat /\ reports \in Nat
  /\ exits \in {"recv", "range", "set", "stamp", "lock", "send"}
  /\ sendMu \in Reqs \cup {Exits, None}
  /\ procMu \in Reqs \cup {None}
  /\ events \in Seq(Event) /\ Len(events) <= EventCap
  /\ published \subseteq Event
  /\ closed \in BOOLEAN /\ crashed \in BOOLEAN

Init ==
  /\ pc = [r \in Reqs |-> "idle"]
  /\ registered = FALSE
  /\ proc = "none" /\ exited = FALSE /\ guest = "none"
  /\ sigchld = 0 /\ reports = 0
  /\ exits = "recv"
  /\ sendMu = None /\ procMu = None
  /\ events = <<>> /\ published = {}
  /\ closed = FALSE /\ crashed = FALSE

-----------------------------------------------------------------------------
(* What the handlers share.                                                *)

Moves(r, op, from, to) ==
  /\ Op[r] = op /\ pc[r] = from
  /\ pc' = [pc EXCEPT ![r] = to]

\* Seeded fault: one event more than the channel holds.
RoomForMore == Len(events) <= EventCap

Room == Len(events) < EventCap

\* A send blocks while the channel is full, and panics when it is closed.
Put(event) ==
  \/ /\ ~closed /\ Room
     /\ events' = Append(events, event)
     /\ UNCHANGED crashed
  \/ /\ closed
     /\ crashed' = TRUE
     /\ UNCHANGED events

\* Writing the map while processExits ranges over it without s.mu is a data
\* race: the write takes effect, or the Go runtime throws.
WriteMap(value) ==
  /\ registered' = value
  /\ crashed' \in IF exits = "range" THEN BOOLEAN ELSE {FALSE}

\* getContainer, which waits for s.mu.
Find(r, op, found) ==
  /\ ~closed
  /\ Moves(r, op, "idle", IF registered THEN found ELSE "failed")
  /\ UNCHANGED <<registered, task, chans, exits, mutex, outs, closed, crashed>>

\* A runu command has ended: its exit raises a SIGCHLD.
CommandEnds == sigchld' = sigchld + 1

-----------------------------------------------------------------------------
(* Create: newContainer runs `runu create`, then the container is put into *)
(* the map, then TaskCreate is sent.                                       *)

\* The mounts or the set-up of the process fail, or p.Create runs the command.
CreateCall(r) ==
  /\ \/ Moves(r, "create", "idle", "failed") /\ UNCHANGED guest
     \/ Moves(r, "create", "idle", "runu") /\ guest' = "alive"
  /\ UNCHANGED <<registered, proc, exited, chans, exits, mutex, outs, closed, crashed>>

CreateEnds(r) ==
  /\ \/ Moves(r, "create", "runu", "insert") /\ proc' = "created"
     \/ Moves(r, "create", "runu", "failed") /\ UNCHANGED proc
  /\ CommandEnds
  /\ UNCHANGED <<registered, exited, guest, reports, exits, mutex, outs, closed, crashed>>

CreateInsert(r) ==
  /\ Moves(r, "create", "insert", "send")
  /\ WriteMap(TRUE)
  /\ UNCHANGED <<task, chans, exits, mutex, outs, closed>>

CreateSend(r) ==
  /\ Moves(r, "create", "send", "done")
  /\ Put("TaskCreate")
  /\ UNCHANGED <<registered, task, chans, exits, mutex, published, closed>>

-----------------------------------------------------------------------------
(* Start: eventSendMu is held while process.Init, under its own mutex,     *)
(* runs `runu start`.                                                      *)

StartLock(r) ==
  /\ Moves(r, "start", "sendMu", "procMu") /\ sendMu = None
  /\ sendMu' = r
  /\ UNCHANGED <<registered, task, chans, exits, procMu, outs, closed, crashed>>

\* Seeded fault: the error path forgets to unlock.
StartCallUnbalanced(r) ==
  /\ procMu = None
  /\ \/ /\ proc = "created"
        /\ Moves(r, "start", "procMu", "runu")
        /\ procMu' = r
     \/ /\ proc # "created"
        /\ Moves(r, "start", "procMu", "failed")
        /\ UNCHANGED procMu
  /\ UNCHANGED <<registered, task, chans, exits, sendMu, outs, closed, crashed>>

StartCall(r) ==
  /\ procMu = None
  /\ \/ /\ proc = "created"
        /\ Moves(r, "start", "procMu", "runu")
        /\ procMu' = r /\ UNCHANGED sendMu
     \/ /\ proc # "created"
        /\ Moves(r, "start", "procMu", "failed")
        /\ sendMu' = None /\ UNCHANGED procMu
  /\ UNCHANGED <<registered, task, chans, exits, outs, closed, crashed>>

StartEnds(r) ==
  /\ \/ Moves(r, "start", "runu", "started") /\ proc' = "running" /\ UNCHANGED sendMu
     \/ Moves(r, "start", "runu", "failed") /\ sendMu' = None /\ UNCHANGED proc
  /\ CommandEnds
  /\ procMu' = None
  /\ UNCHANGED <<registered, exited, guest, reports, exits, outs, closed, crashed>>

\* No event is sent.  The response leaves after the unlock, which is why an
\* exit event may overtake it.
StartUnlock(r) ==
  /\ Moves(r, "start", "started", "reply")
  /\ sendMu' = None
  /\ UNCHANGED <<registered, task, chans, exits, procMu, outs, closed, crashed>>

StartReply(r) ==
  /\ Moves(r, "start", "reply", "done")
  /\ UNCHANGED <<registered, task, chans, exits, mutex, outs, closed, crashed>>

-----------------------------------------------------------------------------
(* Delete: `runu delete` for a process that does not run, then the map,    *)
(* then TaskDelete, which is sent without eventSendMu.  The event and the  *)
(* response each take status and time of the exit under the mutex of init. *)

DeleteCall(r) ==
  /\ procMu = None
  /\ \/ /\ proc \in {"created", "stopped"}
        /\ Moves(r, "delete", "procMu", "runu")
        /\ procMu' = r
     \/ /\ proc \in {"running", "deleted"}
        /\ Moves(r, "delete", "procMu", "failed")
        /\ UNCHANGED procMu
  /\ UNCHANGED <<registered, task, chans, exits, sendMu, outs, closed, crashed>>

DeleteEnds(r) ==
  /\ \/ Moves(r, "delete", "runu", "remove") /\ proc' = "deleted"
     \/ Moves(r, "delete", "runu", "failed") /\ UNCHANGED proc
  /\ CommandEnds
  /\ procMu' = None
  /\ UNCHANGED <<registered, exited, guest, reports, exits, sendMu, outs, closed, crashed>>

DeleteRemove(r) ==
  /\ Moves(r, "delete", "remove", "stamp") /\ ~closed
  /\ WriteMap(FALSE)
  /\ UNCHANGED <<task, chans, exits, mutex, outs, closed>>

DeleteStamp(r) ==
  /\ Moves(r, "delete", "stamp", "send") /\ procMu = None
  /\ UNCHANGED <<registered, task, chans, exits, mutex, outs, closed, crashed>>

DeleteSend(r) ==
  /\ Moves(r, "delete", "send", "reply")
  /\ Put("TaskDelete")
  /\ UNCHANGED <<registered, task, chans, exits, mutex, published, closed>>

DeleteReply(r) ==
  /\ Moves(r, "delete", "reply", "done") /\ procMu = None
  /\ UNCHANGED <<registered, task, chans, exits, mutex, outs, closed, crashed>>

-----------------------------------------------------------------------------
(* Kill, the queries, Wait and Shutdown.                                   *)

KillCall(r) ==
  /\ procMu = None
  /\ \/ /\ proc # "deleted"
        /\ Moves(r, "kill", "procMu", "runu")
        /\ procMu' = r
     \/ /\ proc = "deleted"
        /\ Moves(r, "kill", "procMu", "failed")
        /\ UNCHANGED procMu
  /\ UNCHANGED <<registered, task, chans, exits, sendMu, outs, closed, crashed>>

\* The guest's death is GuestExit, before or after the command's end.
KillEnds(r) ==
  /\ Moves(r, "kill", "runu", "done")
  /\ CommandEnds
  /\ procMu' = None
  /\ UNCHANGED <<registered, task, reports, exits, sendMu, outs, closed, crashed>>

\* State and CloseIO look at the process under its mutex and return, as do
\* Pause and Resume when its state refuses them; Connect only reads.  The
\* commands runu has not are run to fail: `runu pause` and `runu resume` under
\* the mutex, `runu ps` of Pids without it.
QueryCall(r) ==
  /\ \/ procMu = None /\ Moves(r, "query", "procMu", "done") /\ UNCHANGED procMu
     \/ procMu = None /\ Moves(r, "query", "procMu", "runu") /\ procMu' = r
     \/ Moves(r, "query", "procMu", "runu") /\ UNCHANGED procMu
  /\ UNCHANGED <<registered, task, chans, exits, sendMu, outs, closed, crashed>>

QueryEnds(r) ==
  /\ Moves(r, "query", "runu", "failed")
  /\ CommandEnds
  /\ procMu' = IF procMu = r THEN None ELSE procMu
  /\ UNCHANGED <<registered, task, reports, exits, sendMu, outs, closed, crashed>>

\* The response takes the status of the exit under the mutex of init.
WaitReturns(r) ==
  /\ Moves(r, "wait", "wait", "done") /\ exited /\ procMu = None
  /\ UNCHANGED <<registered, task, chans, exits, mutex, outs, closed, crashed>>

\* containerd is through when it has deleted the container, or has failed to
\* create it.
MayShutdown ==
  Orderly => \E r \in Reqs : \/ Op[r] = "delete" /\ pc[r] = "done"
                             \/ Op[r] = "create" /\ pc[r] = "failed"

\* Shutdown returns at once while there is a container; otherwise it cancels
\* the service, closes the events and never releases s.mu.
Shutdown(r) ==
  /\ Moves(r, "shutdown", "idle", "done") /\ ~closed /\ MayShutdown
  /\ closed' = ~registered
  /\ UNCHANGED <<registered, task, chans, exits, mutex, outs, crashed>>

-----------------------------------------------------------------------------
(* The guest, the reaper, processExits and forward.                        *)

\* The guest ends; the helper `runu boot` reaps it and signals the shim.  On
\* linux init.pid names the helper, which lives on for the time being, so the
\* signal may be handled before init is found gone; on darwin it names the guest.
GuestExit ==
  /\ guest = "alive"
  /\ guest' \in {"dead", "gone"}
  /\ sigchld' = sigchld + 1
  /\ UNCHANGED <<pc, registered, proc, exited, reports, exits, mutex, outs, closed, crashed>>


\* The helper saves the status and ends; the shim, the subreaper of what
\* `runu create` left behind, gets the SIGCHLD.
HelperExit ==
  /\ guest = "dead"
  /\ guest' = "gone"
  /\ sigchld' = sigchld + 1
  /\ UNCHANGED <<pc, registered, proc, exited, reports, exits, mutex, outs, closed, crashed>>

\* Seeded fault: signal 0 is taken to have failed.
InitGoneAssumed == guest # "none"

\* Signal 0 to the process in init.pid fails.
InitGone == guest = "gone"

\* Reap: one more report of the exit of init, if it is gone.
Reap ==
  /\ sigchld > 0
  /\ sigchld' = sigchld - 1
  /\ reports' = IF InitGone THEN reports + 1 ELSE reports
  /\ UNCHANGED <<pc, registered, task, exits, mutex, outs, closed, crashed>>

ExitsMove(from, to) == exits = from /\ exits' = to

ExitReceive ==
  /\ ExitsMove("recv", "range") /\ reports > 0
  /\ reports' = reports - 1
  /\ UNCHANGED <<pc, registered, task, sigchld, mutex, outs, closed, crashed>>

\* checkProcesses looks into the map, without s.mu; an exit that comes before
\* the container is in the map, or after it has left, is forgotten.
ExitLookup ==
  /\ ExitsMove("range", IF registered THEN "set" ELSE "recv")
  /\ UNCHANGED <<pc, registered, task, chans, mutex, outs, closed, crashed>>

\* Seeded fault: SetExited does not wait for the mutex.
ExitSetAtOnce ==
  /\ ExitsMove("set", "stamp")
  /\ IF proc \in {"created", "running"} THEN proc' = "stopped" /\ exited' = TRUE
                                        ELSE UNCHANGED <<proc, exited>>
  /\ UNCHANGED <<pc, registered, guest, chans, mutex, outs, closed, crashed>>

\* SetExited, under the mutex of the process: only the first one counts.
ExitSet ==
  /\ ExitsMove("set", "stamp") /\ procMu = None
  /\ IF proc \in {"created", "running"} THEN proc' = "stopped" /\ exited' = TRUE
                                        ELSE UNCHANGED <<proc, exited>>
  /\ UNCHANGED <<pc, registered, guest, chans, mutex, outs, closed, crashed>>

\* ExitedAt, under that mutex again, is evaluated before sendL is called.
ExitStamp ==
  /\ ExitsMove("stamp", "lock") /\ procMu = None
  /\ UNCHANGED <<pc, registered, task, chans, mutex, outs, closed, crashed>>

\* Seeded fault: send in the place of sendL.
ExitUnlocked ==
  /\ ExitsMove("lock", "send")
  /\ UNCHANGED <<pc, registered, task, chans, mutex, outs, closed, crashed>>

\* sendL.
ExitLock ==
  /\ ExitsMove("lock", "send") /\ sendMu = None
  /\ sendMu' = Exits
  /\ UNCHANGED <<pc, registered, task, chans, procMu, outs, closed, crashed>>

\* Seeded fault: an event for which there is no room is dropped.
ExitSendOrDrop ==
  /\ ExitsMove("send", "recv")
  /\ IF closed \/ Room THEN Put("TaskExit") ELSE UNCHANGED <<events, crashed>>
  /\ sendMu' = None
  /\ UNCHANGED <<pc, registered, task, chans, procMu, published, closed>>

ExitSend ==
  /\ ExitsMove("send", "recv")
  /\ Put("TaskExit")
  /\ sendMu' = None
  /\ UNCHANGED <<pc, registered, task, chans, procMu, published, closed>>

\* Seeded fault: the first error of Publish ends the loop.
ForwardOnce ==
  /\ events # <<>> /\ published = {}
  /\ events' = Tail(events)
  /\ published' = published \cup {Head(events)}
  /\ UNCHANGED <<pc, registered, task, chans, exits, mutex, closed, crashed>>

\* The range over the channel goes on after the close until it is empty; an
\* error of Publish is logged and does not stop it.
Forward ==
  /\ events # <<>>
  /\ events' = Tail(events)
  /\ published' = published \cup {Head(events)}
  /\ UNCHANGED <<pc, registered, task, chans, exits, mutex, closed, crashed>>

-----------------------------------------------------------------------------
Handler(r) ==
  \/ CreateEnds(r) \/ CreateInsert(r) \/ CreateSend(r)
  \/ StartLock(r) \/ StartCall(r) \/ StartEnds(r) \/ StartUnlock(r)
  \/ StartReply(r)
  \/ DeleteCall(r) \/ DeleteEnds(r) \/ DeleteRemove(r) \/ DeleteStamp(r)
  \/ DeleteSend(r) \/ DeleteReply(r)
  \/ KillCall(r) \/ KillEnds(r) \/ QueryCall(r) \/ QueryEnds(r) \/ WaitReturns(r)

Request(r) ==
  \/ CreateCall(r) \/ Shutdown(r)
  \/ Find(r, "start", "sendMu") \/ Find(r, "delete", "procMu")
  \/ Find(r, "kill", "procMu") \/ Find(r, "query", "procMu")
  \/ Find(r, "wait", "wait")

ProcessExits == \/ ExitReceive \/ ExitLookup \/ ExitSet
                \/ ExitStamp \/ ExitLock \/ ExitSend

Next == /\ ~crashed
        /\ \/ \E r \in Reqs : Request(r) \/ Handler(r)
           \/ ProcessExits \/ Forward \/ Reap \/ GuestExit \/ HelperExit

Safety == Init /\ [][Next]_vars

\* Goroutines run and mutexes are handed on; a runu command that was started
\* ends and the reaper reports it (Reaper!WaitReturns); so does a helper that
\* has seen its guest's end.  No request has to come, and no guest has to exit.
Fairness ==
  /\ \A r \in Reqs : WF_vars(~crashed /\ Handler(r))
  /\ WF_vars(~crashed /\ ProcessExits)
  /\ WF_vars(~crashed /\ Forward)
  /\ WF_vars(~crashed /\ ~closed /\ Reap)
  /\ WF_vars(~crashed /\ HelperExit)

Spec == Safety /\ Fairness

-----------------------------------------------------------------------------
(* What must not go wrong.                                                 *)

Sent(event) == event \in published \/ \E i \in DOMAIN events : events[i] = event
Waits == {r \in Reqs : Op[r] = "wait"}
Started == \E r \in Reqs : Op[r] = "start" /\ pc[r] \in {"reply", "done"}

\* Nobody is told of an exit, by an event or by the end of a Wait, as long as
\* the process in init.pid lives.
ExitTruth ==
  exits \in {"set", "stamp", "lock", "send"} \/ exited \/ Sent("TaskExit") => guest = "gone"

\* A State that is asked once the exit is on its way to containerd never answers
\* created or running, although a Start, a Delete or a Kill may still be under
\* way when init exits.
StateAfterExit == exited \/ Sent("TaskExit") => proc \in {"stopped", "deleted"}

\* Whoever holds a mutex is able to go on, or waits for something that comes:
\* eventSendMu is kept by processExits for as long as the channel is full, and
\* by a Start until it has the mutex of init and its command has ended; that
\* mutex is kept for a command only.  No handler returns with a mutex, and no
\* two of them wait for each other.
HoldersMove ==
  /\ sendMu # None =>
       \/ sendMu = Exits /\ exits = "send"
       \/ /\ sendMu \in Reqs /\ Op[sendMu] = "start"
          /\ pc[sendMu] \in {"procMu", "runu", "started"}
  /\ procMu # None => pc[procMu] = "runu"

\* The end of a guest that was started is on record, or about to be: a signal
\* or a report is left, or processExits looks for the container, although the
\* reports that came before the container was in the map are forgotten.
ExitPending ==
  Started /\ guest = "gone" /\ ~exited
    => sigchld > 0 \/ reports > 0 \/ exits \in {"range", "set"}

\* An exit on record is announced, or processExits is about to do it.
ExitAnnounced == exited => exits \in {"stamp", "lock", "send"} \/ Sent("TaskExit") \/ crashed

\* From the end of a started guest to the event that tells of it the exit is
\* always in somebody's hands.
ExitPursued == ExitPending /\ ExitAnnounced

\* No handler waits for ever for a mutex or for room in the channel.
RequestsReturn ==
  \A r \in Reqs \ Waits : pc[r] \notin {"idle", "done", "failed"}
                            ~> pc[r] \in {"done", "failed"} \/ crashed \/ closed


\* An exit that was recorded is published.
ExitPublished ==
  exited ~> "TaskExit" \in published \/ crashed

-----------------------------------------------------------------------------
(* The container as containerd sees it.                                    *)

Starting == \E r \in Reqs : Op[r] = "start" /\ pc[r] \in {"runu", "started"}

\* For containerd the init process is the one in init.pid.
InitProcess == IF guest = "dead" THEN "alive" ELSE guest

Container == INSTANCE Task WITH status   <- proc,
                                guest    <- InitProcess,
                                starting <- Starting,
                                told     <- Sent("TaskExit")

\* The shim is the task of module Task: what State answers and what is announced
\* agree with the guest, and neither the status nor the announcement comes in
\* between a Start and its giving eventSendMu back.
ImplementsTask == Container!Spec

-----------------------------------------------------------------------------
\* A claim of the repository that the code does not keep.

\* service.go:666: no Shutdown "if the shim is still servicing containers".
ShutdownIdle ==
  closed => /\ exits \in {"recv", "range"}
            /\ \A r \in Reqs : pc[r] \notin {"insert", "remove", "stamp", "send"}
=============================================================================
