------------------------------ MODULE Reaper ------------------------------
(***************************************************************************)
(* The shim's process reaper: the SIGCHLD handler that collects exits, the *)
(* Monitor that broadcasts each of them, and the callers that start a runu *)
(* command and wait for its exit.                                          *)
(*                                                                         *)
(* A waiter is a goroutine in Monitor.Start and Monitor.Wait; it stands    *)
(* for its subscription and for its child process, too.  The service is    *)
(* one more subscriber, which never unsubscribes.  Every exit collected    *)
(* gets a notifier, the goroutine of Monitor.notify.  The child of waiter  *)
(* w is reaped once and its exit is called w; the container's init process *)
(* is no child of the shim, and its exit is reported by reapOS whenever it *)
(* is polled after its end: each report is a member of Polls.              *)
(***************************************************************************)
EXTENDS Naturals, Sequences

CONSTANTS
  Waiters,   \* goroutines that run a command through the Monitor
  Polls,     \* reports of the exit of the init process (bounds their number)
  Service,   \* the subscription of the shim service
  Cap,       \* capacity of a subscriber's channel, 32 in the code
  None

ASSUME ReaperAssumption ==
  /\ Cap \in Nat \ {0}
  /\ Waiters \cap Polls = {}
  /\ Service \notin Waiters
  /\ None \notin Waiters \cup Polls \cup {Service}

Subs  == Waiters \cup {Service}
Exits == Waiters \cup Polls

VARIABLES
  waiter,      \* control of each waiter
  proc,        \* its child process
  init,        \* the container's init process
  sigchld,     \* a SIGCHLD is in the signal channel
  batch,       \* exits collected by Reap and not notified yet
  current,     \* the exit whose notifier Reap waits for, or None
  mu,          \* holder of the Monitor's lock, or None
  subscribed,  \* keys of Monitor.subscribers
  slock,       \* holder of each subscriber's lock, or None
  closed,      \* the closed flag of each subscriber (and its channel's state)
  inbox,       \* everything ever sent to a subscriber
  read,        \* how much of it has been received
  notifier,    \* control of the notify goroutines
  todo,        \* subscribers a notifier has still to visit in this round
  failed,      \* a send of this round timed out
  success,     \* subscribers that have got the exit
  visiting,    \* the subscriber whose lock the notifier holds
  timer        \* the timer of a notifier, "fired": a value is in its channel

reaperVars  == <<sigchld, batch, current>>
processVars == <<proc, init>>
monitorVars == <<mu, subscribed, slock, closed>>
chanVars    == <<inbox, read>>
notifyVars  == <<notifier, todo, failed, success, visiting, timer>>
vars == <<waiter, processVars, reaperVars, monitorVars, chanVars, notifyVars>>

TypeOK ==
  /\ waiter \in [Waiters -> {"idle", "start", "wait", "unsub", "close",
                             "delete", "done"}]
  /\ proc \in [Waiters -> {"none", "running", "zombie", "reaped"}]
  /\ init \in {"running", "gone"}
  /\ sigchld \in BOOLEAN
  /\ batch \subseteq Exits
  /\ current \in Exits \cup {None}
  /\ mu \in Waiters \cup {None}
  /\ subscribed \subseteq Subs
  /\ slock \in [Subs -> Exits \cup {None}]
  /\ closed \in [Subs -> BOOLEAN]
  /\ inbox \in [Subs -> Seq(Exits)]
  /\ read \in [Subs -> Nat]
  /\ \A s \in Subs : Len(inbox[s]) - read[s] \in 0..Cap
  /\ notifier \in [Exits -> {"idle", "snap", "visit", "select", "sent", "late",
                             "done"}]
  /\ todo \in [Exits -> SUBSET Subs]
  /\ failed \in [Exits -> BOOLEAN]
  /\ success \in [Exits -> SUBSET Subs]
  /\ visiting \in [Exits -> Subs \cup {None}]
  /\ timer \in [Exits -> {"off", "armed", "fired"}]

Init ==
  /\ waiter = [w \in Waiters |-> "idle"]
  /\ proc = [w \in Waiters |-> "none"]
  /\ init = "running"
  /\ sigchld = FALSE /\ batch = {} /\ current = None
  /\ mu = None
  /\ subscribed = {Service}                  \* service.New subscribes first
  /\ slock = [s \in Subs |-> None]
  /\ closed = [s \in Subs |-> FALSE]
  /\ inbox = [s \in Subs |-> <<>>]
  /\ read = [s \in Subs |-> 0]
  /\ notifier = [e \in Exits |-> "idle"]
  /\ todo = [e \in Exits |-> {}]
  /\ failed = [e \in Exits |-> FALSE]
  /\ success = [e \in Exits |-> {}]
  /\ visiting = [e \in Exits |-> None]
  /\ timer = [e \in Exits |-> "off"]

\* The channel of a subscriber is the part of its inbox not received yet.
Pending(s) == Len(inbox[s]) - read[s]
\* Seeded fault: one more than the channel holds.
HasSlack(s) == Pending(s) <= Cap

HasRoom(s) == Pending(s) < Cap
NextExit(s) == inbox[s][read[s] + 1]
Receive(s) == /\ Pending(s) > 0
              /\ read' = [read EXCEPT ![s] = @ + 1]
              /\ UNCHANGED inbox

-----------------------------------------------------------------------------
(* The processes.                                                          *)

\* A command ends; the kernel raises SIGCHLD.
ProcExit(w) ==
  /\ proc[w] = "running"
  /\ proc' = [proc EXCEPT ![w] = "zombie"]
  /\ sigchld' = TRUE
  /\ UNCHANGED <<waiter, init, batch, current, monitorVars, chanVars, notifyVars>>

\* The init process ends; its parent, `runu boot`, signals the shim.
InitExit ==
  /\ init = "running"
  /\ init' = "gone"
  /\ sigchld' = TRUE
  /\ UNCHANGED <<waiter, proc, batch, current, monitorVars, chanVars, notifyVars>>

-----------------------------------------------------------------------------
(* Monitor.Start, Monitor.Wait, Subscribe and Unsubscribe.                 *)

WaiterMoves(w, from, to) ==
  /\ waiter[w] = from
  /\ waiter' = [waiter EXCEPT ![w] = to]

Subscribe(w) ==
  /\ WaiterMoves(w, "idle", "start") /\ mu = None
  /\ subscribed' = subscribed \cup {w}
  /\ UNCHANGED <<processVars, reaperVars, mu, slock, closed, chanVars, notifyVars>>

\* c.Start: the command runs, or Start unsubscribes and returns the error.
StartCommand(w) ==
  /\ \/ /\ WaiterMoves(w, "start", "wait")
        /\ proc' = [proc EXCEPT ![w] = "running"]
     \/ WaiterMoves(w, "start", "unsub") /\ UNCHANGED proc
  /\ UNCHANGED <<init, reaperVars, monitorVars, chanVars, notifyVars>>

\* Wait receives exits until it finds the one of its own command.
WaiterReads(w) ==
  /\ waiter[w] = "wait"
  /\ Receive(w)
  /\ waiter' = [waiter EXCEPT ![w] = IF NextExit(w) = w THEN "unsub" ELSE "wait"]
  /\ UNCHANGED <<processVars, reaperVars, monitorVars, notifyVars>>

\* Unsubscribe, under the Monitor's lock: close under the subscriber's lock,
\* then delete.
UnsubscribeLock(w) ==
  /\ WaiterMoves(w, "unsub", "close") /\ mu = None
  /\ mu' = w
  /\ UNCHANGED <<processVars, reaperVars, subscribed, slock, closed, chanVars, notifyVars>>

\* Seeded fault: the channel is closed without the subscriber's lock.
CloseUnlocked(w) ==
  /\ WaiterMoves(w, "close", "delete")
  /\ closed' = [closed EXCEPT ![w] = TRUE]
  /\ UNCHANGED <<processVars, reaperVars, mu, subscribed, slock, chanVars, notifyVars>>

UnsubscribeClose(w) ==
  /\ WaiterMoves(w, "close", "delete") /\ slock[w] = None
  /\ closed' = [closed EXCEPT ![w] = TRUE]
  /\ UNCHANGED <<processVars, reaperVars, mu, subscribed, slock, chanVars, notifyVars>>

UnsubscribeDelete(w) ==
  /\ WaiterMoves(w, "delete", "done")
  /\ subscribed' = subscribed \ {w}
  /\ mu' = None
  /\ UNCHANGED <<processVars, reaperVars, slock, closed, chanVars, notifyVars>>

\* processExits receives; it may be slow, or stuck behind eventSendMu.
ServiceReads ==
  /\ Receive(Service)
  /\ UNCHANGED <<waiter, processVars, reaperVars, monitorVars, notifyVars>>

-----------------------------------------------------------------------------
(* handleSignals, Reap, reap and reapOS.                                   *)

\* The report, if any, that reapOS adds: signal 0 fails once init is gone.
\* It does so on every call, until Polls is used up.
Report(extra) ==
  \/ init = "gone" /\ \E p \in Polls : notifier[p] = "idle" /\ extra = {p}
  \/ (init = "running" \/ \A p \in Polls : notifier[p] # "idle") /\ extra = {}

\* wait4 until no child is left to reap, then reapOS.
Reap ==
  /\ sigchld /\ batch = {} /\ current = None
  /\ sigchld' = FALSE
  /\ proc' = [w \in Waiters |-> IF proc[w] = "zombie" THEN "reaped" ELSE proc[w]]
  /\ \E extra \in SUBSET Polls :
       /\ Report(extra)
       /\ batch' = {w \in Waiters : proc[w] = "zombie"} \cup extra
  /\ UNCHANGED <<waiter, init, current, monitorVars, chanVars, notifyVars>>

\* Reap starts the notifier of the next exit ...
Notify(e) ==
  /\ e \in batch /\ current = None
  /\ batch' = batch \ {e} /\ current' = e
  /\ notifier' = [notifier EXCEPT ![e] = "snap"]
  /\ UNCHANGED <<waiter, processVars, sigchld, monitorVars, chanVars, todo, failed,
                 success, visiting, timer>>

\* ... and waits until it is done or a second has passed.
NotifyWaited ==
  /\ current # None
  /\ current' = None
  /\ UNCHANGED <<waiter, processVars, sigchld, batch, monitorVars, chanVars, notifyVars>>

-----------------------------------------------------------------------------
(* The goroutine of notify.                                                *)

NotifierMoves(e, from, to) ==
  /\ notifier[e] = from
  /\ notifier' = [notifier EXCEPT ![e] = to]

\* getSubscribers, at the start of every round.
Snapshot(e) ==
  /\ NotifierMoves(e, "snap", "visit") /\ mu = None
  /\ todo' = [todo EXCEPT ![e] = subscribed]
  /\ failed' = [failed EXCEPT ![e] = FALSE]
  /\ UNCHANGED <<waiter, processVars, reaperVars, monitorVars, chanVars, success,
                 visiting, timer>>

\* Seeded faults: the closed flag, or what was sent before, is not looked at.
SkipsSent(e, s) == s \in success[e]
SkipsClosed(e, s) == closed[s]

\* A subscriber that is closed or has got the exit is left alone.
Skips(e, s) == closed[s] \/ s \in success[e]

Skip(e, s) ==
  /\ notifier[e] = "visit" /\ s \in todo[e]
  /\ slock[s] = None /\ Skips(e, s)
  /\ todo' = [todo EXCEPT ![e] = @ \ {s}]
  /\ UNCHANGED <<waiter, processVars, reaperVars, monitorVars, chanVars, notifier,
                 failed, success, visiting, timer>>

\* Seeded fault: the timer is not set again.
VisitUntimed(e, s) ==
  /\ NotifierMoves(e, "visit", "select") /\ s \in todo[e]
  /\ slock[s] = None /\ ~Skips(e, s)
  /\ slock' = [slock EXCEPT ![s] = e]
  /\ visiting' = [visiting EXCEPT ![e] = s]
  /\ UNCHANGED <<waiter, processVars, reaperVars, mu, subscribed, closed, chanVars,
                 todo, failed, success, timer>>

\* Otherwise, with the subscriber locked, the timer is set for the select.
Visit(e, s) ==
  /\ NotifierMoves(e, "visit", "select") /\ s \in todo[e]
  /\ slock[s] = None /\ ~Skips(e, s)
  /\ slock' = [slock EXCEPT ![s] = e]
  /\ visiting' = [visiting EXCEPT ![e] = s]
  /\ timer' = [timer EXCEPT ![e] = "armed"]
  /\ UNCHANGED <<waiter, processVars, reaperVars, mu, subscribed, closed, chanVars,
                 todo, failed, success>>

TimerFires(e) ==
  /\ timer[e] = "armed"
  /\ timer' = [timer EXCEPT ![e] = "fired"]
  /\ UNCHANGED <<waiter, processVars, reaperVars, monitorVars, chanVars, notifier,
                 todo, failed, success, visiting>>

\* The select: there is room in the channel ...
Send(e) ==
  /\ NotifierMoves(e, "select", "sent") /\ HasRoom(visiting[e])
  /\ inbox' = [inbox EXCEPT ![visiting[e]] = Append(@, e)]
  /\ success' = [success EXCEPT ![e] = @ \cup {visiting[e]}]
  /\ UNCHANGED <<waiter, processVars, reaperVars, monitorVars, read, todo, failed,
                 visiting, timer>>

\* Seeded fault: a subscriber that was too slow counts as served.
GiveUp(e) ==
  /\ NotifierMoves(e, "select", "late") /\ timer[e] = "fired"
  /\ timer' = [timer EXCEPT ![e] = "off"]
  /\ UNCHANGED <<waiter, processVars, reaperVars, monitorVars, chanVars, todo, failed,
                 success, visiting>>

\* ... or the timer has fired first.
Timeout(e) ==
  /\ NotifierMoves(e, "select", "late") /\ timer[e] = "fired"
  /\ timer' = [timer EXCEPT ![e] = "off"]
  /\ failed' = [failed EXCEPT ![e] = TRUE]
  /\ UNCHANGED <<waiter, processVars, reaperVars, monitorVars, chanVars, todo,
                 success, visiting>>

\* Seeded faults: the value is waited for in any case, or never taken.
StopsDraining(e) == timer[e] # "off"
TimerUndrained(e) == IF timer[e] = "fired" THEN "fired" ELSE "off"

\* stop: Timer.Stop, and if that comes too late the value is received, unless
\* the select has received it; the receive blocks when there is none.
Stops(e) == notifier[e] = "sent" => timer[e] # "off"

TimerAfterStop(e) == "off"

\* The end of the critical section.
Release(e) ==
  /\ notifier[e] \in {"sent", "late"} /\ Stops(e)
  /\ timer' = [timer EXCEPT ![e] = TimerAfterStop(e)]
  /\ notifier' = [notifier EXCEPT ![e] = "visit"]
  /\ slock' = [slock EXCEPT ![visiting[e]] = None]
  /\ todo' = [todo EXCEPT ![e] = @ \ {visiting[e]}]
  /\ visiting' = [visiting EXCEPT ![e] = None]
  /\ UNCHANGED <<waiter, processVars, reaperVars, mu, subscribed, closed, chanVars,
                 failed, success>>

\* A round is over: another one if a send has timed out.
EndRound(e) ==
  /\ NotifierMoves(e, "visit", IF failed[e] THEN "snap" ELSE "done")
  /\ todo[e] = {}
  /\ UNCHANGED <<waiter, processVars, reaperVars, monitorVars, chanVars, todo, failed,
                 success, visiting, timer>>

-----------------------------------------------------------------------------
\* The steps of Wait and Unsubscribe, all but the one that needs the lock of
\* the subscriber; of a notifier, all but those that need that lock or room.
WaiterRuns(w) == WaiterReads(w) \/ UnsubscribeLock(w) \/ UnsubscribeDelete(w)
NotifierRuns(e) == \/ Notify(e) \/ Snapshot(e) \/ TimerFires(e) \/ Timeout(e)
                   \/ Release(e) \/ EndRound(e)
Acquire(e) == \E s \in Subs : Skip(e, s) \/ Visit(e, s)

Next == \/ \E w \in Waiters : \/ Subscribe(w) \/ StartCommand(w) \/ ProcExit(w)
                              \/ WaiterRuns(w) \/ UnsubscribeClose(w)
        \/ \E e \in Exits : NotifierRuns(e) \/ Acquire(e) \/ Send(e)
        \/ InitExit \/ Reap \/ NotifyWaited \/ ServiceReads

Safety == Init /\ [][Next]_vars

\* Goroutines that can run do run.  A Go mutex does not starve its waiters,
\* and a select that finds room in the channel again and again uses it some
\* day: strong fairness.  Nobody is obliged to start a command.
Fairness ==
  /\ \A w \in Waiters : WF_vars(WaiterRuns(w)) /\ SF_vars(UnsubscribeClose(w))
  /\ \A e \in Exits :
       WF_vars(NotifierRuns(e)) /\ SF_vars(Acquire(e)) /\ SF_vars(Send(e))
  /\ WF_vars(Reap \/ NotifyWaited)

Spec == Safety /\ Fairness

-----------------------------------------------------------------------------
(* What must not go wrong.                                                 *)

\* A notifier about to send finds the channel open (a send on a closed
\* channel panics the shim), although waiters unsubscribe at any time.
NoSendOnClosed == \A e \in Exits : notifier[e] = "select" => ~closed[visiting[e]]

\* No subscriber gets the same exit twice, however many rounds it takes.
AtMostOnce ==
  \A s \in Subs : \A i, j \in 1..Len(inbox[s]) :
    inbox[s][i] = inbox[s][j] => i = j

\* No value of an earlier round lingers in the timer when a select begins:
\* outside the critical section the timer is stopped and drained.
TimerDrained ==
  \A e \in Exits : notifier[e] \notin {"select", "sent"} => timer[e] = "off"

\* A waiter that still waits for a command whose exit was collected does not
\* wait in vain: the exit is to be notified, or its notifier goes on, or it is
\* among those the waiter has not received yet.
WaiterServed ==
  \A w \in Waiters : waiter[w] = "wait" /\ proc[w] = "reaped"
    => \/ w \in batch
       \/ notifier[w] \notin {"idle", "done"}
       \/ \E i \in read[w] + 1 .. Len(inbox[w]) : inbox[w][i] = w

\* A notifier does not end before the service has got its exit, however many
\* sends to the service have timed out.
ServiceServed ==
  \A e \in Exits : notifier[e] = "done"
    => \E i \in DOMAIN inbox[Service] : inbox[Service][i] = e

\* No exit that was collected is lost on its way to those who must get it.
NoLostExit == WaiterServed /\ ServiceServed

\* Whoever holds a lock is able to go on: a notifier has room, a timer that
\* fires or a value to drain, and the holder of the Monitor's lock waits for
\* the lock of a subscriber at most.
HoldersMove ==
  /\ \A s \in Subs : slock[s] # None =>
       /\ visiting[slock[s]] = s
       /\ \/ notifier[slock[s]] = "late"
          \/ notifier[slock[s]] \in {"select", "sent"} /\ timer[slock[s]] # "off"
  /\ mu # None => waiter[mu] \in {"close", "delete"}

\* A command that has ended is noticed by its waiter, even when the service
\* never receives again: a full channel delays the others, it does not block.
WaitReturns == \A w \in Waiters : proc[w] = "zombie" ~> waiter[w] = "done"

\* A service that keeps receiving gets every exit that was collected.
ServiceHears ==
  WF_vars(ServiceReads)
    => \A e \in Exits :
         e \in batch ~> \E i \in DOMAIN inbox[Service] : inbox[Service][i] = e

Broadcast == INSTANCE ExitBroadcast WITH
               members <- {s \in subscribed : ~closed[s]},
               announced <- {e \in Exits : notifier[e] # "idle"}

\* The Monitor is a broadcast of exits.
ImplementsBroadcast == Broadcast!Spec
=============================================================================
