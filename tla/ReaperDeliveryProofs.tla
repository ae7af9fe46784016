------------------------ MODULE ReaperDeliveryProofs ------------------------
(***************************************************************************)
(* Why no exit is lost and nobody is locked out in Reaper, as far as       *)
(* safety goes: for any number of waiters, of reports about init and any   *)
(* channel capacity.                                                       *)
(***************************************************************************)
EXTENDS ReaperProofs

-----------------------------------------------------------------------------
(* The inductive invariant, on top of IInv of ReaperProofs.                *)

\* Those who must get an exit: the service, and the waiter of the command.
Owed(e) == {Service} \cup ({e} \cap Waiters)

\* The Monitor's lock is held while a waiter closes and leaves, and a select
\* begins with a timer that can fire, which stays to be drained afterwards.
Locks ==
  /\ \A w \in Waiters : waiter[w] \in {"close", "delete"} => mu = w
  /\ mu # None => waiter[mu] \in {"close", "delete"}
  /\ \A e \in Exits : notifier[e] \in {"select", "sent"} => timer[e] # "off"

\* A success stands for an exit in the inbox; a visit ends with a success or
\* with a failure that is remembered for the round.
Outcome ==
  /\ \A e \in Exits : \A s \in success[e] : \E i \in 1..Len(inbox[s]) : inbox[s][i] = e
  /\ \A e \in Exits : notifier[e] = "sent" => visiting[e] \in success[e]
  /\ \A e \in Exits : notifier[e] = "late" => failed[e]

\* A waiter that has come to an end after its command started has received
\* the command's exit, and one that still waits has not.
OwnExit ==
  /\ \A w \in Waiters : proc[w] # "none" /\ waiter[w] \in {"unsub", "close", "delete", "done"}
                          => w \in success[w]
  /\ \A w \in Waiters : proc[w] = "reaped" => w \in batch \/ notifier[w] # "idle"
  /\ \A w \in Waiters : waiter[w] \in {"idle", "start"} => read[w] = 0
  /\ \A w \in Waiters : waiter[w] = "wait" => \A i \in 1..read[w] : inbox[w][i] # w

\* Whoever is owed an exit is still to be visited in this round, or has got
\* it, or the round has a failure and will be followed by another one.
Rounds ==
  /\ Service \in subscribed /\ ~closed[Service]
  /\ \A e \in Exits : notifier[e] \in {"visit", "select", "sent", "late"} /\ ~failed[e]
                        => Owed(e) \subseteq todo[e] \cup success[e]
  /\ \A e \in Exits : notifier[e] = "done" => Owed(e) \subseteq success[e]

DInv == IInv /\ Locks /\ Outcome /\ OwnExit /\ Rounds

\* The lock goes with the waiter ...
LEMMA WaiterKeepsLocks ==
  ASSUME TypeOK, Locks, NEW w \in Waiters,
         \/ Subscribe(w) \/ StartCommand(w) \/ ProcExit(w)
         \/ WaiterRuns(w) \/ UnsubscribeClose(w)
  PROVE  Locks'
<1>1. /\ waiter \in [Waiters -> WaiterPhases] /\ None \notin Waiters
      /\ mu \in Waiters \cup {None}
  BY ReaperAssumption DEF TypeOK, WaiterPhases
<1>2. UNCHANGED <<notifier, timer>> /\ \A v \in Waiters : v # w => waiter'[v] = waiter[v]
  BY <1>1 DEF Subscribe, StartCommand, ProcExit, WaiterRuns, WaiterReads, UnsubscribeLock,
     UnsubscribeClose, UnsubscribeDelete, WaiterMoves, notifyVars
<1>3. CASE UnsubscribeLock(w)
  <2>1. waiter'[w] = "close" /\ mu = None /\ mu' = w
    BY <1>1, <1>3 DEF UnsubscribeLock, WaiterMoves
  <2>. QED
    BY <1>1, <1>2, <2>1 DEF Locks
<1>4. CASE UnsubscribeDelete(w)
  <2>1. waiter[w] = "delete" /\ waiter'[w] = "done" /\ mu' = None
    BY <1>1, <1>4 DEF UnsubscribeDelete, WaiterMoves
  <2>. QED
    BY <1>1, <1>2, <2>1 DEF Locks
<1>5. CASE UnsubscribeClose(w)
  <2>1. waiter[w] = "close" /\ waiter'[w] = "delete" /\ mu' = mu
    BY <1>1, <1>5 DEF UnsubscribeClose, WaiterMoves
  <2>. QED
    BY <1>1, <1>2, <2>1 DEF Locks
<1>6. CASE Subscribe(w) \/ StartCommand(w) \/ ProcExit(w) \/ WaiterReads(w)
  <2>1. (mu' = mu /\ waiter'[w] \notin {"close", "delete"}) \/ UNCHANGED <<mu, waiter>>
    BY <1>1, <1>6 DEF Subscribe, StartCommand, ProcExit, WaiterReads, WaiterMoves, monitorVars
  <2>2. waiter[w] \notin {"close", "delete"} \/ UNCHANGED <<mu, waiter>>
    BY <1>6 DEF Subscribe, StartCommand, ProcExit, WaiterReads, WaiterMoves, monitorVars
  <2>. QED
    BY <1>1, <1>2, <2>1, <2>2 DEF Locks
<1>. QED
  BY <1>3, <1>4, <1>5, <1>6 DEF WaiterRuns

\* ... and the timer with the visit.
LEMMA NotifierKeepsLocks ==
  ASSUME TypeOK, Locks, NEW e \in Exits, NEW s \in Subs,
         NotifierRuns(e) \/ Skip(e, s) \/ Visit(e, s) \/ Send(e)
  PROVE  Locks'
<1>1. /\ notifier \in [Exits -> NotifierPhases]
      /\ timer \in [Exits -> {"off", "armed", "fired"}]
  BY DEF TypeOK, NotifierPhases
<1>2. UNCHANGED <<waiter, mu>>
  BY DEF NotifierRuns, Notify, Snapshot, TimerFires, Timeout, Release, EndRound, Skip, Visit, Send,
     monitorVars
<1>3. /\ \A f \in Exits : f # e => notifier'[f] = notifier[f] /\ timer'[f] = timer[f]
      /\ notifier'[e] \in {"select", "sent"} => timer'[e] # "off"
  <2>1. CASE Visit(e, s)
    BY <1>1, <2>1 DEF Visit, NotifierMoves
  <2>2. CASE TimerFires(e)
    BY <1>1, <2>2 DEF TimerFires
  <2>3. CASE Send(e)
    BY <1>1, <2>3 DEF Send, NotifierMoves, Locks
  <2>4. CASE Skip(e, s)
    BY <1>1, <2>4 DEF Skip
  <2>5. CASE Notify(e) \/ Snapshot(e) \/ Timeout(e) \/ Release(e) \/ EndRound(e)
    BY <1>1, <2>5 DEF Notify, Snapshot, Timeout, Release, EndRound, NotifierMoves
  <2>. QED
    BY <2>1, <2>2, <2>3, <2>4, <2>5 DEF NotifierRuns
<1>. QED
  BY <1>2, <1>3 DEF Locks

\* A lock is taken, and a timer set, by who goes on to give it back.
LEMMA StepLocks == IInv /\ Locks /\ Next => Locks'
<1>. SUFFICES ASSUME IInv, Locks, Next PROVE Locks'
  OBVIOUS
<1>1. TypeOK /\ Service \in Subs
  BY DEF IInv, Subs
<1>2. CASE InitExit \/ Reap \/ NotifyWaited \/ ServiceReads
  BY <1>2 DEF InitExit, Reap, NotifyWaited, ServiceReads, monitorVars, notifyVars, Locks
<1>. QED
  BY <1>1, <1>2, WaiterKeepsLocks, NotifierKeepsLocks DEF Next, Acquire

\* Appending keeps what is there and adds the new value at the end.
LEMMA AppendKeeps ==
  ASSUME NEW E, NEW q \in Seq(E), NEW e \in E
  PROVE  /\ Len(Append(q, e)) = Len(q) + 1 /\ Len(q) \in Nat
         /\ Append(q, e)[Len(q) + 1] = e
         /\ \A i \in 1..Len(q) : Append(q, e)[i] = q[i]
  BY AppendProperties, LenProperties

\* A send lengthens the inbox of the subscriber visited, and makes a success.
LEMMA SendAppends ==
  ASSUME IInv, NEW e \in Exits, Send(e)
  PROVE  /\ visiting[e] \in Subs
         /\ \A s \in Subs : \A i \in 1..Len(inbox[s]) :
              i \in 1..Len(inbox'[s]) /\ inbox'[s][i] = inbox[s][i]
         /\ \E i \in 1..Len(inbox'[visiting[e]]) : inbox'[visiting[e]][i] = e
         /\ success' = [success EXCEPT ![e] = success[e] \cup {visiting[e]}]
<1>. DEFINE t == visiting[e]
<1>1. t \in Subs /\ success' = [success EXCEPT ![e] = success[e] \cup {t}]
      /\ inbox' = [inbox EXCEPT ![t] = Append(inbox[t], e)]
  BY DEF Send, NotifierMoves, IInv, LockHeld, Visiting
<1>2. inbox \in [Subs -> Seq(Exits)]
  BY DEF IInv, TypeOK
<1>3. inbox'[t] = Append(inbox[t], e) /\ \A s \in Subs : s # t => inbox'[s] = inbox[s]
  BY <1>1, <1>2
<1>4. /\ Len(inbox'[t]) = Len(inbox[t]) + 1 /\ Len(inbox[t]) \in Nat
      /\ inbox'[t][Len(inbox[t]) + 1] = e
      /\ \A i \in 1..Len(inbox[t]) : inbox'[t][i] = inbox[t][i]
  <2>1. inbox[t] \in Seq(Exits)
    BY <1>1, <1>2
  <2>. QED
    BY <1>3, <2>1, AppendKeeps
<1>5. \E i \in 1..Len(inbox'[t]) : inbox'[t][i] = e
  <2>1. Len(inbox[t]) + 1 \in 1..Len(inbox'[t])
    BY <1>4
  <2>. QED
    BY <1>4, <2>1
<1>6. \A s \in Subs : \A i \in 1..Len(inbox[s]) :
        i \in 1..Len(inbox'[s]) /\ inbox'[s][i] = inbox[s][i]
  BY <1>3, <1>4
<1>. QED
  BY <1>1, <1>5, <1>6

\* Of the control of one notifier, only the end of a visit is of interest.
LEMMA MovesKeepOutcome ==
  ASSUME TypeOK, Outcome, NEW e \in Exits,
         NEW p \in {"snap", "visit", "select", "done"},
         notifier' = [notifier EXCEPT ![e] = p],
         \A f \in Exits : f # e => visiting'[f] = visiting[f] /\ failed'[f] = failed[f],
         inbox' = inbox, success' = success
  PROVE  Outcome'
<1>1. notifier'[e] = p /\ \A f \in Exits : f # e => notifier'[f] = notifier[f]
  BY DEF TypeOK
<1>2. \A f \in Exits : notifier'[f] = "sent" => visiting'[f] \in success'[f]
  BY <1>1 DEF Outcome
<1>3. \A f \in Exits : notifier'[f] = "late" => failed'[f]
  BY <1>1 DEF Outcome
<1>. QED
  BY <1>2, <1>3 DEF Outcome

\* A send is a success, and a timeout a failure.
LEMMA VisitEnds ==
  ASSUME IInv, Outcome, NEW e \in Exits, Send(e) \/ Timeout(e)
  PROVE  Outcome'
<1>1. notifier \in [Exits -> NotifierPhases] /\ success \in [Exits -> SUBSET Subs]
      /\ failed \in [Exits -> BOOLEAN]
  BY DEF IInv, TypeOK, NotifierPhases
<1>2. CASE Send(e)
  <2>1. notifier' = [notifier EXCEPT ![e] = "sent"] /\ visiting' = visiting /\ failed' = failed
    BY <1>2 DEF Send, NotifierMoves
  <2>2. ASSUME NEW f \in Exits, NEW s \in success'[f]
        PROVE  \E i \in 1..Len(inbox'[s]) : inbox'[s][i] = f
    <3>1. s \in Subs /\ (s \in success[f] \/ (f = e /\ s = visiting[e]))
      BY <1>1, <1>2, <2>2, SendAppends
    <3>2. CASE s \in success[f]
      <4>1. PICK i \in 1..Len(inbox[s]) : inbox[s][i] = f
        BY <3>2 DEF Outcome
      <4>2. i \in 1..Len(inbox'[s]) /\ inbox'[s][i] = f
        BY <1>2, <3>1, <4>1, SendAppends
      <4>. QED
        BY <4>2
    <3>3. CASE f = e /\ s = visiting[e]
      BY <1>2, <3>3, SendAppends
    <3>. QED
      BY <3>1, <3>2, <3>3
  <2>3. \A f \in Exits : notifier'[f] = "sent" => visiting'[f] \in success'[f]
    BY <1>1, <1>2, <2>1, SendAppends DEF Outcome
  <2>4. \A f \in Exits : notifier'[f] = "late" => failed'[f]
    BY <1>1, <2>1 DEF Outcome
  <2>. QED
    BY <2>2, <2>3, <2>4 DEF Outcome
<1>3. CASE Timeout(e)
  <2>1. /\ notifier' = [notifier EXCEPT ![e] = "late"]
        /\ failed' = [failed EXCEPT ![e] = TRUE]
        /\ inbox' = inbox /\ success' = success /\ visiting' = visiting
    BY <1>3 DEF Timeout, NotifierMoves, chanVars
  <2>. QED
    BY <1>1, <2>1 DEF Outcome
<1>. QED
  BY <1>2, <1>3

\* What has been sent is in the inbox for good.
LEMMA StepOutcome == IInv /\ Outcome /\ Next => Outcome'
<1>. SUFFICES ASSUME IInv, Outcome, Next PROVE Outcome'
  OBVIOUS
<1>1. ASSUME UNCHANGED <<inbox, success, notifier, visiting, failed>> PROVE Outcome'
  BY <1>1 DEF Outcome
<1>2. ASSUME NEW w \in Waiters, Subscribe(w) \/ StartCommand(w) \/ ProcExit(w)
                                \/ WaiterRuns(w) \/ UnsubscribeClose(w)
      PROVE  Outcome'
  BY <1>1, <1>2 DEF Subscribe, StartCommand, ProcExit, WaiterRuns, WaiterReads, Receive,
     UnsubscribeLock, UnsubscribeClose, UnsubscribeDelete, chanVars, notifyVars
<1>3. ASSUME InitExit \/ Reap \/ NotifyWaited \/ ServiceReads PROVE Outcome'
  BY <1>1, <1>3 DEF InitExit, Reap, NotifyWaited, ServiceReads, Receive, chanVars, notifyVars
<1>4. ASSUME NEW e \in Exits, NEW s \in Subs, TimerFires(e) \/ Skip(e, s) PROVE Outcome'
  BY <1>1, <1>4 DEF TimerFires, Skip, chanVars
<1>5. ASSUME NEW e \in Exits, NEW s \in Subs,
             Notify(e) \/ Snapshot(e) \/ Visit(e, s) \/ Release(e) \/ EndRound(e)
      PROVE  Outcome'
  <2>1. TypeOK /\ inbox' = inbox /\ success' = success
    BY <1>5 DEF IInv, Notify, Snapshot, Visit, Release, EndRound, chanVars
  <2>2. \E p \in {"snap", "visit", "select", "done"} : notifier' = [notifier EXCEPT ![e] = p]
    BY <1>5 DEF Notify, Snapshot, Visit, Release, EndRound, NotifierMoves
  <2>3. /\ visiting' = visiting \/ \E v : visiting' = [visiting EXCEPT ![e] = v]
        /\ failed' = failed \/ failed' = [failed EXCEPT ![e] = FALSE]
    BY <1>5 DEF Notify, Snapshot, Visit, Release, EndRound
  <2>4. \A f \in Exits : f # e => visiting'[f] = visiting[f] /\ failed'[f] = failed[f]
    BY <2>1, <2>3 DEF TypeOK
  <2>. QED
    BY <2>1, <2>2, <2>4, MovesKeepOutcome
<1>6. Service \in Subs
  BY DEF Subs
<1>. QED
  BY <1>2, <1>3, <1>4, <1>5, <1>6, VisitEnds DEF Next, NotifierRuns, Acquire

\* What a waiter reads next is not among what it has read.
LEMMA ReadingMoves ==
  ASSUME IInv, OwnExit, NEW w \in Waiters, WaiterReads(w)
  PROVE  /\ read'[w] = read[w] + 1 /\ inbox' = inbox
         /\ \A v \in Waiters : v # w => read'[v] = read[v] /\ waiter'[v] = waiter[v]
         /\ \/ waiter'[w] = "unsub" /\ w \in success[w]
            \/ waiter'[w] = "wait" /\ \A i \in 1..read'[w] : inbox[w][i] # w
<1>. DEFINE n == read[w]
<1>1. w \in Subs /\ waiter \in [Waiters -> WaiterPhases] /\ read \in [Subs -> Nat]
      /\ inbox \in [Subs -> Seq(Exits)] /\ Waiters \subseteq Subs
  BY DEF IInv, TypeOK, Subs, WaiterPhases
<1>2. /\ waiter[w] = "wait" /\ read' = [read EXCEPT ![w] = n + 1] /\ inbox' = inbox
      /\ waiter' = [waiter EXCEPT ![w] = IF inbox[w][n + 1] = w THEN "unsub" ELSE "wait"]
  BY DEF WaiterReads, Receive, NextExit
<1>3. n + 1 \in 1..Len(inbox[w]) /\ n \in Nat
  <2>1. n + 1 \in DOMAIN inbox[w]
    BY <1>1, ReceiveKeepsBounds DEF IInv, WaiterReads
  <2>2. DOMAIN inbox[w] = 1..Len(inbox[w])
    BY <1>1, LenProperties
  <2>. QED
    BY <1>1, <2>1, <2>2
<1>4. CASE inbox[w][n + 1] = w
  <2>1. w \in success[inbox[w][n + 1]]
    BY <1>1, <1>3 DEF IInv, SentOnce
  <2>. QED
    BY <1>1, <1>2, <1>4, <2>1
<1>5. CASE inbox[w][n + 1] # w
  <2>1. \A i \in 1..n : inbox[w][i] # w
    BY <1>2 DEF OwnExit
  <2>2. \A i \in 1..(n + 1) : i \in 1..n \/ i = n + 1
    BY <1>3
  <2>3. read'[w] = n + 1 /\ waiter'[w] = "wait"
    BY <1>1, <1>2, <1>5
  <2>4. \A i \in 1..read'[w] : inbox[w][i] # w
    BY <1>5, <2>1, <2>2, <2>3
  <2>. QED
    BY <1>1, <1>2, <2>3, <2>4
<1>. QED
  BY <1>4, <1>5

\* The steps of a waiter: it starts with nothing read, and ends with its exit.
LEMMA WaiterKeepsOwnExit ==
  ASSUME IInv, OwnExit, NEW w \in Waiters,
         \/ Subscribe(w) \/ StartCommand(w) \/ ProcExit(w)
         \/ WaiterRuns(w) \/ UnsubscribeClose(w)
  PROVE  OwnExit'
<1>1. /\ waiter \in [Waiters -> WaiterPhases]
      /\ proc \in [Waiters -> {"none", "running", "zombie", "reaped"}]
  BY DEF IInv, TypeOK, WaiterPhases
<1>2. /\ UNCHANGED <<batch, notifier, success, inbox>>
      /\ \A v \in Waiters : v # w => waiter'[v] = waiter[v] /\ proc'[v] = proc[v]
  BY <1>1 DEF Subscribe, StartCommand, ProcExit, WaiterRuns, WaiterReads, Receive, UnsubscribeLock,
     UnsubscribeClose, UnsubscribeDelete, WaiterMoves, reaperVars, processVars, chanVars, notifyVars
<1>3. CASE WaiterReads(w)
  <2>1. proc' = proc
    BY <1>3 DEF WaiterReads, processVars
  <2>2. \A v \in Waiters : proc'[v] # "none" /\ waiter'[v] \in {"unsub", "close", "delete", "done"}
                             => v \in success'[v]
    BY <1>2, <1>3, <2>1, ReadingMoves DEF OwnExit
  <2>3. \A v \in Waiters : waiter'[v] \in {"idle", "start"} => read'[v] = 0
    BY <1>2, <1>3, ReadingMoves DEF OwnExit
  <2>4. \A v \in Waiters : waiter'[v] = "wait" => \A i \in 1..read'[v] : inbox'[v][i] # v
    <3>1. ASSUME NEW v \in Waiters, v # w, waiter'[v] = "wait"
          PROVE  \A i \in 1..read'[v] : inbox'[v][i] # v
      BY <1>2, <1>3, <3>1, ReadingMoves DEF OwnExit
    <3>2. waiter'[w] = "wait" => \A i \in 1..read'[w] : inbox'[w][i] # w
      BY <1>2, <1>3, ReadingMoves
    <3>. QED
      BY <3>1, <3>2
  <2>. QED
    BY <1>2, <2>1, <2>2, <2>3, <2>4 DEF OwnExit
<1>4. CASE Subscribe(w) \/ StartCommand(w)
  <2>1. waiter[w] \in {"idle", "start"} /\ read' = read /\ read[w] = 0 /\ proc[w] = "none"
        /\ proc'[w] # "reaped"
    BY <1>1, <1>4 DEF Subscribe, StartCommand, WaiterMoves, processVars, chanVars, OwnExit,
       IInv, Fresh
  <2>2. \/ waiter'[w] = "start"
        \/ waiter'[w] = "wait"
        \/ waiter'[w] = "unsub" /\ proc'[w] = "none"
    BY <1>1, <1>4, <2>1 DEF Subscribe, StartCommand, WaiterMoves
  <2>3. \A i \in 1..read'[w] : inbox'[w][i] # w
    BY <2>1
  <2>. QED
    BY <1>2, <2>1, <2>2, <2>3 DEF OwnExit
<1>5. CASE ProcExit(w)
  <2>1. proc[w] = "running" /\ proc'[w] = "zombie" /\ waiter' = waiter /\ read' = read
    BY <1>1, <1>5 DEF ProcExit, chanVars
  <2>. QED
    BY <1>2, <2>1 DEF OwnExit
<1>6. CASE UnsubscribeLock(w) \/ UnsubscribeClose(w) \/ UnsubscribeDelete(w)
  <2>1. /\ waiter[w] \in {"unsub", "close", "delete"} /\ waiter'[w] \in {"close", "delete", "done"}
        /\ proc' = proc /\ read' = read
    BY <1>1, <1>6 DEF UnsubscribeLock, UnsubscribeClose, UnsubscribeDelete, WaiterMoves,
       processVars,
       chanVars
  <2>. QED
    BY <1>2, <2>1 DEF OwnExit
<1>. QED
  BY <1>3, <1>4, <1>5, <1>6 DEF WaiterRuns

\* The steps of a notifier: it does not go back to sleep, and adds to an inbox
\* at its end only.
LEMMA NotifierKeepsOwnExit ==
  ASSUME IInv, OwnExit, NEW e \in Exits, NotifierRuns(e) \/ Acquire(e) \/ Send(e)
  PROVE  OwnExit'
<1>1. UNCHANGED <<waiter, proc, read>>
  BY DEF NotifierRuns, Notify, Snapshot, TimerFires, Timeout, Release, EndRound, Acquire, Skip,
     Visit, Send, processVars, chanVars
<1>2. \A w \in Waiters : w \in batch \/ notifier[w] # "idle" => w \in batch' \/ notifier'[w] # "idle"
  <2>1. notifier \in [Exits -> NotifierPhases] /\ Waiters \subseteq Exits
    BY DEF IInv, TypeOK, NotifierPhases, Exits
  <2>2. CASE Notify(e)
    BY <2>1, <2>2 DEF Notify
  <2>3. CASE ~Notify(e)
    <3>1. batch' = batch
      BY <2>3 DEF NotifierRuns, Snapshot, TimerFires, Timeout, Release, EndRound, Acquire, Skip,
         Visit, Send, reaperVars
    <3>2. \/ notifier' = notifier
          \/ \E p \in NotifierPhases \ {"idle"} : notifier' = [notifier EXCEPT ![e] = p]
      BY <2>3 DEF NotifierRuns, Snapshot, TimerFires, Timeout, Release, EndRound, Acquire, Skip,
         Visit, Send, NotifierMoves, NotifierPhases
    <3>. QED
      BY <2>1, <3>1, <3>2
  <2>. QED
    BY <2>2, <2>3
<1>3. \A w \in Waiters : w \in success[w] => w \in success'[w]
  <2>1. Waiters \subseteq Exits /\ success \in [Exits -> SUBSET Subs]
    BY DEF IInv, TypeOK, Exits
  <2>2. CASE Send(e)
    BY <2>1, <2>2, SendAppends
  <2>3. CASE ~Send(e)
    BY <2>3 DEF NotifierRuns, Notify, Snapshot, TimerFires, Timeout, Release, EndRound, Acquire,
       Skip, Visit
  <2>. QED
    BY <2>2, <2>3
<1>4. \A w \in Waiters : \A i \in 1..read[w] : inbox'[w][i] = inbox[w][i]
  <2>1. CASE Send(e)
    <3>1. ASSUME NEW w \in Waiters, NEW i \in 1..read[w] PROVE i \in 1..Len(inbox[w]) /\ w \in Subs
      <4>1. w \in Subs
        BY DEF Subs
      <4>2. read[w] \in Nat /\ Len(inbox[w]) \in Nat /\ Len(inbox[w]) - read[w] \in 0..Cap
        BY <4>1, LenProperties DEF IInv, TypeOK
      <4>3. read[w] <= Len(inbox[w])
        BY <4>2, ReaperAssumption
      <4>. QED
        BY <4>1, <4>2, <4>3
    <3>. QED
      BY <2>1, <3>1, SendAppends
  <2>2. CASE ~Send(e)
    BY <2>2 DEF NotifierRuns, Notify, Snapshot, TimerFires, Timeout, Release, EndRound, Acquire,
       Skip, Visit, chanVars
  <2>. QED
    BY <2>1, <2>2
<1>. QED
  BY <1>1, <1>2, <1>3, <1>4 DEF OwnExit

\* A waiter leaves with the exit of its command only.
LEMMA StepOwnExit == IInv /\ OwnExit /\ Next => OwnExit'
<1>. SUFFICES ASSUME IInv, OwnExit, Next PROVE OwnExit'
  OBVIOUS
<1>1. CASE InitExit \/ NotifyWaited
  BY <1>1 DEF InitExit, NotifyWaited, OwnExit, chanVars, notifyVars, processVars
<1>2. CASE ServiceReads
  <2>1. \A w \in Waiters : read'[w] = read[w]
    BY <1>2, ReaperAssumption DEF ServiceReads, Receive, IInv, TypeOK, Subs
  <2>. QED
    BY <1>2, <2>1 DEF ServiceReads, Receive, OwnExit, processVars, reaperVars, notifyVars
<1>3. CASE Reap
  <2>1. /\ batch = {} /\ \A w \in Waiters : proc[w] = "zombie" => w \in batch'
        /\ \A w \in Waiters : proc'[w] = IF proc[w] = "zombie" THEN "reaped" ELSE proc[w]
        /\ UNCHANGED <<waiter, notifier, success, inbox, read>>
    BY <1>3 DEF Reap, chanVars, notifyVars
  <2>. QED
    BY <2>1 DEF OwnExit
<1>. QED
  BY <1>1, <1>2, <1>3, WaiterKeepsOwnExit, NotifierKeepsOwnExit DEF Next

\* While its exit is notified, a waiter is subscribed and its channel open, or
\* it has got the exit already.
LEMMA OwedAreThere ==
  ASSUME IInv, OwnExit, Rounds, NEW e \in Exits, notifier[e] # "idle", NEW s \in Owed(e)
  PROVE  s \in Subs /\ (s \in success[e] \/ (s \in subscribed /\ ~closed[s]))
<1>1. CASE s = Service
  BY <1>1 DEF Rounds, Subs
<1>2. CASE s # Service
  <2>1. s = e /\ e \in Waiters
    BY <1>2 DEF Owed
  <2>2. proc[e] = "reaped"
    BY <2>1 DEF IInv, Fresh
  <2>3. waiter[e] \in {"wait", "unsub", "close", "delete", "done"}
    BY <2>1, <2>2 DEF IInv, TypeOK, Fresh
  <2>4. CASE waiter[e] = "wait"
    BY <2>1, <2>4 DEF IInv, Membership, Subs
  <2>5. CASE waiter[e] # "wait"
    BY <2>1, <2>2, <2>3, <2>5 DEF OwnExit, Subs
  <2>. QED
    BY <2>4, <2>5
<1>. QED
  BY <1>1, <1>2

\* The control of the other notifiers does not matter to a round.
LEMMA RoundsByNotifier ==
  ASSUME IInv, Rounds, NEW e \in Exits, UNCHANGED <<subscribed, closed>>,
         \A f \in Exits : f # e => /\ notifier'[f] = notifier[f] /\ failed'[f] = failed[f]
                                   /\ todo'[f] = todo[f] /\ success'[f] = success[f],
         notifier'[e] \in {"visit", "select", "sent", "late"} /\ ~failed'[e]
           => Owed(e) \subseteq todo'[e] \cup success'[e],
         notifier'[e] = "done" => Owed(e) \subseteq success'[e]
  PROVE  Rounds'
<1>1. \A f \in Exits : notifier'[f] \in {"visit", "select", "sent", "late"} /\ ~failed'[f]
        => Owed(f) \subseteq todo'[f] \cup success'[f]
  BY DEF Rounds
<1>2. \A f \in Exits : notifier'[f] = "done" => Owed(f) \subseteq success'[f]
  BY DEF Rounds
<1>. QED
  BY <1>1, <1>2 DEF Rounds, Owed

\* The steps of a round, from the snapshot to its end.
LEMMA NotifierKeepsRounds ==
  ASSUME IInv, Outcome, OwnExit, Rounds, NEW e \in Exits, NEW s \in Subs,
         NotifierRuns(e) \/ Skip(e, s) \/ Visit(e, s) \/ Send(e)
  PROVE  Rounds'
<1>1. /\ notifier \in [Exits -> NotifierPhases] /\ failed \in [Exits -> BOOLEAN]
      /\ todo \in [Exits -> SUBSET Subs] /\ success \in [Exits -> SUBSET Subs]
  BY DEF IInv, TypeOK, NotifierPhases
<1>2. UNCHANGED <<subscribed, closed>>
  BY DEF NotifierRuns, Notify, Snapshot, TimerFires, Timeout, Release, EndRound, Skip, Visit, Send,
     monitorVars
<1>3. CASE Notify(e)
  <2>1. notifier' = [notifier EXCEPT ![e] = "snap"] /\ UNCHANGED <<failed, todo, success>>
    BY <1>3 DEF Notify
  <2>. QED
    BY <1>1, <1>2, <2>1, RoundsByNotifier
<1>4. CASE Snapshot(e)
  <2>1. /\ notifier[e] = "snap" /\ notifier' = [notifier EXCEPT ![e] = "visit"]
        /\ todo' = [todo EXCEPT ![e] = subscribed]
        /\ failed' = [failed EXCEPT ![e] = FALSE] /\ success' = success
    BY <1>4 DEF Snapshot, NotifierMoves
  <2>2. Owed(e) \subseteq todo'[e] \cup success'[e]
    BY <1>1, <2>1, OwedAreThere
  <2>. QED
    BY <1>1, <1>2, <2>1, <2>2, RoundsByNotifier
<1>5. CASE TimerFires(e)
  BY <1>2, <1>5 DEF TimerFires, Rounds, Owed
<1>6. CASE Timeout(e)
  <2>1. /\ notifier' = [notifier EXCEPT ![e] = "late"] /\ UNCHANGED <<todo, success>>
        /\ failed' = [failed EXCEPT ![e] = TRUE]
    BY <1>6 DEF Timeout, NotifierMoves
  <2>. QED
    BY <1>1, <1>2, <2>1, RoundsByNotifier
<1>7. CASE Release(e)
  <2>1. /\ notifier[e] \in {"sent", "late"} /\ notifier' = [notifier EXCEPT ![e] = "visit"]
        /\ todo' = [todo EXCEPT ![e] = todo[e] \ {visiting[e]}] /\ UNCHANGED <<failed, success>>
    BY <1>7 DEF Release
  <2>2. ~failed[e] => Owed(e) \subseteq todo[e] \cup success[e] /\ visiting[e] \in success[e]
    BY <2>1 DEF Rounds, Outcome
  <2>3. ~failed'[e] => Owed(e) \subseteq todo'[e] \cup success'[e]
    BY <1>1, <2>1, <2>2
  <2>. QED
    BY <1>1, <1>2, <2>1, <2>3, RoundsByNotifier
<1>8. CASE EndRound(e)
  <2>1. /\ notifier[e] = "visit" /\ todo[e] = {} /\ UNCHANGED <<todo, failed, success>>
        /\ notifier' = [notifier EXCEPT ![e] = IF failed[e] THEN "snap" ELSE "done"]
    BY <1>8 DEF EndRound, NotifierMoves
  <2>2. notifier'[e] = "done" => Owed(e) \subseteq success'[e]
    BY <1>1, <2>1 DEF Rounds
  <2>. QED
    BY <1>1, <1>2, <2>1, <2>2, RoundsByNotifier
<1>9. CASE Skip(e, s)
  <2>1. /\ notifier[e] = "visit" /\ todo' = [todo EXCEPT ![e] = todo[e] \ {s}]
        /\ (closed[s] \/ s \in success[e]) /\ UNCHANGED <<notifier, failed, success>>
    BY <1>9 DEF Skip, Skips
  <2>2. s \in Owed(e) => s \in success[e]
    BY <2>1, OwedAreThere
  <2>3. ~failed'[e] => Owed(e) \subseteq todo'[e] \cup success'[e]
    BY <1>1, <1>9, <2>1, <2>2 DEF Skip, Rounds
  <2>. QED
    BY <1>1, <1>2, <1>9, <2>1, <2>3, RoundsByNotifier DEF Skip
<1>10. CASE Visit(e, s)
  <2>1. /\ notifier[e] = "visit" /\ notifier' = [notifier EXCEPT ![e] = "select"]
        /\ UNCHANGED <<todo, failed, success>>
    BY <1>10 DEF Visit, NotifierMoves
  <2>. QED
    BY <1>1, <1>2, <2>1, RoundsByNotifier DEF Rounds
<1>11. CASE Send(e)
  <2>1. /\ notifier[e] = "select" /\ notifier' = [notifier EXCEPT ![e] = "sent"]
        /\ success' = [success EXCEPT ![e] = success[e] \cup {visiting[e]}]
        /\ UNCHANGED <<todo, failed>>
    BY <1>11 DEF Send, NotifierMoves
  <2>2. ~failed'[e] => Owed(e) \subseteq todo'[e] \cup success'[e]
    BY <1>1, <2>1 DEF Rounds
  <2>. QED
    BY <1>1, <1>2, <2>1, <2>2, RoundsByNotifier
<1>. QED
  BY <1>3, <1>4, <1>5, <1>6, <1>7, <1>8, <1>9, <1>10, <1>11 DEF NotifierRuns

\* No round ends without a success for everybody who is owed the exit.
LEMMA StepRounds == IInv /\ Outcome /\ OwnExit /\ Rounds /\ Next => Rounds'
<1>. SUFFICES ASSUME IInv, Outcome, OwnExit, Rounds, Next PROVE Rounds'
  OBVIOUS
<1>1. CASE InitExit \/ Reap \/ NotifyWaited \/ ServiceReads
  BY <1>1 DEF InitExit, Reap, NotifyWaited, ServiceReads, monitorVars, notifyVars, Rounds, Owed
<1>2. ASSUME NEW w \in Waiters, \/ Subscribe(w) \/ StartCommand(w) \/ ProcExit(w)
                                \/ WaiterRuns(w) \/ UnsubscribeClose(w)
      PROVE  Rounds'
  <2>1. UNCHANGED notifyVars
    BY <1>2 DEF Subscribe, StartCommand, ProcExit, WaiterRuns, WaiterReads, UnsubscribeLock,
       UnsubscribeClose, UnsubscribeDelete
  <2>2. /\ subscribed \ {w} \subseteq subscribed'
        /\ closed' = closed \/ closed' = [closed EXCEPT ![w] = TRUE]
    BY <1>2 DEF Subscribe, StartCommand, ProcExit, WaiterRuns, WaiterReads, UnsubscribeLock,
       UnsubscribeClose, UnsubscribeDelete, monitorVars
  <2>3. Service \in subscribed' /\ ~closed'[Service]
    BY <2>2, ReaperAssumption DEF Rounds, IInv, TypeOK
  <2>. QED
    BY <2>1, <2>3 DEF Rounds, Owed, notifyVars
<1>3. Service \in Subs
  BY DEF Subs
<1>. QED
  BY <1>1, <1>2, <1>3, NotifierKeepsRounds DEF Next, Acquire

\* Initially nothing is owed.
LEMMA InitDInv == Init => DInv
<1>. SUFFICES ASSUME Init PROVE DInv
  OBVIOUS
<1>1. Locks /\ Outcome
  BY ReaperAssumption DEF Init, Locks, Outcome, Exits
<1>2. OwnExit /\ Rounds
  <2>1. \A w \in Waiters : proc[w] = "none" /\ waiter[w] = "idle" /\ read[w] = 0
    BY DEF Init, Subs
  <2>2. Service \in subscribed /\ ~closed[Service] /\ \A e \in Exits : notifier[e] = "idle"
    BY DEF Init, Subs
  <2>. QED
    BY <2>1, <2>2 DEF OwnExit, Rounds
<1>. QED
  BY <1>1, <1>2, InitIInv DEF DInv

\* Every step preserves it, a stutter included.
LEMMA StepDInv == DInv /\ [Next]_vars => DInv'
<1>1. ASSUME DInv, Next PROVE DInv'
  BY <1>1, StepIInv, StepLocks, StepOutcome, StepOwnExit, StepRounds DEF DInv
<1>2. ASSUME DInv, UNCHANGED vars PROVE DInv'
  <2>1. IInv'
    BY <1>2, StutterIInv DEF DInv
  <2>. QED
    BY <1>2, <2>1 DEF DInv, Locks, Outcome, OwnExit, Rounds, Owed, vars, processVars, reaperVars,
       monitorVars, chanVars, notifyVars
<1>. QED
  BY <1>1, <1>2

-----------------------------------------------------------------------------
(* The theorems.                                                           *)

\* The inductive invariant holds throughout, for any waiters and reports.
THEOREM DeliveryInvariance == Safety => []DInv
  BY InitDInv, StepDInv, PTL DEF Safety

\* A waiter whose command was reaped will find the exit in its channel, or is
\* still to get it: a timeout is not the end of it, nor is an unsubscription.
LEMMA WaiterIsServed == DInv => WaiterServed
<1>. SUFFICES ASSUME DInv, NEW w \in Waiters, waiter[w] = "wait", proc[w] = "reaped",
                     w \notin batch, notifier[w] \in {"idle", "done"}
              PROVE  \E i \in read[w] + 1 .. Len(inbox[w]) : inbox[w][i] = w
  BY DEF WaiterServed
<1>1. w \in Exits /\ w \in Subs /\ notifier[w] = "done"
  BY DEF DInv, OwnExit, Exits, Subs
<1>2. w \in success[w]
  BY <1>1 DEF DInv, Rounds, Owed
<1>3. PICK i \in 1..Len(inbox[w]) : inbox[w][i] = w
  BY <1>1, <1>2 DEF DInv, Outcome
<1>4. read[w] \in Nat /\ Len(inbox[w]) \in Nat
  BY <1>1, LenProperties DEF DInv, IInv, TypeOK
<1>5. i \notin 1..read[w]
  BY <1>3 DEF DInv, OwnExit
<1>. QED
  BY <1>3, <1>4, <1>5

\* However slow the service is, the goroutine of an exit ends with the exit in
\* the service's channel.
LEMMA ServiceIsServed == DInv => ServiceServed
<1>. SUFFICES ASSUME DInv, NEW e \in Exits, notifier[e] = "done"
              PROVE  \E i \in DOMAIN inbox[Service] : inbox[Service][i] = e
  BY DEF ServiceServed
<1>1. Service \in success[e]
  BY DEF DInv, Rounds, Owed
<1>2. DOMAIN inbox[Service] = 1..Len(inbox[Service])
  BY LenProperties DEF DInv, IInv, TypeOK, Subs
<1>. QED
  BY <1>1, <1>2 DEF DInv, Outcome

\* No exit is lost, whatever fills up, times out or leaves on its way.
THEOREM NoExitLost == Safety => []NoLostExit
<1>1. DInv => NoLostExit
  BY WaiterIsServed, ServiceIsServed DEF NoLostExit
<1>. QED
  BY <1>1, DeliveryInvariance, PTL

\* No lock is held by somebody who cannot go on.
THEOREM LocksAreReleased == Safety => []HoldersMove
<1>1. DInv => HoldersMove
  <2>. SUFFICES ASSUME DInv PROVE HoldersMove
    OBVIOUS
  <2>1. ASSUME NEW s \in Subs, slock[s] # None
        PROVE  /\ visiting[slock[s]] = s
               /\ \/ notifier[slock[s]] = "late"
                  \/ notifier[slock[s]] \in {"select", "sent"} /\ timer[slock[s]] # "off"
    <3>1. slock[s] \in Exits /\ visiting[slock[s]] = s
      BY <2>1 DEF DInv, IInv, TypeOK, LockHeld
    <3>2. Visiting(slock[s])
      BY <3>1, ReaperAssumption DEF DInv, IInv, LockHeld, Subs
    <3>. QED
      BY <3>1, <3>2 DEF Visiting, DInv, Locks
  <2>2. mu # None => waiter[mu] \in {"close", "delete"}
    BY DEF DInv, Locks
  <2>. QED
    BY <2>1, <2>2 DEF HoldersMove
<1>. QED
  BY <1>1, DeliveryInvariance, PTL

=============================================================================
