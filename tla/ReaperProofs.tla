---------------------------- MODULE ReaperProofs ----------------------------
(***************************************************************************)
(* Proofs about Reaper, for any number of waiters, of reports about init   *)
(* and any channel capacity.                                               *)
(***************************************************************************)
EXTENDS Reaper, SequenceTheorems, TLAPS

-----------------------------------------------------------------------------
(* The inductive invariant.                                                *)

\* The values of waiter and of notifier.
WaiterPhases   == {"idle", "start", "wait", "unsub", "close", "delete", "done"}
NotifierPhases == {"idle", "snap", "visit", "select", "sent", "late", "done"}
USE DEF WaiterPhases, NotifierPhases

\* The notifier is inside the critical section.
Visiting(e) == notifier[e] \in {"select", "sent", "late"}

\* A notifier inside the critical section holds the lock of the subscriber
\* it visits, and nobody else's; a lock is held by the notifier it names.
LockHeld ==
  /\ \A e \in Exits : Visiting(e) => visiting[e] \in Subs /\ slock[visiting[e]] = e
  /\ \A e \in Exits : ~Visiting(e) => visiting[e] = None
  /\ \A s \in Subs : slock[s] # None => visiting[slock[s]] = s

\* What has been sent is remembered as a success, and a subscriber that has
\* the exit is not sent it again.
SentOnce ==
  /\ \A s \in Subs : \A i \in 1..Len(inbox[s]) : s \in success[inbox[s][i]]
  /\ \A e \in Exits : notifier[e] = "select" => visiting[e] \notin success[e]
  /\ AtMostOnce

\* A waiter is known to the Monitor from its subscription to the end of its
\* unsubscription, and is visited, and sent to, in between only.
Membership ==
  /\ \A w \in Waiters : closed[w] <=> waiter[w] \in {"delete", "done"}
  /\ \A w \in Waiters :
       w \in subscribed <=> waiter[w] \in {"start", "wait", "unsub", "close", "delete"}
  /\ \A w \in Waiters : waiter[w] = "idle" => inbox[w] = <<>>
  /\ \A e \in Exits : \A s \in todo[e] : s \in subscribed \/ closed[s]
  /\ \A e \in Exits : notifier[e] = "select" => visiting[e] \in subscribed

\* An exit is notified once: its notifier is idle until then.
Fresh ==
  /\ \A e \in batch : notifier[e] = "idle"
  /\ \A w \in Waiters : waiter[w] \in {"idle", "start"} => proc[w] = "none"
  /\ \A w \in Waiters : proc[w] # "reaped" => w \notin batch /\ notifier[w] = "idle"

IInv == /\ TypeOK /\ LockHeld /\ NoSendOnClosed /\ SentOnce /\ TimerDrained /\ Fresh
        /\ Membership

\* Receiving takes what is there, and leaves the rest within the capacity.
LEMMA ReceiveKeepsBounds ==
  ASSUME TypeOK, NEW s \in Subs, Receive(s)
  PROVE  /\ read' \in [Subs -> Nat] /\ inbox' = inbox
         /\ \A t \in Subs : Len(inbox'[t]) - read'[t] \in 0..Cap
         /\ read[s] + 1 \in DOMAIN inbox[s]
<1>. USE ReaperAssumption DEF TypeOK, Receive, Pending
<1>1. \A t \in Subs : Len(inbox[t]) \in Nat /\ read[t] \in Nat
                     /\ DOMAIN inbox[t] = 1..Len(inbox[t])
  BY LenProperties
<1>2. /\ Len(inbox[s]) - read[s] > 0
      /\ read' = [read EXCEPT ![s] = read[s] + 1] /\ inbox' = inbox
  OBVIOUS
<1>3. ASSUME NEW t \in Subs
      PROVE  read'[t] \in Nat /\ Len(inbox'[t]) - read'[t] \in 0..Cap
  BY <1>1, <1>2
<1>. QED
  BY <1>1, <1>2, <1>3

\* The variables keep their types, and no channel holds more than its capacity.
LEMMA StepTypeOK == TypeOK /\ LockHeld /\ Next => TypeOK'
<1>. SUFFICES ASSUME TypeOK, LockHeld, Next PROVE TypeOK'
  OBVIOUS
<1>. USE ReaperAssumption DEF Subs, Exits, reaperVars, processVars,
         monitorVars, chanVars, notifyVars
<1>1. ASSUME NEW w \in Waiters, Subscribe(w) PROVE TypeOK'
  BY <1>1 DEF Subscribe, WaiterMoves, TypeOK
<1>2. ASSUME NEW w \in Waiters, StartCommand(w) PROVE TypeOK'
  <2>1. waiter \in [Waiters -> WaiterPhases]
        /\ proc \in [Waiters -> {"none", "running", "zombie", "reaped"}]
    BY DEF TypeOK
  <2>2. waiter' \in [Waiters -> WaiterPhases]
    BY <1>2, <2>1 DEF StartCommand, WaiterMoves
  <2>3. proc' \in [Waiters -> {"none", "running", "zombie", "reaped"}]
    BY <1>2, <2>1 DEF StartCommand
  <2>. QED
    BY <1>2, <2>2, <2>3 DEF StartCommand, TypeOK
<1>3. ASSUME NEW w \in Waiters, ProcExit(w) PROVE TypeOK'
  BY <1>3 DEF ProcExit, TypeOK
<1>4. ASSUME NEW w \in Waiters, WaiterReads(w) PROVE TypeOK'
  <2>1. Receive(w) /\ waiter' \in [Waiters -> WaiterPhases]
    BY <1>4 DEF WaiterReads, TypeOK
  <2>. QED
    BY <1>4, <2>1, ReceiveKeepsBounds DEF WaiterReads, TypeOK
<1>5. ASSUME NEW w \in Waiters, UnsubscribeLock(w) PROVE TypeOK'
  BY <1>5 DEF UnsubscribeLock, WaiterMoves, TypeOK
<1>6. ASSUME NEW w \in Waiters, UnsubscribeClose(w) PROVE TypeOK'
  BY <1>6 DEF UnsubscribeClose, WaiterMoves, TypeOK
<1>7. ASSUME NEW w \in Waiters, UnsubscribeDelete(w) PROVE TypeOK'
  BY <1>7 DEF UnsubscribeDelete, WaiterMoves, TypeOK
<1>8. ASSUME NEW e \in Exits, Notify(e) PROVE TypeOK'
  BY <1>8 DEF Notify, TypeOK
<1>9. ASSUME NEW e \in Exits, Snapshot(e) PROVE TypeOK'
  BY <1>9 DEF Snapshot, NotifierMoves, TypeOK
<1>10. ASSUME NEW e \in Exits, TimerFires(e) PROVE TypeOK'
  BY <1>10 DEF TimerFires, TypeOK
<1>11. ASSUME NEW e \in Exits, Timeout(e) PROVE TypeOK'
  BY <1>11 DEF Timeout, NotifierMoves, TypeOK
<1>12. ASSUME NEW e \in Exits, Release(e) PROVE TypeOK'
  BY <1>12 DEF Release, Stops, TimerAfterStop, TypeOK
<1>13. ASSUME NEW e \in Exits, EndRound(e) PROVE TypeOK'
  BY <1>13 DEF EndRound, NotifierMoves, TypeOK
<1>14. ASSUME NEW e \in Exits, Send(e) PROVE TypeOK'
  <2>. DEFINE s == visiting[e]
  <2>1. s \in Subs /\ notifier[e] = "select"
    BY <1>14 DEF Send, NotifierMoves, LockHeld, Visiting
  <2>2. /\ inbox' = [inbox EXCEPT ![s] = Append(inbox[s], e)] /\ read' = read
        /\ Len(inbox[s]) - read[s] < Cap
    BY <1>14 DEF Send, HasRoom, Pending
  <2>3. inbox' \in [Subs -> Seq(Exits)]
    <3>1. inbox \in [Subs -> Seq(Exits)]
      BY DEF TypeOK
    <3>2. Append(inbox[s], e) \in Seq(Exits)
      BY <2>1, <3>1, AppendProperties
    <3>. QED
      BY <2>1, <2>2, <3>1, <3>2
  <2>4. \A t \in Subs : Len(inbox'[t]) - read'[t] \in 0..Cap
    <3>1. Len(inbox'[s]) = Len(inbox[s]) + 1 /\ Len(inbox[s]) \in Nat /\ read[s] \in Nat
      BY <2>1, <2>2, AppendProperties, LenProperties DEF TypeOK
    <3>2. Len(inbox[s]) - read[s] \in 0..Cap
      BY <2>1 DEF TypeOK
    <3>3. Len(inbox'[s]) - read'[s] \in 0..Cap
      BY <2>2, <3>1, <3>2, ReaperAssumption
    <3>4. ASSUME NEW t \in Subs, t # s PROVE Len(inbox'[t]) - read'[t] \in 0..Cap
      BY <2>1, <2>2, <3>4 DEF TypeOK
    <3>. QED
      BY <3>3, <3>4
  <2>5. success' \in [Exits -> SUBSET Subs]
    <3>1. success \in [Exits -> SUBSET Subs]
      BY DEF TypeOK
    <3>2. success' = [success EXCEPT ![e] = success[e] \cup {s}]
      BY <1>14 DEF Send
    <3>. QED
      BY <2>1, <3>1, <3>2
  <2>6. notifier' \in [Exits -> NotifierPhases]
    <3>1. notifier \in [Exits -> NotifierPhases]
      BY DEF TypeOK
    <3>. QED
      BY <1>14, <3>1 DEF Send, NotifierMoves
  <2>. QED
    BY <1>14, <2>3, <2>4, <2>5, <2>6 DEF Send, TypeOK
<1>15. ASSUME NEW e \in Exits, NEW s \in Subs, Skip(e, s) PROVE TypeOK'
  BY <1>15 DEF Skip, Skips, TypeOK
<1>16. ASSUME NEW e \in Exits, NEW s \in Subs, Visit(e, s) PROVE TypeOK'
  BY <1>16 DEF Visit, Skips, NotifierMoves, TypeOK
<1>17. CASE InitExit
  BY <1>17 DEF InitExit, TypeOK
<1>18. CASE Reap
  BY <1>18 DEF Reap, Report, TypeOK
<1>19. CASE NotifyWaited
  BY <1>19 DEF NotifyWaited, TypeOK
<1>20. CASE ServiceReads
  BY <1>20, ReceiveKeepsBounds DEF ServiceReads, TypeOK
<1>. QED
  BY <1>1, <1>2, <1>3, <1>4, <1>5, <1>6, <1>7, <1>8, <1>9, <1>10, <1>11,
     <1>12, <1>13, <1>14, <1>15, <1>16, <1>17, <1>18, <1>19, <1>20
     DEF Next, WaiterRuns, NotifierRuns, Acquire

\* A notifier that enters the critical section of a free subscriber.
LEMMA VisitKeepsLockHeld ==
  ASSUME TypeOK, LockHeld, NEW e \in Exits, NEW s \in Subs, Visit(e, s)
  PROVE  LockHeld'
<1>1. /\ notifier' = [notifier EXCEPT ![e] = "select"] /\ notifier[e] = "visit"
      /\ slock' = [slock EXCEPT ![s] = e] /\ slock[s] = None
      /\ visiting' = [visiting EXCEPT ![e] = s]
  BY DEF Visit, NotifierMoves
<1>2. visiting[e] = None /\ None \notin Subs /\ None \notin Exits
  BY <1>1, ReaperAssumption DEF LockHeld, Visiting, Subs, Exits
<1>3. /\ notifier \in [Exits -> NotifierPhases]
      /\ slock \in [Subs -> Exits \cup {None}]
      /\ visiting \in [Exits -> Subs \cup {None}]
  BY DEF TypeOK
<1>4. ASSUME NEW f \in Exits
      PROVE  /\ Visiting(f)' => visiting'[f] \in Subs /\ slock'[visiting'[f]] = f
             /\ ~Visiting(f)' => visiting'[f] = None
  <2>1. CASE f = e
    BY <1>1, <1>3, <2>1 DEF Visiting
  <2>2. CASE f # e
    <3>1. visiting'[f] = visiting[f] /\ (Visiting(f)' <=> Visiting(f))
      BY <1>1, <1>3, <2>2 DEF Visiting
    <3>2. Visiting(f) => visiting[f] \in Subs /\ slock[visiting[f]] = f /\ visiting[f] # s
      BY <1>1, <1>2 DEF LockHeld
    <3>. QED
      BY <1>1, <1>3, <3>1, <3>2 DEF LockHeld
  <2>. QED
    BY <2>1, <2>2
<1>5. ASSUME NEW t \in Subs, slock'[t] # None PROVE visiting'[slock'[t]] = t
  <2>1. CASE t = s
    BY <1>1, <1>3, <2>1
  <2>2. CASE t # s
    <3>1. slock'[t] = slock[t] /\ slock[t] \in Exits
      BY <1>1, <1>3, <1>5, <2>2
    <3>2. visiting[slock[t]] = t
      BY <1>5, <3>1 DEF LockHeld
    <3>3. slock[t] # e
      BY <1>2, <3>2
    <3>. QED
      BY <1>1, <1>3, <3>1, <3>2, <3>3
  <2>. QED
    BY <2>1, <2>2
<1>. QED
  BY <1>4, <1>5 DEF LockHeld

\* A notifier that leaves it gives back the lock it holds.
LEMMA ReleaseKeepsLockHeld ==
  ASSUME TypeOK, LockHeld, NEW e \in Exits, Release(e)
  PROVE  LockHeld'
<1>. DEFINE s == visiting[e]
<1>1. /\ notifier' = [notifier EXCEPT ![e] = "visit"]
      /\ slock' = [slock EXCEPT ![s] = None]
      /\ visiting' = [visiting EXCEPT ![e] = None]
  BY DEF Release
<1>2. s \in Subs /\ slock[s] = e
  BY DEF Release, LockHeld, Visiting
<1>3. /\ notifier \in [Exits -> NotifierPhases]
      /\ slock \in [Subs -> Exits \cup {None}]
      /\ visiting \in [Exits -> Subs \cup {None}]
  BY DEF TypeOK
<1>. HIDE DEF s
<1>4. ASSUME NEW f \in Exits
      PROVE  /\ Visiting(f)' => visiting'[f] \in Subs /\ slock'[visiting'[f]] = f
             /\ ~Visiting(f)' => visiting'[f] = None
  <2>1. CASE f = e
    BY <1>1, <1>3, <2>1 DEF Visiting
  <2>2. CASE f # e
    <3>1. visiting'[f] = visiting[f] /\ (Visiting(f)' <=> Visiting(f))
      BY <1>1, <1>3, <2>2 DEF Visiting
    <3>2. Visiting(f) => visiting[f] \in Subs /\ slock[visiting[f]] = f
      BY DEF LockHeld
    <3>3. Visiting(f) => visiting[f] # s
      BY <1>2, <2>2, <3>2
    <3>4. Visiting(f) => slock'[visiting[f]] = f
      BY <1>1, <1>3, <3>2, <3>3
    <3>5. ~Visiting(f) => visiting[f] = None
      BY DEF LockHeld
    <3>. QED
      BY <3>1, <3>2, <3>4, <3>5
  <2>. QED
    BY <2>1, <2>2
<1>5. ASSUME NEW t \in Subs, slock'[t] # None PROVE visiting'[slock'[t]] = t
  <2>1. t # s /\ slock'[t] = slock[t]
    BY <1>1, <1>2, <1>3, <1>5
  <2>2. slock[t] \in Exits /\ visiting[slock[t]] = t
    BY <1>3, <1>5, <2>1 DEF LockHeld
  <2>3. slock[t] # e
    BY <2>1, <2>2 DEF s
  <2>. QED
    BY <1>1, <1>3, <2>1, <2>2, <2>3
<1>. QED
  BY <1>4, <1>5 DEF LockHeld

\* A lock is taken when it is free and released by its holder.
LEMMA StepLockHeld == IInv /\ Next => LockHeld'
<1>. SUFFICES ASSUME IInv, Next PROVE LockHeld'
  OBVIOUS
<1>. USE ReaperAssumption DEF IInv, TypeOK, LockHeld, Visiting, Fresh, Subs,
         Exits, reaperVars, processVars, monitorVars, chanVars, notifyVars
<1>1. ASSUME NEW w \in Waiters, Subscribe(w) PROVE LockHeld'
  BY <1>1 DEF Subscribe, WaiterMoves
<1>2. ASSUME NEW w \in Waiters, StartCommand(w) PROVE LockHeld'
  BY <1>2 DEF StartCommand, WaiterMoves
<1>3. ASSUME NEW w \in Waiters, ProcExit(w) PROVE LockHeld'
  BY <1>3 DEF ProcExit
<1>4. ASSUME NEW w \in Waiters, WaiterReads(w) PROVE LockHeld'
  BY <1>4 DEF WaiterReads, Receive, Pending, NextExit
<1>5. ASSUME NEW w \in Waiters, UnsubscribeLock(w) PROVE LockHeld'
  BY <1>5 DEF UnsubscribeLock, WaiterMoves
<1>6. ASSUME NEW w \in Waiters, UnsubscribeClose(w) PROVE LockHeld'
  BY <1>6 DEF UnsubscribeClose, WaiterMoves
<1>7. ASSUME NEW w \in Waiters, UnsubscribeDelete(w) PROVE LockHeld'
  BY <1>7 DEF UnsubscribeDelete, WaiterMoves
<1>8. ASSUME NEW e \in Exits, Notify(e) PROVE LockHeld'
  BY <1>8 DEF Notify
<1>9. ASSUME NEW e \in Exits, Snapshot(e) PROVE LockHeld'
  BY <1>9 DEF Snapshot, NotifierMoves
<1>10. ASSUME NEW e \in Exits, TimerFires(e) PROVE LockHeld'
  BY <1>10 DEF TimerFires
<1>11. ASSUME NEW e \in Exits, Timeout(e) PROVE LockHeld'
  BY <1>11 DEF Timeout, NotifierMoves
<1>12. ASSUME NEW e \in Exits, Release(e) PROVE LockHeld'
  BY <1>12, ReleaseKeepsLockHeld
<1>13. ASSUME NEW e \in Exits, EndRound(e) PROVE LockHeld'
  BY <1>13 DEF EndRound, NotifierMoves
<1>14. ASSUME NEW e \in Exits, Send(e) PROVE LockHeld'
  BY <1>14 DEF Send, NotifierMoves, HasRoom, Pending
<1>15. ASSUME NEW e \in Exits, NEW s \in Subs, Skip(e, s) PROVE LockHeld'
  BY <1>15 DEF Skip, Skips
<1>16. ASSUME NEW e \in Exits, NEW s \in Subs, Visit(e, s) PROVE LockHeld'
  BY <1>16, VisitKeepsLockHeld
<1>17. CASE InitExit
  BY <1>17 DEF InitExit
<1>18. CASE Reap
  BY <1>18 DEF Reap, Report
<1>19. CASE NotifyWaited
  BY <1>19 DEF NotifyWaited
<1>20. CASE ServiceReads
  BY <1>20 DEF ServiceReads, Receive, Pending
<1>. QED
  BY <1>1, <1>2, <1>3, <1>4, <1>5, <1>6, <1>7, <1>8, <1>9, <1>10, <1>11,
     <1>12, <1>13, <1>14, <1>15, <1>16, <1>17, <1>18, <1>19, <1>20
     DEF Next, WaiterRuns, NotifierRuns, Acquire

\* Whoever closes a channel holds the lock of its subscriber: no notifier does.
LEMMA CloseKeepsNoSend ==
  ASSUME TypeOK, LockHeld, NoSendOnClosed, NEW w \in Waiters, UnsubscribeClose(w)
  PROVE  NoSendOnClosed'
<1>1. /\ slock[w] = None /\ closed' = [closed EXCEPT ![w] = TRUE]
      /\ notifier' = notifier /\ visiting' = visiting
  BY DEF UnsubscribeClose, notifyVars
<1>2. closed \in [Subs -> BOOLEAN] /\ None \notin Exits
  BY ReaperAssumption DEF TypeOK, Exits
<1>3. ASSUME NEW e \in Exits, notifier[e] = "select"
      PROVE  ~closed'[visiting[e]]
  <2>1. visiting[e] \in Subs /\ slock[visiting[e]] = e
    BY <1>3 DEF LockHeld, Visiting
  <2>2. visiting[e] # w
    BY <1>1, <1>2, <2>1
  <2>3. ~closed[visiting[e]]
    BY <1>3 DEF NoSendOnClosed
  <2>. QED
    BY <1>1, <1>2, <2>1, <2>2, <2>3
<1>. QED
  BY <1>1, <1>3 DEF NoSendOnClosed

\* A channel is closed under the lock that the sender holds.
LEMMA StepNoSendOnClosed == IInv /\ Next => NoSendOnClosed'
<1>. SUFFICES ASSUME IInv, Next PROVE NoSendOnClosed'
  OBVIOUS
<1>. USE ReaperAssumption DEF IInv, TypeOK, LockHeld, Visiting,
         NoSendOnClosed, Subs, Exits, reaperVars, processVars, monitorVars,
         chanVars, notifyVars
<1>1. ASSUME NEW w \in Waiters, Subscribe(w) PROVE NoSendOnClosed'
  BY <1>1 DEF Subscribe, WaiterMoves
<1>2. ASSUME NEW w \in Waiters, StartCommand(w) PROVE NoSendOnClosed'
  BY <1>2 DEF StartCommand, WaiterMoves
<1>3. ASSUME NEW w \in Waiters, ProcExit(w) PROVE NoSendOnClosed'
  BY <1>3 DEF ProcExit
<1>4. ASSUME NEW w \in Waiters, WaiterReads(w) PROVE NoSendOnClosed'
  BY <1>4 DEF WaiterReads, Receive, Pending, NextExit
<1>5. ASSUME NEW w \in Waiters, UnsubscribeLock(w) PROVE NoSendOnClosed'
  BY <1>5 DEF UnsubscribeLock, WaiterMoves
<1>6. ASSUME NEW w \in Waiters, UnsubscribeClose(w) PROVE NoSendOnClosed'
  BY <1>6, CloseKeepsNoSend
<1>7. ASSUME NEW w \in Waiters, UnsubscribeDelete(w) PROVE NoSendOnClosed'
  BY <1>7 DEF UnsubscribeDelete, WaiterMoves
<1>8. ASSUME NEW e \in Exits, Notify(e) PROVE NoSendOnClosed'
  BY <1>8 DEF Notify
<1>9. ASSUME NEW e \in Exits, Snapshot(e) PROVE NoSendOnClosed'
  BY <1>9 DEF Snapshot, NotifierMoves
<1>10. ASSUME NEW e \in Exits, TimerFires(e) PROVE NoSendOnClosed'
  BY <1>10 DEF TimerFires
<1>11. ASSUME NEW e \in Exits, Timeout(e) PROVE NoSendOnClosed'
  BY <1>11 DEF Timeout, NotifierMoves
<1>12. ASSUME NEW e \in Exits, Release(e) PROVE NoSendOnClosed'
  BY <1>12 DEF Release, Stops, TimerAfterStop
<1>13. ASSUME NEW e \in Exits, EndRound(e) PROVE NoSendOnClosed'
  BY <1>13 DEF EndRound, NotifierMoves
<1>14. ASSUME NEW e \in Exits, Send(e) PROVE NoSendOnClosed'
  BY <1>14 DEF Send, NotifierMoves, HasRoom, Pending
<1>15. ASSUME NEW e \in Exits, NEW s \in Subs, Skip(e, s) PROVE NoSendOnClosed'
  BY <1>15 DEF Skip, Skips
<1>16. ASSUME NEW e \in Exits, NEW s \in Subs, Visit(e, s) PROVE NoSendOnClosed'
  BY <1>16 DEF Visit, Skips, NotifierMoves
<1>17. CASE InitExit
  BY <1>17 DEF InitExit
<1>18. CASE Reap
  BY <1>18 DEF Reap, Report
<1>19. CASE NotifyWaited
  BY <1>19 DEF NotifyWaited
<1>20. CASE ServiceReads
  BY <1>20 DEF ServiceReads, Receive, Pending
<1>. QED
  BY <1>1, <1>2, <1>3, <1>4, <1>5, <1>6, <1>7, <1>8, <1>9, <1>10, <1>11,
     <1>12, <1>13, <1>14, <1>15, <1>16, <1>17, <1>18, <1>19, <1>20
     DEF Next, WaiterRuns, NotifierRuns, Acquire

\* Appending to a sequence without repetitions what it does not contain.
LEMMA AppendFresh ==
  ASSUME NEW S, NEW q \in Seq(S), NEW x \in S,
         \A i, j \in 1..Len(q) : q[i] = q[j] => i = j,
         \A i \in 1..Len(q) : q[i] # x
  PROVE  /\ \A i \in 1..Len(Append(q, x)) :
              Append(q, x)[i] = x \/ (i \in 1..Len(q) /\ Append(q, x)[i] = q[i])
         /\ \A i, j \in 1..Len(Append(q, x)) :
              Append(q, x)[i] = Append(q, x)[j] => i = j
<1>1. /\ Len(q) \in Nat /\ Len(Append(q, x)) = Len(q) + 1
      /\ \A i \in 1..Len(q) : Append(q, x)[i] = q[i]
      /\ Append(q, x)[Len(q) + 1] = x
  BY AppendProperties, LenProperties
<1>2. \A i \in 1..Len(Append(q, x)) : i \in 1..Len(q) \/ i = Len(q) + 1
  BY <1>1
<1>. QED
  BY <1>1, <1>2

\* A send to the subscriber in the critical section, which has not got it.
LEMMA SendKeepsSentOnce ==
  ASSUME TypeOK, LockHeld, SentOnce, NEW e \in Exits, Send(e)
  PROVE  SentOnce'
<1>1. PICK s \in Subs : s = visiting[e]
  BY DEF Send, NotifierMoves, LockHeld, Visiting
<1>2. /\ inbox' = [inbox EXCEPT ![s] = Append(inbox[s], e)]
      /\ success' = [success EXCEPT ![e] = success[e] \cup {s}]
      /\ notifier' = [notifier EXCEPT ![e] = "sent"] /\ notifier[e] = "select"
      /\ visiting' = visiting
  BY <1>1 DEF Send, NotifierMoves
<1>3. /\ inbox \in [Subs -> Seq(Exits)] /\ success \in [Exits -> SUBSET Subs]
      /\ notifier \in [Exits -> NotifierPhases]
  BY DEF TypeOK
<1>4. \A t \in Subs : \A i \in 1..Len(inbox[t]) : 
        inbox[t][i] \in Exits /\ t \in success[inbox[t][i]]
  BY <1>3, ElementOfSeq DEF SentOnce
<1>5. \A f \in Exits : success[f] \subseteq success'[f]
  BY <1>2, <1>3
<1>6. inbox'[s] = Append(inbox[s], e) /\ \A t \in Subs : t # s => inbox'[t] = inbox[t]
  BY <1>2, <1>3
<1>7. \A i \in 1..Len(inbox[s]) : inbox[s][i] # e
  BY <1>1, <1>2, <1>4 DEF SentOnce
<1>8. /\ \A i \in 1..Len(inbox'[s]) :
           inbox'[s][i] = e \/ (i \in 1..Len(inbox[s]) /\ inbox'[s][i] = inbox[s][i])
      /\ \A i, j \in 1..Len(inbox'[s]) : inbox'[s][i] = inbox'[s][j] => i = j
  <2>1. inbox[s] \in Seq(Exits) /\ e \in Exits
    BY <1>3
  <2>2. \A i, j \in 1..Len(inbox[s]) : inbox[s][i] = inbox[s][j] => i = j
    BY DEF SentOnce, AtMostOnce
  <2>. HIDE DEF Exits
  <2>3. inbox'[s] = Append(inbox[s], e)
    BY <1>6
  <2>. QED
    BY ONLY <1>7, <2>1, <2>2, <2>3, AppendFresh
<1>9. \A t \in Subs : \A i \in 1..Len(inbox'[t]) : t \in success'[inbox'[t][i]]
  <2>1. ASSUME NEW t \in Subs, t # s, NEW i \in 1..Len(inbox'[t])
        PROVE  t \in success'[inbox'[t][i]]
    BY <1>4, <1>5, <1>6, <2>1
  <2>2. ASSUME NEW i \in 1..Len(inbox'[s]) PROVE s \in success'[inbox'[s][i]]
    BY <1>2, <1>3, <1>4, <1>5, <1>8
  <2>. QED
    BY <2>1, <2>2
<1>10. AtMostOnce'
  <2>1. ASSUME NEW t \in Subs, NEW i \in 1..Len(inbox'[t]), NEW j \in 1..Len(inbox'[t]),
               inbox'[t][i] = inbox'[t][j]
        PROVE  i = j
    BY <1>6, <1>8, <2>1 DEF SentOnce, AtMostOnce
  <2>. QED
    BY <2>1 DEF AtMostOnce
<1>11. \A f \in Exits : notifier'[f] = "select" => visiting'[f] \notin success'[f]
  BY <1>2, <1>3 DEF SentOnce
<1>. QED
  BY <1>9, <1>10, <1>11 DEF SentOnce

\* A subscriber is selected for an exit that it has not got.
LEMMA VisitKeepsSentOnce ==
  ASSUME TypeOK, SentOnce, NEW e \in Exits, NEW s \in Subs, Visit(e, s)
  PROVE  SentOnce'
<1>1. /\ notifier' = [notifier EXCEPT ![e] = "select"]
      /\ visiting' = [visiting EXCEPT ![e] = s] /\ s \notin success[e]
      /\ success' = success /\ inbox' = inbox
  BY DEF Visit, NotifierMoves, Skips, chanVars
<1>2. notifier \in [Exits -> NotifierPhases] /\ visiting \in [Exits -> Subs \cup {None}]
  BY DEF TypeOK
<1>3. ASSUME NEW f \in Exits, notifier'[f] = "select"
      PROVE  visiting'[f] \notin success[f]
  <2>1. CASE f = e
    BY <1>1, <1>2, <2>1
  <2>2. CASE f # e
    <3>1. notifier[f] = "select" /\ visiting'[f] = visiting[f]
      BY <1>1, <1>2, <1>3, <2>2
    <3>. QED
      BY <3>1 DEF SentOnce
  <2>. QED
    BY <2>1, <2>2
<1>4. AtMostOnce'
  BY <1>1 DEF SentOnce, AtMostOnce
<1>. QED
  BY <1>1, <1>3, <1>4 DEF SentOnce

\* A success is recorded with the send and keeps the next round from repeating it.
LEMMA StepSentOnce == IInv /\ Next => SentOnce'
<1>. SUFFICES ASSUME IInv, Next PROVE SentOnce'
  OBVIOUS
<1>. USE ReaperAssumption DEF IInv, TypeOK, SentOnce, AtMostOnce, LockHeld,
         Visiting, Subs, Exits, reaperVars, processVars, monitorVars,
         chanVars, notifyVars
<1>1. ASSUME NEW w \in Waiters, Subscribe(w) PROVE SentOnce'
  BY <1>1 DEF Subscribe, WaiterMoves
<1>2. ASSUME NEW w \in Waiters, StartCommand(w) PROVE SentOnce'
  BY <1>2 DEF StartCommand, WaiterMoves
<1>3. ASSUME NEW w \in Waiters, ProcExit(w) PROVE SentOnce'
  BY <1>3 DEF ProcExit
<1>4. ASSUME NEW w \in Waiters, WaiterReads(w) PROVE SentOnce'
  BY <1>4 DEF WaiterReads, Receive
<1>5. ASSUME NEW w \in Waiters, UnsubscribeLock(w) PROVE SentOnce'
  BY <1>5 DEF UnsubscribeLock, WaiterMoves
<1>6. ASSUME NEW w \in Waiters, UnsubscribeClose(w) PROVE SentOnce'
  BY <1>6 DEF UnsubscribeClose, WaiterMoves
<1>7. ASSUME NEW w \in Waiters, UnsubscribeDelete(w) PROVE SentOnce'
  BY <1>7 DEF UnsubscribeDelete, WaiterMoves
<1>8. ASSUME NEW e \in Exits, Notify(e) PROVE SentOnce'
  BY <1>8 DEF Notify
<1>9. ASSUME NEW e \in Exits, Snapshot(e) PROVE SentOnce'
  BY <1>9 DEF Snapshot, NotifierMoves
<1>10. ASSUME NEW e \in Exits, TimerFires(e) PROVE SentOnce'
  BY <1>10 DEF TimerFires
<1>11. ASSUME NEW e \in Exits, Timeout(e) PROVE SentOnce'
  BY <1>11 DEF Timeout, NotifierMoves
<1>12. ASSUME NEW e \in Exits, Release(e) PROVE SentOnce'
  BY <1>12 DEF Release, Stops, TimerAfterStop
<1>13. ASSUME NEW e \in Exits, EndRound(e) PROVE SentOnce'
  BY <1>13 DEF EndRound, NotifierMoves
<1>14. ASSUME NEW e \in Exits, Send(e) PROVE SentOnce'
  BY <1>14, SendKeepsSentOnce
<1>15. ASSUME NEW e \in Exits, NEW s \in Subs, Skip(e, s) PROVE SentOnce'
  BY <1>15 DEF Skip, Skips
<1>16. ASSUME NEW e \in Exits, NEW s \in Subs, Visit(e, s) PROVE SentOnce'
  BY <1>16, VisitKeepsSentOnce
<1>17. CASE InitExit
  BY <1>17 DEF InitExit
<1>18. CASE Reap
  BY <1>18 DEF Reap, Report
<1>19. CASE NotifyWaited
  BY <1>19 DEF NotifyWaited
<1>20. CASE ServiceReads
  BY <1>20 DEF ServiceReads, Receive, Pending
<1>. QED
  BY <1>1, <1>2, <1>3, <1>4, <1>5, <1>6, <1>7, <1>8, <1>9, <1>10, <1>11,
     <1>12, <1>13, <1>14, <1>15, <1>16, <1>17, <1>18, <1>19, <1>20
     DEF Next, WaiterRuns, NotifierRuns, Acquire

\* Every way out of the select leaves the timer stopped and empty.
LEMMA StepTimerDrained == IInv /\ Next => TimerDrained'
<1>. SUFFICES ASSUME IInv, Next PROVE TimerDrained'
  OBVIOUS
<1>. USE ReaperAssumption DEF IInv, TypeOK, LockHeld, Visiting, TimerDrained,
         Fresh, Subs, Exits, reaperVars, processVars, monitorVars, chanVars,
         notifyVars
<1>1. ASSUME NEW w \in Waiters, Subscribe(w) PROVE TimerDrained'
  BY <1>1 DEF Subscribe, WaiterMoves
<1>2. ASSUME NEW w \in Waiters, StartCommand(w) PROVE TimerDrained'
  BY <1>2 DEF StartCommand, WaiterMoves
<1>3. ASSUME NEW w \in Waiters, ProcExit(w) PROVE TimerDrained'
  BY <1>3 DEF ProcExit
<1>4. ASSUME NEW w \in Waiters, WaiterReads(w) PROVE TimerDrained'
  BY <1>4 DEF WaiterReads, Receive, Pending, NextExit
<1>5. ASSUME NEW w \in Waiters, UnsubscribeLock(w) PROVE TimerDrained'
  BY <1>5 DEF UnsubscribeLock, WaiterMoves
<1>6. ASSUME NEW w \in Waiters, UnsubscribeClose(w) PROVE TimerDrained'
  BY <1>6 DEF UnsubscribeClose, WaiterMoves
<1>7. ASSUME NEW w \in Waiters, UnsubscribeDelete(w) PROVE TimerDrained'
  BY <1>7 DEF UnsubscribeDelete, WaiterMoves
<1>8. ASSUME NEW e \in Exits, Notify(e) PROVE TimerDrained'
  BY <1>8 DEF Notify
<1>9. ASSUME NEW e \in Exits, Snapshot(e) PROVE TimerDrained'
  BY <1>9 DEF Snapshot, NotifierMoves
<1>10. ASSUME NEW e \in Exits, TimerFires(e) PROVE TimerDrained'
  BY <1>10 DEF TimerFires
<1>11. ASSUME NEW e \in Exits, Timeout(e) PROVE TimerDrained'
  BY <1>11 DEF Timeout, NotifierMoves
<1>12. ASSUME NEW e \in Exits, Release(e) PROVE TimerDrained'
  BY <1>12 DEF Release, Stops, TimerAfterStop
<1>13. ASSUME NEW e \in Exits, EndRound(e) PROVE TimerDrained'
  BY <1>13 DEF EndRound, NotifierMoves
<1>14. ASSUME NEW e \in Exits, Send(e) PROVE TimerDrained'
  BY <1>14 DEF Send, NotifierMoves, HasRoom, Pending
<1>15. ASSUME NEW e \in Exits, NEW s \in Subs, Skip(e, s) PROVE TimerDrained'
  BY <1>15 DEF Skip, Skips
<1>16. ASSUME NEW e \in Exits, NEW s \in Subs, Visit(e, s) PROVE TimerDrained'
  BY <1>16 DEF Visit, Skips, NotifierMoves
<1>17. CASE InitExit
  BY <1>17 DEF InitExit
<1>18. CASE Reap
  BY <1>18 DEF Reap, Report
<1>19. CASE NotifyWaited
  BY <1>19 DEF NotifyWaited
<1>20. CASE ServiceReads
  BY <1>20 DEF ServiceReads, Receive, Pending
<1>. QED
  BY <1>1, <1>2, <1>3, <1>4, <1>5, <1>6, <1>7, <1>8, <1>9, <1>10, <1>11,
     <1>12, <1>13, <1>14, <1>15, <1>16, <1>17, <1>18, <1>19, <1>20
     DEF Next, WaiterRuns, NotifierRuns, Acquire

\* A command that starts has no exit yet.
LEMMA StartKeepsFresh ==
  ASSUME TypeOK, Fresh, NEW w \in Waiters, StartCommand(w)
  PROVE  Fresh'
<1>1. /\ waiter[w] = "start" /\ batch' = batch /\ notifier' = notifier
      /\ waiter' = [waiter EXCEPT ![w] = "wait"] \/ waiter' = [waiter EXCEPT ![w] = "unsub"]
      /\ proc' = [proc EXCEPT ![w] = "running"] \/ proc' = proc
  BY DEF StartCommand, WaiterMoves, reaperVars, notifyVars
<1>2. waiter \in [Waiters -> WaiterPhases]
      /\ proc \in [Waiters -> {"none", "running", "zombie", "reaped"}]
  BY DEF TypeOK
<1>3. proc[w] = "none" /\ w \notin batch /\ notifier[w] = "idle"
  BY <1>1 DEF Fresh
<1>4. \A v \in Waiters : waiter'[v] \in {"idle", "start"} => proc'[v] = "none"
  <2>1. waiter'[w] \notin {"idle", "start"}
    BY <1>1, <1>2
  <2>2. \A v \in Waiters : v # w => waiter'[v] = waiter[v] /\ proc'[v] = proc[v]
    BY <1>1, <1>2
  <2>. QED
    BY <2>1, <2>2 DEF Fresh
<1>5. \A v \in Waiters : proc'[v] # "reaped" => v \notin batch /\ notifier[v] = "idle"
  <2>1. \A v \in Waiters : v # w => proc'[v] = proc[v]
    BY <1>1, <1>2
  <2>. QED
    BY <1>3, <2>1 DEF Fresh
<1>. QED
  BY <1>1, <1>4, <1>5 DEF Fresh

\* A child is reaped once, and a report is a new one.
LEMMA StepFresh == IInv /\ Next => Fresh'
<1>. SUFFICES ASSUME IInv, Next PROVE Fresh'
  OBVIOUS
<1>. USE ReaperAssumption DEF IInv, TypeOK, Fresh, Subs, Exits, reaperVars,
         processVars, monitorVars, chanVars, notifyVars
<1>1. ASSUME NEW w \in Waiters, Subscribe(w) PROVE Fresh'
  BY <1>1 DEF Subscribe, WaiterMoves
<1>2. ASSUME NEW w \in Waiters, StartCommand(w) PROVE Fresh'
  BY <1>2, StartKeepsFresh
<1>3. ASSUME NEW w \in Waiters, ProcExit(w) PROVE Fresh'
  BY <1>3 DEF ProcExit
<1>4. ASSUME NEW w \in Waiters, WaiterReads(w) PROVE Fresh'
  BY <1>4 DEF WaiterReads, Receive, Pending, NextExit
<1>5. ASSUME NEW w \in Waiters, UnsubscribeLock(w) PROVE Fresh'
  BY <1>5 DEF UnsubscribeLock, WaiterMoves
<1>6. ASSUME NEW w \in Waiters, UnsubscribeClose(w) PROVE Fresh'
  BY <1>6 DEF UnsubscribeClose, WaiterMoves
<1>7. ASSUME NEW w \in Waiters, UnsubscribeDelete(w) PROVE Fresh'
  BY <1>7 DEF UnsubscribeDelete, WaiterMoves
<1>8. ASSUME NEW e \in Exits, Notify(e) PROVE Fresh'
  BY <1>8 DEF Notify
<1>9. ASSUME NEW e \in Exits, Snapshot(e) PROVE Fresh'
  BY <1>9 DEF Snapshot, NotifierMoves
<1>10. ASSUME NEW e \in Exits, TimerFires(e) PROVE Fresh'
  BY <1>10 DEF TimerFires
<1>11. ASSUME NEW e \in Exits, Timeout(e) PROVE Fresh'
  BY <1>11 DEF Timeout, NotifierMoves
<1>12. ASSUME NEW e \in Exits, Release(e) PROVE Fresh'
  BY <1>12 DEF Release, Stops, TimerAfterStop
<1>13. ASSUME NEW e \in Exits, EndRound(e) PROVE Fresh'
  BY <1>13 DEF EndRound, NotifierMoves
<1>14. ASSUME NEW e \in Exits, Send(e) PROVE Fresh'
  BY <1>14 DEF Send, NotifierMoves, HasRoom, Pending
<1>15. ASSUME NEW e \in Exits, NEW s \in Subs, Skip(e, s) PROVE Fresh'
  BY <1>15 DEF Skip, Skips
<1>16. ASSUME NEW e \in Exits, NEW s \in Subs, Visit(e, s) PROVE Fresh'
  BY <1>16 DEF Visit, Skips, NotifierMoves
<1>17. CASE InitExit
  BY <1>17 DEF InitExit
<1>18. CASE Reap
  BY <1>18 DEF Reap, Report
<1>19. CASE NotifyWaited
  BY <1>19 DEF NotifyWaited
<1>20. CASE ServiceReads
  BY <1>20 DEF ServiceReads, Receive, Pending
<1>. QED
  BY <1>1, <1>2, <1>3, <1>4, <1>5, <1>6, <1>7, <1>8, <1>9, <1>10, <1>11,
     <1>12, <1>13, <1>14, <1>15, <1>16, <1>17, <1>18, <1>19, <1>20
     DEF Next, WaiterRuns, NotifierRuns, Acquire

\* A waiter that is and stays subscribed changes nothing of it.
LEMMA MovesKeepMembership ==
  ASSUME Membership, waiter \in [Waiters -> WaiterPhases], NEW w \in Waiters,
         NEW p \in {"wait", "unsub", "close"}, waiter[w] \in {"start", "wait", "unsub"},
         waiter' = [waiter EXCEPT ![w] = p],
         subscribed' = subscribed, closed' = closed, inbox' = inbox, todo' = todo,
         notifier' = notifier, visiting' = visiting
  PROVE  Membership'
<1>1. waiter'[w] = p /\ \A v \in Waiters : v # w => waiter'[v] = waiter[v]
  OBVIOUS
<1>2. \A v \in Waiters : waiter'[v] \in {"delete", "done"} <=> waiter[v] \in {"delete", "done"}
  BY <1>1
<1>3. \A v \in Waiters :
        waiter'[v] \in {"start", "wait", "unsub", "close", "delete"}
          <=> waiter[v] \in {"start", "wait", "unsub", "close", "delete"}
  BY <1>1
<1>4. \A v \in Waiters : waiter'[v] = "idle" => waiter[v] = "idle"
  BY <1>1
<1>. QED
  BY <1>2, <1>3, <1>4 DEF Membership

\* The channel of a waiter is closed before it is forgotten.
LEMMA LeavingKeepsMembership ==
  ASSUME TypeOK, NoSendOnClosed, Membership, NEW w \in Waiters,
         UnsubscribeClose(w) \/ UnsubscribeDelete(w)
  PROVE  Membership'
<1>1. /\ waiter \in [Waiters -> WaiterPhases] /\ closed \in [Subs -> BOOLEAN]
      /\ Waiters \subseteq Subs
  BY DEF TypeOK, Subs
<1>2. CASE UnsubscribeClose(w)
  <2>1. /\ waiter[w] = "close" /\ waiter' = [waiter EXCEPT ![w] = "delete"]
        /\ closed' = [closed EXCEPT ![w] = TRUE]
        /\ subscribed' = subscribed /\ inbox' = inbox /\ todo' = todo
        /\ notifier' = notifier /\ visiting' = visiting
    BY <1>2 DEF UnsubscribeClose, WaiterMoves, chanVars, notifyVars
  <2>2. waiter'[w] = "delete" /\ closed'[w] /\ w \in subscribed
    BY <1>1, <2>1 DEF Membership
  <2>3. \A v \in Waiters : v # w => waiter'[v] = waiter[v] /\ closed'[v] = closed[v]
    BY <1>1, <2>1
  <2>4. \A s \in Subs : closed[s] => closed'[s]
    BY <1>1, <2>1
  <2>5. \A e \in Exits : \A s \in todo'[e] : s \in subscribed' \/ closed'[s]
    <3>1. \A e \in Exits : todo[e] \subseteq Subs
      BY DEF TypeOK
    <3>. QED
      BY <2>1, <2>4, <3>1 DEF Membership
  <2>6. /\ \A v \in Waiters : closed'[v] <=> waiter'[v] \in {"delete", "done"}
        /\ \A v \in Waiters : v \in subscribed' <=>
              waiter'[v] \in {"start", "wait", "unsub", "close", "delete"}
        /\ \A v \in Waiters : waiter'[v] = "idle" => inbox'[v] = <<>>
    BY <2>1, <2>2, <2>3 DEF Membership
  <2>7. \A e \in Exits : notifier'[e] = "select" => visiting'[e] \in subscribed'
    BY <2>1 DEF Membership
  <2>. QED
    BY <2>5, <2>6, <2>7 DEF Membership
<1>3. CASE UnsubscribeDelete(w)
  <2>1. /\ waiter[w] = "delete" /\ waiter' = [waiter EXCEPT ![w] = "done"]
        /\ subscribed' = subscribed \ {w}
        /\ closed' = closed /\ inbox' = inbox /\ todo' = todo
        /\ notifier' = notifier /\ visiting' = visiting
    BY <1>3 DEF UnsubscribeDelete, WaiterMoves, chanVars, notifyVars
  <2>2. waiter'[w] = "done" /\ closed[w] /\ w \notin subscribed'
    BY <1>1, <2>1 DEF Membership
  <2>3. \A v \in Waiters : v # w =>
           waiter'[v] = waiter[v] /\ (v \in subscribed' <=> v \in subscribed)
    BY <1>1, <2>1
  <2>4. \A e \in Exits : \A s \in todo'[e] : s \in subscribed' \/ closed'[s]
    BY <2>1, <2>2 DEF Membership
  <2>5. /\ \A v \in Waiters : closed'[v] <=> waiter'[v] \in {"delete", "done"}
        /\ \A v \in Waiters : v \in subscribed' <=>
              waiter'[v] \in {"start", "wait", "unsub", "close", "delete"}
        /\ \A v \in Waiters : waiter'[v] = "idle" => inbox'[v] = <<>>
    BY <2>1, <2>2, <2>3 DEF Membership
  <2>6. \A e \in Exits : notifier'[e] = "select" => visiting'[e] \in subscribed'
    BY <2>1, <2>2 DEF Membership, NoSendOnClosed
  <2>. QED
    BY <2>4, <2>5, <2>6 DEF Membership
<1>. QED
  BY <1>2, <1>3

\* Subscriptions come and go with their waiters.
LEMMA StepMembership == IInv /\ Next => Membership'
<1>. SUFFICES ASSUME IInv, Next PROVE Membership'
  OBVIOUS
<1>. USE ReaperAssumption DEF IInv, TypeOK, LockHeld, Visiting,
         NoSendOnClosed, Fresh, Membership, Subs, Exits, reaperVars,
         processVars, monitorVars, chanVars, notifyVars
<1>1. ASSUME NEW w \in Waiters, Subscribe(w) PROVE Membership'
  BY <1>1 DEF Subscribe, WaiterMoves
<1>2. ASSUME NEW w \in Waiters, StartCommand(w) PROVE Membership'
  BY <1>2, MovesKeepMembership DEF StartCommand, WaiterMoves
<1>3. ASSUME NEW w \in Waiters, ProcExit(w) PROVE Membership'
  BY <1>3 DEF ProcExit
<1>4. ASSUME NEW w \in Waiters, WaiterReads(w) PROVE Membership'
  BY <1>4, MovesKeepMembership DEF WaiterReads, Receive
<1>5. ASSUME NEW w \in Waiters, UnsubscribeLock(w) PROVE Membership'
  BY <1>5, MovesKeepMembership DEF UnsubscribeLock, WaiterMoves
<1>6. ASSUME NEW w \in Waiters, UnsubscribeClose(w) PROVE Membership'
  BY <1>6, LeavingKeepsMembership
<1>7. ASSUME NEW w \in Waiters, UnsubscribeDelete(w) PROVE Membership'
  BY <1>7, LeavingKeepsMembership
<1>8. ASSUME NEW e \in Exits, Notify(e) PROVE Membership'
  BY <1>8 DEF Notify
<1>9. ASSUME NEW e \in Exits, Snapshot(e) PROVE Membership'
  BY <1>9 DEF Snapshot, NotifierMoves
<1>10. ASSUME NEW e \in Exits, TimerFires(e) PROVE Membership'
  BY <1>10 DEF TimerFires
<1>11. ASSUME NEW e \in Exits, Timeout(e) PROVE Membership'
  BY <1>11 DEF Timeout, NotifierMoves
<1>12. ASSUME NEW e \in Exits, Release(e) PROVE Membership'
  BY <1>12 DEF Release, Stops, TimerAfterStop
<1>13. ASSUME NEW e \in Exits, EndRound(e) PROVE Membership'
  BY <1>13 DEF EndRound, NotifierMoves
<1>14. ASSUME NEW e \in Exits, Send(e) PROVE Membership'
  <2>1. /\ notifier[e] = "select" /\ visiting[e] \in Subs /\ visiting[e] \in subscribed
        /\ inbox' = [inbox EXCEPT ![visiting[e]] = Append(inbox[visiting[e]], e)]
        /\ notifier' = [notifier EXCEPT ![e] = "sent"]
        /\ UNCHANGED <<waiter, subscribed, closed, todo, visiting>>
    BY <1>14 DEF Send, NotifierMoves
  <2>2. ASSUME NEW w \in Waiters, waiter'[w] = "idle" PROVE inbox'[w] = <<>>
    <3>1. waiter[w] = "idle"
      BY <2>1, <2>2
    <3>2. inbox[w] = <<>> /\ w \notin subscribed
      BY <3>1
    <3>3. inbox'[w] = inbox[w]
      BY <2>1, <3>2
    <3>. QED
      BY <3>2, <3>3
  <2>. QED
    BY <2>1, <2>2
<1>15. ASSUME NEW e \in Exits, NEW s \in Subs, Skip(e, s) PROVE Membership'
  BY <1>15 DEF Skip, Skips
<1>16. ASSUME NEW e \in Exits, NEW s \in Subs, Visit(e, s) PROVE Membership'
  BY <1>16 DEF Visit, Skips, NotifierMoves
<1>17. CASE InitExit
  BY <1>17 DEF InitExit
<1>18. CASE Reap
  BY <1>18 DEF Reap, Report
<1>19. CASE NotifyWaited
  BY <1>19 DEF NotifyWaited
<1>20. CASE ServiceReads
  BY <1>20 DEF ServiceReads, Receive, Pending
<1>. QED
  BY <1>1, <1>2, <1>3, <1>4, <1>5, <1>6, <1>7, <1>8, <1>9, <1>10, <1>11,
     <1>12, <1>13, <1>14, <1>15, <1>16, <1>17, <1>18, <1>19, <1>20
     DEF Next, WaiterRuns, NotifierRuns, Acquire

\* Initially everything is quiet.
LEMMA InitIInv == Init => IInv
<1>. SUFFICES ASSUME Init PROVE IInv
  OBVIOUS
<1>. USE ReaperAssumption DEF Init, Subs, Exits
<1>1. TypeOK
  <2>1. inbox \in [Subs -> Seq(Exits)] /\ read \in [Subs -> Nat]
    BY EmptySeq
  <2>2. \A s \in Subs : Len(inbox[s]) - read[s] \in 0..Cap
    <3>1. \A s \in Subs : Len(inbox[s]) = 0 /\ read[s] = 0
      OBVIOUS
    <3>. QED
      BY <3>1
  <2>3. subscribed \subseteq Subs /\ slock \in [Subs -> Exits \cup {None}]
        /\ closed \in [Subs -> BOOLEAN]
    OBVIOUS
  <2>4. /\ notifier \in [Exits -> NotifierPhases]
        /\ todo \in [Exits -> SUBSET Subs] /\ failed \in [Exits -> BOOLEAN]
        /\ success \in [Exits -> SUBSET Subs]
        /\ visiting \in [Exits -> Subs \cup {None}]
        /\ timer \in [Exits -> {"off", "armed", "fired"}]
    OBVIOUS
  <2>. QED
    BY <2>1, <2>2, <2>3, <2>4 DEF TypeOK
<1>2. LockHeld /\ NoSendOnClosed /\ TimerDrained
  BY DEF LockHeld, Visiting, NoSendOnClosed, TimerDrained
<1>3. SentOnce
  BY DEF SentOnce, AtMostOnce
<1>4. Fresh /\ Membership
  BY DEF Fresh, Membership
<1>. QED
  BY <1>1, <1>2, <1>3, <1>4 DEF IInv

\* A stutter changes no part of it.
LEMMA StutterIInv == IInv /\ UNCHANGED vars => IInv'
  BY DEF IInv, TypeOK, LockHeld, Visiting, NoSendOnClosed, SentOnce, AtMostOnce,
         TimerDrained, Fresh, Membership, vars, reaperVars, processVars,
         monitorVars, chanVars, notifyVars

\* Every step preserves it.
LEMMA StepIInv == IInv /\ [Next]_vars => IInv'
<1>. SUFFICES ASSUME IInv, Next PROVE IInv'
  BY StutterIInv
<1>1. TypeOK'
  BY StepTypeOK DEF IInv
<1>2. LockHeld' /\ NoSendOnClosed' /\ SentOnce'
  BY StepLockHeld, StepNoSendOnClosed, StepSentOnce
<1>3. TimerDrained' /\ Fresh' /\ Membership'
  BY StepTimerDrained, StepFresh, StepMembership
<1>. QED
  BY <1>1, <1>2, <1>3 DEF IInv

-----------------------------------------------------------------------------
(* The theorems.                                                           *)

\* The inductive invariant holds throughout, for any waiters and reports.
THEOREM Invariance == Safety => []IInv
  BY InitIInv, StepIInv, PTL DEF Safety

\* Types, and no channel ever holds more than its capacity.
THEOREM TypeCorrect == Safety => []TypeOK
<1>1. IInv => TypeOK
  BY DEF IInv
<1>. QED
  BY <1>1, Invariance, PTL

\* Whoever unsubscribes and whenever, notify never sends on a closed channel.
THEOREM SendsAreSafe == Safety => []NoSendOnClosed
<1>1. IInv => NoSendOnClosed
  BY DEF IInv
<1>. QED
  BY <1>1, Invariance, PTL

\* Whatever the number of rounds, a subscriber gets an exit at most once.
THEOREM NoDuplicates == Safety => []AtMostOnce
<1>1. IInv => AtMostOnce
  BY DEF IInv, SentOnce
<1>. QED
  BY <1>1, Invariance, PTL

\* The timer that notify reuses carries nothing over from visit to visit.
THEOREM TimerIsReset == Safety => []TimerDrained
<1>1. IInv => TimerDrained
  BY DEF IInv
<1>. QED
  BY <1>1, Invariance, PTL

-----------------------------------------------------------------------------
(* The Monitor implements the broadcast.                                   *)

\* The members of the broadcast are the subscriptions that are open, and an
\* exit is announced once its notifier runs.
Members == {s \in subscribed : ~closed[s]}
Announced == {e \in Exits : notifier[e] # "idle"}
Seen == <<Members, Announced, inbox>>

\* Of a waiter's steps, a subscription is a Join and a close is a Leave.
LEMMA WaiterStep ==
  ASSUME IInv, NEW w \in Waiters,
         \/ Subscribe(w) \/ StartCommand(w) \/ ProcExit(w)
         \/ WaiterRuns(w) \/ UnsubscribeClose(w)
  PROVE  Broadcast!Next \/ UNCHANGED Seen
<1>. USE DEF Members, Announced, Seen, Subs, monitorVars, chanVars, notifyVars
<1>1. w \in Subs /\ closed \in [Subs -> BOOLEAN] /\ waiter[w] = waiter[w]
  BY DEF IInv, TypeOK
<1>2. CASE Subscribe(w)
  <2>1. waiter[w] = "idle" /\ subscribed' = subscribed \cup {w}
        /\ UNCHANGED <<closed, inbox, notifier>>
    BY <1>2 DEF Subscribe, WaiterMoves
  <2>2. w \notin subscribed /\ ~closed[w] /\ inbox[w] = <<>>
    BY <2>1 DEF IInv, Membership
  <2>3. /\ w \notin Members /\ Members' = Members \cup {w}
        /\ UNCHANGED <<Announced, inbox>>
    BY <2>1, <2>2
  <2>4. Broadcast!Join(w)
    BY <2>2, <2>3 DEF Broadcast!Join
  <2>. QED
    BY <1>1, <2>4 DEF Broadcast!Next
<1>3. CASE UnsubscribeClose(w)
  <2>1. waiter[w] = "close" /\ closed' = [closed EXCEPT ![w] = TRUE]
        /\ UNCHANGED <<subscribed, inbox, notifier>>
    BY <1>3 DEF UnsubscribeClose, WaiterMoves
  <2>2. w \in Members
    BY <2>1 DEF IInv, Membership
  <2>3. Members' = Members \ {w} /\ UNCHANGED <<Announced, inbox>>
    BY <1>1, <2>1
  <2>4. Broadcast!Leave(w)
    BY <2>2, <2>3 DEF Broadcast!Leave
  <2>. QED
    BY <1>1, <2>4 DEF Broadcast!Next
<1>4. CASE UnsubscribeDelete(w)
  <2>1. waiter[w] = "delete" /\ subscribed' = subscribed \ {w}
        /\ UNCHANGED <<closed, inbox, notifier>>
    BY <1>4 DEF UnsubscribeDelete, WaiterMoves
  <2>2. closed[w]
    BY <2>1 DEF IInv, Membership
  <2>. QED
    BY <2>1, <2>2
<1>5. CASE StartCommand(w) \/ ProcExit(w) \/ WaiterReads(w) \/ UnsubscribeLock(w)
  BY <1>5 DEF StartCommand, ProcExit, WaiterReads, UnsubscribeLock, Receive
<1>. QED
  BY <1>2, <1>3, <1>4, <1>5 DEF WaiterRuns

\* A send is a Delivery, to a member that does not hold the exit.
LEMMA SendDelivers ==
  ASSUME IInv, NEW e \in Exits, Send(e)
  PROVE  Broadcast!Next
<1>1. PICK s \in Subs : s = visiting[e]
  BY DEF Send, NotifierMoves, IInv, LockHeld, Visiting
<1>2. /\ inbox' = [inbox EXCEPT ![s] = Append(@, e)]
      /\ notifier' = [notifier EXCEPT ![e] = "sent"] /\ notifier[e] = "select"
      /\ UNCHANGED <<subscribed, closed>>
  BY <1>1 DEF Send, NotifierMoves, monitorVars
<1>3. s \in Members /\ e \in Announced
  BY <1>1, <1>2 DEF Members, Announced, IInv, Membership, NoSendOnClosed
<1>4. ~Broadcast!Holds(s, e)
  <2>1. s \notin success[e]
    BY <1>1, <1>2 DEF IInv, SentOnce
  <2>2. inbox[s] \in Seq(Exits)
    BY DEF IInv, TypeOK
  <2>3. DOMAIN inbox[s] = 1..Len(inbox[s])
    BY <2>2, LenProperties
  <2>. QED
    BY <2>1, <2>3 DEF Broadcast!Holds, IInv, SentOnce
<1>5. UNCHANGED <<Members, Announced>>
  BY <1>2 DEF Members, Announced, IInv, TypeOK
<1>6. Broadcast!Deliver(s, e)
  BY <1>2, <1>3, <1>4, <1>5 DEF Broadcast!Deliver, Members, Announced
<1>. QED
  BY <1>6 DEF Broadcast!Next

\* Of a notifier's other steps, its start is the announcement.
LEMMA NotifierStep ==
  ASSUME IInv, NEW e \in Exits, NotifierRuns(e) \/ Acquire(e)
  PROVE  Broadcast!Next \/ UNCHANGED Seen
<1>. USE DEF Members, Announced, Seen, monitorVars, chanVars, notifyVars
<1>1. notifier \in [Exits -> NotifierPhases]
  BY DEF IInv, TypeOK
<1>2. CASE Notify(e)
  <2>1. notifier[e] = "idle" /\ notifier' = [notifier EXCEPT ![e] = "snap"]
        /\ UNCHANGED <<subscribed, closed, inbox>>
    BY <1>2 DEF Notify, IInv, Fresh
  <2>2. /\ e \notin Announced /\ Announced' = Announced \cup {e}
        /\ UNCHANGED <<Members, inbox>>
    BY <1>1, <2>1
  <2>3. Broadcast!Announce(e)
    BY <2>2 DEF Broadcast!Announce
  <2>. QED
    BY <2>3 DEF Broadcast!Next
<1>3. CASE Snapshot(e) \/ TimerFires(e) \/ Timeout(e)
  BY <1>1, <1>3 DEF Snapshot, TimerFires, Timeout, NotifierMoves
<1>4. CASE Release(e) \/ EndRound(e)
  BY <1>1, <1>4 DEF Release, EndRound, NotifierMoves
<1>5. CASE Acquire(e)
  BY <1>1, <1>5 DEF Acquire, Skip, Visit, NotifierMoves
<1>. QED
  BY <1>2, <1>3, <1>4, <1>5 DEF NotifierRuns

\* The Monitor is a broadcast of exits: its runs are behaviours of
\* ExitBroadcast, whatever the rounds, the timeouts and the unsubscriptions.
THEOREM RefinesBroadcast == Safety => ImplementsBroadcast
<1>1. Init => Broadcast!Init
  BY DEF Init, Broadcast!Init, Subs
<1>2. IInv /\ [Next]_vars => [Broadcast!Next]_Seen
  <2>1. ASSUME IInv, UNCHANGED vars PROVE UNCHANGED Seen
    BY <2>1 DEF vars, monitorVars, chanVars, notifyVars, Seen, Members, Announced
  <2>2. ASSUME IInv, InitExit \/ Reap \/ NotifyWaited \/ ServiceReads
        PROVE  UNCHANGED Seen
    BY <2>2 DEF InitExit, Reap, NotifyWaited, ServiceReads, Receive, monitorVars, chanVars,
                notifyVars, Seen, Members, Announced
  <2>. QED
    BY <2>1, <2>2, WaiterStep, SendDelivers, NotifierStep DEF Next
<1>. QED
  BY <1>1, <1>2, Invariance, PTL DEF Safety, ImplementsBroadcast, Broadcast!Spec, Seen,
     Members, Announced

=============================================================================
