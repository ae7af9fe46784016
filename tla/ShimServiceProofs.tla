------------------------- MODULE ShimServiceProofs -------------------------
(***************************************************************************)
(* Proofs about ShimService, for any number of requests in any order and   *)
(* any capacity of the events channel.                                     *)
(***************************************************************************)
EXTENDS ShimService, SequenceTheorems, TLAPS

-----------------------------------------------------------------------------
(* The inductive invariant.                                                *)

\* eventSendMu is held by processExits while it sends, and by a Start from
\* the lock to the unlock.
SendLock ==
  /\ exits = "send" => sendMu = Exits
  /\ \A r \in Reqs : Op[r] = "start" /\ pc[r] \in {"procMu", "runu", "started"}
                       => sendMu = r

\* Whatever speaks of an exit of init comes after it.
Told ==
  /\ reports > 0 => guest = "gone"
  /\ exits # "recv" => guest = "gone"
  /\ exited => guest = "gone"
  /\ \A i \in 1..Len(events) : events[i] = "TaskExit" => guest = "gone"
  /\ "TaskExit" \in published => guest = "gone"

\* There is no guest before the Create, and one Create at most.
NoGuestYet ==
  \A r \in Reqs : Op[r] = "create" /\ pc[r] = "idle" => guest = "none"

\* The commands that can change the state of the process hold its mutex, and
\* what is reported of an exit comes after the state has settled.
Settled ==
  /\ \A r \in Reqs :
        /\ Op[r] \in {"start", "delete", "kill"} /\ pc[r] = "runu" => procMu = r
        /\ Op[r] = "start" /\ pc[r] = "runu" => proc = "created"
        /\ Op[r] = "delete" /\ pc[r] = "runu" => proc # "none"
        /\ Op[r] = "create" /\ pc[r] \in {"idle", "runu"} => proc = "none"
        /\ Op[r] = "create" /\ pc[r] = "insert" => proc # "none"
  /\ registered => proc # "none"
  /\ exits = "set" => proc # "none"
  /\ exits \in {"stamp", "lock", "send"} => proc \in {"stopped", "deleted"}
  /\ exited => proc \in {"stopped", "deleted"}
  /\ \A i \in 1..Len(events) : events[i] = "TaskExit" => proc \in {"stopped", "deleted"}
  /\ "TaskExit" \in published => proc \in {"stopped", "deleted"}

IInv == TypeOK /\ SendLock /\ Told /\ NoGuestYet /\ Settled

\* What a send to the channel does.
LEMMA PutEvent ==
  ASSUME TypeOK, NEW event \in Event, Put(event)
  PROVE  /\ events' \in Seq(Event) /\ Len(events') <= EventCap /\ crashed' \in BOOLEAN
         /\ \A i \in 1..Len(events') :
              events'[i] = event \/ (i \in 1..Len(events) /\ events'[i] = events[i])
<1>1. CASE closed
  BY <1>1 DEF Put, TypeOK
<1>2. CASE ~closed
  <2>1. events' = Append(events, event) /\ Len(events) < EventCap /\ crashed' = crashed
    BY <1>2 DEF Put, Room
  <2>2. /\ Len(events) \in Nat /\ Len(events') = Len(events) + 1 /\ events' \in Seq(Event)
        /\ \A i \in 1..Len(events) : events'[i] = events[i]
        /\ events'[Len(events) + 1] = event
    BY <2>1, AppendProperties, LenProperties DEF TypeOK
  <2>3. \A i \in 1..Len(events') : i \in 1..Len(events) \/ i = Len(events) + 1
    BY <2>2
  <2>. QED
    BY <2>1, <2>2, <2>3, ShimAssumption DEF TypeOK
<1>. QED
  BY <1>1, <1>2

\* What forward does: the head of the channel is published next.
LEMMA ForwardEvent ==
  ASSUME TypeOK, Forward
  PROVE  /\ events' \in Seq(Event) /\ Len(events') <= EventCap /\ published' \subseteq Event
         /\ \A i \in 1..Len(events') : i + 1 \in 1..Len(events) /\ events'[i] = events[i + 1]
         /\ 1 \in 1..Len(events) /\ published' = published \cup {events[1]}
<1>1. /\ events \in Seq(Event) /\ events # <<>> /\ events' = Tail(events)
      /\ published \subseteq Event /\ published' = published \cup {Head(events)}
  BY DEF Forward, TypeOK
<1>2. /\ Len(events) \in Nat \ {0} /\ Head(events) = events[1] /\ events[1] \in Event
      /\ events' \in Seq(Event) /\ Len(events') = Len(events) - 1
      /\ \A i \in 1..Len(events') : events'[i] = events[i + 1]
  BY <1>1, HeadTailProperties, EmptySeq, LenProperties, ElementOfSeq
<1>3. Len(events') <= EventCap
  BY <1>2, ShimAssumption DEF TypeOK
<1>. QED
  BY <1>1, <1>2, <1>3

\* The variables keep their types.
LEMMA StepTypeOK == TypeOK /\ Next => TypeOK'
<1>. SUFFICES ASSUME TypeOK, Next PROVE TypeOK'
  OBVIOUS
<1>. USE ShimAssumption DEF TypeOK, Ops, task, chans, mutex, outs
<1>1. ASSUME NEW r \in Reqs, CreateCall(r) PROVE TypeOK'
  BY <1>1 DEF CreateCall, Moves
<1>2. ASSUME NEW r \in Reqs, Shutdown(r) PROVE TypeOK'
  BY <1>2 DEF Shutdown, Moves, MayShutdown
<1>3. ASSUME NEW r \in Reqs, CreateEnds(r) PROVE TypeOK'
  <2>1. /\ proc' \in {"none", "created", "running", "stopped", "deleted"}
        /\ sigchld' \in Nat
        /\ pc' \in [Reqs -> {"idle", "runu", "insert", "sendMu", "procMu", "started",
                             "remove", "stamp", "send", "reply", "wait", "done",
                             "failed"}]
    BY <1>3 DEF CreateEnds, Moves, CommandEnds
  <2>. QED
    BY <1>3, <2>1 DEF CreateEnds
<1>4. ASSUME NEW r \in Reqs, CreateInsert(r) PROVE TypeOK'
  <2>1. registered' \in BOOLEAN /\ crashed' \in BOOLEAN
    BY <1>4 DEF CreateInsert, WriteMap
  <2>2. pc' \in [Reqs -> {"idle", "runu", "insert", "sendMu", "procMu", "started",
                         "remove", "stamp", "send", "reply", "wait", "done", "failed"}]
    BY <1>4 DEF CreateInsert, Moves
  <2>. QED
    BY <1>4, <2>1, <2>2 DEF CreateInsert
<1>5. ASSUME NEW r \in Reqs, CreateSend(r) PROVE TypeOK'
  <2>1. TypeOK /\ Put("TaskCreate") /\ "TaskCreate" \in Event
    BY <1>5 DEF CreateSend, Event
  <2>. QED
    BY <1>5, <2>1, PutEvent DEF CreateSend, Moves, TypeOK
<1>6. ASSUME NEW r \in Reqs, StartLock(r) PROVE TypeOK'
  BY <1>6 DEF StartLock, Moves
<1>7. ASSUME NEW r \in Reqs, StartCall(r) PROVE TypeOK'
  BY <1>7 DEF StartCall, Moves
<1>8. ASSUME NEW r \in Reqs, StartEnds(r) PROVE TypeOK'
  BY <1>8 DEF StartEnds, Moves, CommandEnds
<1>9. ASSUME NEW r \in Reqs, StartUnlock(r) PROVE TypeOK'
  BY <1>9 DEF StartUnlock, Moves
<1>10. ASSUME NEW r \in Reqs, DeleteCall(r) PROVE TypeOK'
  BY <1>10 DEF DeleteCall, Moves
<1>11. ASSUME NEW r \in Reqs, DeleteEnds(r) PROVE TypeOK'
  BY <1>11 DEF DeleteEnds, Moves, CommandEnds
<1>12. ASSUME NEW r \in Reqs, DeleteRemove(r) PROVE TypeOK'
  BY <1>12 DEF DeleteRemove, Moves, WriteMap
<1>13. ASSUME NEW r \in Reqs, DeleteSend(r) PROVE TypeOK'
  <2>1. TypeOK /\ Put("TaskDelete") /\ "TaskDelete" \in Event
    BY <1>13 DEF DeleteSend, Event
  <2>. QED
    BY <1>13, <2>1, PutEvent DEF DeleteSend, Moves, TypeOK
<1>14. ASSUME NEW r \in Reqs, KillCall(r) PROVE TypeOK'
  BY <1>14 DEF KillCall, Moves
<1>15. ASSUME NEW r \in Reqs, KillEnds(r) PROVE TypeOK'
  BY <1>15 DEF KillEnds, Moves, CommandEnds
<1>16. ASSUME NEW r \in Reqs, QueryCall(r) PROVE TypeOK'
  BY <1>16 DEF QueryCall, Moves
<1>17. ASSUME NEW r \in Reqs, QueryEnds(r) PROVE TypeOK'
  BY <1>17 DEF QueryEnds, Moves, CommandEnds
<1>18. ASSUME NEW r \in Reqs, WaitReturns(r) PROVE TypeOK'
  BY <1>18 DEF WaitReturns, Moves
<1>19. ASSUME NEW r \in Reqs, Find(r, "start", "sendMu") PROVE TypeOK'
  BY <1>19 DEF Find, Moves
<1>20. ASSUME NEW r \in Reqs, Find(r, "delete", "procMu") PROVE TypeOK'
  BY <1>20 DEF Find, Moves
<1>21. ASSUME NEW r \in Reqs, Find(r, "kill", "procMu") PROVE TypeOK'
  BY <1>21 DEF Find, Moves
<1>22. ASSUME NEW r \in Reqs, Find(r, "query", "procMu") PROVE TypeOK'
  BY <1>22 DEF Find, Moves
<1>23. ASSUME NEW r \in Reqs, Find(r, "wait", "wait") PROVE TypeOK'
  BY <1>23 DEF Find, Moves
<1>24. CASE ExitReceive
  BY <1>24 DEF ExitReceive, ExitsMove
<1>25. CASE ExitLookup
  BY <1>25 DEF ExitLookup, ExitsMove
<1>26. CASE ExitSet
  BY <1>26 DEF ExitSet, ExitsMove
<1>27. CASE ExitLock
  BY <1>27 DEF ExitLock, ExitsMove
<1>28. CASE ExitSend
  <2>1. TypeOK /\ Put("TaskExit") /\ "TaskExit" \in Event
    BY <1>28 DEF ExitSend, Event
  <2>. QED
    BY <1>28, <2>1, PutEvent DEF ExitSend, ExitsMove, TypeOK
<1>29. CASE Forward
  BY <1>29, ForwardEvent DEF Forward, TypeOK
<1>30. CASE Reap
  BY <1>30 DEF Reap, InitGone
<1>31. CASE GuestExit
  BY <1>31 DEF GuestExit
<1>32. ASSUME NEW r \in Reqs, StartReply(r) PROVE TypeOK'
  BY <1>32 DEF StartReply, Moves
<1>33. ASSUME NEW r \in Reqs, DeleteStamp(r) PROVE TypeOK'
  BY <1>33 DEF DeleteStamp, Moves
<1>34. ASSUME NEW r \in Reqs, DeleteReply(r) PROVE TypeOK'
  BY <1>34 DEF DeleteReply, Moves
<1>35. CASE ExitStamp
  BY <1>35 DEF ExitStamp, ExitsMove
<1>36. CASE HelperExit
  BY <1>36 DEF HelperExit
<1>. QED
  BY <1>1, <1>2, <1>3, <1>4, <1>5, <1>6, <1>7, <1>8, <1>9, <1>10, <1>11,
     <1>12, <1>13, <1>14, <1>15, <1>16, <1>17, <1>18, <1>19, <1>20, <1>21,
     <1>22, <1>23, <1>24, <1>25, <1>26, <1>27, <1>28, <1>29, <1>30, <1>31,
     <1>32, <1>33, <1>34, <1>35, <1>36
     DEF Next, Request, Handler, ProcessExits

\* The mutex is taken when it is free and released by its holder.
LEMMA StepSendLock == IInv /\ Next => SendLock'
<1>. SUFFICES ASSUME IInv, Next PROVE SendLock'
  OBVIOUS
<1>. USE ShimAssumption DEF IInv, TypeOK, SendLock, task, chans, mutex, outs
<1>1. ASSUME NEW r \in Reqs, CreateCall(r) PROVE SendLock'
  BY <1>1 DEF CreateCall, Moves
<1>2. ASSUME NEW r \in Reqs, Shutdown(r) PROVE SendLock'
  BY <1>2 DEF Shutdown, Moves, MayShutdown
<1>3. ASSUME NEW r \in Reqs, CreateEnds(r) PROVE SendLock'
  BY <1>3 DEF CreateEnds, Moves, CommandEnds
<1>4. ASSUME NEW r \in Reqs, CreateInsert(r) PROVE SendLock'
  BY <1>4 DEF CreateInsert, Moves, WriteMap
<1>5. ASSUME NEW r \in Reqs, CreateSend(r) PROVE SendLock'
  BY <1>5 DEF CreateSend, Moves, Put, Room
<1>6. ASSUME NEW r \in Reqs, StartLock(r) PROVE SendLock'
  BY <1>6 DEF StartLock, Moves
<1>7. ASSUME NEW r \in Reqs, StartCall(r) PROVE SendLock'
  BY <1>7 DEF StartCall, Moves
<1>8. ASSUME NEW r \in Reqs, StartEnds(r) PROVE SendLock'
  BY <1>8 DEF StartEnds, Moves, CommandEnds
<1>9. ASSUME NEW r \in Reqs, StartUnlock(r) PROVE SendLock'
  BY <1>9 DEF StartUnlock, Moves
<1>10. ASSUME NEW r \in Reqs, DeleteCall(r) PROVE SendLock'
  BY <1>10 DEF DeleteCall, Moves
<1>11. ASSUME NEW r \in Reqs, DeleteEnds(r) PROVE SendLock'
  BY <1>11 DEF DeleteEnds, Moves, CommandEnds
<1>12. ASSUME NEW r \in Reqs, DeleteRemove(r) PROVE SendLock'
  BY <1>12 DEF DeleteRemove, Moves, WriteMap
<1>13. ASSUME NEW r \in Reqs, DeleteSend(r) PROVE SendLock'
  BY <1>13 DEF DeleteSend, Moves, Put, Room
<1>14. ASSUME NEW r \in Reqs, KillCall(r) PROVE SendLock'
  BY <1>14 DEF KillCall, Moves
<1>15. ASSUME NEW r \in Reqs, KillEnds(r) PROVE SendLock'
  BY <1>15 DEF KillEnds, Moves, CommandEnds
<1>16. ASSUME NEW r \in Reqs, QueryCall(r) PROVE SendLock'
  BY <1>16 DEF QueryCall, Moves
<1>17. ASSUME NEW r \in Reqs, QueryEnds(r) PROVE SendLock'
  BY <1>17 DEF QueryEnds, Moves, CommandEnds
<1>18. ASSUME NEW r \in Reqs, WaitReturns(r) PROVE SendLock'
  BY <1>18 DEF WaitReturns, Moves
<1>19. ASSUME NEW r \in Reqs, Find(r, "start", "sendMu") PROVE SendLock'
  BY <1>19 DEF Find, Moves
<1>20. ASSUME NEW r \in Reqs, Find(r, "delete", "procMu") PROVE SendLock'
  BY <1>20 DEF Find, Moves
<1>21. ASSUME NEW r \in Reqs, Find(r, "kill", "procMu") PROVE SendLock'
  BY <1>21 DEF Find, Moves
<1>22. ASSUME NEW r \in Reqs, Find(r, "query", "procMu") PROVE SendLock'
  BY <1>22 DEF Find, Moves
<1>23. ASSUME NEW r \in Reqs, Find(r, "wait", "wait") PROVE SendLock'
  BY <1>23 DEF Find, Moves
<1>24. CASE ExitReceive
  BY <1>24 DEF ExitReceive, ExitsMove
<1>25. CASE ExitLookup
  BY <1>25 DEF ExitLookup, ExitsMove
<1>26. CASE ExitSet
  BY <1>26 DEF ExitSet, ExitsMove
<1>27. CASE ExitLock
  BY <1>27 DEF ExitLock, ExitsMove
<1>28. CASE ExitSend
  BY <1>28 DEF ExitSend, ExitsMove, Put, Room
<1>29. CASE Forward
  BY <1>29 DEF Forward
<1>30. CASE Reap
  BY <1>30 DEF Reap, InitGone
<1>31. CASE GuestExit
  BY <1>31 DEF GuestExit
<1>32. ASSUME NEW r \in Reqs, StartReply(r) PROVE SendLock'
  BY <1>32 DEF StartReply, Moves
<1>33. ASSUME NEW r \in Reqs, DeleteStamp(r) PROVE SendLock'
  BY <1>33 DEF DeleteStamp, Moves
<1>34. ASSUME NEW r \in Reqs, DeleteReply(r) PROVE SendLock'
  BY <1>34 DEF DeleteReply, Moves
<1>35. CASE ExitStamp
  BY <1>35 DEF ExitStamp, ExitsMove
<1>36. CASE HelperExit
  BY <1>36 DEF HelperExit
<1>. QED
  BY <1>1, <1>2, <1>3, <1>4, <1>5, <1>6, <1>7, <1>8, <1>9, <1>10, <1>11,
     <1>12, <1>13, <1>14, <1>15, <1>16, <1>17, <1>18, <1>19, <1>20, <1>21,
     <1>22, <1>23, <1>24, <1>25, <1>26, <1>27, <1>28, <1>29, <1>30, <1>31,
     <1>32, <1>33, <1>34, <1>35, <1>36
     DEF Next, Request, Handler, ProcessExits

\* Every report, event and end of a Wait goes back to a guest found gone.
LEMMA StepTold == IInv /\ Next => Told'
<1>. SUFFICES ASSUME IInv, Next PROVE Told'
  OBVIOUS
<1>. USE ShimAssumption DEF IInv, TypeOK, Told, task, chans, mutex, outs
<1>1. ASSUME NEW r \in Reqs, CreateCall(r) PROVE Told'
  <2>1. guest = "none"
    BY <1>1 DEF CreateCall, Moves, NoGuestYet
  <2>. QED
    BY <1>1, <2>1 DEF CreateCall, Moves
<1>2. ASSUME NEW r \in Reqs, Shutdown(r) PROVE Told'
  BY <1>2 DEF Shutdown, Moves, MayShutdown
<1>3. ASSUME NEW r \in Reqs, CreateEnds(r) PROVE Told'
  BY <1>3 DEF CreateEnds, Moves, CommandEnds
<1>4. ASSUME NEW r \in Reqs, CreateInsert(r) PROVE Told'
  BY <1>4 DEF CreateInsert, Moves, WriteMap
<1>5. ASSUME NEW r \in Reqs, CreateSend(r) PROVE Told'
  <2>1. TypeOK /\ Put("TaskCreate") /\ "TaskCreate" \in Event /\ UNCHANGED <<published, guest, reports, exited>>
    BY <1>5 DEF CreateSend, Event
  <2>2. \A i \in 1..Len(events') : events'[i] = "TaskCreate" \/ (i \in 1..Len(events) /\ events'[i] = events[i])
    BY <2>1, PutEvent
  <2>. QED
    BY <1>5, <2>1, <2>2 DEF CreateSend, ExitsMove
<1>6. ASSUME NEW r \in Reqs, StartLock(r) PROVE Told'
  BY <1>6 DEF StartLock, Moves
<1>7. ASSUME NEW r \in Reqs, StartCall(r) PROVE Told'
  BY <1>7 DEF StartCall, Moves
<1>8. ASSUME NEW r \in Reqs, StartEnds(r) PROVE Told'
  BY <1>8 DEF StartEnds, Moves, CommandEnds
<1>9. ASSUME NEW r \in Reqs, StartUnlock(r) PROVE Told'
  BY <1>9 DEF StartUnlock, Moves
<1>10. ASSUME NEW r \in Reqs, DeleteCall(r) PROVE Told'
  BY <1>10 DEF DeleteCall, Moves
<1>11. ASSUME NEW r \in Reqs, DeleteEnds(r) PROVE Told'
  BY <1>11 DEF DeleteEnds, Moves, CommandEnds
<1>12. ASSUME NEW r \in Reqs, DeleteRemove(r) PROVE Told'
  BY <1>12 DEF DeleteRemove, Moves, WriteMap
<1>13. ASSUME NEW r \in Reqs, DeleteSend(r) PROVE Told'
  <2>1. TypeOK /\ Put("TaskDelete") /\ "TaskDelete" \in Event /\ UNCHANGED <<published, guest, reports, exited>>
    BY <1>13 DEF DeleteSend, Event
  <2>2. \A i \in 1..Len(events') : events'[i] = "TaskDelete" \/ (i \in 1..Len(events) /\ events'[i] = events[i])
    BY <2>1, PutEvent
  <2>. QED
    BY <1>13, <2>1, <2>2 DEF DeleteSend, ExitsMove
<1>14. ASSUME NEW r \in Reqs, KillCall(r) PROVE Told'
  BY <1>14 DEF KillCall, Moves
<1>15. ASSUME NEW r \in Reqs, KillEnds(r) PROVE Told'
  BY <1>15 DEF KillEnds, Moves, CommandEnds
<1>16. ASSUME NEW r \in Reqs, QueryCall(r) PROVE Told'
  BY <1>16 DEF QueryCall, Moves
<1>17. ASSUME NEW r \in Reqs, QueryEnds(r) PROVE Told'
  BY <1>17 DEF QueryEnds, Moves, CommandEnds
<1>18. ASSUME NEW r \in Reqs, WaitReturns(r) PROVE Told'
  BY <1>18 DEF WaitReturns, Moves
<1>19. ASSUME NEW r \in Reqs, Find(r, "start", "sendMu") PROVE Told'
  BY <1>19 DEF Find, Moves
<1>20. ASSUME NEW r \in Reqs, Find(r, "delete", "procMu") PROVE Told'
  BY <1>20 DEF Find, Moves
<1>21. ASSUME NEW r \in Reqs, Find(r, "kill", "procMu") PROVE Told'
  BY <1>21 DEF Find, Moves
<1>22. ASSUME NEW r \in Reqs, Find(r, "query", "procMu") PROVE Told'
  BY <1>22 DEF Find, Moves
<1>23. ASSUME NEW r \in Reqs, Find(r, "wait", "wait") PROVE Told'
  BY <1>23 DEF Find, Moves
<1>24. CASE ExitReceive
  BY <1>24 DEF ExitReceive, ExitsMove
<1>25. CASE ExitLookup
  BY <1>25 DEF ExitLookup, ExitsMove
<1>26. CASE ExitSet
  BY <1>26 DEF ExitSet, ExitsMove
<1>27. CASE ExitLock
  BY <1>27 DEF ExitLock, ExitsMove
<1>28. CASE ExitSend
  <2>1. TypeOK /\ Put("TaskExit") /\ "TaskExit" \in Event /\ UNCHANGED <<published, guest, reports, exited>>
    BY <1>28 DEF ExitSend, Event
  <2>2. \A i \in 1..Len(events') : events'[i] = "TaskExit" \/ (i \in 1..Len(events) /\ events'[i] = events[i])
    BY <2>1, PutEvent
  <2>. QED
    BY <1>28, <2>1, <2>2 DEF ExitSend, ExitsMove
<1>29. CASE Forward
  <2>1. TypeOK /\ UNCHANGED <<guest, reports, exited, exits>>
    BY <1>29 DEF Forward
  <2>2. \A i \in 1..Len(events') : i + 1 \in 1..Len(events) /\ events'[i] = events[i + 1]
    BY <1>29, <2>1, ForwardEvent
  <2>3. 1 \in 1..Len(events) /\ published' = published \cup {events[1]}
    BY <1>29, <2>1, ForwardEvent
  <2>4. \A i \in 1..Len(events') : events'[i] = "TaskExit" => guest' = "gone"
    BY <2>1, <2>2
  <2>5. "TaskExit" \in published' => guest' = "gone"
    BY <2>1, <2>3
  <2>. QED
    BY <2>1, <2>4, <2>5
<1>30. CASE Reap
  BY <1>30 DEF Reap, InitGone
<1>31. CASE GuestExit
  BY <1>31 DEF GuestExit
<1>32. ASSUME NEW r \in Reqs, StartReply(r) PROVE Told'
  BY <1>32 DEF StartReply, Moves
<1>33. ASSUME NEW r \in Reqs, DeleteStamp(r) PROVE Told'
  BY <1>33 DEF DeleteStamp, Moves
<1>34. ASSUME NEW r \in Reqs, DeleteReply(r) PROVE Told'
  BY <1>34 DEF DeleteReply, Moves
<1>35. CASE ExitStamp
  BY <1>35 DEF ExitStamp, ExitsMove
<1>36. CASE HelperExit
  BY <1>36 DEF HelperExit
<1>. QED
  BY <1>1, <1>2, <1>3, <1>4, <1>5, <1>6, <1>7, <1>8, <1>9, <1>10, <1>11,
     <1>12, <1>13, <1>14, <1>15, <1>16, <1>17, <1>18, <1>19, <1>20, <1>21,
     <1>22, <1>23, <1>24, <1>25, <1>26, <1>27, <1>28, <1>29, <1>30, <1>31,
     <1>32, <1>33, <1>34, <1>35, <1>36
     DEF Next, Request, Handler, ProcessExits

\* The guest comes with the only Create.
LEMMA StepNoGuestYet == IInv /\ Next => NoGuestYet'
<1>. SUFFICES ASSUME IInv, Next PROVE NoGuestYet'
  OBVIOUS
<1>. USE ShimAssumption DEF IInv, TypeOK, NoGuestYet, task, chans, mutex, outs
<1>1. ASSUME NEW r \in Reqs, CreateCall(r) PROVE NoGuestYet'
  BY <1>1 DEF CreateCall, Moves
<1>2. ASSUME NEW r \in Reqs, Shutdown(r) PROVE NoGuestYet'
  BY <1>2 DEF Shutdown, Moves, MayShutdown
<1>3. ASSUME NEW r \in Reqs, CreateEnds(r) PROVE NoGuestYet'
  BY <1>3 DEF CreateEnds, Moves, CommandEnds
<1>4. ASSUME NEW r \in Reqs, CreateInsert(r) PROVE NoGuestYet'
  BY <1>4 DEF CreateInsert, Moves, WriteMap
<1>5. ASSUME NEW r \in Reqs, CreateSend(r) PROVE NoGuestYet'
  BY <1>5 DEF CreateSend, Moves, Put, Room
<1>6. ASSUME NEW r \in Reqs, StartLock(r) PROVE NoGuestYet'
  BY <1>6 DEF StartLock, Moves
<1>7. ASSUME NEW r \in Reqs, StartCall(r) PROVE NoGuestYet'
  BY <1>7 DEF StartCall, Moves
<1>8. ASSUME NEW r \in Reqs, StartEnds(r) PROVE NoGuestYet'
  BY <1>8 DEF StartEnds, Moves, CommandEnds
<1>9. ASSUME NEW r \in Reqs, StartUnlock(r) PROVE NoGuestYet'
  BY <1>9 DEF StartUnlock, Moves
<1>10. ASSUME NEW r \in Reqs, DeleteCall(r) PROVE NoGuestYet'
  BY <1>10 DEF DeleteCall, Moves
<1>11. ASSUME NEW r \in Reqs, DeleteEnds(r) PROVE NoGuestYet'
  BY <1>11 DEF DeleteEnds, Moves, CommandEnds
<1>12. ASSUME NEW r \in Reqs, DeleteRemove(r) PROVE NoGuestYet'
  BY <1>12 DEF DeleteRemove, Moves, WriteMap
<1>13. ASSUME NEW r \in Reqs, DeleteSend(r) PROVE NoGuestYet'
  BY <1>13 DEF DeleteSend, Moves, Put, Room
<1>14. ASSUME NEW r \in Reqs, KillCall(r) PROVE NoGuestYet'
  BY <1>14 DEF KillCall, Moves
<1>15. ASSUME NEW r \in Reqs, KillEnds(r) PROVE NoGuestYet'
  BY <1>15 DEF KillEnds, Moves, CommandEnds
<1>16. ASSUME NEW r \in Reqs, QueryCall(r) PROVE NoGuestYet'
  BY <1>16 DEF QueryCall, Moves
<1>17. ASSUME NEW r \in Reqs, QueryEnds(r) PROVE NoGuestYet'
  BY <1>17 DEF QueryEnds, Moves, CommandEnds
<1>18. ASSUME NEW r \in Reqs, WaitReturns(r) PROVE NoGuestYet'
  BY <1>18 DEF WaitReturns, Moves
<1>19. ASSUME NEW r \in Reqs, Find(r, "start", "sendMu") PROVE NoGuestYet'
  BY <1>19 DEF Find, Moves
<1>20. ASSUME NEW r \in Reqs, Find(r, "delete", "procMu") PROVE NoGuestYet'
  BY <1>20 DEF Find, Moves
<1>21. ASSUME NEW r \in Reqs, Find(r, "kill", "procMu") PROVE NoGuestYet'
  BY <1>21 DEF Find, Moves
<1>22. ASSUME NEW r \in Reqs, Find(r, "query", "procMu") PROVE NoGuestYet'
  BY <1>22 DEF Find, Moves
<1>23. ASSUME NEW r \in Reqs, Find(r, "wait", "wait") PROVE NoGuestYet'
  BY <1>23 DEF Find, Moves
<1>24. CASE ExitReceive
  BY <1>24 DEF ExitReceive, ExitsMove
<1>25. CASE ExitLookup
  BY <1>25 DEF ExitLookup, ExitsMove
<1>26. CASE ExitSet
  BY <1>26 DEF ExitSet, ExitsMove
<1>27. CASE ExitLock
  BY <1>27 DEF ExitLock, ExitsMove
<1>28. CASE ExitSend
  BY <1>28 DEF ExitSend, ExitsMove, Put, Room
<1>29. CASE Forward
  BY <1>29 DEF Forward
<1>30. CASE Reap
  BY <1>30 DEF Reap, InitGone
<1>31. CASE GuestExit
  BY <1>31 DEF GuestExit
<1>32. ASSUME NEW r \in Reqs, StartReply(r) PROVE NoGuestYet'
  BY <1>32 DEF StartReply, Moves
<1>33. ASSUME NEW r \in Reqs, DeleteStamp(r) PROVE NoGuestYet'
  BY <1>33 DEF DeleteStamp, Moves
<1>34. ASSUME NEW r \in Reqs, DeleteReply(r) PROVE NoGuestYet'
  BY <1>34 DEF DeleteReply, Moves
<1>35. CASE ExitStamp
  BY <1>35 DEF ExitStamp, ExitsMove
<1>36. CASE HelperExit
  BY <1>36 DEF HelperExit
<1>. QED
  BY <1>1, <1>2, <1>3, <1>4, <1>5, <1>6, <1>7, <1>8, <1>9, <1>10, <1>11,
     <1>12, <1>13, <1>14, <1>15, <1>16, <1>17, <1>18, <1>19, <1>20, <1>21,
     <1>22, <1>23, <1>24, <1>25, <1>26, <1>27, <1>28, <1>29, <1>30, <1>31,
     <1>32, <1>33, <1>34, <1>35, <1>36
     DEF Next, Request, Handler, ProcessExits

\* No command that is under way sets the process back to created or running
\* once its exit is recorded: it holds the mutex SetExited waits for.
LEMMA StepSettled == IInv /\ Next => Settled'
<1>. SUFFICES ASSUME IInv, Next PROVE Settled'
  OBVIOUS
<1>. USE ShimAssumption DEF IInv, TypeOK, Settled, task, chans, mutex, outs
<1>1. ASSUME NEW r \in Reqs, CreateCall(r) PROVE Settled'
  BY <1>1 DEF CreateCall, Moves
<1>2. ASSUME NEW r \in Reqs, Shutdown(r) PROVE Settled'
  BY <1>2 DEF Shutdown, Moves, MayShutdown
<1>3. ASSUME NEW r \in Reqs, CreateEnds(r) PROVE Settled'
  BY <1>3 DEF CreateEnds, Moves, CommandEnds
<1>4. ASSUME NEW r \in Reqs, CreateInsert(r) PROVE Settled'
  BY <1>4 DEF CreateInsert, Moves, WriteMap
<1>5. ASSUME NEW r \in Reqs, CreateSend(r) PROVE Settled'
  <2>1. TypeOK /\ Put("TaskCreate") /\ "TaskCreate" \in Event /\ UNCHANGED <<published, proc, exited, registered, procMu>>
    BY <1>5 DEF CreateSend, Event
  <2>2. \A i \in 1..Len(events') : events'[i] = "TaskCreate" \/ (i \in 1..Len(events) /\ events'[i] = events[i])
    BY <2>1, PutEvent
  <2>3. \A i \in 1..Len(events') : events'[i] = "TaskExit" => proc' \in {"stopped", "deleted"}
    BY <2>1, <2>2
  <2>4. /\ \A q \in Reqs : q # r => pc'[q] = pc[q]
        /\ pc'[r] = "done" /\ exits' = exits
    BY <1>5 DEF CreateSend, Moves
  <2>. QED
    BY <2>1, <2>3, <2>4
<1>6. ASSUME NEW r \in Reqs, StartLock(r) PROVE Settled'
  BY <1>6 DEF StartLock, Moves
<1>7. ASSUME NEW r \in Reqs, StartCall(r) PROVE Settled'
  BY <1>7 DEF StartCall, Moves
<1>8. ASSUME NEW r \in Reqs, StartEnds(r) PROVE Settled'
  BY <1>8 DEF StartEnds, Moves, CommandEnds
<1>9. ASSUME NEW r \in Reqs, StartUnlock(r) PROVE Settled'
  BY <1>9 DEF StartUnlock, Moves
<1>10. ASSUME NEW r \in Reqs, DeleteCall(r) PROVE Settled'
  BY <1>10 DEF DeleteCall, Moves
<1>11. ASSUME NEW r \in Reqs, DeleteEnds(r) PROVE Settled'
  <2>1. procMu = r /\ Op[r] = "delete" /\ proc # "none"
    BY <1>11 DEF DeleteEnds, Moves
  <2>2. \A q \in Reqs : q # r => pc'[q] = pc[q]
    BY <1>11 DEF DeleteEnds, Moves
  <2>3. pc'[r] \in {"remove", "failed"} /\ proc' \in {proc, "deleted"}
    BY <1>11 DEF DeleteEnds, Moves
  <2>4. UNCHANGED <<registered, exited, exits, events, published>> /\ procMu' = None
    BY <1>11 DEF DeleteEnds
  <2>5. \A q \in Reqs : pc[q] = "runu" /\ q # r => Op[q] \notin {"start", "delete", "kill"}
    BY <2>1
  <2>6. proc' # "none" /\ (proc \in {"stopped", "deleted"} => proc' \in {"stopped", "deleted"})
    BY <2>1, <2>3
  <2>7. \A q \in Reqs : Op[q] = "create" => pc[q] \notin {"idle", "runu"}
    BY <2>1
  <2>. QED
    BY <2>1, <2>2, <2>3, <2>4, <2>5, <2>6, <2>7
<1>12. ASSUME NEW r \in Reqs, DeleteRemove(r) PROVE Settled'
  BY <1>12 DEF DeleteRemove, Moves, WriteMap
<1>13. ASSUME NEW r \in Reqs, DeleteSend(r) PROVE Settled'
  <2>1. TypeOK /\ Put("TaskDelete") /\ "TaskDelete" \in Event /\ UNCHANGED <<published, proc, exited, registered, procMu>>
    BY <1>13 DEF DeleteSend, Event
  <2>2. \A i \in 1..Len(events') : events'[i] = "TaskDelete" \/ (i \in 1..Len(events) /\ events'[i] = events[i])
    BY <2>1, PutEvent
  <2>3. \A i \in 1..Len(events') : events'[i] = "TaskExit" => proc' \in {"stopped", "deleted"}
    BY <2>1, <2>2
  <2>4. /\ \A q \in Reqs : q # r => pc'[q] = pc[q]
        /\ pc'[r] = "reply" /\ exits' = exits
    BY <1>13 DEF DeleteSend, Moves
  <2>. QED
    BY <2>1, <2>3, <2>4
<1>14. ASSUME NEW r \in Reqs, KillCall(r) PROVE Settled'
  BY <1>14 DEF KillCall, Moves
<1>15. ASSUME NEW r \in Reqs, KillEnds(r) PROVE Settled'
  BY <1>15 DEF KillEnds, Moves, CommandEnds
<1>16. ASSUME NEW r \in Reqs, QueryCall(r) PROVE Settled'
  BY <1>16 DEF QueryCall, Moves
<1>17. ASSUME NEW r \in Reqs, QueryEnds(r) PROVE Settled'
  BY <1>17 DEF QueryEnds, Moves, CommandEnds
<1>18. ASSUME NEW r \in Reqs, WaitReturns(r) PROVE Settled'
  BY <1>18 DEF WaitReturns, Moves
<1>19. ASSUME NEW r \in Reqs, Find(r, "start", "sendMu") PROVE Settled'
  BY <1>19 DEF Find, Moves
<1>20. ASSUME NEW r \in Reqs, Find(r, "delete", "procMu") PROVE Settled'
  BY <1>20 DEF Find, Moves
<1>21. ASSUME NEW r \in Reqs, Find(r, "kill", "procMu") PROVE Settled'
  BY <1>21 DEF Find, Moves
<1>22. ASSUME NEW r \in Reqs, Find(r, "query", "procMu") PROVE Settled'
  BY <1>22 DEF Find, Moves
<1>23. ASSUME NEW r \in Reqs, Find(r, "wait", "wait") PROVE Settled'
  BY <1>23 DEF Find, Moves
<1>24. CASE ExitReceive
  BY <1>24 DEF ExitReceive, ExitsMove
<1>25. CASE ExitLookup
  BY <1>25 DEF ExitLookup, ExitsMove
<1>26. CASE ExitSet
  BY <1>26 DEF ExitSet, ExitsMove
<1>27. CASE ExitLock
  BY <1>27 DEF ExitLock, ExitsMove
<1>28. CASE ExitSend
  <2>1. TypeOK /\ Put("TaskExit") /\ "TaskExit" \in Event /\ UNCHANGED <<published, proc, exited, registered, procMu>>
    BY <1>28 DEF ExitSend, Event
  <2>2. \A i \in 1..Len(events') : events'[i] = "TaskExit" \/ (i \in 1..Len(events) /\ events'[i] = events[i])
    BY <2>1, PutEvent
  <2>. QED
    BY <1>28, <2>1, <2>2 DEF ExitSend, ExitsMove
<1>29. CASE Forward
  <2>1. TypeOK /\ UNCHANGED <<registered, proc, exited, exits, procMu, pc>>
    BY <1>29 DEF Forward
  <2>2. /\ \A i \in 1..Len(events') : i + 1 \in 1..Len(events) /\ events'[i] = events[i + 1]
        /\ 1 \in 1..Len(events) /\ published' = published \cup {events[1]}
    BY <1>29, <2>1, ForwardEvent
  <2>3. \A i \in 1..Len(events') : events'[i] = "TaskExit" => proc' \in {"stopped", "deleted"}
    BY <2>1, <2>2
  <2>4. "TaskExit" \in published' => proc' \in {"stopped", "deleted"}
    BY <2>1, <2>2
  <2>. QED
    BY <2>1, <2>3, <2>4
<1>30. CASE Reap
  BY <1>30 DEF Reap, InitGone
<1>31. CASE GuestExit
  BY <1>31 DEF GuestExit
<1>32. ASSUME NEW r \in Reqs, StartReply(r) PROVE Settled'
  BY <1>32 DEF StartReply, Moves
<1>33. ASSUME NEW r \in Reqs, DeleteStamp(r) PROVE Settled'
  BY <1>33 DEF DeleteStamp, Moves
<1>34. ASSUME NEW r \in Reqs, DeleteReply(r) PROVE Settled'
  BY <1>34 DEF DeleteReply, Moves
<1>35. CASE ExitStamp
  BY <1>35 DEF ExitStamp, ExitsMove
<1>36. CASE HelperExit
  BY <1>36 DEF HelperExit
<1>. QED
  BY <1>1, <1>2, <1>3, <1>4, <1>5, <1>6, <1>7, <1>8, <1>9, <1>10, <1>11,
     <1>12, <1>13, <1>14, <1>15, <1>16, <1>17, <1>18, <1>19, <1>20, <1>21,
     <1>22, <1>23, <1>24, <1>25, <1>26, <1>27, <1>28, <1>29, <1>30, <1>31,
     <1>32, <1>33, <1>34, <1>35, <1>36
     DEF Next, Request, Handler, ProcessExits

\* Initially nobody has asked for anything.
LEMMA InitIInv == Init => IInv
<1>. SUFFICES ASSUME Init PROVE IInv
  OBVIOUS
<1>. USE ShimAssumption DEF Init
<1>1. TypeOK
  <2>1. <<>> \in Seq(Event) /\ Len(<<>>) = 0
    BY EmptySeq
  <2>2. events \in Seq(Event) /\ Len(events) <= EventCap /\ published \subseteq Event
    BY <2>1
  <2>3. pc \in [Reqs -> {"idle"}]
    OBVIOUS
  <2>. QED
    BY <2>2, <2>3 DEF TypeOK
<1>2. SendLock /\ Told /\ NoGuestYet /\ Settled
  BY EmptySeq DEF SendLock, Told, NoGuestYet, Settled
<1>. QED
  BY <1>1, <1>2 DEF IInv

\* Every step preserves the inductive invariant, and a stutter does.
LEMMA StepIInv == IInv /\ [Next]_vars => IInv'
<1>1. IInv /\ Next => IInv'
  BY StepTypeOK, StepSendLock, StepTold, StepNoGuestYet, StepSettled DEF IInv
<1>2. IInv /\ UNCHANGED vars => IInv'
  BY DEF IInv, TypeOK, SendLock, Told, NoGuestYet, Settled, vars, task, chans, mutex, outs
<1>. QED
  BY <1>1, <1>2

-----------------------------------------------------------------------------
(* The theorems.                                                           *)

\* The inductive invariant holds whatever containerd asks for and when.
THEOREM Invariance == Safety => []IInv
  BY InitIInv, StepIInv, PTL DEF Safety

\* Types, and the events channel never holds more than its capacity.
THEOREM TypeCorrect == Safety => []TypeOK
<1>1. IInv => TypeOK
  BY DEF IInv
<1>. QED
  BY <1>1, Invariance, PTL

\* Neither an event nor Wait reports an exit of a guest that lives.
THEOREM ExitsAreTrue == Safety => []ExitTruth
<1>1. IInv => ExitTruth
  <2>. SUFFICES ASSUME IInv PROVE ExitTruth
    OBVIOUS
  <2>1. DOMAIN events = 1..Len(events)
    BY LenProperties DEF IInv, TypeOK
  <2>. QED
    BY <2>1 DEF IInv, Told, ExitTruth, Sent
<1>. QED
  BY <1>1, Invariance, PTL

\* Once an exit is on its way to containerd, the process is never again created
\* or running, so no State answers that it is.
THEOREM StateIsTrue == Safety => []StateAfterExit
<1>1. IInv => StateAfterExit
  <2>. SUFFICES ASSUME IInv PROVE StateAfterExit
    OBVIOUS
  <2>1. DOMAIN events = 1..Len(events)
    BY LenProperties DEF IInv, TypeOK
  <2>. QED
    BY <2>1 DEF IInv, Settled, StateAfterExit, Sent
<1>. QED
  BY <1>1, Invariance, PTL
=============================================================================
