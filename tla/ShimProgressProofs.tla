------------------------- MODULE ShimProgressProofs -------------------------
(***************************************************************************)
(* Why the shim gets on, as far as safety goes, and that it is the task of *)
(* module Task: who holds a mutex can move, the end of a started guest is  *)
(* never forgotten, and an exit on record is announced.  For any requests  *)
(* in any order and any capacity of the events channel.                    *)
(***************************************************************************)
EXTENDS ShimServiceProofs

-----------------------------------------------------------------------------
(* The inductive invariant, on top of IInv of ShimServiceProofs.           *)

\* The mutex of init is held by a handler that runs a command.
Holders ==
  /\ HoldersMove
  /\ procMu # None => Op[procMu] \in {"start", "delete", "kill", "query"}

\* A Start has found the container in the map, and a Delete that takes it out
\* has deleted the process before: a process that may still exit is in the
\* map, or is about to be put there by its Create.
Mapped ==
  /\ \A r, q \in Reqs :
       Op[r] = "start" /\ pc[r] \notin {"idle", "failed"} /\ Op[q] = "create"
         => pc[q] \in {"send", "done"}
  /\ \A q \in Reqs : registered /\ Op[q] = "create" => pc[q] \in {"send", "done"}
  /\ \A r \in Reqs :
       Op[r] = "delete" /\ pc[r] = "runu" => proc \in {"created", "stopped"}
  /\ \A r \in Reqs : Op[r] = "delete" /\ pc[r] = "remove" => proc = "deleted"
  /\ \A q \in Reqs : Op[q] = "create" /\ pc[q] \notin {"idle", "failed"} => guest # "none"
  /\ proc \in {"created", "running", "stopped"}
       => registered \/ \E q \in Reqs : Op[q] = "create" /\ pc[q] = "insert"

\* From the end of the command `runu start` on, the end of the guest is on
\* record or about to be, and what is on record is announced or about to be.
OnRecord ==
  /\ \A r \in Reqs : Op[r] = "start" /\ pc[r] \in {"started", "reply", "done"}
                       => proc = "running" \/ exited
  /\ \A r \in Reqs :
       Op[r] = "start" /\ pc[r] \in {"started", "reply", "done"} /\ guest = "gone" /\ ~exited
         => sigchld > 0 \/ reports > 0 \/ exits \in {"range", "set"}
  /\ ExitAnnounced

PInv == IInv /\ Holders /\ Mapped /\ OnRecord

\* What was sent stays sent: forward takes an event from the channel and
\* publishes it in one go.
LEMMA SentStays ==
  ASSUME TypeOK, Next, NEW event \in Event, Sent(event)
  PROVE  Sent(event)'
<1>1. /\ DOMAIN events = 1..Len(events) /\ Len(events) \in Nat
      /\ events \in Seq(Event)
  BY LenProperties DEF TypeOK
<1>2. CASE UNCHANGED <<events, published>>
  BY <1>2 DEF Sent
<1>3. ASSUME NEW e \in Event, Put(e), published' = published PROVE Sent(event)'
  <2>1. CASE events' = events
    BY <1>3, <2>1 DEF Sent
  <2>2. CASE events' = Append(events, e)
    <3>1. /\ Len(events') = Len(events) + 1
          /\ \A i \in 1..Len(events) : events'[i] = events[i]
          /\ DOMAIN events' = 1..Len(events')
      BY <1>1, <2>2, AppendProperties, LenProperties
    <3>. QED
      BY <1>1, <1>3, <3>1 DEF Sent
  <2>. QED
    BY <1>3, <2>1, <2>2 DEF Put
<1>4. CASE Forward
  <2>1. /\ events # <<>> /\ events' = Tail(events)
        /\ published' = published \cup {events[1]}
    BY <1>4, ForwardEvent DEF Forward
  <2>2. /\ Len(events') = Len(events) - 1
        /\ \A i \in 1..Len(events') : events'[i] = events[i + 1]
        /\ events' \in Seq(Event)
    BY <1>1, <2>1, HeadTailProperties, EmptySeq, LenProperties
  <2>3. DOMAIN events' = 1..Len(events')
    BY <2>2, LenProperties
  <2>4. ASSUME NEW i \in 1..Len(events), events[i] = event PROVE Sent(event)'
    <3>1. CASE i = 1
      BY <2>1, <2>4, <3>1 DEF Sent
    <3>2. CASE i # 1
      <4>1. i - 1 \in 1..Len(events') /\ events'[i - 1] = event
        BY <1>1, <2>2, <2>4, <3>2
      <4>. QED
        BY <2>3, <4>1 DEF Sent
    <3>. QED
      BY <3>1, <3>2
  <2>. QED
    BY <1>1, <2>1, <2>4 DEF Sent
<1>5. ASSUME NEW r \in Reqs, CreateSend(r) PROVE Sent(event)'
  BY <1>3, <1>5 DEF CreateSend, Event
<1>6. ASSUME NEW r \in Reqs, DeleteSend(r) PROVE Sent(event)'
  BY <1>3, <1>6 DEF DeleteSend, Event
<1>7. CASE ExitSend
  BY <1>3, <1>7 DEF ExitSend, Event
<1>. QED
  BY <1>2, <1>4, <1>5, <1>6, <1>7
     DEF Next, Request, Handler, ProcessExits, outs, CreateCall, Shutdown,
         CreateEnds, CreateInsert, StartLock, StartCall, StartEnds, StartUnlock,
         StartReply, DeleteCall, DeleteEnds, DeleteRemove, DeleteStamp,
         DeleteReply, KillCall, KillEnds, QueryCall, QueryEnds, WaitReturns,
         Find, ExitReceive, ExitLookup, ExitSet, ExitStamp, ExitLock, Reap,
         GuestExit, HelperExit

\* A send that takes place leaves its event in the channel.
LEMMA PutSends ==
  ASSUME TypeOK, NEW event \in Event, Put(event), ~closed
  PROVE  Sent(event)' /\ crashed' = crashed
<1>1. events \in Seq(Event) /\ Len(events) \in Nat
  BY LenProperties DEF TypeOK
<1>2. events' = Append(events, event) /\ crashed' = crashed
  BY DEF Put
<1>3. /\ DOMAIN events' = 1..Len(events') /\ Len(events') = Len(events) + 1
      /\ events'[Len(events) + 1] = event
  BY <1>1, <1>2, AppendProperties, LenProperties
<1>4. Len(events) + 1 \in DOMAIN events'
  BY <1>1, <1>3
<1>. QED
  BY <1>2, <1>3, <1>4 DEF Sent

\* A mutex is released by the step that ends what it was taken for.
LEMMA StepHolders == IInv /\ Holders /\ Next => Holders'
<1>. SUFFICES ASSUME IInv /\ Holders, Next PROVE Holders'
  OBVIOUS
<1>. USE ShimAssumption DEF IInv, TypeOK, SendLock,
         Settled, Holders, HoldersMove, task, chans, mutex, outs
<1>1. ASSUME NEW r \in Reqs, CreateCall(r) PROVE Holders'
  BY <1>1 DEF CreateCall, Moves
<1>2. ASSUME NEW r \in Reqs, Shutdown(r) PROVE Holders'
  BY <1>2 DEF Shutdown, Moves, MayShutdown
<1>3. ASSUME NEW r \in Reqs, CreateEnds(r) PROVE Holders'
  BY <1>3 DEF CreateEnds, Moves, CommandEnds
<1>4. ASSUME NEW r \in Reqs, CreateInsert(r) PROVE Holders'
  BY <1>4 DEF CreateInsert, Moves, WriteMap
<1>5. ASSUME NEW r \in Reqs, CreateSend(r) PROVE Holders'
  BY <1>5 DEF CreateSend, Moves, Put, Room
<1>6. ASSUME NEW r \in Reqs, StartLock(r) PROVE Holders'
  BY <1>6 DEF StartLock, Moves
<1>7. ASSUME NEW r \in Reqs, StartCall(r) PROVE Holders'
  BY <1>7 DEF StartCall, Moves
<1>8. ASSUME NEW r \in Reqs, StartEnds(r) PROVE Holders'
  BY <1>8 DEF StartEnds, Moves, CommandEnds
<1>9. ASSUME NEW r \in Reqs, StartUnlock(r) PROVE Holders'
  BY <1>9 DEF StartUnlock, Moves
<1>10. ASSUME NEW r \in Reqs, DeleteCall(r) PROVE Holders'
  BY <1>10 DEF DeleteCall, Moves
<1>11. ASSUME NEW r \in Reqs, DeleteEnds(r) PROVE Holders'
  BY <1>11 DEF DeleteEnds, Moves, CommandEnds
<1>12. ASSUME NEW r \in Reqs, DeleteRemove(r) PROVE Holders'
  BY <1>12 DEF DeleteRemove, Moves, WriteMap
<1>13. ASSUME NEW r \in Reqs, DeleteSend(r) PROVE Holders'
  BY <1>13 DEF DeleteSend, Moves, Put, Room
<1>14. ASSUME NEW r \in Reqs, KillCall(r) PROVE Holders'
  BY <1>14 DEF KillCall, Moves
<1>15. ASSUME NEW r \in Reqs, KillEnds(r) PROVE Holders'
  BY <1>15 DEF KillEnds, Moves, CommandEnds
<1>16. ASSUME NEW r \in Reqs, QueryCall(r) PROVE Holders'
  BY <1>16 DEF QueryCall, Moves
<1>17. ASSUME NEW r \in Reqs, QueryEnds(r) PROVE Holders'
  BY <1>17 DEF QueryEnds, Moves, CommandEnds
<1>18. ASSUME NEW r \in Reqs, WaitReturns(r) PROVE Holders'
  BY <1>18 DEF WaitReturns, Moves
<1>19. ASSUME NEW r \in Reqs, Find(r, "start", "sendMu") PROVE Holders'
  BY <1>19 DEF Find, Moves
<1>20. ASSUME NEW r \in Reqs, Find(r, "delete", "procMu") PROVE Holders'
  BY <1>20 DEF Find, Moves
<1>21. ASSUME NEW r \in Reqs, Find(r, "kill", "procMu") PROVE Holders'
  BY <1>21 DEF Find, Moves
<1>22. ASSUME NEW r \in Reqs, Find(r, "query", "procMu") PROVE Holders'
  BY <1>22 DEF Find, Moves
<1>23. ASSUME NEW r \in Reqs, Find(r, "wait", "wait") PROVE Holders'
  BY <1>23 DEF Find, Moves
<1>24. CASE ExitReceive
  BY <1>24 DEF ExitReceive, ExitsMove
<1>25. CASE ExitLookup
  BY <1>25 DEF ExitLookup, ExitsMove
<1>26. CASE ExitSet
  BY <1>26 DEF ExitSet, ExitsMove
<1>27. CASE ExitLock
  BY <1>27 DEF ExitLock, ExitsMove
<1>28. CASE ExitSend
  BY <1>28 DEF ExitSend, ExitsMove, Put, Room
<1>29. CASE Forward
  BY <1>29 DEF Forward
<1>30. CASE Reap
  BY <1>30 DEF Reap, InitGone
<1>31. CASE GuestExit
  BY <1>31 DEF GuestExit
<1>32. ASSUME NEW r \in Reqs, StartReply(r) PROVE Holders'
  BY <1>32 DEF StartReply, Moves
<1>33. ASSUME NEW r \in Reqs, DeleteStamp(r) PROVE Holders'
  BY <1>33 DEF DeleteStamp, Moves
<1>34. ASSUME NEW r \in Reqs, DeleteReply(r) PROVE Holders'
  BY <1>34 DEF DeleteReply, Moves
<1>35. CASE ExitStamp
  BY <1>35 DEF ExitStamp, ExitsMove
<1>36. CASE HelperExit
  BY <1>36 DEF HelperExit
<1>. QED
  BY <1>1, <1>2, <1>3, <1>4, <1>5, <1>6, <1>7, <1>8, <1>9, <1>10, <1>11,
     <1>12, <1>13, <1>14, <1>15, <1>16, <1>17, <1>18, <1>19, <1>20, <1>21,
     <1>22, <1>23, <1>24, <1>25, <1>26, <1>27, <1>28, <1>29, <1>30, <1>31,
     <1>32, <1>33, <1>34, <1>35, <1>36
     DEF Next, Request, Handler, ProcessExits

\* The container is in the map from the end of its Create to the Delete.
LEMMA StepMapped == IInv /\ Holders /\ Mapped /\ Next => Mapped'
<1>. SUFFICES ASSUME IInv /\ Holders /\ Mapped, Next PROVE Mapped'
  OBVIOUS
<1>. USE ShimAssumption DEF IInv, TypeOK, SendLock,
         Settled, Holders, HoldersMove, Mapped, task, chans, mutex, outs
<1>1. ASSUME NEW r \in Reqs, CreateCall(r) PROVE Mapped'
  BY <1>1 DEF CreateCall, Moves
<1>2. ASSUME NEW r \in Reqs, Shutdown(r) PROVE Mapped'
  BY <1>2 DEF Shutdown, Moves, MayShutdown
<1>3. ASSUME NEW r \in Reqs, CreateEnds(r) PROVE Mapped'
  BY <1>3 DEF CreateEnds, Moves, CommandEnds
<1>4. ASSUME NEW r \in Reqs, CreateInsert(r) PROVE Mapped'
  BY <1>4 DEF CreateInsert, Moves, WriteMap
<1>5. ASSUME NEW r \in Reqs, CreateSend(r) PROVE Mapped'
  BY <1>5 DEF CreateSend, Moves, Put, Room
<1>6. ASSUME NEW r \in Reqs, StartLock(r) PROVE Mapped'
  BY <1>6 DEF StartLock, Moves
<1>7. ASSUME NEW r \in Reqs, StartCall(r) PROVE Mapped'
  BY <1>7 DEF StartCall, Moves
<1>8. ASSUME NEW r \in Reqs, StartEnds(r) PROVE Mapped'
  BY <1>8 DEF StartEnds, Moves, CommandEnds
<1>9. ASSUME NEW r \in Reqs, StartUnlock(r) PROVE Mapped'
  BY <1>9 DEF StartUnlock, Moves
<1>10. ASSUME NEW r \in Reqs, DeleteCall(r) PROVE Mapped'
  <2>1. /\ Op[r] = "delete" /\ pc[r] = "procMu" /\ UNCHANGED <<registered, guest, proc>>
        /\ pc' = [pc EXCEPT ![r] = pc'[r]] /\ pc'[r] \in {"runu", "failed"}
        /\ pc'[r] = "runu" => proc \in {"created", "stopped"}
    BY <1>10 DEF DeleteCall, Moves
  <2>2. \A q \in Reqs : q # r => pc'[q] = pc[q]
    BY <2>1
  <2>. QED
    BY <2>1, <2>2
<1>11. ASSUME NEW r \in Reqs, DeleteEnds(r) PROVE Mapped'
  BY <1>11 DEF DeleteEnds, Moves, CommandEnds
<1>12. ASSUME NEW r \in Reqs, DeleteRemove(r) PROVE Mapped'
  BY <1>12 DEF DeleteRemove, Moves, WriteMap
<1>13. ASSUME NEW r \in Reqs, DeleteSend(r) PROVE Mapped'
  BY <1>13 DEF DeleteSend, Moves, Put, Room
<1>14. ASSUME NEW r \in Reqs, KillCall(r) PROVE Mapped'
  BY <1>14 DEF KillCall, Moves
<1>15. ASSUME NEW r \in Reqs, KillEnds(r) PROVE Mapped'
  BY <1>15 DEF KillEnds, Moves, CommandEnds
<1>16. ASSUME NEW r \in Reqs, QueryCall(r) PROVE Mapped'
  BY <1>16 DEF QueryCall, Moves
<1>17. ASSUME NEW r \in Reqs, QueryEnds(r) PROVE Mapped'
  BY <1>17 DEF QueryEnds, Moves, CommandEnds
<1>18. ASSUME NEW r \in Reqs, WaitReturns(r) PROVE Mapped'
  BY <1>18 DEF WaitReturns, Moves
<1>19. ASSUME NEW r \in Reqs, Find(r, "start", "sendMu") PROVE Mapped'
  BY <1>19 DEF Find, Moves
<1>20. ASSUME NEW r \in Reqs, Find(r, "delete", "procMu") PROVE Mapped'
  BY <1>20 DEF Find, Moves
<1>21. ASSUME NEW r \in Reqs, Find(r, "kill", "procMu") PROVE Mapped'
  BY <1>21 DEF Find, Moves
<1>22. ASSUME NEW r \in Reqs, Find(r, "query", "procMu") PROVE Mapped'
  BY <1>22 DEF Find, Moves
<1>23. ASSUME NEW r \in Reqs, Find(r, "wait", "wait") PROVE Mapped'
  BY <1>23 DEF Find, Moves
<1>24. CASE ExitReceive
  BY <1>24 DEF ExitReceive, ExitsMove
<1>25. CASE ExitLookup
  BY <1>25 DEF ExitLookup, ExitsMove
<1>26. CASE ExitSet
  BY <1>26 DEF ExitSet, ExitsMove
<1>27. CASE ExitLock
  BY <1>27 DEF ExitLock, ExitsMove
<1>28. CASE ExitSend
  BY <1>28 DEF ExitSend, ExitsMove, Put, Room
<1>29. CASE Forward
  BY <1>29 DEF Forward
<1>30. CASE Reap
  BY <1>30 DEF Reap, InitGone
<1>31. CASE GuestExit
  BY <1>31 DEF GuestExit
<1>32. ASSUME NEW r \in Reqs, StartReply(r) PROVE Mapped'
  BY <1>32 DEF StartReply, Moves
<1>33. ASSUME NEW r \in Reqs, DeleteStamp(r) PROVE Mapped'
  BY <1>33 DEF DeleteStamp, Moves
<1>34. ASSUME NEW r \in Reqs, DeleteReply(r) PROVE Mapped'
  BY <1>34 DEF DeleteReply, Moves
<1>35. CASE ExitStamp
  BY <1>35 DEF ExitStamp, ExitsMove
<1>36. CASE HelperExit
  BY <1>36 DEF HelperExit
<1>. QED
  BY <1>1, <1>2, <1>3, <1>4, <1>5, <1>6, <1>7, <1>8, <1>9, <1>10, <1>11,
     <1>12, <1>13, <1>14, <1>15, <1>16, <1>17, <1>18, <1>19, <1>20, <1>21,
     <1>22, <1>23, <1>24, <1>25, <1>26, <1>27, <1>28, <1>29, <1>30, <1>31,
     <1>32, <1>33, <1>34, <1>35, <1>36
     DEF Next, Request, Handler, ProcessExits

\* A started guest's end is pursued until it is on record, and announced.
LEMMA StepOnRecord == IInv /\ Holders /\ Mapped /\ OnRecord /\ Next => OnRecord'
<1>. SUFFICES ASSUME IInv /\ Holders /\ Mapped /\ OnRecord, Next PROVE OnRecord'
  OBVIOUS
<1>. USE ShimAssumption DEF IInv, TypeOK, SendLock,
         Settled, Holders, HoldersMove, Mapped, OnRecord, ExitAnnounced, Told,
         task, chans, mutex, outs
<1>0. ~crashed /\ (Sent("TaskExit") => Sent("TaskExit")')
  BY SentStays DEF Next, Event
<1>1. ASSUME NEW r \in Reqs, CreateCall(r) PROVE OnRecord'
  BY <1>1, <1>0 DEF CreateCall, Moves
<1>2. ASSUME NEW r \in Reqs, Shutdown(r) PROVE OnRecord'
  BY <1>2, <1>0 DEF Shutdown, Moves, MayShutdown
<1>3. ASSUME NEW r \in Reqs, CreateEnds(r) PROVE OnRecord'
  BY <1>3, <1>0 DEF CreateEnds, Moves, CommandEnds
<1>4. ASSUME NEW r \in Reqs, CreateInsert(r) PROVE OnRecord'
  BY <1>4, <1>0 DEF CreateInsert, Moves, WriteMap
<1>5. ASSUME NEW r \in Reqs, CreateSend(r) PROVE OnRecord'
  BY <1>5, <1>0 DEF CreateSend, Moves, Put, Room
<1>6. ASSUME NEW r \in Reqs, StartLock(r) PROVE OnRecord'
  BY <1>6, <1>0 DEF StartLock, Moves
<1>7. ASSUME NEW r \in Reqs, StartCall(r) PROVE OnRecord'
  BY <1>7, <1>0 DEF StartCall, Moves
<1>8. ASSUME NEW r \in Reqs, StartEnds(r) PROVE OnRecord'
  BY <1>8, <1>0 DEF StartEnds, Moves, CommandEnds
<1>9. ASSUME NEW r \in Reqs, StartUnlock(r) PROVE OnRecord'
  BY <1>9, <1>0 DEF StartUnlock, Moves
<1>10. ASSUME NEW r \in Reqs, DeleteCall(r) PROVE OnRecord'
  BY <1>10, <1>0 DEF DeleteCall, Moves
<1>11. ASSUME NEW r \in Reqs, DeleteEnds(r) PROVE OnRecord'
  BY <1>11, <1>0 DEF DeleteEnds, Moves, CommandEnds
<1>12. ASSUME NEW r \in Reqs, DeleteRemove(r) PROVE OnRecord'
  BY <1>12, <1>0 DEF DeleteRemove, Moves, WriteMap
<1>13. ASSUME NEW r \in Reqs, DeleteSend(r) PROVE OnRecord'
  BY <1>13, <1>0 DEF DeleteSend, Moves, Put, Room
<1>14. ASSUME NEW r \in Reqs, KillCall(r) PROVE OnRecord'
  BY <1>14, <1>0 DEF KillCall, Moves
<1>15. ASSUME NEW r \in Reqs, KillEnds(r) PROVE OnRecord'
  BY <1>15, <1>0 DEF KillEnds, Moves, CommandEnds
<1>16. ASSUME NEW r \in Reqs, QueryCall(r) PROVE OnRecord'
  BY <1>16, <1>0 DEF QueryCall, Moves
<1>17. ASSUME NEW r \in Reqs, QueryEnds(r) PROVE OnRecord'
  BY <1>17, <1>0 DEF QueryEnds, Moves, CommandEnds
<1>18. ASSUME NEW r \in Reqs, WaitReturns(r) PROVE OnRecord'
  BY <1>18, <1>0 DEF WaitReturns, Moves
<1>19. ASSUME NEW r \in Reqs, Find(r, "start", "sendMu") PROVE OnRecord'
  BY <1>19, <1>0 DEF Find, Moves
<1>20. ASSUME NEW r \in Reqs, Find(r, "delete", "procMu") PROVE OnRecord'
  BY <1>20, <1>0 DEF Find, Moves
<1>21. ASSUME NEW r \in Reqs, Find(r, "kill", "procMu") PROVE OnRecord'
  BY <1>21, <1>0 DEF Find, Moves
<1>22. ASSUME NEW r \in Reqs, Find(r, "query", "procMu") PROVE OnRecord'
  BY <1>22, <1>0 DEF Find, Moves
<1>23. ASSUME NEW r \in Reqs, Find(r, "wait", "wait") PROVE OnRecord'
  BY <1>23, <1>0 DEF Find, Moves
<1>24. CASE ExitReceive
  BY <1>24, <1>0 DEF ExitReceive, ExitsMove
<1>25. CASE ExitLookup
  BY <1>25, <1>0 DEF ExitLookup, ExitsMove
<1>26. CASE ExitSet
  BY <1>26, <1>0 DEF ExitSet, ExitsMove
<1>27. CASE ExitLock
  BY <1>27, <1>0 DEF ExitLock, ExitsMove
<1>28. CASE ExitSend
  <2>1. TypeOK /\ Put("TaskExit") /\ "TaskExit" \in Event
    BY <1>28 DEF ExitSend, Event
  <2>2. Sent("TaskExit")' \/ crashed'
    BY <2>1, PutSends DEF Put
  <2>. QED
    BY <1>28, <2>2 DEF ExitSend, ExitsMove
<1>29. CASE Forward
  BY <1>29, <1>0 DEF Forward
<1>30. CASE Reap
  BY <1>30, <1>0 DEF Reap, InitGone
<1>31. CASE GuestExit
  BY <1>31, <1>0 DEF GuestExit
<1>32. ASSUME NEW r \in Reqs, StartReply(r) PROVE OnRecord'
  BY <1>32, <1>0 DEF StartReply, Moves
<1>33. ASSUME NEW r \in Reqs, DeleteStamp(r) PROVE OnRecord'
  BY <1>33, <1>0 DEF DeleteStamp, Moves
<1>34. ASSUME NEW r \in Reqs, DeleteReply(r) PROVE OnRecord'
  BY <1>34, <1>0 DEF DeleteReply, Moves
<1>35. CASE ExitStamp
  BY <1>35, <1>0 DEF ExitStamp, ExitsMove
<1>36. CASE HelperExit
  BY <1>36, <1>0 DEF HelperExit
<1>. QED
  BY <1>1, <1>2, <1>3, <1>4, <1>5, <1>6, <1>7, <1>8, <1>9, <1>10, <1>11,
     <1>12, <1>13, <1>14, <1>15, <1>16, <1>17, <1>18, <1>19, <1>20, <1>21,
     <1>22, <1>23, <1>24, <1>25, <1>26, <1>27, <1>28, <1>29, <1>30, <1>31,
     <1>32, <1>33, <1>34, <1>35, <1>36
     DEF Next, Request, Handler, ProcessExits

\* Initially no mutex is held, nothing is mapped and nothing is on record.
LEMMA InitPInv == Init => PInv
<1>1. Init => Holders /\ Mapped /\ OnRecord
  BY ShimAssumption DEF Init, Holders, HoldersMove, Mapped, OnRecord, ExitAnnounced
<1>. QED
  BY <1>1, InitIInv DEF PInv

\* Every step preserves all parts.
LEMMA StepPInv == PInv /\ [Next]_vars => PInv'
<1>1. PInv /\ Next => PInv'
  BY StepIInv, StepHolders, StepMapped, StepOnRecord DEF PInv
<1>2. PInv /\ UNCHANGED vars => PInv'
  <2>1. IInv /\ UNCHANGED vars => IInv'
    BY StepIInv
  <2>. QED
    BY <2>1 DEF PInv, Holders, HoldersMove, Mapped, OnRecord, ExitAnnounced, Sent,
                vars, task, chans, mutex, outs
<1>. QED
  BY <1>1, <1>2

-----------------------------------------------------------------------------
(* The theorems.                                                           *)

\* The inductive invariant holds whatever containerd asks for and when.
THEOREM ProgressInvariance == Safety => []PInv
  BY InitPInv, StepPInv, PTL DEF Safety

\* The shim cannot lock itself up: no handler ends with a mutex, and whoever
\* holds one waits for nobody, or for somebody further on in one fixed order.
THEOREM NoDeadlock == Safety => []HoldersMove
<1>1. PInv => HoldersMove
  BY DEF PInv, Holders
<1>. QED
  BY <1>1, ProgressInvariance, PTL

\* The end of a guest that was started is never forgotten before SetExited,
\* and announced before processExits turns to the next report.
THEOREM ExitIsPursued == Safety => []ExitPursued
<1>1. PInv => ExitPursued
  BY DEF PInv, OnRecord, ExitPursued, ExitPending, Started
<1>. QED
  BY <1>1, ProgressInvariance, PTL

-----------------------------------------------------------------------------
(* The refinement, step by step.                                           *)

\* A request that moves on begins or ends no Start unless it is one at that
\* point of its way.
LEMMA StartingKept ==
  ASSUME TypeOK, NEW r \in Reqs, NEW to, pc' = [pc EXCEPT ![r] = to],
         Op[r] = "start" => pc[r] \notin {"runu", "started"} /\ to \notin {"runu", "started"}
  PROVE  Starting' = Starting
<1>. DEFINE Busy(q) == Op[q] = "start" /\ pc[q] \in {"runu", "started"}
<1>1. \A q \in Reqs : Busy(q)' <=> Busy(q)
  BY DEF TypeOK
<1>. QED
  BY <1>1 DEF Starting

\* Neither does a step of another goroutine.
LEMMA StartingIdle == ASSUME pc' = pc PROVE Starting' = Starting
  BY DEF Starting

\* As long as no event moves, what is told stays the same.
LEMMA ToldKept ==
  ASSUME UNCHANGED <<events, published>>
  PROVE  Sent("TaskExit")' = Sent("TaskExit")
BY DEF Sent

\* Nor do the events of the handlers speak of an exit.
LEMMA ToldOther ==
  ASSUME TypeOK, Next, NEW e \in Event \ {"TaskExit"}, Put(e), published' = published
  PROVE  Sent("TaskExit")' = Sent("TaskExit")
<1>1. Sent("TaskExit") => Sent("TaskExit")'
  BY SentStays DEF Event
<1>2. /\ DOMAIN events = 1..Len(events) /\ events \in Seq(Event)
  BY LenProperties DEF TypeOK
<1>3. /\ events' \in Seq(Event)
      /\ \A i \in 1..Len(events') :
           events'[i] = e \/ (i \in 1..Len(events) /\ events'[i] = events[i])
  BY PutEvent
<1>4. DOMAIN events' = 1..Len(events')
  BY <1>3, LenProperties
<1>5. Sent("TaskExit")' => Sent("TaskExit")
  BY <1>2, <1>3, <1>4 DEF Sent
<1>. QED
  BY <1>1, <1>5 DEF Sent

\* Publishing an event makes nothing known that was not sent.
LEMMA ToldForward ==
  ASSUME TypeOK, Next, Forward
  PROVE  Sent("TaskExit")' = Sent("TaskExit")
<1>1. Sent("TaskExit") => Sent("TaskExit")'
  BY SentStays DEF Event
<1>2. DOMAIN events = 1..Len(events) /\ events \in Seq(Event)
  BY LenProperties DEF TypeOK
<1>3. /\ events' \in Seq(Event)
      /\ \A i \in 1..Len(events') : i + 1 \in 1..Len(events) /\ events'[i] = events[i + 1]
      /\ 1 \in 1..Len(events) /\ published' = published \cup {events[1]}
  BY ForwardEvent
<1>4. DOMAIN events' = 1..Len(events')
  BY <1>3, LenProperties
<1>5. Sent("TaskExit")' => Sent("TaskExit")
  BY <1>2, <1>3, <1>4 DEF Sent
<1>. QED
  BY <1>1, <1>5 DEF Sent

\* While a Start is under way eventSendMu is its own, and the process is still
\* created only as long as the Start has the mutex of init.
LEMMA StartingHolds ==
  ASSUME PInv, NEW r \in Reqs, Op[r] = "start", pc[r] \in {"runu", "started"}
  PROVE  sendMu = r /\ (proc = "created" => procMu = r)
<1>1. sendMu = r
  BY DEF PInv, IInv, SendLock
<1>2. pc[r] = "runu" => procMu = r
  BY DEF PInv, IInv, Settled
<1>3. pc[r] = "started" => proc # "created"
  <2>1. exited => proc # "created"
    BY DEF PInv, IInv, Settled
  <2>2. pc[r] = "started" => proc = "running" \/ exited
    BY DEF PInv, OnRecord
  <2>. QED
    BY <2>1, <2>2
<1>. QED
  BY <1>1, <1>2, <1>3

\* A step of a handler that containerd does not see.
LEMMA HandlerUnseen ==
  ASSUME TypeOK, NEW r \in Reqs, NEW to, pc' = [pc EXCEPT ![r] = to],
         Op[r] = "start" => pc[r] \notin {"runu", "started"} /\ to \notin {"runu", "started"},
         UNCHANGED <<proc, guest, events, published>>
  PROVE  UNCHANGED Container!task
BY StartingKept, ToldKept DEF Container!task, InitProcess

\* A step of another goroutine that it does not see.
LEMMA Unseen ==
  ASSUME UNCHANGED <<pc, proc, guest, events, published>>
  PROVE  UNCHANGED Container!task
BY StartingIdle, ToldKept DEF Container!task, InitProcess

\* What a step of the shim is for containerd.
TaskStep == Container!Next \/ UNCHANGED Container!task

\* Every step is one of the task, or containerd does not see it.
LEMMA TaskMoves == PInv /\ Next => TaskStep
<1>. SUFFICES ASSUME PInv, Next PROVE TaskStep
  OBVIOUS
<1>. USE DEF PInv, IInv, TaskStep, task, chans, mutex, outs
<1>1. ASSUME NEW r \in Reqs, CreateCall(r) PROVE TaskStep
  <2>1. CASE guest' = guest
    BY <1>1, <2>1, HandlerUnseen DEF CreateCall, Moves
  <2>2. CASE guest' # guest
    <3>1. guest = "none" /\ proc = "none" /\ guest' = "alive" /\ proc' = proc
      BY <1>1, <2>2 DEF CreateCall, Moves, NoGuestYet, Settled
    <3>2. Starting' = Starting /\ Sent("TaskExit")' = Sent("TaskExit")
      BY <1>1, StartingKept, ToldKept DEF CreateCall, Moves
    <3>. QED
      BY <3>1, <3>2 DEF InitProcess, Container!Next, Container!Boot
  <2>. QED
    BY <2>1, <2>2
<1>2. ASSUME NEW r \in Reqs, Shutdown(r) PROVE TaskStep
  BY <1>2, HandlerUnseen DEF Shutdown, Moves
<1>3. ASSUME NEW r \in Reqs, CreateEnds(r) PROVE TaskStep
  <2>1. CASE proc' = proc
    BY <1>3, <2>1, HandlerUnseen DEF CreateEnds, Moves
  <2>2. CASE proc' # proc
    <3>1. proc = "none" /\ guest # "none" /\ proc' = "created" /\ guest' = guest
      BY <1>3, <2>2 DEF CreateEnds, Moves, Settled, Mapped
    <3>2. Starting' = Starting /\ Sent("TaskExit")' = Sent("TaskExit")
      BY <1>3, StartingKept, ToldKept DEF CreateEnds, Moves
    <3>. QED
      BY <3>1, <3>2 DEF InitProcess, Container!Next, Container!Create
  <2>. QED
    BY <2>1, <2>2
<1>4. ASSUME NEW r \in Reqs, CreateInsert(r) PROVE TaskStep
  BY <1>4, HandlerUnseen DEF CreateInsert, Moves
<1>5. ASSUME NEW r \in Reqs, CreateSend(r) PROVE TaskStep
  <2>1. Starting' = Starting /\ UNCHANGED <<proc, guest>>
    BY <1>5, StartingKept DEF CreateSend, Moves
  <2>2. Sent("TaskExit")' = Sent("TaskExit")
    BY <1>5, ToldOther DEF CreateSend, Event
  <2>. QED
    BY <2>1, <2>2 DEF InitProcess, Container!task
<1>6. ASSUME NEW r \in Reqs, StartLock(r) PROVE TaskStep
  BY <1>6, HandlerUnseen DEF StartLock, Moves
<1>7. ASSUME NEW r \in Reqs, StartCall(r) PROVE TaskStep
  <2>1. CASE proc = "created"
    <3>1. /\ Op[r] = "start" /\ pc'[r] = "runu" /\ UNCHANGED <<proc, guest>>
          /\ pc[r] = "procMu" /\ procMu = None
      BY <1>7, <2>1 DEF StartCall, Moves, TypeOK
    <3>2. Starting' = TRUE
      BY <3>1 DEF Starting
    <3>3. ~Starting
      BY <2>1, <3>1, StartingHolds, ShimAssumption DEF Starting
    <3>4. Sent("TaskExit")' = Sent("TaskExit")
      BY <1>7, ToldKept DEF StartCall
    <3>. QED
      BY <2>1, <3>1, <3>2, <3>3, <3>4 DEF InitProcess, Container!Next, Container!BeginStart
  <2>2. CASE proc # "created"
    BY <1>7, <2>2, HandlerUnseen DEF StartCall, Moves
  <2>. QED
    BY <2>1, <2>2
<1>8. ASSUME NEW r \in Reqs, StartEnds(r) PROVE TaskStep
  <2>1. /\ Op[r] = "start" /\ pc[r] = "runu" /\ proc = "created" /\ guest' = guest
        /\ pc' = [pc EXCEPT ![r] = pc'[r]] /\ pc'[r] \in {"started", "failed"}
    BY <1>8 DEF StartEnds, Moves, Settled, TypeOK
  <2>2. Starting
    BY <2>1 DEF Starting
  <2>3. Sent("TaskExit")' = Sent("TaskExit")
    BY <1>8, ToldKept DEF StartEnds
  <2>4. CASE pc'[r] = "started"
    <3>1. proc' = "running"
      BY <1>8, <2>4 DEF StartEnds, Moves, TypeOK
    <3>2. Starting' = Starting
      BY <2>1, <2>2, <2>4 DEF Starting
    <3>. QED
      BY <2>1, <2>2, <2>3, <3>1, <3>2 DEF InitProcess, Container!Next, Container!Start
  <2>5. CASE pc'[r] = "failed"
    <3>1. proc' = proc
      BY <1>8, <2>5 DEF StartEnds, Moves, TypeOK
    <3>2. Starting' = FALSE
      BY <2>1, <2>5, StartingHolds DEF Starting, TypeOK
    <3>. QED
      BY <2>1, <2>2, <2>3, <3>1, <3>2 DEF InitProcess, Container!Next, Container!EndStart
  <2>. QED
    BY <2>1, <2>4, <2>5
<1>9. ASSUME NEW r \in Reqs, StartUnlock(r) PROVE TaskStep
  <2>1. /\ Op[r] = "start" /\ pc[r] = "started" /\ UNCHANGED <<proc, guest>>
        /\ pc' = [pc EXCEPT ![r] = "reply"]
    BY <1>9 DEF StartUnlock, Moves
  <2>2. Starting
    BY <2>1 DEF Starting
  <2>3. Starting' = FALSE
    BY <2>1, StartingHolds DEF Starting, TypeOK
  <2>4. Sent("TaskExit")' = Sent("TaskExit")
    BY <1>9, ToldKept DEF StartUnlock
  <2>. QED
    BY <2>1, <2>2, <2>3, <2>4 DEF InitProcess, Container!Next, Container!EndStart
<1>10. ASSUME NEW r \in Reqs, DeleteCall(r) PROVE TaskStep
  BY <1>10, HandlerUnseen DEF DeleteCall, Moves
<1>11. ASSUME NEW r \in Reqs, DeleteEnds(r) PROVE TaskStep
  <2>1. CASE proc' = proc
    BY <1>11, <2>1, HandlerUnseen DEF DeleteEnds, Moves
  <2>2. CASE proc' # proc
    <3>1. /\ proc \in {"created", "stopped"} /\ proc' = "deleted" /\ guest' = guest
          /\ procMu = r /\ Op[r] = "delete"
      BY <1>11, <2>2 DEF DeleteEnds, Moves, Settled, Mapped
    <3>2. Starting' = Starting /\ Sent("TaskExit")' = Sent("TaskExit")
      BY <1>11, StartingKept, ToldKept DEF DeleteEnds, Moves
    <3>3. Starting => proc # "created"
      BY <3>1, StartingHolds DEF Starting
    <3>. QED
      BY <3>1, <3>2, <3>3 DEF InitProcess, Container!Next, Container!Delete, Container!Settled
  <2>. QED
    BY <2>1, <2>2
<1>12. ASSUME NEW r \in Reqs, DeleteRemove(r) PROVE TaskStep
  BY <1>12, HandlerUnseen DEF DeleteRemove, Moves
<1>13. ASSUME NEW r \in Reqs, DeleteSend(r) PROVE TaskStep
  <2>1. Starting' = Starting /\ UNCHANGED <<proc, guest>>
    BY <1>13, StartingKept DEF DeleteSend, Moves
  <2>2. Sent("TaskExit")' = Sent("TaskExit")
    BY <1>13, ToldOther DEF DeleteSend, Event
  <2>. QED
    BY <2>1, <2>2 DEF InitProcess, Container!task
<1>14. ASSUME NEW r \in Reqs, KillCall(r) PROVE TaskStep
  BY <1>14, HandlerUnseen DEF KillCall, Moves
<1>15. ASSUME NEW r \in Reqs, KillEnds(r) PROVE TaskStep
  BY <1>15, HandlerUnseen DEF KillEnds, Moves
<1>16. ASSUME NEW r \in Reqs, QueryCall(r) PROVE TaskStep
  BY <1>16, HandlerUnseen DEF QueryCall, Moves
<1>17. ASSUME NEW r \in Reqs, QueryEnds(r) PROVE TaskStep
  BY <1>17, HandlerUnseen DEF QueryEnds, Moves
<1>18. ASSUME NEW r \in Reqs, WaitReturns(r) PROVE TaskStep
  BY <1>18, HandlerUnseen DEF WaitReturns, Moves
<1>19. ASSUME NEW r \in Reqs, Find(r, "start", "sendMu") PROVE TaskStep
  BY <1>19, HandlerUnseen DEF Find, Moves
<1>20. ASSUME NEW r \in Reqs, Find(r, "delete", "procMu") PROVE TaskStep
  BY <1>20, HandlerUnseen DEF Find, Moves
<1>21. ASSUME NEW r \in Reqs, Find(r, "kill", "procMu") PROVE TaskStep
  BY <1>21, HandlerUnseen DEF Find, Moves
<1>22. ASSUME NEW r \in Reqs, Find(r, "query", "procMu") PROVE TaskStep
  BY <1>22, HandlerUnseen DEF Find, Moves
<1>23. ASSUME NEW r \in Reqs, Find(r, "wait", "wait") PROVE TaskStep
  BY <1>23, HandlerUnseen DEF Find, Moves
<1>24. CASE ExitReceive
  BY <1>24, Unseen DEF ExitReceive
<1>25. CASE ExitLookup
  BY <1>25, Unseen DEF ExitLookup
<1>26. CASE ExitSet
  <2>1. CASE proc' = proc
    BY <1>26, <2>1, Unseen DEF ExitSet
  <2>2. CASE proc' # proc
    <3>1. /\ proc \in {"created", "running"} /\ proc' = "stopped" /\ guest' = guest
          /\ guest = "gone" /\ procMu = None
      BY <1>26, <2>2 DEF ExitSet, ExitsMove, Told
    <3>2. Starting' = Starting /\ Sent("TaskExit")' = Sent("TaskExit")
      BY <1>26, StartingIdle, ToldKept DEF ExitSet
    <3>3. Starting => proc # "created"
      BY <3>1, StartingHolds, ShimAssumption DEF Starting
    <3>. QED
      BY <3>1, <3>2, <3>3 DEF InitProcess, Container!Next, Container!Stop, Container!Settled
  <2>. QED
    BY <2>1, <2>2
<1>27. CASE ExitLock
  BY <1>27, Unseen DEF ExitLock
<1>28. CASE ExitSend
  <2>1. /\ proc \in {"stopped", "deleted"} /\ guest = "gone" /\ sendMu = Exits
        /\ UNCHANGED <<pc, proc, guest, published>> /\ Put("TaskExit")
    BY <1>28 DEF ExitSend, ExitsMove, Told, Settled, SendLock
  <2>2. CASE closed
    BY <2>1, <2>2, Unseen DEF Put
  <2>3. CASE ~closed
    <3>1. Sent("TaskExit")' = TRUE
      <4>1. TypeOK /\ "TaskExit" \in Event
        BY DEF Event
      <4>2. Sent("TaskExit")'
        BY <2>1, <2>3, <4>1, PutSends
      <4>. QED
        BY <4>2 DEF Sent
    <3>2. Starting' = Starting /\ ~Starting
      BY <2>1, StartingIdle, StartingHolds, ShimAssumption DEF Starting
    <3>. QED
      BY <2>1, <3>1, <3>2 DEF InitProcess, Container!Next, Container!Tell
  <2>. QED
    BY <2>2, <2>3
<1>29. CASE Forward
  <2>1. Starting' = Starting /\ Sent("TaskExit")' = Sent("TaskExit")
    BY <1>29, StartingIdle, ToldForward DEF Forward
  <2>. QED
    BY <1>29, <2>1 DEF Forward, InitProcess, Container!task
<1>30. CASE Reap
  BY <1>30, Unseen DEF Reap
<1>31. CASE GuestExit
  <2>1. Starting' = Starting /\ Sent("TaskExit")' = Sent("TaskExit")
    BY <1>31, StartingIdle, ToldKept DEF GuestExit
  <2>. QED
    BY <1>31, <2>1 DEF GuestExit, InitProcess, Container!task, Container!Next, Container!Die
<1>32. ASSUME NEW r \in Reqs, StartReply(r) PROVE TaskStep
  BY <1>32, HandlerUnseen DEF StartReply, Moves
<1>33. ASSUME NEW r \in Reqs, DeleteStamp(r) PROVE TaskStep
  BY <1>33, HandlerUnseen DEF DeleteStamp, Moves
<1>34. ASSUME NEW r \in Reqs, DeleteReply(r) PROVE TaskStep
  BY <1>34, HandlerUnseen DEF DeleteReply, Moves
<1>35. CASE ExitStamp
  BY <1>35, Unseen DEF ExitStamp
<1>36. CASE HelperExit
  <2>1. Starting' = Starting /\ Sent("TaskExit")' = Sent("TaskExit")
    BY <1>36, StartingIdle, ToldKept DEF HelperExit
  <2>. QED
    BY <1>36, <2>1 DEF HelperExit, InitProcess, Container!Next, Container!Die
<1>. QED
  BY <1>1, <1>2, <1>3, <1>4, <1>5, <1>6, <1>7, <1>8, <1>9, <1>10, <1>11,
     <1>12, <1>13, <1>14, <1>15, <1>16, <1>17, <1>18, <1>19, <1>20, <1>21,
     <1>22, <1>23, <1>24, <1>25, <1>26, <1>27, <1>28, <1>29, <1>30, <1>31,
     <1>32, <1>33, <1>34, <1>35, <1>36
     DEF Next, Request, Handler, ProcessExits

\* The shim is the task of module Task, for any requests in any order: State's
\* answers and exit events agree with the guest, and neither comes in between a
\* Start and its giving eventSendMu back.
THEOREM RefinesTask == Safety => ImplementsTask
<1>1. Init => Container!Init
  <2>. SUFFICES ASSUME Init PROVE Container!Init
    OBVIOUS
  <2>1. Starting = FALSE
    BY DEF Init, Starting
  <2>2. Sent("TaskExit") = FALSE
    BY EmptySeq DEF Init, Sent
  <2>. QED
    BY <2>1, <2>2 DEF Init, InitProcess, Container!Init
<1>2. PInv /\ [Next]_vars => [Container!Next]_(Container!task)
  <2>1. PInv /\ Next => Container!Next \/ UNCHANGED Container!task
    BY TaskMoves DEF TaskStep
  <2>2. UNCHANGED vars => UNCHANGED Container!task
    BY Unseen DEF vars, task, outs
  <2>. QED
    BY <2>1, <2>2
<1>. QED
  BY <1>1, <1>2, ProgressInvariance, PTL DEF Safety, ImplementsTask, Container!Spec
=============================================================================
