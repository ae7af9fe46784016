-------------------------- MODULE LifecycleProofs --------------------------
(***************************************************************************)
(* Proofs about Lifecycle, for any number of generations and of start and  *)
(* kill processes.  The type invariant needs no assumption.  The safety    *)
(* invariants are proved for the caller that the code is written for:      *)
(* containerd on linux, one command at a time.                             *)
(***************************************************************************)
EXTENDS Lifecycle, TLAPS

\* The assumptions of the theorems: the caller the code is written for, and
\* kills that send SIGKILL.
WellBehaved == Caller = "containerd" /\ Platform = "linux"
KillOnly    == \A k \in Kills : KillSig[k] = "KILL"

\* How far a helper is, and creators that have come back with a container.
BeforePid   == {"setup", "pid9p", "connect", "exec", "writepid"}
BeforeSave  == BeforePid \cup {"sigstop", "pidfile", "saveCreated"}
AfterNotify == {"wait", "kill9p", "saveStopped"} \cup BootEnded
Returned    == {"created", "resume", "ran"}

-----------------------------------------------------------------------------
(* The inductive invariant, one part for each reason the safety invariants *)
(* hold.                                                                   *)

\* One command at a time, and start and kill only on a created container.
OneCommand ==
  /\ \A g, h \in Gens :
       creator[g] \in CreatorBusy /\ creator[h] \in CreatorBusy => g = h
  /\ \A g \in Gens, s \in Starts : creator[g] \in CreatorBusy => starter[s] = "idle"
  /\ \A g \in Gens, k \in Kills : creator[g] \in CreatorBusy => killer[k] = "idle"
  /\ \A s \in Starts : starter[s] # "idle" =>
       \E g \in dir : creator[g] = "created"
  /\ \A k \in Kills : killer[k] # "idle" =>
       \E g \in dir : creator[g] = "created"

\* The directory belongs to the generation that is being created or that has
\* a live helper, and its files to the owner.
Ownership ==
  /\ dir = {} => pid = None /\ pid9p = None /\ state = "none"
  /\ \A g \in Gens : creator[g] = "mkdir" => dir = {}
  /\ \A g \in Gens : creator[g] \in {"mounts", "wait", "resume"} => dir = {g}
  /\ BootOwnsDir
  /\ PidFileFresh
  /\ CreateExclusive

\* Who has got how far: no helper before its start, no return of create and
\* no SIGCONT before the byte on the pipe.
Progress ==
  /\ \A g \in Gens : creator[g] \in {"idle", "mkdir", "mounts"} => boot[g] = "none"
  /\ \A g \in Gens : creator[g] \in Returned => g \in pipe
  /\ \A g \in pipe \cup woken : boot[g] \in AfterNotify

\* The helper can find its server in runu-9p.pid until it has killed it.
ServerKnown ==
  /\ \A g \in Gens : creator[g] = "mounts" => pid9p = None
  /\ \A g \in Gens : boot[g] \in {"setup", "pid9p"} => pid9p = None
  /\ \A g \in Gens : boot[g] \in {"none", "setup"} => server[g] = "none"
  /\ \A g \in Gens : BootLive(g) /\ boot[g] # "pid9p" /\ server[g] = "up"
                       => pid9p = g
  /\ \A g \in Gens : boot[g] = "saveStopped" => server[g] # "up"
  /\ ServerStopped

\* runu.pid names the guest from the helper's write on.
PidKnown ==
  /\ \A g \in Gens : creator[g] = "mounts" => pid = None
  /\ \A g \in Gens : boot[g] \in BeforePid => pid = None
  /\ \A g \in Gens : BootLive(g) /\ boot[g] \notin BeforePid => pid = g
  /\ \A g \in pipe \cap dir : pid = g

\* state.json is written for the first time by the helper.
StatusFresh ==
  /\ \A g \in Gens : creator[g] = "mounts" => state = "none"
  /\ \A g \in Gens : boot[g] \in BeforeSave => state = "none"

\* It says stopped only of a dead guest.
StatusTrue ==
  /\ \A g \in Gens : boot[g] \in {"kill9p", "saveStopped"} => guest[g] = "gone"
  /\ \A k \in Kills : killer[k] = "save" => \A g \in dir : ~GuestLive(g)
  /\ StoppedTruth

\* A guest that runs has a helper that waits for it: only from the exec to the
\* SIGSTOP it runs without a SIGCONT.
Attended ==
  /\ \A g \in Gens : boot[g] \in {"none", "setup", "pid9p", "connect", "exec"}
                       => guest[g] = "none"
  /\ \A g \in Gens : guest[g] = "running" /\ g \notin woken
                       => boot[g] \in {"writepid", "sigstop"}
  /\ \A g \in pipe : boot[g] # "wait" => guest[g] = "gone"
  /\ woken \subseteq pipe

IInv == /\ TypeOK /\ OneCommand /\ Ownership /\ Progress
        /\ ServerKnown /\ PidKnown /\ StatusFresh
        /\ NoLostWake
-----------------------------------------------------------------------------
(* Type correctness.                                                       *)

\* The initial values have their types.
LEMMA InitTypeOK == Init => TypeOK
  BY DEF Init, TypeOK

\* No command and no process writes a value of another type.
LEMMA StepTypeOK == TypeOK /\ Next => TypeOK'
<1>. SUFFICES ASSUME TypeOK, Next PROVE TypeOK'
  OBVIOUS
<1>. USE LifecycleAssumption DEF TypeOK, CreatorBusy, CreatorDone,
         BootRunning, BootEnded, files, procs, cmds
<1>1. ASSUME NEW g \in Gens, CreateStat(g) PROVE TypeOK'
  BY <1>1 DEF CreateStat, CreatorMoves
<1>2. ASSUME NEW g \in Gens, CreateMkdir(g) PROVE TypeOK'
  BY <1>2 DEF CreateMkdir, CreatorMoves
<1>3. ASSUME NEW g \in Gens, CreateBoot(g) PROVE TypeOK'
  BY <1>3 DEF CreateBoot, CreatorMoves
<1>4. ASSUME NEW g \in Gens, CreateReturn(g) PROVE TypeOK'
  BY <1>4 DEF CreateReturn, CreatorMoves
<1>5. ASSUME NEW g \in Gens, CreatePanic(g) PROVE TypeOK'
  BY <1>5 DEF CreatePanic, CreatorMoves
<1>6. ASSUME NEW g \in Gens, RunResume(g) PROVE TypeOK'
  BY <1>6 DEF RunResume, CreatorMoves, Resume, GuestLive
<1>7. ASSUME NEW g \in Gens, BootSetup(g) PROVE TypeOK'
  BY <1>7 DEF BootSetup, BootMoves
<1>8. ASSUME NEW g \in Gens, BootPid9p(g) PROVE TypeOK'
  BY <1>8 DEF BootPid9p, BootMoves, WriteExcl
<1>9. ASSUME NEW g \in Gens, BootConnect(g) PROVE TypeOK'
  BY <1>9 DEF BootConnect, BootMoves
<1>10. ASSUME NEW g \in Gens, BootExec(g) PROVE TypeOK'
  BY <1>10 DEF BootExec, BootMoves
<1>11. ASSUME NEW g \in Gens, BootWritePid(g) PROVE TypeOK'
  BY <1>11 DEF BootWritePid, BootMoves, WriteExcl
<1>12. ASSUME NEW g \in Gens, BootSigstop(g) PROVE TypeOK'
  BY <1>12 DEF BootSigstop, BootMoves
<1>13. ASSUME NEW g \in Gens, BootPidFile(g) PROVE TypeOK'
  BY <1>13 DEF BootPidFile, BootMoves
<1>14. ASSUME NEW g \in Gens, BootFail(g) PROVE TypeOK'
  BY <1>14 DEF BootFail, BootEnds
<1>15. ASSUME NEW g \in Gens, BootSaveCreated(g) PROVE TypeOK'
  BY <1>15 DEF BootSaveCreated, SaveState, BootEnds, BootMoves
<1>16. ASSUME NEW g \in Gens, BootNotify(g) PROVE TypeOK'
  BY <1>16 DEF BootNotify, BootMoves
<1>17. ASSUME NEW g \in Gens, BootWait(g) PROVE TypeOK'
  BY <1>17 DEF BootWait, BootMoves
<1>18. ASSUME NEW g \in Gens, BootKill9p(g) PROVE TypeOK'
  BY <1>18 DEF BootKill9p, BootMoves, EndServer
<1>19. ASSUME NEW g \in Gens, BootSaveStopped(g) PROVE TypeOK'
  BY <1>19 DEF BootSaveStopped, SaveState, BootEnds
<1>20. ASSUME NEW g \in Gens, GuestExit(g) PROVE TypeOK'
  BY <1>20 DEF GuestExit, Dead, BootLive
<1>21. ASSUME NEW g \in Gens, ServerDies(g) PROVE TypeOK'
  BY <1>21 DEF ServerDies
<1>22. ASSUME NEW s \in Starts, StartCall(s) PROVE TypeOK'
  BY <1>22 DEF StartCall, StarterMoves
<1>23. ASSUME NEW s \in Starts, StartResume(s) PROVE TypeOK'
  BY <1>23 DEF StartResume, StarterMoves, Resume, GuestLive
<1>24. ASSUME NEW s \in Starts, StartSave(s) PROVE TypeOK'
  BY <1>24 DEF StartSave, StarterMoves, SaveState
<1>25. ASSUME NEW k \in Kills, KillCall(k) PROVE TypeOK'
  BY <1>25 DEF KillCall, KillerMoves
<1>26. ASSUME NEW k \in Kills, KillServer(k) PROVE TypeOK'
  BY <1>26 DEF KillServer, KillerMoves, EndServer
<1>27. ASSUME NEW k \in Kills, KillMain(k) PROVE TypeOK'
  BY <1>27 DEF KillMain, KillerMoves, AfterSignal, Dead, BootLive, GuestLive
<1>28. ASSUME NEW k \in Kills, KillSave(k) PROVE TypeOK'
  BY <1>28 DEF KillSave, KillerMoves, SaveState
<1>29. CASE Delete
  BY <1>29 DEF Delete
<1>. QED
  BY <1>1, <1>2, <1>3, <1>4, <1>5, <1>6, <1>7, <1>8, <1>9, <1>10, <1>11,
     <1>12, <1>13, <1>14, <1>15, <1>16, <1>17, <1>18, <1>19, <1>20, <1>21,
     <1>22, <1>23, <1>24, <1>25, <1>26, <1>27, <1>28, <1>29
     DEF Next, CreatorStep, BootStep, KillStep

\* The variables keep their types, for any caller, platform and bundle.
THEOREM TypeCorrect == Safety => []TypeOK
<1>1. TypeOK /\ UNCHANGED vars => TypeOK'
  BY DEF TypeOK, vars, procs, files, cmds
<1>. QED
  BY InitTypeOK, StepTypeOK, <1>1, PTL DEF Safety

-----------------------------------------------------------------------------
(* The inductive invariant, part by part.                                  *)

\* One command at a time: Quiet guards every new one.
LEMMA StepOneCommand == WellBehaved /\ IInv /\ Next => OneCommand'
<1>. SUFFICES ASSUME WellBehaved, IInv, Next PROVE OneCommand'
  OBVIOUS
<1>. USE LifecycleAssumption DEF WellBehaved, IInv, OneCommand, TypeOK,
         CreatorBusy, CreatorDone, BootRunning, BootEnded, files, procs, cmds
<1>1. ASSUME NEW g \in Gens, CreateStat(g) PROVE OneCommand'
  BY <1>1 DEF CreateStat, CreatorMoves, BootLive, GuestLive, MayCreate,
         NameFree, Quiet
<1>2. ASSUME NEW g \in Gens, CreateMkdir(g) PROVE OneCommand'
  BY <1>2 DEF CreateMkdir, CreatorMoves, BootLive, GuestLive
<1>3. ASSUME NEW g \in Gens, CreateBoot(g) PROVE OneCommand'
  BY <1>3 DEF CreateBoot, CreatorMoves, BootLive, GuestLive
<1>4. ASSUME NEW g \in Gens, CreateReturn(g) PROVE OneCommand'
  BY <1>4 DEF CreateReturn, CreatorMoves, BootLive, GuestLive, PipeReady
<1>5. ASSUME NEW g \in Gens, CreatePanic(g) PROVE OneCommand'
  BY <1>5 DEF CreatePanic, CreatorMoves, BootLive, GuestLive, BootFailed
<1>6. ASSUME NEW g \in Gens, RunResume(g) PROVE OneCommand'
  BY <1>6 DEF RunResume, CreatorMoves, Resume, BootLive, GuestLive
<1>7. ASSUME NEW g \in Gens, BootSetup(g) PROVE OneCommand'
  BY <1>7 DEF BootSetup, BootMoves, BootLive, GuestLive
<1>8. ASSUME NEW g \in Gens, BootPid9p(g) PROVE OneCommand'
  BY <1>8 DEF BootPid9p, BootMoves, WriteExcl, BootLive, GuestLive
<1>9. ASSUME NEW g \in Gens, BootConnect(g) PROVE OneCommand'
  BY <1>9 DEF BootConnect, BootMoves, BootLive, GuestLive
<1>10. ASSUME NEW g \in Gens, BootExec(g) PROVE OneCommand'
  BY <1>10 DEF BootExec, BootMoves, BootLive, GuestLive
<1>11. ASSUME NEW g \in Gens, BootWritePid(g) PROVE OneCommand'
  BY <1>11 DEF BootWritePid, BootMoves, WriteExcl, BootLive, GuestLive
<1>12. ASSUME NEW g \in Gens, BootSigstop(g) PROVE OneCommand'
  BY <1>12 DEF BootSigstop, BootMoves, BootLive, GuestLive
<1>13. ASSUME NEW g \in Gens, BootPidFile(g) PROVE OneCommand'
  BY <1>13 DEF BootPidFile, BootMoves, BootLive, GuestLive
<1>14. ASSUME NEW g \in Gens, BootFail(g) PROVE OneCommand'
  BY <1>14 DEF BootFail, BootEnds, BootLive, GuestLive
<1>15. ASSUME NEW g \in Gens, BootSaveCreated(g) PROVE OneCommand'
  BY <1>15 DEF BootSaveCreated, SaveState, BootEnds, BootMoves, BootLive,
         GuestLive, SavePanics
<1>16. ASSUME NEW g \in Gens, BootNotify(g) PROVE OneCommand'
  BY <1>16 DEF BootNotify, BootMoves, BootLive, GuestLive
<1>17. ASSUME NEW g \in Gens, BootWait(g) PROVE OneCommand'
  BY <1>17 DEF BootWait, BootMoves, BootLive, GuestLive
<1>18. ASSUME NEW g \in Gens, BootKill9p(g) PROVE OneCommand'
  BY <1>18 DEF BootKill9p, BootMoves, EndServer, BootLive, GuestLive
<1>19. ASSUME NEW g \in Gens, BootSaveStopped(g) PROVE OneCommand'
  BY <1>19 DEF BootSaveStopped, SaveState, BootEnds, BootLive, GuestLive,
         SavePanics
<1>20. ASSUME NEW g \in Gens, GuestExit(g) PROVE OneCommand'
  BY <1>20 DEF GuestExit, Dead, BootLive, GuestLive
<1>21. ASSUME NEW g \in Gens, ServerDies(g) PROVE OneCommand'
  BY <1>21 DEF ServerDies, BootLive, GuestLive
<1>22. ASSUME NEW s \in Starts, StartCall(s) PROVE OneCommand'
  BY <1>22 DEF StartCall, StarterMoves, BootLive, GuestLive, MayStart, Quiet
<1>23. ASSUME NEW s \in Starts, StartResume(s) PROVE OneCommand'
  BY <1>23 DEF StartResume, StarterMoves, Resume, BootLive, GuestLive
<1>24. ASSUME NEW s \in Starts, StartSave(s) PROVE OneCommand'
  BY <1>24 DEF StartSave, StarterMoves, SaveState, BootLive, GuestLive
<1>25. ASSUME NEW k \in Kills, KillCall(k) PROVE OneCommand'
  BY <1>25 DEF KillCall, KillerMoves, BootLive, GuestLive, MayKill, Quiet
<1>26. ASSUME NEW k \in Kills, KillServer(k) PROVE OneCommand'
  BY <1>26 DEF KillServer, KillerMoves, EndServer, BootLive, GuestLive
<1>27. ASSUME NEW k \in Kills, KillMain(k) PROVE OneCommand'
  BY <1>27 DEF KillMain, KillerMoves, AfterSignal, Dead, BootLive, GuestLive
<1>28. ASSUME NEW k \in Kills, KillSave(k) PROVE OneCommand'
  BY <1>28 DEF KillSave, KillerMoves, SaveState, BootLive, GuestLive
<1>29. CASE Delete
  BY <1>29 DEF Delete, BootLive, GuestLive, MayDelete, ExitSeen, Quiet
<1>. QED
  BY <1>1, <1>2, <1>3, <1>4, <1>5, <1>6, <1>7, <1>8, <1>9, <1>10, <1>11,
     <1>12, <1>13, <1>14, <1>15, <1>16, <1>17, <1>18, <1>19, <1>20, <1>21,
     <1>22, <1>23, <1>24, <1>25, <1>26, <1>27, <1>28, <1>29
     DEF Next, CreatorStep, BootStep, KillStep

\* The state directory changes hands only when no helper is alive.
LEMMA StepOwnership == WellBehaved /\ IInv /\ Next => Ownership'
<1>. SUFFICES ASSUME WellBehaved, IInv, Next PROVE Ownership'
  OBVIOUS
<1>. USE LifecycleAssumption DEF WellBehaved, IInv, OneCommand, Ownership,
         BootOwnsDir, PidFileFresh, CreateExclusive, TypeOK, CreatorBusy,
         CreatorDone, BootRunning, BootEnded, files, procs, cmds
<1>1. ASSUME NEW g \in Gens, CreateStat(g) PROVE Ownership'
  BY <1>1 DEF CreateStat, CreatorMoves, BootLive, GuestLive, MayCreate,
         NameFree, Quiet
<1>2. ASSUME NEW g \in Gens, CreateMkdir(g) PROVE Ownership'
  BY <1>2 DEF CreateMkdir, CreatorMoves, BootLive, GuestLive
<1>3. ASSUME NEW g \in Gens, CreateBoot(g) PROVE Ownership'
  BY <1>3 DEF CreateBoot, CreatorMoves, BootLive, GuestLive
<1>4. ASSUME NEW g \in Gens, CreateReturn(g) PROVE Ownership'
  BY <1>4 DEF CreateReturn, CreatorMoves, BootLive, GuestLive, PipeReady
<1>5. ASSUME NEW g \in Gens, CreatePanic(g) PROVE Ownership'
  BY <1>5 DEF CreatePanic, CreatorMoves, BootLive, GuestLive, BootFailed
<1>6. ASSUME NEW g \in Gens, RunResume(g) PROVE Ownership'
  BY <1>6 DEF RunResume, CreatorMoves, Resume, BootLive, GuestLive
<1>7. ASSUME NEW g \in Gens, BootSetup(g) PROVE Ownership'
  BY <1>7 DEF BootSetup, BootMoves, BootLive, GuestLive
<1>8. ASSUME NEW g \in Gens, BootPid9p(g) PROVE Ownership'
  BY <1>8 DEF BootPid9p, BootMoves, WriteExcl, BootLive, GuestLive
<1>9. ASSUME NEW g \in Gens, BootConnect(g) PROVE Ownership'
  BY <1>9 DEF BootConnect, BootMoves, BootLive, GuestLive
<1>10. ASSUME NEW g \in Gens, BootExec(g) PROVE Ownership'
  BY <1>10 DEF BootExec, BootMoves, BootLive, GuestLive
<1>11. ASSUME NEW g \in Gens, BootWritePid(g) PROVE Ownership'
  BY <1>11 DEF BootWritePid, BootMoves, WriteExcl, BootLive, GuestLive
<1>12. ASSUME NEW g \in Gens, BootSigstop(g) PROVE Ownership'
  BY <1>12 DEF BootSigstop, BootMoves, BootLive, GuestLive
<1>13. ASSUME NEW g \in Gens, BootPidFile(g) PROVE Ownership'
  BY <1>13 DEF BootPidFile, BootMoves, BootLive, GuestLive
<1>14. ASSUME NEW g \in Gens, BootFail(g) PROVE Ownership'
  BY <1>14 DEF BootFail, BootEnds, BootLive, GuestLive
<1>15. ASSUME NEW g \in Gens, BootSaveCreated(g) PROVE Ownership'
  BY <1>15 DEF BootSaveCreated, SaveState, BootEnds, BootMoves, BootLive,
         GuestLive, SavePanics
<1>16. ASSUME NEW g \in Gens, BootNotify(g) PROVE Ownership'
  BY <1>16 DEF BootNotify, BootMoves, BootLive, GuestLive
<1>17. ASSUME NEW g \in Gens, BootWait(g) PROVE Ownership'
  BY <1>17 DEF BootWait, BootMoves, BootLive, GuestLive
<1>18. ASSUME NEW g \in Gens, BootKill9p(g) PROVE Ownership'
  BY <1>18 DEF BootKill9p, BootMoves, EndServer, BootLive, GuestLive
<1>19. ASSUME NEW g \in Gens, BootSaveStopped(g) PROVE Ownership'
  BY <1>19 DEF BootSaveStopped, SaveState, BootEnds, BootLive, GuestLive,
         SavePanics
<1>20. ASSUME NEW g \in Gens, GuestExit(g) PROVE Ownership'
  BY <1>20 DEF GuestExit, Dead, BootLive, GuestLive
<1>21. ASSUME NEW g \in Gens, ServerDies(g) PROVE Ownership'
  BY <1>21 DEF ServerDies, BootLive, GuestLive
<1>22. ASSUME NEW s \in Starts, StartCall(s) PROVE Ownership'
  BY <1>22 DEF StartCall, StarterMoves, BootLive, GuestLive, MayStart, Quiet
<1>23. ASSUME NEW s \in Starts, StartResume(s) PROVE Ownership'
  BY <1>23 DEF StartResume, StarterMoves, Resume, BootLive, GuestLive
<1>24. ASSUME NEW s \in Starts, StartSave(s) PROVE Ownership'
  BY <1>24 DEF StartSave, StarterMoves, SaveState, BootLive, GuestLive
<1>25. ASSUME NEW k \in Kills, KillCall(k) PROVE Ownership'
  BY <1>25 DEF KillCall, KillerMoves, BootLive, GuestLive, MayKill, Quiet
<1>26. ASSUME NEW k \in Kills, KillServer(k) PROVE Ownership'
  BY <1>26 DEF KillServer, KillerMoves, EndServer, BootLive, GuestLive
<1>27. ASSUME NEW k \in Kills, KillMain(k) PROVE Ownership'
  BY <1>27 DEF KillMain, KillerMoves, AfterSignal, Dead, BootLive, GuestLive
<1>28. ASSUME NEW k \in Kills, KillSave(k) PROVE Ownership'
  BY <1>28 DEF KillSave, KillerMoves, SaveState, BootLive, GuestLive
<1>29. CASE Delete
  BY <1>29 DEF Delete, BootLive, GuestLive, MayDelete, ExitSeen, Quiet
<1>. QED
  BY <1>1, <1>2, <1>3, <1>4, <1>5, <1>6, <1>7, <1>8, <1>9, <1>10, <1>11,
     <1>12, <1>13, <1>14, <1>15, <1>16, <1>17, <1>18, <1>19, <1>20, <1>21,
     <1>22, <1>23, <1>24, <1>25, <1>26, <1>27, <1>28, <1>29
     DEF Next, CreatorStep, BootStep, KillStep

\* Nothing overtakes the byte on the pipe.
LEMMA StepProgress == WellBehaved /\ IInv /\ Next => Progress'
<1>. SUFFICES ASSUME WellBehaved, IInv, Next PROVE Progress'
  OBVIOUS
<1>. USE LifecycleAssumption DEF WellBehaved, IInv, OneCommand, Ownership,
         Progress, PidKnown, AfterNotify, Returned, PidFileFresh, BeforePid,
         TypeOK, CreatorBusy, CreatorDone, BootRunning, BootEnded, files,
         procs, cmds
<1>1. ASSUME NEW g \in Gens, CreateStat(g) PROVE Progress'
  BY <1>1 DEF CreateStat, CreatorMoves, BootLive, GuestLive, MayCreate,
         NameFree, Quiet
<1>2. ASSUME NEW g \in Gens, CreateMkdir(g) PROVE Progress'
  BY <1>2 DEF CreateMkdir, CreatorMoves, BootLive, GuestLive
<1>3. ASSUME NEW g \in Gens, CreateBoot(g) PROVE Progress'
  BY <1>3 DEF CreateBoot, CreatorMoves, BootLive, GuestLive
<1>4. ASSUME NEW g \in Gens, CreateReturn(g) PROVE Progress'
  BY <1>4 DEF CreateReturn, CreatorMoves, BootLive, GuestLive, PipeReady
<1>5. ASSUME NEW g \in Gens, CreatePanic(g) PROVE Progress'
  BY <1>5 DEF CreatePanic, CreatorMoves, BootLive, GuestLive, BootFailed
<1>6. ASSUME NEW g \in Gens, RunResume(g) PROVE Progress'
  BY <1>6 DEF RunResume, CreatorMoves, Resume, BootLive, GuestLive
<1>7. ASSUME NEW g \in Gens, BootSetup(g) PROVE Progress'
  BY <1>7 DEF BootSetup, BootMoves, BootLive, GuestLive
<1>8. ASSUME NEW g \in Gens, BootPid9p(g) PROVE Progress'
  BY <1>8 DEF BootPid9p, BootMoves, WriteExcl, BootLive, GuestLive
<1>9. ASSUME NEW g \in Gens, BootConnect(g) PROVE Progress'
  BY <1>9 DEF BootConnect, BootMoves, BootLive, GuestLive
<1>10. ASSUME NEW g \in Gens, BootExec(g) PROVE Progress'
  BY <1>10 DEF BootExec, BootMoves, BootLive, GuestLive
<1>11. ASSUME NEW g \in Gens, BootWritePid(g) PROVE Progress'
  BY <1>11 DEF BootWritePid, BootMoves, WriteExcl, BootLive, GuestLive
<1>12. ASSUME NEW g \in Gens, BootSigstop(g) PROVE Progress'
  BY <1>12 DEF BootSigstop, BootMoves, BootLive, GuestLive
<1>13. ASSUME NEW g \in Gens, BootPidFile(g) PROVE Progress'
  BY <1>13 DEF BootPidFile, BootMoves, BootLive, GuestLive
<1>14. ASSUME NEW g \in Gens, BootFail(g) PROVE Progress'
  BY <1>14 DEF BootFail, BootEnds, BootLive, GuestLive
<1>15. ASSUME NEW g \in Gens, BootSaveCreated(g) PROVE Progress'
  BY <1>15 DEF BootSaveCreated, SaveState, BootEnds, BootMoves, BootLive,
         GuestLive, SavePanics
<1>16. ASSUME NEW g \in Gens, BootNotify(g) PROVE Progress'
  BY <1>16 DEF BootNotify, BootMoves, BootLive, GuestLive
<1>17. ASSUME NEW g \in Gens, BootWait(g) PROVE Progress'
  BY <1>17 DEF BootWait, BootMoves, BootLive, GuestLive
<1>18. ASSUME NEW g \in Gens, BootKill9p(g) PROVE Progress'
  BY <1>18 DEF BootKill9p, BootMoves, EndServer, BootLive, GuestLive
<1>19. ASSUME NEW g \in Gens, BootSaveStopped(g) PROVE Progress'
  BY <1>19 DEF BootSaveStopped, SaveState, BootEnds, BootLive, GuestLive,
         SavePanics
<1>20. ASSUME NEW g \in Gens, GuestExit(g) PROVE Progress'
  BY <1>20 DEF GuestExit, Dead, BootLive, GuestLive
<1>21. ASSUME NEW g \in Gens, ServerDies(g) PROVE Progress'
  BY <1>21 DEF ServerDies, BootLive, GuestLive
<1>22. ASSUME NEW s \in Starts, StartCall(s) PROVE Progress'
  BY <1>22 DEF StartCall, StarterMoves, BootLive, GuestLive, MayStart, Quiet
<1>23. ASSUME NEW s \in Starts, StartResume(s) PROVE Progress'
  BY <1>23 DEF StartResume, StarterMoves, Resume, BootLive, GuestLive
<1>24. ASSUME NEW s \in Starts, StartSave(s) PROVE Progress'
  BY <1>24 DEF StartSave, StarterMoves, SaveState, BootLive, GuestLive
<1>25. ASSUME NEW k \in Kills, KillCall(k) PROVE Progress'
  BY <1>25 DEF KillCall, KillerMoves, BootLive, GuestLive, MayKill, Quiet
<1>26. ASSUME NEW k \in Kills, KillServer(k) PROVE Progress'
  BY <1>26 DEF KillServer, KillerMoves, EndServer, BootLive, GuestLive
<1>27. ASSUME NEW k \in Kills, KillMain(k) PROVE Progress'
  BY <1>27 DEF KillMain, KillerMoves, AfterSignal, Dead, BootLive, GuestLive
<1>28. ASSUME NEW k \in Kills, KillSave(k) PROVE Progress'
  BY <1>28 DEF KillSave, KillerMoves, SaveState, BootLive, GuestLive
<1>29. CASE Delete
  BY <1>29 DEF Delete, BootLive, GuestLive, MayDelete, ExitSeen, Quiet
<1>. QED
  BY <1>1, <1>2, <1>3, <1>4, <1>5, <1>6, <1>7, <1>8, <1>9, <1>10, <1>11,
     <1>12, <1>13, <1>14, <1>15, <1>16, <1>17, <1>18, <1>19, <1>20, <1>21,
     <1>22, <1>23, <1>24, <1>25, <1>26, <1>27, <1>28, <1>29
     DEF Next, CreatorStep, BootStep, KillStep

\* The pid file of the server is written before anything can be lost.
LEMMA StepServerKnown == WellBehaved /\ IInv /\ Next => ServerKnown'
<1>. SUFFICES ASSUME WellBehaved, IInv, Next PROVE ServerKnown'
  OBVIOUS
<1>. USE LifecycleAssumption DEF WellBehaved, IInv, Ownership, Progress,
         ServerKnown, ServerStopped, BootOwnsDir, TypeOK, CreatorBusy,
         CreatorDone, BootRunning, BootEnded, files, procs, cmds
<1>1. ASSUME NEW g \in Gens, CreateStat(g) PROVE ServerKnown'
  BY <1>1 DEF CreateStat, CreatorMoves, BootLive, GuestLive, MayCreate,
         NameFree, Quiet
<1>2. ASSUME NEW g \in Gens, CreateMkdir(g) PROVE ServerKnown'
  BY <1>2 DEF CreateMkdir, CreatorMoves, BootLive, GuestLive
<1>3. ASSUME NEW g \in Gens, CreateBoot(g) PROVE ServerKnown'
  BY <1>3 DEF CreateBoot, CreatorMoves, BootLive, GuestLive
<1>4. ASSUME NEW g \in Gens, CreateReturn(g) PROVE ServerKnown'
  BY <1>4 DEF CreateReturn, CreatorMoves, BootLive, GuestLive, PipeReady
<1>5. ASSUME NEW g \in Gens, CreatePanic(g) PROVE ServerKnown'
  BY <1>5 DEF CreatePanic, CreatorMoves, BootLive, GuestLive, BootFailed
<1>6. ASSUME NEW g \in Gens, RunResume(g) PROVE ServerKnown'
  BY <1>6 DEF RunResume, CreatorMoves, Resume, BootLive, GuestLive
<1>7. ASSUME NEW g \in Gens, BootSetup(g) PROVE ServerKnown'
  BY <1>7 DEF BootSetup, BootMoves, BootLive, GuestLive
<1>8. ASSUME NEW g \in Gens, BootPid9p(g) PROVE ServerKnown'
  BY <1>8 DEF BootPid9p, BootMoves, WriteExcl, BootLive, GuestLive
<1>9. ASSUME NEW g \in Gens, BootConnect(g) PROVE ServerKnown'
  BY <1>9 DEF BootConnect, BootMoves, BootLive, GuestLive
<1>10. ASSUME NEW g \in Gens, BootExec(g) PROVE ServerKnown'
  BY <1>10 DEF BootExec, BootMoves, BootLive, GuestLive
<1>11. ASSUME NEW g \in Gens, BootWritePid(g) PROVE ServerKnown'
  BY <1>11 DEF BootWritePid, BootMoves, WriteExcl, BootLive, GuestLive
<1>12. ASSUME NEW g \in Gens, BootSigstop(g) PROVE ServerKnown'
  BY <1>12 DEF BootSigstop, BootMoves, BootLive, GuestLive
<1>13. ASSUME NEW g \in Gens, BootPidFile(g) PROVE ServerKnown'
  BY <1>13 DEF BootPidFile, BootMoves, BootLive, GuestLive
<1>14. ASSUME NEW g \in Gens, BootFail(g) PROVE ServerKnown'
  BY <1>14 DEF BootFail, BootEnds, BootLive, GuestLive
<1>15. ASSUME NEW g \in Gens, BootSaveCreated(g) PROVE ServerKnown'
  BY <1>15 DEF BootSaveCreated, SaveState, BootEnds, BootMoves, BootLive,
         GuestLive, SavePanics
<1>16. ASSUME NEW g \in Gens, BootNotify(g) PROVE ServerKnown'
  BY <1>16 DEF BootNotify, BootMoves, BootLive, GuestLive
<1>17. ASSUME NEW g \in Gens, BootWait(g) PROVE ServerKnown'
  BY <1>17 DEF BootWait, BootMoves, BootLive, GuestLive
<1>18. ASSUME NEW g \in Gens, BootKill9p(g) PROVE ServerKnown'
  BY <1>18 DEF BootKill9p, BootMoves, EndServer, BootLive, GuestLive
<1>19. ASSUME NEW g \in Gens, BootSaveStopped(g) PROVE ServerKnown'
  BY <1>19 DEF BootSaveStopped, SaveState, BootEnds, BootLive, GuestLive,
         SavePanics
<1>20. ASSUME NEW g \in Gens, GuestExit(g) PROVE ServerKnown'
  BY <1>20 DEF GuestExit, Dead, BootLive, GuestLive
<1>21. ASSUME NEW g \in Gens, ServerDies(g) PROVE ServerKnown'
  BY <1>21 DEF ServerDies, BootLive, GuestLive
<1>22. ASSUME NEW s \in Starts, StartCall(s) PROVE ServerKnown'
  BY <1>22 DEF StartCall, StarterMoves, BootLive, GuestLive, MayStart, Quiet
<1>23. ASSUME NEW s \in Starts, StartResume(s) PROVE ServerKnown'
  BY <1>23 DEF StartResume, StarterMoves, Resume, BootLive, GuestLive
<1>24. ASSUME NEW s \in Starts, StartSave(s) PROVE ServerKnown'
  BY <1>24 DEF StartSave, StarterMoves, SaveState, BootLive, GuestLive
<1>25. ASSUME NEW k \in Kills, KillCall(k) PROVE ServerKnown'
  BY <1>25 DEF KillCall, KillerMoves, BootLive, GuestLive, MayKill, Quiet
<1>26. ASSUME NEW k \in Kills, KillServer(k) PROVE ServerKnown'
  BY <1>26 DEF KillServer, KillerMoves, EndServer, BootLive, GuestLive
<1>27. ASSUME NEW k \in Kills, KillMain(k) PROVE ServerKnown'
  BY <1>27 DEF KillMain, KillerMoves, AfterSignal, Dead, BootLive, GuestLive
<1>28. ASSUME NEW k \in Kills, KillSave(k) PROVE ServerKnown'
  BY <1>28 DEF KillSave, KillerMoves, SaveState, BootLive, GuestLive
<1>29. CASE Delete
  BY <1>29 DEF Delete, BootLive, GuestLive, MayDelete, ExitSeen, Quiet
<1>. QED
  BY <1>1, <1>2, <1>3, <1>4, <1>5, <1>6, <1>7, <1>8, <1>9, <1>10, <1>11,
     <1>12, <1>13, <1>14, <1>15, <1>16, <1>17, <1>18, <1>19, <1>20, <1>21,
     <1>22, <1>23, <1>24, <1>25, <1>26, <1>27, <1>28, <1>29
     DEF Next, CreatorStep, BootStep, KillStep

\* runu.pid is the guest of the owner.
LEMMA StepPidKnown == WellBehaved /\ IInv /\ Next => PidKnown'
<1>. SUFFICES ASSUME WellBehaved, IInv, Next PROVE PidKnown'
  OBVIOUS
<1>. USE LifecycleAssumption DEF WellBehaved, IInv, Ownership, Progress,
         PidKnown, BeforePid, AfterNotify, Returned, BootOwnsDir,
         CreateExclusive, TypeOK, CreatorBusy, CreatorDone, BootRunning,
         BootEnded, files, procs, cmds
<1>1. ASSUME NEW g \in Gens, CreateStat(g) PROVE PidKnown'
  BY <1>1 DEF CreateStat, CreatorMoves, BootLive, GuestLive, MayCreate,
         NameFree, Quiet
<1>2. ASSUME NEW g \in Gens, CreateMkdir(g) PROVE PidKnown'
  BY <1>2 DEF CreateMkdir, CreatorMoves, BootLive, GuestLive
<1>3. ASSUME NEW g \in Gens, CreateBoot(g) PROVE PidKnown'
  BY <1>3 DEF CreateBoot, CreatorMoves, BootLive, GuestLive
<1>4. ASSUME NEW g \in Gens, CreateReturn(g) PROVE PidKnown'
  BY <1>4 DEF CreateReturn, CreatorMoves, BootLive, GuestLive, PipeReady
<1>5. ASSUME NEW g \in Gens, CreatePanic(g) PROVE PidKnown'
  BY <1>5 DEF CreatePanic, CreatorMoves, BootLive, GuestLive, BootFailed
<1>6. ASSUME NEW g \in Gens, RunResume(g) PROVE PidKnown'
  BY <1>6 DEF RunResume, CreatorMoves, Resume, BootLive, GuestLive
<1>7. ASSUME NEW g \in Gens, BootSetup(g) PROVE PidKnown'
  BY <1>7 DEF BootSetup, BootMoves, BootLive, GuestLive
<1>8. ASSUME NEW g \in Gens, BootPid9p(g) PROVE PidKnown'
  BY <1>8 DEF BootPid9p, BootMoves, WriteExcl, BootLive, GuestLive
<1>9. ASSUME NEW g \in Gens, BootConnect(g) PROVE PidKnown'
  BY <1>9 DEF BootConnect, BootMoves, BootLive, GuestLive
<1>10. ASSUME NEW g \in Gens, BootExec(g) PROVE PidKnown'
  BY <1>10 DEF BootExec, BootMoves, BootLive, GuestLive
<1>11. ASSUME NEW g \in Gens, BootWritePid(g) PROVE PidKnown'
  BY <1>11 DEF BootWritePid, BootMoves, WriteExcl, BootLive, GuestLive
<1>12. ASSUME NEW g \in Gens, BootSigstop(g) PROVE PidKnown'
  BY <1>12 DEF BootSigstop, BootMoves, BootLive, GuestLive
<1>13. ASSUME NEW g \in Gens, BootPidFile(g) PROVE PidKnown'
  BY <1>13 DEF BootPidFile, BootMoves, BootLive, GuestLive
<1>14. ASSUME NEW g \in Gens, BootFail(g) PROVE PidKnown'
  BY <1>14 DEF BootFail, BootEnds, BootLive, GuestLive
<1>15. ASSUME NEW g \in Gens, BootSaveCreated(g) PROVE PidKnown'
  BY <1>15 DEF BootSaveCreated, SaveState, BootEnds, BootMoves, BootLive,
         GuestLive, SavePanics
<1>16. ASSUME NEW g \in Gens, BootNotify(g) PROVE PidKnown'
  BY <1>16 DEF BootNotify, BootMoves, BootLive, GuestLive
<1>17. ASSUME NEW g \in Gens, BootWait(g) PROVE PidKnown'
  BY <1>17 DEF BootWait, BootMoves, BootLive, GuestLive
<1>18. ASSUME NEW g \in Gens, BootKill9p(g) PROVE PidKnown'
  BY <1>18 DEF BootKill9p, BootMoves, EndServer, BootLive, GuestLive
<1>19. ASSUME NEW g \in Gens, BootSaveStopped(g) PROVE PidKnown'
  BY <1>19 DEF BootSaveStopped, SaveState, BootEnds, BootLive, GuestLive,
         SavePanics
<1>20. ASSUME NEW g \in Gens, GuestExit(g) PROVE PidKnown'
  BY <1>20 DEF GuestExit, Dead, BootLive, GuestLive
<1>21. ASSUME NEW g \in Gens, ServerDies(g) PROVE PidKnown'
  BY <1>21 DEF ServerDies, BootLive, GuestLive
<1>22. ASSUME NEW s \in Starts, StartCall(s) PROVE PidKnown'
  BY <1>22 DEF StartCall, StarterMoves, BootLive, GuestLive, MayStart, Quiet
<1>23. ASSUME NEW s \in Starts, StartResume(s) PROVE PidKnown'
  BY <1>23 DEF StartResume, StarterMoves, Resume, BootLive, GuestLive
<1>24. ASSUME NEW s \in Starts, StartSave(s) PROVE PidKnown'
  BY <1>24 DEF StartSave, StarterMoves, SaveState, BootLive, GuestLive
<1>25. ASSUME NEW k \in Kills, KillCall(k) PROVE PidKnown'
  BY <1>25 DEF KillCall, KillerMoves, BootLive, GuestLive, MayKill, Quiet
<1>26. ASSUME NEW k \in Kills, KillServer(k) PROVE PidKnown'
  BY <1>26 DEF KillServer, KillerMoves, EndServer, BootLive, GuestLive
<1>27. ASSUME NEW k \in Kills, KillMain(k) PROVE PidKnown'
  BY <1>27 DEF KillMain, KillerMoves, AfterSignal, Dead, BootLive, GuestLive
<1>28. ASSUME NEW k \in Kills, KillSave(k) PROVE PidKnown'
  BY <1>28 DEF KillSave, KillerMoves, SaveState, BootLive, GuestLive
<1>29. CASE Delete
  BY <1>29 DEF Delete, BootLive, GuestLive, MayDelete, ExitSeen, Quiet
<1>. QED
  BY <1>1, <1>2, <1>3, <1>4, <1>5, <1>6, <1>7, <1>8, <1>9, <1>10, <1>11,
     <1>12, <1>13, <1>14, <1>15, <1>16, <1>17, <1>18, <1>19, <1>20, <1>21,
     <1>22, <1>23, <1>24, <1>25, <1>26, <1>27, <1>28, <1>29
     DEF Next, CreatorStep, BootStep, KillStep

\* No command but the helper writes before the byte on the pipe.
LEMMA StepStatusFresh == WellBehaved /\ IInv /\ Next => StatusFresh'
<1>. SUFFICES ASSUME WellBehaved, IInv, Next PROVE StatusFresh'
  OBVIOUS
<1>. USE LifecycleAssumption DEF WellBehaved, IInv, OneCommand, Ownership,
         Progress, StatusFresh, AfterNotify, Returned, BootOwnsDir, BeforePid,
         BeforeSave, CreateExclusive, TypeOK, CreatorBusy, CreatorDone,
         BootRunning, BootEnded, files, procs, cmds
<1>1. ASSUME NEW g \in Gens, CreateStat(g) PROVE StatusFresh'
  BY <1>1 DEF CreateStat, CreatorMoves, BootLive, GuestLive, MayCreate,
         NameFree, Quiet
<1>2. ASSUME NEW g \in Gens, CreateMkdir(g) PROVE StatusFresh'
  BY <1>2 DEF CreateMkdir, CreatorMoves, BootLive, GuestLive
<1>3. ASSUME NEW g \in Gens, CreateBoot(g) PROVE StatusFresh'
  BY <1>3 DEF CreateBoot, CreatorMoves, BootLive, GuestLive
<1>4. ASSUME NEW g \in Gens, CreateReturn(g) PROVE StatusFresh'
  BY <1>4 DEF CreateReturn, CreatorMoves, BootLive, GuestLive, PipeReady
<1>5. ASSUME NEW g \in Gens, CreatePanic(g) PROVE StatusFresh'
  BY <1>5 DEF CreatePanic, CreatorMoves, BootLive, GuestLive, BootFailed
<1>6. ASSUME NEW g \in Gens, RunResume(g) PROVE StatusFresh'
  BY <1>6 DEF RunResume, CreatorMoves, Resume, BootLive, GuestLive
<1>7. ASSUME NEW g \in Gens, BootSetup(g) PROVE StatusFresh'
  BY <1>7 DEF BootSetup, BootMoves, BootLive, GuestLive
<1>8. ASSUME NEW g \in Gens, BootPid9p(g) PROVE StatusFresh'
  BY <1>8 DEF BootPid9p, BootMoves, WriteExcl, BootLive, GuestLive
<1>9. ASSUME NEW g \in Gens, BootConnect(g) PROVE StatusFresh'
  BY <1>9 DEF BootConnect, BootMoves, BootLive, GuestLive
<1>10. ASSUME NEW g \in Gens, BootExec(g) PROVE StatusFresh'
  BY <1>10 DEF BootExec, BootMoves, BootLive, GuestLive
<1>11. ASSUME NEW g \in Gens, BootWritePid(g) PROVE StatusFresh'
  BY <1>11 DEF BootWritePid, BootMoves, WriteExcl, BootLive, GuestLive
<1>12. ASSUME NEW g \in Gens, BootSigstop(g) PROVE StatusFresh'
  BY <1>12 DEF BootSigstop, BootMoves, BootLive, GuestLive
<1>13. ASSUME NEW g \in Gens, BootPidFile(g) PROVE StatusFresh'
  BY <1>13 DEF BootPidFile, BootMoves, BootLive, GuestLive
<1>14. ASSUME NEW g \in Gens, BootFail(g) PROVE StatusFresh'
  BY <1>14 DEF BootFail, BootEnds, BootLive, GuestLive
<1>15. ASSUME NEW g \in Gens, BootSaveCreated(g) PROVE StatusFresh'
  BY <1>15 DEF BootSaveCreated, SaveState, BootEnds, BootMoves, BootLive,
         GuestLive, SavePanics
<1>16. ASSUME NEW g \in Gens, BootNotify(g) PROVE StatusFresh'
  BY <1>16 DEF BootNotify, BootMoves, BootLive, GuestLive
<1>17. ASSUME NEW g \in Gens, BootWait(g) PROVE StatusFresh'
  BY <1>17 DEF BootWait, BootMoves, BootLive, GuestLive
<1>18. ASSUME NEW g \in Gens, BootKill9p(g) PROVE StatusFresh'
  BY <1>18 DEF BootKill9p, BootMoves, EndServer, BootLive, GuestLive
<1>19. ASSUME NEW g \in Gens, BootSaveStopped(g) PROVE StatusFresh'
  BY <1>19 DEF BootSaveStopped, SaveState, BootEnds, BootLive, GuestLive,
         SavePanics
<1>20. ASSUME NEW g \in Gens, GuestExit(g) PROVE StatusFresh'
  BY <1>20 DEF GuestExit, Dead, BootLive, GuestLive
<1>21. ASSUME NEW g \in Gens, ServerDies(g) PROVE StatusFresh'
  BY <1>21 DEF ServerDies, BootLive, GuestLive
<1>22. ASSUME NEW s \in Starts, StartCall(s) PROVE StatusFresh'
  BY <1>22 DEF StartCall, StarterMoves, BootLive, GuestLive, MayStart, Quiet
<1>23. ASSUME NEW s \in Starts, StartResume(s) PROVE StatusFresh'
  BY <1>23 DEF StartResume, StarterMoves, Resume, BootLive, GuestLive
<1>24. ASSUME NEW s \in Starts, StartSave(s) PROVE StatusFresh'
  BY <1>24 DEF StartSave, StarterMoves, SaveState, BootLive, GuestLive
<1>25. ASSUME NEW k \in Kills, KillCall(k) PROVE StatusFresh'
  BY <1>25 DEF KillCall, KillerMoves, BootLive, GuestLive, MayKill, Quiet
<1>26. ASSUME NEW k \in Kills, KillServer(k) PROVE StatusFresh'
  BY <1>26 DEF KillServer, KillerMoves, EndServer, BootLive, GuestLive
<1>27. ASSUME NEW k \in Kills, KillMain(k) PROVE StatusFresh'
  BY <1>27 DEF KillMain, KillerMoves, AfterSignal, Dead, BootLive, GuestLive
<1>28. ASSUME NEW k \in Kills, KillSave(k) PROVE StatusFresh'
  BY <1>28 DEF KillSave, KillerMoves, SaveState, BootLive, GuestLive
<1>29. CASE Delete
  BY <1>29 DEF Delete, BootLive, GuestLive, MayDelete, ExitSeen, Quiet
<1>. QED
  BY <1>1, <1>2, <1>3, <1>4, <1>5, <1>6, <1>7, <1>8, <1>9, <1>10, <1>11,
     <1>12, <1>13, <1>14, <1>15, <1>16, <1>17, <1>18, <1>19, <1>20, <1>21,
     <1>22, <1>23, <1>24, <1>25, <1>26, <1>27, <1>28, <1>29
     DEF Next, CreatorStep, BootStep, KillStep

\* The SIGSTOP is over before anybody can send a SIGCONT.
LEMMA StepNoLostWake == WellBehaved /\ IInv /\ Next => NoLostWake'
<1>. SUFFICES ASSUME WellBehaved, IInv, Next PROVE NoLostWake'
  OBVIOUS
<1>. USE LifecycleAssumption DEF WellBehaved, IInv, OneCommand, Ownership,
         Progress, PidKnown, NoLostWake, AfterNotify, Returned, BootOwnsDir,
         BeforePid, PidFileFresh, TypeOK, CreatorBusy, CreatorDone,
         BootRunning, BootEnded, files, procs, cmds
<1>1. ASSUME NEW g \in Gens, CreateStat(g) PROVE NoLostWake'
  BY <1>1 DEF CreateStat, CreatorMoves, BootLive, GuestLive, MayCreate,
         NameFree, Quiet
<1>2. ASSUME NEW g \in Gens, CreateMkdir(g) PROVE NoLostWake'
  BY <1>2 DEF CreateMkdir, CreatorMoves, BootLive, GuestLive
<1>3. ASSUME NEW g \in Gens, CreateBoot(g) PROVE NoLostWake'
  BY <1>3 DEF CreateBoot, CreatorMoves, BootLive, GuestLive
<1>4. ASSUME NEW g \in Gens, CreateReturn(g) PROVE NoLostWake'
  BY <1>4 DEF CreateReturn, CreatorMoves, BootLive, GuestLive, PipeReady
<1>5. ASSUME NEW g \in Gens, CreatePanic(g) PROVE NoLostWake'
  BY <1>5 DEF CreatePanic, CreatorMoves, BootLive, GuestLive, BootFailed
<1>6. ASSUME NEW g \in Gens, RunResume(g) PROVE NoLostWake'
  BY <1>6 DEF RunResume, CreatorMoves, Resume, BootLive, GuestLive
<1>7. ASSUME NEW g \in Gens, BootSetup(g) PROVE NoLostWake'
  BY <1>7 DEF BootSetup, BootMoves, BootLive, GuestLive
<1>8. ASSUME NEW g \in Gens, BootPid9p(g) PROVE NoLostWake'
  BY <1>8 DEF BootPid9p, BootMoves, WriteExcl, BootLive, GuestLive
<1>9. ASSUME NEW g \in Gens, BootConnect(g) PROVE NoLostWake'
  BY <1>9 DEF BootConnect, BootMoves, BootLive, GuestLive
<1>10. ASSUME NEW g \in Gens, BootExec(g) PROVE NoLostWake'
  BY <1>10 DEF BootExec, BootMoves, BootLive, GuestLive
<1>11. ASSUME NEW g \in Gens, BootWritePid(g) PROVE NoLostWake'
  BY <1>11 DEF BootWritePid, BootMoves, WriteExcl, BootLive, GuestLive
<1>12. ASSUME NEW g \in Gens, BootSigstop(g) PROVE NoLostWake'
  BY <1>12 DEF BootSigstop, BootMoves, BootLive, GuestLive
<1>13. ASSUME NEW g \in Gens, BootPidFile(g) PROVE NoLostWake'
  BY <1>13 DEF BootPidFile, BootMoves, BootLive, GuestLive
<1>14. ASSUME NEW g \in Gens, BootFail(g) PROVE NoLostWake'
  BY <1>14 DEF BootFail, BootEnds, BootLive, GuestLive
<1>15. ASSUME NEW g \in Gens, BootSaveCreated(g) PROVE NoLostWake'
  BY <1>15 DEF BootSaveCreated, SaveState, BootEnds, BootMoves, BootLive,
         GuestLive, SavePanics
<1>16. ASSUME NEW g \in Gens, BootNotify(g) PROVE NoLostWake'
  BY <1>16 DEF BootNotify, BootMoves, BootLive, GuestLive
<1>17. ASSUME NEW g \in Gens, BootWait(g) PROVE NoLostWake'
  BY <1>17 DEF BootWait, BootMoves, BootLive, GuestLive
<1>18. ASSUME NEW g \in Gens, BootKill9p(g) PROVE NoLostWake'
  BY <1>18 DEF BootKill9p, BootMoves, EndServer, BootLive, GuestLive
<1>19. ASSUME NEW g \in Gens, BootSaveStopped(g) PROVE NoLostWake'
  BY <1>19 DEF BootSaveStopped, SaveState, BootEnds, BootLive, GuestLive,
         SavePanics
<1>20. ASSUME NEW g \in Gens, GuestExit(g) PROVE NoLostWake'
  BY <1>20 DEF GuestExit, Dead, BootLive, GuestLive
<1>21. ASSUME NEW g \in Gens, ServerDies(g) PROVE NoLostWake'
  BY <1>21 DEF ServerDies, BootLive, GuestLive
<1>22. ASSUME NEW s \in Starts, StartCall(s) PROVE NoLostWake'
  BY <1>22 DEF StartCall, StarterMoves, BootLive, GuestLive, MayStart, Quiet
<1>23. ASSUME NEW s \in Starts, StartResume(s) PROVE NoLostWake'
  BY <1>23 DEF StartResume, StarterMoves, Resume, BootLive, GuestLive
<1>24. ASSUME NEW s \in Starts, StartSave(s) PROVE NoLostWake'
  BY <1>24 DEF StartSave, StarterMoves, SaveState, BootLive, GuestLive
<1>25. ASSUME NEW k \in Kills, KillCall(k) PROVE NoLostWake'
  BY <1>25 DEF KillCall, KillerMoves, BootLive, GuestLive, MayKill, Quiet
<1>26. ASSUME NEW k \in Kills, KillServer(k) PROVE NoLostWake'
  BY <1>26 DEF KillServer, KillerMoves, EndServer, BootLive, GuestLive
<1>27. ASSUME NEW k \in Kills, KillMain(k) PROVE NoLostWake'
  BY <1>27 DEF KillMain, KillerMoves, AfterSignal, Dead, BootLive, GuestLive
<1>28. ASSUME NEW k \in Kills, KillSave(k) PROVE NoLostWake'
  BY <1>28 DEF KillSave, KillerMoves, SaveState, BootLive, GuestLive
<1>29. CASE Delete
  BY <1>29 DEF Delete, BootLive, GuestLive, MayDelete, ExitSeen, Quiet
<1>. QED
  BY <1>1, <1>2, <1>3, <1>4, <1>5, <1>6, <1>7, <1>8, <1>9, <1>10, <1>11,
     <1>12, <1>13, <1>14, <1>15, <1>16, <1>17, <1>18, <1>19, <1>20, <1>21,
     <1>22, <1>23, <1>24, <1>25, <1>26, <1>27, <1>28, <1>29
     DEF Next, CreatorStep, BootStep, KillStep

\* A helper that waits for its guest ends after it, and only such a helper's
\* guest is sent a SIGCONT.
LEMMA StepAttended == WellBehaved /\ IInv /\ Attended /\ Next => Attended'
<1>. SUFFICES ASSUME WellBehaved, IInv, Attended, Next PROVE Attended'
  OBVIOUS
<1>. USE LifecycleAssumption DEF WellBehaved, IInv, OneCommand, Ownership,
         Progress, PidKnown, Attended, CreateExclusive, AfterNotify, Returned, BootOwnsDir,
         BeforePid, PidFileFresh, TypeOK, CreatorBusy, CreatorDone,
         BootRunning, BootEnded, files, procs, cmds
<1>1. ASSUME NEW g \in Gens, CreateStat(g) PROVE Attended'
  BY <1>1 DEF CreateStat, CreatorMoves, BootLive, GuestLive, MayCreate,
         NameFree, Quiet
<1>2. ASSUME NEW g \in Gens, CreateMkdir(g) PROVE Attended'
  BY <1>2 DEF CreateMkdir, CreatorMoves, BootLive, GuestLive
<1>3. ASSUME NEW g \in Gens, CreateBoot(g) PROVE Attended'
  BY <1>3 DEF CreateBoot, CreatorMoves, BootLive, GuestLive
<1>4. ASSUME NEW g \in Gens, CreateReturn(g) PROVE Attended'
  BY <1>4 DEF CreateReturn, CreatorMoves, BootLive, GuestLive, PipeReady
<1>5. ASSUME NEW g \in Gens, CreatePanic(g) PROVE Attended'
  BY <1>5 DEF CreatePanic, CreatorMoves, BootLive, GuestLive, BootFailed
<1>6. ASSUME NEW g \in Gens, RunResume(g) PROVE Attended'
  BY <1>6 DEF RunResume, CreatorMoves, Resume, BootLive, GuestLive
<1>7. ASSUME NEW g \in Gens, BootSetup(g) PROVE Attended'
  BY <1>7 DEF BootSetup, BootMoves, BootLive, GuestLive
<1>8. ASSUME NEW g \in Gens, BootPid9p(g) PROVE Attended'
  BY <1>8 DEF BootPid9p, BootMoves, WriteExcl, BootLive, GuestLive
<1>9. ASSUME NEW g \in Gens, BootConnect(g) PROVE Attended'
  BY <1>9 DEF BootConnect, BootMoves, BootLive, GuestLive
<1>10. ASSUME NEW g \in Gens, BootExec(g) PROVE Attended'
  BY <1>10 DEF BootExec, BootMoves, BootLive, GuestLive
<1>11. ASSUME NEW g \in Gens, BootWritePid(g) PROVE Attended'
  BY <1>11 DEF BootWritePid, BootMoves, WriteExcl, BootLive, GuestLive
<1>12. ASSUME NEW g \in Gens, BootSigstop(g) PROVE Attended'
  BY <1>12 DEF BootSigstop, BootMoves, BootLive, GuestLive
<1>13. ASSUME NEW g \in Gens, BootPidFile(g) PROVE Attended'
  BY <1>13 DEF BootPidFile, BootMoves, BootLive, GuestLive
<1>14. ASSUME NEW g \in Gens, BootFail(g) PROVE Attended'
  BY <1>14 DEF BootFail, BootEnds, BootLive, GuestLive
<1>15. ASSUME NEW g \in Gens, BootSaveCreated(g) PROVE Attended'
  BY <1>15 DEF BootSaveCreated, SaveState, BootEnds, BootMoves, BootLive,
         GuestLive, SavePanics
<1>16. ASSUME NEW g \in Gens, BootNotify(g) PROVE Attended'
  BY <1>16 DEF BootNotify, BootMoves, BootLive, GuestLive
<1>17. ASSUME NEW g \in Gens, BootWait(g) PROVE Attended'
  BY <1>17 DEF BootWait, BootMoves, BootLive, GuestLive
<1>18. ASSUME NEW g \in Gens, BootKill9p(g) PROVE Attended'
  BY <1>18 DEF BootKill9p, BootMoves, EndServer, BootLive, GuestLive
<1>19. ASSUME NEW g \in Gens, BootSaveStopped(g) PROVE Attended'
  BY <1>19 DEF BootSaveStopped, SaveState, BootEnds, BootLive, GuestLive,
         SavePanics
<1>20. ASSUME NEW g \in Gens, GuestExit(g) PROVE Attended'
  BY <1>20 DEF GuestExit, Dead, BootLive, GuestLive
<1>21. ASSUME NEW g \in Gens, ServerDies(g) PROVE Attended'
  BY <1>21 DEF ServerDies, BootLive, GuestLive
<1>22. ASSUME NEW s \in Starts, StartCall(s) PROVE Attended'
  BY <1>22 DEF StartCall, StarterMoves, BootLive, GuestLive, MayStart, Quiet
<1>23. ASSUME NEW s \in Starts, StartResume(s) PROVE Attended'
  BY <1>23 DEF StartResume, StarterMoves, Resume, BootLive, GuestLive
<1>24. ASSUME NEW s \in Starts, StartSave(s) PROVE Attended'
  BY <1>24 DEF StartSave, StarterMoves, SaveState, BootLive, GuestLive
<1>25. ASSUME NEW k \in Kills, KillCall(k) PROVE Attended'
  BY <1>25 DEF KillCall, KillerMoves, BootLive, GuestLive, MayKill, Quiet
<1>26. ASSUME NEW k \in Kills, KillServer(k) PROVE Attended'
  BY <1>26 DEF KillServer, KillerMoves, EndServer, BootLive, GuestLive
<1>27. ASSUME NEW k \in Kills, KillMain(k) PROVE Attended'
  BY <1>27 DEF KillMain, KillerMoves, AfterSignal, Dead, BootLive, GuestLive
<1>28. ASSUME NEW k \in Kills, KillSave(k) PROVE Attended'
  BY <1>28 DEF KillSave, KillerMoves, SaveState, BootLive, GuestLive
<1>29. CASE Delete
  BY <1>29 DEF Delete, BootLive, GuestLive, MayDelete, ExitSeen, Quiet
<1>. QED
  BY <1>1, <1>2, <1>3, <1>4, <1>5, <1>6, <1>7, <1>8, <1>9, <1>10, <1>11,
     <1>12, <1>13, <1>14, <1>15, <1>16, <1>17, <1>18, <1>19, <1>20, <1>21,
     <1>22, <1>23, <1>24, <1>25, <1>26, <1>27, <1>28, <1>29
     DEF Next, CreatorStep, BootStep, KillStep

\* With SIGKILL, nothing is called stopped that is alive.
LEMMA StepStatusTrue ==
  WellBehaved /\ IInv /\ StatusTrue /\ KillOnly /\ Next => StatusTrue'
<1>. SUFFICES ASSUME WellBehaved, IInv, StatusTrue, KillOnly, Next PROVE StatusTrue'
  OBVIOUS
<1>. USE LifecycleAssumption DEF WellBehaved, IInv, KillOnly, OneCommand,
         Ownership, Progress, PidKnown, StatusFresh, StatusTrue, AfterNotify,
         Returned, BootOwnsDir, BeforePid, BeforeSave, PidFileFresh,
         CreateExclusive, StoppedTruth, TypeOK, CreatorBusy, CreatorDone,
         BootRunning, BootEnded, files, procs, cmds
<1>1. ASSUME NEW g \in Gens, CreateStat(g) PROVE StatusTrue'
  BY <1>1 DEF CreateStat, CreatorMoves, BootLive, GuestLive, MayCreate,
         NameFree, Quiet
<1>2. ASSUME NEW g \in Gens, CreateMkdir(g) PROVE StatusTrue'
  BY <1>2 DEF CreateMkdir, CreatorMoves, BootLive, GuestLive
<1>3. ASSUME NEW g \in Gens, CreateBoot(g) PROVE StatusTrue'
  BY <1>3 DEF CreateBoot, CreatorMoves, BootLive, GuestLive
<1>4. ASSUME NEW g \in Gens, CreateReturn(g) PROVE StatusTrue'
  BY <1>4 DEF CreateReturn, CreatorMoves, BootLive, GuestLive, PipeReady
<1>5. ASSUME NEW g \in Gens, CreatePanic(g) PROVE StatusTrue'
  BY <1>5 DEF CreatePanic, CreatorMoves, BootLive, GuestLive, BootFailed
<1>6. ASSUME NEW g \in Gens, RunResume(g) PROVE StatusTrue'
  BY <1>6 DEF RunResume, CreatorMoves, Resume, BootLive, GuestLive
<1>7. ASSUME NEW g \in Gens, BootSetup(g) PROVE StatusTrue'
  BY <1>7 DEF BootSetup, BootMoves, BootLive, GuestLive
<1>8. ASSUME NEW g \in Gens, BootPid9p(g) PROVE StatusTrue'
  BY <1>8 DEF BootPid9p, BootMoves, WriteExcl, BootLive, GuestLive
<1>9. ASSUME NEW g \in Gens, BootConnect(g) PROVE StatusTrue'
  BY <1>9 DEF BootConnect, BootMoves, BootLive, GuestLive
<1>10. ASSUME NEW g \in Gens, BootExec(g) PROVE StatusTrue'
  BY <1>10 DEF BootExec, BootMoves, BootLive, GuestLive
<1>11. ASSUME NEW g \in Gens, BootWritePid(g) PROVE StatusTrue'
  BY <1>11 DEF BootWritePid, BootMoves, WriteExcl, BootLive, GuestLive
<1>12. ASSUME NEW g \in Gens, BootSigstop(g) PROVE StatusTrue'
  BY <1>12 DEF BootSigstop, BootMoves, BootLive, GuestLive
<1>13. ASSUME NEW g \in Gens, BootPidFile(g) PROVE StatusTrue'
  BY <1>13 DEF BootPidFile, BootMoves, BootLive, GuestLive
<1>14. ASSUME NEW g \in Gens, BootFail(g) PROVE StatusTrue'
  BY <1>14 DEF BootFail, BootEnds, BootLive, GuestLive
<1>15. ASSUME NEW g \in Gens, BootSaveCreated(g) PROVE StatusTrue'
  BY <1>15 DEF BootSaveCreated, SaveState, BootEnds, BootMoves, BootLive,
         GuestLive, SavePanics
<1>16. ASSUME NEW g \in Gens, BootNotify(g) PROVE StatusTrue'
  BY <1>16 DEF BootNotify, BootMoves, BootLive, GuestLive
<1>17. ASSUME NEW g \in Gens, BootWait(g) PROVE StatusTrue'
  BY <1>17 DEF BootWait, BootMoves, BootLive, GuestLive
<1>18. ASSUME NEW g \in Gens, BootKill9p(g) PROVE StatusTrue'
  BY <1>18 DEF BootKill9p, BootMoves, EndServer, BootLive, GuestLive
<1>19. ASSUME NEW g \in Gens, BootSaveStopped(g) PROVE StatusTrue'
  BY <1>19 DEF BootSaveStopped, SaveState, BootEnds, BootLive, GuestLive,
         SavePanics
<1>20. ASSUME NEW g \in Gens, GuestExit(g) PROVE StatusTrue'
  BY <1>20 DEF GuestExit, Dead, BootLive, GuestLive
<1>21. ASSUME NEW g \in Gens, ServerDies(g) PROVE StatusTrue'
  BY <1>21 DEF ServerDies, BootLive, GuestLive
<1>22. ASSUME NEW s \in Starts, StartCall(s) PROVE StatusTrue'
  BY <1>22 DEF StartCall, StarterMoves, BootLive, GuestLive, MayStart, Quiet
<1>23. ASSUME NEW s \in Starts, StartResume(s) PROVE StatusTrue'
  BY <1>23 DEF StartResume, StarterMoves, Resume, BootLive, GuestLive
<1>24. ASSUME NEW s \in Starts, StartSave(s) PROVE StatusTrue'
  BY <1>24 DEF StartSave, StarterMoves, SaveState, BootLive, GuestLive
<1>25. ASSUME NEW k \in Kills, KillCall(k) PROVE StatusTrue'
  BY <1>25 DEF KillCall, KillerMoves, BootLive, GuestLive, MayKill, Quiet
<1>26. ASSUME NEW k \in Kills, KillServer(k) PROVE StatusTrue'
  BY <1>26 DEF KillServer, KillerMoves, EndServer, BootLive, GuestLive
<1>27. ASSUME NEW k \in Kills, KillMain(k) PROVE StatusTrue'
  <2>1. PICK h \in dir : creator[h] = "created"
    BY <1>27 DEF KillMain, KillerMoves, OneCommand
  <2>2. dir = {h} /\ pid = h
    BY <2>1 DEF Ownership, CreateExclusive, Progress, Returned, PidKnown
  <2>3. PICK after \in AfterSignal(h, "KILL") : guest' = [guest EXCEPT ![h] = after]
    BY <1>27, <2>2 DEF KillMain
  <2>4. after \notin {"running", "stopped"} /\ (guest[h] = "gone" => after = "gone")
    BY <2>3 DEF AfterSignal, Dead, GuestLive
  <2>5. ~GuestLive(h)' /\ (guest[h] = "gone" => guest'[h] = "gone")
        /\ \A g \in Gens \ {h} : guest'[g] = guest[g]
    BY <2>1, <2>3, <2>4 DEF GuestLive
  <2>6. UNCHANGED <<creator, boot, dir, state>>
    BY <1>27 DEF KillMain
  <2>. QED
    BY <2>2, <2>5, <2>6 DEF GuestLive
<1>28. ASSUME NEW k \in Kills, KillSave(k) PROVE StatusTrue'
  BY <1>28 DEF KillSave, KillerMoves, SaveState, BootLive, GuestLive
<1>29. CASE Delete
  BY <1>29 DEF Delete, BootLive, GuestLive, MayDelete, ExitSeen, Quiet
<1>. QED
  BY <1>1, <1>2, <1>3, <1>4, <1>5, <1>6, <1>7, <1>8, <1>9, <1>10, <1>11,
     <1>12, <1>13, <1>14, <1>15, <1>16, <1>17, <1>18, <1>19, <1>20, <1>21,
     <1>22, <1>23, <1>24, <1>25, <1>26, <1>27, <1>28, <1>29
     DEF Next, CreatorStep, BootStep, KillStep

-----------------------------------------------------------------------------
(* The theorems.                                                           *)

\* All parts hold of an id that nobody has used yet.
LEMMA InitIInv == Init => IInv /\ StatusTrue
<1>. SUFFICES ASSUME Init PROVE IInv /\ StatusTrue
  OBVIOUS
<1>. USE LifecycleAssumption
     DEF Init, CreatorBusy, BootRunning, BootEnded, AfterNotify, Returned,
         BeforePid, BeforeSave, BootLive, GuestLive
<1>1. TypeOK
  BY InitTypeOK
<1>2. OneCommand /\ Ownership /\ Progress
  BY DEF OneCommand, Ownership, Progress, BootOwnsDir, PidFileFresh, CreateExclusive
<1>3. ServerKnown /\ PidKnown /\ StatusFresh /\ NoLostWake
  BY DEF ServerKnown, ServerStopped, PidKnown, StatusFresh, NoLostWake
<1>4. StatusTrue
  BY DEF StatusTrue, StoppedTruth
<1>. QED
  BY <1>1, <1>2, <1>3, <1>4 DEF IInv

\* They depend on the variables of the specification only.
LEMMA StutterIInv == UNCHANGED vars => /\ IInv => IInv'
                                       /\ StatusTrue => StatusTrue'
<1>. SUFFICES ASSUME UNCHANGED vars
              PROVE /\ IInv => IInv'
                    /\ StatusTrue => StatusTrue'
  OBVIOUS
<1>. USE DEF vars, procs, files, cmds, BootLive, GuestLive
<1>1. IInv => IInv'
  BY DEF IInv, TypeOK, OneCommand, Ownership, BootOwnsDir, PidFileFresh,
         CreateExclusive, Progress, ServerKnown, ServerStopped, PidKnown,
         StatusFresh, NoLostWake
<1>2. StatusTrue => StatusTrue'
  BY DEF StatusTrue, StoppedTruth
<1>. QED
  BY <1>1, <1>2

\* Every command and every process preserves the conjunction of the parts.
LEMMA StepIInv == WellBehaved /\ IInv /\ [Next]_vars => IInv'
<1>1. WellBehaved /\ IInv /\ Next => IInv'
  BY StepTypeOK, StepOneCommand, StepOwnership, StepProgress, StepServerKnown,
     StepPidKnown, StepStatusFresh, StepNoLostWake DEF IInv
<1>. QED
  BY <1>1, StutterIInv

\* The inductive invariant holds in every state of a well-behaved caller's use.
THEOREM Invariance == WellBehaved => (Safety => []IInv)
<1>. SUFFICES ASSUME WellBehaved PROVE Safety => []IInv
  OBVIOUS
<1>1. IInv /\ [Next]_vars => IInv'
  BY StepIInv
<1>. QED
  BY InitIInv, <1>1, PTL DEF Safety

\* A helper never touches the state directory of another generation.
THEOREM HelperOwnsDirectory == WellBehaved => (Safety => []BootOwnsDir)
<1>1. IInv => BootOwnsDir
  BY DEF IInv, Ownership
<1>. QED
  BY Invariance, <1>1, PTL

\* A helper that saw its guest exit has ended the 9pfs server.
THEOREM NoServerLeftBehind == WellBehaved => (Safety => []ServerStopped)
<1>1. IInv => ServerStopped
  BY DEF IInv, ServerKnown
<1>. QED
  BY Invariance, <1>1, PTL

\* The guest of a container that is forgotten is dead, or never got to run.
THEOREM OrphansSleep == WellBehaved => (Safety => []OrphanAsleep)
<1>. SUFFICES ASSUME WellBehaved PROVE Safety => []OrphanAsleep
  OBVIOUS
<1>1. Init => Attended
  BY DEF Init, Attended
<1>2. IInv /\ Attended /\ [Next]_vars => IInv' /\ Attended'
  <2>1. Attended /\ UNCHANGED vars => Attended'
    BY DEF Attended, vars, procs
  <2>. QED
    BY <2>1, StepIInv, StepAttended
<1>3. IInv /\ Attended => OrphanAsleep
  BY DEF IInv, Ownership, BootOwnsDir, BootLive, BootRunning, GuestLive,
         Attended, OrphanAsleep
<1>. QED
  BY InitIInv, <1>1, <1>2, <1>3, PTL DEF Safety

\* When every kill sends SIGKILL, a container on record as stopped is dead.
THEOREM StoppedIsDead == WellBehaved /\ KillOnly => (Safety => []StoppedTruth)
<1>. SUFFICES ASSUME WellBehaved, KillOnly PROVE Safety => []StoppedTruth
  OBVIOUS
<1>1. IInv /\ StatusTrue /\ [Next]_vars => IInv' /\ StatusTrue'
  BY StepIInv, StepStatusTrue, StutterIInv
<1>2. StatusTrue => StoppedTruth
  BY DEF StatusTrue
<1>. QED
  BY InitIInv, <1>1, <1>2, PTL DEF Safety

\* The status never falls back to created (the helper's first saveState comes
\* before every start and kill).
THEOREM StatusNeverRegresses == WellBehaved => (Safety => NoRegress)
<1>1. IInv /\ [Next]_vars
        => [dir' = dir /\ state \in {"running", "stopped"} => state' # "created"]_vars
  <2>. SUFFICES ASSUME IInv, Next, state' = "created", state # "created"
                PROVE state = "none"
    OBVIOUS
  <2>1. \E g \in Gens : BootSaveCreated(g)
    BY DEF Next, CreatorStep, BootStep, KillStep, CreateStat, CreateMkdir,
           CreateBoot, CreateReturn, CreatePanic, RunResume, BootSetup,
           BootPid9p, BootConnect, BootExec, BootWritePid, BootSigstop,
           BootPidFile, BootFail, BootNotify, BootWait, BootKill9p,
           BootSaveStopped, GuestExit, ServerDies, StartCall, StartResume,
           StartSave, KillCall, KillServer, KillMain, KillSave, Delete,
           SaveState, files, procs, cmds
  <2>. QED
    BY <2>1 DEF IInv, StatusFresh, BeforePid, BeforeSave, BootSaveCreated
<1>. QED
  BY Invariance, <1>1, PTL DEF Safety, NoRegress
=============================================================================
