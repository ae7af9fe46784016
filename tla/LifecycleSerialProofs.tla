----------------------- MODULE LifecycleSerialProofs -----------------------
(***************************************************************************)
(* Proofs about Lifecycle that need no containerd: what holds whoever      *)
(* calls runu and in whatever order, and what holds as soon as the         *)
(* commands come one after the other, from a shell script, too.  For any   *)
(* number of generations and of start and kill processes, and on both      *)
(* platforms.  Last, that the commands implement OCI under containerd, for *)
(* which the order of the commands matters more than the platform.         *)
(***************************************************************************)
EXTENDS LifecycleProofs

-----------------------------------------------------------------------------
(* Any caller.                                                             *)

\* The helper is started before its creator waits for it, and the byte is on
\* the pipe before the helper waits for the guest.
Reporting ==
  /\ \A g \in Gens : creator[g] \in {"idle", "mkdir", "mounts"} => boot[g] = "none"
  /\ \A g \in Gens : creator[g] = "wait" => boot[g] # "none"
  /\ \A g \in Gens : boot[g] \in {"wait", "kill9p", "saveStopped", "exit0"} => g \in pipe

\* From the exec on the guest is there until the helper itself reaps it:
\* nobody else is its parent.
GuestKept ==
  \A g \in Gens :
    boot[g] \in {"writepid", "sigstop", "pidfile", "saveCreated", "notify", "wait"}
      => guest[g] \in {"running", "stopped", "zombie"}

AnyInv == TypeOK /\ Reporting /\ GuestKept

\* Of one generation's control, the creator's step keeps Reporting.
LEMMA CreatorKeepsReporting ==
  ASSUME TypeOK, Reporting, NEW g \in Gens, CreateStat(g) \/ CreatorStep(g)
  PROVE  Reporting'
<1>1. /\ creator \in [Gens -> {"idle"} \cup CreatorBusy \cup CreatorDone]
      /\ boot \in [Gens -> {"none"} \cup BootRunning \cup BootEnded]
  BY DEF TypeOK
<1>2. pipe' = pipe
  BY DEF CreateStat, CreatorStep, CreateMkdir, CreateBoot, CreateReturn, CreatePanic, RunResume
<1>3. CASE CreateBoot(g)
  <2>1. \/ creator' = [creator EXCEPT ![g] = "wait"] /\ boot' = [boot EXCEPT ![g] = "setup"]
        \/ creator' = [creator EXCEPT ![g] = "failed"] /\ boot' = boot
        \/ creator' = [creator EXCEPT ![g] = "panic"] /\ boot' = boot
    BY <1>3 DEF CreateBoot, CreatorMoves
  <2>. QED
    BY <1>1, <1>2, <2>1 DEF Reporting
<1>4. CASE ~CreateBoot(g)
  <2>1. boot' = boot
    BY <1>4 DEF CreateStat, CreatorStep, CreateMkdir, CreateReturn, CreatePanic, RunResume
  <2>2. \E pc : /\ creator' = [creator EXCEPT ![g] = pc] /\ pc # "wait"
                /\ pc \in {"idle", "mkdir", "mounts"} => creator[g] \in {"idle", "mkdir", "mounts"}
    BY <1>4 DEF CreateStat, CreatorStep, CreateMkdir, CreateReturn, CreatePanic, RunResume,
       CreatorMoves
  <2>. QED
    BY <1>1, <1>2, <2>1, <2>2 DEF Reporting
<1>. QED
  BY <1>3, <1>4

\* So does the helper's.
LEMMA BootKeepsReporting ==
  ASSUME TypeOK, Reporting, NEW g \in Gens, BootStep(g)
  PROVE  Reporting'
<1>1. boot \in [Gens -> {"none"} \cup BootRunning \cup BootEnded] /\ creator' = creator
  BY DEF TypeOK, BootStep, BootSetup, BootPid9p, BootConnect, BootExec, BootWritePid, BootSigstop,
     BootPidFile, BootFail, BootSaveCreated, BootNotify, BootWait, BootKill9p, BootSaveStopped
<1>2. boot[g] # "none"
  BY DEF BootStep, BootSetup, BootPid9p, BootConnect, BootExec, BootWritePid, BootSigstop,
     BootPidFile, BootFail, BootSaveCreated, BootNotify, BootWait, BootKill9p, BootSaveStopped,
     BootMoves
<1>3. \E to : /\ boot' = [boot EXCEPT ![g] = to] /\ to # "none"
              /\ to \in {"wait", "kill9p", "saveStopped", "exit0"} =>
                   g \in pipe' \/ boot[g] \in {"wait", "kill9p", "saveStopped"}
  <2>1. CASE BootSetup(g) \/ BootPid9p(g) \/ BootConnect(g) \/ BootExec(g)
    BY <2>1 DEF BootSetup, BootPid9p, BootConnect, BootExec, BootMoves
  <2>2. CASE BootWritePid(g) \/ BootSigstop(g) \/ BootPidFile(g)
    BY <2>2 DEF BootWritePid, BootSigstop, BootPidFile, BootMoves
  <2>3. CASE BootFail(g) \/ BootSaveCreated(g)
    BY <2>3 DEF BootFail, BootSaveCreated, BootMoves, BootEnds
  <2>4. CASE BootNotify(g)
    BY <2>4 DEF BootNotify, BootMoves
  <2>5. CASE BootWait(g) \/ BootKill9p(g)
    BY <2>5 DEF BootWait, BootKill9p, BootMoves
  <2>6. CASE BootSaveStopped(g)
    <3>1. boot[g] = "saveStopped" /\ \E how : boot' = [boot EXCEPT ![g] = how] /\ how # "none"
      BY <2>6 DEF BootSaveStopped, BootEnds
    <3>. QED
      BY <3>1
  <2>. QED
    BY <2>1, <2>2, <2>3, <2>4, <2>5, <2>6 DEF BootStep
<1>4. pipe \subseteq pipe'
  BY DEF BootStep, BootSetup, BootPid9p, BootConnect, BootExec, BootWritePid, BootSigstop,
     BootPidFile, BootFail, BootSaveCreated, BootNotify, BootWait, BootKill9p, BootSaveStopped
<1>5. \A h \in Gens : h # g => boot'[h] = boot[h]
  BY <1>1, <1>3
<1>6. boot'[g] # "none" /\ (boot'[g] \in {"wait", "kill9p", "saveStopped", "exit0"} => g \in pipe')
  BY <1>1, <1>3, <1>4 DEF Reporting
<1>. QED
  BY <1>1, <1>2, <1>4, <1>5, <1>6 DEF Reporting

\* Everybody else leaves all of it alone.
LEMMA StepReporting == TypeOK /\ Reporting /\ Next => Reporting'
<1>. SUFFICES ASSUME TypeOK, Reporting, Next PROVE Reporting'
  OBVIOUS
<1>1. ASSUME UNCHANGED <<creator, boot, pipe>> PROVE Reporting'
  BY <1>1 DEF Reporting
<1>2. ASSUME NEW g \in Gens, GuestExit(g) \/ ServerDies(g) PROVE Reporting'
  BY <1>1, <1>2 DEF GuestExit, ServerDies
<1>3. ASSUME NEW s \in Starts, StartCall(s) \/ StartResume(s) \/ StartSave(s) PROVE Reporting'
  BY <1>1, <1>3 DEF StartCall, StartResume, StartSave, procs
<1>4. ASSUME NEW k \in Kills, KillCall(k) \/ KillStep(k) PROVE Reporting'
  BY <1>1, <1>4 DEF KillCall, KillStep, KillServer, KillMain, KillSave, procs
<1>5. CASE Delete
  BY <1>1, <1>5 DEF Delete, procs
<1>. QED
  BY <1>2, <1>3, <1>4, <1>5, CreatorKeepsReporting, BootKeepsReporting DEF Next

\* A guest whose helper is alive stays, as a zombie if need be, when a signal
\* reaches it or it exits.
LEMMA SignalsKeepGuest ==
  ASSUME TypeOK, GuestKept, NEW g \in Gens, NEW after,
         guest' = [guest EXCEPT ![g] = after], boot' = boot,
         \/ after = "running" /\ GuestLive(g)
         \/ after = Dead(g)
         \/ after = guest[g]
  PROVE  GuestKept'
<1>1. guest \in [Gens -> {"none", "running", "stopped", "zombie", "gone"}]
  BY DEF TypeOK
<1>2. \A h \in Gens : h # g => guest'[h] = guest[h]
  BY <1>1
<1>3. guest'[g] = after
  BY <1>1
<1>4. boot[g] \in {"writepid", "sigstop", "pidfile", "saveCreated", "notify", "wait"}
        => after \in {"running", "stopped", "zombie"}
  BY DEF Dead, BootLive, BootRunning, GuestKept
<1>. QED
  BY <1>2, <1>3, <1>4 DEF GuestKept

\* The SIGCONT of start and run.
LEMMA ResumeKeepsGuest ==
  ASSUME TypeOK, GuestKept, Resume, boot' = boot
  PROVE  GuestKept'
<1>1. CASE pid # None /\ GuestLive(pid)
  <2>1. pid \in Gens /\ guest' = [guest EXCEPT ![pid] = "running"]
    BY <1>1 DEF TypeOK, Resume
  <2>. QED
    BY <1>1, <2>1, SignalsKeepGuest
<1>2. CASE ~(pid # None /\ GuestLive(pid))
  BY <1>2 DEF Resume, GuestKept
<1>. QED
  BY <1>1, <1>2

\* The helper's own steps: it is the exec that makes the guest, and the last
\* wait that reaps it.
LEMMA BootKeepsGuest ==
  ASSUME TypeOK, GuestKept, NEW g \in Gens, BootStep(g)
  PROVE  GuestKept'
<1>1. /\ boot \in [Gens -> {"none"} \cup BootRunning \cup BootEnded]
      /\ guest \in [Gens -> {"none", "running", "stopped", "zombie", "gone"}]
  BY DEF TypeOK
<1>2. \A h \in Gens : h # g => boot'[h] = boot[h] /\ guest'[h] = guest[h]
  <2>1. \E to : boot' = [boot EXCEPT ![g] = to]
    BY DEF BootStep, BootSetup, BootPid9p, BootConnect, BootExec, BootWritePid, BootSigstop,
       BootPidFile, BootFail, BootSaveCreated, BootNotify, BootWait, BootKill9p, BootSaveStopped,
       BootMoves, BootEnds
  <2>2. \E to : guest' = guest \/ guest' = [guest EXCEPT ![g] = to]
    BY DEF BootStep, BootSetup, BootPid9p, BootConnect, BootExec, BootWritePid, BootSigstop,
       BootPidFile, BootFail, BootSaveCreated, BootNotify, BootWait, BootKill9p, BootSaveStopped,
       BootEnds
  <2>. QED
    BY <1>1, <2>1, <2>2
<1>3. boot'[g] \in {"writepid", "sigstop", "pidfile", "saveCreated", "notify", "wait"}
        => guest'[g] \in {"running", "stopped", "zombie"}
  <2>1. CASE BootSetup(g) \/ BootPid9p(g) \/ BootConnect(g) \/ BootWait(g) \/ BootKill9p(g)
    BY <1>1, <2>1 DEF BootSetup, BootPid9p, BootConnect, BootWait, BootKill9p, BootMoves
  <2>2. CASE BootFail(g) \/ BootSaveStopped(g)
    <3>1. \E how \in BootEnded : boot' = [boot EXCEPT ![g] = how]
      BY <2>2 DEF BootFail, BootSaveStopped, BootEnds, BootEnded
    <3>. QED
      BY <1>1, <3>1 DEF BootEnded
  <2>3. CASE BootExec(g)
    BY <1>1, <2>3 DEF BootExec, BootMoves
  <2>4. CASE BootSigstop(g)
    BY <1>1, <2>4 DEF BootSigstop, BootMoves, GuestKept
  <2>5. CASE BootWritePid(g) \/ BootPidFile(g) \/ BootNotify(g)
    BY <1>1, <2>5 DEF BootWritePid, BootPidFile, BootNotify, BootMoves, GuestKept
  <2>6. CASE BootSaveCreated(g)
    <3>1. /\ boot[g] = "saveCreated"
          /\ \/ boot' = [boot EXCEPT ![g] = "failed"]
             \/ boot' = [boot EXCEPT ![g] = "notify"] /\ guest' = guest
      BY <2>6 DEF BootSaveCreated, BootEnds, BootMoves
    <3>. QED
      BY <1>1, <3>1 DEF GuestKept
  <2>. QED
    BY <2>1, <2>2, <2>3, <2>4, <2>5, <2>6 DEF BootStep
<1>. QED
  BY <1>2, <1>3 DEF GuestKept

\* Nobody but the helper reaps the guest.
LEMMA StepGuestKept == TypeOK /\ Reporting /\ GuestKept /\ Next => GuestKept'
<1>. SUFFICES ASSUME TypeOK, Reporting, GuestKept, Next PROVE GuestKept'
  OBVIOUS
<1>1. ASSUME UNCHANGED <<boot, guest>> PROVE GuestKept'
  BY <1>1 DEF GuestKept
<1>2. ASSUME NEW g \in Gens, \/ CreateStat(g) \/ CreateMkdir(g) \/ CreateReturn(g)
                             \/ CreatePanic(g) \/ ServerDies(g)
      PROVE  GuestKept'
  BY <1>1, <1>2 DEF CreateStat, CreateMkdir, CreateReturn, CreatePanic, ServerDies
<1>3. ASSUME NEW g \in Gens, CreateBoot(g) PROVE GuestKept'
  <2>1. guest' = guest /\ (boot' = boot \/ boot' = [boot EXCEPT ![g] = "setup"])
    BY <1>3 DEF CreateBoot
  <2>. QED
    BY <2>1 DEF GuestKept, TypeOK
<1>4. ASSUME NEW g \in Gens, RunResume(g) PROVE GuestKept'
  BY <1>4, ResumeKeepsGuest DEF RunResume
<1>5. ASSUME NEW g \in Gens, GuestExit(g) PROVE GuestKept'
  BY <1>5, SignalsKeepGuest DEF GuestExit
<1>6. ASSUME NEW s \in Starts, StartCall(s) \/ StartSave(s) PROVE GuestKept'
  BY <1>1, <1>6 DEF StartCall, StartSave, procs
<1>7. ASSUME NEW s \in Starts, StartResume(s) PROVE GuestKept'
  BY <1>7, ResumeKeepsGuest DEF StartResume
<1>8. ASSUME NEW k \in Kills, KillCall(k) \/ KillServer(k) \/ KillSave(k) PROVE GuestKept'
  BY <1>1, <1>8 DEF KillCall, KillServer, KillSave, procs
<1>9. ASSUME NEW k \in Kills, KillMain(k) PROVE GuestKept'
  <2>1. CASE pid = None
    BY <1>1, <1>9, <2>1 DEF KillMain
  <2>2. CASE pid # None
    <3>1. pid \in Gens /\ boot' = boot
      BY <1>9, <2>2 DEF KillMain, TypeOK
    <3>2. PICK after \in AfterSignal(pid, KillSig[k]) : guest' = [guest EXCEPT ![pid] = after]
      BY <1>9, <2>2 DEF KillMain
    <3>3. \/ after = "running" /\ GuestLive(pid)
          \/ after = Dead(pid)
          \/ after = guest[pid]
      BY <3>2 DEF AfterSignal, GuestLive
    <3>. QED
      BY <3>1, <3>2, <3>3, SignalsKeepGuest
  <2>. QED
    BY <2>1, <2>2
<1>10. CASE Delete
  BY <1>1, <1>10 DEF Delete, procs
<1>. QED
  BY <1>2, <1>3, <1>4, <1>5, <1>6, <1>7, <1>8, <1>9, <1>10, BootKeepsGuest
     DEF Next, CreatorStep, KillStep

\* All of it is invariant, from an id that nobody has used.
THEOREM AnyInvariance == Safety => []AnyInv
<1>1. Init => AnyInv
  BY InitTypeOK DEF Init, AnyInv, Reporting, GuestKept
<1>2. AnyInv /\ Next => AnyInv'
  BY StepTypeOK, StepReporting, StepGuestKept DEF AnyInv
<1>3. AnyInv /\ UNCHANGED vars => AnyInv'
  BY DEF AnyInv, TypeOK, Reporting, GuestKept, vars, procs, files, cmds
<1>. QED
  BY <1>1, <1>2, <1>3, PTL DEF Safety

\* Whatever commands run against one id at the same time, a creator that waits
\* has somebody to wait for, and so has a helper.
THEOREM WaitsAreAnswered == Safety => []NoWaitInVain
<1>1. AnyInv => NoWaitInVain
  <2>. SUFFICES ASSUME AnyInv, NEW g \in Gens
                PROVE  /\ creator[g] = "wait" => BootLive(g) \/ PipeReady(g) \/ BootFailed(g)
                       /\ boot[g] = "wait" => guest[g] \in {"running", "stopped", "zombie"}
    BY DEF NoWaitInVain
  <2>1. boot[g] \in {"none"} \cup BootRunning \cup BootEnded
    BY DEF AnyInv, TypeOK
  <2>. QED
    BY <2>1 DEF AnyInv, Reporting, GuestKept, BootLive, PipeReady, BootFailed, BootEnded
<1>. QED
  BY <1>1, AnyInvariance, PTL

-----------------------------------------------------------------------------
(* Any caller that lets a command end before it issues the next one.       *)

Serial      == Caller # "any"
BootHasSpec == "boot" \notin SpecMissing

\* The phases of a helper in which it has still to report to its creator.
Unreported == BootRunning \ AfterNotify

\* A create or run has no command beside it.
Alone ==
  /\ \A g, h \in Gens : creator[g] \in CreatorBusy /\ creator[h] \in CreatorBusy => g = h
  /\ \A g \in Gens, s \in Starts : creator[g] \in CreatorBusy => starter[s] = "idle"
  /\ \A g \in Gens, k \in Kills : creator[g] \in CreatorBusy => killer[k] = "idle"

\* The directory is that of the generation being created, and its files are.
DirOwned ==
  /\ dir = {} => pid = None /\ pid9p = None /\ state = "none"
  /\ \A g \in Gens : creator[g] = "mkdir" => dir = {}
  /\ \A g \in Gens : creator[g] \in {"mounts", "wait", "resume"} => dir = {g}
  /\ PidFileFresh
  /\ CreateExclusive

\* A helper that has not reported has its creator waiting; a creator that has
\* returned, and a SIGCONT that was sent, come after the report.
Staged ==
  /\ \A g \in Gens : creator[g] \in {"idle", "mkdir", "mounts"} => boot[g] = "none"
  /\ \A g \in Gens : boot[g] \in Unreported => creator[g] = "wait"
  /\ \A g \in Gens : creator[g] \in Returned => g \in pipe
  /\ \A g \in pipe \cup woken : boot[g] \in AfterNotify

\* runu.pid is the helper's to write, and names its guest afterwards.
PidNamed ==
  /\ \A g \in Gens : creator[g] = "mounts" => pid = None
  /\ \A g \in Gens : boot[g] \in BeforePid => pid = None
  /\ \A g \in Gens : boot[g] \in Unreported \ BeforePid => pid = g
  /\ \A g \in pipe \cap dir : pid = g
  /\ pid # None => boot[pid] # "none"

\* The first status is saved before the report.
FirstStatus ==
  /\ \A g \in Gens : boot[g] = "notify" => state # "none"
  /\ pipe \cap dir # {} => state # "none"

SInv == TypeOK /\ Alone /\ DirOwned /\ Staged /\ PidNamed /\ NoLostWake

\* The control of a helper is its own, and so is that of a creator.
LEMMA BootMovesAlone ==
  ASSUME TypeOK, NEW g \in Gens, BootStep(g)
  PROVE  /\ \A h \in Gens : h # g => boot'[h] = boot[h] /\ guest'[h] = guest[h]
         /\ UNCHANGED <<creator, woken, dir, starter, killer>>
         /\ boot[g] \in BootRunning
<1>1. \E to : boot' = [boot EXCEPT ![g] = to]
  BY DEF BootStep, BootSetup, BootPid9p, BootConnect, BootExec, BootWritePid, BootSigstop,
     BootPidFile, BootFail, BootSaveCreated, BootNotify, BootWait, BootKill9p, BootSaveStopped,
     BootMoves, BootEnds
<1>2. \E to : guest' = guest \/ guest' = [guest EXCEPT ![g] = to]
  BY DEF BootStep, BootSetup, BootPid9p, BootConnect, BootExec, BootWritePid, BootSigstop,
     BootPidFile, BootFail, BootSaveCreated, BootNotify, BootWait, BootKill9p, BootSaveStopped,
     BootEnds
<1>3. UNCHANGED <<creator, woken, dir, starter, killer>>
  BY DEF BootStep, BootSetup, BootPid9p, BootConnect, BootExec, BootWritePid, BootSigstop,
     BootPidFile, BootFail, BootSaveCreated, BootNotify, BootWait, BootKill9p, BootSaveStopped,
     files, cmds
<1>4. boot[g] \in BootRunning
  BY DEF BootStep, BootSetup, BootPid9p, BootConnect, BootExec, BootWritePid, BootSigstop,
     BootPidFile, BootFail, BootSaveCreated, BootNotify, BootWait, BootKill9p, BootSaveStopped,
     BootMoves, BootRunning
<1>. QED
  BY <1>1, <1>2, <1>3, <1>4 DEF TypeOK

LEMMA CreatorMovesAlone ==
  ASSUME TypeOK, NEW g \in Gens, CreateStat(g) \/ CreatorStep(g)
  PROVE  /\ \A h \in Gens : h # g => creator'[h] = creator[h] /\ boot'[h] = boot[h]
         /\ UNCHANGED <<server, pipe, pid, pid9p, state, starter, killer>>
         /\ creator[g] \in {"idle"} \cup CreatorBusy
<1>1. \E pc : creator' = [creator EXCEPT ![g] = pc]
  BY DEF CreateStat, CreatorStep, CreateMkdir, CreateBoot, CreateReturn, CreatePanic, RunResume,
     CreatorMoves
<1>2. boot' = boot \/ boot' = [boot EXCEPT ![g] = "setup"]
  BY DEF CreateStat, CreatorStep, CreateMkdir, CreateBoot, CreateReturn, CreatePanic, RunResume
<1>3. UNCHANGED <<server, pipe, pid, pid9p, state, starter, killer>>
  BY DEF CreateStat, CreatorStep, CreateMkdir, CreateBoot, CreateReturn, CreatePanic, RunResume,
     files, cmds
<1>4. creator[g] \in {"idle"} \cup CreatorBusy
  BY DEF CreateStat, CreatorStep, CreateMkdir, CreateBoot, CreateReturn, CreatePanic, RunResume,
     CreatorBusy
<1>. QED
  BY <1>1, <1>2, <1>3, <1>4 DEF TypeOK

\* Every command waits for the end of the one before.
LEMMA StepAlone == Serial /\ TypeOK /\ Alone /\ Next => Alone'
<1>. SUFFICES ASSUME Serial, TypeOK, Alone, Next PROVE Alone'
  OBVIOUS
<1>. USE LifecycleAssumption DEF Serial
<1>1. ASSUME UNCHANGED <<creator, starter, killer>> PROVE Alone'
  BY <1>1 DEF Alone
<1>2. ASSUME NEW g \in Gens, CreateStat(g) PROVE Alone'
  <2>1. Quiet
    BY <1>2 DEF CreateStat, MayCreate
  <2>. QED
    BY <1>2, <2>1, CreatorMovesAlone DEF Quiet, Alone
<1>3. ASSUME NEW g \in Gens, CreatorStep(g) PROVE Alone'
  <2>1. creator[g] \in CreatorBusy
    BY <1>3 DEF CreatorStep, CreateMkdir, CreateBoot, CreateReturn, CreatePanic, RunResume,
       CreatorBusy
  <2>. QED
    BY <1>3, <2>1, CreatorMovesAlone DEF Alone
<1>4. ASSUME NEW g \in Gens, BootStep(g) \/ GuestExit(g) \/ ServerDies(g) PROVE Alone'
  BY <1>1, <1>4, BootMovesAlone DEF GuestExit, ServerDies, cmds
<1>5. ASSUME NEW s \in Starts, StartCall(s) \/ StartResume(s) \/ StartSave(s) PROVE Alone'
  <2>1. UNCHANGED <<creator, killer>> /\ \E to : starter' = [starter EXCEPT ![s] = to]
    BY <1>5 DEF StartCall, StartResume, StartSave, StarterMoves, procs
  <2>2. \A g \in Gens : creator[g] \notin CreatorBusy
    BY <1>5 DEF StartCall, StartResume, StartSave, StarterMoves, MayStart, Quiet, Alone
  <2>. QED
    BY <2>1, <2>2 DEF Alone
<1>6. ASSUME NEW k \in Kills, KillCall(k) \/ KillStep(k) PROVE Alone'
  <2>1. UNCHANGED <<creator, starter>>
    BY <1>6 DEF KillCall, KillStep, KillServer, KillMain, KillSave, procs
  <2>2. \A g \in Gens : creator[g] \notin CreatorBusy
    BY <1>6 DEF KillCall, KillStep, KillServer, KillMain, KillSave, KillerMoves, MayKill, Quiet,
       Alone
  <2>. QED
    BY <2>1, <2>2 DEF Alone
<1>7. CASE Delete
  BY <1>1, <1>7 DEF Delete, procs, cmds
<1>. QED
  BY <1>2, <1>3, <1>4, <1>5, <1>6, <1>7 DEF Next

\* Nobody but the helper that is expected writes in the directory.
LEMMA StepDirOwned == Serial /\ SInv /\ Next => DirOwned'
<1>. SUFFICES ASSUME Serial, TypeOK, Alone, DirOwned, Staged, Next PROVE DirOwned'
  BY DEF SInv
<1>1. ASSUME UNCHANGED <<creator, dir, pid, pid9p, state>> PROVE DirOwned'
  BY <1>1 DEF DirOwned, PidFileFresh, CreateExclusive
<1>2. ASSUME NEW g \in Gens, CreateStat(g) PROVE DirOwned'
  <2>1. dir' = dir /\ ((creator'[g] = "mkdir" /\ dir = {}) \/ creator'[g] = "failed")
    BY <1>2 DEF CreateStat, CreatorMoves, NameFree, files, TypeOK
  <2>. QED
    BY <1>2, <2>1, CreatorMovesAlone DEF DirOwned, PidFileFresh, CreateExclusive
<1>3. ASSUME NEW g \in Gens, CreateMkdir(g) PROVE DirOwned'
  <2>1. /\ creator[g] = "mkdir" /\ dir = {}
        /\ \A h \in Gens : h # g => creator[h] \notin CreatorBusy
    BY <1>3 DEF CreateMkdir, DirOwned, Alone, CreatorBusy
  <2>2. /\ \/ dir' = {g} /\ creator'[g] = "mounts"
           \/ dir' = dir /\ creator'[g] = "failed"
        /\ \A h \in Gens : h # g => creator'[h] \notin CreatorBusy
        /\ UNCHANGED <<pid, pid9p, state>>
    <3>1. /\ \/ dir' = dir \cup {g} /\ creator' = [creator EXCEPT ![g] = "mounts"]
             \/ dir' = dir /\ creator' = [creator EXCEPT ![g] = "failed"]
          /\ UNCHANGED <<pid, pid9p, state>>
      BY <1>3 DEF CreateMkdir, CreatorMoves
    <3>. QED
      BY <2>1, <3>1 DEF TypeOK
  <2>. QED
    BY <2>1, <2>2 DEF DirOwned, PidFileFresh, CreateExclusive, CreatorBusy
<1>4. ASSUME NEW g \in Gens,
             CreateBoot(g) \/ CreateReturn(g) \/ CreatePanic(g) \/ RunResume(g)
      PROVE  DirOwned'
  <2>1. creator[g] \in {"mounts", "wait", "resume"} /\ creator'[g] # "mkdir" /\ dir' = dir
    BY <1>4 DEF CreateBoot, CreateReturn, CreatePanic, RunResume, CreatorMoves, files, TypeOK
  <2>. QED
    BY <1>4, <2>1, CreatorMovesAlone DEF CreatorStep, DirOwned, PidFileFresh, CreateExclusive
<1>5. ASSUME NEW g \in Gens, BootPid9p(g) \/ BootWritePid(g) PROVE DirOwned'
  <2>1. dir = {g}
    BY <1>5 DEF BootPid9p, BootWritePid, BootMoves, BootRunning, AfterNotify, BootEnded, Unreported,
       Staged, DirOwned
  <2>2. /\ UNCHANGED <<creator, dir, state>>
        /\ pid' \in {pid, g} /\ pid9p' \in {pid9p, g}
    BY <1>5 DEF BootPid9p, BootWritePid, WriteExcl
  <2>. QED
    BY <2>1, <2>2 DEF DirOwned, PidFileFresh, CreateExclusive
<1>6. ASSUME UNCHANGED <<creator, dir, pid, pid9p>>, dir = {} => state' = state PROVE DirOwned'
  BY <1>6 DEF DirOwned, PidFileFresh, CreateExclusive
<1>7. ASSUME NEW g \in Gens, BootSaveCreated(g) \/ BootSaveStopped(g) PROVE DirOwned'
  BY <1>6, <1>7 DEF BootSaveCreated, BootSaveStopped, SaveState
<1>8. ASSUME NEW s \in Starts, StartCall(s) \/ StartResume(s) \/ StartSave(s) PROVE DirOwned'
  BY <1>6, <1>8 DEF StartCall, StartResume, StartSave, SaveState, procs, files
<1>9. ASSUME NEW k \in Kills, KillCall(k) \/ KillStep(k) PROVE DirOwned'
  BY <1>6, <1>9 DEF KillCall, KillStep, KillServer, KillMain, KillSave, SaveState, procs, files
<1>10. ASSUME NEW g \in Gens, \/ BootSetup(g) \/ BootConnect(g) \/ BootExec(g) \/ BootSigstop(g)
                              \/ BootPidFile(g) \/ BootFail(g)
       PROVE  DirOwned'
  BY <1>1, <1>10 DEF BootSetup, BootConnect, BootExec, BootSigstop, BootPidFile, BootFail, files
<1>11. ASSUME NEW g \in Gens, \/ BootNotify(g) \/ BootWait(g) \/ BootKill9p(g)
                              \/ GuestExit(g) \/ ServerDies(g)
       PROVE  DirOwned'
  BY <1>1, <1>11 DEF BootNotify, BootWait, BootKill9p, GuestExit, ServerDies, files
<1>12. CASE Delete
  <2>1. Quiet
    BY <1>12, LifecycleAssumption DEF Delete, MayDelete, Serial
  <2>. QED
    BY <1>12, <2>1 DEF Delete, Quiet, CreatorBusy, DirOwned, PidFileFresh, CreateExclusive, procs
<1>. QED
  BY <1>2, <1>3, <1>4, <1>5, <1>7, <1>8, <1>9, <1>10, <1>11, <1>12
     DEF Next, CreatorStep, BootStep

\* The process that a SIGCONT reaches has been reported to its creator.
LEMMA ResumedIsReported ==
  ASSUME SInv, pid # None,
         (\A g \in Gens : creator[g] \notin CreatorBusy)
           \/ \E g \in Gens : creator[g] = "resume"
  PROVE  pid \in Gens /\ boot[pid] \in AfterNotify
<1>1. pid \in Gens /\ boot[pid] \in BootRunning \cup BootEnded
  BY DEF SInv, TypeOK, PidNamed
<1>2. CASE \A g \in Gens : creator[g] \notin CreatorBusy
  <2>1. boot[pid] \notin Unreported
    BY <1>1, <1>2 DEF SInv, Staged, CreatorBusy
  <2>. QED
    BY <1>1, <2>1 DEF Unreported, AfterNotify
<1>3. ASSUME NEW g \in Gens, creator[g] = "resume" PROVE boot[pid] \in AfterNotify
  <2>1. dir = {g} /\ g \in pipe
    BY <1>3 DEF SInv, DirOwned, Staged, Returned
  <2>2. pid = g
    BY <2>1 DEF SInv, PidNamed
  <2>. QED
    BY <2>1, <2>2 DEF SInv, Staged
<1>. QED
  BY <1>1, <1>2, <1>3

\* The report comes between the helper's work and whatever follows create.
LEMMA StepStaged == Serial /\ SInv /\ Next => Staged'
<1>. SUFFICES ASSUME Serial, SInv, Next PROVE Staged'
  OBVIOUS
<1>. USE DEF AfterNotify, Unreported, BootRunning, BootEnded
<1>0. TypeOK /\ Alone /\ Staged
  BY DEF SInv
<1>1. ASSUME UNCHANGED <<creator, boot, pipe, woken>> PROVE Staged'
  BY <1>0, <1>1 DEF Staged
<1>2. ASSUME NEW g \in Gens, CreateStat(g) \/ CreateMkdir(g) PROVE Staged'
  <2>1. /\ creator[g] \in {"idle", "mkdir"} /\ creator'[g] \in {"mkdir", "mounts", "failed"}
        /\ UNCHANGED <<boot, pipe, woken>>
    BY <1>0, <1>2 DEF CreateStat, CreateMkdir, CreatorMoves, TypeOK
  <2>. QED
    BY <1>0, <1>2, <2>1, CreatorMovesAlone DEF CreatorStep, Staged, Returned
<1>3. ASSUME NEW g \in Gens, CreateBoot(g) PROVE Staged'
  <2>1. /\ creator[g] = "mounts" /\ boot[g] = "none" /\ UNCHANGED <<pipe, woken>>
        /\ \/ creator'[g] = "wait" /\ boot'[g] = "setup"
           \/ creator'[g] \in {"failed", "panic"} /\ boot' = boot
    BY <1>0, <1>3 DEF CreateBoot, CreatorMoves, TypeOK, Staged
  <2>2. \A h \in Gens : h # g => creator'[h] = creator[h] /\ boot'[h] = boot[h]
    BY <1>0, <1>3, CreatorMovesAlone DEF CreatorStep
  <2>3. g \notin pipe \cup woken
    BY <1>0, <2>1 DEF Staged
  <2>4. boot'[g] \in Unreported => creator'[g] = "wait"
    BY <2>1
  <2>. QED
    BY <1>0, <2>1, <2>2, <2>3, <2>4 DEF Staged, Returned, TypeOK
<1>4. ASSUME NEW g \in Gens, CreateReturn(g) \/ CreatePanic(g) PROVE Staged'
  <2>1. /\ creator[g] \in {"wait", "resume"} /\ UNCHANGED <<boot, pipe, woken>>
        /\ \/ creator'[g] \in Returned /\ g \in pipe
           \/ creator'[g] = "panic" /\ boot[g] \in BootEnded
    BY <1>0, <1>4 DEF CreateReturn, CreatePanic, CreatorMoves, PipeReady, BootFailed, Returned,
       TypeOK
  <2>. QED
    BY <1>0, <1>4, <2>1, CreatorMovesAlone DEF CreatorStep, Staged, Returned
<1>5. ASSUME NEW g \in Gens, RunResume(g) PROVE Staged'
  <2>1. /\ creator[g] = "resume" /\ creator'[g] \in {"failed", "ran"} /\ UNCHANGED <<boot, pipe>>
        /\ woken' = woken \/ (pid # None /\ woken' = woken \cup {pid})
    BY <1>0, <1>5 DEF RunResume, CreatorMoves, Resume, TypeOK
  <2>2. woken' = woken \/ (boot[pid] \in AfterNotify /\ woken' = woken \cup {pid})
    BY <2>1, ResumedIsReported
  <2>. QED
    BY <1>0, <1>5, <2>1, <2>2, CreatorMovesAlone DEF CreatorStep, Staged, Returned
<1>6. ASSUME NEW s \in Starts, StartCall(s) \/ StartSave(s) PROVE Staged'
  BY <1>1, <1>6 DEF StartCall, StartSave, procs
<1>7. ASSUME NEW s \in Starts, StartResume(s) PROVE Staged'
  <2>1. /\ starter[s] = "resume" /\ UNCHANGED <<creator, boot, pipe>>
        /\ woken' = woken \/ (pid # None /\ woken' = woken \cup {pid})
    BY <1>7 DEF StartResume, StarterMoves, Resume
  <2>2. \A g \in Gens : creator[g] \notin CreatorBusy
    BY <1>0, <2>1 DEF Alone
  <2>3. woken' = woken \/ (boot[pid] \in AfterNotify /\ woken' = woken \cup {pid})
    BY <2>1, <2>2, ResumedIsReported
  <2>. QED
    BY <1>0, <2>1, <2>3 DEF Staged
<1>8. ASSUME NEW k \in Kills, KillCall(k) \/ KillStep(k) PROVE Staged'
  BY <1>1, <1>8 DEF KillCall, KillStep, KillServer, KillMain, KillSave, procs
<1>9. ASSUME NEW g \in Gens, GuestExit(g) \/ ServerDies(g) PROVE Staged'
  BY <1>1, <1>9 DEF GuestExit, ServerDies
<1>10. ASSUME NEW g \in Gens, BootStep(g) PROVE Staged'
  <2>1. \/ boot[g] \in Unreported /\ boot'[g] \in Unreported \cup BootEnded /\ pipe' = pipe
        \/ boot[g] \in Unreported /\ boot'[g] = "wait" /\ pipe' = pipe \cup {g}
        \/ boot[g] \in AfterNotify /\ boot'[g] \in AfterNotify /\ pipe' = pipe
    <3>1. CASE BootSetup(g) \/ BootPid9p(g) \/ BootConnect(g) \/ BootExec(g) \/ BootFail(g)
      BY <1>0, <3>1 DEF BootSetup, BootPid9p, BootConnect, BootExec, BootFail, BootMoves,
         BootEnds, TypeOK
    <3>2. CASE BootWritePid(g) \/ BootSigstop(g) \/ BootPidFile(g) \/ BootSaveCreated(g)
      BY <1>0, <3>2 DEF BootWritePid, BootSigstop, BootPidFile, BootSaveCreated, BootMoves,
         BootEnds, TypeOK
    <3>3. CASE BootNotify(g) \/ BootWait(g) \/ BootKill9p(g) \/ BootSaveStopped(g)
      BY <1>0, <3>3 DEF BootNotify, BootWait, BootKill9p, BootSaveStopped, BootMoves, BootEnds,
         TypeOK
    <3>. QED
      BY <1>10, <3>1, <3>2, <3>3 DEF BootStep
  <2>2. /\ \A h \in Gens : h # g => boot'[h] = boot[h]
        /\ creator' = creator /\ woken' = woken
    BY <1>0, <1>10, BootMovesAlone
  <2>3. /\ boot[g] # "none"
        /\ boot'[g] \in AfterNotify \/ (boot[g] \in Unreported /\ g \notin pipe \cup woken)
        /\ pipe' = pipe \/ (pipe' = pipe \cup {g} /\ boot'[g] \in AfterNotify)
        /\ boot'[g] \in Unreported => boot[g] \in Unreported
    BY <1>0, <2>1 DEF Staged
  <2>. HIDE DEF AfterNotify, Unreported, BootRunning, BootEnded
  <2>4. /\ \A h \in Gens : creator'[h] \in {"idle", "mkdir", "mounts"} => boot'[h] = "none"
        /\ \A h \in Gens : boot'[h] \in Unreported => creator'[h] = "wait"
    BY <1>0, <2>2, <2>3 DEF Staged
  <2>5. \A h \in Gens : creator'[h] \in Returned => h \in pipe'
    BY <1>0, <2>2, <2>3 DEF Staged
  <2>6. \A h \in pipe' \cup woken' : boot'[h] \in AfterNotify
    BY <1>0, <2>2, <2>3 DEF Staged, TypeOK
  <2>. QED
    BY <2>4, <2>5, <2>6 DEF Staged
<1>11. CASE Delete
  BY <1>1, <1>11 DEF Delete, procs
<1>. QED
  BY <1>2, <1>3, <1>4, <1>5, <1>6, <1>7, <1>8, <1>9, <1>10, <1>11 DEF Next, CreatorStep

\* runu.pid is written once, by the helper whose creator waits.
LEMMA StepPidNamed == Serial /\ SInv /\ Next => PidNamed'
<1>. SUFFICES ASSUME Serial, SInv, Next PROVE PidNamed'
  OBVIOUS
<1>0. TypeOK /\ Alone /\ DirOwned /\ Staged /\ PidNamed /\ None \notin Gens
  BY LifecycleAssumption DEF SInv
<1>1. ASSUME UNCHANGED <<creator, boot, pipe, dir, pid>> PROVE PidNamed'
  BY <1>0, <1>1 DEF PidNamed
<1>2. ASSUME NEW g \in Gens, CreateStat(g) \/ CreateReturn(g) \/ CreatePanic(g) \/ RunResume(g)
      PROVE  PidNamed'
  <2>1. creator'[g] # "mounts" /\ UNCHANGED <<boot, pipe, dir, pid>>
    BY <1>0, <1>2 DEF CreateStat, CreateReturn, CreatePanic, RunResume, CreatorMoves, files, TypeOK
  <2>. QED
    BY <1>0, <1>2, <2>1, CreatorMovesAlone DEF CreatorStep, PidNamed
<1>3. ASSUME NEW g \in Gens, CreateMkdir(g) PROVE PidNamed'
  <2>1. pid = None /\ boot[g] = "none" /\ g \notin pipe
    BY <1>0, <1>3 DEF CreateMkdir, DirOwned, Staged, AfterNotify, BootEnded
  <2>2. UNCHANGED <<boot, pipe, pid>> /\ dir' \subseteq dir \cup {g}
    BY <1>3 DEF CreateMkdir
  <2>. QED
    BY <1>0, <2>1, <2>2 DEF PidNamed
<1>4. ASSUME NEW g \in Gens, CreateBoot(g) PROVE PidNamed'
  <2>1. /\ pid = None /\ UNCHANGED <<pipe, dir, pid>>
        /\ creator'[g] # "mounts" /\ boot'[g] \in {boot[g], "setup"}
    BY <1>0, <1>4 DEF CreateBoot, CreatorMoves, PidNamed, files, TypeOK
  <2>2. boot[g] = "none"
    BY <1>0, <1>4 DEF CreateBoot, Staged
  <2>3. \A h \in Gens : h # g => creator'[h] = creator[h] /\ boot'[h] = boot[h]
    BY <1>0, <1>4, CreatorMovesAlone DEF CreatorStep
  <2>4. boot'[g] \notin Unreported \ BeforePid
    BY <2>1, <2>2 DEF Unreported, BeforePid, BootRunning
  <2>. QED
    BY <1>0, <2>1, <2>3, <2>4 DEF PidNamed
<1>5. ASSUME NEW g \in Gens, BootWritePid(g) PROVE PidNamed'
  <2>1. boot[g] = "writepid" /\ creator[g] = "wait"
    BY <1>0, <1>5 DEF BootWritePid, BootMoves, Staged, Unreported, BootRunning, AfterNotify,
       BootEnded
  <2>2. dir = {g} /\ pid = None /\ g \notin pipe
    BY <1>0, <2>1 DEF DirOwned, PidNamed, BeforePid, Staged, AfterNotify, BootEnded
  <2>3. pid' = g /\ boot' = [boot EXCEPT ![g] = "sigstop"] /\ UNCHANGED <<creator, pipe, dir>>
    BY <1>5, <2>2 DEF BootWritePid, BootMoves, WriteExcl
  <2>4. \A h \in Gens : h # g => creator[h] \notin {"mounts", "wait"}
    BY <1>0, <2>1 DEF Alone, CreatorBusy
  <2>5. \A h \in Gens : h # g => boot'[h] \notin BeforePid /\ boot'[h] \notin Unreported
    BY <1>0, <2>3, <2>4 DEF Staged, TypeOK, BeforePid, Unreported, BootRunning, AfterNotify,
       BootEnded
  <2>6. boot'[g] = "sigstop" /\ boot'[g] \notin BeforePid
    BY <1>0, <2>3 DEF TypeOK, BeforePid
  <2>. QED
    BY <2>1, <2>2, <2>3, <2>4, <2>5, <2>6 DEF PidNamed
<1>6. ASSUME NEW g \in Gens, BootStep(g), ~BootWritePid(g) PROVE PidNamed'
  <2>1. /\ pid' = pid
        /\ pipe' = pipe \/ (pipe' = pipe \cup {g} /\ boot[g] = "notify")
    BY <1>6 DEF BootStep, BootSetup, BootPid9p, BootConnect, BootExec, BootSigstop, BootPidFile,
       BootFail, BootSaveCreated, BootNotify, BootWait, BootKill9p, BootSaveStopped, BootMoves,
       files
  <2>2. /\ boot[g] # "none" /\ boot'[g] # "none"
        /\ boot'[g] \in BeforePid => boot[g] \in BeforePid
        /\ boot'[g] \in Unreported \ BeforePid => boot[g] \in Unreported \ BeforePid
    <3>. USE DEF BeforePid, Unreported, BootRunning, AfterNotify, BootEnded
    <3>1. CASE BootSetup(g) \/ BootPid9p(g) \/ BootConnect(g) \/ BootExec(g) \/ BootFail(g)
      BY <1>0, <3>1 DEF BootSetup, BootPid9p, BootConnect, BootExec, BootFail, BootMoves,
         BootEnds, TypeOK
    <3>2. CASE BootSigstop(g) \/ BootPidFile(g) \/ BootSaveCreated(g)
      BY <1>0, <3>2 DEF BootSigstop, BootPidFile, BootSaveCreated, BootMoves, BootEnds, TypeOK
    <3>3. CASE BootNotify(g) \/ BootWait(g) \/ BootKill9p(g) \/ BootSaveStopped(g)
      BY <1>0, <3>3 DEF BootNotify, BootWait, BootKill9p, BootSaveStopped, BootMoves, BootEnds,
         TypeOK
    <3>. QED
      BY <1>6, <3>1, <3>2, <3>3 DEF BootStep
  <2>3. /\ \A h \in Gens : h # g => boot'[h] = boot[h]
        /\ UNCHANGED <<creator, dir>>
    BY <1>0, <1>6, BootMovesAlone
  <2>4. \A h \in pipe' \cap dir : pid = h
    BY <1>0, <2>1 DEF PidNamed, Unreported, BeforePid, BootRunning, AfterNotify, BootEnded
  <2>5. pid # None => boot'[pid] # "none"
    BY <1>0, <2>2, <2>3 DEF PidNamed, TypeOK
  <2>. QED
    BY <1>0, <2>1, <2>2, <2>3, <2>4, <2>5 DEF PidNamed
<1>7. ASSUME NEW g \in Gens, GuestExit(g) \/ ServerDies(g) PROVE PidNamed'
  BY <1>1, <1>7 DEF GuestExit, ServerDies, files
<1>8. ASSUME NEW s \in Starts, StartCall(s) \/ StartResume(s) \/ StartSave(s) PROVE PidNamed'
  BY <1>1, <1>8 DEF StartCall, StartResume, StartSave, procs, files
<1>9. ASSUME NEW k \in Kills, KillCall(k) \/ KillStep(k) PROVE PidNamed'
  BY <1>1, <1>9 DEF KillCall, KillStep, KillServer, KillMain, KillSave, procs, files
<1>10. CASE Delete
  <2>1. Quiet /\ dir' = {} /\ pid' = None /\ UNCHANGED <<creator, boot, pipe>>
    BY <1>10, LifecycleAssumption DEF Delete, MayDelete, Serial, procs
  <2>2. \A g \in Gens : boot[g] \notin Unreported /\ creator[g] # "mounts"
    BY <1>0, <2>1 DEF Quiet, CreatorBusy, Staged
  <2>. QED
    BY <2>1, <2>2 DEF PidNamed
<1>. QED
  BY <1>2, <1>3, <1>4, <1>5, <1>6, <1>7, <1>8, <1>9, <1>10 DEF Next, CreatorStep

\* The guest that is told to go has its SIGSTOP behind it.
LEMMA StepWake == Serial /\ SInv /\ Next => NoLostWake'
<1>. SUFFICES ASSUME Serial, SInv, Next PROVE NoLostWake'
  OBVIOUS
<1>0. TypeOK /\ Staged /\ NoLostWake
  BY DEF SInv
<1>1. ASSUME UNCHANGED <<guest, woken>> PROVE NoLostWake'
  BY <1>0, <1>1 DEF NoLostWake
<1>2. ASSUME Resume PROVE NoLostWake'
  <2>1. CASE pid # None /\ GuestLive(pid)
    BY <1>0, <1>2, <2>1 DEF Resume, NoLostWake, TypeOK
  <2>2. CASE ~(pid # None /\ GuestLive(pid))
    BY <1>1, <1>2, <2>2 DEF Resume
  <2>. QED
    BY <2>1, <2>2
<1>3. ASSUME NEW g \in Gens, \/ CreateStat(g) \/ CreateMkdir(g) \/ CreateBoot(g)
                             \/ CreateReturn(g) \/ CreatePanic(g) \/ ServerDies(g)
      PROVE  NoLostWake'
  BY <1>1, <1>3 DEF CreateStat, CreateMkdir, CreateBoot, CreateReturn, CreatePanic, ServerDies
<1>4. ASSUME NEW g \in Gens, RunResume(g) PROVE NoLostWake'
  BY <1>2, <1>4 DEF RunResume
<1>5. ASSUME NEW g \in Gens, BootSigstop(g) PROVE NoLostWake'
  <2>1. g \notin woken
    BY <1>0, <1>5 DEF BootSigstop, BootMoves, Staged, AfterNotify, BootEnded
  <2>2. woken' = woken /\ \A h \in Gens : h # g => guest'[h] = guest[h]
    BY <1>0, <1>5, BootMovesAlone DEF BootStep
  <2>. QED
    BY <1>0, <2>1, <2>2 DEF NoLostWake, TypeOK
<1>6. ASSUME NEW g \in Gens, woken' = woken, NEW to \in {"running", "zombie", "gone"},
             guest' = [guest EXCEPT ![g] = to] \/ guest' = guest
      PROVE  NoLostWake'
  BY <1>0, <1>6 DEF NoLostWake, TypeOK
<1>7. ASSUME NEW g \in Gens, BootStep(g), ~BootSigstop(g) PROVE NoLostWake'
  <2>1. CASE \/ BootSetup(g) \/ BootPid9p(g) \/ BootConnect(g) \/ BootWritePid(g)
             \/ BootPidFile(g) \/ BootNotify(g) \/ BootKill9p(g)
    BY <1>1, <2>1 DEF BootSetup, BootPid9p, BootConnect, BootWritePid, BootPidFile, BootNotify,
       BootKill9p
  <2>2. CASE BootExec(g) \/ BootWait(g)
    BY <1>6, <2>2 DEF BootExec, BootWait
  <2>3. CASE BootFail(g) \/ BootSaveCreated(g) \/ BootSaveStopped(g)
    <3>1. /\ woken' = woken
          /\ \/ guest' = [guest EXCEPT ![g] = IF @ = "zombie" THEN "gone" ELSE @]
             \/ guest' = guest
      BY <2>3 DEF BootFail, BootSaveCreated, BootSaveStopped, BootEnds
    <3>. QED
      BY <1>0, <3>1 DEF NoLostWake, TypeOK
  <2>. QED
    BY <1>7, <2>1, <2>2, <2>3 DEF BootStep
<1>8. ASSUME NEW g \in Gens, GuestExit(g) PROVE NoLostWake'
  BY <1>6, <1>8 DEF GuestExit, Dead
<1>9. ASSUME NEW s \in Starts, StartCall(s) \/ StartSave(s) PROVE NoLostWake'
  BY <1>1, <1>9 DEF StartCall, StartSave, procs
<1>10. ASSUME NEW s \in Starts, StartResume(s) PROVE NoLostWake'
  BY <1>2, <1>10 DEF StartResume
<1>11. ASSUME NEW k \in Kills, KillCall(k) \/ KillServer(k) \/ KillSave(k) PROVE NoLostWake'
  BY <1>1, <1>11 DEF KillCall, KillServer, KillSave, procs
<1>12. ASSUME NEW k \in Kills, KillMain(k) PROVE NoLostWake'
  <2>1. CASE pid = None
    BY <1>1, <1>12, <2>1 DEF KillMain
  <2>2. CASE pid # None
    <3>1. PICK after \in AfterSignal(pid, KillSig[k]) : guest' = [guest EXCEPT ![pid] = after]
      BY <1>12, <2>2 DEF KillMain
    <3>2. after \in {"running", "zombie", "gone"} \/ after = guest[pid]
      BY <3>1 DEF AfterSignal, Dead
    <3>3. pid \in Gens /\ woken' = woken
      BY <1>0, <1>12, <2>2 DEF KillMain, TypeOK
    <3>. QED
      BY <1>0, <3>1, <3>2, <3>3 DEF NoLostWake, TypeOK
  <2>. QED
    BY <2>1, <2>2
<1>13. CASE Delete
  BY <1>1, <1>13 DEF Delete, procs
<1>. QED
  BY <1>3, <1>4, <1>5, <1>7, <1>8, <1>9, <1>10, <1>11, <1>12, <1>13 DEF Next, CreatorStep, KillStep

\* The status is saved before the byte is written, and not unsaved.
LEMMA StepFirstStatus ==
  Serial /\ BootHasSpec /\ SInv /\ FirstStatus /\ Next => FirstStatus'
<1>. SUFFICES ASSUME Serial, BootHasSpec, SInv, FirstStatus, Next PROVE FirstStatus'
  OBVIOUS
<1>0. TypeOK /\ DirOwned /\ Staged
  BY DEF SInv
<1>1. ASSUME UNCHANGED <<boot, pipe, dir>>, state' = state \/ state' \in {"running", "stopped"}
      PROVE  FirstStatus'
  BY <1>1 DEF FirstStatus
<1>2. ASSUME NEW g \in Gens, CreateStat(g) \/ CreateReturn(g) \/ CreatePanic(g) \/ RunResume(g)
      PROVE  FirstStatus'
  BY <1>1, <1>2 DEF CreateStat, CreateReturn, CreatePanic, RunResume, files
<1>3. ASSUME NEW g \in Gens, CreateMkdir(g) PROVE FirstStatus'
  <2>1. g \notin pipe /\ dir' \subseteq dir \cup {g} /\ UNCHANGED <<boot, pipe, state>>
    BY <1>0, <1>3 DEF CreateMkdir, Staged, AfterNotify, BootEnded
  <2>. QED
    BY <2>1 DEF FirstStatus
<1>4. ASSUME NEW g \in Gens, CreateBoot(g) PROVE FirstStatus'
  <2>1. /\ UNCHANGED <<pipe, dir, state>>
        /\ boot' = boot \/ boot' = [boot EXCEPT ![g] = "setup"]
    BY <1>4 DEF CreateBoot, files
  <2>. QED
    BY <1>0, <2>1 DEF FirstStatus, TypeOK
<1>5. ASSUME NEW g \in Gens, BootSaveCreated(g) PROVE FirstStatus'
  <2>1. dir = {g}
    BY <1>0, <1>5 DEF BootSaveCreated, Staged, Unreported, BootRunning, AfterNotify, BootEnded,
       DirOwned
  <2>2. state' = "created" /\ UNCHANGED <<pipe, dir>>
    BY <1>5, <2>1 DEF BootSaveCreated, SaveState, BootHasSpec
  <2>. QED
    BY <2>2 DEF FirstStatus
<1>6. ASSUME NEW g \in Gens, BootNotify(g) PROVE FirstStatus'
  <2>1. state # "none" /\ boot' = [boot EXCEPT ![g] = "wait"] /\ UNCHANGED <<dir, state>>
    BY <1>6 DEF BootNotify, BootMoves, FirstStatus, files
  <2>. QED
    BY <2>1 DEF FirstStatus
<1>7. ASSUME NEW g \in Gens, BootSaveStopped(g) PROVE FirstStatus'
  <2>1. /\ state' \in {state, "stopped"} /\ UNCHANGED <<pipe, dir>>
        /\ \E how \in BootEnded : boot' = [boot EXCEPT ![g] = how]
    BY <1>7 DEF BootSaveStopped, SaveState, BootEnds, BootEnded
  <2>. QED
    BY <1>0, <2>1 DEF FirstStatus, TypeOK, BootEnded
<1>8. ASSUME NEW g \in Gens, \/ BootSetup(g) \/ BootPid9p(g) \/ BootConnect(g) \/ BootExec(g)
                             \/ BootWritePid(g) \/ BootSigstop(g) \/ BootPidFile(g)
                             \/ BootFail(g) \/ BootWait(g) \/ BootKill9p(g)
      PROVE  FirstStatus'
  <2>1. UNCHANGED <<pipe, dir, state>>
    BY <1>8 DEF BootSetup, BootPid9p, BootConnect, BootExec, BootWritePid, BootSigstop, BootPidFile,
       BootFail, BootWait, BootKill9p, files
  <2>2. \E to : boot' = [boot EXCEPT ![g] = to] /\ to # "notify"
    BY <1>8 DEF BootSetup, BootPid9p, BootConnect, BootExec, BootWritePid, BootSigstop, BootPidFile,
       BootFail, BootWait, BootKill9p, BootMoves, BootEnds
  <2>. QED
    BY <1>0, <2>1, <2>2 DEF FirstStatus, TypeOK
<1>9. ASSUME NEW g \in Gens, GuestExit(g) \/ ServerDies(g) PROVE FirstStatus'
  BY <1>1, <1>9 DEF GuestExit, ServerDies, files
<1>10. ASSUME NEW s \in Starts, StartCall(s) \/ StartResume(s) \/ StartSave(s) PROVE FirstStatus'
  BY <1>1, <1>10 DEF StartCall, StartResume, StartSave, SaveState, procs, files
<1>11. ASSUME NEW k \in Kills, KillCall(k) \/ KillStep(k) PROVE FirstStatus'
  BY <1>1, <1>11 DEF KillCall, KillStep, KillServer, KillMain, KillSave, SaveState, procs, files
<1>12. CASE Delete
  <2>1. Quiet /\ dir' = {} /\ UNCHANGED <<creator, boot, pipe>>
    BY <1>12, LifecycleAssumption DEF Delete, MayDelete, Serial, procs
  <2>2. \A g \in Gens : boot[g] # "notify"
    BY <1>0, <2>1 DEF Quiet, CreatorBusy, Staged, Unreported, BootRunning, AfterNotify, BootEnded
  <2>. QED
    BY <2>1, <2>2 DEF FirstStatus
<1>. QED
  BY <1>2, <1>3, <1>4, <1>5, <1>6, <1>7, <1>8, <1>9, <1>10, <1>11, <1>12
     DEF Next, CreatorStep, BootStep

\* The parts hold of an id that nobody has used, and of a state that stutters.
LEMMA InitSInv == Init => SInv /\ FirstStatus
<1>. SUFFICES ASSUME Init PROVE SInv /\ FirstStatus
  OBVIOUS
<1>1. Alone /\ DirOwned
  BY DEF Init, Alone, DirOwned, PidFileFresh, CreateExclusive, CreatorBusy
<1>2. Staged /\ PidNamed
  BY DEF Init, Staged, PidNamed, Unreported, BootRunning, Returned
<1>3. NoLostWake /\ FirstStatus
  BY DEF Init, NoLostWake, FirstStatus
<1>. QED
  BY <1>1, <1>2, <1>3, InitTypeOK DEF SInv

LEMMA StutterSInv ==
  UNCHANGED vars => (SInv => SInv') /\ (FirstStatus => FirstStatus')
<1>. SUFFICES ASSUME UNCHANGED vars PROVE (SInv => SInv') /\ (FirstStatus => FirstStatus')
  OBVIOUS
<1>. USE DEF vars, procs, files, cmds
<1>1. TypeOK => TypeOK'
  BY DEF TypeOK
<1>2. (Alone => Alone') /\ (DirOwned => DirOwned')
  BY DEF Alone, DirOwned, PidFileFresh, CreateExclusive
<1>3. (Staged => Staged') /\ (PidNamed => PidNamed')
  BY DEF Staged, PidNamed
<1>4. (NoLostWake => NoLostWake') /\ (FirstStatus => FirstStatus')
  BY DEF NoLostWake, FirstStatus
<1>. QED
  BY <1>1, <1>2, <1>3, <1>4 DEF SInv

\* Every step preserves their conjunction when commands do not overlap.
LEMMA StepSInv == Serial /\ SInv /\ [Next]_vars => SInv'
<1>1. Serial /\ SInv /\ Next => SInv'
  BY StepTypeOK, StepAlone, StepDirOwned, StepStaged, StepPidNamed, StepWake DEF SInv
<1>. QED
  BY <1>1, StutterSInv

-----------------------------------------------------------------------------
(* The theorems about serial callers.                                      *)

\* The inductive invariant holds for a shell as for containerd.
THEOREM SerialInvariance == Serial => (Safety => []SInv)
<1>. SUFFICES ASSUME Serial PROVE Safety => []SInv
  OBVIOUS
<1>1. SInv /\ [Next]_vars => SInv'
  BY StepSInv
<1>. QED
  BY InitSInv, <1>1, PTL DEF Safety

\* Pid files are never about a generation that is gone, even when a container
\* is deleted while its guest and its helper live.
THEOREM NoStalePidFile == Serial => (Safety => []PidFileFresh)
<1>1. SInv => PidFileFresh
  BY DEF SInv, DirOwned
<1>. QED
  BY SerialInvariance, <1>1, PTL

\* The SIGCONT of start and run is never followed by the helper's SIGSTOP.
THEOREM WakeIsNotLost == Serial => (Safety => []NoLostWake)
<1>1. SInv => NoLostWake
  BY DEF SInv
<1>. QED
  BY SerialInvariance, <1>1, PTL

\* When create returns, the pid file and a first status are there.
THEOREM CreatedIsReady == Serial /\ BootHasSpec => (Safety => []ReadyWhenCreated)
<1>. SUFFICES ASSUME Serial, BootHasSpec PROVE Safety => []ReadyWhenCreated
  OBVIOUS
<1>1. SInv /\ FirstStatus /\ [Next]_vars => SInv' /\ FirstStatus'
  BY StepSInv, StepFirstStatus, StutterSInv
<1>2. SInv /\ FirstStatus => ReadyWhenCreated
  BY DEF SInv, FirstStatus, PidNamed, Staged, Returned, ReadyWhenCreated
<1>. QED
  BY InitSInv, <1>1, <1>2, PTL DEF Safety

-----------------------------------------------------------------------------
(* Lifecycle implements OCI (without the fairness of OCI, which TLC checks). *)

\* On top of SInv, what the phase of the container depends on: an owner that has begun, a
\* SIGCONT only after the return, a guest that outlives cmd.Wait nowhere.
PhaseKnown ==
  /\ \A g \in dir : creator[g] \notin {"idle", "mkdir"}
  /\ \A g \in woken : creator[g] \in CreatorDone
  /\ \A g \in pipe : boot[g] # "wait" => guest[g] = "gone"

\* What the refinement needs is kept by whatever serial callers do.
LEMMA StepPhaseKnown == Serial /\ SInv /\ PhaseKnown /\ Next => PhaseKnown'
<1>. SUFFICES ASSUME Serial, SInv, PhaseKnown, Next PROVE PhaseKnown'
  OBVIOUS
<1>. USE LifecycleAssumption DEF Serial, SInv, TypeOK, Alone,
     DirOwned, CreateExclusive, PidFileFresh, Staged, PidNamed, Unreported,
     PhaseKnown, AfterNotify, Returned, CreatorBusy, CreatorDone, BootRunning,
     BootEnded, files, procs, cmds
<1>1. ASSUME NEW g \in Gens, CreateStat(g) PROVE PhaseKnown'
  BY <1>1 DEF CreateStat, CreatorMoves, BootLive, GuestLive, MayCreate,
         NameFree, Quiet
<1>2. ASSUME NEW g \in Gens, CreateMkdir(g) PROVE PhaseKnown'
  BY <1>2 DEF CreateMkdir, CreatorMoves, BootLive, GuestLive
<1>3. ASSUME NEW g \in Gens, CreateBoot(g) PROVE PhaseKnown'
  BY <1>3 DEF CreateBoot, CreatorMoves, BootLive, GuestLive
<1>4. ASSUME NEW g \in Gens, CreateReturn(g) PROVE PhaseKnown'
  BY <1>4 DEF CreateReturn, CreatorMoves, BootLive, GuestLive, PipeReady
<1>5. ASSUME NEW g \in Gens, CreatePanic(g) PROVE PhaseKnown'
  BY <1>5 DEF CreatePanic, CreatorMoves, BootLive, GuestLive, BootFailed
<1>6. ASSUME NEW g \in Gens, RunResume(g) PROVE PhaseKnown'
  BY <1>6 DEF RunResume, CreatorMoves, Resume, BootLive, GuestLive
<1>7. ASSUME NEW g \in Gens, BootSetup(g) PROVE PhaseKnown'
  BY <1>7 DEF BootSetup, BootMoves, BootLive, GuestLive
<1>8. ASSUME NEW g \in Gens, BootPid9p(g) PROVE PhaseKnown'
  BY <1>8 DEF BootPid9p, BootMoves, WriteExcl, BootLive, GuestLive
<1>9. ASSUME NEW g \in Gens, BootConnect(g) PROVE PhaseKnown'
  BY <1>9 DEF BootConnect, BootMoves, BootLive, GuestLive
<1>10. ASSUME NEW g \in Gens, BootExec(g) PROVE PhaseKnown'
  BY <1>10 DEF BootExec, BootMoves, BootLive, GuestLive
<1>11. ASSUME NEW g \in Gens, BootWritePid(g) PROVE PhaseKnown'
  BY <1>11 DEF BootWritePid, BootMoves, WriteExcl, BootLive, GuestLive
<1>12. ASSUME NEW g \in Gens, BootSigstop(g) PROVE PhaseKnown'
  BY <1>12 DEF BootSigstop, BootMoves, BootLive, GuestLive
<1>13. ASSUME NEW g \in Gens, BootPidFile(g) PROVE PhaseKnown'
  BY <1>13 DEF BootPidFile, BootMoves, BootLive, GuestLive
<1>14. ASSUME NEW g \in Gens, BootFail(g) PROVE PhaseKnown'
  BY <1>14 DEF BootFail, BootEnds, BootLive, GuestLive
<1>15. ASSUME NEW g \in Gens, BootSaveCreated(g) PROVE PhaseKnown'
  BY <1>15 DEF BootSaveCreated, SaveState, BootEnds, BootMoves, BootLive,
         GuestLive, SavePanics
<1>16. ASSUME NEW g \in Gens, BootNotify(g) PROVE PhaseKnown'
  BY <1>16 DEF BootNotify, BootMoves, BootLive, GuestLive
<1>17. ASSUME NEW g \in Gens, BootWait(g) PROVE PhaseKnown'
  BY <1>17 DEF BootWait, BootMoves, BootLive, GuestLive
<1>18. ASSUME NEW g \in Gens, BootKill9p(g) PROVE PhaseKnown'
  BY <1>18 DEF BootKill9p, BootMoves, EndServer, BootLive, GuestLive
<1>19. ASSUME NEW g \in Gens, BootSaveStopped(g) PROVE PhaseKnown'
  BY <1>19 DEF BootSaveStopped, SaveState, BootEnds, BootLive, GuestLive,
         SavePanics
<1>20. ASSUME NEW g \in Gens, GuestExit(g) PROVE PhaseKnown'
  BY <1>20 DEF GuestExit, Dead, BootLive, GuestLive
<1>21. ASSUME NEW g \in Gens, ServerDies(g) PROVE PhaseKnown'
  BY <1>21 DEF ServerDies, BootLive, GuestLive
<1>22. ASSUME NEW s \in Starts, StartCall(s) PROVE PhaseKnown'
  BY <1>22 DEF StartCall, StarterMoves, BootLive, GuestLive, MayStart, Quiet
<1>23. ASSUME NEW s \in Starts, StartResume(s) PROVE PhaseKnown'
  BY <1>23 DEF StartResume, StarterMoves, Resume, BootLive, GuestLive
<1>24. ASSUME NEW s \in Starts, StartSave(s) PROVE PhaseKnown'
  BY <1>24 DEF StartSave, StarterMoves, SaveState, BootLive, GuestLive
<1>25. ASSUME NEW k \in Kills, KillCall(k) PROVE PhaseKnown'
  BY <1>25 DEF KillCall, KillerMoves, BootLive, GuestLive, MayKill, Quiet
<1>26. ASSUME NEW k \in Kills, KillServer(k) PROVE PhaseKnown'
  BY <1>26 DEF KillServer, KillerMoves, EndServer, BootLive, GuestLive
<1>27. ASSUME NEW k \in Kills, KillMain(k) PROVE PhaseKnown'
  BY <1>27 DEF KillMain, KillerMoves, AfterSignal, Dead, BootLive, GuestLive
<1>28. ASSUME NEW k \in Kills, KillSave(k) PROVE PhaseKnown'
  BY <1>28 DEF KillSave, KillerMoves, SaveState, BootLive, GuestLive
<1>29. CASE Delete
  BY <1>29 DEF Delete, BootLive, GuestLive, MayDelete, ExitSeen, Quiet
<1>. QED
  BY <1>1, <1>2, <1>3, <1>4, <1>5, <1>6, <1>7, <1>8, <1>9, <1>10, <1>11,
     <1>12, <1>13, <1>14, <1>15, <1>16, <1>17, <1>18, <1>19, <1>20, <1>21,
     <1>22, <1>23, <1>24, <1>25, <1>26, <1>27, <1>28, <1>29
     DEF Next, CreatorStep, BootStep, KillStep

\* The moves of OCI between two phases, Claim and Remove excepted.
PhaseStep(a, b) ==
  \/ a = b
  \/ a = "creating" /\ b \in {"created", "stopped", "failed"}
  \/ a = "created"  /\ b = "running"
  \/ a \in {"created", "running", "failed"} /\ b = "stopped"

\* The phase of the container is that of the only owner of its directory.
LEMMA PhaseOfOwner == ASSUME NEW g \in Gens, dir = {g} PROVE Phase = PhaseOf(g)
  BY DEF Phase

\* The same in the next state.
LEMMA PhaseOfOwnerNext ==
  ASSUME NEW g \in Gens, dir' = {g} PROVE Phase' = PhaseOf(g)'
<1>1. dir' # {} /\ (CHOOSE h \in dir' : TRUE) = g
  OBVIOUS
<1>. QED
  BY <1>1 DEF Phase, PhaseOf, GuestLive

\* As long as the directory stays, its owner moves along the phases.
LEMMA OwnerMoves ==
  ASSUME Serial, SInv, PhaseKnown, Next, NEW h \in Gens, dir = {h}, dir' = {h}
  PROVE  PhaseStep(PhaseOf(h), PhaseOf(h)')
<1>. DEFINE Moves == PhaseStep(PhaseOf(h), PhaseOf(h)')
<1>. USE LifecycleAssumption DEF PhaseStep, PhaseOf, Serial, SInv, TypeOK, Alone,
     DirOwned, CreateExclusive, PidFileFresh, Staged, PidNamed, Unreported,
     PhaseKnown, AfterNotify, Returned, CreatorBusy, CreatorDone, BootRunning,
     BootEnded, files, procs, cmds
<1>1. Moves
  <2>1. ASSUME NEW g \in Gens, CreateStat(g) PROVE Moves
    BY <2>1 DEF CreateStat, CreatorMoves, BootLive, GuestLive, MayCreate,
           NameFree, Quiet
  <2>2. ASSUME NEW g \in Gens, CreateMkdir(g) PROVE Moves
    BY <2>2 DEF CreateMkdir, CreatorMoves, BootLive, GuestLive
  <2>3. ASSUME NEW g \in Gens, CreateBoot(g) PROVE Moves
    BY <2>3 DEF CreateBoot, CreatorMoves, BootLive, GuestLive
  <2>4. ASSUME NEW g \in Gens, CreateReturn(g) PROVE Moves
    BY <2>4 DEF CreateReturn, CreatorMoves, BootLive, GuestLive, PipeReady
  <2>5. ASSUME NEW g \in Gens, CreatePanic(g) PROVE Moves
    BY <2>5 DEF CreatePanic, CreatorMoves, BootLive, GuestLive, BootFailed
  <2>6. ASSUME NEW g \in Gens, RunResume(g) PROVE Moves
    BY <2>6 DEF RunResume, CreatorMoves, Resume, BootLive, GuestLive
  <2>7. ASSUME NEW g \in Gens, BootSetup(g) PROVE Moves
    BY <2>7 DEF BootSetup, BootMoves, BootLive, GuestLive
  <2>8. ASSUME NEW g \in Gens, BootPid9p(g) PROVE Moves
    BY <2>8 DEF BootPid9p, BootMoves, WriteExcl, BootLive, GuestLive
  <2>9. ASSUME NEW g \in Gens, BootConnect(g) PROVE Moves
    BY <2>9 DEF BootConnect, BootMoves, BootLive, GuestLive
  <2>10. ASSUME NEW g \in Gens, BootExec(g) PROVE Moves
    BY <2>10 DEF BootExec, BootMoves, BootLive, GuestLive
  <2>11. ASSUME NEW g \in Gens, BootWritePid(g) PROVE Moves
    BY <2>11 DEF BootWritePid, BootMoves, WriteExcl, BootLive, GuestLive
  <2>12. ASSUME NEW g \in Gens, BootSigstop(g) PROVE Moves
    BY <2>12 DEF BootSigstop, BootMoves, BootLive, GuestLive
  <2>13. ASSUME NEW g \in Gens, BootPidFile(g) PROVE Moves
    BY <2>13 DEF BootPidFile, BootMoves, BootLive, GuestLive
  <2>14. ASSUME NEW g \in Gens, BootFail(g) PROVE Moves
    BY <2>14 DEF BootFail, BootEnds, BootLive, GuestLive
  <2>15. ASSUME NEW g \in Gens, BootSaveCreated(g) PROVE Moves
    BY <2>15 DEF BootSaveCreated, SaveState, BootEnds, BootMoves, BootLive,
           GuestLive, SavePanics
  <2>16. ASSUME NEW g \in Gens, BootNotify(g) PROVE Moves
    BY <2>16 DEF BootNotify, BootMoves, BootLive, GuestLive
  <2>17. ASSUME NEW g \in Gens, BootWait(g) PROVE Moves
    BY <2>17 DEF BootWait, BootMoves, BootLive, GuestLive
  <2>18. ASSUME NEW g \in Gens, BootKill9p(g) PROVE Moves
    BY <2>18 DEF BootKill9p, BootMoves, EndServer, BootLive, GuestLive
  <2>19. ASSUME NEW g \in Gens, BootSaveStopped(g) PROVE Moves
    BY <2>19 DEF BootSaveStopped, SaveState, BootEnds, BootLive, GuestLive,
           SavePanics
  <2>20. ASSUME NEW g \in Gens, GuestExit(g) PROVE Moves
    BY <2>20 DEF GuestExit, Dead, BootLive, GuestLive
  <2>21. ASSUME NEW g \in Gens, ServerDies(g) PROVE Moves
    BY <2>21 DEF ServerDies, BootLive, GuestLive
  <2>22. ASSUME NEW s \in Starts, StartCall(s) PROVE Moves
    BY <2>22 DEF StartCall, StarterMoves, BootLive, GuestLive, MayStart, Quiet
  <2>23. ASSUME NEW s \in Starts, StartResume(s) PROVE Moves
    BY <2>23 DEF StartResume, StarterMoves, Resume, BootLive, GuestLive
  <2>24. ASSUME NEW s \in Starts, StartSave(s) PROVE Moves
    BY <2>24 DEF StartSave, StarterMoves, SaveState, BootLive, GuestLive
  <2>25. ASSUME NEW k \in Kills, KillCall(k) PROVE Moves
    BY <2>25 DEF KillCall, KillerMoves, BootLive, GuestLive, MayKill, Quiet
  <2>26. ASSUME NEW k \in Kills, KillServer(k) PROVE Moves
    BY <2>26 DEF KillServer, KillerMoves, EndServer, BootLive, GuestLive
  <2>27. ASSUME NEW k \in Kills, KillMain(k) PROVE Moves
    BY <2>27 DEF KillMain, KillerMoves, AfterSignal, Dead, BootLive, GuestLive
  <2>28. ASSUME NEW k \in Kills, KillSave(k) PROVE Moves
    BY <2>28 DEF KillSave, KillerMoves, SaveState, BootLive, GuestLive
  <2>29. CASE Delete
    BY <2>29 DEF Delete, BootLive, GuestLive, MayDelete, ExitSeen, Quiet
  <2>. QED
    BY <2>1, <2>2, <2>3, <2>4, <2>5, <2>6, <2>7, <2>8, <2>9, <2>10, <2>11,
       <2>12, <2>13, <2>14, <2>15, <2>16, <2>17, <2>18, <2>19, <2>20, <2>21,
       <2>22, <2>23, <2>24, <2>25, <2>26, <2>27, <2>28, <2>29
       DEF Next, CreatorStep, BootStep, KillStep
<1>. QED
  BY <1>1

\* When containerd deletes a container it is dead, on either platform, or its
\* create failed and left a guest behind.
LEMMA DeletedIsStopped ==
  ASSUME Caller = "containerd", SInv, PhaseKnown, Delete, NEW h \in dir
  PROVE  PhaseOf(h) \in {"stopped", "failed"}
<1>. USE LifecycleAssumption DEF SInv, TypeOK
<1>1. creator[h] \in CreatorDone
  BY DEF Delete, MayDelete, Quiet, PhaseKnown, CreatorBusy, CreatorDone
<1>2. ExitSeen(h)
  BY DEF Delete, MayDelete
<1>3. CASE Platform = "linux" /\ creator[h] \in Returned
  BY <1>1, <1>2, <1>3 DEF ExitSeen, BootLive, Staged, PhaseKnown, BootRunning, GuestLive,
     PhaseOf, CreatorDone
<1>4. CASE Platform = "darwin" \/ creator[h] \notin Returned
  BY <1>1, <1>2, <1>4 DEF ExitSeen, GuestLive, PhaseOf, Returned, CreatorDone
<1>. QED
  BY <1>3, <1>4

\* For containerd every step of runu, on linux and on darwin, is a step of the
\* OCI container or leaves its phase alone: only the guest of a failed create
\* can outlive its container.
THEOREM RefinesOCI ==
  Caller = "containerd" => (Safety => Container!Init /\ [][Container!Next]_Phase)
<1>. SUFFICES ASSUME Caller = "containerd"
              PROVE Safety => Container!Init /\ [][Container!Next]_Phase
  OBVIOUS
<1>1. Serial
  BY DEF Serial
<1>2. Init => Container!Init /\ PhaseKnown
  BY DEF Init, Container!Init, Phase, PhaseKnown
<1>3. SInv /\ PhaseKnown /\ [Next]_vars => SInv' /\ PhaseKnown'
  <2>1. PhaseKnown /\ UNCHANGED vars => PhaseKnown'
    BY DEF PhaseKnown, vars, procs, files
  <2>. QED
    BY <1>1, <2>1, StepSInv, StepPhaseKnown
<1>4. SInv /\ SInv' /\ PhaseKnown /\ [Next]_vars => [Container!Next]_Phase
  <2>. SUFFICES ASSUME SInv, SInv', PhaseKnown, [Next]_vars
                PROVE  Container!Next \/ Phase' = Phase
    OBVIOUS
  <2>. USE DEF Container!Next, Container!Claim, Container!Finish, Container!Start,
               Container!Exit, Container!Remove
  <2>1. CASE UNCHANGED vars
    BY <2>1 DEF vars, procs, files, Phase, PhaseOf, GuestLive
  <2>2. ASSUME NEW h \in Gens, dir = {h}, dir' = {h}, Next
        PROVE  Container!Next \/ Phase' = Phase
    BY <1>1, <2>2, OwnerMoves, PhaseOfOwner, PhaseOfOwnerNext DEF PhaseStep
  <2>3. ASSUME NEW g \in Gens, CreateMkdir(g), dir' # dir
        PROVE  Container!Claim
    BY <2>3, PhaseOfOwnerNext
       DEF CreateMkdir, CreatorMoves, SInv, TypeOK, DirOwned, Phase, PhaseOf
  <2>4. ASSUME Delete, NEW h \in Gens, dir = {h} PROVE Container!Remove
    BY <2>4, DeletedIsStopped, PhaseOfOwner DEF Delete, Phase
  <2>5. Next => dir' = dir \/ Delete \/ \E g \in Gens : CreateMkdir(g)
    BY DEF Next, CreatorStep, BootStep, KillStep, CreateStat,
           CreateBoot, CreateReturn, CreatePanic, RunResume, BootSetup,
           BootPid9p, BootConnect, BootExec, BootWritePid, BootSigstop,
           BootPidFile, BootFail, BootSaveCreated, BootNotify, BootWait,
           BootKill9p, BootSaveStopped, GuestExit, ServerDies, StartCall,
           StartResume, StartSave, KillCall, KillServer, KillMain, KillSave,
           files, procs, cmds
  <2>6. dir = {} \/ \E h \in Gens : dir = {h}
    BY DEF SInv, TypeOK, DirOwned, CreateExclusive
  <2>7. CASE dir = {} /\ dir' = {}
    BY <2>7 DEF Phase
  <2>. QED
    BY <2>1, <2>2, <2>3, <2>4, <2>5, <2>6, <2>7 DEF Delete
<1>. QED
  BY <1>1, InitSInv, <1>2, <1>3, <1>4, PTL DEF Safety
=============================================================================
