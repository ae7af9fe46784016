----------------------------- MODULE Lifecycle -----------------------------
(***************************************************************************)
(* The life of ONE container id under the runu commands create, run,       *)
(* start, kill and delete, together with the processes they leave behind:  *)
(* the `runu boot` helper, the guest (the unikernel) and its 9pfs server.  *)
(* They share the state directory <root>/<id>, which holds runu.pid,       *)
(* runu-9p.pid and state.json, and the pipe on which the helper reports.   *)
(*                                                                         *)
(* A generation g is one invocation of create or run.  Every generation    *)
(* has its own creator process, boot helper, guest and 9pfs server; the    *)
(* state directory is shared by all of them because it is named by the id. *)
(* A process is identified with its generation, so pid files hold a        *)
(* generation (pid reuse by the kernel is not modelled).                   *)
(***************************************************************************)
CONSTANTS
  Gens,         \* invocations of create and run
  RunGens,      \* those of them that are `runu run`
  Starts,       \* slots for `runu start` processes
  Kills,        \* slots for `runu kill` processes
  KillSig,      \* the signal each slot sends: "KILL", "TERM", or "0", which is
                \* what Atoi makes of a signal's name or of no argument
  Caller,       \* how the caller orders its commands, see MayCreate below
  Platform,     \* "linux" or "darwin"
  SpecMissing,  \* commands whose saveState does not find config.json
  None          \* no process in a pid file

ASSUME LifecycleAssumption ==
  /\ RunGens \subseteq Gens
  /\ KillSig \in [Kills -> {"KILL", "TERM", "0"}]
  /\ Caller \in {"any", "shell", "containerd"}
  /\ Platform \in {"linux", "darwin"}
  /\ SpecMissing \subseteq {"boot", "start", "kill"}
  /\ None \notin Gens

VARIABLES
  creator,   \* control of `runu create` / `runu run`, per generation
  boot,      \* control of its `runu boot` helper
  guest,     \* the unikernel process
  server,    \* the 9pfs server process
  pipe,      \* generations whose helper wrote its byte to the pipe
  woken,     \* generations whose guest was sent SIGCONT
  dir,       \* who believes to have made the state directory; {}: it is absent
  pid,       \* contents of runu.pid
  pid9p,     \* contents of runu-9p.pid
  state,     \* the status in state.json
  starter,   \* control of the `runu start` processes
  killer     \* control of the `runu kill` processes

files == <<dir, pid, pid9p, state>>
procs == <<creator, boot, guest, server>>
cmds  == <<starter, killer>>
vars  == <<procs, pipe, woken, files, cmds>>

CreatorBusy  == {"mkdir", "mounts", "wait", "resume"}
CreatorDone  == {"created", "ran", "failed", "panic"}
BootRunning  == {"setup", "pid9p", "connect", "exec", "writepid", "sigstop",
                 "pidfile", "saveCreated", "notify", "wait", "kill9p",
                 "saveStopped"}
BootEnded    == {"exit0", "exit2", "failed"}

TypeOK ==
  /\ creator \in [Gens -> {"idle"} \cup CreatorBusy \cup CreatorDone]
  /\ boot    \in [Gens -> {"none"} \cup BootRunning \cup BootEnded]
  /\ guest   \in [Gens -> {"none", "running", "stopped", "zombie", "gone"}]
  /\ server  \in [Gens -> {"none", "up", "dead"}]
  /\ pipe  \subseteq Gens
  /\ woken \subseteq Gens
  /\ dir   \subseteq Gens
  /\ pid   \in Gens \cup {None}
  /\ pid9p \in Gens \cup {None}
  /\ state \in {"none", "created", "running", "stopped"}
  /\ starter \in [Starts -> {"idle", "resume", "save"}]
  /\ killer  \in [Kills -> {"idle", "kill9p", "killmain", "save"}]

Init ==
  /\ creator = [g \in Gens |-> "idle"]
  /\ boot    = [g \in Gens |-> "none"]
  /\ guest   = [g \in Gens |-> "none"]
  /\ server  = [g \in Gens |-> "none"]
  /\ pipe = {} /\ woken = {}
  /\ dir = {} /\ pid = None /\ pid9p = None /\ state = "none"
  /\ starter = [s \in Starts |-> "idle"]
  /\ killer  = [k \in Kills |-> "idle"]

-----------------------------------------------------------------------------
(* Who calls runu, and in what order.  "any": commands at any time.        *)
(* "shell": one command after the other, as in test/standalone-test.sh.    *)
(* "containerd": one after the other, start and kill only on a container   *)
(* whose create succeeded, delete only when every exit has been reported;  *)
(* the process it watches is the one in its pid file: the helper on linux, *)
(* the guest on darwin.                                                    *)

BootLive(g)  == boot[g] \in BootRunning
GuestLive(g) == guest[g] \in {"running", "stopped"}

Quiet == /\ \A g \in Gens : creator[g] \notin CreatorBusy
         /\ \A s \in Starts : starter[s] = "idle"
         /\ \A k \in Kills : killer[k] = "idle"

ExitSeen(g) == IF Platform = "linux" THEN ~BootLive(g)
                                     ELSE guest[g] \in {"none", "gone"}

MayCreate == Caller \in {"shell", "containerd"} => Quiet

MayStart ==
  /\ Caller \in {"shell", "containerd"} => Quiet
  /\ Caller = "containerd" =>
       \E g \in dir : creator[g] = "created" /\ ~ExitSeen(g)

MayKill ==
  /\ Caller \in {"shell", "containerd"} => Quiet
  /\ Caller = "containerd" => \E g \in dir : creator[g] = "created"

MayDelete ==
  /\ Caller \in {"shell", "containerd"} => Quiet
  /\ Caller = "containerd" => \A g \in Gens : ExitSeen(g)

-----------------------------------------------------------------------------
(* Helpers shared by the commands.                                         *)

\* saveState finds no config.json (the caller ignores the error), or panics
\* because the directory is gone, or replaces the status.
SavePanics(cmd) == cmd \notin SpecMissing /\ dir = {}
SaveState(cmd, status) ==
  state' = IF cmd \in SpecMissing \/ dir = {} THEN state ELSE status

\* Seeded fault: the pid is appended to whatever the file holds.
WriteAppended(file, g) == IF dir # {} THEN {file, g} ELSE file

\* A pid file is opened with O_EXCL and the error is ignored: an existing
\* file keeps its contents, and nothing is written in a missing directory.
WriteExcl(file, g) == IF dir # {} /\ file = None THEN g ELSE file

\* resumeUkontainer: SIGCONT to the process in runu.pid, if there is one.
Resume ==
  IF pid # None /\ GuestLive(pid)
  THEN /\ guest' = [guest EXCEPT ![pid] = "running"]
       /\ woken' = woken \cup {pid}
  ELSE UNCHANGED <<guest, woken>>

\* A dead child waits for its parent, or for nobody when that has ended.
Dead(g) == IF BootLive(g) THEN "zombie" ELSE "gone"

\* Seeded fault: the signal never arrives.
SignalLost(g, sig) == {guest[g]}

\* The states a guest may be in after a signal.  A stopped process acts on
\* SIGTERM only once continued, a running one may handle it.
AfterSignal(g, sig) ==
  IF GuestLive(g) /\ sig = "KILL" THEN {Dead(g)}
  ELSE IF guest[g] = "running" /\ sig = "TERM" THEN {"running", Dead(g)}
  ELSE {guest[g]}

\* killFromPidFile on runu-9p.pid: any signal but 0 ends the server.
EndServer(sig) ==
  server' = [h \in Gens |-> IF h = pid9p /\ server[h] = "up" /\ sig # "0"
                            THEN "dead" ELSE server[h]]

-----------------------------------------------------------------------------
(* runu create and runu run: cmdCreateUkon.                                *)

\* Seeded faults: the existence check is forgotten; create waits for no byte,
\* or only for the guest's start; a dead helper goes unnoticed.
NameIgnored == TRUE
PipeIgnored(g) == boot[g] # "none"
PipeEarly(g) == guest[g] # "none"
DeathIgnored(g) == FALSE

\* os.Stat of the state directory finds nothing.
NameFree == dir = {}

\* One byte can be read from the pipe.  The creator keeps its own copy of
\* the write end open, so the helper's death never reads as end of file.
PipeReady(g) == g \in pipe

\* The goroutine in cmd.Wait panics when the helper ends with a failure.
BootFailed(g) == boot[g] \in {"exit2", "failed"}

CreatorMoves(g, pc) == creator' = [creator EXCEPT ![g] = pc]

\* loadSpec, then the check that the id is not in use.
CreateStat(g) ==
  /\ creator[g] = "idle" /\ MayCreate
  /\ \/ NameFree /\ CreatorMoves(g, "mkdir")
     \/ CreatorMoves(g, "failed")          \* id in use, or no config.json
  /\ UNCHANGED <<boot, guest, server, pipe, woken, files, cmds>>

\* os.MkdirAll: content with a directory that has appeared meanwhile.
CreateMkdir(g) ==
  /\ creator[g] = "mkdir"
  /\ \/ dir' = dir \cup {g} /\ CreatorMoves(g, "mounts")
     \/ UNCHANGED dir /\ CreatorMoves(g, "failed")
  /\ UNCHANGED <<boot, guest, server, pipe, woken, pid, pid9p, state, cmds>>

\* doMounts, os.Pipe and the start of the helper.  A failure returns (or
\* panics) and leaves the state directory behind.
CreateBoot(g) ==
  /\ creator[g] = "mounts"
  /\ \/ /\ CreatorMoves(g, "wait")
        /\ boot' = [boot EXCEPT ![g] = "setup"]
     \/ CreatorMoves(g, "failed") /\ UNCHANGED boot
     \/ CreatorMoves(g, "panic") /\ UNCHANGED boot
  /\ UNCHANGED <<guest, server, pipe, woken, files, cmds>>

\* The byte has arrived; `runu run` goes on to resume the guest.
CreateReturn(g) ==
  /\ creator[g] = "wait" /\ PipeReady(g)
  /\ CreatorMoves(g, IF g \in RunGens THEN "resume" ELSE "created")
  /\ UNCHANGED <<boot, guest, server, pipe, woken, files, cmds>>

\* The helper's death brings the creator down, before or after the byte.
CreatePanic(g) ==
  /\ creator[g] \in {"wait", "resume"} /\ BootFailed(g)
  /\ CreatorMoves(g, "panic")
  /\ UNCHANGED <<boot, guest, server, pipe, woken, files, cmds>>

\* The second half of `runu run`: a SIGCONT, and no saveState.
RunResume(g) ==
  /\ creator[g] = "resume"
  /\ Resume
  /\ CreatorMoves(g, IF pid = None THEN "failed" ELSE "ran")
  /\ UNCHANGED <<boot, server, pipe, files, cmds>>

CreatorStep(g) == CreateMkdir(g) \/ CreateBoot(g) \/ CreateReturn(g)
                    \/ CreatePanic(g) \/ RunResume(g)

-----------------------------------------------------------------------------
(* runu boot: bootContainer and prepareUkontainer.                         *)

BootMoves(g, from, to) ==
  /\ boot[g] = from
  /\ boot' = [boot EXCEPT ![g] = to]

\* The helper ends: nobody waits for a dead guest any more, init reaps it.
\* A live guest and the server stay, as orphans.
BootEnds(g, how) ==
  /\ boot' = [boot EXCEPT ![g] = how]
  /\ guest' = [guest EXCEPT ![g] = IF @ = "zombie" THEN "gone" ELSE @]

\* setupSpec and parseEnvs; the 9pfs server is started when the container
\* has volumes and no disk image.
BootSetup(g) ==
  /\ \/ BootMoves(g, "setup", "exec") /\ UNCHANGED server
     \/ /\ BootMoves(g, "setup", "pid9p")
        /\ server' = [server EXCEPT ![g] = "up"]
  /\ UNCHANGED <<creator, guest, pipe, woken, files, cmds>>

BootPid9p(g) ==
  /\ BootMoves(g, "pid9p", "connect")
  /\ pid9p' = WriteExcl(pid9p, g)
  /\ UNCHANGED <<creator, guest, server, pipe, woken, dir, pid, state, cmds>>

\* Every server listens on the same port, so whichever is up may answer.
BootConnect(g) ==
  /\ BootMoves(g, "connect", "exec")
  /\ \E h \in Gens : server[h] = "up"
  /\ UNCHANGED <<creator, guest, server, pipe, woken, files, cmds>>

\* The guest runs from here on, until the SIGSTOP below.
BootExec(g) ==
  /\ BootMoves(g, "exec", "writepid")
  /\ guest' = [guest EXCEPT ![g] = "running"]
  /\ UNCHANGED <<creator, server, pipe, woken, files, cmds>>

BootWritePid(g) ==
  /\ BootMoves(g, "writepid", "sigstop")
  /\ pid' = WriteExcl(pid, g)
  /\ UNCHANGED <<creator, guest, server, pipe, woken, dir, pid9p, state, cmds>>

BootSigstop(g) ==
  /\ BootMoves(g, "sigstop", "pidfile")
  /\ guest' = [guest EXCEPT ![g] = IF @ = "running" THEN "stopped" ELSE @]
  /\ UNCHANGED <<creator, server, pipe, woken, files, cmds>>

\* Seeded fault: the byte is written before the status is saved.
BootNotifyFirst(g) ==
  /\ BootMoves(g, "pidfile", "saveCreated")
  /\ pipe' = pipe \cup {g}
  /\ UNCHANGED <<creator, guest, server, woken, files, cmds>>

\* SetNonblock on the inherited files and the pid file for containerd.
BootPidFile(g) ==
  /\ BootMoves(g, "pidfile", "saveCreated")
  /\ UNCHANGED <<creator, guest, server, pipe, woken, files, cmds>>

\* Seeded fault: the error of writing runu.pid ends the helper at once.
BootFailEarly(g) ==
  /\ boot[g] \in {"setup", "connect", "exec", "sigstop", "pidfile"}
  /\ BootEnds(g, "failed")
  /\ UNCHANGED <<creator, server, pipe, woken, files, cmds>>

\* Whatever prepareUkontainer and the pid file can stumble over: a missing
\* config, a device, the 9pfs connection, the exec, an existing pid file.
BootFail(g) ==
  /\ boot[g] \in {"setup", "connect", "exec", "pidfile"}
  /\ BootEnds(g, "failed")
  /\ UNCHANGED <<creator, server, pipe, woken, files, cmds>>

BootSaveCreated(g) ==
  /\ boot[g] = "saveCreated"
  /\ SaveState("boot", "created")
  /\ IF SavePanics("boot") THEN BootEnds(g, "failed")
     ELSE BootMoves(g, "saveCreated", "notify") /\ UNCHANGED guest
  /\ UNCHANGED <<creator, server, pipe, woken, dir, pid, pid9p, cmds>>

\* Seeded fault: the write to the pipe fails unnoticed.
BootNotifyLost(g) ==
  /\ BootMoves(g, "notify", "wait")
  /\ UNCHANGED <<creator, guest, server, pipe, woken, files, cmds>>

BootNotify(g) ==
  /\ BootMoves(g, "notify", "wait")
  /\ pipe' = pipe \cup {g}
  /\ UNCHANGED <<creator, guest, server, woken, files, cmds>>

\* cmd.Wait reaps the guest.
BootWait(g) ==
  /\ BootMoves(g, "wait", "kill9p")
  /\ guest[g] = "zombie"
  /\ guest' = [guest EXCEPT ![g] = "gone"]
  /\ UNCHANGED <<creator, server, pipe, woken, files, cmds>>

\* Seeded fault: the helper leaves the server alone.
BootSkip9p(g) ==
  /\ BootMoves(g, "kill9p", "saveStopped")
  /\ UNCHANGED <<creator, guest, server, pipe, woken, files, cmds>>

BootKill9p(g) ==
  /\ BootMoves(g, "kill9p", "saveStopped")
  /\ EndServer("TERM")
  /\ UNCHANGED <<creator, guest, pipe, woken, files, cmds>>

\* SIGCHLD to the shim (which is not part of this module), saveState, and
\* the exit code of the helper: 0, or 2 when the guest had failed.
BootSaveStopped(g) ==
  /\ boot[g] = "saveStopped"
  /\ SaveState("boot", "stopped")
  /\ \E how \in IF SavePanics("boot") THEN {"failed"} ELSE {"exit0", "exit2"} :
       BootEnds(g, how)
  /\ UNCHANGED <<creator, server, pipe, woken, dir, pid, pid9p, cmds>>

BootStep(g) ==
  \/ BootSetup(g)   \/ BootPid9p(g)       \/ BootConnect(g)  \/ BootExec(g)
  \/ BootWritePid(g) \/ BootSigstop(g)    \/ BootPidFile(g)  \/ BootFail(g)
  \/ BootSaveCreated(g) \/ BootNotify(g)  \/ BootWait(g)     \/ BootKill9p(g)
  \/ BootSaveStopped(g)

-----------------------------------------------------------------------------
(* runu start, runu kill, runu delete; and what the processes do.          *)

StarterMoves(s, from, to) ==
  /\ starter[s] = from
  /\ starter' = [starter EXCEPT ![s] = to]

StartCall(s) ==
  /\ StarterMoves(s, "idle", "resume") /\ MayStart
  /\ UNCHANGED <<procs, pipe, woken, files, killer>>

\* The error of resumeUkontainer is ignored.
StartResume(s) ==
  /\ StarterMoves(s, "resume", "save")
  /\ Resume
  /\ UNCHANGED <<creator, boot, server, pipe, files, killer>>

\* Saved or panicked: either way the process is gone afterwards.
StartSave(s) ==
  /\ StarterMoves(s, "save", "idle")
  /\ SaveState("start", "running")
  /\ UNCHANGED <<procs, pipe, woken, dir, pid, pid9p, killer>>

KillerMoves(k, from, to) ==
  /\ killer[k] = from
  /\ killer' = [killer EXCEPT ![k] = to]

KillCall(k) ==
  /\ KillerMoves(k, "idle", "kill9p") /\ MayKill
  /\ UNCHANGED <<procs, pipe, woken, files, starter>>

\* Seeded fault: the status is saved before the guest is signalled.
KillSavesFirst(k) ==
  /\ KillerMoves(k, "kill9p", "killmain")
  /\ EndServer(KillSig[k])
  /\ SaveState("kill", "stopped")
  /\ UNCHANGED <<creator, boot, guest, pipe, woken, dir, pid, pid9p, starter>>

KillServer(k) ==
  /\ KillerMoves(k, "kill9p", "killmain")
  /\ EndServer(KillSig[k])
  /\ UNCHANGED <<creator, boot, guest, pipe, woken, files, starter>>

\* No pid file is as good as a signal delivered; a process that is gone is
\* an error, and the command returns without touching state.json.
KillMain(k) ==
  /\ IF pid # None /\ guest[pid] = "gone" THEN KillerMoves(k, "killmain", "idle")
                                          ELSE KillerMoves(k, "killmain", "save")
  /\ IF pid = None THEN UNCHANGED guest
     ELSE \E after \in AfterSignal(pid, KillSig[k]) :
            guest' = [guest EXCEPT ![pid] = after]
  /\ UNCHANGED <<creator, boot, server, pipe, woken, files, starter>>

KillSave(k) ==
  /\ KillerMoves(k, "save", "idle")
  /\ SaveState("kill", "stopped")
  /\ UNCHANGED <<procs, pipe, woken, dir, pid, pid9p, starter>>

KillStep(k) == KillServer(k) \/ KillMain(k) \/ KillSave(k)

\* Seeded fault: the pid files survive.
DeleteStateOnly ==
  /\ dir # {} /\ MayDelete
  /\ dir' = {} /\ state' = "none"
  /\ UNCHANGED <<procs, pipe, woken, pid, pid9p, cmds>>

\* os.RemoveAll of the state directory; --force makes no difference.
Delete ==
  /\ dir # {} /\ MayDelete
  /\ dir' = {} /\ pid' = None /\ pid9p' = None /\ state' = "none"
  /\ UNCHANGED <<procs, pipe, woken, cmds>>

GuestExit(g) ==
  /\ guest[g] = "running"
  /\ guest' = [guest EXCEPT ![g] = Dead(g)]
  /\ UNCHANGED <<creator, boot, server, pipe, woken, files, cmds>>

\* The port is taken, or the connection broke.
ServerDies(g) ==
  /\ server[g] = "up"
  /\ server' = [server EXCEPT ![g] = "dead"]
  /\ UNCHANGED <<creator, boot, guest, pipe, woken, files, cmds>>

Next ==
  \/ \E g \in Gens : \/ CreateStat(g) \/ CreatorStep(g) \/ BootStep(g)
                      \/ GuestExit(g) \/ ServerDies(g)
  \/ \E s \in Starts : StartCall(s) \/ StartResume(s) \/ StartSave(s)
  \/ \E k \in Kills : KillCall(k) \/ KillStep(k)
  \/ Delete

Safety == Init /\ [][Next]_vars

\* A process that can run does run.  No command is obliged to be issued, no
\* guest to exit.
Fairness ==
  /\ \A g \in Gens : WF_vars(CreatorStep(g)) /\ WF_vars(BootStep(g))
  /\ \A s \in Starts : WF_vars(StartResume(s) \/ StartSave(s))
  /\ \A k \in Kills : WF_vars(KillStep(k))

Spec == Safety /\ Fairness
-----------------------------------------------------------------------------
(* What must not go wrong.                                                 *)

\* When create has returned, `runu start` finds the guest in runu.pid and
\* `runu state` has a status to print (boot.go: pid file and state.json are
\* written before the byte on the pipe).
ReadyWhenCreated ==
  \A g \in Gens : creator[g] \in {"created", "ran"} /\ dir = {g}
                  => pid = g /\ state # "none"

\* A guest that was told to go never sits in SIGSTOP: the SIGCONT of start
\* cannot overtake the SIGSTOP of the helper.
NoLostWake == \A g \in woken : guest[g] # "stopped"

\* A live helper works in the state directory of its own generation: what
\* it reads, saves or kills there belongs to its container.
BootOwnsDir == \A g \in Gens : BootLive(g) => dir = {g}

\* A helper that has seen its guest exit leaves no 9pfs server behind (it
\* would keep the port that every later container needs).
ServerStopped == \A g \in Gens : boot[g] \in {"exit0", "exit2"} => server[g] # "up"

\* Pid files name processes of the generation that owns the directory,
\* so no signal goes to a process of an earlier container of that name.
PidFileFresh == {pid, pid9p} \subseteq dir \cup {None}

\* At most one generation believes that the directory is its own.  Not a
\* property of the runs: a part of the invariants of the proofs, and true only
\* because a well-behaved caller issues one create at a time.  The id is looked
\* up before the directory is made and not when it is made (state.go:63-68), so
\* Caller = "any" lets two creates of one id through.
CreateExclusive == \A g, h \in dir : g = h

\* A guest whose container has been forgotten does nothing: it is what a failed
\* create left behind, still in the SIGSTOP of its helper and never woken.
\* (When a guest has begun to run its helper waits for it, and a caller that
\* watches the helper does not delete before.)
OrphanAsleep ==
  \A g \in Gens : GuestLive(g) /\ g \notin dir
                  => guest[g] = "stopped" /\ g \notin woken

\* A container that state.json calls stopped has no live guest, when every kill
\* is a SIGKILL: kill.go:65 saves stopped after a SIGTERM or a signal 0, too,
\* which a guest may survive.
StoppedTruth == state = "stopped" => \A g \in dir : ~GuestLive(g)

\* The status never falls back to created while the container exists: the
\* helper's saveState(Created) is over before anybody can start or kill.
NoRegress ==
  [][dir' = dir /\ state \in {"running", "stopped"} => state' # "created"]_vars

\* Nobody waits in vain, whoever calls runu and in whatever order: a creator
\* that waits has its byte in the pipe, or a helper that will write it, or one
\* whose failure brings the creator down; a helper that waits for its guest
\* has a guest that nobody else has reaped.
NoWaitInVain ==
  \A g \in Gens :
    /\ creator[g] = "wait" => BootLive(g) \/ PipeReady(g) \/ BootFailed(g)
    /\ boot[g] = "wait" => guest[g] \in {"running", "stopped", "zombie"}

\* runu create and runu run come back whatever happens to the helper, and
\* however many commands run against the same id.
CreateReturns ==
  \A g \in Gens : creator[g] \in CreatorBusy ~> creator[g] \in CreatorDone

\* runu kill (with SIGKILL) takes the guest, its server and its helper down.
KillCompletes ==
  \A g \in Gens, k \in Kills :
    killer[k] # "idle" /\ dir = {g}
      ~> ~GuestLive(g) /\ server[g] # "up" /\ ~BootLive(g)

\* A claim of the repository that the code does not keep.

\* boot.go:99 "process stopped": the end of the helper is on record.
ExitRecorded ==
  \A g \in Gens :
    boot[g] \in {"exit0", "exit2"} /\ dir = {g} /\ Quiet => state = "stopped"

-----------------------------------------------------------------------------
(* The container as its caller sees it.                                    *)

\* Dead is what has no live guest.  A create that failed may leave one, in
\* SIGSTOP and without a helper: its phase is failed until that guest ends.
PhaseOf(g) ==
  IF creator[g] \in {"mkdir", "mounts", "wait"} THEN "creating"
  ELSE IF ~GuestLive(g) THEN "stopped"
  ELSE IF creator[g] \in {"failed", "panic"} THEN "failed"
  ELSE IF g \in woken THEN "running" ELSE "created"

Phase == IF dir = {} THEN "absent" ELSE PhaseOf(CHOOSE g \in dir : TRUE)

Container == INSTANCE OCI WITH status <- Phase

\* For a well-behaved caller runu is the OCI container of module OCI: a guest
\* that is alive belongs to a container that was created, is started at most
\* once, and is forgotten only after its end.  The exception has a phase of its
\* own there, the guest that a failed create leaves behind.
ImplementsOCI == Container!Spec
=============================================================================
