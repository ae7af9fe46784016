----------------------------- MODULE GuestFiles -----------------------------
(***************************************************************************)
(* The descriptors that the helper hands to the guest.  parseEnvs opens    *)
(* the disk image, the network devices, the JSON file and the connection   *)
(* to the 9pfs server in the order of the environment, counts them from 3  *)
(* and announces that number in the guest's environment.  prepareUkontainer*)
(* hands them over in the order of their descriptors in the helper: the    *)
(* two orders must be the same.  The kernel gives the lowest free          *)
(* descriptor, other files come and go in between, and a file that nothing *)
(* refers to any more is closed by the garbage collector at any time.      *)
(***************************************************************************)
EXTENDS Naturals, Sequences, FiniteSets

CONSTANTS
  MaxFd,    \* the largest descriptor (RLIMIT_NOFILE)
  Begun,    \* the descriptors that are open when parseEnvs begins
  Dropped,  \* those of them whose os.File is garbage (the log, with --debug)
  Envs,     \* environments: what parseEnvs tells apart of each variable
  None

Fds == 0..MaxFd

\* Fd() of a nil os.File: more than any descriptor.
Nil == MaxFd + 1

\* LKL_ROOTFS, LKL_NET with the name of an eth or tap device and with
\* another name, LKL_CONFIG, LKL_USE_9PFS, anything else.
Kinds == {"rootfs", "net", "oddnet", "config", "9pfs", "plain"}

ASSUME FilesAssumption ==
  /\ MaxFd \in Nat
  /\ Begun \subseteq Fds /\ Dropped \subseteq Begun
  /\ Envs \subseteq Seq(Kinds)
  /\ None \notin Fds

VARIABLES
  pc,      \* control of the helper
  env,     \* spec.Process.Env
  at,      \* the variable that the loop has come to
  netns,   \* the network namespace of the bundle: none, a path, a name
  dropped, \* descriptors that the garbage collector will close
  volume,  \* create has mounted volumes: LKL_USE_9PFS is set for the helper
  open,    \* descriptors in use
  temp,    \* one that is to be closed again soon
  files,   \* descriptors of the files announced, in that order
  number   \* their descriptors in the guest

inputs == <<env, netns, volume, dropped>>
vars   == <<pc, inputs, at, open, temp, files, number>>

TypeOK ==
  /\ pc \in {"env", "veth", "vethns", "vethclose", "netns", "eth0", "json", "dial",
             "dup", "hangup", "exec", "nonblock", "ready", "dead"}
  /\ env \in Envs /\ at \in 1..(Len(env) + 1)
  /\ netns \in {"none", "path", "name"} /\ volume \in BOOLEAN
  /\ dropped \subseteq Fds /\ open \subseteq Fds /\ temp \in open \cup {None}
  /\ files \in Seq(Fds \cup {Nil})
  /\ number \in Seq(Nat)

Asks(kind) == \E i \in 1..Len(env) : env[i] = kind

\* create has refused a disk image beside 9pfs (checkFsFlags) or volumes.
Init ==
  /\ pc = "env"
  /\ env \in Envs /\ at = 1
  /\ netns \in {"none", "path", "name"} /\ volume \in BOOLEAN
  /\ Asks("rootfs") => ~Asks("9pfs") /\ ~volume
  /\ dropped = Dropped /\ open = Begun /\ temp = None
  /\ files = <<>> /\ number = <<>>

-----------------------------------------------------------------------------
(* Opening and closing.                                                    *)

\* The kernel gives the lowest descriptor that is free.
Gets(fd) == fd \in Fds \ open /\ \A n \in Fds : n < fd => n \in open

Opens(fd) == Gets(fd) /\ open' = open \cup {fd}

\* A file that is meant for the guest; its number is that of its place.
Announce == \E fd \in Fds : Opens(fd) /\ files' = Append(files, fd)

\* A file for the helper's own use, closed by the step after the next.
OpenTemp == \E fd \in Fds : Opens(fd) /\ temp' = fd

\* Seeded fault: what has been closed is closed once more.
CloseTempTwice == open' = open \ {temp} /\ UNCHANGED temp

CloseTemp == open' = open \ {temp} /\ temp' = None

Goes(from, to) == pc = from /\ pc' = to

-----------------------------------------------------------------------------
(* parseEnvs.                                                              *)

\* Seeded fault: the server is connected to when the variable is met.
ParseEnvConnecting ==
  /\ pc = "env" /\ at <= Len(env)
  /\ at' = at + 1
  /\ \/ env[at] \in {"rootfs", "net"} /\ Announce
     \/ /\ env[at] = "9pfs"
        /\ \E conn, fd \in Fds :
             /\ Gets(conn) /\ fd \in Fds \ (open \cup {conn})
             /\ \A n \in Fds : n < fd => n \in open \cup {conn}
             /\ open' = open \cup {fd} /\ files' = Append(files, fd)
     \/ env[at] = "oddnet" /\ files' = Append(files, Nil) /\ UNCHANGED open
     \/ env[at] \in {"config", "plain"} /\ UNCHANGED <<open, files>>
  /\ UNCHANGED <<pc, inputs, temp, number>>

\* One round of the loop.  openNetFd returns nil for a name it does not know.
ParseEnv ==
  /\ pc = "env" /\ at <= Len(env)
  /\ at' = at + 1
  /\ \/ env[at] \in {"rootfs", "net"} /\ Announce
     \/ env[at] = "oddnet" /\ files' = Append(files, Nil) /\ UNCHANGED open
     \/ env[at] \in {"config", "9pfs", "plain"} /\ UNCHANGED <<open, files>>
  /\ UNCHANGED <<pc, inputs, temp, number>>

\* The loop is over: setupNetwork, which looks for the peer of eth0 when the
\* namespace has a name, and does nothing without a namespace.
LoopEnds ==
  /\ at > Len(env)
  /\ \/ netns = "name" /\ Goes("env", "veth")
     \/ netns = "path" /\ Goes("env", "netns")
     \/ netns = "none" /\ Goes("env", "json")
  /\ UNCHANGED <<inputs, at, open, temp, files, number>>

\* getVethHost: the handle of the original namespace is closed on return, the
\* one of the container's never; either may fail, and the helper goes on.
VethOrigin ==
  /\ Goes("veth", "vethns")
  /\ OpenTemp \/ UNCHANGED <<open, temp>>
  /\ UNCHANGED <<inputs, at, files, number>>

VethEnter ==
  /\ Goes("vethns", "vethclose")
  /\ \/ \E fd \in Fds : Opens(fd)
     \/ UNCHANGED open
  /\ UNCHANGED <<inputs, at, temp, files, number>>

VethClose ==
  /\ Goes("vethclose", "netns")
  /\ CloseTemp
  /\ UNCHANGED <<inputs, at, files, number>>

\* setupNetwork keeps its handle too.  A JSON file of the user's may describe
\* no interface; without one, eth0 is described.
EnterNetns ==
  /\ \/ Goes("netns", "eth0")
     \/ Goes("netns", "json") /\ Asks("config")
  /\ \E fd \in Fds : Opens(fd)
  /\ UNCHANGED <<inputs, at, temp, files, number>>

OpenEth0 ==
  /\ Goes("eth0", "json")
  /\ Announce
  /\ UNCHANGED <<inputs, at, temp, number>>

\* The user's JSON file, or the one that was generated.
HasJson == netns # "none" \/ Asks("config")
Uses9p  == ~Asks("rootfs") /\ (volume \/ Asks("9pfs"))

OpenJson ==
  /\ Goes("json", IF Uses9p THEN "dial" ELSE "exec")
  /\ IF HasJson THEN Announce ELSE UNCHANGED <<open, files>>
  /\ UNCHANGED <<inputs, at, temp, number>>

\* connect9pfs: File() duplicates the descriptor of the connection, which is
\* closed afterwards.
Dial ==
  /\ Goes("dial", "dup")
  /\ OpenTemp
  /\ UNCHANGED <<inputs, at, files, number>>

Duplicate ==
  /\ Goes("dup", "hangup")
  /\ Announce
  /\ UNCHANGED <<inputs, at, temp, number>>

HangUp ==
  /\ Goes("hangup", "exec")
  /\ CloseTemp
  /\ UNCHANGED <<inputs, at, files, number>>

-----------------------------------------------------------------------------
(* prepareUkontainer.                                                      *)

\* Seeded fault: the files are sorted from the last to the first.
After(i) == Cardinality({files[j] : j \in {j \in 1..Len(files) : files[j] > files[i]}})

\* How many files the sort puts before a file; nil is one key of the map.
Before(i) == Cardinality({files[j] : j \in {j \in 1..Len(files) : files[j] < files[i]}})

\* ExtraFiles are sorted by descriptor, and are 3, 4, ... in the guest.
Exec ==
  /\ Goes("exec", "nonblock")
  /\ number' = [i \in 1..Len(files) |-> 3 + Before(i)]
  /\ UNCHANGED <<inputs, at, open, temp, files>>

\* SetNonblock of a nil file fails, and the helper panics.
SetNonblock ==
  /\ \/ Goes("nonblock", "ready") /\ \A i \in 1..Len(files) : files[i] # Nil
     \/ Goes("nonblock", "dead") /\ \E i \in 1..Len(files) : files[i] = Nil
  /\ UNCHANGED <<inputs, at, open, temp, files, number>>

\* Every open may fail, and so may exec: the helper panics.
Panic ==
  /\ pc \in {"env", "netns", "eth0", "json", "dial", "dup", "exec"}
  /\ pc' = "dead"
  /\ UNCHANGED <<inputs, at, open, temp, files, number>>

\* The garbage collector closes the log file, at any time.
Finalize(fd) ==
  /\ pc # "dead" /\ fd \in dropped
  /\ dropped' = dropped \ {fd} /\ open' = open \ {fd}
  /\ UNCHANGED <<pc, env, netns, volume, at, temp, files, number>>

Next ==
  \/ ParseEnv \/ LoopEnds
  \/ VethOrigin \/ VethEnter \/ VethClose \/ EnterNetns \/ OpenEth0
  \/ OpenJson \/ Dial \/ Duplicate \/ HangUp
  \/ Exec \/ SetNonblock \/ Panic

Spec == Init /\ [][Next]_vars

\* With --debug and without --debug-log, which create does not pass on.
SpecDebug == Init /\ [][Next \/ \E fd \in Dropped : Finalize(fd)]_vars

-----------------------------------------------------------------------------
(* What must not go wrong.                                                 *)

\* A file that is announced later has a larger descriptor, whatever was opened
\* and closed in between: the sort of prepareUkontainer changes nothing.
InOrder ==
  \A i, j \in 1..Len(files) :
    i < j /\ files[i] # Nil /\ files[j] # Nil => files[i] < files[j]

\* A guest that is left to run finds every file under the number that its
\* environment says.
NumbersAgree == pc = "ready" => \A i \in 1..Len(files) : number[i] = 2 + i
=============================================================================
