------------------------------ MODULE PodBoot ------------------------------
(***************************************************************************)
(* The helpers of several containers on one node, from the mounts of       *)
(* create to the end of the guest, and what they share: the network        *)
(* namespaces, the addresses in them, and the port of the 9pfs servers.    *)
(*                                                                         *)
(* In a pod the helper of the pause container enters the namespace by its  *)
(* name, the others by /proc/<pid>/ns/net of that helper, which is the     *)
(* namespace of its first thread.  A main container takes the address off  *)
(* eth0 for its guest.  A namespace belongs to a thread: netns.Set changes *)
(* that of the thread the goroutine runs on, and nothing keeps it there.   *)
(***************************************************************************)
EXTENDS Naturals, Sequences

CONSTANTS
  Helpers,
  Pause,    \* the helper of the pod's pause container
  Conf,     \* what each container's specification says
  Movable,  \* helpers whose goroutine the Go scheduler moves to other threads
  Apart,    \* containers that need a 9pfs server are run one after another
  None

\* The namespace of the node, and that of the pod; both have an eth0.
NS == {"host", "pod"}

\* The mounts of a specification: a bind mount with option rbind, read-only
\* too, a bind mount without rbind, and anything else.
Volume == {"rw", "ro", "plain", "other"}

\* The JSON file of the user: none, with address AUTO, with an address of its
\* own, without an interface.
Json == {"absent", "auto", "fixed", "empty"}

ASSUME PodAssumption ==
  /\ Pause \in Helpers /\ Movable \subseteq Helpers
  /\ Conf \in [Helpers -> [pause : BOOLEAN, netns : {"none", "path", "name"},
                           json : Json, disk : BOOLEAN, ask9p : BOOLEAN,
                           volumes : Seq(Volume)]]
  /\ Conf[Pause].netns = "name"
  /\ Apart \in BOOLEAN
  /\ None \notin Helpers \cup NS

VARIABLES
  pc,      \* control: create up to "mount", then the helper
  mounts,  \* what has become of the mounts, in their order
  cur,     \* the thread that the helper's goroutine is on
  tns,     \* the namespaces of its threads
  saved,   \* origns of getVethHost
  moved,   \* history: the goroutine has been moved
  addr,    \* the namespaces whose eth0 still has its address
  got,     \* ifInfo: the namespace that the address was read in
  holds,   \* the address that the helper took off an eth0
  ip,      \* the address in the guest's JSON file
  sock,    \* the namespace of the guest's raw socket
  home,    \* the namespace of the guest
  srv,     \* the container's 9pfs server
  port,    \* the namespace that the server listens in
  conn,    \* whose server the guest is connected to
  client   \* whose connection a server has accepted: it accepts one

threads == <<cur, tns, saved, moved>>
net     == <<addr, got, holds, ip, sock>>
nine    == <<srv, port, conn, client>>
vars    == <<pc, mounts, threads, net, home, nine>>

Booting == {"veth", "back", "enter", "route", "list", "del", "json", "eth0",
            "serve", "dial", "exec"}

Places == Booting \cup {"idle", "mount", "failed", "running", "ended", "dead"}

TypeOK ==
  /\ pc \in [Helpers -> Places]
  /\ mounts \in [Helpers -> Seq({"none", "bound", "private", "readonly"})]
  /\ \A h \in Helpers : Len(mounts[h]) <= Len(Conf[h].volumes)
  /\ cur \in [Helpers -> {"leader", "other"}]
  /\ tns \in [Helpers -> [{"leader", "other"} -> NS]]
  /\ saved \in [Helpers -> NS \cup {None}]
  /\ moved \in [Helpers -> BOOLEAN]
  /\ addr \subseteq NS
  /\ got \in [Helpers -> NS \cup {None}] /\ holds \in [Helpers -> NS \cup {None}]
  /\ ip \in [Helpers -> NS \cup {"user", None}]
  /\ sock \in [Helpers -> NS \cup {None}] /\ home \in [Helpers -> NS \cup {None}]
  /\ srv \in [Helpers -> {"none", "starting", "listening", "gone"}]
  /\ port \in [Helpers -> NS \cup {None}]
  /\ conn \in [Helpers -> Helpers \cup {None}]
  /\ client \in [Helpers -> Helpers \cup {None}]

Init ==
  /\ pc = [h \in Helpers |-> "idle"]
  /\ mounts = [h \in Helpers |-> <<>>]
  /\ cur = [h \in Helpers |-> "leader"]
  /\ tns = [h \in Helpers |-> [t \in {"leader", "other"} |-> "host"]]
  /\ saved = [h \in Helpers |-> None]
  /\ moved = [h \in Helpers |-> FALSE]
  /\ addr = NS
  /\ got = [h \in Helpers |-> None] /\ holds = [h \in Helpers |-> None]
  /\ ip = [h \in Helpers |-> None]
  /\ sock = [h \in Helpers |-> None] /\ home = [h \in Helpers |-> None]
  /\ srv = [h \in Helpers |-> "none"] /\ port = [h \in Helpers |-> None]
  /\ conn = [h \in Helpers |-> None] /\ client = [h \in Helpers |-> None]

Goes(h, from, to) == pc[h] = from /\ pc' = [pc EXCEPT ![h] = to]

Set(var, h, value) == [var EXCEPT ![h] = value]

-----------------------------------------------------------------------------
(* create: checkFsFlags and doMounts.                                      *)

BindMount(v) == v \in {"rw", "ro"}

\* volumeMounted, or LKL_USE_9PFS in the environment; no server for a disk.
Uses9p(h) ==
  /\ ~Conf[h].disk
  /\ \/ Conf[h].ask9p
     \/ \E i \in 1..Len(Conf[h].volumes) : BindMount(Conf[h].volumes[i])

Over(h) == pc[h] \in {"idle", "failed", "ended", "dead"}

\* containerd creates the containers of a pod when the pause container runs.
Begin(h) ==
  /\ Goes(h, "idle", IF Conf[h].disk /\ Conf[h].ask9p THEN "failed" ELSE "mount")
  /\ Conf[h].netns = "path" => pc[Pause] = "running"
  /\ Apart /\ Uses9p(h) => \A o \in Helpers : Uses9p(o) => Over(o)
  /\ UNCHANGED <<mounts, threads, net, home, nine>>

\* Seeded fault: the flags of the first mount(2) are taken to be enough.
ReadOnlyAtOnce(v) == "private"

\* doMount: a bind mount comes writable, then private, then read-only.
Complete(v) == IF v = "ro" THEN "readonly" ELSE "private"

\* A round of the loop.  Without MS_BIND mount(2) does not know the type; with
\* it any of the calls may fail, and what was mounted before stays.
Mount(h) ==
  LET n == Len(mounts[h]) + 1
      v == Conf[h].volumes[n]
      Leaves(m) == mounts' = Set(mounts, h, Append(mounts[h], m))
  IN /\ n <= Len(Conf[h].volumes)
     /\ \/ v = "other" /\ Goes(h, "mount", "mount") /\ Leaves("none")
        \/ BindMount(v) /\ ~Conf[h].disk /\ Goes(h, "mount", "mount") /\ Leaves(Complete(v))
        \/ v # "other" /\ Goes(h, "mount", "failed") /\ Leaves("none")
        \/ /\ BindMount(v) /\ ~Conf[h].disk /\ Goes(h, "mount", "failed")
           /\ \E m \in {"bound", "private"} : m # Complete(v) /\ Leaves(m)
     /\ UNCHANGED <<threads, net, home, nine>>

\* The helper is started.
Boot(h) ==
  /\ Len(mounts[h]) = Len(Conf[h].volumes)
  /\ Goes(h, "mount", CASE Conf[h].netns = "name" -> "veth"
                        [] Conf[h].netns = "path" -> "enter"
                        [] OTHER -> "serve")
  /\ UNCHANGED <<mounts, threads, net, home, nine>>

-----------------------------------------------------------------------------
(* setupNetwork.                                                           *)

Here(h) == tns[h][cur[h]]

\* netns.Set.
Enters(h, ns) == tns' = [tns EXCEPT ![h][cur[h]] = ns]

\* Seeded fault: the namespace to come back to is not looked up.
VethEnterUnsaved(h) ==
  /\ Goes(h, "veth", "back") /\ Enters(h, "pod")
  /\ UNCHANGED <<mounts, cur, saved, moved, net, home, nine>>

\* getVethHost goes to the namespace of that name, and back if it has found
\* the peer of eth0.
VethEnter(h) ==
  /\ saved' = Set(saved, h, Here(h))
  /\ \/ Goes(h, "veth", "back") /\ Enters(h, "pod")
     \/ Goes(h, "veth", "enter") /\ UNCHANGED tns
  /\ UNCHANGED <<mounts, cur, moved, net, home, nine>>

VethBack(h) ==
  /\ Goes(h, "back", "enter")
  /\ Enters(h, saved[h]) \/ UNCHANGED tns
  /\ UNCHANGED <<mounts, cur, saved, moved, net, home, nine>>

\* Seeded fault: the handle is opened and not used.
EnterNetnsUnset(h) ==
  /\ Goes(h, "enter", "route")
  /\ Conf[h].netns = "path" => pc[Pause] = "running"
  /\ UNCHANGED <<mounts, threads, net, home, nine>>

\* The path in /proc is that of the pause container's helper, and is gone with
\* it.
EnterNetns(h) ==
  /\ Goes(h, "enter", "route")
  /\ \/ Conf[h].netns = "name" /\ Enters(h, "pod")
     \/ /\ Conf[h].netns = "path" /\ pc[Pause] = "running"
        /\ Enters(h, tns[Pause]["leader"])
  /\ UNCHANGED <<mounts, cur, saved, moved, net, home, nine>>

\* getVethInfo: the kernel drops the routes of eth0 with its address.
RouteGet(h) ==
  /\ Goes(h, "route", "list")
  /\ Here(h) \in addr
  /\ UNCHANGED <<mounts, threads, net, home, nine>>

\* An eth0 without address leaves ifAddrs empty: the helper panics.
Addrs(h) ==
  /\ Goes(h, "list", IF Conf[h].pause THEN "json" ELSE "del")
  /\ Here(h) \in addr
  /\ got' = Set(got, h, Here(h))
  /\ UNCHANGED <<mounts, threads, addr, holds, ip, sock, home, nine>>

\* Seeded fault: the error of AddrDel is not looked at.
AddrDelUnchecked(h) ==
  /\ Goes(h, "del", "json")
  /\ addr' = addr \ {got[h]} /\ holds' = Set(holds, h, got[h])
  /\ UNCHANGED <<mounts, threads, got, ip, sock, home, nine>>

\* The address is deleted in the namespace of the thread; there it may be gone.
AddrDel(h) ==
  /\ Goes(h, "del", "json")
  /\ got[h] = Here(h) /\ got[h] \in addr
  /\ addr' = addr \ {got[h]} /\ holds' = Set(holds, h, got[h])
  /\ UNCHANGED <<mounts, threads, got, ip, sock, home, nine>>

\* generateLklJsonFile.
LklJson(h) ==
  /\ \/ /\ Conf[h].json \in {"absent", "auto"}
        /\ Goes(h, "json", "eth0") /\ ip' = Set(ip, h, got[h])
     \/ /\ Conf[h].json = "fixed"
        /\ Goes(h, "json", "eth0") /\ ip' = Set(ip, h, "user")
     \/ /\ Conf[h].json = "empty"
        /\ Goes(h, "json", "serve") /\ UNCHANGED ip
  /\ UNCHANGED <<mounts, threads, addr, got, holds, sock, home, nine>>

\* openNetRawsockFd.
OpenEth0(h) ==
  /\ Goes(h, "eth0", "serve")
  /\ sock' = Set(sock, h, Here(h))
  /\ UNCHANGED <<mounts, threads, addr, got, holds, ip, home, nine>>

\* The goroutine goes on on another thread: one that has been there from the
\* beginning, or one that was cloned by the first and is where that is.
Move(h) ==
  /\ h \in Movable /\ pc[h] \in Booting
  /\ moved' = Set(moved, h, TRUE)
  /\ \/ cur[h] = "leader" /\ cur' = Set(cur, h, "other")
     \/ cur[h] = "other" /\ cur' = Set(cur, h, "leader")
  /\ \/ UNCHANGED tns
     \/ ~moved[h] /\ tns' = [tns EXCEPT ![h]["other"] = tns[h]["leader"]]
  /\ UNCHANGED <<pc, mounts, saved, net, home, nine>>

-----------------------------------------------------------------------------
(* The 9pfs server, the guest and the end.                                 *)

\* The server is a child of the thread.
Serve(h) ==
  /\ \/ /\ Uses9p(h) /\ Goes(h, "serve", "dial")
        /\ srv' = Set(srv, h, "starting") /\ port' = Set(port, h, Here(h))
     \/ ~Uses9p(h) /\ Goes(h, "serve", "exec") /\ UNCHANGED <<srv, port>>
  /\ UNCHANGED <<mounts, threads, net, home, conn, client>>

Listening(ns) == {s \in Helpers : srv[s] = "listening" /\ port[s] = ns}

\* start9pfsServer: all servers of a namespace have the same port.
Listen(s) ==
  /\ srv[s] = "starting"
  /\ srv' = Set(srv, s, IF Listening(port[s]) = {} THEN "listening" ELSE "gone")
  /\ UNCHANGED <<pc, mounts, threads, net, home, port, conn, client>>

\* connect9pfs, 100 ms later, whether or not the server listens by then.  The
\* first to connect is served, the next one waits for ever.
Dial(h) ==
  /\ Goes(h, "dial", "exec")
  /\ \E s \in Listening(Here(h)) :
       /\ conn' = Set(conn, h, s)
       /\ client' = IF client[s] = None THEN Set(client, s, h) ELSE client
  /\ UNCHANGED <<mounts, threads, net, home, srv, port>>

\* An error other than the end of the connection ends the server.
ServeFails(s) ==
  /\ srv[s] = "listening" /\ client[s] # None
  /\ srv' = Set(srv, s, "gone")
  /\ UNCHANGED <<pc, mounts, threads, net, home, port, conn, client>>

Exec(h) ==
  /\ Goes(h, "exec", "running")
  /\ home' = Set(home, h, Here(h))
  /\ UNCHANGED <<mounts, threads, net, nine>>

\* Seeded fault: the server is left to itself.
EndForgetful(h) ==
  /\ Goes(h, "running", "ended")
  /\ UNCHANGED <<mounts, threads, net, home, nine>>

\* The guest has ended; the helper ends the server.
End(h) ==
  /\ Goes(h, "running", "ended")
  /\ srv' = Set(srv, h, IF Uses9p(h) THEN "gone" ELSE "none")
  /\ UNCHANGED <<mounts, threads, net, home, port, conn, client>>

\* An error in the helper: a server that it has started stays, and so does
\* eth0 without its address.
Panic(h) ==
  /\ pc[h] \in Booting \ {"veth", "back"}
  /\ pc' = Set(pc, h, "dead")
  /\ UNCHANGED <<mounts, threads, net, home, nine>>

-----------------------------------------------------------------------------
Helper(h) ==
  \/ Begin(h) \/ Mount(h) \/ Boot(h)
  \/ VethEnter(h) \/ VethBack(h) \/ EnterNetns(h)
  \/ RouteGet(h) \/ Addrs(h) \/ AddrDel(h) \/ LklJson(h) \/ OpenEth0(h)
  \/ Serve(h) \/ Dial(h) \/ Exec(h) \/ End(h) \/ Panic(h)

Next == \E h \in Helpers : Helper(h) \/ Move(h) \/ Listen(h) \/ ServeFails(h)

Spec == Init /\ [][Next]_vars

-----------------------------------------------------------------------------
(* What must not go wrong.                                                 *)

\* An address is on its eth0 or was taken by one container: no two guests of
\* main containers have the same address, however their helpers race.
OneOwner ==
  /\ \A ns \in NS :
       /\ ns \in addr <=> \A h \in Helpers : holds[h] # ns
       /\ \A h, o \in Helpers : holds[h] = ns /\ holds[o] = ns => h = o
  /\ \A h \in Helpers : ip[h] \in NS /\ ~Conf[h].pause => holds[h] = ip[h]

\* utils_linux.go:223: "now traverse in netns".  Whoever touches the node's
\* network in the place of the pod's was moved to another thread, or its pause
\* container was.
InNetns ==
  \A h \in Helpers :
    Conf[h].netns # "none" /\ ~moved[h] /\ ~moved[Pause]
      => /\ holds[h] # "host" /\ sock[h] # "host"
         /\ pc[h] = "running" => home[h] = "pod"

\* Containers that are run one after another do not see each other's files,
\* unless a helper died and left its server behind.
OwnServer ==
  Apart => \A h \in Helpers : conn[h] \notin {h, None} => pc[conn[h]] = "dead"

\* A guest has all its volumes, private, those that are to be read-only are,
\* and it is connected to a server, never to a disk image.
VolumesReady ==
  \A h \in Helpers : pc[h] = "running" =>
    \A i \in 1..Len(Conf[h].volumes) :
      LET v == Conf[h].volumes[i] IN
      v # "other" => /\ v # "plain" /\ mounts[h][i] = IF v = "ro" THEN "readonly" ELSE "private"
                     /\ conn[h] # None
=============================================================================
