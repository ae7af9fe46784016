--------------------------- MODULE PodBootProofs ---------------------------
(***************************************************************************)
(* Proofs about PodBoot, for any containers and specifications, and for    *)
(* any goroutines that the scheduler moves.  The invariant has a part for  *)
(* each property: what a helper holds at which step (Holding), where its   *)
(* first thread is (Inside), whose servers may be alive (Alone), and what  *)
(* has been mounted (Mounted).                                             *)
(***************************************************************************)
EXTENDS PodBoot, TLAPS

\* Before the address is deleted a helper holds none, and afterwards it holds
\* the one that it describes to the guest.
Holding ==
  \A h \in Helpers :
    /\ pc[h] = "back" => saved[h] \in NS
    /\ pc[h] \in {"idle", "mount", "veth", "back", "enter", "route", "list", "del"}
         => holds[h] = None
    /\ pc[h] \in {"idle", "mount", "veth", "back", "enter", "route", "list", "del", "json"}
         => ip[h] = None
    /\ pc[h] = "json" /\ ~Conf[h].pause => holds[h] = got[h]

\* As long as nobody is moved, the first thread of a helper that has entered
\* the namespace of its pod is there.
Inside ==
  \A h \in Helpers :
    /\ ~moved[h] => cur[h] = "leader"
    /\ Conf[h].netns # "none" /\ ~moved[h] /\ ~moved[Pause]
         => /\ pc[h] \in {"route", "list", "del", "json", "eth0", "serve", "dial",
                          "exec", "running"} => tns[h]["leader"] = "pod"
            /\ got[h] # "host"

Held(h) == srv[h] \in {"starting", "listening"}

\* A living server belongs to a container that is under way or whose helper
\* died; of the containers under way at most one needs a server.
Alone ==
  /\ \A h \in Helpers :
       /\ srv[h] # "none" \/ pc[h] = "dial" => Uses9p(h)
       /\ Held(h) => pc[h] \in {"dial", "exec", "running", "dead"}
  /\ Apart => \A h, o \in Helpers :
                Uses9p(h) /\ Uses9p(o) /\ h # o => Over(h) \/ Over(o)

UnderWay(h) == pc[h] \in Booting \cup {"mount", "running"}

MountedAt(h) ==
  /\ pc[h] = "idle" => mounts[h] = <<>>
  /\ UnderWay(h) => \A i \in 1..Len(mounts[h]) :
       LET v == Conf[h].volumes[i] IN
       v # "other" => BindMount(v) /\ ~Conf[h].disk /\ mounts[h][i] = Complete(v)
  /\ pc[h] \in Booting \cup {"running"} => Len(mounts[h]) = Len(Conf[h].volumes)
  /\ pc[h] \in {"exec", "running"} /\ Uses9p(h) => conn[h] # None

\* A helper starts when all mounts are complete.
Mounted == \A h \in Helpers : MountedAt(h)

IInv == TypeOK /\ Holding /\ Inside /\ Alone /\ Mounted /\ OneOwner /\ InNetns /\ OwnServer

-----------------------------------------------------------------------------

LEMMA PlacesAre ==
  {"idle", "mount", "failed", "running", "ended", "dead", "veth", "back", "enter",
   "route", "list", "del", "json", "eth0", "serve", "dial", "exec"} \subseteq Places
  BY DEF Places, Booting

\* What a round of doMounts does.
LEMMA MountStep ==
  ASSUME TypeOK, NEW h \in Helpers, Mount(h)
  PROVE  \E to \in {"mount", "failed"}, m \in {"none", "bound", "private", "readonly"} :
           LET v == Conf[h].volumes[Len(mounts[h]) + 1] IN
           /\ pc[h] = "mount" /\ pc' = [pc EXCEPT ![h] = to]
           /\ mounts' = [mounts EXCEPT ![h] = Append(mounts[h], m)]
           /\ Len(mounts[h]) + 1 <= Len(Conf[h].volumes)
           /\ to = "mount" => \/ v = "other"
                              \/ BindMount(v) /\ ~Conf[h].disk /\ m = Complete(v)
           /\ UNCHANGED <<threads, net, home, nine>>
<1> DEFINE v == Conf[h].volumes[Len(mounts[h]) + 1]
<1>1. Complete(v) \in {"private", "readonly"}
  BY DEF Complete
<1> QED
  BY <1>1 DEF Mount, Goes, Set

\* The part of it that most invariants need.
LEMMA MountEffect ==
  ASSUME TypeOK, NEW h \in Helpers, Mount(h)
  PROVE  \E to \in {"mount", "failed"}, m \in {"none", "bound", "private", "readonly"} :
           /\ pc[h] = "mount" /\ pc' = [pc EXCEPT ![h] = to]
           /\ mounts' = [mounts EXCEPT ![h] = Append(mounts[h], m)]
           /\ Len(mounts[h]) + 1 <= Len(Conf[h].volumes)
           /\ UNCHANGED <<threads, net, home, nine>>
  BY MountStep

\* The result of that round comes after those of the earlier ones.
LEMMA MountsType ==
  ASSUME TypeOK, NEW h \in Helpers, NEW m \in {"none", "bound", "private", "readonly"},
         mounts' = [mounts EXCEPT ![h] = Append(mounts[h], m)],
         Len(mounts[h]) + 1 <= Len(Conf[h].volumes)
  PROVE  /\ mounts' \in [Helpers -> Seq({"none", "bound", "private", "readonly"})]
         /\ \A o \in Helpers : Len(mounts'[o]) <= Len(Conf[o].volumes)
         /\ Len(mounts'[h]) = Len(mounts[h]) + 1
         /\ \A i \in 1..Len(mounts[h]) : mounts'[h][i] = mounts[h][i]
         /\ mounts'[h][Len(mounts[h]) + 1] = m
         /\ \A o \in Helpers \ {h} : mounts'[o] = mounts[o]
  BY DEF TypeOK

Control == pc \in [Helpers -> Places]

Mounts ==
  /\ mounts \in [Helpers -> Seq({"none", "bound", "private", "readonly"})]
  /\ \A h \in Helpers : Len(mounts[h]) <= Len(Conf[h].volumes)

Threads ==
  /\ cur \in [Helpers -> {"leader", "other"}]
  /\ tns \in [Helpers -> [{"leader", "other"} -> NS]]
  /\ saved \in [Helpers -> NS \cup {None}]
  /\ moved \in [Helpers -> BOOLEAN]

Network ==
  /\ addr \subseteq NS
  /\ got \in [Helpers -> NS \cup {None}] /\ holds \in [Helpers -> NS \cup {None}]
  /\ ip \in [Helpers -> NS \cup {"user", None}]
  /\ sock \in [Helpers -> NS \cup {None}] /\ home \in [Helpers -> NS \cup {None}]

Servers ==
  /\ srv \in [Helpers -> {"none", "starting", "listening", "gone"}]
  /\ port \in [Helpers -> NS \cup {None}]
  /\ conn \in [Helpers -> Helpers \cup {None}]
  /\ client \in [Helpers -> Helpers \cup {None}]

LEMMA TypeParts == TypeOK <=> Control /\ Mounts /\ Threads /\ Network /\ Servers
  BY DEF TypeOK, Control, Mounts, Threads, Network, Servers

\* The thread that a goroutine is on is in a namespace.
LEMMA HereType ==
  ASSUME Threads, NEW h \in Helpers
  PROVE  Here(h) \in NS
  BY DEF Threads, Here

\* Every step keeps the control.
LEMMA ControlKept ==
  ASSUME Control, [Next]_vars
  PROVE  Control'
<1> USE PlacesAre DEF Control, Goes, Set
<1>1. ASSUME NEW h \in Helpers, Begin(h)
      PROVE  Control'
  BY <1>1 DEF Begin
<1>2. ASSUME NEW h \in Helpers, Mount(h)
      PROVE  Control'
  BY <1>2 DEF Mount
<1>3. ASSUME NEW h \in Helpers, Boot(h)
      PROVE  Control'
  BY <1>3 DEF Boot
<1>4. ASSUME NEW h \in Helpers, VethEnter(h)
      PROVE  Control'
  BY <1>4 DEF VethEnter
<1>5. ASSUME NEW h \in Helpers, VethBack(h)
      PROVE  Control'
  BY <1>5 DEF VethBack
<1>6. ASSUME NEW h \in Helpers, EnterNetns(h)
      PROVE  Control'
  BY <1>6 DEF EnterNetns
<1>7. ASSUME NEW h \in Helpers, RouteGet(h)
      PROVE  Control'
  BY <1>7 DEF RouteGet
<1>8. ASSUME NEW h \in Helpers, Addrs(h)
      PROVE  Control'
  BY <1>8 DEF Addrs
<1>9. ASSUME NEW h \in Helpers, AddrDel(h)
      PROVE  Control'
  BY <1>9 DEF AddrDel
<1>10. ASSUME NEW h \in Helpers, LklJson(h)
      PROVE  Control'
  BY <1>10 DEF LklJson
<1>11. ASSUME NEW h \in Helpers, OpenEth0(h)
      PROVE  Control'
  BY <1>11 DEF OpenEth0
<1>12. ASSUME NEW h \in Helpers, Serve(h)
      PROVE  Control'
  BY <1>12 DEF Serve
<1>13. ASSUME NEW h \in Helpers, Dial(h)
      PROVE  Control'
  BY <1>13 DEF Dial
<1>14. ASSUME NEW h \in Helpers, Exec(h)
      PROVE  Control'
  BY <1>14 DEF Exec
<1>15. ASSUME NEW h \in Helpers, End(h)
      PROVE  Control'
  BY <1>15 DEF End
<1>16. ASSUME NEW h \in Helpers, Panic(h)
      PROVE  Control'
  BY <1>16 DEF Panic
<1>17. ASSUME NEW h \in Helpers, Move(h)
      PROVE  Control'
  BY <1>17 DEF Move
<1>18. ASSUME NEW h \in Helpers, Listen(h)
      PROVE  Control'
  BY <1>18 DEF Listen
<1>19. ASSUME NEW h \in Helpers, ServeFails(h)
      PROVE  Control'
  BY <1>19 DEF ServeFails
<1>20. CASE UNCHANGED vars
  BY <1>20 DEF vars
<1> QED
  BY <1>1, <1>2, <1>3, <1>4, <1>5, <1>6, <1>7, <1>8, <1>9, <1>10,
     <1>11, <1>12, <1>13, <1>14, <1>15, <1>16, <1>17, <1>18, <1>19, <1>20
     DEF Next, Helper

\* Every step keeps the types of the mounts.
LEMMA MountsKept ==
  ASSUME TypeOK, Mounts, [Next]_vars
  PROVE  Mounts'
<1> USE DEF Mounts
<1>1. ASSUME NEW h \in Helpers, Begin(h)
      PROVE  Mounts'
  BY <1>1 DEF Begin
<1>2. ASSUME NEW h \in Helpers, Mount(h)
      PROVE  Mounts'
  <2>1. PICK to \in {"mount", "failed"}, m \in {"none", "bound", "private", "readonly"} :
          /\ pc[h] = "mount" /\ pc' = [pc EXCEPT ![h] = to]
          /\ mounts' = [mounts EXCEPT ![h] = Append(mounts[h], m)]
          /\ Len(mounts[h]) + 1 <= Len(Conf[h].volumes)
          /\ UNCHANGED <<threads, net, home, nine>>
    BY <1>2, MountEffect
  <2> QED
    BY <2>1, MountsType
<1>3. ASSUME NEW h \in Helpers, Boot(h)
      PROVE  Mounts'
  BY <1>3 DEF Boot
<1>4. ASSUME NEW h \in Helpers, VethEnter(h)
      PROVE  Mounts'
  BY <1>4 DEF VethEnter
<1>5. ASSUME NEW h \in Helpers, VethBack(h)
      PROVE  Mounts'
  BY <1>5 DEF VethBack
<1>6. ASSUME NEW h \in Helpers, EnterNetns(h)
      PROVE  Mounts'
  BY <1>6 DEF EnterNetns
<1>7. ASSUME NEW h \in Helpers, RouteGet(h)
      PROVE  Mounts'
  BY <1>7 DEF RouteGet
<1>8. ASSUME NEW h \in Helpers, Addrs(h)
      PROVE  Mounts'
  BY <1>8 DEF Addrs
<1>9. ASSUME NEW h \in Helpers, AddrDel(h)
      PROVE  Mounts'
  BY <1>9 DEF AddrDel
<1>10. ASSUME NEW h \in Helpers, LklJson(h)
      PROVE  Mounts'
  BY <1>10 DEF LklJson
<1>11. ASSUME NEW h \in Helpers, OpenEth0(h)
      PROVE  Mounts'
  BY <1>11 DEF OpenEth0
<1>12. ASSUME NEW h \in Helpers, Serve(h)
      PROVE  Mounts'
  BY <1>12 DEF Serve
<1>13. ASSUME NEW h \in Helpers, Dial(h)
      PROVE  Mounts'
  BY <1>13 DEF Dial
<1>14. ASSUME NEW h \in Helpers, Exec(h)
      PROVE  Mounts'
  BY <1>14 DEF Exec
<1>15. ASSUME NEW h \in Helpers, End(h)
      PROVE  Mounts'
  BY <1>15 DEF End
<1>16. ASSUME NEW h \in Helpers, Panic(h)
      PROVE  Mounts'
  BY <1>16 DEF Panic
<1>17. ASSUME NEW h \in Helpers, Move(h)
      PROVE  Mounts'
  BY <1>17 DEF Move
<1>18. ASSUME NEW h \in Helpers, Listen(h)
      PROVE  Mounts'
  BY <1>18 DEF Listen
<1>19. ASSUME NEW h \in Helpers, ServeFails(h)
      PROVE  Mounts'
  BY <1>19 DEF ServeFails
<1>20. CASE UNCHANGED vars
  BY <1>20 DEF vars
<1> QED
  BY <1>1, <1>2, <1>3, <1>4, <1>5, <1>6, <1>7, <1>8, <1>9, <1>10,
     <1>11, <1>12, <1>13, <1>14, <1>15, <1>16, <1>17, <1>18, <1>19, <1>20
     DEF Next, Helper

\* Every step keeps the types of the threads.
LEMMA ThreadsKept ==
  ASSUME Threads, Holding, [Next]_vars
  PROVE  Threads'
<1> USE HereType DEF threads, Threads
<1>1. ASSUME NEW h \in Helpers, Begin(h)
      PROVE  Threads'
  BY <1>1 DEF Begin
<1>2. ASSUME NEW h \in Helpers, Mount(h)
      PROVE  Threads'
  BY <1>2 DEF Mount
<1>3. ASSUME NEW h \in Helpers, Boot(h)
      PROVE  Threads'
  BY <1>3 DEF Boot
<1>4. ASSUME NEW h \in Helpers, VethEnter(h)
      PROVE  Threads'
  <2>1. saved' \in [Helpers -> NS \cup {None}]
    BY <1>4 DEF VethEnter, Set, Threads
  <2>2. tns' \in [Helpers -> [{"leader", "other"} -> NS]]
    BY <1>4 DEF VethEnter, Enters, NS, Threads
  <2> QED
    BY <1>4, <2>1, <2>2 DEF VethEnter, Threads
<1>5. ASSUME NEW h \in Helpers, VethBack(h)
      PROVE  Threads'
  <2>1. saved[h] \in NS
    BY <1>5 DEF VethBack, Goes, Holding
  <2>2. tns' \in [Helpers -> [{"leader", "other"} -> NS]]
    BY <1>5, <2>1 DEF VethBack, Enters, Threads
  <2> QED
    BY <1>5, <2>2 DEF VethBack, Threads
<1>6. ASSUME NEW h \in Helpers, EnterNetns(h)
      PROVE  Threads'
  <2>1. tns[Pause]["leader"] \in NS /\ "pod" \in NS
    BY PodAssumption DEF Threads, NS
  <2>2. PICK ns \in NS : Enters(h, ns)
    BY <1>6, <2>1 DEF EnterNetns
  <2>3. tns' \in [Helpers -> [{"leader", "other"} -> NS]]
    BY <2>2 DEF Enters, Threads
  <2> QED
    BY <1>6, <2>3 DEF EnterNetns, Threads
<1>7. ASSUME NEW h \in Helpers, RouteGet(h)
      PROVE  Threads'
  BY <1>7 DEF RouteGet
<1>8. ASSUME NEW h \in Helpers, Addrs(h)
      PROVE  Threads'
  BY <1>8 DEF Addrs
<1>9. ASSUME NEW h \in Helpers, AddrDel(h)
      PROVE  Threads'
  BY <1>9 DEF AddrDel
<1>10. ASSUME NEW h \in Helpers, LklJson(h)
      PROVE  Threads'
  BY <1>10 DEF LklJson
<1>11. ASSUME NEW h \in Helpers, OpenEth0(h)
      PROVE  Threads'
  BY <1>11 DEF OpenEth0
<1>12. ASSUME NEW h \in Helpers, Serve(h)
      PROVE  Threads'
  BY <1>12 DEF Serve
<1>13. ASSUME NEW h \in Helpers, Dial(h)
      PROVE  Threads'
  BY <1>13 DEF Dial
<1>14. ASSUME NEW h \in Helpers, Exec(h)
      PROVE  Threads'
  BY <1>14 DEF Exec
<1>15. ASSUME NEW h \in Helpers, End(h)
      PROVE  Threads'
  BY <1>15 DEF End
<1>16. ASSUME NEW h \in Helpers, Panic(h)
      PROVE  Threads'
  BY <1>16 DEF Panic
<1>17. ASSUME NEW h \in Helpers, Move(h)
      PROVE  Threads'
  <2>1. moved' \in [Helpers -> BOOLEAN]
    BY <1>17 DEF Move, Set, Threads
  <2>2. cur' \in [Helpers -> {"leader", "other"}]
    BY <1>17 DEF Move, Set, Threads
  <2>3. tns[h]["leader"] \in NS
    BY DEF Threads
  <2>4. tns' \in [Helpers -> [{"leader", "other"} -> NS]]
    BY <1>17, <2>3 DEF Move, Threads
  <2> QED
    BY <1>17, <2>1, <2>2, <2>4 DEF Move, Threads
<1>18. ASSUME NEW h \in Helpers, Listen(h)
      PROVE  Threads'
  BY <1>18 DEF Listen
<1>19. ASSUME NEW h \in Helpers, ServeFails(h)
      PROVE  Threads'
  BY <1>19 DEF ServeFails
<1>20. CASE UNCHANGED vars
  BY <1>20 DEF vars
<1> QED
  BY <1>1, <1>2, <1>3, <1>4, <1>5, <1>6, <1>7, <1>8, <1>9, <1>10,
     <1>11, <1>12, <1>13, <1>14, <1>15, <1>16, <1>17, <1>18, <1>19, <1>20
     DEF Next, Helper

\* Every step keeps the types of the addresses.
LEMMA NetworkKept ==
  ASSUME Threads, Network, [Next]_vars
  PROVE  Network'
<1> USE HereType DEF net, Network, Set
<1>1. ASSUME NEW h \in Helpers, Begin(h)
      PROVE  Network'
  BY <1>1 DEF Begin
<1>2. ASSUME NEW h \in Helpers, Mount(h)
      PROVE  Network'
  BY <1>2 DEF Mount
<1>3. ASSUME NEW h \in Helpers, Boot(h)
      PROVE  Network'
  BY <1>3 DEF Boot
<1>4. ASSUME NEW h \in Helpers, VethEnter(h)
      PROVE  Network'
  BY <1>4 DEF VethEnter
<1>5. ASSUME NEW h \in Helpers, VethBack(h)
      PROVE  Network'
  BY <1>5 DEF VethBack
<1>6. ASSUME NEW h \in Helpers, EnterNetns(h)
      PROVE  Network'
  BY <1>6 DEF EnterNetns
<1>7. ASSUME NEW h \in Helpers, RouteGet(h)
      PROVE  Network'
  BY <1>7 DEF RouteGet
<1>8. ASSUME NEW h \in Helpers, Addrs(h)
      PROVE  Network'
  BY <1>8 DEF Addrs
<1>9. ASSUME NEW h \in Helpers, AddrDel(h)
      PROVE  Network'
  BY <1>9 DEF AddrDel
<1>10. ASSUME NEW h \in Helpers, LklJson(h)
      PROVE  Network'
  BY <1>10 DEF LklJson
<1>11. ASSUME NEW h \in Helpers, OpenEth0(h)
      PROVE  Network'
  BY <1>11 DEF OpenEth0
<1>12. ASSUME NEW h \in Helpers, Serve(h)
      PROVE  Network'
  BY <1>12 DEF Serve
<1>13. ASSUME NEW h \in Helpers, Dial(h)
      PROVE  Network'
  BY <1>13 DEF Dial
<1>14. ASSUME NEW h \in Helpers, Exec(h)
      PROVE  Network'
  BY <1>14 DEF Exec
<1>15. ASSUME NEW h \in Helpers, End(h)
      PROVE  Network'
  BY <1>15 DEF End
<1>16. ASSUME NEW h \in Helpers, Panic(h)
      PROVE  Network'
  BY <1>16 DEF Panic
<1>17. ASSUME NEW h \in Helpers, Move(h)
      PROVE  Network'
  BY <1>17 DEF Move
<1>18. ASSUME NEW h \in Helpers, Listen(h)
      PROVE  Network'
  BY <1>18 DEF Listen
<1>19. ASSUME NEW h \in Helpers, ServeFails(h)
      PROVE  Network'
  BY <1>19 DEF ServeFails
<1>20. CASE UNCHANGED vars
  BY <1>20 DEF vars
<1> QED
  BY <1>1, <1>2, <1>3, <1>4, <1>5, <1>6, <1>7, <1>8, <1>9, <1>10,
     <1>11, <1>12, <1>13, <1>14, <1>15, <1>16, <1>17, <1>18, <1>19, <1>20
     DEF Next, Helper

\* Every step keeps the types of the servers.
LEMMA ServersKept ==
  ASSUME Threads, Servers, [Next]_vars
  PROVE  Servers'
<1> USE HereType DEF nine, Servers, Set
<1>1. ASSUME NEW h \in Helpers, Begin(h)
      PROVE  Servers'
  BY <1>1 DEF Begin
<1>2. ASSUME NEW h \in Helpers, Mount(h)
      PROVE  Servers'
  BY <1>2 DEF Mount
<1>3. ASSUME NEW h \in Helpers, Boot(h)
      PROVE  Servers'
  BY <1>3 DEF Boot
<1>4. ASSUME NEW h \in Helpers, VethEnter(h)
      PROVE  Servers'
  BY <1>4 DEF VethEnter
<1>5. ASSUME NEW h \in Helpers, VethBack(h)
      PROVE  Servers'
  BY <1>5 DEF VethBack
<1>6. ASSUME NEW h \in Helpers, EnterNetns(h)
      PROVE  Servers'
  BY <1>6 DEF EnterNetns
<1>7. ASSUME NEW h \in Helpers, RouteGet(h)
      PROVE  Servers'
  BY <1>7 DEF RouteGet
<1>8. ASSUME NEW h \in Helpers, Addrs(h)
      PROVE  Servers'
  BY <1>8 DEF Addrs
<1>9. ASSUME NEW h \in Helpers, AddrDel(h)
      PROVE  Servers'
  BY <1>9 DEF AddrDel
<1>10. ASSUME NEW h \in Helpers, LklJson(h)
      PROVE  Servers'
  BY <1>10 DEF LklJson
<1>11. ASSUME NEW h \in Helpers, OpenEth0(h)
      PROVE  Servers'
  BY <1>11 DEF OpenEth0
<1>12. ASSUME NEW h \in Helpers, Serve(h)
      PROVE  Servers'
  BY <1>12 DEF Serve
<1>13. ASSUME NEW h \in Helpers, Dial(h)
      PROVE  Servers'
  BY <1>13 DEF Dial, Listening
<1>14. ASSUME NEW h \in Helpers, Exec(h)
      PROVE  Servers'
  BY <1>14 DEF Exec
<1>15. ASSUME NEW h \in Helpers, End(h)
      PROVE  Servers'
  BY <1>15 DEF End
<1>16. ASSUME NEW h \in Helpers, Panic(h)
      PROVE  Servers'
  BY <1>16 DEF Panic
<1>17. ASSUME NEW h \in Helpers, Move(h)
      PROVE  Servers'
  BY <1>17 DEF Move
<1>18. ASSUME NEW h \in Helpers, Listen(h)
      PROVE  Servers'
  BY <1>18 DEF Listen
<1>19. ASSUME NEW h \in Helpers, ServeFails(h)
      PROVE  Servers'
  BY <1>19 DEF ServeFails
<1>20. CASE UNCHANGED vars
  BY <1>20 DEF vars
<1> QED
  BY <1>1, <1>2, <1>3, <1>4, <1>5, <1>6, <1>7, <1>8, <1>9, <1>10,
     <1>11, <1>12, <1>13, <1>14, <1>15, <1>16, <1>17, <1>18, <1>19, <1>20
     DEF Next, Helper

\* Every step keeps what a helper holds at which place.
LEMMA HoldingKept ==
  ASSUME TypeOK, Holding, [Next]_vars
  PROVE  Holding'
<1> USE PodAssumption DEF TypeOK, Holding, Goes, Set, threads, net, nine, Booting
<1>1. ASSUME NEW h \in Helpers, Begin(h)
      PROVE  Holding'
  BY <1>1 DEF Begin
<1>2. ASSUME NEW h \in Helpers, Mount(h)
      PROVE  Holding'
  <2>1. PICK to \in {"mount", "failed"}, m \in {"none", "bound", "private", "readonly"} :
          /\ pc[h] = "mount" /\ pc' = [pc EXCEPT ![h] = to]
          /\ mounts' = [mounts EXCEPT ![h] = Append(mounts[h], m)]
          /\ Len(mounts[h]) + 1 <= Len(Conf[h].volumes)
          /\ UNCHANGED <<threads, net, home, nine>>
    BY <1>2, MountEffect
  <2> QED
    BY <2>1
<1>3. ASSUME NEW h \in Helpers, Boot(h)
      PROVE  Holding'
  BY <1>3 DEF Boot
<1>4. ASSUME NEW h \in Helpers, VethEnter(h)
      PROVE  Holding'
  <2>1. Here(h) \in NS
    BY <1>4 DEF Here
  <2>2. saved' = [saved EXCEPT ![h] = Here(h)]
    BY <1>4 DEF VethEnter
  <2>3. pc[h] = "veth" /\ pc'[h] \in {"back", "enter"}
        /\ \A o \in Helpers \ {h} : pc'[o] = pc[o]
    BY <1>4 DEF VethEnter
  <2>4. UNCHANGED <<got, holds, ip>>
    BY <1>4 DEF VethEnter
  <2> HIDE DEF Goes, Set, Here
  <2> QED
    BY <2>1, <2>2, <2>3, <2>4
<1>5. ASSUME NEW h \in Helpers, VethBack(h)
      PROVE  Holding'
  BY <1>5 DEF VethBack
<1>6. ASSUME NEW h \in Helpers, EnterNetns(h)
      PROVE  Holding'
  BY <1>6 DEF EnterNetns
<1>7. ASSUME NEW h \in Helpers, RouteGet(h)
      PROVE  Holding'
  BY <1>7 DEF RouteGet
<1>8. ASSUME NEW h \in Helpers, Addrs(h)
      PROVE  Holding'
  BY <1>8 DEF Addrs
<1>9. ASSUME NEW h \in Helpers, AddrDel(h)
      PROVE  Holding'
  BY <1>9 DEF AddrDel
<1>10. ASSUME NEW h \in Helpers, LklJson(h)
      PROVE  Holding'
  BY <1>10 DEF LklJson
<1>11. ASSUME NEW h \in Helpers, OpenEth0(h)
      PROVE  Holding'
  BY <1>11 DEF OpenEth0
<1>12. ASSUME NEW h \in Helpers, Serve(h)
      PROVE  Holding'
  BY <1>12 DEF Serve
<1>13. ASSUME NEW h \in Helpers, Dial(h)
      PROVE  Holding'
  BY <1>13 DEF Dial
<1>14. ASSUME NEW h \in Helpers, Exec(h)
      PROVE  Holding'
  BY <1>14 DEF Exec
<1>15. ASSUME NEW h \in Helpers, End(h)
      PROVE  Holding'
  BY <1>15 DEF End
<1>16. ASSUME NEW h \in Helpers, Panic(h)
      PROVE  Holding'
  BY <1>16 DEF Panic
<1>17. ASSUME NEW h \in Helpers, Move(h)
      PROVE  Holding'
  BY <1>17 DEF Move
<1>18. ASSUME NEW h \in Helpers, Listen(h)
      PROVE  Holding'
  BY <1>18 DEF Listen
<1>19. ASSUME NEW h \in Helpers, ServeFails(h)
      PROVE  Holding'
  BY <1>19 DEF ServeFails
<1>20. CASE UNCHANGED vars
  BY <1>20 DEF vars
<1> QED
  BY <1>1, <1>2, <1>3, <1>4, <1>5, <1>6, <1>7, <1>8, <1>9, <1>10,
     <1>11, <1>12, <1>13, <1>14, <1>15, <1>16, <1>17, <1>18, <1>19, <1>20
     DEF Next, Helper

\* Every step keeps the owners of the addresses.
LEMMA OneOwnerKept ==
  ASSUME TypeOK, Holding, OneOwner, [Next]_vars
  PROVE  OneOwner'
<1> USE DEF OneOwner, threads, net
<1>1. ASSUME NEW h \in Helpers, Begin(h)
      PROVE  OneOwner'
  BY <1>1 DEF Begin
<1>2. ASSUME NEW h \in Helpers, Mount(h)
      PROVE  OneOwner'
  BY <1>2 DEF Mount
<1>3. ASSUME NEW h \in Helpers, Boot(h)
      PROVE  OneOwner'
  BY <1>3 DEF Boot
<1>4. ASSUME NEW h \in Helpers, VethEnter(h)
      PROVE  OneOwner'
  BY <1>4 DEF VethEnter
<1>5. ASSUME NEW h \in Helpers, VethBack(h)
      PROVE  OneOwner'
  BY <1>5 DEF VethBack
<1>6. ASSUME NEW h \in Helpers, EnterNetns(h)
      PROVE  OneOwner'
  BY <1>6 DEF EnterNetns
<1>7. ASSUME NEW h \in Helpers, RouteGet(h)
      PROVE  OneOwner'
  BY <1>7 DEF RouteGet
<1>8. ASSUME NEW h \in Helpers, Addrs(h)
      PROVE  OneOwner'
  BY <1>8 DEF Addrs
<1>9. ASSUME NEW h \in Helpers, AddrDel(h)
      PROVE  OneOwner'
  <2>1. /\ holds[h] = None /\ ip[h] = None /\ got[h] \in addr
        /\ addr' = addr \ {got[h]} /\ holds' = [holds EXCEPT ![h] = got[h]]
        /\ UNCHANGED ip /\ got[h] \in NS
    BY <1>9 DEF AddrDel, Goes, Set, Holding, TypeOK
  <2>2. /\ holds'[h] = got[h]
        /\ \A o \in Helpers \ {h} : holds'[o] = holds[o]
    BY <2>1 DEF TypeOK
  <2>3. None \notin NS
    BY PodAssumption
  <2> QED
    BY <2>1, <2>2, <2>3
<1>10. ASSUME NEW h \in Helpers, LklJson(h)
      PROVE  OneOwner'
  <2>1. /\ UNCHANGED <<addr, holds>>
        /\ \A o \in Helpers \ {h} : ip'[o] = ip[o]
    BY <1>10 DEF LklJson, Set, TypeOK
  <2>2. ip'[h] \in NS /\ ~Conf[h].pause => holds[h] = ip'[h]
    <3>1. ~Conf[h].pause => holds[h] = got[h]
      BY <1>10 DEF LklJson, Goes, Holding
    <3>2. ip[h] = None
      BY <1>10 DEF LklJson, Goes, Holding
    <3>3. ip'[h] \in {got[h], "user", None}
      BY <1>10, <3>2 DEF LklJson, Set, TypeOK
    <3> QED
      BY <3>1, <3>3, PodAssumption DEF NS
  <2> QED
    BY <2>1, <2>2
<1>11. ASSUME NEW h \in Helpers, OpenEth0(h)
      PROVE  OneOwner'
  BY <1>11 DEF OpenEth0
<1>12. ASSUME NEW h \in Helpers, Serve(h)
      PROVE  OneOwner'
  BY <1>12 DEF Serve
<1>13. ASSUME NEW h \in Helpers, Dial(h)
      PROVE  OneOwner'
  BY <1>13 DEF Dial
<1>14. ASSUME NEW h \in Helpers, Exec(h)
      PROVE  OneOwner'
  BY <1>14 DEF Exec
<1>15. ASSUME NEW h \in Helpers, End(h)
      PROVE  OneOwner'
  BY <1>15 DEF End
<1>16. ASSUME NEW h \in Helpers, Panic(h)
      PROVE  OneOwner'
  BY <1>16 DEF Panic
<1>17. ASSUME NEW h \in Helpers, Move(h)
      PROVE  OneOwner'
  BY <1>17 DEF Move
<1>18. ASSUME NEW h \in Helpers, Listen(h)
      PROVE  OneOwner'
  BY <1>18 DEF Listen
<1>19. ASSUME NEW h \in Helpers, ServeFails(h)
      PROVE  OneOwner'
  BY <1>19 DEF ServeFails
<1>20. CASE UNCHANGED vars
  BY <1>20 DEF vars
<1> QED
  BY <1>1, <1>2, <1>3, <1>4, <1>5, <1>6, <1>7, <1>8, <1>9, <1>10,
     <1>11, <1>12, <1>13, <1>14, <1>15, <1>16, <1>17, <1>18, <1>19, <1>20
     DEF Next, Helper

\* Every step keeps first threads inside.
LEMMA InsideKept ==
  ASSUME TypeOK, Inside, [Next]_vars
  PROVE  Inside'
<1> USE PodAssumption DEF TypeOK, Inside, Goes, Set, Here, Enters, threads, net, nine, Booting, NS
<1>1. ASSUME NEW h \in Helpers, Begin(h)
      PROVE  Inside'
  BY <1>1 DEF Begin
<1>2. ASSUME NEW h \in Helpers, Mount(h)
      PROVE  Inside'
  <2>1. PICK to \in {"mount", "failed"}, m \in {"none", "bound", "private", "readonly"} :
          /\ pc[h] = "mount" /\ pc' = [pc EXCEPT ![h] = to]
          /\ mounts' = [mounts EXCEPT ![h] = Append(mounts[h], m)]
          /\ Len(mounts[h]) + 1 <= Len(Conf[h].volumes)
          /\ UNCHANGED <<threads, net, home, nine>>
    BY <1>2, MountEffect
  <2> QED
    BY <2>1
<1>3. ASSUME NEW h \in Helpers, Boot(h)
      PROVE  Inside'
  BY <1>3 DEF Boot
<1>4. ASSUME NEW h \in Helpers, VethEnter(h)
      PROVE  Inside'
  BY <1>4 DEF VethEnter
<1>5. ASSUME NEW h \in Helpers, VethBack(h)
      PROVE  Inside'
  BY <1>5 DEF VethBack
<1>6. ASSUME NEW h \in Helpers, EnterNetns(h)
      PROVE  Inside'
  BY <1>6 DEF EnterNetns
<1>7. ASSUME NEW h \in Helpers, RouteGet(h)
      PROVE  Inside'
  BY <1>7 DEF RouteGet
<1>8. ASSUME NEW h \in Helpers, Addrs(h)
      PROVE  Inside'
  BY <1>8 DEF Addrs
<1>9. ASSUME NEW h \in Helpers, AddrDel(h)
      PROVE  Inside'
  BY <1>9 DEF AddrDel
<1>10. ASSUME NEW h \in Helpers, LklJson(h)
      PROVE  Inside'
  BY <1>10 DEF LklJson
<1>11. ASSUME NEW h \in Helpers, OpenEth0(h)
      PROVE  Inside'
  BY <1>11 DEF OpenEth0
<1>12. ASSUME NEW h \in Helpers, Serve(h)
      PROVE  Inside'
  BY <1>12 DEF Serve
<1>13. ASSUME NEW h \in Helpers, Dial(h)
      PROVE  Inside'
  BY <1>13 DEF Dial
<1>14. ASSUME NEW h \in Helpers, Exec(h)
      PROVE  Inside'
  BY <1>14 DEF Exec
<1>15. ASSUME NEW h \in Helpers, End(h)
      PROVE  Inside'
  BY <1>15 DEF End
<1>16. ASSUME NEW h \in Helpers, Panic(h)
      PROVE  Inside'
  BY <1>16 DEF Panic
<1>17. ASSUME NEW h \in Helpers, Move(h)
      PROVE  Inside'
  BY <1>17 DEF Move
<1>18. ASSUME NEW h \in Helpers, Listen(h)
      PROVE  Inside'
  BY <1>18 DEF Listen
<1>19. ASSUME NEW h \in Helpers, ServeFails(h)
      PROVE  Inside'
  BY <1>19 DEF ServeFails
<1>20. CASE UNCHANGED vars
  BY <1>20 DEF vars
<1> QED
  BY <1>1, <1>2, <1>3, <1>4, <1>5, <1>6, <1>7, <1>8, <1>9, <1>10,
     <1>11, <1>12, <1>13, <1>14, <1>15, <1>16, <1>17, <1>18, <1>19, <1>20
     DEF Next, Helper

\* Every step keeps the traces of the helpers in the pod.
LEMMA InNetnsKept ==
  ASSUME TypeOK, Holding, Inside, InNetns, [Next]_vars
  PROVE  InNetns'
<1> USE PodAssumption DEF TypeOK, Holding, Inside, InNetns, Goes, Set, Here, threads, net, nine, NS, Booting
<1>1. ASSUME NEW h \in Helpers, Begin(h)
      PROVE  InNetns'
  BY <1>1 DEF Begin
<1>2. ASSUME NEW h \in Helpers, Mount(h)
      PROVE  InNetns'
  <2>1. PICK to \in {"mount", "failed"}, m \in {"none", "bound", "private", "readonly"} :
          /\ pc[h] = "mount" /\ pc' = [pc EXCEPT ![h] = to]
          /\ mounts' = [mounts EXCEPT ![h] = Append(mounts[h], m)]
          /\ Len(mounts[h]) + 1 <= Len(Conf[h].volumes)
          /\ UNCHANGED <<threads, net, home, nine>>
    BY <1>2, MountEffect
  <2> QED
    BY <2>1
<1>3. ASSUME NEW h \in Helpers, Boot(h)
      PROVE  InNetns'
  BY <1>3 DEF Boot
<1>4. ASSUME NEW h \in Helpers, VethEnter(h)
      PROVE  InNetns'
  BY <1>4 DEF VethEnter
<1>5. ASSUME NEW h \in Helpers, VethBack(h)
      PROVE  InNetns'
  BY <1>5 DEF VethBack
<1>6. ASSUME NEW h \in Helpers, EnterNetns(h)
      PROVE  InNetns'
  BY <1>6 DEF EnterNetns
<1>7. ASSUME NEW h \in Helpers, RouteGet(h)
      PROVE  InNetns'
  BY <1>7 DEF RouteGet
<1>8. ASSUME NEW h \in Helpers, Addrs(h)
      PROVE  InNetns'
  BY <1>8 DEF Addrs
<1>9. ASSUME NEW h \in Helpers, AddrDel(h)
      PROVE  InNetns'
  BY <1>9 DEF AddrDel
<1>10. ASSUME NEW h \in Helpers, LklJson(h)
      PROVE  InNetns'
  BY <1>10 DEF LklJson
<1>11. ASSUME NEW h \in Helpers, OpenEth0(h)
      PROVE  InNetns'
  BY <1>11 DEF OpenEth0
<1>12. ASSUME NEW h \in Helpers, Serve(h)
      PROVE  InNetns'
  BY <1>12 DEF Serve
<1>13. ASSUME NEW h \in Helpers, Dial(h)
      PROVE  InNetns'
  BY <1>13 DEF Dial
<1>14. ASSUME NEW h \in Helpers, Exec(h)
      PROVE  InNetns'
  BY <1>14 DEF Exec
<1>15. ASSUME NEW h \in Helpers, End(h)
      PROVE  InNetns'
  BY <1>15 DEF End
<1>16. ASSUME NEW h \in Helpers, Panic(h)
      PROVE  InNetns'
  BY <1>16 DEF Panic
<1>17. ASSUME NEW h \in Helpers, Move(h)
      PROVE  InNetns'
  BY <1>17 DEF Move
<1>18. ASSUME NEW h \in Helpers, Listen(h)
      PROVE  InNetns'
  BY <1>18 DEF Listen
<1>19. ASSUME NEW h \in Helpers, ServeFails(h)
      PROVE  InNetns'
  BY <1>19 DEF ServeFails
<1>20. CASE UNCHANGED vars
  BY <1>20 DEF vars
<1> QED
  BY <1>1, <1>2, <1>3, <1>4, <1>5, <1>6, <1>7, <1>8, <1>9, <1>10,
     <1>11, <1>12, <1>13, <1>14, <1>15, <1>16, <1>17, <1>18, <1>19, <1>20
     DEF Next, Helper

\* Every step keeps the servers of living containers apart.
LEMMA AloneKept ==
  ASSUME TypeOK, Alone, [Next]_vars
  PROVE  Alone'
<1> USE PodAssumption DEF TypeOK, Alone, Held, Over, Goes, Set, threads, net, nine, Booting
<1>1. ASSUME NEW h \in Helpers, Begin(h)
      PROVE  Alone'
  BY <1>1 DEF Begin
<1>2. ASSUME NEW h \in Helpers, Mount(h)
      PROVE  Alone'
  <2>1. PICK to \in {"mount", "failed"}, m \in {"none", "bound", "private", "readonly"} :
          /\ pc[h] = "mount" /\ pc' = [pc EXCEPT ![h] = to]
          /\ mounts' = [mounts EXCEPT ![h] = Append(mounts[h], m)]
          /\ Len(mounts[h]) + 1 <= Len(Conf[h].volumes)
          /\ UNCHANGED <<threads, net, home, nine>>
    BY <1>2, MountEffect
  <2> QED
    BY <2>1
<1>3. ASSUME NEW h \in Helpers, Boot(h)
      PROVE  Alone'
  BY <1>3 DEF Boot
<1>4. ASSUME NEW h \in Helpers, VethEnter(h)
      PROVE  Alone'
  <2>1. pc[h] = "veth" /\ pc'[h] \in {"back", "enter"} /\ UNCHANGED srv
        /\ \A o \in Helpers \ {h} : pc'[o] = pc[o]
    BY <1>4 DEF VethEnter
  <2> HIDE DEF Goes, Set, TypeOK
  <2> QED
    BY <2>1
<1>5. ASSUME NEW h \in Helpers, VethBack(h)
      PROVE  Alone'
  BY <1>5 DEF VethBack
<1>6. ASSUME NEW h \in Helpers, EnterNetns(h)
      PROVE  Alone'
  BY <1>6 DEF EnterNetns
<1>7. ASSUME NEW h \in Helpers, RouteGet(h)
      PROVE  Alone'
  BY <1>7 DEF RouteGet
<1>8. ASSUME NEW h \in Helpers, Addrs(h)
      PROVE  Alone'
  BY <1>8 DEF Addrs
<1>9. ASSUME NEW h \in Helpers, AddrDel(h)
      PROVE  Alone'
  BY <1>9 DEF AddrDel
<1>10. ASSUME NEW h \in Helpers, LklJson(h)
      PROVE  Alone'
  <2>1. pc[h] = "json" /\ pc'[h] \in {"eth0", "serve"} /\ UNCHANGED srv
        /\ \A o \in Helpers \ {h} : pc'[o] = pc[o]
    BY <1>10 DEF LklJson
  <2> HIDE DEF Goes, Set, TypeOK
  <2> QED
    BY <2>1
<1>11. ASSUME NEW h \in Helpers, OpenEth0(h)
      PROVE  Alone'
  BY <1>11 DEF OpenEth0
<1>12. ASSUME NEW h \in Helpers, Serve(h)
      PROVE  Alone'
  <2>1. /\ pc[h] = "serve" /\ pc'[h] \in {"dial", "exec"}
        /\ pc'[h] = "dial" \/ srv'[h] # srv[h] => Uses9p(h) /\ pc'[h] = "dial"
        /\ \A o \in Helpers \ {h} : pc'[o] = pc[o] /\ srv'[o] = srv[o]
    BY <1>12 DEF Serve
  <2> HIDE DEF Goes, Set, TypeOK
  <2> QED
    BY <2>1
<1>13. ASSUME NEW h \in Helpers, Dial(h)
      PROVE  Alone'
  BY <1>13 DEF Dial
<1>14. ASSUME NEW h \in Helpers, Exec(h)
      PROVE  Alone'
  BY <1>14 DEF Exec
<1>15. ASSUME NEW h \in Helpers, End(h)
      PROVE  Alone'
  BY <1>15 DEF End
<1>16. ASSUME NEW h \in Helpers, Panic(h)
      PROVE  Alone'
  BY <1>16 DEF Panic
<1>17. ASSUME NEW h \in Helpers, Move(h)
      PROVE  Alone'
  BY <1>17 DEF Move
<1>18. ASSUME NEW h \in Helpers, Listen(h)
      PROVE  Alone'
  BY <1>18 DEF Listen
<1>19. ASSUME NEW h \in Helpers, ServeFails(h)
      PROVE  Alone'
  BY <1>19 DEF ServeFails
<1>20. CASE UNCHANGED vars
  BY <1>20 DEF vars
<1> QED
  BY <1>1, <1>2, <1>3, <1>4, <1>5, <1>6, <1>7, <1>8, <1>9, <1>10,
     <1>11, <1>12, <1>13, <1>14, <1>15, <1>16, <1>17, <1>18, <1>19, <1>20
     DEF Next, Helper

\* Every step keeps connections to the container's own server.
LEMMA OwnServerKept ==
  ASSUME TypeOK, Alone, OwnServer, [Next]_vars
  PROVE  OwnServer'
<1> USE PodAssumption DEF TypeOK, Alone, Held, Over, OwnServer, Listening, Goes, Set, threads, net, nine, Booting
<1>1. ASSUME NEW h \in Helpers, Begin(h)
      PROVE  OwnServer'
  BY <1>1 DEF Begin
<1>2. ASSUME NEW h \in Helpers, Mount(h)
      PROVE  OwnServer'
  <2>1. PICK to \in {"mount", "failed"}, m \in {"none", "bound", "private", "readonly"} :
          /\ pc[h] = "mount" /\ pc' = [pc EXCEPT ![h] = to]
          /\ mounts' = [mounts EXCEPT ![h] = Append(mounts[h], m)]
          /\ Len(mounts[h]) + 1 <= Len(Conf[h].volumes)
          /\ UNCHANGED <<threads, net, home, nine>>
    BY <1>2, MountEffect
  <2> QED
    BY <2>1
<1>3. ASSUME NEW h \in Helpers, Boot(h)
      PROVE  OwnServer'
  BY <1>3 DEF Boot
<1>4. ASSUME NEW h \in Helpers, VethEnter(h)
      PROVE  OwnServer'
  BY <1>4 DEF VethEnter
<1>5. ASSUME NEW h \in Helpers, VethBack(h)
      PROVE  OwnServer'
  BY <1>5 DEF VethBack
<1>6. ASSUME NEW h \in Helpers, EnterNetns(h)
      PROVE  OwnServer'
  BY <1>6 DEF EnterNetns
<1>7. ASSUME NEW h \in Helpers, RouteGet(h)
      PROVE  OwnServer'
  BY <1>7 DEF RouteGet
<1>8. ASSUME NEW h \in Helpers, Addrs(h)
      PROVE  OwnServer'
  BY <1>8 DEF Addrs
<1>9. ASSUME NEW h \in Helpers, AddrDel(h)
      PROVE  OwnServer'
  BY <1>9 DEF AddrDel
<1>10. ASSUME NEW h \in Helpers, LklJson(h)
      PROVE  OwnServer'
  BY <1>10 DEF LklJson
<1>11. ASSUME NEW h \in Helpers, OpenEth0(h)
      PROVE  OwnServer'
  BY <1>11 DEF OpenEth0
<1>12. ASSUME NEW h \in Helpers, Serve(h)
      PROVE  OwnServer'
  BY <1>12 DEF Serve
<1>13. ASSUME NEW h \in Helpers, Dial(h)
      PROVE  OwnServer'
  <2>1. PICK s \in Helpers : srv[s] = "listening" /\ conn' = [conn EXCEPT ![h] = s]
    BY <1>13 DEF Dial
  <2>2. pc[h] = "dial" /\ pc' = [pc EXCEPT ![h] = "exec"]
    BY <1>13 DEF Dial
  <2>3. Apart /\ s # h => pc[s] = "dead"
    BY <2>1, <2>2
  <2> QED
    BY <2>1, <2>2, <2>3
<1>14. ASSUME NEW h \in Helpers, Exec(h)
      PROVE  OwnServer'
  BY <1>14 DEF Exec
<1>15. ASSUME NEW h \in Helpers, End(h)
      PROVE  OwnServer'
  BY <1>15 DEF End
<1>16. ASSUME NEW h \in Helpers, Panic(h)
      PROVE  OwnServer'
  BY <1>16 DEF Panic
<1>17. ASSUME NEW h \in Helpers, Move(h)
      PROVE  OwnServer'
  BY <1>17 DEF Move
<1>18. ASSUME NEW h \in Helpers, Listen(h)
      PROVE  OwnServer'
  BY <1>18 DEF Listen
<1>19. ASSUME NEW h \in Helpers, ServeFails(h)
      PROVE  OwnServer'
  BY <1>19 DEF ServeFails
<1>20. CASE UNCHANGED vars
  BY <1>20 DEF vars
<1> QED
  BY <1>1, <1>2, <1>3, <1>4, <1>5, <1>6, <1>7, <1>8, <1>9, <1>10,
     <1>11, <1>12, <1>13, <1>14, <1>15, <1>16, <1>17, <1>18, <1>19, <1>20
     DEF Next, Helper

\* Every step keeps the mounts complete.
LEMMA MountedKept ==
  ASSUME TypeOK, Mounted, [Next]_vars
  PROVE  Mounted'
<1> USE PodAssumption DEF TypeOK, Mounted, MountedAt, UnderWay, Goes, Set, threads, net, nine, Booting
<1>1. ASSUME NEW h \in Helpers, Begin(h)
      PROVE  Mounted'
  <2>1. pc[h] = "idle" /\ UNCHANGED <<mounts, conn>> /\ pc'[h] \in {"mount", "failed"}
        /\ \A o \in Helpers \ {h} : pc'[o] = pc[o]
    BY <1>1 DEF Begin
  <2>2. Len(mounts[h]) = 0
    BY <2>1
  <2> HIDE DEF TypeOK, Goes, Set
  <2> QED
    BY <2>1, <2>2
<1>2. ASSUME NEW h \in Helpers, Mount(h)
      PROVE  Mounted'
  <2>1. PICK to \in {"mount", "failed"}, m \in {"none", "bound", "private", "readonly"} :
          LET v == Conf[h].volumes[Len(mounts[h]) + 1] IN
          /\ pc[h] = "mount" /\ pc' = [pc EXCEPT ![h] = to]
          /\ mounts' = [mounts EXCEPT ![h] = Append(mounts[h], m)]
          /\ Len(mounts[h]) + 1 <= Len(Conf[h].volumes)
          /\ to = "mount" => \/ v = "other"
                             \/ BindMount(v) /\ ~Conf[h].disk /\ m = Complete(v)
          /\ UNCHANGED <<threads, net, home, nine>>
    BY <1>2, MountStep
  <2>2. /\ Len(mounts'[h]) = Len(mounts[h]) + 1 /\ Len(mounts[h]) \in Nat
        /\ \A i \in 1..Len(mounts[h]) : mounts'[h][i] = mounts[h][i]
        /\ mounts'[h][Len(mounts[h]) + 1] = m
        /\ \A o \in Helpers \ {h} : mounts'[o] = mounts[o]
    BY <2>1, MountsType
  <2>3. /\ \A o \in Helpers \ {h} : pc'[o] = pc[o]
        /\ pc'[h] = to /\ UNCHANGED conn
    BY <2>1
  <2>4. ASSUME to = "mount", NEW i \in 1..Len(mounts'[h]), Conf[h].volumes[i] # "other"
        PROVE  BindMount(Conf[h].volumes[i]) /\ ~Conf[h].disk
               /\ mounts'[h][i] = Complete(Conf[h].volumes[i])
    <3>1. CASE i \in 1..Len(mounts[h])
      BY <2>1, <2>2, <2>4, <3>1
    <3>2. CASE i = Len(mounts[h]) + 1
      BY <2>1, <2>2, <2>4, <3>2
    <3> QED
      BY <2>2, <3>1, <3>2
  <2>5. ASSUME NEW o \in Helpers \ {h}
        PROVE  MountedAt(o)'
    <3>1. UNCHANGED <<pc[o], mounts[o], conn[o]>>
      BY <2>2, <2>3
    <3> HIDE DEF TypeOK, Goes, Set, Booting
    <3> QED
      BY <3>1
  <2>6. MountedAt(h)'
    <3>1. pc'[h] \notin Booting \cup {"running", "idle", "exec"}
      BY <2>1, <2>3
    <3>2. pc'[h] = "mount" => to = "mount"
      BY <2>3
    <3> HIDE DEF TypeOK, Goes, Set, Booting
    <3> QED
      BY <2>4, <3>1, <3>2
  <2> HIDE DEF TypeOK, Goes, Set, Booting, MountedAt
  <2> QED
    BY <2>5, <2>6
<1>3. ASSUME NEW h \in Helpers, Boot(h)
      PROVE  Mounted'
  BY <1>3 DEF Boot
<1>4. ASSUME NEW h \in Helpers, VethEnter(h)
      PROVE  Mounted'
  BY <1>4 DEF VethEnter
<1>5. ASSUME NEW h \in Helpers, VethBack(h)
      PROVE  Mounted'
  BY <1>5 DEF VethBack
<1>6. ASSUME NEW h \in Helpers, EnterNetns(h)
      PROVE  Mounted'
  BY <1>6 DEF EnterNetns
<1>7. ASSUME NEW h \in Helpers, RouteGet(h)
      PROVE  Mounted'
  BY <1>7 DEF RouteGet
<1>8. ASSUME NEW h \in Helpers, Addrs(h)
      PROVE  Mounted'
  BY <1>8 DEF Addrs
<1>9. ASSUME NEW h \in Helpers, AddrDel(h)
      PROVE  Mounted'
  BY <1>9 DEF AddrDel
<1>10. ASSUME NEW h \in Helpers, LklJson(h)
      PROVE  Mounted'
  BY <1>10 DEF LklJson
<1>11. ASSUME NEW h \in Helpers, OpenEth0(h)
      PROVE  Mounted'
  BY <1>11 DEF OpenEth0
<1>12. ASSUME NEW h \in Helpers, Serve(h)
      PROVE  Mounted'
  BY <1>12 DEF Serve
<1>13. ASSUME NEW h \in Helpers, Dial(h)
      PROVE  Mounted'
  <2>1. PICK s \in Helpers : conn' = [conn EXCEPT ![h] = s]
    BY <1>13 DEF Dial, Listening
  <2>2. pc[h] = "dial" /\ pc' = [pc EXCEPT ![h] = "exec"] /\ UNCHANGED mounts /\ s # None
    BY <1>13 DEF Dial
  <2> QED
    BY <2>1, <2>2
<1>14. ASSUME NEW h \in Helpers, Exec(h)
      PROVE  Mounted'
  BY <1>14 DEF Exec
<1>15. ASSUME NEW h \in Helpers, End(h)
      PROVE  Mounted'
  BY <1>15 DEF End
<1>16. ASSUME NEW h \in Helpers, Panic(h)
      PROVE  Mounted'
  BY <1>16 DEF Panic
<1>17. ASSUME NEW h \in Helpers, Move(h)
      PROVE  Mounted'
  BY <1>17 DEF Move
<1>18. ASSUME NEW h \in Helpers, Listen(h)
      PROVE  Mounted'
  BY <1>18 DEF Listen
<1>19. ASSUME NEW h \in Helpers, ServeFails(h)
      PROVE  Mounted'
  BY <1>19 DEF ServeFails
<1>20. CASE UNCHANGED vars
  BY <1>20 DEF vars
<1> QED
  BY <1>1, <1>2, <1>3, <1>4, <1>5, <1>6, <1>7, <1>8, <1>9, <1>10,
     <1>11, <1>12, <1>13, <1>14, <1>15, <1>16, <1>17, <1>18, <1>19, <1>20
     DEF Next, Helper

-----------------------------------------------------------------------------

LEMMA InitInv == Init => IInv
<1> SUFFICES ASSUME Init
             PROVE  IInv
  OBVIOUS
<1>1. TypeOK
  <2>1. Control /\ Threads /\ Network /\ Servers
    BY PlacesAre DEF Init, Control, Threads, Network, Servers, NS
  <2>2. Mounts
    BY PodAssumption DEF Init, Mounts
  <2> QED
    BY <2>1, <2>2, TypeParts
<1>2. Holding /\ Inside /\ OneOwner /\ InNetns /\ OwnServer
  BY PodAssumption DEF Init, Holding, Inside, OneOwner, InNetns, OwnServer, NS
<1>3. Alone
  BY DEF Init, Alone, Held, Over
<1>4. Mounted
  BY DEF Init, Mounted, MountedAt, UnderWay, Booting
<1> QED
  BY <1>1, <1>2, <1>3, <1>4 DEF IInv

LEMMA NextInv == IInv /\ [Next]_vars => IInv'
<1> SUFFICES ASSUME IInv, [Next]_vars
             PROVE  IInv'
  OBVIOUS
<1>1. Control' /\ Mounts' /\ Threads' /\ Network' /\ Servers'
  BY TypeParts, ControlKept, MountsKept, ThreadsKept, NetworkKept, ServersKept DEF IInv
<1>2. TypeOK'
  BY <1>1 DEF TypeOK, Control, Mounts, Threads, Network, Servers
<1> QED
  BY <1>2, HoldingKept, OneOwnerKept, InsideKept, InNetnsKept, AloneKept, OwnServerKept,
     MountedKept DEF IInv

THEOREM Invariance == Spec => []IInv
  BY InitInv, NextInv, PTL DEF Spec

\* The variables keep their types.
THEOREM TypeCorrect == Spec => []TypeOK
<1>1. IInv => TypeOK
  BY DEF IInv
<1> QED
  BY <1>1, Invariance, PTL

\* An address is given to one main container at most, and is not lost before
\* one has taken it (utils_linux.go:172): with any number of containers and
\* whatever the scheduler does.
THEOREM Ownership == Spec => []OneOwner
<1>1. IInv => OneOwner
  BY DEF IInv
<1> QED
  BY <1>1, Invariance, PTL

\* Helpers that are not moved work in the namespace of their pod and leave
\* that of the node alone (utils_linux.go:219-224, devices_linux.go:163).
THEOREM Confinement == Spec => []InNetns
<1>1. IInv => InNetns
  BY DEF IInv
<1> QED
  BY <1>1, Invariance, PTL

\* Containers that are run one after another are connected to their own
\* server, or to that of a helper that died (9pfs.go:47, boot.go:85).
THEOREM Separation == Spec => []OwnServer
<1>1. IInv => OwnServer
  BY DEF IInv
<1> QED
  BY <1>1, Invariance, PTL

\* A guest has all its volumes as its specification wants them, and a server
\* to reach them by (mount_linux.go:53, utils.go:352).
THEOREM Volumes == Spec => []VolumesReady
<1>1. IInv => VolumesReady
  <2> SUFFICES ASSUME IInv, NEW h \in Helpers, pc[h] = "running",
                      NEW i \in 1..Len(Conf[h].volumes), Conf[h].volumes[i] # "other"
               PROVE  /\ Conf[h].volumes[i] # "plain"
                      /\ mounts[h][i] = IF Conf[h].volumes[i] = "ro" THEN "readonly"
                                                                   ELSE "private"
                      /\ conn[h] # None
    BY DEF VolumesReady
  <2>1. /\ BindMount(Conf[h].volumes[i]) /\ ~Conf[h].disk
        /\ mounts[h][i] = Complete(Conf[h].volumes[i])
    BY DEF IInv, Mounted, MountedAt, UnderWay
  <2>2. Uses9p(h)
    BY <2>1 DEF Uses9p
  <2>3. conn[h] # None
    BY <2>2 DEF IInv, Mounted, MountedAt
  <2> QED
    BY <2>1, <2>3 DEF BindMount, Complete
<1> QED
  BY <1>1, Invariance, PTL
=============================================================================
