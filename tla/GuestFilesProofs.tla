-------------------------- MODULE GuestFilesProofs --------------------------
(***************************************************************************)
(* Proofs about GuestFiles, for any environment, any descriptors open at   *)
(* the beginning and any limit.  The order of the files rests on Packed:   *)
(* below a file that was announced no descriptor is free, so that whatever *)
(* is opened next comes after it.  What the helper closes again was opened *)
(* after the files announced so far (TempLast); only the connection to the *)
(* 9pfs server leaves a hole, and no file comes after that.                *)
(***************************************************************************)
EXTENDS GuestFiles, FiniteSetTheorems, TLAPS

\* Files may still be opened.
Opening == pc \notin {"exec", "nonblock", "ready", "dead"}

\* A file that was announced stays open.
Held ==
  \A i \in 1..Len(files) : files[i] # Nil /\ Opening => files[i] \in open

\* Below a file that was announced no descriptor is free.
Packed ==
  Opening => \A i \in 1..Len(files) : files[i] # Nil
               => \A n \in Fds : n < files[i] => n \in open

\* The handle that getVethHost closes was opened after the files announced.
TempLast ==
  /\ pc \in {"env", "veth"} => temp = None
  /\ pc \in {"vethns", "vethclose"}
       => \A i \in 1..Len(files) : files[i] # Nil /\ temp # None => files[i] < temp

\* The numbers are the places after the sort; a nil file does not get this far.
NumberInv ==
  /\ pc \in {"nonblock", "ready"} => number = [i \in 1..Len(files) |-> 3 + Before(i)]
  /\ pc = "ready" => \A i \in 1..Len(files) : files[i] # Nil

IInv == TypeOK /\ Held /\ Packed /\ TempLast /\ InOrder /\ NumberInv

-----------------------------------------------------------------------------

\* The lowest free descriptor comes after every file that was announced.
LEMMA GetsNext ==
  ASSUME TypeOK, Held, Packed, Opening,
         NEW fd \in Fds, Gets(fd), NEW i \in 1..Len(files), files[i] # Nil
  PROVE  files[i] < fd
<1>1. files[i] \in Fds
  BY DEF TypeOK
<1>2. ~(fd < files[i])
  BY DEF Packed, Gets
<1>3. fd # files[i]
  BY DEF Held, Gets
<1> QED
  BY <1>1, <1>2, <1>3, FilesAssumption DEF Fds

\* Announcing a file keeps the order.
LEMMA AnnounceKeeps ==
  ASSUME TypeOK, Held, Packed, InOrder, Opening, Announce
  PROVE  /\ files' \in Seq(Fds \cup {Nil}) /\ open' \subseteq Fds
         /\ open \subseteq open'
         /\ \A i \in 1..Len(files') : files'[i] # Nil =>
              /\ files'[i] \in open'
              /\ \A n \in Fds : n < files'[i] => n \in open'
         /\ InOrder'
<1>1. PICK fd \in Fds : Opens(fd) /\ files' = Append(files, fd)
  BY DEF Announce
<1>2. Gets(fd) /\ open' = open \cup {fd}
  BY <1>1 DEF Opens
<1>3. /\ files \in Seq(Fds \cup {Nil}) /\ Len(files') = Len(files) + 1
      /\ \A i \in 1..Len(files) : files'[i] = files[i]
      /\ files'[Len(files) + 1] = fd
      /\ files' \in Seq(Fds \cup {Nil})
  BY <1>1 DEF TypeOK
<1>4. fd # Nil
  BY FilesAssumption DEF Fds, Nil
<1>5. \A i \in 1..Len(files) : files[i] # Nil => files[i] < fd
  BY <1>2, GetsNext
<1>6. ASSUME NEW i \in 1..Len(files'), files'[i] # Nil
      PROVE  files'[i] \in open' /\ \A n \in Fds : n < files'[i] => n \in open'
  <2>1. CASE i \in 1..Len(files)
    BY <1>2, <1>3, <1>6, <2>1 DEF Held, Packed
  <2>2. CASE i = Len(files) + 1
    BY <1>2, <1>3, <2>2 DEF Gets
  <2> QED
    BY <1>3, <1>6, <2>1, <2>2
<1>7. InOrder'
  <2> SUFFICES ASSUME NEW i \in 1..Len(files'), NEW j \in 1..Len(files'),
                      i < j, files'[i] # Nil, files'[j] # Nil
               PROVE  files'[i] < files'[j]
    BY FilesAssumption DEF InOrder, Nil
  <2>1. i \in 1..Len(files)
    BY <1>3
  <2>2. CASE j \in 1..Len(files)
    BY <1>3, <2>1, <2>2 DEF InOrder
  <2>3. CASE j = Len(files) + 1
    BY <1>3, <1>5, <2>1, <2>3
  <2> QED
    BY <1>3, <2>2, <2>3
<1> QED
  BY <1>2, <1>3, <1>6, <1>7 DEF TypeOK

\* A file that nobody knows is announced as nil, which has no place.
LEMMA NilKeeps ==
  ASSUME TypeOK, Held, Packed, InOrder, Opening,
         files' = Append(files, Nil), open' = open
  PROVE  /\ files' \in Seq(Fds \cup {Nil})
         /\ \A i \in 1..Len(files') : files'[i] # Nil =>
              /\ files'[i] \in open'
              /\ \A n \in Fds : n < files'[i] => n \in open'
         /\ InOrder'
<1>1. /\ files \in Seq(Fds \cup {Nil}) /\ Len(files') = Len(files) + 1
      /\ \A i \in 1..Len(files) : files'[i] = files[i]
      /\ files'[Len(files) + 1] = Nil
      /\ files' \in Seq(Fds \cup {Nil})
  BY DEF TypeOK
<1>2. \A i \in 1..Len(files') : files'[i] # Nil => i \in 1..Len(files)
  BY <1>1
<1>3. Nil' = Nil
  BY DEF Nil
<1> QED
  BY <1>1, <1>2, <1>3 DEF Held, Packed, InOrder

\* In an ordered list without nil, as many files come before one as its place
\* says.
LEMMA BeforeIsPlace ==
  ASSUME TypeOK, InOrder, \A k \in 1..Len(files) : files[k] # Nil,
         NEW i \in 1..Len(files)
  PROVE  Before(i) = i - 1
<1> DEFINE S == 1..(i - 1)
           T == {files[j] : j \in {j \in 1..Len(files) : files[j] < files[i]}}
           f == [j \in S |-> files[j]]
<1>1. \A j \in 1..Len(files) : files[j] \in Nat
  BY FilesAssumption DEF TypeOK, Fds, Nil
<1>2. Len(files) \in Nat
  BY DEF TypeOK
<1>3. \A j \in 1..Len(files) : files[j] < files[i] <=> j < i
  BY <1>1, <1>2 DEF InOrder
<1>4. T = {files[j] : j \in S}
  BY <1>2, <1>3
<1>5. f \in Bijection(S, T)
  <2>1. f \in [S -> T]
    BY <1>4
  <2>2. \A j, k \in S : f[j] = f[k] => j = k
    BY <1>1, <1>2 DEF InOrder
  <2>3. \A t \in T : \E j \in S : f[j] = t
    BY <1>4
  <2> QED
    BY <2>1, <2>2, <2>3 DEF Bijection, Injection, Surjection, IsInjective
<1>6. IsFiniteSet(S) /\ Cardinality(S) = i - 1
  <2>1. i - 1 \in Int /\ i - 1 >= 0
    BY <1>2
  <2> QED
    BY <2>1, FS_Interval
<1>7. Cardinality(T) = Cardinality(S)
  <2> HIDE DEF S, T, f
  <2> QED
    BY <1>5, <1>6, FS_Bijection DEF ExistsBijection
<1> QED
  BY <1>6, <1>7 DEF Before

\* A count of files is a number: they are among the descriptors and nil.
LEMMA BeforeType ==
  ASSUME TypeOK, NEW i \in 1..Len(files)
  PROVE  Before(i) \in Nat
<1> DEFINE T == {files[j] : j \in {j \in 1..Len(files) : files[j] < files[i]}}
<1>1. T \subseteq 0..(MaxFd + 1)
  BY FilesAssumption DEF TypeOK, Fds, Nil
<1>2. IsFiniteSet(0..(MaxFd + 1))
  BY FS_Interval, FilesAssumption
<1>3. IsFiniteSet(T)
  <2> HIDE DEF T
  <2> QED
    BY <1>1, <1>2, FS_Subset
<1> QED
  BY <1>3, FS_CardinalityType DEF Before

-----------------------------------------------------------------------------

\* Steps that announce no file and hand nothing over.
Quiet == UNCHANGED <<inputs, at, files, number>>

LEMMA InitInv == Init => IInv
<1> SUFFICES ASSUME Init
             PROVE  IInv
  OBVIOUS
<1>1. TypeOK
  BY FilesAssumption DEF Init, TypeOK
<1> QED
  BY <1>1 DEF Init, IInv, Held, Packed, TempLast, InOrder, NumberInv

\* A step of the helper that opens nothing for the guest and closes nothing.
LEMMA KeepsOpen ==
  ASSUME IInv, Quiet, open \subseteq open', open' \subseteq Fds,
         TypeOK', pc' \notin {"env", "vethns", "vethclose", "nonblock", "ready"},
         pc' = "veth" => temp' = None,
         Opening' => Opening
  PROVE  IInv'
<1>1. Held' /\ Packed'
  BY DEF IInv, Quiet, Held, Packed, Opening, Nil, Fds
<1>2. InOrder'
  BY DEF IInv, Quiet, InOrder, Nil
<1> QED
  BY <1>1, <1>2 DEF IInv, TempLast, NumberInv

\* A step of the helper that opens a file for the guest.
LEMMA KeepsAnnounce ==
  ASSUME IInv, Opening, Announce, UNCHANGED <<inputs, at, temp, number>>,
         pc' \in {"json", "dial", "exec", "hangup"}
  PROVE  IInv'
<1>1. /\ files' \in Seq(Fds \cup {Nil}) /\ open' \subseteq Fds
      /\ open \subseteq open'
      /\ \A i \in 1..Len(files') : files'[i] # Nil =>
           /\ files'[i] \in open'
           /\ \A n \in Fds : n < files'[i] => n \in open'
      /\ InOrder'
  BY AnnounceKeeps DEF IInv
<1>2. TypeOK'
  BY <1>1 DEF IInv, TypeOK, inputs
<1>3. Held' /\ Packed'
  BY <1>1 DEF Held, Packed, Nil
<1> QED
  BY <1>1, <1>2, <1>3 DEF IInv, TempLast, NumberInv

LEMMA NextInv == IInv /\ [Next]_vars => IInv'
<1> SUFFICES ASSUME IInv, [Next]_vars
             PROVE  IInv'
  OBVIOUS
<1> USE DEF Goes
<1>1. CASE ParseEnv
  <2>1. CASE Announce /\ UNCHANGED <<pc, inputs, temp, number>> /\ at' = at + 1
    <3>1. at' \in 1..(Len(env') + 1) /\ pc = "env"
      BY <1>1, <2>1 DEF IInv, TypeOK, ParseEnv, inputs
    <3>2. /\ files' \in Seq(Fds \cup {Nil}) /\ open' \subseteq Fds
          /\ open \subseteq open'
          /\ \A i \in 1..Len(files') : files'[i] # Nil =>
               /\ files'[i] \in open'
               /\ \A n \in Fds : n < files'[i] => n \in open'
          /\ InOrder'
      BY <2>1, <3>1, AnnounceKeeps DEF IInv, Opening
    <3>3. TypeOK'
      BY <2>1, <3>1, <3>2 DEF IInv, TypeOK, inputs
    <3> QED
      BY <2>1, <3>1, <3>2, <3>3 DEF IInv, Held, Packed, TempLast, NumberInv, Nil
  <2>2. CASE files' = Append(files, Nil) /\ UNCHANGED open
             /\ UNCHANGED <<pc, inputs, temp, number>> /\ at' = at + 1
    <3>1. at' \in 1..(Len(env') + 1) /\ pc = "env"
      BY <1>1, <2>2 DEF IInv, TypeOK, ParseEnv, inputs
    <3>2. /\ files' \in Seq(Fds \cup {Nil})
          /\ \A i \in 1..Len(files') : files'[i] # Nil =>
               /\ files'[i] \in open'
               /\ \A n \in Fds : n < files'[i] => n \in open'
          /\ InOrder'
      BY <2>2, <3>1, NilKeeps DEF IInv, Opening
    <3>3. TypeOK'
      BY <2>2, <3>1, <3>2 DEF IInv, TypeOK, inputs
    <3> QED
      BY <2>2, <3>1, <3>2, <3>3 DEF IInv, Held, Packed, TempLast, NumberInv, Nil
  <2>3. CASE UNCHANGED <<open, files, pc, inputs, temp, number>> /\ at' = at + 1
    <3>1. at' \in 1..(Len(env') + 1) /\ pc = "env"
      BY <1>1, <2>3 DEF IInv, TypeOK, ParseEnv, inputs
    <3>2. TypeOK'
      BY <2>3, <3>1 DEF IInv, TypeOK, inputs
    <3> QED
      BY <2>3, <3>1, <3>2 DEF IInv, Held, Packed, TempLast, InOrder, NumberInv, Nil, Opening
  <2> QED
    BY <1>1, <2>1, <2>2, <2>3 DEF ParseEnv
<1>2. CASE LoopEnds
  <2>1. TypeOK'
    BY <1>2 DEF LoopEnds, IInv, TypeOK, inputs
  <2> QED
    BY <1>2, <2>1, KeepsOpen DEF LoopEnds, Quiet, IInv, TypeOK, TempLast, Opening
<1>3. CASE VethOrigin
  <2>1. PICK t \in Fds \cup {None} :
          /\ temp' = t
          /\ \/ t = temp /\ open' = open
             \/ t \in Fds /\ Gets(t) /\ open' = open \cup {t}
    BY <1>3 DEF VethOrigin, OpenTemp, Opens, IInv, TypeOK
  <2>2. TypeOK'
    BY <1>3, <2>1 DEF VethOrigin, IInv, TypeOK, inputs
  <2>3. Held' /\ Packed' /\ InOrder'
    BY <1>3, <2>1 DEF VethOrigin, IInv, Held, Packed, InOrder, Opening, Nil
  <2>4. TempLast'
    <3> SUFFICES ASSUME NEW i \in 1..Len(files), files[i] # Nil, t # None
                 PROVE  files[i] < t
      BY <1>3, <2>1 DEF VethOrigin, TempLast, Nil
    <3>1. temp = None
      BY <1>3 DEF VethOrigin, IInv, TempLast
    <3> QED
      BY <1>3, <2>1, <3>1, GetsNext DEF VethOrigin, IInv, Opening
  <2> QED
    BY <1>3, <2>2, <2>3, <2>4 DEF VethOrigin, IInv, NumberInv
<1>4. CASE VethEnter
  <2>1. open \subseteq open' /\ open' \subseteq Fds
    BY <1>4 DEF VethEnter, Opens, IInv, TypeOK
  <2>2. TypeOK'
    BY <1>4, <2>1 DEF VethEnter, IInv, TypeOK, inputs
  <2>3. Held' /\ Packed' /\ InOrder' /\ TempLast'
    BY <1>4, <2>1 DEF VethEnter, IInv, Held, Packed, InOrder, TempLast, Opening, Nil
  <2> QED
    BY <1>4, <2>2, <2>3 DEF VethEnter, IInv, NumberInv
<1>5. CASE VethClose
  <2>1. open' = open \ {temp} /\ temp' = None
    BY <1>5 DEF VethClose, CloseTemp
  <2>2. TypeOK'
    BY <1>5, <2>1 DEF VethClose, IInv, TypeOK, inputs
  <2>3. ASSUME NEW i \in 1..Len(files), files[i] # Nil
        PROVE  files[i] \in open' /\ \A n \in Fds : n < files[i] => n \in open'
    <3>1. files[i] \in Fds /\ files[i] \in open
      BY <1>5, <2>3 DEF VethClose, IInv, TypeOK, Held, Opening
    <3>2. \A n \in Fds : n < files[i] => n \in open
      BY <1>5, <2>3 DEF VethClose, IInv, Packed, Opening
    <3>3. temp # None => temp \in Fds /\ files[i] < temp
      BY <1>5, <2>3 DEF VethClose, IInv, TypeOK, TempLast
    <3>4. None \notin Fds /\ \A n \in Fds : n \in Nat
      BY FilesAssumption DEF Fds
    <3> QED
      BY <2>1, <3>1, <3>2, <3>3, <3>4
  <2>4. Held' /\ Packed' /\ InOrder' /\ TempLast'
    BY <1>5, <2>3 DEF VethClose, IInv, Held, Packed, InOrder, TempLast, Nil
  <2> QED
    BY <1>5, <2>2, <2>4 DEF VethClose, IInv, NumberInv
<1>6. CASE EnterNetns
  <2>1. open \subseteq open' /\ open' \subseteq Fds
    BY <1>6 DEF EnterNetns, Opens, IInv, TypeOK
  <2>2. TypeOK'
    BY <1>6, <2>1 DEF EnterNetns, IInv, TypeOK, inputs
  <2> QED
    BY <1>6, <2>1, <2>2, KeepsOpen DEF EnterNetns, Quiet, Opening
<1>7. CASE OpenEth0
  BY <1>7, KeepsAnnounce DEF OpenEth0, Opening
<1>8. CASE OpenJson
  <2>1. CASE HasJson
    BY <1>8, <2>1, KeepsAnnounce DEF OpenJson, Opening
  <2>2. CASE ~HasJson
    <3>1. TypeOK'
      BY <1>8, <2>2 DEF OpenJson, IInv, TypeOK, inputs
    <3> QED
      BY <1>8, <2>2, <3>1, KeepsOpen DEF OpenJson, Quiet, IInv, TypeOK, Opening
  <2> QED
    BY <2>1, <2>2
<1>9. CASE Dial
  <2>1. PICK t \in Fds : open' = open \cup {t} /\ temp' = t
    BY <1>9 DEF Dial, OpenTemp, Opens
  <2>2. TypeOK'
    BY <1>9, <2>1 DEF Dial, IInv, TypeOK, inputs
  <2> QED
    BY <1>9, <2>1, <2>2, KeepsOpen DEF Dial, Quiet, IInv, TypeOK, Opening
<1>10. CASE Duplicate
  BY <1>10, KeepsAnnounce DEF Duplicate, Opening
<1>11. CASE HangUp
  <2>1. TypeOK'
    BY <1>11 DEF HangUp, CloseTemp, IInv, TypeOK, inputs
  <2>2. InOrder'
    BY <1>11 DEF HangUp, IInv, InOrder, Nil
  <2> QED
    BY <1>11, <2>1, <2>2 DEF HangUp, IInv, Held, Packed, TempLast, NumberInv, Opening
<1>12. CASE Exec
  <2>1. number' = [i \in 1..Len(files) |-> 3 + Before(i)]
    BY <1>12 DEF Exec
  <2>2. number' \in Seq(Nat)
    <3>1. Len(files) \in Nat /\ \A i \in 1..Len(files) : 3 + Before(i) \in Nat
      BY BeforeType DEF IInv, TypeOK
    <3> HIDE DEF Before
    <3> QED
      BY <2>1, <3>1
  <2>3. TypeOK'
    BY <1>12, <2>2 DEF Exec, IInv, TypeOK, inputs
  <2>4. NumberInv'
    BY <1>12, <2>1 DEF Exec, NumberInv, Before
  <2>5. InOrder'
    BY <1>12 DEF Exec, IInv, InOrder, Nil
  <2> QED
    BY <1>12, <2>3, <2>4, <2>5 DEF Exec, IInv, Held, Packed, TempLast, Opening
<1>13. CASE SetNonblock
  <2>1. TypeOK'
    BY <1>13 DEF SetNonblock, IInv, TypeOK, inputs
  <2>2. NumberInv'
    BY <1>13 DEF SetNonblock, IInv, NumberInv, Before, Nil
  <2>3. InOrder'
    BY <1>13 DEF SetNonblock, IInv, InOrder, Nil
  <2> QED
    BY <1>13, <2>1, <2>2, <2>3 DEF SetNonblock, IInv, Held, Packed, TempLast, Opening
<1>14. CASE Panic
  <2>1. TypeOK'
    BY <1>14 DEF Panic, IInv, TypeOK, inputs
  <2> QED
    BY <1>14, <2>1, KeepsOpen DEF Panic, Quiet, IInv, TypeOK, Opening
<1>15. CASE UNCHANGED vars
  <2>1. TypeOK' /\ InOrder' /\ TempLast'
    BY <1>15 DEF vars, inputs, IInv, TypeOK, InOrder, TempLast, Nil
  <2>2. Held' /\ Packed'
    BY <1>15 DEF vars, inputs, IInv, Held, Packed, Opening, Nil
  <2>3. NumberInv'
    BY <1>15 DEF vars, inputs, IInv, NumberInv, Before, Nil
  <2> QED
    BY <2>1, <2>2, <2>3 DEF IInv
<1> QED
  BY <1>1, <1>2, <1>3, <1>4, <1>5, <1>6, <1>7, <1>8, <1>9, <1>10, <1>11, <1>12,
     <1>13, <1>14, <1>15 DEF Next

THEOREM Invariance == Spec => []IInv
  BY InitInv, NextInv, PTL DEF Spec

\* The variables keep their types, and what is to be closed is open.
THEOREM TypeCorrect == Spec => []TypeOK
<1>1. IInv => TypeOK
  BY DEF IInv
<1> QED
  BY <1>1, Invariance, PTL

\* Whatever the environment asks for and whatever was open before, the files
\* are announced in the order of their descriptors (utils.go:456).
THEOREM Ordered == Spec => []InOrder
<1>1. IInv => InOrder
  BY DEF IInv
<1> QED
  BY <1>1, Invariance, PTL

\* A guest that is left to run finds every file under the number that was
\* announced (utils.go:271, 456-464).
THEOREM Agreement == Spec => []NumbersAgree
<1>1. IInv => NumbersAgree
  <2> SUFFICES ASSUME IInv, pc = "ready", NEW i \in 1..Len(files)
               PROVE  number[i] = 2 + i
    BY DEF NumbersAgree
  <2>1. Before(i) = i - 1
    BY BeforeIsPlace DEF IInv, NumberInv
  <2>2. number[i] = 3 + Before(i) /\ i \in Nat
    BY DEF IInv, NumberInv, TypeOK
  <2> QED
    BY <2>1, <2>2
<1> QED
  BY <1>1, Invariance, PTL
=============================================================================
