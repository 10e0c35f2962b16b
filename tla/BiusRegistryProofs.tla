-------------------------- MODULE BiusRegistryProofs --------------------------
(***************************************************************************)
(* Proofs about BiusRegistry, for any servers, names and threads, as long  *)
(* as no server starts while another of its name still runs (~Overlap): a  *)
(* connection uses and removes the device its own process created, and no  *)
(* device goes while a connection uses it.                                 *)
(***************************************************************************)
EXTENDS BiusRegistry, FiniteSetTheorems, SequenceTheorems, TLAPS

-----------------------------------------------------------------------------
(* The inductive invariant                                                 *)

\* The connections num_connection counts.
Users(d) == {c \in Conn : block_dev[c] = d /\ pc[c] \in {"up", "stop"}}

\* How far a connection may be in each phase of its process.
PhaseOK(c) ==
  /\ proc[ServerOf(c)] = "off" => pc[c] = "off"
  /\ proc[ServerOf(c)] = "run" => pc[c] \in {"off", "create", "connect", "count", "up"}
  /\ pc[c] = "create" => Creating(c)
  /\ proc[ServerOf(c)] # "exit" /\ pc[c] = "off" => block_dev[c] = NoDev
  /\ pc[c] \in {"create", "connect", "count"} => block_dev[c] = NoDev

\* The device of a connection: made by its own process, and on the list
\* until the connection itself has unlinked it.
DeviceOK(c) ==
  /\ block_dev[c] # NoDev => block_dev[c] <= created /\ maker[block_dev[c]] = ServerOf(c)
  /\ pc[c] = "count" => Listed(device[c]) /\ maker[device[c]] = ServerOf(c)
  /\ pc[c] \in {"up", "stop"} /\ block_dev[c] # NoDev => Listed(block_dev[c])
  /\ pc[c] \in {"remove", "unlink"} => block_dev[c] # NoDev /\ Listed(block_dev[c])
  /\ pc[c] \in {"unlink", "put", "unregister"} => device[c] = block_dev[c]
  /\ pc[c] \in {"put", "unregister"} => block_dev[c] # NoDev /\ ~Listed(block_dev[c])
  /\ pc[c] = "put" => disk[block_dev[c]] = "alive"

\* Two connections of one process: the device is created before another
\* connects, and removed when no other uses it any more.
PairOK(c, e) ==
  /\ pc[c] = "create" => pc[e] = "off"
  /\ pc[c] \in {"remove", "unlink", "put", "unregister"} =>
       pc[e] = "off" \/ (pc[e] = "stop" /\ block_dev[e] = NoDev)

\* A connection because of which the device is still on the list.
Keeps(c, d) ==
  /\ ServerOf(c) = maker[d]
  /\ (pc[c] = "count" /\ device[c] = d)
       \/ (block_dev[c] = d /\ pc[c] \in {"up", "stop", "remove", "unlink"})

ListOK ==
  /\ \A i, j \in 1 .. Len(disks) : disks[i] = disks[j] => i = j
  /\ \A d \in Device : Listed(d) =>
       d <= created /\ disk[d] = "alive" /\ d \in majors /\ \E c \in Conn : Keeps(c, d)
  /\ \A d, e \in Device : Listed(d) /\ Listed(e) /\ maker[d] = maker[e] => d = e

NamesOK ==
  \A s, t \in Server : s # t /\ NameOf[s] = NameOf[t] => proc[s] = "off" \/ proc[t] = "off"

CountOK == \A d \in Device : num_connection[d] = Cardinality(Users(d))

Conns ==
  /\ \A c \in Conn : PhaseOK(c) /\ DeviceOK(c)
  /\ \A c, e \in Conn : c # e /\ ServerOf(c) = ServerOf(e) => PairOK(c, e)

\* TypeOK without the bound of the counts, which CountOK gives.
Types ==
  /\ disks \in Seq(Device) /\ created \in 0 .. MaxDev /\ stray \in {"no", "unassigned"}
  /\ num_connection \in [Device -> Nat]
  /\ disk \in [Device -> {"none", "alive", "put"}] /\ majors \subseteq Device
  /\ maker \in [Device -> Server]
  /\ proc \in [Server -> {"off", "run", "exit"}]
  /\ pc \in [Conn -> {"off", "create", "connect", "count", "up", "stop",
                      "remove", "unlink", "put", "unregister"}]
  /\ block_dev \in [Conn -> Device \cup {NoDev}]
  /\ device \in [Conn -> Device \cup {NoDev}]

Inv == Types /\ Conns /\ ListOK /\ NamesOK /\ CountOK

-----------------------------------------------------------------------------
(* The constants and the operators                                         *)

LEMMA Conns1 ==
  /\ \A c \in Conn : ServerOf(c) \in Server
  /\ \A c, e \in Conn : Creating(c) /\ Creating(e) /\ ServerOf(c) = ServerOf(e) => c = e
  /\ \A s \in Server : <<s, 1>> \in Conn /\ ServerOf(<<s, 1>>) = s /\ Creating(<<s, 1>>)
  /\ \A s \in Server, k \in 1 .. Threads : <<s, k>> \in Conn /\ ServerOf(<<s, k>>) = s
  /\ \A c \in Conn : \E k \in 1 .. Threads : c = <<ServerOf(c), k>>
BY ConstantsOK DEF Conn, ServerOf, Creating

LEMMA Devices == NoDev \notin Device /\ Device \subseteq Nat
BY ConstantsOK DEF NoDev, Device

LEMMA ConnFinite == IsFiniteSet(Conn)
<1>1. IsFiniteSet(1 .. Threads)
  BY ConstantsOK, FS_Interval
<1> QED  BY <1>1, ConstantsOK, FS_Product DEF Conn

LEMMA UsersFinite ==
  ASSUME NEW d
  PROVE  IsFiniteSet(Users(d)) /\ Cardinality(Users(d)) \in 0 .. Cardinality(Conn)
<1>1. Users(d) \subseteq Conn
  BY DEF Users
<1>2. IsFiniteSet(Users(d)) /\ Cardinality(Users(d)) <= Cardinality(Conn)
  BY <1>1, ConnFinite, FS_Subset
<1> QED  BY <1>2, ConnFinite, FS_CardinalityType

LEMMA ListedDevice ==
  ASSUME Types, NEW d, Listed(d)
  PROVE  d \in Device
BY DEF Types, Listed

LEMMA InvInit == Init => Inv
<1> SUFFICES ASSUME Init PROVE Inv
  OBVIOUS
<1> USE DEF Init
<1>1. Types
  <2>1. (CHOOSE s \in Server : TRUE) \in Server
    BY ConstantsOK
  <2> QED  BY <2>1, ConstantsOK DEF Types
<1>2. \A d : ~Listed(d)
  BY DEF Listed
<1>3. Conns
  BY Devices, Conns1, ConstantsOK DEF Conns, PhaseOK, DeviceOK, PairOK
<1>4. ListOK /\ NamesOK
  BY <1>2 DEF ListOK, NamesOK
<1>5. CountOK
  <2>1. \A d \in Device : Users(d) = {}
    BY DEF Users
  <2> QED  BY <2>1, FS_EmptySet DEF CountOK
<1> QED  BY <1>1, <1>3, <1>4, <1>5 DEF Inv

\* Of the devices on the list none but its own has the name of a server that
\* is not off, so the lookup by name finds that one.
LEMMA OwnName ==
  ASSUME Inv, NEW s \in Server, proc[s] # "off", NEW d \in Device, Listed(d),
         NameOf[maker[d]] = NameOf[s]
  PROVE  maker[d] = s
<1>1. PICK c \in Conn : Keeps(c, d)
  BY DEF Inv, ListOK
<1>2. proc[maker[d]] # "off" /\ maker[d] \in Server
  BY <1>1 DEF Inv, Types, Conns, PhaseOK, Keeps
<1> QED  BY <1>2 DEF Inv, NamesOK

LEMMA LookupFinds ==
  ASSUME Inv, NEW s \in Server, proc[s] # "off", NEW d, d = get_block_device(NameOf[s])
  PROVE  /\ d # NoDev => d \in Device /\ Listed(d) /\ maker[d] = s
         /\ (\E e \in Device : Listed(e) /\ maker[e] = s) => d # NoDev
<1> DEFINE hits == {i \in 1 .. Len(disks) : NameOf[maker[disks[i]]] = NameOf[s]}
<1>1. \A i \in hits : disks[i] \in Device /\ Listed(disks[i]) /\ maker[disks[i]] = s /\ i \in Nat
  <2> SUFFICES ASSUME NEW i \in hits PROVE disks[i] \in Device /\ Listed(disks[i]) /\ maker[disks[i]] = s /\ i \in Nat
    OBVIOUS
  <2>1. disks[i] \in Device /\ Listed(disks[i]) /\ i \in Nat
    BY DEF Inv, Types, Listed
  <2> QED  BY <2>1, OwnName
<1>2. \A i, j \in hits : i = j
  BY <1>1 DEF Inv, ListOK
<1>3. d = IF hits = {} THEN NoDev ELSE disks[CHOOSE i \in hits : \A j \in hits : j <= i]
  BY DEF get_block_device
<1>4. ASSUME NEW e \in Device, Listed(e), maker[e] = s PROVE hits # {}
  BY <1>4 DEF Listed
<1> HIDE DEF hits
<1>5. CASE hits = {}
  BY <1>3, <1>4, <1>5
<1>6. CASE hits # {}
  <2>1. \E i \in hits : \A j \in hits : j <= i
    BY <1>1, <1>2, <1>6
  <2>2. PICK i \in hits : d = disks[i]
    BY <1>3, <1>6, <2>1
  <2> QED  BY <1>1, <2>2, Devices
<1> QED  BY <1>5, <1>6

\* No disk on the list was put, and no lookup reads one that was.
LEMMA NamesRead ==
  ASSUME Inv
  PROVE  ReadsNames = stray
BY DEF ReadsNames, Inv, ListOK

-----------------------------------------------------------------------------
(* What a step of one connection leaves as it was                          *)

LEMMA CountKept ==
  ASSUME Inv, UNCHANGED num_connection,
         \A c \in Conn, d \in Device :
           (block_dev'[c] = d /\ pc'[c] \in {"up", "stop"}) <=> (block_dev[c] = d /\ pc[c] \in {"up", "stop"})
  PROVE  CountOK'
<1>1. \A d \in Device : Users(d)' = Users(d)
  BY DEF Users
<1> QED  BY <1>1 DEF Inv, CountOK

LEMMA ListKept ==
  ASSUME Inv, UNCHANGED <<disks, created, disk, majors, maker>>,
         \A c \in Conn, d \in Device : Listed(d) /\ Keeps(c, d) => Keeps(c, d)'
  PROVE  ListOK'
<1>1. \A d : Listed(d)' <=> Listed(d)
  BY DEF Listed
<1>2. ASSUME NEW d \in Device, Listed(d)
      PROVE  d <= created' /\ disk'[d] = "alive" /\ d \in majors' /\ \E c \in Conn : Keeps(c, d)'
  BY <1>2 DEF Inv, ListOK
<1> QED  BY <1>1, <1>2 DEF Inv, ListOK

\* Only connection c moves, and what it may not do to the others of its
\* process is what the pairs say.
LEMMA ConnsKept ==
  ASSUME Inv, NEW c \in Conn, UNCHANGED <<disks, created, disk, maker>>,
         \A e \in Conn \ {c} : pc'[e] = pc[e] /\ block_dev'[e] = block_dev[e] /\ device'[e] = device[e],
         \A e \in Conn : PhaseOK(e)', DeviceOK(c)',
         \A e \in Conn \ {c} : ServerOf(e) = ServerOf(c) => PairOK(c, e)' /\ PairOK(e, c)'
  PROVE  Conns'
<1>1. \A d : Listed(d)' <=> Listed(d)
  BY DEF Listed
<1>2. ASSUME NEW e \in Conn \ {c} PROVE DeviceOK(e)'
  BY <1>1 DEF Inv, Conns, DeviceOK, Listed
<1>3. ASSUME NEW e \in Conn, NEW f \in Conn, e # f, ServerOf(e) = ServerOf(f)
      PROVE  PairOK(e, f)'
  <2>1. CASE e # c /\ f # c
    BY <1>3, <2>1 DEF Inv, Conns, PairOK
  <2> QED  BY <1>3, <2>1
<1> QED  BY <1>2, <1>3 DEF Conns

\* A connection that is neither off nor stopped: the others of its process
\* do not create and do not remove.
LEMMA NoneBesides ==
  ASSUME Inv, NEW c \in Conn, NEW e \in Conn, c # e, ServerOf(e) = ServerOf(c),
         pc[c] \notin {"off", "stop"}
  PROVE  pc[e] \notin {"create", "remove", "unlink", "put", "unregister"}
BY DEF Inv, Conns, PairOK

LEMMA NamesKept ==
  ASSUME Inv, \A s \in Server : proc[s] = "off" => proc'[s] = "off"
  PROVE  NamesOK'
BY DEF Inv, NamesOK

-----------------------------------------------------------------------------
(* The actions                                                             *)

LEMMA StartInv ==
  ASSUME Inv, ~Overlap, NEW s \in Server, Start(s)
  PROVE  Inv'
<1> DEFINE c == <<s, 1>>
<1>1. /\ proc[s] = "off" /\ proc' = [proc EXCEPT ![s] = "run"] /\ pc' = [pc EXCEPT ![c] = "create"]
      /\ \A t \in Server \ {s} : NameOf[t] = NameOf[s] => proc[t] = "off"
      /\ UNCHANGED <<disks, num_connection, disk, majors, maker, created, block_dev, device, stray>>
  BY DEF Start, Goto
<1>2. c \in Conn /\ ServerOf(c) = s /\ Creating(c)
  BY Conns1
<1> HIDE DEF c
<1>3. Types'
  BY <1>1, <1>2 DEF Inv, Types
<1>4. /\ pc'[c] = "create" /\ \A e \in Conn \ {c} : pc'[e] = pc[e]
      /\ proc'[s] = "run" /\ \A t \in Server \ {s} : proc'[t] = proc[t]
  BY <1>1, <1>2 DEF Inv, Types
<1>5. \A e \in Conn : ServerOf(e) = s => pc[e] = "off" /\ block_dev[e] = NoDev
  BY <1>1 DEF Inv, Conns, PhaseOK
<1>6. Conns'
  <2>1. ASSUME NEW e \in Conn PROVE PhaseOK(e)'
    <3>1. CASE e = c
      BY <1>1, <1>2, <1>4, <1>5, <3>1 DEF PhaseOK
    <3>2. CASE e # c /\ ServerOf(e) = s
      BY <1>1, <1>2, <1>4, <1>5, <3>2 DEF PhaseOK
    <3>3. CASE e # c /\ ServerOf(e) # s
      BY <1>1, <1>4, <3>3, Conns1 DEF Inv, Conns, PhaseOK
    <3> QED  BY <3>1, <3>2, <3>3
  <2>2. DeviceOK(c)'
    BY <1>1, <1>2, <1>4, <1>5 DEF DeviceOK
  <2>3. \A e \in Conn \ {c} : ServerOf(e) = ServerOf(c) => PairOK(c, e)' /\ PairOK(e, c)'
    BY <1>2, <1>4, <1>5 DEF PairOK
  <2> QED  BY <1>1, <1>2, <1>4, <2>1, <2>2, <2>3, ConnsKept
<1>7. ListOK'
  <2>1. ASSUME NEW e \in Conn, NEW d \in Device, Keeps(e, d) PROVE Keeps(e, d)'
    BY <1>1, <1>2, <1>4, <1>5, <2>1 DEF Keeps
  <2> QED  BY <1>1, <2>1, ListKept
<1>8. CountOK'
  BY <1>1, <1>2, <1>4, <1>5, CountKept, Devices
<1>9. NamesOK'
  <2> SUFFICES ASSUME NEW t \in Server, NEW u \in Server, t # u, NameOf[t] = NameOf[u]
               PROVE  proc'[t] = "off" \/ proc'[u] = "off"
    BY DEF NamesOK
  <2> QED  BY <1>1, <1>4 DEF Inv, NamesOK
<1> QED  BY <1>3, <1>6, <1>7, <1>8, <1>9 DEF Inv

LEMMA ExitInv ==
  ASSUME Inv, NEW s \in Server, Exit(s)
  PROVE  Inv'
<1>1. /\ proc[s] = "run" /\ proc' = [proc EXCEPT ![s] = "exit"]
      /\ UNCHANGED <<disks, num_connection, disk, majors, maker, created, pc, block_dev, device, stray>>
  BY DEF Exit
<1>2. Types'
  BY <1>1 DEF Inv, Types
<1>3. proc'[s] = "exit" /\ \A t \in Server \ {s} : proc'[t] = proc[t]
  BY <1>1 DEF Inv, Types
<1>4. Conns'
  <2>1. ASSUME NEW e \in Conn PROVE PhaseOK(e)'
    BY <1>1, <1>3, Conns1 DEF Inv, Conns, PhaseOK
  <2>2. ASSUME NEW e \in Conn PROVE DeviceOK(e)'
    BY <1>1 DEF Inv, Conns, DeviceOK, Listed
  <2> QED  BY <1>1, <2>1, <2>2 DEF Inv, Conns, PairOK
<1>5. ListOK'
  BY <1>1, ListKept DEF Keeps
<1>6. CountOK'
  BY <1>1, CountKept
<1>7. NamesOK'
  BY <1>1, <1>3, NamesKept
<1> QED  BY <1>2, <1>4, <1>5, <1>6, <1>7 DEF Inv

LEMMA GoneInv ==
  ASSUME Inv, NEW s \in Server, Gone(s)
  PROVE  Inv'
<1>1. /\ proc[s] = "exit" /\ proc' = [proc EXCEPT ![s] = "off"]
      /\ \A k \in 1 .. Threads : pc[<<s, k>>] = "off"
      /\ block_dev' = [c \in Conn |-> IF ServerOf(c) = s THEN NoDev ELSE block_dev[c]]
      /\ device' = [c \in Conn |-> IF ServerOf(c) = s THEN NoDev ELSE device[c]]
      /\ UNCHANGED <<disks, num_connection, disk, majors, maker, created, pc, stray>>
  BY DEF Gone
<1>2. \A c \in Conn : ServerOf(c) = s => pc[c] = "off"
  BY <1>1, Conns1
<1>3. Types'
  BY <1>1 DEF Inv, Types
<1>4. /\ proc'[s] = "off" /\ \A t \in Server \ {s} : proc'[t] = proc[t]
      /\ \A c \in Conn : block_dev'[c] = (IF ServerOf(c) = s THEN NoDev ELSE block_dev[c])
      /\ \A c \in Conn : device'[c] = (IF ServerOf(c) = s THEN NoDev ELSE device[c])
  BY <1>1 DEF Inv, Types
<1>5. Conns'
  <2>1. ASSUME NEW e \in Conn PROVE PhaseOK(e)' /\ DeviceOK(e)'
    <3>1. CASE ServerOf(e) = s
      BY <1>1, <1>2, <1>4, <3>1 DEF PhaseOK, DeviceOK
    <3>2. CASE ServerOf(e) # s
      BY <1>1, <1>4, <3>2, Conns1 DEF Inv, Conns, PhaseOK, DeviceOK, Listed
    <3> QED  BY <3>1, <3>2
  <2>2. ASSUME NEW e \in Conn, NEW f \in Conn, e # f, ServerOf(e) = ServerOf(f) PROVE PairOK(e, f)'
    BY <1>1, <1>2, <1>4, <2>2 DEF Inv, Conns, PairOK
  <2> QED  BY <2>1, <2>2 DEF Conns
<1>6. ListOK'
  <2>1. ASSUME NEW e \in Conn, NEW d \in Device, Keeps(e, d) PROVE Keeps(e, d)'
    BY <1>1, <1>2, <1>4, <2>1 DEF Keeps
  <2> QED  BY <1>1, <2>1, ListKept
<1>7. CountOK'
  BY <1>1, <1>2, <1>4, CountKept
<1>8. NamesOK'
  BY <1>1, <1>4 DEF Inv, NamesOK
<1> QED  BY <1>3, <1>5, <1>6, <1>7, <1>8 DEF Inv

LEMMA ThreadInv ==
  ASSUME Inv, NEW c \in Conn, thread_main(c)
  PROVE  Inv'
<1> DEFINE f == <<ServerOf(c), 1>>
<1>1. /\ pc[c] = "off" /\ proc[ServerOf(c)] = "run" /\ pc[f] = "up" /\ pc' = [pc EXCEPT ![c] = "connect"]
      /\ ~Creating(c)
      /\ UNCHANGED <<disks, num_connection, disk, majors, maker, created, proc, block_dev, device, stray>>
  BY DEF thread_main, At, Goto
<1>2. Types'
  BY <1>1 DEF Inv, Types
<1>3. pc'[c] = "connect" /\ \A e \in Conn \ {c} : pc'[e] = pc[e]
  BY <1>1 DEF Inv, Types
<1>4. block_dev[c] = NoDev
  BY <1>1 DEF Inv, Conns, PhaseOK
<1>5. \A e \in Conn : ServerOf(e) = ServerOf(c) => pc[e] \in {"off", "connect", "count", "up"}
  <2>1. f \in Conn /\ ServerOf(f) = ServerOf(c) /\ Creating(f)
    BY Conns1
  <2>2. ASSUME NEW e \in Conn, ServerOf(e) = ServerOf(c), pc[e] = "create" PROVE FALSE
    BY <1>1, <2>1, <2>2, Conns1 DEF Inv, Conns, PhaseOK
  <2> QED  BY <1>1, <2>2 DEF Inv, Conns, PhaseOK
<1>6. Conns'
  <2>1. ASSUME NEW e \in Conn PROVE PhaseOK(e)'
    BY <1>1, <1>3, <1>4 DEF Inv, Conns, PhaseOK
  <2>2. DeviceOK(c)'
    BY <1>1, <1>3, <1>4 DEF DeviceOK
  <2>3. \A e \in Conn \ {c} : ServerOf(e) = ServerOf(c) => PairOK(c, e)' /\ PairOK(e, c)'
    BY <1>3, <1>5 DEF PairOK
  <2> QED  BY <1>1, <1>3, <2>1, <2>2, <2>3, ConnsKept
<1>7. ListOK'
  <2>1. ASSUME NEW e \in Conn, NEW d \in Device, Keeps(e, d) PROVE Keeps(e, d)'
    BY <1>1, <1>3, <2>1 DEF Keeps
  <2> QED  BY <1>1, <2>1, ListKept
<1>8. CountOK'
  BY <1>1, <1>3, CountKept
<1>9. NamesOK'
  BY <1>1, NamesKept
<1> QED  BY <1>2, <1>6, <1>7, <1>8, <1>9 DEF Inv

\* A thread that ends, whose first connection fails to create a device, or
\* whose lookup finds none.
LEMMA StopInv ==
  ASSUME Inv, NEW c \in Conn, pc[c] \in {"create", "connect", "up"}, NEW l \in {"stop", "up"},
         pc' = [pc EXCEPT ![c] = l], l = "stop" => proc'[ServerOf(c)] = "exit",
         UNCHANGED proc \/ proc' = [proc EXCEPT ![ServerOf(c)] = "exit"],
         stray' \in {"no", "unassigned"},
         UNCHANGED <<disks, num_connection, disk, majors, maker, created, block_dev, device>>
  PROVE  Inv'
<1>s. ServerOf(c) \in Server /\ proc[ServerOf(c)] # "off"
  BY Conns1 DEF Inv, Conns, PhaseOK
<1>1. Types'
  BY <1>s DEF Inv, Types
<1>2. /\ pc'[c] = l /\ \A e \in Conn \ {c} : pc'[e] = pc[e]
      /\ \A s \in Server : proc'[s] = proc[s] \/ (s = ServerOf(c) /\ proc'[s] = "exit")
  BY <1>s DEF Inv, Types
<1>3. Conns'
  <2>1. ASSUME NEW e \in Conn PROVE PhaseOK(e)'
    <3>1. ServerOf(e) \in Server /\ PhaseOK(e)
      BY Conns1 DEF Inv, Conns
    <3>2. CASE e = c
      BY <1>2, <1>s, <3>1, <3>2 DEF PhaseOK
    <3>3. CASE e # c
      BY <1>2, <1>s, <3>1, <3>3 DEF PhaseOK
    <3> QED  BY <3>2, <3>3
  <2>2. DeviceOK(c)'
    <3>1. pc[c] # "up" => block_dev[c] = NoDev
      BY DEF Inv, Conns, PhaseOK
    <3> QED  BY <1>2, <3>1 DEF Inv, Conns, DeviceOK, Listed
  <2>3. ASSUME NEW e \in Conn \ {c}, ServerOf(e) = ServerOf(c) PROVE PairOK(c, e)' /\ PairOK(e, c)'
    <3>1. pc[e] \notin {"create", "remove", "unlink", "put", "unregister"}
      BY <2>3, NoneBesides
    <3> QED  BY <1>2, <3>1 DEF PairOK
  <2> QED  BY <1>2, <2>1, <2>2, <2>3, ConnsKept
<1>4. ListOK'
  <2>1. ASSUME NEW e \in Conn, NEW d \in Device, Keeps(e, d) PROVE Keeps(e, d)'
    BY <1>2, <2>1 DEF Keeps
  <2> QED  BY <2>1, ListKept
<1>5. CountOK'
  <2>1. pc[c] # "up" => block_dev[c] = NoDev
    BY DEF Inv, Conns, PhaseOK
  <2> QED  BY <1>2, <2>1, Devices, CountKept
<1>6. NamesOK'
  BY <1>2, <1>s, NamesKept
<1> QED  BY <1>1, <1>3, <1>4, <1>5, <1>6 DEF Inv

LEMMA DieInv ==
  ASSUME Inv, NEW c \in Conn, Die(c) \/ CreateFailed(c)
  PROVE  Inv'
BY StopInv DEF Die, CreateFailed, At, Goto, Inv, Types

LEMMA LookupInv ==
  ASSUME Inv, NEW c \in Conn, Lookup(c)
  PROVE  Inv'
<1> DEFINE s == ServerOf(c)
           d == get_block_device(NameOf[s])
<1>1. /\ pc[c] = "connect" /\ s \in Server /\ proc[s] # "off" /\ stray = "no"
      /\ UNCHANGED <<disks, num_connection, disk, majors, maker, created, block_dev, stray>>
      /\ block_dev[c] = NoDev
  BY Conns1, NamesRead DEF Lookup, At, Inv, Conns, PhaseOK
<1>2. CASE d = NoDev
  <2>1. proc' = [proc EXCEPT ![s] = "exit"] /\ pc' = [pc EXCEPT ![c] = "stop"] /\ UNCHANGED device
    BY <1>2 DEF Lookup, Goto
  <2>2. proc'[s] = "exit"
    BY <1>1, <2>1 DEF Inv, Types
  <2> QED  BY <1>1, <2>1, <2>2, StopInv
<1>3. CASE d # NoDev
  <2>1. device' = [device EXCEPT ![c] = d] /\ pc' = [pc EXCEPT ![c] = "count"] /\ UNCHANGED proc
    BY <1>3 DEF Lookup, Goto
  <2>2. d \in Device /\ Listed(d) /\ maker[d] = s
    BY <1>1, <1>3, LookupFinds
  <2> HIDE DEF d
  <2>3. Types'
    BY <1>1, <2>1, <2>2 DEF Inv, Types
  <2>4. /\ pc'[c] = "count" /\ \A e \in Conn \ {c} : pc'[e] = pc[e]
        /\ device'[c] = d /\ \A e \in Conn \ {c} : device'[e] = device[e]
    BY <2>1 DEF Inv, Types
  <2>5. Conns'
    <3>1. ASSUME NEW e \in Conn PROVE PhaseOK(e)'
      BY <1>1, <2>1, <2>4 DEF Inv, Conns, PhaseOK
    <3>2. DeviceOK(c)'
      BY <1>1, <2>2, <2>4 DEF DeviceOK, Listed
    <3>3. ASSUME NEW e \in Conn \ {c}, ServerOf(e) = s PROVE PairOK(c, e)' /\ PairOK(e, c)'
      <4>1. pc[e] \notin {"create", "remove", "unlink", "put", "unregister"}
        BY <1>1, <3>3, NoneBesides
      <4> QED  BY <2>4, <4>1 DEF PairOK
    <3> QED  BY <1>1, <2>4, <3>1, <3>2, <3>3, ConnsKept
  <2>6. ListOK'
    <3>1. ASSUME NEW e \in Conn, NEW g \in Device, Keeps(e, g) PROVE Keeps(e, g)'
      BY <1>1, <2>4, <3>1 DEF Keeps
    <3> QED  BY <1>1, <3>1, ListKept
  <2>7. CountOK'
    BY <1>1, <2>4, CountKept, Devices
  <2>8. NamesOK'
    BY <2>1, NamesKept
  <2> QED  BY <2>3, <2>5, <2>6, <2>7, <2>8 DEF Inv
<1> QED  BY <1>2, <1>3

LEMMA CreateInv ==
  ASSUME Inv, NEW c \in Conn, create_block_device(c)
  PROVE  Inv'
<1> DEFINE d == created + 1
           s == ServerOf(c)
<1>1. /\ pc[c] = "create" /\ created < MaxDev /\ created' = d /\ disk' = [disk EXCEPT ![d] = "alive"]
      /\ maker' = [maker EXCEPT ![d] = s] /\ disks' = Append(disks, d) /\ majors' = majors \cup {d}
      /\ device' = [device EXCEPT ![c] = d] /\ pc' = [pc EXCEPT ![c] = "count"]
      /\ UNCHANGED <<num_connection, proc, block_dev, stray>>
  BY DEF create_block_device, At, Goto
<1>2. /\ d \in Device /\ d \in Nat /\ created \in Nat /\ s \in Server /\ block_dev[c] = NoDev
  BY <1>1, ConstantsOK, Conns1 DEF Inv, Types, Device, Conns, PhaseOK
<1>3. Types'
  BY <1>1, <1>2 DEF Inv, Types, Device
<1>4. /\ \A e \in Device \ {d} : maker'[e] = maker[e] /\ disk'[e] = disk[e]
      /\ maker'[d] = s /\ disk'[d] = "alive"
      /\ pc'[c] = "count" /\ \A e \in Conn \ {c} : pc'[e] = pc[e]
      /\ device'[c] = d /\ \A e \in Conn \ {c} : device'[e] = device[e]
  BY <1>1, <1>2 DEF Inv, Types
<1>5. /\ \A e \in Device : Listed(e) => e <= created /\ e # d
      /\ \A e : e # NoDev /\ (\E f \in Conn : block_dev[f] = e) => e <= created /\ e \in Device /\ e # d
  <2>1. \A e \in Device : e <= created => e # d
    BY <1>2, Devices
  <2> QED  BY <2>1 DEF Inv, ListOK, Conns, DeviceOK, Types
<1>6. /\ disks \in Seq(Device) /\ Len(disks) \in Nat /\ Len(disks') = Len(disks) + 1
      /\ \A i \in 1 .. Len(disks) : disks'[i] = disks[i]
      /\ disks'[Len(disks) + 1] = d
  BY <1>1, <1>2 DEF Inv, Types
<1>7. \A e : Listed(e)' <=> Listed(e) \/ e = d
  BY <1>6 DEF Listed
<1> HIDE DEF d
<1>8. ASSUME NEW e \in Conn, ServerOf(e) = s, e # c PROVE pc[e] = "off"
  BY <1>1, <1>8 DEF Inv, Conns, PairOK
<1>9. Conns'
  <2>1. ASSUME NEW e \in Conn PROVE PhaseOK(e)'
    BY <1>1, <1>2, <1>4 DEF Inv, Conns, PhaseOK
  <2>2. ASSUME NEW e \in Conn PROVE DeviceOK(e)'
    <3>1. block_dev[e] # NoDev => block_dev[e] <= created' /\ maker'[block_dev[e]] = ServerOf(e)
      <4>1. created \in Nat /\ created' = created + 1
        BY <1>1, <1>2 DEF d
      <4>2. block_dev[e] # NoDev => block_dev[e] \in Device /\ block_dev[e] # d /\ block_dev[e] <= created /\ block_dev[e] \in Nat
        BY <1>5, Devices
      <4> QED  BY <1>4, <4>1, <4>2 DEF Inv, Conns, DeviceOK
    <3>2. CASE e = c
      <4>1. Listed(device[c])' /\ maker'[device'[c]] = s
        BY <1>4, <1>7 DEF Listed
      <4> QED  BY <1>1, <1>2, <1>4, <3>1, <3>2, <4>1 DEF DeviceOK
    <3>3. CASE e # c
      <4>1. pc'[e] = pc[e] /\ device'[e] = device[e] /\ block_dev'[e] = block_dev[e]
        BY <1>1, <1>4, <3>3
      <4>2. Listed(device[e])' <=> Listed(device[e]) \/ device[e] = d
        BY <1>7, <4>1 DEF Listed
      <4>3. Listed(block_dev[e])' <=> Listed(block_dev[e]) \/ block_dev[e] = d
        BY <1>7, <4>1 DEF Listed
      <4>4. pc[e] = "count" => Listed(device[e])' /\ maker'[device[e]] = ServerOf(e)
        <5>1. pc[e] = "count" => Listed(device[e]) /\ maker[device[e]] = ServerOf(e) /\ device[e] \in Device
          BY ListedDevice DEF Inv, Conns, DeviceOK
        <5> QED  BY <1>4, <1>5, <4>2, <5>1
      <4>5. pc[e] \in {"unlink", "put", "unregister"} => device[e] = block_dev[e]
        BY DEF Inv, Conns, DeviceOK
      <4>6. pc[e] \in {"put", "unregister"} => block_dev[e] # NoDev /\ ~Listed(block_dev[e])'
        BY <1>5, <4>3 DEF Inv, Conns, DeviceOK
      <4>8. pc[e] = "put" => disk'[block_dev[e]] = "alive"
        BY <1>4, <1>5 DEF Inv, Conns, DeviceOK
      <4>7. /\ pc[e] \in {"up", "stop"} /\ block_dev[e] # NoDev => Listed(block_dev[e])'
            /\ pc[e] \in {"remove", "unlink"} => block_dev[e] # NoDev /\ Listed(block_dev[e])'
        BY <4>3 DEF Inv, Conns, DeviceOK
      <4> QED  BY <3>1, <4>1, <4>4, <4>5, <4>6, <4>7, <4>8 DEF DeviceOK
    <3> QED  BY <3>2, <3>3
  <2>3. ASSUME NEW e \in Conn, NEW f \in Conn, e # f, ServerOf(e) = ServerOf(f) PROVE PairOK(e, f)'
    <3>1. CASE e = c \/ f = c
      BY <1>4, <1>8, <2>3, <3>1 DEF PairOK
    <3>2. CASE e # c /\ f # c
      BY <1>1, <1>4, <2>3, <3>2 DEF Inv, Conns, PairOK
    <3> QED  BY <3>1, <3>2
  <2> QED  BY <2>1, <2>2, <2>3 DEF Conns
<1>10. \A e \in Device : Listed(e) => maker[e] # s
  BY <1>1, <1>8 DEF Inv, ListOK, Keeps
<1>11. ListOK'
  <2>1. ASSUME NEW i \in 1 .. Len(disks'), NEW j \in 1 .. Len(disks'), disks'[i] = disks'[j] PROVE i = j
    <3>1. \A k \in 1 .. Len(disks) : disks[k] # d
      BY <1>2, <1>5 DEF Listed, Inv, Types
    <3>2. i \in 1 .. Len(disks) \/ i = Len(disks) + 1
      BY <1>6
    <3>3. j \in 1 .. Len(disks) \/ j = Len(disks) + 1
      BY <1>6
    <3> QED  BY <1>6, <2>1, <3>1, <3>2, <3>3 DEF Inv, ListOK
  <2>2. ASSUME NEW e \in Device, Listed(e)'
        PROVE  e <= created' /\ disk'[e] = "alive" /\ e \in majors' /\ \E f \in Conn : Keeps(f, e)'
    <3>1. CASE e = d
      <4>1. Keeps(c, e)'
        BY <1>4, <3>1 DEF Keeps
      <4> QED  BY <1>1, <1>2, <1>4, <3>1, <4>1
    <3>2. CASE e # d
      <4>1. Listed(e) /\ e <= created /\ disk[e] = "alive" /\ e \in majors /\ e \in Nat
        BY <1>7, <2>2, <3>2, Devices DEF Inv, ListOK
      <4>2. PICK f \in Conn : Keeps(f, e)
        BY <4>1 DEF Inv, ListOK
      <4>3. Keeps(f, e)'
        BY <1>1, <1>2, <1>4, <3>2, <4>2 DEF Keeps
      <4> QED  BY <1>1, <1>2, <1>4, <3>2, <4>1, <4>3 DEF d
    <3> QED  BY <3>1, <3>2
  <2>3. ASSUME NEW e \in Device, NEW g \in Device, Listed(e)', Listed(g)', maker'[e] = maker'[g] PROVE e = g
    BY <1>4, <1>7, <1>10, <2>3 DEF Inv, ListOK
  <2> QED  BY <2>1, <2>2, <2>3 DEF ListOK
<1>12. CountOK'
  BY <1>1, <1>2, <1>4, CountKept, Devices
<1>13. NamesOK'
  BY <1>1, NamesKept
<1> QED  BY <1>3, <1>9, <1>11, <1>12, <1>13 DEF Inv

LEMMA CountUpInv ==
  ASSUME Inv, NEW c \in Conn, CountUp(c)
  PROVE  Inv'
<1> DEFINE d == device[c]
           s == ServerOf(c)
<1>1. /\ pc[c] = "count" /\ num_connection' = [num_connection EXCEPT ![d] = @ + 1]
      /\ block_dev' = [block_dev EXCEPT ![c] = d] /\ pc' = [pc EXCEPT ![c] = "up"]
      /\ UNCHANGED <<disks, disk, majors, maker, created, proc, device, stray>>
  BY DEF CountUp, At, Goto
<1>2. d \in Device /\ Listed(d) /\ maker[d] = s /\ d <= created /\ d # NoDev /\ block_dev[c] = NoDev
  <2>1. Listed(d) /\ maker[d] = s /\ block_dev[c] = NoDev
    BY <1>1 DEF Inv, Conns, DeviceOK, PhaseOK
  <2>2. d \in Device
    BY <2>1, ListedDevice DEF Inv
  <2> QED  BY <2>1, <2>2, Devices DEF Inv, ListOK
<1>3. Types'
  BY <1>1, <1>2 DEF Inv, Types
<1> HIDE DEF d
<1>4. /\ pc'[c] = "up" /\ \A e \in Conn \ {c} : pc'[e] = pc[e]
      /\ block_dev'[c] = d /\ \A e \in Conn \ {c} : block_dev'[e] = block_dev[e]
      /\ num_connection'[d] = num_connection[d] + 1
      /\ \A e \in Device \ {d} : num_connection'[e] = num_connection[e]
  BY <1>1, <1>2 DEF Inv, Types
<1>5. Conns'
  <2>1. ASSUME NEW e \in Conn PROVE PhaseOK(e)'
    BY <1>1, <1>4 DEF Inv, Conns, PhaseOK
  <2>2. DeviceOK(c)'
    <3>1. Listed(block_dev[c])'
      BY <1>1, <1>2, <1>4 DEF Listed
    <3> QED  BY <1>1, <1>2, <1>4, <3>1 DEF DeviceOK
  <2>3. ASSUME NEW e \in Conn \ {c}, ServerOf(e) = s PROVE PairOK(c, e)' /\ PairOK(e, c)'
    <3>1. pc[e] \notin {"create", "remove", "unlink", "put", "unregister"}
      BY <1>1, <2>3, NoneBesides
    <3> QED  BY <1>4, <3>1 DEF PairOK
  <2> QED  BY <1>1, <1>4, <2>1, <2>2, <2>3, ConnsKept
<1>6. ListOK'
  <2>1. ASSUME NEW e \in Conn, NEW g \in Device, Keeps(e, g) PROVE Keeps(e, g)'
    BY <1>1, <1>4, <2>1 DEF Keeps, d
  <2> QED  BY <1>1, <2>1, ListKept
<1>7. CountOK'
  <2> SUFFICES ASSUME NEW e \in Device PROVE num_connection'[e] = Cardinality(Users(e)')
    BY DEF CountOK
  <2>1. num_connection[e] = Cardinality(Users(e)) /\ IsFiniteSet(Users(e))
    BY UsersFinite DEF Inv, CountOK
  <2>2. CASE e = d
    <3>1. Users(e)' = Users(e) \cup {c} /\ c \notin Users(e)
      BY <1>1, <1>4, <2>2 DEF Users
    <3>2. Cardinality(Users(e) \cup {c}) = Cardinality(Users(e)) + 1
      BY <2>1, <3>1, FS_AddElement
    <3> QED  BY <1>4, <2>1, <2>2, <3>1, <3>2
  <2>3. CASE e # d
    <3>1. Users(e)' = Users(e)
      BY <1>1, <1>2, <1>4, <2>3, Devices DEF Users
    <3> QED  BY <1>4, <2>1, <2>3, <3>1
  <2> QED  BY <2>2, <2>3
<1>8. NamesOK'
  BY <1>1, NamesKept
<1> QED  BY <1>3, <1>5, <1>6, <1>7, <1>8 DEF Inv

\* The users of a device that a connection leaves.
LEMMA LeaveUsers ==
  ASSUME Inv, NEW c \in Conn, NEW d \in Device, c \in Users(d)
  PROVE  /\ num_connection[d] \in Nat \ {0}
         /\ Cardinality(Users(d) \ {c}) = num_connection[d] - 1
         /\ num_connection[d] = 1 => Users(d) = {c}
         /\ num_connection[d] # 1 => \E e \in Conn \ {c} : e \in Users(d)
<1>1. num_connection[d] = Cardinality(Users(d)) /\ IsFiniteSet(Users(d)) /\ num_connection[d] \in Nat
  BY UsersFinite DEF Inv, CountOK, Types
<1>2. IsFiniteSet(Users(d) \ {c}) /\ Cardinality(Users(d) \ {c}) = Cardinality(Users(d)) - 1
  BY <1>1, FS_RemoveElement
<1>3. Cardinality(Users(d) \ {c}) \in Nat
  BY <1>2, FS_CardinalityType
<1>4. num_connection[d] = 1 <=> Users(d) \ {c} = {}
  BY <1>1, <1>2, <1>3, FS_EmptySet
<1> QED  BY <1>1, <1>2, <1>3, <1>4 DEF Users

LEMMA ReleaseInv ==
  ASSUME Inv, NEW c \in Conn, bius_dev_release(c)
  PROVE  Inv'
<1> DEFINE d == block_dev[c]
           s == ServerOf(c)
<1>1. /\ pc[c] = "stop" /\ proc[s] = "exit" /\ stray = "no"
      /\ UNCHANGED <<disks, disk, majors, maker, created, proc, block_dev, device>>
  BY DEF bius_dev_release, Closing, At
<1>2. \A e \in Conn : ServerOf(e) = s => pc[e] \in {"off", "stop"}
  BY Conns1 DEF bius_dev_release, Closing
<1>3. NamesOK'
  BY <1>1, NamesKept
<1>4. CASE d = NoDev
  <2>1. pc' = [pc EXCEPT ![c] = "off"] /\ UNCHANGED <<num_connection, stray>>
    BY <1>4 DEF bius_dev_release, Goto
  <2>2. Types'
    BY <1>1, <2>1 DEF Inv, Types
  <2>3. pc'[c] = "off" /\ \A e \in Conn \ {c} : pc'[e] = pc[e]
    BY <2>1 DEF Inv, Types
  <2>4. Conns'
    <3>1. ASSUME NEW e \in Conn PROVE PhaseOK(e)'
      BY <1>1, <2>3 DEF Inv, Conns, PhaseOK
    <3>2. DeviceOK(c)'
      BY <1>1, <1>4, <2>3 DEF DeviceOK
    <3>3. \A e \in Conn \ {c} : ServerOf(e) = s => PairOK(c, e)' /\ PairOK(e, c)'
      BY <1>2, <2>3 DEF PairOK
    <3> QED  BY <1>1, <2>3, <3>1, <3>2, <3>3, ConnsKept
  <2>5. ListOK'
    <3>1. ASSUME NEW e \in Conn, NEW g \in Device, Keeps(e, g) PROVE Keeps(e, g)'
      BY <1>1, <1>4, <2>3, <3>1, Devices DEF Keeps
    <3> QED  BY <1>1, <3>1, ListKept
  <2>6. CountOK'
    BY <1>1, <1>4, <2>1, <2>3, Devices, CountKept
  <2> QED  BY <1>3, <2>2, <2>4, <2>5, <2>6 DEF Inv
<1>5. CASE d # NoDev
  <2>1. /\ d \in Device /\ Listed(d) /\ maker[d] = s /\ disk[d] = "alive" /\ c \in Users(d)
    BY <1>1, <1>5 DEF Inv, Types, Conns, DeviceOK, ListOK, Users
  <2>2. /\ num_connection' = [num_connection EXCEPT ![d] = @ - 1]
        /\ pc' = [pc EXCEPT ![c] = IF num_connection[d] = 1 THEN "remove" ELSE "off"]
        /\ UNCHANGED stray
    BY <1>5, <2>1 DEF bius_dev_release, Goto, Reads
  <2>3. /\ num_connection[d] \in Nat \ {0}
        /\ Cardinality(Users(d) \ {c}) = num_connection[d] - 1
        /\ num_connection[d] = 1 => Users(d) = {c}
        /\ num_connection[d] # 1 => \E e \in Conn \ {c} : e \in Users(d)
    BY <2>1, LeaveUsers
  <2>4. Types'
    BY <1>1, <2>1, <2>2, <2>3 DEF Inv, Types
  <2> HIDE DEF d
  <2>5. /\ pc'[c] = (IF num_connection[d] = 1 THEN "remove" ELSE "off")
        /\ \A e \in Conn \ {c} : pc'[e] = pc[e]
        /\ num_connection'[d] = num_connection[d] - 1
        /\ \A e \in Device \ {d} : num_connection'[e] = num_connection[e]
    BY <2>1, <2>2 DEF Inv, Types
  <2>d. block_dev[c] = d
    BY DEF d
  <2>6. Conns'
    <3>1. ASSUME NEW e \in Conn PROVE PhaseOK(e)'
      BY <1>1, <2>5 DEF Inv, Conns, PhaseOK
    <3>2. DeviceOK(c)'
      <4>1. Listed(block_dev[c])'
        BY <1>1, <2>1, <2>d DEF Listed
      <4>2. block_dev[c] <= created /\ maker[block_dev[c]] = s
        BY <1>5, <2>d DEF Inv, Conns, DeviceOK
      <4> QED  BY <1>1, <1>5, <2>5, <2>d, <4>1, <4>2 DEF DeviceOK
    <3>3. ASSUME NEW e \in Conn \ {c}, ServerOf(e) = s PROVE PairOK(c, e)' /\ PairOK(e, c)'
      <4>1. ASSUME num_connection[d] = 1, pc[e] = "stop" PROVE block_dev[e] = NoDev
        <5>1. SUFFICES ASSUME block_dev[e] # NoDev PROVE FALSE
          OBVIOUS
        <5>2. block_dev[e] \in Device /\ Listed(block_dev[e]) /\ maker[block_dev[e]] = s
          BY <3>3, <4>1, <5>1 DEF Inv, Types, Conns, DeviceOK
        <5>3. block_dev[e] = d
          BY <2>1, <5>2 DEF Inv, ListOK
        <5> QED  BY <2>3, <4>1, <5>3 DEF Users
      <4>2. pc[e] \in {"off", "stop"}
        BY <1>2, <3>3
      <4> QED  BY <1>1, <2>5, <4>1, <4>2 DEF PairOK
    <3> QED  BY <1>1, <2>5, <3>1, <3>2, <3>3, ConnsKept
  <2>7. ListOK'
    <3>1. \A g : Listed(g)' <=> Listed(g)
      BY <1>1 DEF Listed
    <3>2. ASSUME NEW g \in Device, Listed(g) PROVE \E e \in Conn : Keeps(e, g)'
      <4>1. PICK e \in Conn : Keeps(e, g)
        BY <3>2 DEF Inv, ListOK
      <4>2. CASE e # c
        <5>1. Keeps(e, g)'
          BY <1>1, <2>5, <4>1, <4>2 DEF Keeps
        <5> QED  BY <5>1
      <4>3. CASE e = c /\ num_connection[d] = 1
        <5>1. Keeps(c, g)'
          BY <1>1, <2>5, <4>1, <4>3 DEF Keeps
        <5> QED  BY <5>1
      <4>4. CASE e = c /\ num_connection[d] # 1
        <5>1. g = d
          BY <1>1, <2>d, <4>1, <4>4 DEF Keeps
        <5>2. PICK f \in Conn \ {c} : f \in Users(d)
          BY <2>3, <4>4
        <5>3. Keeps(f, g)
          BY <1>5, <5>1, <5>2 DEF Users, Keeps, Inv, Conns, DeviceOK
        <5>4. Keeps(f, g)'
          BY <1>1, <2>5, <5>2, <5>3 DEF Keeps
        <5> QED  BY <5>4
      <4> QED  BY <4>2, <4>3, <4>4
    <3> QED  BY <1>1, <3>1, <3>2 DEF Inv, ListOK
  <2>8. CountOK'
    <3> SUFFICES ASSUME NEW e \in Device PROVE num_connection'[e] = Cardinality(Users(e)')
      BY DEF CountOK
    <3>1. CASE e = d
      <4>1. Users(e)' = Users(d) \ {c}
        BY <1>1, <2>5, <3>1 DEF Users
      <4> QED  BY <2>3, <2>5, <3>1, <4>1
    <3>2. CASE e # d
      <4>1. Users(e)' = Users(e)
        BY <1>1, <2>5, <2>d, <3>2 DEF Users
      <4> QED  BY <2>5, <3>2, <4>1 DEF Inv, CountOK
    <3> QED  BY <3>1, <3>2
  <2> QED  BY <1>3, <2>4, <2>6, <2>7, <2>8 DEF Inv
<1> QED  BY <1>4, <1>5

LEMMA RemoveLookupInv ==
  ASSUME Inv, NEW c \in Conn, RemoveLookup(c)
  PROVE  Inv'
<1> DEFINE s == ServerOf(c)
           d == block_dev[c]
           g == get_block_device(NameOf[maker[d]])
<1>1. /\ pc[c] = "remove" /\ device' = [device EXCEPT ![c] = g]
      /\ pc' = [pc EXCEPT ![c] = IF g = NoDev THEN "off" ELSE "unlink"]
      /\ UNCHANGED <<disks, num_connection, disk, majors, maker, created, proc, block_dev>>
  BY DEF RemoveLookup, At, Goto
<1>2. d \in Device /\ d # NoDev /\ Listed(d) /\ maker[d] = s /\ s \in Server /\ proc[s] # "off"
  BY <1>1, Conns1 DEF Inv, Types, Conns, DeviceOK, PhaseOK
<1>r. UNCHANGED stray
  <2>1. disk[d] = "alive"
    BY <1>2 DEF Inv, ListOK
  <2> QED  BY <2>1, NamesRead DEF RemoveLookup
<1>3. g = d
  <2>1. g = get_block_device(NameOf[s])
    BY <1>2
  <2>2. g # NoDev /\ g \in Device /\ Listed(g) /\ maker[g] = s
    BY <1>2, <2>1, LookupFinds
  <2> QED  BY <1>2, <2>2 DEF Inv, ListOK
<1> HIDE DEF g
<1>4. Types'
  BY <1>1, <1>2, <1>3, <1>r DEF Inv, Types
<1>5. /\ pc'[c] = "unlink" /\ \A e \in Conn \ {c} : pc'[e] = pc[e]
      /\ device'[c] = d /\ \A e \in Conn \ {c} : device'[e] = device[e]
  BY <1>1, <1>2, <1>3 DEF Inv, Types
<1>6. Conns'
  <2>1. ASSUME NEW e \in Conn PROVE PhaseOK(e)'
    BY <1>1, <1>5 DEF Inv, Conns, PhaseOK
  <2>2. DeviceOK(c)'
    BY <1>1, <1>2, <1>5 DEF Inv, Conns, DeviceOK, Listed
  <2>3. ASSUME NEW e \in Conn \ {c}, ServerOf(e) = s PROVE PairOK(c, e)' /\ PairOK(e, c)'
    BY <1>1, <1>5, <2>3 DEF Inv, Conns, PairOK
  <2> QED  BY <1>1, <1>5, <2>1, <2>2, <2>3, ConnsKept
<1>7. ListOK'
  <2>1. ASSUME NEW e \in Conn, NEW h \in Device, Keeps(e, h) PROVE Keeps(e, h)'
    BY <1>1, <1>5, <2>1 DEF Keeps
  <2> QED  BY <1>1, <2>1, ListKept
<1>8. CountOK'
  BY <1>1, <1>5, CountKept
<1>9. NamesOK'
  BY <1>1, NamesKept
<1> QED  BY <1>4, <1>6, <1>7, <1>8, <1>9 DEF Inv

\* list_del takes the device off the list and nothing else.
LEMMA RemoveOne ==
  ASSUME Inv, NEW i \in 1 .. Len(disks), disks' = RemoveAt(disks, i)
  PROVE  /\ disks' \in Seq(Device)
         /\ \A j, k \in 1 .. Len(disks') : disks'[j] = disks'[k] => j = k
         /\ \A d : Listed(d)' <=> Listed(d) /\ d # disks[i]
<1>1. disks \in Seq(Device) /\ Len(disks) \in Nat /\ i \in Nat /\ 1 <= i /\ i <= Len(disks)
  BY DEF Inv, Types
<1>2. disks' = SubSeq(disks, 1, i - 1) \o SubSeq(disks, i + 1, Len(disks))
  BY DEF RemoveAt
<1>3. /\ disks' \in Seq(Device) /\ Len(disks') = Len(disks) - 1
      /\ \A j \in 1 .. Len(disks) - 1 : disks'[j] = IF j < i THEN disks[j] ELSE disks[j + 1]
  <2> DEFINE A == SubSeq(disks, 1, i - 1)
             B == SubSeq(disks, i + 1, Len(disks))
  <2>1. A \in Seq(Device) /\ Len(A) = i - 1 /\ \A j \in 1 .. i - 1 : A[j] = disks[j]
    BY <1>1
  <2>2. B \in Seq(Device) /\ Len(B) = Len(disks) - i /\ \A j \in 1 .. Len(disks) - i : B[j] = disks[j + i]
    BY <1>1
  <2> HIDE DEF A, B
  <2>3. disks' = A \o B
    BY <1>2 DEF A, B
  <2>4. /\ disks' \in Seq(Device) /\ Len(disks') = Len(A) + Len(B)
        /\ \A j \in 1 .. Len(A) + Len(B) : disks'[j] = IF j <= Len(A) THEN A[j] ELSE B[j - Len(A)]
    <3>1. A \in Seq(Device) /\ B \in Seq(Device)
      BY <2>1, <2>2
    <3>2. /\ A \o B \in Seq(Device) /\ Len(A \o B) = Len(A) + Len(B)
          /\ \A j \in 1 .. Len(A) + Len(B) : (A \o B)[j] = IF j <= Len(A) THEN A[j] ELSE B[j - Len(A)]
      BY <3>1, ConcatProperties, Zenon
    <3> QED  BY <2>3, <3>2, Zenon
  <2>5. Len(disks') = Len(disks) - 1
    BY <1>1, <2>1, <2>2, <2>4
  <2>6. ASSUME NEW j \in 1 .. Len(disks) - 1
        PROVE  disks'[j] = IF j < i THEN disks[j] ELSE disks[j + 1]
    <3>1. j \in 1 .. Len(A) + Len(B)
      BY <1>1, <2>1, <2>2
    <3>2. CASE j < i
      <4>1. disks'[j] = A[j]
        BY <1>1, <2>1, <2>4, <3>1, <3>2
      <4> QED  BY <1>1, <2>1, <3>2, <4>1
    <3>3. CASE ~(j < i)
      <4>1. disks'[j] = B[j - (i - 1)] /\ j - (i - 1) \in 1 .. Len(disks) - i
        BY <1>1, <2>1, <2>4, <3>1, <3>3
      <4>2. (j - (i - 1)) + i = j + 1
        BY <1>1
      <4> QED  BY <2>2, <3>3, <4>1, <4>2
    <3> QED  BY <3>2, <3>3
  <2> QED  BY <2>4, <2>5, <2>6
<1>4. \A j, k \in 1 .. Len(disks) : disks[j] = disks[k] => j = k
  BY DEF Inv, ListOK
<1>5. ASSUME NEW j \in 1 .. Len(disks'), NEW k \in 1 .. Len(disks'), disks'[j] = disks'[k] PROVE j = k
  <2> DEFINE at(m) == IF m < i THEN m ELSE m + 1
  <2>1. at(j) \in 1 .. Len(disks) /\ at(k) \in 1 .. Len(disks) /\ disks[at(j)] = disks[at(k)]
    BY <1>1, <1>3, <1>5
  <2>2. at(j) = at(k)
    BY <1>4, <2>1
  <2> QED  BY <1>1, <1>3, <2>2
<1>6. ASSUME NEW d, Listed(d)' PROVE Listed(d) /\ d # disks[i]
  <2>1. PICK j \in 1 .. Len(disks') : disks'[j] = d
    BY <1>6 DEF Listed
  <2> DEFINE m == IF j < i THEN j ELSE j + 1
  <2>2. m \in 1 .. Len(disks) /\ disks[m] = d /\ m # i
    BY <1>1, <1>3, <2>1
  <2> QED  BY <1>4, <2>2 DEF Listed
<1>7. ASSUME NEW d, Listed(d), d # disks[i] PROVE Listed(d)'
  <2>1. PICK j \in 1 .. Len(disks) : disks[j] = d
    BY <1>7 DEF Listed
  <2> DEFINE m == IF j < i THEN j ELSE j - 1
  <2>2. j # i
    BY <1>7, <2>1
  <2>3. m \in 1 .. Len(disks') /\ disks'[m] = d
    BY <1>1, <1>3, <2>1, <2>2
  <2> QED  BY <2>3 DEF Listed
<1> QED  BY <1>3, <1>5, <1>6, <1>7

LEMMA UnlinkInv ==
  ASSUME Inv, NEW c \in Conn, Unlink(c)
  PROVE  Inv'
<1> DEFINE d == block_dev[c]
           s == ServerOf(c)
<1>1. /\ pc[c] = "unlink" /\ pc' = [pc EXCEPT ![c] = "put"]
      /\ UNCHANGED <<num_connection, disk, majors, maker, created, proc, block_dev, device>>
  BY DEF Unlink, At, Goto
<1>2. d \in Device /\ d # NoDev /\ Listed(d) /\ maker[d] = s /\ device[c] = d
  BY <1>1 DEF Inv, Types, Conns, DeviceOK
<1>3. PICK i \in 1 .. Len(disks) : disks[i] = d /\ disks' = RemoveAt(disks, i) /\ UNCHANGED stray
  BY <1>2 DEF Unlink
<1>4. /\ disks' \in Seq(Device)
      /\ \A j, k \in 1 .. Len(disks') : disks'[j] = disks'[k] => j = k
      /\ \A g : Listed(g)' <=> Listed(g) /\ g # d
  BY <1>3, RemoveOne
<1>5. Types'
  BY <1>1, <1>3, <1>4 DEF Inv, Types
<1>a. disk[d] = "alive"
  BY <1>2 DEF Inv, ListOK
<1>d. block_dev[c] = d
  OBVIOUS
<1> HIDE DEF d
<1>6. pc'[c] = "put" /\ \A e \in Conn \ {c} : pc'[e] = pc[e]
  BY <1>1 DEF Inv, Types
<1>7. ASSUME NEW e \in Conn \ {c}, ServerOf(e) = s
      PROVE  pc[e] = "off" \/ (pc[e] = "stop" /\ block_dev[e] = NoDev)
  BY <1>1, <1>7 DEF Inv, Conns, PairOK
<1>8. Conns'
  <2>1. ASSUME NEW e \in Conn PROVE PhaseOK(e)'
    BY <1>1, <1>6 DEF Inv, Conns, PhaseOK
  <2>2. ASSUME NEW e \in Conn PROVE DeviceOK(e)'
    <3>1. /\ Listed(block_dev[e])' <=> Listed(block_dev[e]) /\ block_dev[e] # d
          /\ Listed(device[e])' <=> Listed(device[e]) /\ device[e] # d
      BY <1>1, <1>4 DEF Listed
    <3>2. block_dev[e] # NoDev => block_dev'[e] <= created' /\ maker'[block_dev'[e]] = ServerOf(e)
      BY <1>1 DEF Inv, Conns, DeviceOK
    <3>3. CASE e = c
      BY <1>1, <1>2, <1>6, <1>a, <1>d, <3>1, <3>2, <3>3 DEF DeviceOK
    <3>4. CASE e # c /\ ServerOf(e) = s
      BY <1>1, <1>6, <1>7, <3>2, <3>4 DEF DeviceOK
    <3>5. CASE ServerOf(e) # s
      <4>1. DeviceOK(e) /\ pc'[e] = pc[e]
        BY <1>6, <3>5 DEF Inv, Conns
      <4>2. block_dev[e] # NoDev => block_dev[e] # d
        BY <1>2, <3>5, <4>1 DEF DeviceOK
      <4>3. pc[e] = "count" => device[e] # d
        BY <1>2, <3>5, <4>1 DEF DeviceOK
      <4> QED  BY <1>1, <3>1, <4>1, <4>2, <4>3 DEF DeviceOK
    <3> QED  BY <3>3, <3>4, <3>5
  <2>3. ASSUME NEW e \in Conn, NEW f \in Conn, e # f, ServerOf(e) = ServerOf(f) PROVE PairOK(e, f)'
    <3>1. PairOK(e, f) /\ (e = c => pc[f] = "off" \/ (pc[f] = "stop" /\ block_dev[f] = NoDev))
                       /\ (f = c => pc[e] = "off" \/ (pc[e] = "stop" /\ block_dev[e] = NoDev))
      BY <1>7, <2>3 DEF Inv, Conns
    <3> QED  BY <1>1, <1>6, <2>3, <3>1 DEF PairOK
  <2> QED  BY <2>1, <2>2, <2>3 DEF Conns
<1>9. ListOK'
  <2>1. ASSUME NEW g \in Device, Listed(g)'
        PROVE  g <= created' /\ disk'[g] = "alive" /\ g \in majors' /\ \E e \in Conn : Keeps(e, g)'
    <3>1. Listed(g) /\ g # d
      BY <1>4, <2>1
    <3>2. PICK e \in Conn : Keeps(e, g)
      BY <3>1 DEF Inv, ListOK
    <3>3. e # c
      BY <1>1, <1>d, <3>1, <3>2 DEF Keeps
    <3>4. Keeps(e, g)'
      BY <1>1, <1>6, <3>2, <3>3 DEF Keeps
    <3> QED  BY <1>1, <3>1, <3>4 DEF Inv, ListOK
  <2> QED  BY <1>1, <1>4, <2>1 DEF Inv, ListOK
<1>10. CountOK'
  BY <1>1, <1>6, CountKept
<1>11. NamesOK'
  BY <1>1, NamesKept
<1> QED  BY <1>5, <1>8, <1>9, <1>10, <1>11 DEF Inv

LEMMA PutInv ==
  ASSUME Inv, NEW c \in Conn, put_disk(c)
  PROVE  Inv'
<1> DEFINE d == device[c]
<1>1. /\ pc[c] = "put" /\ disk' = [disk EXCEPT ![d] = "put"] /\ pc' = [pc EXCEPT ![c] = "unregister"]
      /\ stray' = Reads(d)
      /\ UNCHANGED <<disks, num_connection, majors, maker, created, proc, block_dev, device>>
  BY DEF put_disk, At, Goto
<1>2. /\ d \in Device /\ ~Listed(d) /\ disk[d] = "alive" /\ proc[ServerOf(c)] = "exit"
      /\ block_dev[c] = d /\ d # NoDev /\ maker[d] = ServerOf(c)
  <2>1. d = block_dev[c] /\ d # NoDev /\ ~Listed(d) /\ proc[ServerOf(c)] = "exit" /\ disk[block_dev[c]] = "alive"
    BY <1>1, Conns1 DEF Inv, Types, Conns, DeviceOK, PhaseOK
  <2> QED  BY <2>1 DEF Inv, Types, Conns, DeviceOK
<1>3. Types'
  BY <1>1, <1>2 DEF Inv, Types, Reads
<1>d. device[c] = d
  OBVIOUS
<1> HIDE DEF d
<1>4. /\ pc'[c] = "unregister" /\ \A e \in Conn \ {c} : pc'[e] = pc[e]
      /\ \A e \in Device \ {d} : disk'[e] = disk[e]
  BY <1>1, <1>2 DEF Inv, Types
<1>l. \A g : Listed(g)' <=> Listed(g)
  BY <1>1 DEF Listed
<1>5. Conns'
  <2>1. ASSUME NEW e \in Conn PROVE PhaseOK(e)'
    BY <1>1, <1>2, <1>4 DEF Inv, Conns, PhaseOK
  <2>2. DeviceOK(c)'
    <3>1. ~Listed(block_dev[c])' /\ block_dev[c] <= created
      BY <1>1, <1>2 DEF Inv, Conns, DeviceOK, Listed
    <3> QED  BY <1>1, <1>2, <1>4, <1>d, <3>1 DEF DeviceOK
  <2>3. ASSUME NEW e \in Conn, NEW f \in Conn, e # f, ServerOf(e) = ServerOf(f) PROVE PairOK(e, f)'
    BY <1>1, <1>4, <2>3 DEF Inv, Conns, PairOK
  <2>4. ASSUME NEW e \in Conn \ {c} PROVE DeviceOK(e)'
    <3>1. DeviceOK(e) /\ pc'[e] = pc[e]
      BY <1>4 DEF Inv, Conns
    <3>2. pc[e] = "put" => block_dev[e] # d /\ block_dev[e] \in Device
      <4> SUFFICES ASSUME pc[e] = "put" PROVE block_dev[e] # d /\ block_dev[e] \in Device
        OBVIOUS
      <4>1. ServerOf(e) # ServerOf(c)
        BY <1>1 DEF Inv, Conns, PairOK
      <4> QED  BY <1>2, <3>1, <4>1 DEF DeviceOK, Inv, Types
    <3>3. pc[e] = "put" => disk'[block_dev[e]] = "alive"
      BY <1>4, <3>1, <3>2 DEF DeviceOK
    <3>4. (Listed(block_dev[e])' <=> Listed(block_dev[e])) /\ (Listed(device[e])' <=> Listed(device[e]))
      BY <1>1 DEF Listed
    <3> QED  BY <1>1, <3>1, <3>3, <3>4 DEF DeviceOK
  <2> QED  BY <2>1, <2>2, <2>3, <2>4 DEF Conns
<1>6. ListOK'
  <2>2. ASSUME NEW g \in Device, Listed(g)
        PROVE  g <= created' /\ disk'[g] = "alive" /\ g \in majors' /\ \E e \in Conn : Keeps(e, g)'
    <3>1. g # d
      BY <1>2, <2>2
    <3>2. PICK e \in Conn : Keeps(e, g)
      BY <2>2 DEF Inv, ListOK
    <3>3. Keeps(e, g)'
      BY <1>1, <1>4, <3>2 DEF Keeps
    <3> QED  BY <1>1, <1>4, <2>2, <3>1, <3>3 DEF Inv, ListOK
  <2> QED  BY <1>1, <1>l, <2>2 DEF Inv, ListOK
<1>7. CountOK'
  BY <1>1, <1>4, CountKept
<1>8. NamesOK'
  BY <1>1, NamesKept
<1> QED  BY <1>3, <1>5, <1>6, <1>7, <1>8 DEF Inv

\* Whether the name still matches or not: the major is one of a device that
\* is off the list.
LEMMA UnregisterInv ==
  ASSUME Inv, NEW c \in Conn, unregister_blkdev(c)
  PROVE  Inv'
<1>1. /\ pc[c] = "unregister" /\ pc' = [pc EXCEPT ![c] = "off"] /\ majors' \in {majors, majors \ {device[c]}}
      /\ UNCHANGED <<disks, num_connection, disk, maker, created, proc, block_dev, device, stray>>
  BY DEF unregister_blkdev, At, Goto
<1>2. ~Listed(device[c]) /\ proc[ServerOf(c)] = "exit"
  BY <1>1, Conns1 DEF Inv, Types, Conns, DeviceOK, PhaseOK
<1>3. Types'
  BY <1>1 DEF Inv, Types
<1>4. pc'[c] = "off" /\ \A e \in Conn \ {c} : pc'[e] = pc[e]
  BY <1>1 DEF Inv, Types
<1>5. Conns'
  <2>1. ASSUME NEW e \in Conn PROVE PhaseOK(e)'
    BY <1>1, <1>2, <1>4 DEF Inv, Conns, PhaseOK
  <2>2. DeviceOK(c)'
    BY <1>1, <1>4 DEF Inv, Conns, DeviceOK
  <2>3. ASSUME NEW e \in Conn \ {c}, ServerOf(e) = ServerOf(c) PROVE PairOK(c, e)' /\ PairOK(e, c)'
    BY <1>1, <1>4, <2>3 DEF Inv, Conns, PairOK
  <2> QED  BY <1>1, <1>4, <2>1, <2>2, <2>3, ConnsKept
<1>6. ListOK'
  <2>1. \A g : Listed(g)' <=> Listed(g)
    BY <1>1 DEF Listed
  <2>2. ASSUME NEW g \in Device, Listed(g)
        PROVE  g <= created' /\ disk'[g] = "alive" /\ g \in majors' /\ \E e \in Conn : Keeps(e, g)'
    <3>1. g # device[c]
      BY <1>2, <2>2
    <3>2. PICK e \in Conn : Keeps(e, g)
      BY <2>2 DEF Inv, ListOK
    <3>3. Keeps(e, g)'
      BY <1>1, <1>4, <3>2 DEF Keeps
    <3> QED  BY <1>1, <2>2, <3>1, <3>3 DEF Inv, ListOK
  <2> QED  BY <1>1, <2>1, <2>2 DEF Inv, ListOK
<1>7. CountOK'
  BY <1>1, <1>4, CountKept
<1>8. NamesOK'
  BY <1>1, NamesKept
<1> QED  BY <1>3, <1>5, <1>6, <1>7, <1>8 DEF Inv

LEMMA StutterInv == Inv /\ UNCHANGED vars => Inv'
<1> SUFFICES ASSUME Inv, UNCHANGED vars PROVE Inv'
  OBVIOUS
<1> USE DEF vars
<1>1. Types' /\ NamesOK'
  BY DEF Inv, Types, NamesOK
<1>2. Conns'
  BY DEF Inv, Conns, PhaseOK, DeviceOK, PairOK, Listed
<1>3. ListOK' /\ CountOK'
  BY ListKept, CountKept DEF Keeps
<1> QED  BY <1>1, <1>2, <1>3 DEF Inv

-----------------------------------------------------------------------------
(* The results                                                             *)

\* The inductive invariant of the registry: each process has at most one
\* device on the list, kept there by one of its connections, num_connection
\* counts the connections that use it, and of two servers of one name one is
\* off.
THEOREM RegistryInvariant == ~Overlap => (Spec => []Inv)
<1> SUFFICES ASSUME ~Overlap PROVE Spec => []Inv
  OBVIOUS
<1>1. Init => Inv
  BY InvInit
<1>2. Inv /\ [Next]_vars => Inv'
  <2> SUFFICES ASSUME Inv, [Next]_vars PROVE Inv'
    OBVIOUS
  <2>1. ASSUME NEW s \in Server, Start(s) \/ Exit(s) \/ Gone(s) PROVE Inv'
    BY <2>1, StartInv, ExitInv, GoneInv
  <2>2. ASSUME NEW c \in Conn, InitStep(c) PROVE Inv'
    BY <2>2, ThreadInv, CreateInv, LookupInv, CountUpInv DEF InitStep
  <2>3. ASSUME NEW c \in Conn, ExitStep(c) \/ CreateFailed(c) PROVE Inv'
    BY <2>3, DieInv, ReleaseInv, RemoveLookupInv, UnlinkInv, PutInv, UnregisterInv DEF ExitStep
  <2>4. CASE UNCHANGED vars
    BY <2>4, StutterInv
  <2> QED  BY <2>1, <2>2, <2>3, <2>4 DEF Next
<1> QED  BY <1>1, <1>2, PTL DEF Spec

\* The ranges of the variables; num_connection never exceeds the number of
\* connections and never drops below zero.
THEOREM RegistryTypeCorrect == ~Overlap => (Spec => []TypeOK)
<1>1. Inv => TypeOK
  <2> SUFFICES ASSUME Inv PROVE TypeOK
    OBVIOUS
  <2>1. \A d \in Device : num_connection[d] \in 0 .. Cardinality(Conn)
    BY UsersFinite DEF Inv, CountOK
  <2> QED  BY <2>1 DEF Inv, Types, TypeOK
<1> QED  BY <1>1, RegistryInvariant, PTL

\* A device that a connection uses or is about to use is on the list, its
\* disk was not put and its major is registered.
THEOREM UsedDevicesStay == ~Overlap => (Spec => []InUseListed)
<1>1. Inv => InUseListed
  <2> SUFFICES ASSUME Inv PROVE InUseListed
    OBVIOUS
  <2>1. ASSUME NEW d, Listed(d) PROVE disk[d] = "alive" /\ d \in majors
    BY <2>1, ListedDevice DEF Inv, ListOK
  <2>2. ASSUME NEW c \in Conn
        PROVE  /\ pc[c] = "count" => Listed(device[c])
               /\ pc[c] \in {"up", "stop"} /\ block_dev[c] # NoDev => Listed(block_dev[c])
    BY DEF Inv, Conns, DeviceOK
  <2> QED  BY <2>1, <2>2 DEF InUseListed
<1> QED  BY <1>1, RegistryInvariant, PTL

\* A connection belongs to, and the last one removes, the device its own
\* process created.
THEOREM DevicesOfTheirOwn == ~Overlap => (Spec => []OwnDeviceOnly)
<1>1. Inv => OwnDeviceOnly
  BY DEF Inv, Conns, DeviceOK, OwnDeviceOnly
<1> QED  BY <1>1, RegistryInvariant, PTL

\* No release, lookup, unlinking or put uses a device that was unlinked or a
\* disk that was put before. The name that unregister_blkdev reads from the
\* disk its own caller has just put is outside of this.
THEOREM NothingDangles == ~Overlap => (Spec => []NoDangling)
<1>1. Inv => NoDangling
  BY DEF Inv, Types, NoDangling
<1> QED  BY <1>1, RegistryInvariant, PTL
=============================================================================
