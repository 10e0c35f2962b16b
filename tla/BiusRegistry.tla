---------------------------- MODULE BiusRegistry ----------------------------
(***************************************************************************)
(* The list of all devices (all_disk_list, kernel/block_dev.c), the count  *)
(* of connections of each (handle_initialization and bius_dev_release,     *)
(* kernel/char_dev.c), and the servers that create, connect to and leave   *)
(* them (library/libbius.c), over restarts.                                *)
(*                                                                         *)
(* A lookup, the count that follows it, the drop of the count, the lookup  *)
(* of the removal and the unlinking are steps of their own: each takes its *)
(* lock for itself. The requests of a device are left to BiusTransport.    *)
(***************************************************************************)
EXTENDS Naturals, FiniteSets, Sequences, SequencesExt

CONSTANTS
  Server,     \* server programs, each started any number of times
  NameOf,     \* the disk_name in the options of each server
  Threads,    \* num_threads of each server
  MaxDev,     \* bound: how many devices are created
  Overlap,    \* may a server start while another of its name still runs?
  CreateFails \* may create_block_device run out of resources?

ASSUME ConstantsOK ==
  /\ IsFiniteSet(Server) /\ Server # {} /\ DOMAIN NameOf = Server
  /\ Threads \in Nat \ {0} /\ MaxDev \in Nat
  /\ Overlap \in BOOLEAN /\ CreateFails \in BOOLEAN

\* The connection of the first thread sends BIUS_CREATE.
Conn == Server \X (1 .. Threads)
ServerOf(c) == c[1]
Creating(c) == c[2] = 1
Device == 1 .. MaxDev
NoDev == 0

VARIABLES
  disks,           \* all_disk_list
  num_connection,  \* of each device
  disk,            \* of each device: "none", "alive", or "put" (freed)
  majors,          \* the devices whose major number is registered
  maker,           \* history: the server that created the device
  created,         \* how many devices were created
  proc,            \* of each server: "off", "run", "exit"
  pc,              \* of each connection
  block_dev,       \* connection->block_dev
  device,          \* the local variable device of the syscall under way
  stray            \* an "unassigned" or "dangling" pointer was followed, or "no"

vars == <<disks, num_connection, disk, majors, maker, created, proc, pc, block_dev, device, stray>>

Init ==
  /\ disks = <<>> /\ created = 0 /\ stray = "no" /\ majors = {}
  /\ num_connection = [d \in Device |-> 0]
  /\ disk = [d \in Device |-> "none"]
  /\ maker = [d \in Device |-> CHOOSE s \in Server : TRUE]
  /\ proc = [s \in Server |-> "off"]
  /\ pc = [c \in Conn |-> "off"]
  /\ block_dev = [c \in Conn |-> NoDev]
  /\ device = [c \in Conn |-> NoDev]

At(c, l) == stray = "no" /\ pc[c] = l
Goto(c, l) == pc' = [pc EXCEPT ![c] = l]

Listed(d) == \E i \in 1 .. Len(disks) : disks[i] = d

\* The stop of the model at a step that reads the disk of device d.
Reads(d) == IF disk[d] = "put" THEN "dangling" ELSE stray

\* get_block_device compares the disk_name of every device on the list.
ReadsNames == IF \E d \in Device : Listed(d) /\ disk[d] = "put" THEN "dangling" ELSE stray

\* Mutant: the list is searched from the front and the first entry is taken.
get_block_device_AnyName(n) ==
  IF disks = <<>> THEN NoDev ELSE disks[1]

\* The last device of the list whose disk has the name.
get_block_device(n) ==
  LET hits == {i \in 1 .. Len(disks) : NameOf[maker[disks[i]]] = n} IN
  IF hits = {} THEN NoDev ELSE disks[CHOOSE i \in hits : \A j \in hits : j <= i]

-----------------------------------------------------------------------------
(* The library                                                             *)

\* bius_main: the main thread opens its connection.
Start(s) ==
  /\ stray = "no" /\ proc[s] = "off" /\ created < MaxDev
  /\ Overlap \/ \A t \in Server \ {s} : NameOf[t] = NameOf[s] => proc[t] = "off"
  /\ proc' = [proc EXCEPT ![s] = "run"]
  /\ Goto(<<s, 1>>, "create")
  /\ UNCHANGED <<disks, num_connection, disk, majors, maker, created, block_dev, device, stray>>

\* The other threads are started once the device is there.
thread_main(c) ==
  /\ At(c, "off") /\ ~Creating(c) /\ proc[ServerOf(c)] = "run"
  /\ pc[<<ServerOf(c), 1>>] = "up"
  /\ Goto(c, "connect")
  /\ UNCHANGED <<disks, num_connection, disk, majors, maker, created, proc, block_dev, device, stray>>

\* The process is killed, or calls exit(1).
Exit(s) ==
  /\ stray = "no" /\ proc[s] = "run"
  /\ proc' = [proc EXCEPT ![s] = "exit"]
  /\ UNCHANGED <<disks, num_connection, disk, majors, maker, created, pc, block_dev, device, stray>>

\* A thread ends outside its syscalls.
Die(c) ==
  /\ stray = "no" /\ proc[ServerOf(c)] = "exit" /\ pc[c] \in {"create", "connect", "up"}
  /\ Goto(c, "stop")
  /\ UNCHANGED <<disks, num_connection, disk, majors, maker, created, proc, block_dev, device, stray>>

-----------------------------------------------------------------------------
(* handle_initialization                                                   *)

\* BIUS_CREATE: create_block_device, whose last step makes the device known.
create_block_device(c) ==
  /\ At(c, "create") /\ created < MaxDev
  /\ LET d == created + 1 IN
     /\ created' = d
     /\ majors' = majors \cup {d}
     /\ disk' = [disk EXCEPT ![d] = "alive"]
     /\ maker' = [maker EXCEPT ![d] = ServerOf(c)]
     /\ disks' = Append(disks, d)
     /\ device' = [device EXCEPT ![c] = d]
  /\ Goto(c, "count")
  /\ UNCHANGED <<num_connection, proc, block_dev, stray>>

\* create_block_device returns an error, which is assigned to an unsigned
\* variable and never found negative: write() goes on with a device that was
\* never assigned, for which NoDev stands, and the model stops.
CreateFailed(c) ==
  /\ CreateFails
  /\ At(c, "create")
  /\ stray' = "unassigned"
  /\ Goto(c, "up")
  /\ UNCHANGED <<disks, num_connection, disk, majors, maker, created, proc, block_dev, device>>

\* BIUS_CONNECT: the lookup, under disk_list_lock. -ENOENT makes the library
\* exit.
Lookup(c) ==
  /\ At(c, "connect")
  /\ LET d == get_block_device(NameOf[ServerOf(c)]) IN
     IF d = NoDev
     THEN /\ proc' = [proc EXCEPT ![ServerOf(c)] = "exit"]
          /\ Goto(c, "stop")
          /\ UNCHANGED device
     ELSE /\ device' = [device EXCEPT ![c] = d]
          /\ Goto(c, "count")
          /\ UNCHANGED proc
  /\ stray' = ReadsNames
  /\ UNCHANGED <<disks, num_connection, disk, majors, maker, created, block_dev>>

\* Mutant: the connection is not counted.
CountUp_Missing(c) ==
  /\ At(c, "count")
  /\ block_dev' = [block_dev EXCEPT ![c] = device[c]]
  /\ Goto(c, "up")
  /\ UNCHANGED <<disks, num_connection, disk, majors, maker, created, proc, device, stray>>

\* The count, under connection_lock.
CountUp(c) ==
  /\ At(c, "count")
  /\ num_connection' = [num_connection EXCEPT ![device[c]] = @ + 1]
  /\ block_dev' = [block_dev EXCEPT ![c] = device[c]]
  /\ Goto(c, "up")
  /\ UNCHANGED <<disks, disk, majors, maker, created, proc, device, stray>>

-----------------------------------------------------------------------------
(* bius_dev_release and remove_block_device                                *)

\* The last thread to end closes the files, one after the other.
Closing(c) ==
  /\ At(c, "stop") /\ proc[ServerOf(c)] = "exit"
  /\ \A k \in 1 .. Threads : pc[<<ServerOf(c), k>>] \in {"off", "stop"}

\* Mutant: the file is closed while other threads of the process still run.
bius_dev_release_Early(c) ==
  /\ At(c, "stop") /\ block_dev[c] # NoDev
  /\ num_connection' = [num_connection EXCEPT ![block_dev[c]] = @ - 1]
  /\ Goto(c, IF num_connection[block_dev[c]] = 1 THEN "remove" ELSE "off")
  /\ UNCHANGED <<disks, disk, majors, maker, created, proc, block_dev, device, stray>>

\* Mutant: the device is removed with one connection left.
bius_dev_release_OneLeft(c) ==
  /\ Closing(c) /\ block_dev[c] # NoDev
  /\ LET d == block_dev[c] IN
     /\ num_connection' = [num_connection EXCEPT ![d] = @ - 1]
     /\ Goto(c, IF num_connection[d] <= 2 THEN "remove" ELSE "off")
     /\ stray' = Reads(d)
  /\ UNCHANGED <<disks, disk, majors, maker, created, proc, block_dev, device>>

\* num_connection drops. The last one out reads the name of its disk.
bius_dev_release(c) ==
  /\ Closing(c)
  /\ IF block_dev[c] = NoDev
     THEN Goto(c, "off") /\ UNCHANGED <<num_connection, stray>>
     ELSE LET d == block_dev[c] IN
          /\ num_connection' = [num_connection EXCEPT ![d] = @ - 1]
          /\ Goto(c, IF num_connection[d] = 1 THEN "remove" ELSE "off")
          /\ stray' = IF num_connection[d] = 1 THEN Reads(d) ELSE stray
  /\ UNCHANGED <<disks, disk, majors, maker, created, proc, block_dev, device>>

\* remove_block_device looks the device up again, by name.
RemoveLookup(c) ==
  /\ At(c, "remove")
  /\ LET d == get_block_device(NameOf[maker[block_dev[c]]]) IN
     /\ device' = [device EXCEPT ![c] = d]
     /\ Goto(c, IF d = NoDev THEN "off" ELSE "unlink")
  /\ stray' = IF disk[block_dev[c]] = "put" THEN "dangling" ELSE ReadsNames
  /\ UNCHANGED <<disks, num_connection, disk, majors, maker, created, proc, block_dev>>

\* Mutant: the device stays on the list.
Unlink_Missing(c) ==
  /\ At(c, "unlink")
  /\ Goto(c, "put")
  /\ UNCHANGED <<disks, num_connection, disk, majors, maker, created, proc, block_dev, device, stray>>

\* list_del under disk_list_lock. A second list_del of one device follows
\* poisoned pointers.
Unlink(c) ==
  /\ At(c, "unlink")
  /\ IF Listed(device[c])
     THEN /\ \E i \in 1 .. Len(disks) : disks[i] = device[c] /\ disks' = RemoveAt(disks, i)
          /\ UNCHANGED stray
     ELSE stray' = "dangling" /\ UNCHANGED disks
  /\ Goto(c, "put")
  /\ UNCHANGED <<num_connection, disk, majors, maker, created, proc, block_dev, device>>

\* The sweep, del_gendisk and put_disk.
put_disk(c) ==
  /\ At(c, "put")
  /\ disk' = [disk EXCEPT ![device[c]] = "put"]
  /\ Goto(c, "unregister")
  /\ stray' = Reads(device[c])
  /\ UNCHANGED <<disks, num_connection, majors, maker, created, proc, block_dev, device>>

\* The name that unregister_blkdev compares with that of the major is the
\* disk_name of the disk just put. If the memory was freed and used again the
\* names differ: the kernel warns, and the major stays registered for good.
unregister_blkdev(c) ==
  /\ At(c, "unregister")
  /\ majors' \in {majors, majors \ {device[c]}}
  /\ Goto(c, "off")
  /\ UNCHANGED <<disks, num_connection, disk, maker, created, proc, block_dev, device, stray>>

\* Every file of the process is closed.
Gone(s) ==
  /\ stray = "no" /\ proc[s] = "exit"
  /\ \A k \in 1 .. Threads : pc[<<s, k>>] = "off"
  /\ proc' = [proc EXCEPT ![s] = "off"]
  /\ block_dev' = [c \in Conn |-> IF ServerOf(c) = s THEN NoDev ELSE block_dev[c]]
  /\ device' = [c \in Conn |-> IF ServerOf(c) = s THEN NoDev ELSE device[c]]
  /\ UNCHANGED <<disks, num_connection, disk, majors, maker, created, pc, stray>>

-----------------------------------------------------------------------------
InitStep(c) == thread_main(c) \/ create_block_device(c) \/ Lookup(c) \/ CountUp(c)
ExitStep(c) ==
  Die(c) \/ bius_dev_release(c) \/ RemoveLookup(c) \/ Unlink(c) \/ put_disk(c)
  \/ unregister_blkdev(c)

Next ==
  \/ \E s \in Server : Start(s) \/ Exit(s) \/ Gone(s)
  \/ \E c \in Conn : InitStep(c) \/ ExitStep(c) \/ CreateFailed(c)

Spec == Init /\ [][Next]_vars

\* A syscall under way goes on, and a process that is ending ends.
Fairness ==
  /\ \A c \in Conn : WF_vars(CountUp(c)) /\ WF_vars(ExitStep(c))
  /\ \A s \in Server : WF_vars(Gone(s))

FairSpec == Spec /\ Fairness

-----------------------------------------------------------------------------
(* Properties                                                              *)

\* The ranges of the variables.
TypeOK ==
  /\ disks \in Seq(Device) /\ created \in 0 .. MaxDev /\ stray \in {"no", "unassigned", "dangling"}
  /\ num_connection \in [Device -> 0 .. Cardinality(Conn)]
  /\ disk \in [Device -> {"none", "alive", "put"}] /\ majors \subseteq Device
  /\ maker \in [Device -> Server]
  /\ proc \in [Server -> {"off", "run", "exit"}]
  /\ pc \in [Conn -> {"off", "create", "connect", "count", "up", "stop",
                      "remove", "unlink", "put", "unregister"}]
  /\ block_dev \in [Conn -> Device \cup {NoDev}]
  /\ device \in [Conn -> Device \cup {NoDev}]

\* BIUS_CONNECT looks a device up under one lock and counts itself under
\* another. The library's order of create, connect and close keeps the device
\* from being removed in between: a device that a connection uses, or is about
\* to use, is on the list, its disk was not put and its major is registered.
InUseListed ==
  LET InUse(d) == Listed(d) /\ disk[d] = "alive" /\ d \in majors IN
  \A c \in Conn :
    /\ pc[c] = "count" => InUse(device[c])
    /\ pc[c] \in {"up", "stop"} /\ block_dev[c] # NoDev => InUse(block_dev[c])

\* Although connect and removal go by name, a connection belongs to the device
\* its own process created, and the last one removes that device, whatever
\* else has come to the list since.
OwnDeviceOnly ==
  \A c \in Conn :
    /\ block_dev[c] # NoDev => maker[block_dev[c]] = ServerOf(c)
    /\ pc[c] \in {"unlink", "put", "unregister"} => device[c] = block_dev[c]

\* Over every start, connect and exit, no release, lookup by name, unlinking
\* or put uses a device that was unlinked or a disk that was put before. The
\* one use of a put disk that the code makes is not among them: remove_block_device
\* passes on its name to unregister_blkdev after its own put_disk.
NoDangling == stray # "dangling"

\* The exit of a server takes its devices off the list, unless the model
\* stopped at a failed create.
DevicesGo ==
  \A d \in Device :
    (Listed(d) /\ proc[maker[d]] = "exit") ~> (~Listed(d) \/ stray # "no")
=============================================================================
