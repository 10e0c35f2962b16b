----------------------------- MODULE ZonedServer -----------------------------
(***************************************************************************)
(* A whole zoned example server: the zone bookkeeping of ZonedCommon       *)
(* composed with what its callbacks do outside the locks or with one lock  *)
(* at a time: the raw_write after a granted write, the raw_discard after a *)
(* reset, zoned_read, zoned_report_zones (examples/zoned-common.h), and    *)
(* the SIGINT handler of examples/zoned-ramdisk.c, which runs on top of    *)
(* whatever the interrupted thread was doing.                              *)
(***************************************************************************)
EXTENDS ZonedCommon, Sequences

CONSTANTS
  Ordered,   \* does the host keep a reset of a zone apart from its other operations?
  SignalAt,  \* where in an operation SIGINT may hit a thread
  MaxAux     \* bound: how many reads, reports and signals a run may start

ASSUME ServerConstantsOK ==
  Ordered \in BOOLEAN /\ SignalAt \subseteq Label /\ MaxAux \in Nat

VARIABLES
  aux,      \* per thread: what it does besides the operation, on which zone
  disk,     \* the sectors of the backing store: the write they hold, or 0
  token,    \* per thread: the write it carries out
  report,   \* per thread: the zones it has copied into the caller's buffer
  auxes,    \* reads, reports and signals so far
  settled   \* history: per sector the last write that returned, or 0

auxVars == <<aux, disk, token, report, auxes, settled>>

Sector == 0 .. Capacity - 1
NoAux == [do |-> "none", z |-> 0]
Blank == [z \in Zone |-> [p \in Sector |-> 0]]

ServerInit ==
  /\ Init
  /\ aux = [t \in Thread |-> NoAux]
  /\ disk = Blank /\ settled = Blank
  /\ token = [t \in Thread |-> 0]
  /\ report = [t \in Thread |-> <<>>]
  /\ auxes = 0

Doing(t, d) == aux[t].do = d
Do(t, d, z) == aux' = [aux EXCEPT ![t] = [do |-> d, z |-> z]]

\* The thread is inside an operation on zone z.
Busy(t, z) == zone[t] = z /\ (pc[t] # "idle" \/ aux[t].do \in {"raw_write", "raw_discard"})

\* The host's side of a call: with Ordered it keeps a reset of a zone apart from
\* all other operations on that zone, writes or not, and a reset of all zones
\* from all operations. Reads, reports and signals come at any time.
MayCall(t, o, z) ==
  Ordered => \A u \in Thread \ {t} :
    \/ \A x \in Zone : ~Busy(u, x)
    \/ "reset_all" \notin {o, op[u]} /\ (zone[u] = z => "reset" \notin {o, op[u]})

CallOp(t, o, z, off, n) ==
  /\ Doing(t, "none") /\ MayCall(t, o, z)
  /\ Call(t, o, z, off, n)
  /\ token' = [token EXCEPT ![t] = started + 1]
  /\ UNCHANGED <<aux, disk, report, auxes, settled>>

\* What is left to do when the locks are dropped.
AfterUnlock(t) ==
  IF pc'[t] # "idle" \/ result'[t] # "BLK_STS_OK" THEN "none"
  ELSE IF op[t] \in {"write", "append"} THEN "raw_write"
  ELSE IF op[t] = "reset_all" \/ (op[t] = "reset" /\ cond[zone[t]] # "EMPTY") THEN "raw_discard"
  ELSE "none"

\* A step of the bookkeeping. A reset makes what was written void at once.
Inside(t) ==
  /\ Doing(t, "none")
  /\ Step(t)
  /\ Do(t, AfterUnlock(t), zone[t])
  /\ settled' = [z \in Zone |-> IF granted'[z] = {} /\ granted[z] # {} THEN Blank[z] ELSE settled[z]]
  /\ UNCHANGED <<disk, token, report, auxes>>

Extent(t) == offset[t] .. offset[t] + length[t] - 1
Fill(f, t, v) == [f EXCEPT ![zone[t]] = [p \in Sector |-> IF p \in Extent(t) THEN v ELSE @[p]]]

\* Mutant: the data goes to the position the host asked for.
raw_write_Requested(t) ==
  /\ Doing(t, "raw_write")
  /\ disk' = [disk EXCEPT ![zone[t]] = [p \in Sector |-> IF p < length[t] THEN token[t] ELSE @[p]]]
  /\ settled' = Fill(settled, t, token[t])
  /\ Do(t, "none", 0)
  /\ UNCHANGED <<vars, token, report, auxes>>

\* The callback writes the data at the position granted, and returns. Sectors
\* outside the zone, which only a torn write pointer can lead to, are left out.
raw_write(t) ==
  /\ Doing(t, "raw_write")
  /\ disk' = Fill(disk, t, token[t])
  /\ settled' = Fill(settled, t, token[t])
  /\ Do(t, "none", 0)
  /\ UNCHANGED <<vars, token, report, auxes>>

\* The zones that a reset discards. Start and length of a single one are read
\* after the locks were dropped, and may have been cleared.
Discarded(t) ==
  IF op[t] = "reset_all" THEN {Zone} ELSE {{zone[t]}} \cup (IF Wiping THEN {{0}, {}} ELSE {})

\* The callback discards the zone, or all of them, after the locks were
\* dropped; what others may have written since goes with it.
raw_discard(t) ==
  /\ Doing(t, "raw_discard")
  /\ \E hit \in Discarded(t) : disk' = [z \in Zone |-> IF z \in hit THEN Blank[z] ELSE disk[z]]
  /\ Do(t, "none", 0)
  /\ UNCHANGED <<vars, token, report, auxes, settled>>

StartAux(t, d, z) ==
  /\ pc[t] = "idle" /\ Doing(t, "none") /\ auxes < MaxAux
  /\ auxes' = auxes + 1
  /\ Do(t, d, z)
  /\ report' = [report EXCEPT ![t] = <<>>]
  /\ UNCHANGED <<vars, disk, token, settled>>

\* The statistics of zoned_read are counted under the zone lock; the data is
\* read without it.
zoned_read(t) ==
  /\ Doing(t, "read") /\ zone_locks[aux[t].z] = None
  /\ Do(t, "none", 0)
  /\ UNCHANGED <<vars, disk, token, report, auxes, settled>>

\* Mutant: the zone is copied without its lock.
zoned_report_zones_NoLock(t) ==
  LET z == aux[t].z IN
  /\ Doing(t, "report")
  /\ \E c \in SeenCond(z), w \in SeenWp(z) :
       report' = [report EXCEPT ![t] = Append(@, [cond |-> c, wp |-> w, torn |-> Wiping])]
  /\ IF z + 1 < num_zones THEN Do(t, "report", z + 1) ELSE Do(t, "none", 0)
  /\ UNCHANGED <<vars, disk, token, auxes, settled>>

\* One zone of the report, copied under its lock. zoned_reset_all_zone does not
\* take that lock: the copy may mix cleared, old and new fields. The entry
\* notes whether it was made meanwhile.
zoned_report_zones(t) ==
  LET z == aux[t].z IN
  /\ Doing(t, "report") /\ zone_locks[z] = None
  /\ \E c \in SeenCond(z), w \in SeenWp(z) :
       report' = [report EXCEPT ![t] = Append(@, [cond |-> c, wp |-> w, torn |-> Wiping])]
  /\ IF z + 1 < num_zones THEN Do(t, "report", z + 1) ELSE Do(t, "none", 0)
  /\ UNCHANGED <<vars, disk, token, auxes, settled>>

\* SIGINT is delivered to thread t.
Interrupt(t) ==
  /\ pc[t] \in SignalAt /\ Doing(t, "none") /\ auxes < MaxAux
  /\ auxes' = auxes + 1
  /\ Do(t, "signal", 0)
  /\ UNCHANGED <<vars, disk, token, report, settled>>

\* Mutant: the lock of a zone is not given back.
sigint_handler_KeepLock(t) ==
  LET z == aux[t].z IN
  /\ Doing(t, "signal") /\ zone_locks[z] = None
  /\ zone_locks' = [zone_locks EXCEPT ![z] = t]
  /\ IF z + 1 < num_zones THEN Do(t, "signal", z + 1) ELSE Do(t, "none", 0)
  /\ UNCHANGED <<zoneVars, counters, global_lock, pc, args, result, victim, loaded, started>>
  /\ UNCHANGED <<disk, token, report, auxes, settled>>

\* One round of the handler's loop: the lock of a zone is taken, its
\* statistics are printed, the lock is dropped.
sigint_handler(t) ==
  LET z == aux[t].z IN
  /\ Doing(t, "signal") /\ zone_locks[z] = None
  /\ IF z + 1 < num_zones THEN Do(t, "signal", z + 1) ELSE Do(t, "none", 0)
  /\ UNCHANGED <<vars, disk, token, report, auxes, settled>>

-----------------------------------------------------------------------------
Outside(t) ==
  raw_write(t) \/ raw_discard(t) \/ zoned_read(t) \/ zoned_report_zones(t) \/ sigint_handler(t)

ServerNext ==
  \/ \E t \in Thread, o \in Ops, z \in Zone, off \in Sector, n \in 0 .. Capacity :
       /\ o \notin {"write", "append"} => n = 0
       /\ o \in {"write", "append"} => n > 0
       /\ o # "write" => off = 0
       /\ o = "reset_all" => z = 0
       /\ CallOp(t, o, z, off, n)
  \/ \E t \in Thread : Inside(t) \/ Outside(t) \/ Interrupt(t)
  \/ \E t \in Thread, z \in Zone : StartAux(t, "read", z)
  \/ \E t \in Thread : StartAux(t, "report", 0)

ServerSpec == ServerInit /\ [][ServerNext]_<<vars, auxVars>>

\* A thread inside an operation, a callback or a signal handler goes on when
\* the lock it spins on is free. A run starts finitely many operations, so no
\* thread is overtaken for ever.
ServerFairSpec ==
  /\ ServerSpec
  /\ \A t \in Thread : WF_<<vars, auxVars>>(Inside(t)) /\ WF_<<vars, auxVars>>(Outside(t))

-----------------------------------------------------------------------------
(* Properties                                                              *)

\* raw_write and raw_discard come after the zone lock was dropped, in any
\* order among the threads. As long as the host keeps resets apart, every
\* sector whose write has returned holds the data of that write.
SettledOnDisk ==
  \A z \in SeqZone, p \in Sector : settled[z][p] # 0 => disk[z][p] = settled[z][p]

\* zoned_report_zones copies the zones one by one between the steps of others,
\* also between the two halves of a write that fills its zone and before, after
\* and between the resets: each zone is reported in a state that it had between
\* two operations. The exception is what zoned_reset_all_zone was clearing when
\* it was copied.
ReportsConsistent ==
  \A t \in Thread : \A i \in 1 .. Len(report[t]) :
    LET r == report[t][i] IN
    r.cond # "NOT_WP" /\ ~r.torn =>
      /\ r.cond = "EMPTY" => r.wp = 0
      /\ r.cond = "FULL" <=> r.wp = Capacity
      /\ r.cond = "CLOSED" => r.wp > 0

\* Every operation, read and report returns and every signal is handled, when
\* signals find their thread outside the zone operations.
AllReturn ==
  \A t \in Thread : (pc[t] # "idle" \/ ~Doing(t, "none")) ~> (pc[t] = "idle" /\ Doing(t, "none"))
=============================================================================
