----------------------------- MODULE ZonedCommon -----------------------------
(***************************************************************************)
(* The zone bookkeeping of the zoned example servers                       *)
(* (examples/zoned-common.h): the callbacks that the library's threads run *)
(* concurrently, with a spin lock per zone and one for the counters.       *)
(*                                                                         *)
(* Sectors are counted from the start of their zone. zoned_read and        *)
(* zoned_report_zones take one zone lock at a time and change no zone, and *)
(* the raw writes and discards come after the locks: they are added in     *)
(* ZonedServer. The statistics are left out.                               *)
(***************************************************************************)
EXTENDS Integers, FiniteSets

CONSTANTS
  Thread,                  \* library threads
  num_zones,               \* zones are numbered from 0
  num_conventional_zones,  \* the first of them are conventional
  max_open_zones, max_active_zones,
  Capacity,                \* sectors in a zone
  Ops,                     \* the operations the block layer sends
  MaxOps,                  \* bound: how many operations a run may start
  None                     \* a lock nobody holds

Zone == 0 .. num_zones - 1
SeqZone == num_conventional_zones .. num_zones - 1

OpCode == {"write", "append", "open", "close", "finish", "reset", "reset_all"}
OpenCond == {"IMP_OPEN", "EXP_OPEN"}
ActiveCond == OpenCond \cup {"CLOSED"}
Cond == ActiveCond \cup {"NOT_WP", "EMPTY", "FULL"}
Status == {"BLK_STS_OK", "BLK_STS_IOERR", "BLK_STS_ZONE_OPEN_RESOURCE",
           "BLK_STS_ZONE_ACTIVE_RESOURCE"}

ASSUME ZonedConstantsOK ==
  /\ num_zones \in Nat \ {0} /\ num_conventional_zones \in 0 .. num_zones
  /\ max_open_zones \in Nat /\ max_active_zones \in Nat
  /\ Capacity \in Nat \ {0} /\ MaxOps \in Nat
  /\ Ops \subseteq OpCode /\ None \notin Thread

VARIABLES
  cond, wp,                                         \* zone_info
  num_open_zones, num_imp_open_zones, num_active_zones,
  zone_locks, global_lock,                          \* who holds them
  pc, op, zone, offset, length, result,             \* the call a thread is in
  victim,                                           \* the loop of close_imp_open_zone
  loaded,                                           \* wp as read by wp += length
  started,                                          \* operations so far
  granted                                           \* history: sectors given to writers since the reset

zoneVars == <<cond, wp, granted>>
counters == <<num_open_zones, num_imp_open_zones, num_active_zones>>
args == <<op, zone, offset, length>>
vars == <<zoneVars, counters, zone_locks, global_lock, pc, args, result, victim,
          loaded, started>>

FreshCond == [z \in Zone |-> IF z \in SeqZone THEN "EMPTY" ELSE "NOT_WP"]

Init ==
  /\ cond = FreshCond
  /\ wp = [z \in Zone |-> 0]
  /\ granted = [z \in Zone |-> {}]
  /\ num_open_zones = 0 /\ num_imp_open_zones = 0 /\ num_active_zones = 0
  /\ zone_locks = [z \in Zone |-> None]
  /\ global_lock = None
  /\ pc = [t \in Thread |-> "idle"]
  /\ op = [t \in Thread |-> "open"]
  /\ zone = [t \in Thread |-> 0]
  /\ offset = [t \in Thread |-> 0]
  /\ length = [t \in Thread |-> 0]
  /\ result = [t \in Thread |-> "BLK_STS_OK"]
  /\ victim = [t \in Thread |-> 0]
  /\ loaded = [t \in Thread |-> 0]
  /\ started = 0

At(t, l) == pc[t] = l
Goto(t, l) == pc' = [pc EXCEPT ![t] = l]
Unlock(t) == zone_locks' = [zone_locks EXCEPT ![zone[t]] = None]

\* The call returns: the zone lock is dropped and the thread is idle again.
Return(t, status) ==
  /\ Goto(t, "idle")
  /\ result' = [result EXCEPT ![t] = status]
  /\ Unlock(t)

\* The library calls one of the operations.
Call(t, o, z, off, n) ==
  /\ At(t, "idle") /\ started < MaxOps
  /\ started' = started + 1
  /\ op' = [op EXCEPT ![t] = o]
  /\ zone' = [zone EXCEPT ![t] = z]
  /\ offset' = [offset EXCEPT ![t] = off]
  /\ length' = [length EXCEPT ![t] = n]
  /\ Goto(t, IF o \in {"write", "append"} THEN "write" ELSE o)
  /\ UNCHANGED <<zoneVars, counters, zone_locks, global_lock, result, victim, loaded>>

-----------------------------------------------------------------------------
(* Reading a zone without the global lock                                  *)

\* initialize_zone_info is under way in zoned_reset_all_zone: it clears all
\* zones and then fills in their fields one by one, without the zone locks.
Wiping == \E u \in Thread : At(u, "wiping")

\* What may be read of a field meanwhile: its old value, zero, or its new one.
\* A cleared start or wp is the first sector of the disk.
SeenCond(z) == {cond[z]} \cup (IF Wiping THEN {"NOT_WP", FreshCond[z]} ELSE {})
SeenWp(z) == {wp[z]} \cup (IF Wiping THEN {0 - z * Capacity, 0} ELSE {})
SeenEnd(z) == {Capacity} \cup
              (IF Wiping THEN {0, 0 - z * Capacity, Capacity - z * Capacity} ELSE {})

-----------------------------------------------------------------------------
(* Writing                                                                 *)

\* Where a write goes, and whether it may, with the write pointer w, the end
\* and the condition c of the zone as they were read.
WriteAt(t, w) == IF op[t] = "append" THEN w ELSE offset[t]
WriteRefused(t, w, end, c) ==
  \/ WriteAt(t, w) # w
  \/ end < WriteAt(t, w) + length[t]
  \/ c \notin {"EMPTY"} \cup ActiveCond

\* Mutant: the zone lock is dropped once the checks are done.
zoned_write_common_EarlyUnlock(t) ==
  LET z == zone[t] IN
  /\ At(t, "write") /\ zone_locks[z] = None
  /\ IF WriteRefused(t, wp[z], Capacity, cond[z]) THEN Goto(t, "idle") /\ UNCHANGED offset
     ELSE /\ offset' = [offset EXCEPT ![t] = WriteAt(t, wp[z])]
          /\ Goto(t, IF cond[z] \in OpenCond THEN "load" ELSE "open_locked")
  /\ UNCHANGED <<zoneVars, counters, zone_locks, global_lock, op, zone, length, result,
                 victim, loaded, started>>

\* zoned_write_common: take the zone lock and check. A conventional zone has
\* no write pointer, so the call is over; while its type is cleared it is
\* taken for a zone that cannot be written.
zoned_write_common(t) ==
  LET z == zone[t] IN
  /\ At(t, "write") /\ zone_locks[z] = None
  /\ \/ /\ z \notin SeqZone
        /\ Goto(t, "idle")
        /\ \/ /\ op[t] # "append"
              /\ result' = [result EXCEPT ![t] = "BLK_STS_OK"]
           \/ /\ op[t] = "append" \/ Wiping
              /\ result' = [result EXCEPT ![t] = "BLK_STS_IOERR"]
        /\ UNCHANGED <<zone_locks, offset>>
     \/ /\ z \in SeqZone
        /\ \E w \in SeenWp(z), end \in SeenEnd(z), c \in SeenCond(z) : WriteRefused(t, w, end, c)
        /\ Goto(t, "idle")
        /\ result' = [result EXCEPT ![t] = "BLK_STS_IOERR"]
        /\ UNCHANGED <<zone_locks, offset>>
     \/ /\ z \in SeqZone
        /\ zone_locks' = [zone_locks EXCEPT ![z] = t]
        /\ \E w \in SeenWp(z), end \in SeenEnd(z), c \in SeenCond(z) :
             /\ ~WriteRefused(t, w, end, c)
             /\ offset' = [offset EXCEPT ![t] = WriteAt(t, w)]
             /\ Goto(t, IF c \in OpenCond THEN "load" ELSE "open_locked")
        /\ UNCHANGED result
  /\ UNCHANGED <<zoneVars, counters, global_lock, op, zone, length, victim, loaded, started>>

\* wp += length, as the processor does it: zoned_reset_all_zone does not hold
\* the zone lock and may come between.
LoadWp(t) ==
  /\ At(t, "load")
  /\ \E w \in SeenWp(zone[t]) : loaded' = [loaded EXCEPT ![t] = w]
  /\ Goto(t, "store")
  /\ UNCHANGED <<zoneVars, counters, zone_locks, global_lock, args, result, victim, started>>

\* The store, and the test for a full zone. A store into a zone that is yet to
\* be initialised is lost with ResetAllDone; one that comes after it is taken
\* when the whole reset is done.
StoreWp(t) ==
  LET z == zone[t]
      new == loaded[t] + length[t]
  IN
  /\ At(t, "store")
  /\ wp' = [wp EXCEPT ![z] = new]
  /\ granted' = [granted EXCEPT ![z] = @ \cup (offset[t] .. offset[t] + length[t] - 1)]
  /\ \/ /\ new = Capacity \/ Wiping
        /\ Goto(t, "full") /\ UNCHANGED <<zone_locks, result>>
     \/ /\ new # Capacity \/ Wiping
        /\ Return(t, "BLK_STS_OK")
  /\ UNCHANGED <<cond, counters, global_lock, args, victim, loaded, started>>

-----------------------------------------------------------------------------
(* Opening                                                                 *)

\* zoned_open_zone, up to the call of open_zone_locked.
zoned_open_zone(t) ==
  LET z == zone[t] IN
  /\ At(t, "open") /\ zone_locks[z] = None
  /\ \E c \in SeenCond(z) :
       IF c \in {"EMPTY", "IMP_OPEN", "CLOSED"}
       THEN /\ zone_locks' = [zone_locks EXCEPT ![z] = t]
            /\ Goto(t, "open_locked")
            /\ UNCHANGED result
       ELSE /\ Goto(t, "idle")
            /\ result' = [result EXCEPT ![t] = IF c = "EXP_OPEN" THEN "BLK_STS_OK"
                                               ELSE "BLK_STS_IOERR"]
            /\ UNCHANGED zone_locks
  /\ UNCHANGED <<zoneVars, counters, global_lock, args, victim, loaded, started>>

\* Where the caller of open_zone_locked goes on.
AfterOpen(t, status) ==
  IF op[t] # "open" /\ status = "BLK_STS_OK"
  THEN Goto(t, "load") /\ UNCHANGED <<zone_locks, result>>
  ELSE Return(t, status)

\* The zone is open already, or cannot be opened: FULL or NOT_WP.
OpenAlready(t) ==
  LET z == zone[t]
      toExplicit == cond[z] = "IMP_OPEN" /\ op[t] = "open"
  IN
  /\ At(t, "open_locked") /\ global_lock = None
  /\ cond[z] \notin {"EMPTY", "CLOSED"}
  /\ cond' = IF toExplicit THEN [cond EXCEPT ![z] = "EXP_OPEN"] ELSE cond
  /\ num_imp_open_zones' = num_imp_open_zones - (IF toExplicit THEN 1 ELSE 0)
  /\ AfterOpen(t, IF cond[z] \in OpenCond THEN "BLK_STS_OK" ELSE "BLK_STS_IOERR")
  /\ UNCHANGED <<wp, granted, num_open_zones, num_active_zones, global_lock, args,
                 victim, loaded, started>>

TooManyActive(z) == cond[z] = "EMPTY" /\ num_active_zones >= max_active_zones
TooManyOpen == num_open_zones >= max_open_zones

\* num_active_zones goes up before the limit on open zones is looked at.
CountActive(z) ==
  num_active_zones' = num_active_zones + (IF cond[z] = "EMPTY" THEN 1 ELSE 0)

OpenRefused(t) ==
  LET z == zone[t] IN
  /\ At(t, "open_locked") /\ global_lock = None
  /\ cond[z] \in {"EMPTY", "CLOSED"}
  /\ \/ TooManyActive(z) /\ AfterOpen(t, "BLK_STS_ZONE_ACTIVE_RESOURCE") /\ UNCHANGED num_active_zones
     \/ /\ ~TooManyActive(z) /\ TooManyOpen /\ num_imp_open_zones = 0
        /\ AfterOpen(t, "BLK_STS_ZONE_OPEN_RESOURCE")
        /\ CountActive(z)
  /\ UNCHANGED <<zoneVars, num_open_zones, num_imp_open_zones, global_lock, args,
                 victim, loaded, started>>

\* Mutant: an implicit open is not counted as such.
OpenGranted_Uncounted(t) ==
  LET z == zone[t] IN
  /\ At(t, "open_locked") /\ global_lock = None
  /\ cond[z] \in {"EMPTY", "CLOSED"} /\ ~TooManyActive(z) /\ ~TooManyOpen
  /\ CountActive(z)
  /\ num_open_zones' = num_open_zones + 1
  /\ cond' = [cond EXCEPT ![z] = IF op[t] = "open" THEN "EXP_OPEN" ELSE "IMP_OPEN"]
  /\ AfterOpen(t, "BLK_STS_OK")
  /\ UNCHANGED <<wp, granted, num_imp_open_zones, global_lock, args, victim, loaded, started>>

OpenGranted(t) ==
  LET z == zone[t] IN
  /\ At(t, "open_locked") /\ global_lock = None
  /\ cond[z] \in {"EMPTY", "CLOSED"} /\ ~TooManyActive(z) /\ ~TooManyOpen
  /\ CountActive(z)
  /\ num_open_zones' = num_open_zones + 1
  /\ IF op[t] = "open"
     THEN cond' = [cond EXCEPT ![z] = "EXP_OPEN"] /\ UNCHANGED num_imp_open_zones
     ELSE /\ cond' = [cond EXCEPT ![z] = "IMP_OPEN"]
          /\ num_imp_open_zones' = num_imp_open_zones + 1
  /\ AfterOpen(t, "BLK_STS_OK")
  /\ UNCHANGED <<wp, granted, global_lock, args, victim, loaded, started>>

\* At the limit, with an implicitly open zone to close: open_zone_locked keeps
\* the global lock and calls close_imp_open_zone.
OpenEvicts(t) ==
  LET z == zone[t] IN
  /\ At(t, "open_locked") /\ global_lock = None
  /\ cond[z] \in {"EMPTY", "CLOSED"} /\ ~TooManyActive(z)
  /\ TooManyOpen /\ num_imp_open_zones > 0
  /\ CountActive(z)
  /\ global_lock' = t
  /\ victim' = [victim EXCEPT ![t] = num_conventional_zones]
  /\ Goto(t, "evict")
  /\ UNCHANGED <<zoneVars, num_open_zones, num_imp_open_zones, zone_locks, args,
                 result, loaded, started>>

\* Mutant: the zone is closed without being taken off num_open_zones.
close_imp_open_zone_Uncounted(t) ==
  LET v == victim[t] IN
  /\ At(t, "evict") /\ v < num_zones
  /\ IF v # zone[t] /\ zone_locks[v] = None /\ cond[v] = "IMP_OPEN"
     THEN /\ cond' = [cond EXCEPT ![v] = "CLOSED"]
          /\ num_imp_open_zones' = num_imp_open_zones - 1
          /\ victim' = [victim EXCEPT ![t] = num_zones]
     ELSE /\ victim' = [victim EXCEPT ![t] = v + 1]
          /\ UNCHANGED <<cond, num_imp_open_zones>>
  /\ UNCHANGED <<wp, granted, num_open_zones, num_active_zones, zone_locks, global_lock, pc,
                 args, result, loaded, started>>

\* One round of the loop: another zone's lock is taken while the thread holds
\* its own zone's lock and the global one.
close_imp_open_zone(t) ==
  LET v == victim[t] IN
  /\ At(t, "evict") /\ v < num_zones
  /\ v # zone[t] => zone_locks[v] = None
  /\ IF v # zone[t] /\ cond[v] = "IMP_OPEN"
     THEN /\ cond' = [cond EXCEPT ![v] = "CLOSED"]
          /\ num_open_zones' = num_open_zones - 1
          /\ num_imp_open_zones' = num_imp_open_zones - 1
          /\ victim' = [victim EXCEPT ![t] = num_zones]
     ELSE /\ victim' = [victim EXCEPT ![t] = v + 1]
          /\ UNCHANGED <<cond, num_open_zones, num_imp_open_zones>>
  /\ UNCHANGED <<wp, granted, num_active_zones, zone_locks, global_lock, pc, args,
                 result, loaded, started>>

\* The loop is over: the break leaves the zone as it was, and the result OK.
EvictDone(t) ==
  /\ At(t, "evict") /\ victim[t] = num_zones
  /\ global_lock' = None
  /\ AfterOpen(t, "BLK_STS_OK")
  /\ UNCHANGED <<zoneVars, counters, args, victim, loaded, started>>

-----------------------------------------------------------------------------
(* Closing, finishing, resetting                                           *)

\* The zone lock of the other operations, whose work needs the global lock too.
LockZone(t) ==
  /\ pc[t] \in {"close", "finish", "reset"} /\ zone_locks[zone[t]] = None
  /\ zone_locks' = [zone_locks EXCEPT ![zone[t]] = t]
  /\ Goto(t, CASE pc[t] = "close" -> "close_locked"
               [] pc[t] = "reset" -> "reset_locked"
               [] OTHER -> "full")
  /\ UNCHANGED <<zoneVars, counters, global_lock, args, result, victim, loaded, started>>

\* The fall-through cases: an open zone is also active, and so on.
Uncount(z, keepActive) ==
  /\ num_imp_open_zones' = num_imp_open_zones - (IF cond[z] = "IMP_OPEN" THEN 1 ELSE 0)
  /\ num_open_zones' = num_open_zones - (IF cond[z] \in OpenCond THEN 1 ELSE 0)
  /\ num_active_zones' = num_active_zones - (IF cond[z] \in ActiveCond /\ ~keepActive THEN 1 ELSE 0)

mark_zone_full_locked(t) ==
  LET z == zone[t] IN
  /\ At(t, "full") /\ global_lock = None
  /\ Uncount(z, FALSE)
  /\ IF cond[z] = "NOT_WP" THEN UNCHANGED <<cond, wp>>
     ELSE cond' = [cond EXCEPT ![z] = "FULL"] /\ wp' = [wp EXCEPT ![z] = Capacity]
  /\ Return(t, "BLK_STS_OK")
  /\ UNCHANGED <<granted, global_lock, args, victim, loaded, started>>

\* Mutant: a zone nothing was written to stays active.
zoned_close_zone_KeepActive(t) ==
  LET z == zone[t] IN
  /\ At(t, "close_locked") /\ global_lock = None
  /\ Uncount(z, TRUE)
  /\ cond' = IF cond[z] \in ActiveCond
             THEN [cond EXCEPT ![z] = IF wp[z] = 0 THEN "EMPTY" ELSE "CLOSED"] ELSE cond
  /\ Return(t, "BLK_STS_OK")
  /\ UNCHANGED <<wp, granted, global_lock, args, victim, loaded, started>>

\* A zone nothing was written to becomes empty again.
zoned_close_zone(t) ==
  LET z == zone[t] IN
  /\ At(t, "close_locked") /\ global_lock = None
  /\ Uncount(z, wp[z] # 0)
  /\ cond' = IF cond[z] \in ActiveCond
             THEN [cond EXCEPT ![z] = IF wp[z] = 0 THEN "EMPTY" ELSE "CLOSED"] ELSE cond
  /\ Return(t, IF cond[z] \in ActiveCond THEN "BLK_STS_OK" ELSE "BLK_STS_IOERR")
  /\ UNCHANGED <<wp, granted, global_lock, args, victim, loaded, started>>

\* Mutant: the write pointer is not moved back.
zoned_reset_zone_KeepWp(t) ==
  LET z == zone[t] IN
  /\ At(t, "reset_locked") /\ global_lock = None
  /\ Uncount(z, FALSE)
  /\ cond' = [cond EXCEPT ![z] = IF @ = "NOT_WP" THEN @ ELSE "EMPTY"]
  /\ granted' = [granted EXCEPT ![z] = {}]
  /\ Return(t, "BLK_STS_OK")
  /\ UNCHANGED <<wp, global_lock, args, victim, loaded, started>>

zoned_reset_zone(t) ==
  LET z == zone[t] IN
  /\ At(t, "reset_locked") /\ global_lock = None
  /\ Uncount(z, FALSE)
  /\ IF cond[z] \in ActiveCond \cup {"FULL"}
     THEN /\ cond' = [cond EXCEPT ![z] = "EMPTY"]
          /\ wp' = [wp EXCEPT ![z] = 0]
          /\ granted' = [granted EXCEPT ![z] = {}]
     ELSE UNCHANGED zoneVars
  /\ Return(t, IF cond[z] = "NOT_WP" THEN "BLK_STS_IOERR" ELSE "BLK_STS_OK")
  /\ UNCHANGED <<global_lock, args, victim, loaded, started>>

\* The global lock is taken, and no other: initialize_zone_info begins.
zoned_reset_all_zone(t) ==
  /\ At(t, "reset_all") /\ global_lock = None
  /\ global_lock' = t
  /\ Goto(t, "wiping")
  /\ UNCHANGED <<zoneVars, counters, zone_locks, args, result, victim, loaded, started>>

\* All zones and the counters are initialised, and the lock is dropped. Until
\* then readers see what SeenCond, SeenWp and SeenEnd say.
ResetAllDone(t) ==
  /\ At(t, "wiping")
  /\ cond' = FreshCond
  /\ wp' = [z \in Zone |-> 0]
  /\ granted' = [z \in Zone |-> {}]
  /\ num_open_zones' = 0 /\ num_imp_open_zones' = 0 /\ num_active_zones' = 0
  /\ global_lock' = None
  /\ Goto(t, "idle")
  /\ result' = [result EXCEPT ![t] = "BLK_STS_OK"]
  /\ UNCHANGED <<zone_locks, args, victim, loaded, started>>

-----------------------------------------------------------------------------
\* What a thread does inside an operation.
Step(t) ==
  \/ zoned_write_common(t) \/ LoadWp(t) \/ StoreWp(t)
  \/ zoned_open_zone(t) \/ OpenAlready(t) \/ OpenRefused(t) \/ OpenGranted(t)
  \/ OpenEvicts(t) \/ close_imp_open_zone(t) \/ EvictDone(t)
  \/ LockZone(t) \/ mark_zone_full_locked(t) \/ zoned_close_zone(t)
  \/ zoned_reset_zone(t) \/ zoned_reset_all_zone(t) \/ ResetAllDone(t)

\* Only writes have a length, and only a plain write chooses its position.
Next ==
  \/ \E t \in Thread, o \in Ops, z \in Zone, off \in 0 .. Capacity - 1, n \in 0 .. Capacity :
       /\ o \notin {"write", "append"} => n = 0
       /\ o \in {"write", "append"} => n > 0
       /\ o # "write" => off = 0
       /\ o = "reset_all" => z = 0
       /\ Call(t, o, z, off, n)
  \/ \E t \in Thread : Step(t)

Spec == Init /\ [][Next]_vars

-----------------------------------------------------------------------------
(* Properties                                                              *)

Label == {"idle", "write", "load", "store", "open", "open_locked", "evict", "close",
          "close_locked", "finish", "full", "reset", "reset_locked", "reset_all", "wiping"}

\* The ranges of the variables. The counters are unsigned in the code: going
\* below zero would wrap around. A write pointer read while all zones are
\* cleared lies before its zone.
TypeOK ==
  /\ cond \in [Zone -> Cond]
  /\ wp \in [Zone -> Int]
  /\ granted \in [Zone -> SUBSET Int]
  /\ num_open_zones \in Nat /\ num_imp_open_zones \in Nat /\ num_active_zones \in Nat
  /\ zone_locks \in [Zone -> Thread \cup {None}]
  /\ global_lock \in Thread \cup {None}
  /\ pc \in [Thread -> Label]
  /\ op \in [Thread -> OpCode]
  /\ zone \in [Thread -> Zone]
  /\ offset \in [Thread -> Int] /\ length \in [Thread -> Nat] /\ loaded \in [Thread -> Int]
  /\ result \in [Thread -> Status]
  /\ victim \in [Thread -> 0 .. num_zones]
  /\ started \in 0 .. MaxOps

Count(conds) == Cardinality({z \in Zone : cond[z] \in conds})

\* The counters that the limits are checked against say how many zones are
\* implicitly open, open and active, whatever the threads are doing.
CountersExact ==
  global_lock = None =>
    /\ num_imp_open_zones = Count({"IMP_OPEN"})
    /\ num_open_zones = Count(OpenCond)
    /\ num_active_zones = Count(ActiveCond)

\* Also when zones are closed to make room: the two counters of open zones
\* stay exact and within the limit, and no active zone goes uncounted.
OpenCountExact ==
  global_lock = None =>
    /\ num_imp_open_zones = Count({"IMP_OPEN"})
    /\ num_open_zones = Count(OpenCond)
    /\ num_open_zones <= max_open_zones
    /\ num_active_zones >= Count(ActiveCond)

\* A zone nobody is working on has the condition its write pointer calls for.
CondMatchesWp ==
  \A z \in SeqZone : zone_locks[z] = None =>
    /\ cond[z] = "EMPTY" => wp[z] = 0
    /\ cond[z] = "FULL" <=> wp[z] = Capacity
    /\ cond[z] = "CLOSED" => wp[z] > 0
    /\ wp[z] <= Capacity

\* The positions that concurrent writes and appends were given do not overlap
\* and leave no gap below the write pointer.
GrantsDisjoint ==
  /\ \A z \in SeqZone : zone_locks[z] = None /\ cond[z] # "FULL" => granted[z] = 0 .. wp[z] - 1
  /\ \A t \in Thread : At(t, "store") =>
       (offset[t] .. offset[t] + length[t] - 1) \cap granted[zone[t]] = {}

\* blk_status.h: a command refused with BLK_STS_ZONE_ACTIVE_RESOURCE "should
\* be successful if resubmitted after the number of active zones decreases
\* below the device's limits": it is refused only at the limit.
RefusedOnlyAtLimit ==
  [][\A t \in Thread :
       /\ result[t] # "BLK_STS_ZONE_ACTIVE_RESOURCE"
       /\ result'[t] = "BLK_STS_ZONE_ACTIVE_RESOURCE"
       => Count(ActiveCond) >= max_active_zones]_vars
=============================================================================
