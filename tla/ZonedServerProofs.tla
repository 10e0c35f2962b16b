-------------------------- MODULE ZonedServerProofs --------------------------
(***************************************************************************)
(* Proofs about ZonedServer: a whole zoned server under a host that keeps  *)
(* the resets of a zone apart from its other operations (Ordered), with    *)
(* limits that let no open close another zone. Reads, reports and signals  *)
(* come at any time.                                                       *)
(***************************************************************************)
EXTENDS ZonedServer, ZonedCommonProofs

USE DEF zoneVars, counters, args, Doing, Do

sVars == <<vars, auxVars>>

\* Nothing but the bookkeeping of ZonedCommon changes its variables.
LEMMA ServerMoves == [ServerNext]_sVars => [Next]_vars
<1> SUFFICES ASSUME [ServerNext]_sVars PROVE [Next]_vars
  OBVIOUS
<1>0. CASE UNCHANGED sVars
  BY <1>0 DEF sVars
<1>1. ASSUME NEW t \in Thread, NEW o \in Ops, NEW z \in Zone, NEW off \in Sector, NEW n \in 0 .. Capacity,
             /\ o \notin {"write", "append"} => n = 0
             /\ o \in {"write", "append"} => n > 0
             /\ o # "write" => off = 0
             /\ o = "reset_all" => z = 0
             /\ CallOp(t, o, z, off, n)
      PROVE  Next
  <2>1. Call(t, o, z, off, n) /\ off \in 0 .. Capacity - 1
    BY <1>1 DEF CallOp, Sector
  <2> QED  BY <1>1, <2>1 DEF Next
<1>2. ASSUME NEW t \in Thread, Inside(t) PROVE Next
  BY <1>2 DEF Inside, Next
<1>3. ASSUME NEW t \in Thread, Outside(t) \/ Interrupt(t) PROVE UNCHANGED vars
  BY <1>3 DEF Outside, Interrupt, raw_write, raw_discard, zoned_read, zoned_report_zones, sigint_handler
<1>4. ASSUME NEW t \in Thread, NEW d, NEW z, StartAux(t, d, z) PROVE UNCHANGED vars
  BY <1>4 DEF StartAux
<1> QED  BY <1>0, <1>1, <1>2, <1>3, <1>4 DEF ServerNext

\* The server behaves as the zone bookkeeping does, whatever its callbacks do
\* outside the locks: what is proved of Spec holds of the server.
THEOREM ServerIsZoned == ServerSpec => Spec
<1>1. ServerInit => Init
  BY DEF ServerInit
<1> QED  BY <1>1, ServerMoves, PTL DEF ServerSpec, Spec, sVars

\* In particular its counters are exact, with no condition on the host.
THEOREM ServerCountersExact == RoomForAll => (ServerSpec => []CountersExact)
<1> SUFFICES ASSUME RoomForAll PROVE ServerSpec => []CountersExact
  OBVIOUS
<1>1. Spec => []CountersExact
  BY ActiveZonesCounted
<1> QED  BY <1>1, ServerIsZoned, PTL

-----------------------------------------------------------------------------
(* The host's order                                                        *)

\* Where a thread can be inside an operation that closes no other zone.
Path(o) ==
  CASE o \in {"write", "append"} -> {"write", "open_locked", "load", "store", "full"}
    [] o = "open" -> {"open", "open_locked"}
    [] o = "close" -> {"close", "close_locked"}
    [] o = "finish" -> {"finish", "full"}
    [] o = "reset" -> {"reset", "reset_locked"}
    [] OTHER -> {"reset_all", "wiping"}

OnPath == \A t \in Thread : pc[t] # "idle" => pc[t] \in Path(op[t])

AuxKind == {"none", "raw_write", "raw_discard", "read", "report", "signal"}

\* The callback's work after the locks belongs to the operation.
InOp(t) == pc[t] # "idle" \/ aux[t].do \in {"raw_write", "raw_discard"}

\* What MayCall makes of two operations under way at the same time.
Apart(t, u) ==
  InOp(t) /\ InOp(u) =>
    /\ "reset_all" \notin {op[t], op[u]}
    /\ zone[t] = zone[u] => "reset" \notin {op[t], op[u]}

HostOrder ==
  /\ aux \in [Thread -> [do : AuxKind, z : Zone]]
  /\ \A t \in Thread : aux[t].do \notin {"none", "signal"} => pc[t] = "idle"
  /\ \A t, u \in Thread : t # u => Apart(t, u)

LEMMA PathStep ==
  ASSUME TypeOK, ZonesOK, ZonesOK', OnPath, [Next]_vars
  PROVE  OnPath'
<1>t. /\ pc \in [Thread -> Label] /\ op \in [Thread -> OpCode]
      /\ \A t \in Thread : pc[t] # "evict" /\ pc'[t] # "evict"
  BY DEF TypeOK, ZonesOK, ThreadOK
<1>p. /\ \A o \in {"write", "append"} : Path(o) = {"write", "open_locked", "load", "store", "full"}
      /\ Path("open") = {"open", "open_locked"} /\ Path("close") = {"close", "close_locked"}
      /\ Path("finish") = {"finish", "full"} /\ Path("reset") = {"reset", "reset_locked"}
      /\ Path("reset_all") = {"reset_all", "wiping"}
  BY DEF Path
<1>o. \A t \in Thread : op[t] \in {"write", "append", "open", "close", "finish", "reset", "reset_all"}
  BY <1>t DEF OpCode
<1>g. ASSUME NEW t \in Thread, NEW l, Goto(t, l), UNCHANGED op, l = "idle" \/ l \in Path(op[t])
      PROVE  OnPath'
  BY <1>g, <1>t DEF Goto, OnPath
<1>r. ASSUME NEW t \in Thread, NEW s, Return(t, s), UNCHANGED op PROVE OnPath'
  BY <1>r, <1>g DEF Return
<1>a. ASSUME NEW t \in Thread, NEW s, AfterOpen(t, s), UNCHANGED op, pc[t] = "open_locked" PROVE OnPath'
  <2>1. pc[t] \in Path(op[t])
    BY <1>a DEF OnPath
  <2>2. op[t] # "open" => "load" \in Path(op[t])
    BY <1>a, <2>1, <1>p, <1>o
  <2> QED  BY <1>a, <2>2, <1>g, <1>r DEF AfterOpen
<1>0. CASE UNCHANGED vars
  BY <1>0 DEF vars, OnPath
<1>1. ASSUME NEW t \in Thread, NEW o \in Ops, NEW z, NEW off, NEW n, Call(t, o, z, off, n)
      PROVE  OnPath'
  <2>1. o \in {"write", "append", "open", "close", "finish", "reset", "reset_all"}
    BY ZonedConstantsOK DEF OpCode
  <2>2. (IF o \in {"write", "append"} THEN "write" ELSE o) \in Path(o)
    BY <2>1, <1>p
  <2> QED  BY <1>1, <2>2, <1>t DEF Call, Goto, OnPath
<1>2. ASSUME NEW t \in Thread, Step(t) PROVE OnPath'
  <2>1. pc[t] # "idle" => pc[t] \in Path(op[t])
    BY DEF OnPath
  <2>2. CASE zoned_write_common(t)
    <3>1. "load" \in Path(op[t]) /\ "open_locked" \in Path(op[t]) /\ UNCHANGED op
      BY <2>1, <2>2, <1>p, <1>o DEF zoned_write_common, At
    <3>2. \E l \in {"idle", "load", "open_locked"} : Goto(t, l)
      BY <2>2 DEF zoned_write_common
    <3> QED  BY <3>1, <3>2, <1>g
  <2>3. CASE LoadWp(t)
    <3>1. "store" \in Path(op[t]) /\ UNCHANGED op /\ Goto(t, "store")
      BY <2>1, <2>3, <1>p, <1>o DEF LoadWp, At
    <3> QED  BY <3>1, <1>g
  <2>4. CASE StoreWp(t)
    <3>1. "full" \in Path(op[t]) /\ UNCHANGED op
      BY <2>1, <2>4, <1>p, <1>o DEF StoreWp, At
    <3>2. Goto(t, "full") \/ Return(t, "BLK_STS_OK")
      BY <2>4 DEF StoreWp
    <3> QED  BY <3>1, <3>2, <1>g, <1>r
  <2>5. CASE zoned_open_zone(t)
    <3>1. "open_locked" \in Path(op[t]) /\ UNCHANGED op
      BY <2>1, <2>5, <1>p, <1>o DEF zoned_open_zone, At
    <3>2. Goto(t, "open_locked") \/ Goto(t, "idle")
      BY <2>5 DEF zoned_open_zone
    <3> QED  BY <3>1, <3>2, <1>g
  <2>6. CASE OpenAlready(t) \/ OpenGranted(t)
    BY <2>6, <1>a DEF OpenAlready, OpenGranted, At
  <2>7. CASE OpenRefused(t)
    BY <2>7, <1>a DEF OpenRefused, At
  <2>8. ~OpenEvicts(t)
    BY <1>t DEF OpenEvicts, Goto
  <2>9. ~close_imp_open_zone(t) /\ ~EvictDone(t)
    BY <1>t DEF close_imp_open_zone, EvictDone, At
  <2>10. CASE LockZone(t)
    <3>1. PICK l : Goto(t, l) /\ l = CASE pc[t] = "close" -> "close_locked"
                                       [] pc[t] = "reset" -> "reset_locked"
                                       [] OTHER -> "full"
      BY <2>10 DEF LockZone
    <3>2. l \in Path(op[t]) /\ UNCHANGED op
      BY <2>1, <2>10, <3>1, <1>p, <1>o DEF LockZone
    <3> QED  BY <3>1, <3>2, <1>g
  <2>11. CASE mark_zone_full_locked(t) \/ zoned_close_zone(t) \/ zoned_reset_zone(t)
    BY <2>11, <1>r DEF mark_zone_full_locked, zoned_close_zone, zoned_reset_zone
  <2>12. CASE ResetAllDone(t)
    BY <2>12, <1>g DEF ResetAllDone
  <2>13. CASE zoned_reset_all_zone(t)
    <3>1. "wiping" \in Path(op[t]) /\ UNCHANGED op /\ Goto(t, "wiping")
      BY <2>1, <2>13, <1>p, <1>o DEF zoned_reset_all_zone, At
    <3> QED  BY <3>1, <1>g
  <2> QED  BY <1>2, <2>2, <2>3, <2>4, <2>5, <2>6, <2>7, <2>8, <2>9, <2>10, <2>11, <2>12, <2>13 DEF Step
<1> QED  BY <1>0, <1>1, <1>2 DEF Next

\* The host's order is kept.
LEMMA HostStep ==
  ASSUME Ordered, TypeOK, HostOrder, [ServerNext]_sVars
  PROVE  HostOrder'
<1>t. /\ aux \in [Thread -> [do : AuxKind, z : Zone]] /\ pc \in [Thread -> Label]
      /\ op \in [Thread -> OpCode] /\ zone \in [Thread -> Zone]
      /\ num_zones \in Nat \ {0} /\ 0 \in Zone
  BY ZonedConstantsOK DEF HostOrder, TypeOK, Zone
<1>k. AuxKind = {"none", "raw_write", "raw_discard", "read", "report", "signal"}
  BY DEF AuxKind
<1>0. CASE UNCHANGED sVars
  BY <1>0 DEF sVars, vars, auxVars, HostOrder, Apart, InOp
<1>1. ASSUME NEW t \in Thread, NEW o \in Ops, NEW z \in Zone, NEW off, NEW n, CallOp(t, o, z, off, n)
      PROVE  HostOrder'
  <2>1. /\ aux[t].do = "none" /\ UNCHANGED aux /\ op'[t] = o /\ zone'[t] = z
        /\ \A u \in Thread \ {t} : pc'[u] = pc[u] /\ op'[u] = op[u] /\ zone'[u] = zone[u]
    BY <1>1, <1>t DEF CallOp, Call, Goto
  <2>2. ASSUME NEW u \in Thread \ {t}, InOp(u)'
        PROVE  "reset_all" \notin {o, op[u]} /\ (zone[u] = z => "reset" \notin {o, op[u]})
    <3>1. InOp(u) /\ zone[u] \in Zone
      BY <2>1, <2>2, <1>t DEF InOp
    <3>2. Busy(u, zone[u])
      BY <3>1 DEF Busy, InOp
    <3>3. MayCall(t, o, z)
      BY <1>1 DEF CallOp
    <3> QED  BY <3>1, <3>2, <3>3 DEF MayCall
  <2>3. ASSUME NEW u \in Thread, NEW v \in Thread, u # v PROVE Apart(u, v)'
    <3>1. CASE u = t
      BY <2>1, <2>2, <2>3, <3>1 DEF Apart
    <3>2. CASE v = t
      BY <2>1, <2>2, <2>3, <3>2 DEF Apart
    <3>3. CASE u # t /\ v # t
      BY <2>1, <2>3, <3>3 DEF HostOrder, Apart, InOp
    <3> QED  BY <3>1, <3>2, <3>3
  <2> QED  BY <2>1, <2>3, <1>t DEF HostOrder
<1>2. ASSUME NEW t \in Thread, UNCHANGED <<op, zone>>,
             \A u \in Thread \ {t} : pc'[u] = pc[u] /\ aux'[u] = aux[u],
             aux' \in [Thread -> [do : AuxKind, z : Zone]],
             aux'[t].do \notin {"none", "signal"} => pc'[t] = "idle",
             InOp(t)' => InOp(t)
      PROVE  HostOrder'
  <2>1. ASSUME NEW u \in Thread, InOp(u)' PROVE InOp(u)
    BY <1>2, <2>1 DEF InOp
  <2>2. ASSUME NEW u \in Thread, NEW v \in Thread, u # v PROVE Apart(u, v)'
    BY <1>2, <2>1, <2>2 DEF HostOrder, Apart
  <2>3. ASSUME NEW u \in Thread, aux'[u].do \notin {"none", "signal"} PROVE pc'[u] = "idle"
    BY <1>2, <2>3 DEF HostOrder
  <2> QED  BY <1>2, <2>2, <2>3 DEF HostOrder
<1>3. ASSUME NEW t \in Thread, Inside(t) PROVE HostOrder'
  <2>1. AfterUnlock(t) \in {"none", "raw_write", "raw_discard"}
        /\ (AfterUnlock(t) # "none" => pc'[t] = "idle")
    BY DEF AfterUnlock
  <2>2. /\ aux' = [aux EXCEPT ![t] = [do |-> AfterUnlock(t), z |-> zone[t]]] /\ Step(t)
    BY <1>3 DEF Inside
  <2>3. /\ aux' \in [Thread -> [do : AuxKind, z : Zone]] /\ aux'[t].do = AfterUnlock(t)
        /\ \A u \in Thread \ {t} : aux'[u] = aux[u]
    BY <2>1, <2>2, <1>t, <1>k
  <2>4. /\ pc[t] # "idle" /\ UNCHANGED <<op, zone>>
        /\ \A u \in Thread \ {t} : pc'[u] = pc[u]
    <3> USE <1>t DEF At, Goto, Return, AfterOpen
    <3>1. CASE zoned_write_common(t) \/ LoadWp(t) \/ LockZone(t)
      BY <3>1 DEF zoned_write_common, LoadWp, LockZone
    <3>2. CASE StoreWp(t) \/ zoned_open_zone(t)
      BY <3>2 DEF StoreWp, zoned_open_zone
    <3>3. CASE OpenAlready(t) \/ OpenRefused(t) \/ OpenGranted(t)
      BY <3>3 DEF OpenAlready, OpenRefused, OpenGranted
    <3>4. CASE OpenEvicts(t) \/ close_imp_open_zone(t) \/ EvictDone(t)
      BY <3>4 DEF OpenEvicts, close_imp_open_zone, EvictDone
    <3>5. CASE mark_zone_full_locked(t) \/ zoned_close_zone(t)
      BY <3>5 DEF mark_zone_full_locked, zoned_close_zone
    <3>6. CASE zoned_reset_zone(t) \/ zoned_reset_all_zone(t) \/ ResetAllDone(t)
      BY <3>6 DEF zoned_reset_zone, zoned_reset_all_zone, ResetAllDone
    <3> QED  BY <2>2, <3>1, <3>2, <3>3, <3>4, <3>5, <3>6 DEF Step
  <2>5. InOp(t) /\ (aux'[t].do \notin {"none", "signal"} => pc'[t] = "idle")
    BY <2>1, <2>3, <2>4 DEF InOp
  <2> QED  BY <2>3, <2>4, <2>5, <1>2
<1>4. ASSUME NEW t \in Thread, NEW d \in AuxKind, NEW z \in Zone, UNCHANGED vars,
             aux' = [aux EXCEPT ![t] = [do |-> d, z |-> z]],
             d \notin {"none", "signal"} => pc[t] = "idle" /\ d \notin {"raw_write", "raw_discard"}
      PROVE  HostOrder'
  <2>1. /\ aux' \in [Thread -> [do : AuxKind, z : Zone]] /\ aux'[t].do = d
        /\ \A u \in Thread \ {t} : aux'[u] = aux[u]
    BY <1>4, <1>t
  <2>2. UNCHANGED <<op, zone, pc>> /\ (InOp(t)' => InOp(t))
    BY <1>4, <2>1 DEF vars, InOp
  <2>3. aux'[t].do \notin {"none", "signal"} => pc'[t] = "idle"
    BY <1>4, <2>1, <2>2
  <2> QED  BY <1>2, <2>1, <2>2, <2>3
<1>5. ASSUME NEW t \in Thread, Outside(t) \/ Interrupt(t) PROVE HostOrder'
  <2>z. aux[t].z \in Zone /\ aux[t].do \in AuxKind
    BY <1>t
  <2>1. CASE raw_write(t) \/ raw_discard(t) \/ zoned_read(t) \/ Interrupt(t)
    <3>1. UNCHANGED vars /\ \E d \in {"none", "signal"} : aux' = [aux EXCEPT ![t] = [do |-> d, z |-> 0]]
      BY <2>1 DEF raw_write, raw_discard, zoned_read, Interrupt
    <3> QED  BY <3>1, <1>4, <1>k, <1>t
  <2>2. CASE zoned_report_zones(t) \/ sigint_handler(t)
    <3>1. PICK d \in {"none", "report", "signal"}, z \in {0, aux[t].z + 1} :
             /\ UNCHANGED vars /\ aux' = [aux EXCEPT ![t] = [do |-> d, z |-> z]]
             /\ z # 0 => z < num_zones
             /\ d = "report" => aux[t].do = "report"
      BY <2>2 DEF zoned_report_zones, sigint_handler
    <3>2. z \in Zone
      BY <3>1, <2>z, <1>t DEF Zone
    <3>3. d = "report" => pc[t] = "idle"
      BY <3>1 DEF HostOrder
    <3> QED  BY <3>1, <3>2, <3>3, <1>4, <1>k
  <2> QED  BY <1>5, <2>1, <2>2 DEF Outside
<1>6. ASSUME NEW t \in Thread, NEW d \in {"read", "report"}, NEW z \in Zone, StartAux(t, d, z)
      PROVE  HostOrder'
  BY <1>6, <1>4, <1>k DEF StartAux
<1> QED  BY <1>0, <1>1, <1>3, <1>5, <1>6, <1>t DEF ServerNext

\* Only a reset of all zones gets where the zones are wiped.
LEMMA ResetAllOp ==
  ASSUME OnPath, TypeOK, NEW t \in Thread, pc[t] \in {"reset_all", "wiping"}
  PROVE  op[t] = "reset_all"
<1>1. op[t] \in OpCode /\ pc[t] \in Path(op[t])
  BY DEF OnPath, TypeOK
<1> QED  BY <1>1 DEF Path, OpCode

LEMMA OrderedAlone == OnPath /\ TypeOK /\ HostOrder => ResetAllAlone
<1> SUFFICES ASSUME OnPath, TypeOK, HostOrder, NEW t \in Thread, NEW u \in Thread,
                    pc[t] \in {"reset_all", "wiping"}, u # t, pc[u] # "idle"
             PROVE  FALSE
  BY DEF ResetAllAlone
<1>1. op[t] = "reset_all"
  BY ResetAllOp
<1> QED  BY <1>1 DEF HostOrder, Apart, InOp

-----------------------------------------------------------------------------
(* What a step of the bookkeeping gives out and takes back                 *)

Writes == {"write", "append"}

\* The positions given out grow, unless the thread resets the zone.
Grants(t) ==
  \A z \in Zone :
    \/ granted[z] \subseteq granted'[z]
    \/ granted'[z] = {} /\ (op[t] = "reset_all" \/ (op[t] = "reset" /\ zone[t] = z))

LEMMA StepGrants ==
  ASSUME TypeOK, OnPath, NEW t \in Thread, Step(t)
  PROVE  Grants(t) /\ UNCHANGED <<op, zone, length>>
<1>t. granted \in [Zone -> SUBSET Int] /\ op[t] \in OpCode /\ zone[t] \in Zone
  BY DEF TypeOK
<1>1. CASE zoned_write_common(t) \/ LoadWp(t) \/ zoned_open_zone(t) \/ LockZone(t)
           \/ zoned_reset_all_zone(t)
  BY <1>1 DEF Grants, zoned_write_common, LoadWp, zoned_open_zone, LockZone, zoned_reset_all_zone
<1>2. CASE StoreWp(t)
  BY <1>2, <1>t DEF Grants, StoreWp
<1>3. CASE OpenAlready(t) \/ OpenRefused(t) \/ OpenGranted(t) \/ OpenEvicts(t)
           \/ close_imp_open_zone(t) \/ EvictDone(t)
  BY <1>3 DEF Grants, OpenAlready, OpenRefused, OpenGranted, OpenEvicts, close_imp_open_zone, EvictDone
<1>4. CASE mark_zone_full_locked(t) \/ zoned_close_zone(t)
  BY <1>4 DEF Grants, mark_zone_full_locked, zoned_close_zone
<1>5. CASE zoned_reset_zone(t)
  <2>1. pc[t] = "reset_locked"
    BY <1>5 DEF zoned_reset_zone, At
  <2>2. "reset_locked" \in Path(op[t])
    BY <2>1 DEF OnPath
  <2>3. op[t] = "reset"
    BY <2>2, <1>t DEF Path, OpCode
  <2>4. UNCHANGED <<op, zone, length>> /\ \/ UNCHANGED granted
                                          \/ granted' = [granted EXCEPT ![zone[t]] = {}]
    BY <1>5 DEF zoned_reset_zone
  <2> QED  BY <2>3, <2>4, <1>t DEF Grants
<1>6. CASE ResetAllDone(t)
  <2>1. op[t] = "reset_all"
    BY <1>6, ResetAllOp DEF ResetAllDone, At
  <2> QED  BY <1>6, <2>1 DEF Grants, ResetAllDone
<1> QED  BY <1>1, <1>2, <1>3, <1>4, <1>5, <1>6 DEF Step

\* A write is about to mark its zone full.
FullWrite(t) == pc[t] = "full" /\ op[t] \in Writes => Extent(t) \subseteq granted[zone[t]]

\* When a write leaves its locks the positions it goes on to write to are its own.
LEMMA StepWritten ==
  ASSUME TypeOK, ZonesOK, OnPath, NEW t \in Thread, Step(t), op[t] \in Writes, FullWrite(t)
  PROVE  /\ FullWrite(t)'
         /\ AfterUnlock(t) = "raw_write" /\ zone[t] \in SeqZone => Extent(t)' \subseteq granted'[zone[t]]
<1>t. /\ granted \in [Zone -> SUBSET Int] /\ zone[t] \in Zone
      /\ pc \in [Thread -> Label] /\ result \in [Thread -> Status]
  BY DEF TypeOK
<1>u. UNCHANGED <<op, zone, length>>
  BY StepGrants
<1>p. pc[t] \in {"idle", "write", "open_locked", "load", "store", "full"}
  BY DEF OnPath, Path, Writes
<1>1. CASE zoned_write_common(t)
  <2>1. pc'[t] # "full"
    BY <1>1, <1>t DEF zoned_write_common, Goto
  <2>2. AfterUnlock(t) = "raw_write" => zone[t] \notin SeqZone
    BY <1>1, <1>t DEF zoned_write_common, Goto, AfterUnlock
  <2> QED  BY <2>1, <2>2 DEF FullWrite
<1>2. CASE LoadWp(t)
  BY <1>2, <1>t DEF LoadWp, Goto, AfterUnlock, FullWrite
<1>3. CASE StoreWp(t)
  <2>1. UNCHANGED <<offset, length, zone>> /\ granted'[zone[t]] = granted[zone[t]] \cup Extent(t)
    BY <1>3, <1>t DEF StoreWp, Extent
  <2>2. Extent(t)' \subseteq granted'[zone[t]]
    BY <2>1 DEF Extent
  <2> QED  BY <2>1, <2>2 DEF FullWrite
<1>4. CASE OpenAlready(t) \/ OpenRefused(t) \/ OpenGranted(t)
  <2>1. PICK s : AfterOpen(t, s)
    BY <1>4 DEF OpenAlready, OpenRefused, OpenGranted
  <2>2. pc'[t] = "load" \/ (pc'[t] = "idle" /\ result'[t] # "BLK_STS_OK")
    BY <2>1, <1>t DEF AfterOpen, Return, Goto, Writes
  <2> QED  BY <2>2 DEF AfterUnlock, FullWrite
<1>5. CASE OpenEvicts(t)
  BY <1>5, <1>t DEF OpenEvicts, Goto, AfterUnlock, FullWrite
<1>6. CASE mark_zone_full_locked(t)
  <2>1. /\ pc[t] = "full" /\ pc'[t] = "idle" /\ UNCHANGED <<granted, offset, length, zone>>
    BY <1>6, <1>t DEF mark_zone_full_locked, At, Return, Goto
  <2>2. Extent(t)' \subseteq granted'[zone[t]]
    BY <2>1 DEF Extent, FullWrite
  <2> QED  BY <2>1, <2>2 DEF FullWrite
<1>7. /\ ~zoned_open_zone(t) /\ ~LockZone(t) /\ ~zoned_close_zone(t) /\ ~zoned_reset_zone(t)
      /\ ~zoned_reset_all_zone(t) /\ ~ResetAllDone(t) /\ ~close_imp_open_zone(t) /\ ~EvictDone(t)
  BY <1>p DEF zoned_open_zone, LockZone, zoned_close_zone, zoned_reset_zone, zoned_reset_all_zone,
              ResetAllDone, close_imp_open_zone, EvictDone, At
<1> QED  BY <1>1, <1>2, <1>3, <1>4, <1>5, <1>6, <1>7 DEF Step

\* When a reset goes on to discard, the positions of its zones were taken back.
LEMMA StepVoid ==
  ASSUME TypeOK, OnPath, NEW t \in Thread, Step(t), AfterUnlock(t) = "raw_discard"
  PROVE  /\ op[t] \in {"reset", "reset_all"}
         /\ \A z \in Zone : op[t] = "reset_all" \/ z = zone[t] => granted'[z] = {}
<1>t. /\ granted \in [Zone -> SUBSET Int] /\ zone[t] \in Zone /\ cond[zone[t]] \in Cond
      /\ pc \in [Thread -> Label] /\ result \in [Thread -> Status]
  BY DEF TypeOK
<1>1. /\ pc'[t] = "idle" /\ result'[t] = "BLK_STS_OK"
      /\ op[t] = "reset_all" \/ (op[t] = "reset" /\ cond[zone[t]] # "EMPTY")
  BY DEF AfterUnlock
<1>2. CASE op[t] = "reset_all"
  <2>1. pc[t] # "idle" /\ (pc[t] = "wiping" => ResetAllDone(t))
    BY StepInside
  <2>2. pc[t] \in {"reset_all", "wiping"}
    BY <1>2, <2>1 DEF OnPath, Path
  <2>3. pc[t] # "reset_all"
    <3> SUFFICES ASSUME pc[t] = "reset_all" PROVE FALSE
      OBVIOUS
    <3>1. zoned_reset_all_zone(t)
      BY DEF Step, At, zoned_write_common, LoadWp, StoreWp, zoned_open_zone, OpenAlready, OpenRefused,
         OpenGranted, OpenEvicts, close_imp_open_zone, EvictDone, LockZone, mark_zone_full_locked,
         zoned_close_zone, zoned_reset_zone, ResetAllDone
    <3> QED  BY <1>1, <3>1, <1>t DEF zoned_reset_all_zone, Goto
  <2> QED  BY <1>2, <2>1, <2>2, <2>3 DEF ResetAllDone
<1>3. CASE op[t] = "reset" /\ cond[zone[t]] # "EMPTY"
  <2>1. pc[t] \in {"idle", "reset", "reset_locked"}
    BY <1>3 DEF OnPath, Path
  <2>2. ~LockZone(t)
    BY <1>1, <1>t DEF LockZone, Goto
  <2>3. zoned_reset_zone(t)
    BY <2>1, <2>2 DEF Step, At, zoned_write_common, LoadWp, StoreWp, zoned_open_zone, OpenAlready,
       OpenRefused, OpenGranted, OpenEvicts, close_imp_open_zone, EvictDone,
       mark_zone_full_locked, zoned_close_zone, zoned_reset_all_zone, ResetAllDone
  <2>4. cond[zone[t]] # "NOT_WP"
    BY <1>1, <2>3, <1>t DEF zoned_reset_zone, Return
  <2>5. cond[zone[t]] \in ActiveCond \cup {"FULL"}
    BY <1>3, <2>4, <1>t DEF Cond
  <2> QED  BY <1>3, <2>3, <2>5, <1>t DEF zoned_reset_zone
<1> QED  BY <1>1, <1>2, <1>3

-----------------------------------------------------------------------------
(* The backing store                                                       *)

DiskType ==
  /\ disk \in [Zone -> [Sector -> Nat]] /\ settled \in [Zone -> [Sector -> Nat]]
  /\ token \in [Thread -> Nat]

\* A write that has returned went to a position given out since the last
\* reset, and is still there.
Kept(z) == \A p \in Sector : settled[z][p] # 0 => p \in granted[z] /\ disk[z][p] = settled[z][p]

\* A callback that still has to write does so where it was told to.
RawWrite(t) ==
  Doing(t, "raw_write") =>
    op[t] \in Writes /\ (zone[t] \in SeqZone => Extent(t) \subseteq granted[zone[t]])

\* A callback that still has to discard finds nothing worth keeping.
RawDiscard(t) ==
  Doing(t, "raw_discard") =>
    /\ op[t] \in {"reset", "reset_all"}
    /\ \A z \in SeqZone : op[t] = "reset_all" \/ z = zone[t] => \A p \in Sector : settled[z][p] = 0

DiskOK ==
  /\ DiskType
  /\ \A z \in SeqZone : Kept(z)
  /\ \A t \in Thread : FullWrite(t) /\ RawWrite(t) /\ RawDiscard(t)

LEMMA CallDisk ==
  ASSUME TypeOK, HostOrder, DiskOK, NEW t \in Thread, NEW o \in Ops, NEW z \in Zone, NEW off, NEW n,
         CallOp(t, o, z, off, n)
  PROVE  DiskOK'
<1>t. /\ pc \in [Thread -> Label] /\ op \in [Thread -> OpCode] /\ zone \in [Thread -> Zone]
      /\ offset \in [Thread -> Int] /\ length \in [Thread -> Nat] /\ started \in Nat
      /\ token \in [Thread -> Nat]
  BY ZonedConstantsOK DEF TypeOK, DiskOK, DiskType
<1>1. /\ aux[t].do = "none" /\ UNCHANGED <<aux, disk, settled, granted>>
      /\ token' \in [Thread -> Nat]
    BY <1>t DEF CallOp, Call
<1>2. \A u \in Thread \ {t} : /\ pc'[u] = pc[u] /\ op'[u] = op[u] /\ zone'[u] = zone[u]
                              /\ offset'[u] = offset[u] /\ length'[u] = length[u]
  BY <1>t DEF CallOp, Call, Goto
<1>3. pc'[t] # "full"
  <2>1. o \in OpCode
    BY ZonedConstantsOK
  <2>2. pc'[t] = IF o \in {"write", "append"} THEN "write" ELSE o
    BY <1>t DEF CallOp, Call, Goto
  <2> QED  BY <2>1, <2>2 DEF OpCode
<1>4. FullWrite(t)' /\ RawWrite(t)' /\ RawDiscard(t)'
  BY <1>1, <1>3 DEF FullWrite, RawWrite, RawDiscard
<1>5. ASSUME NEW u \in Thread \ {t} PROVE FullWrite(u)' /\ RawWrite(u)' /\ RawDiscard(u)'
  BY <1>1, <1>2 DEF DiskOK, FullWrite, RawWrite, RawDiscard, Extent
<1> QED  BY <1>1, <1>4, <1>5 DEF DiskOK, DiskType, Kept

\* The bookkeeping: other threads' writes keep their positions, since a reset
\* of their zone is not under way, and what a reset takes back is void.
LEMMA InsideDisk ==
  ASSUME TypeOK, ZonesOK, OnPath, HostOrder, HostOrder', DiskOK, NEW t \in Thread, Inside(t)
  PROVE  DiskOK'
<1>z. SeqZone \subseteq Zone
  BY ZonedConstantsOK DEF SeqZone, Zone
<1>t. /\ pc \in [Thread -> Label] /\ granted \in [Zone -> SUBSET Int] /\ zone \in [Thread -> Zone]
      /\ offset \in [Thread -> Int] /\ aux \in [Thread -> [do : AuxKind, z : Zone]]
      /\ settled \in [Zone -> [Sector -> Nat]] /\ Blank \in [Zone -> [Sector -> Nat]]
  BY DEF TypeOK, HostOrder, DiskOK, DiskType, Blank
<1>1. /\ Step(t) /\ aux' = [aux EXCEPT ![t] = [do |-> AfterUnlock(t), z |-> zone[t]]]
      /\ settled' = [z \in Zone |-> IF granted'[z] = {} /\ granted[z] # {} THEN Blank[z] ELSE settled[z]]
      /\ UNCHANGED <<disk, token>>
  BY DEF Inside
<1>2. Grants(t) /\ UNCHANGED <<op, zone, length>>
  BY <1>1, StepGrants
<1>3. aux'[t].do = AfterUnlock(t) /\ \A u \in Thread \ {t} : aux'[u] = aux[u]
  BY <1>1, <1>t
<1>4. /\ settled' \in [Zone -> [Sector -> Nat]]
      /\ \A z \in Zone, p \in Sector : settled'[z][p] \in {0, settled[z][p]}
  <2>1. \A z \in Zone, p \in Sector : Blank[z][p] = 0
    BY DEF Blank
  <2> QED  BY <1>1, <1>t, <2>1
<1>5. ASSUME NEW z \in SeqZone, NEW p \in Sector, settled'[z][p] # 0
      PROVE  p \in granted'[z] /\ settled'[z][p] = settled[z][p] /\ p \in granted[z]
  <2>1. z \in Zone /\ settled'[z][p] = settled[z][p]
    BY <1>4, <1>5, <1>z
  <2>2. p \in granted[z]
    BY <1>5, <2>1 DEF DiskOK, Kept
  <2>3. granted'[z] # {}
    <3> SUFFICES ASSUME granted'[z] = {} PROVE FALSE
      OBVIOUS
    <3>1. settled'[z] = Blank[z]
      BY <1>1, <2>1, <2>2
    <3> QED  BY <1>5, <2>1, <3>1 DEF Blank
  <2> QED  BY <1>2, <2>1, <2>2, <2>3 DEF Grants
<1>6. ASSUME NEW z \in SeqZone PROVE Kept(z)'
  <2>1. ASSUME NEW p \in Sector, settled'[z][p] # 0
        PROVE  p \in granted'[z] /\ disk'[z][p] = settled'[z][p]
    <3>1. p \in granted'[z] /\ settled'[z][p] = settled[z][p] /\ settled[z][p] # 0
      BY <1>5, <2>1
    <3>2. disk[z][p] = settled[z][p] /\ UNCHANGED disk
      BY <3>1, <1>1 DEF DiskOK, Kept
    <3> QED  BY <3>1, <3>2
  <2> QED  BY <2>1 DEF Kept
<1>7. FullWrite(t)' /\ RawWrite(t)'
  <2>1. CASE op[t] \in Writes
    <3>1. FullWrite(t)
      BY DEF DiskOK
    <3> QED  BY <1>1, <1>2, <1>3, <2>1, <3>1, StepWritten DEF RawWrite
  <2>2. CASE op[t] \notin Writes
    BY <1>2, <1>3, <2>2 DEF FullWrite, RawWrite, AfterUnlock, Writes
  <2> QED  BY <2>1, <2>2
<1>8. RawDiscard(t)'
  <2> SUFFICES ASSUME AfterUnlock(t) = "raw_discard" PROVE RawDiscard(t)'
    BY <1>3 DEF RawDiscard
  <2>1. /\ op[t] \in {"reset", "reset_all"}
        /\ \A z \in Zone : op[t] = "reset_all" \/ z = zone[t] => granted'[z] = {}
    BY <1>1, StepVoid
  <2>2. ASSUME NEW z \in SeqZone, op[t] = "reset_all" \/ z = zone[t], NEW p \in Sector
        PROVE  settled'[z][p] = 0
    BY <1>5, <2>1, <2>2, <1>z
  <2> QED  BY <1>2, <2>1, <2>2 DEF RawDiscard
<1>9. ASSUME NEW u \in Thread, u # t PROVE FullWrite(u)' /\ RawWrite(u)' /\ RawDiscard(u)'
  <2>1. pc'[u] = pc[u] /\ offset'[u] = offset[u]
    <3>1. CASE pc[t] # "wiping"
      <4>1. pc[t] # "evict"
        BY DEF ZonesOK, ThreadOK
      <4>2. Local(t)
        BY <1>1, <3>1, <4>1, StepLocal
      <4> QED  BY <1>9, <4>2 DEF Local
    <3>2. CASE pc[t] = "wiping"
      <4>1. ResetAllDone(t)
        BY <1>1, <3>2, StepInside
      <4> QED  BY <1>9, <4>1, <1>t DEF ResetAllDone, Goto
    <3> QED  BY <3>1, <3>2
  <2>2. InOp(t)
    BY <1>1, StepInside DEF InOp
  <2>3. InOp(u) => granted[zone[u]] \subseteq granted'[zone[u]]
    <3>1. Apart(t, u) /\ zone[u] \in Zone
      BY <1>9, <1>t DEF HostOrder
    <3>2. InOp(u) => op[t] # "reset_all" /\ ~(op[t] = "reset" /\ zone[t] = zone[u])
      BY <2>2, <3>1 DEF Apart
    <3> QED  BY <1>2, <3>1, <3>2 DEF Grants
  <2>4. Extent(u)' = Extent(u)
    BY <1>2, <2>1 DEF Extent
  <2>5. FullWrite(u)'
    BY <1>2, <2>1, <2>3, <2>4 DEF DiskOK, FullWrite, InOp
  <2>6. RawWrite(u)'
    BY <1>2, <1>3, <1>9, <2>3, <2>4 DEF DiskOK, RawWrite, InOp
  <2>7. RawDiscard(u)'
    BY <1>2, <1>3, <1>4, <1>9, <1>z DEF DiskOK, RawDiscard
  <2> QED  BY <2>5, <2>6, <2>7
<1>10. DiskType'
  BY <1>1, <1>4 DEF DiskOK, DiskType
<1> QED  BY <1>6, <1>7, <1>8, <1>9, <1>10 DEF DiskOK

\* What Fill does to one sector.
LEMMA FillAt ==
  ASSUME NEW f \in [Zone -> [Sector -> Nat]], NEW t \in Thread, zone[t] \in Zone, NEW v \in Nat,
         NEW g, g = Fill(f, t, v)
  PROVE  /\ g \in [Zone -> [Sector -> Nat]]
         /\ \A z \in Zone, p \in Sector :
              g[z][p] = IF z = zone[t] /\ p \in Extent(t) THEN v ELSE f[z][p]
BY DEF Fill

LEMMA WriteDisk ==
  ASSUME TypeOK, HostOrder, DiskOK, NEW t \in Thread, raw_write(t)
  PROVE  DiskOK'
<1>z. SeqZone \subseteq Zone /\ zone[t] \in Zone
  BY ZonedConstantsOK DEF SeqZone, Zone, TypeOK
<1>t. /\ disk \in [Zone -> [Sector -> Nat]] /\ settled \in [Zone -> [Sector -> Nat]]
      /\ token \in [Thread -> Nat] /\ aux \in [Thread -> [do : AuxKind, z : Zone]]
  BY DEF HostOrder, DiskOK, DiskType
<1>1. /\ aux[t].do = "raw_write" /\ aux' = [aux EXCEPT ![t] = [do |-> "none", z |-> 0]]
      /\ disk' = Fill(disk, t, token[t]) /\ settled' = Fill(settled, t, token[t])
      /\ UNCHANGED <<granted, pc, op, zone, offset, length, token>>
  BY DEF raw_write, vars
<1>2. /\ disk' \in [Zone -> [Sector -> Nat]] /\ settled' \in [Zone -> [Sector -> Nat]]
      /\ \A z \in Zone, p \in Sector :
           /\ disk'[z][p] = IF z = zone[t] /\ p \in Extent(t) THEN token[t] ELSE disk[z][p]
           /\ settled'[z][p] = IF z = zone[t] /\ p \in Extent(t) THEN token[t] ELSE settled[z][p]
  <2>1. /\ token[t] \in Nat /\ zone[t] \in Zone
        /\ disk \in [Zone -> [Sector -> Nat]] /\ settled \in [Zone -> [Sector -> Nat]]
        /\ disk' = Fill(disk, t, token[t]) /\ settled' = Fill(settled, t, token[t])
    BY <1>1, <1>t, <1>z
  <2>2. /\ disk' \in [Zone -> [Sector -> Nat]]
        /\ \A z \in Zone, p \in Sector :
             disk'[z][p] = IF z = zone[t] /\ p \in Extent(t) THEN token[t] ELSE disk[z][p]
    BY <2>1, FillAt
  <2>3. /\ settled' \in [Zone -> [Sector -> Nat]]
        /\ \A z \in Zone, p \in Sector :
             settled'[z][p] = IF z = zone[t] /\ p \in Extent(t) THEN token[t] ELSE settled[z][p]
    BY <2>1, FillAt
  <2> QED  BY <2>2, <2>3
<1>3. ASSUME NEW z \in SeqZone PROVE Kept(z)'
  BY <1>1, <1>2, <1>z DEF DiskOK, Kept, RawWrite
<1>4. aux'[t].do = "none" /\ \A u \in Thread \ {t} : aux'[u] = aux[u]
  BY <1>1, <1>t
<1>5. ASSUME NEW u \in Thread PROVE FullWrite(u)' /\ RawWrite(u)'
  <2>1. aux'[u].do = "raw_write" => aux[u].do = "raw_write"
    BY <1>4
  <2> QED  BY <1>1, <2>1 DEF DiskOK, FullWrite, RawWrite, Extent
<1>6. ASSUME NEW u \in Thread PROVE RawDiscard(u)'
  <2> SUFFICES ASSUME aux'[u].do = "raw_discard" PROVE RawDiscard(u)'
    BY DEF RawDiscard
  <2>1. u # t /\ aux[u].do = "raw_discard"
    BY <1>4
  <2>2. op[u] \in {"reset", "reset_all"} /\ InOp(t) /\ InOp(u)
    BY <1>1, <2>1 DEF DiskOK, RawDiscard, InOp
  <2>3. op[u] = "reset" /\ zone[u] # zone[t]
    BY <2>1, <2>2 DEF HostOrder, Apart
  <2>4. ASSUME NEW z \in SeqZone, z = zone[u], NEW p \in Sector PROVE settled'[z][p] = 0
    BY <1>2, <2>1, <2>3, <2>4, <1>z DEF DiskOK, RawDiscard
  <2> QED  BY <1>1, <2>3, <2>4 DEF RawDiscard
<1> QED  BY <1>1, <1>2, <1>3, <1>5, <1>6, <1>t DEF DiskOK, DiskType

LEMMA DiscardDisk ==
  ASSUME TypeOK, OnPath, HostOrder, DiskOK, NEW t \in Thread, raw_discard(t)
  PROVE  DiskOK'
<1>z. SeqZone \subseteq Zone /\ zone[t] \in Zone
  BY ZonedConstantsOK DEF SeqZone, Zone, TypeOK
<1>t. /\ disk \in [Zone -> [Sector -> Nat]] /\ Blank \in [Zone -> [Sector -> Nat]]
      /\ aux \in [Thread -> [do : AuxKind, z : Zone]]
  BY DEF HostOrder, DiskOK, DiskType, Blank
<1>1. /\ aux[t].do = "raw_discard" /\ aux' = [aux EXCEPT ![t] = [do |-> "none", z |-> 0]]
      /\ \E hit \in Discarded(t) : disk' = [z \in Zone |-> IF z \in hit THEN Blank[z] ELSE disk[z]]
      /\ UNCHANGED <<granted, pc, op, zone, offset, length, token, settled>>
  BY DEF raw_discard, vars
<1>w. op[t] # "reset_all" => ~Wiping
  <2> SUFFICES ASSUME op[t] # "reset_all", NEW u \in Thread, pc[u] = "wiping" PROVE FALSE
    BY DEF Wiping, At
  <2>1. op[u] = "reset_all" /\ InOp(u) /\ InOp(t)
    BY <1>1, ResetAllOp DEF InOp
  <2>2. Apart(t, u)
    BY <2>1 DEF HostOrder
  <2> QED  BY <2>1, <2>2 DEF Apart
<1>2. /\ disk' \in [Zone -> [Sector -> Nat]]
      /\ \A z \in Zone : op[t] = "reset_all" \/ z = zone[t] \/ disk'[z] = disk[z]
  BY <1>1, <1>w, <1>t, <1>z DEF Discarded
<1>3. ASSUME NEW z \in SeqZone PROVE Kept(z)'
  <2>1. CASE op[t] = "reset_all" \/ z = zone[t]
    <3>1. \A p \in Sector : settled[z][p] = 0
      BY <1>1, <2>1 DEF DiskOK, RawDiscard
    <3> QED  BY <1>1, <3>1 DEF Kept
  <2>2. CASE ~(op[t] = "reset_all" \/ z = zone[t])
    <3>1. disk'[z] = disk[z]
      BY <1>2, <2>2, <1>z
    <3> QED  BY <1>1, <3>1 DEF DiskOK, Kept
  <2> QED  BY <2>1, <2>2
<1>4. \A u \in Thread : aux'[u].do = "none" \/ aux'[u] = aux[u]
  BY <1>1, <1>t
<1>5. ASSUME NEW u \in Thread PROVE FullWrite(u)' /\ RawWrite(u)' /\ RawDiscard(u)'
  <2>1. /\ aux'[u].do = "raw_write" => aux[u].do = "raw_write"
        /\ aux'[u].do = "raw_discard" => aux[u].do = "raw_discard"
    BY <1>4
  <2> QED  BY <1>1, <2>1 DEF DiskOK, FullWrite, RawWrite, RawDiscard, Extent
<1> QED  BY <1>1, <1>2, <1>3, <1>5 DEF DiskOK, DiskType

\* Reads, reports and signals do not touch the store.
LEMMA RestDisk ==
  ASSUME HostOrder, DiskOK, NEW t \in Thread, NEW d \in {"none", "read", "report", "signal"}, NEW z,
         aux' = [aux EXCEPT ![t] = [do |-> d, z |-> z]], UNCHANGED <<vars, disk, token, settled>>
  PROVE  DiskOK'
<1>1. UNCHANGED <<granted, pc, op, zone, offset, length>>
  BY DEF vars
<1>2. ASSUME NEW u \in Thread
      PROVE  /\ aux'[u].do = "raw_write" => aux[u].do = "raw_write"
             /\ aux'[u].do = "raw_discard" => aux[u].do = "raw_discard"
  BY DEF HostOrder
<1>3. ASSUME NEW u \in Thread PROVE FullWrite(u)' /\ RawWrite(u)' /\ RawDiscard(u)'
  BY <1>1, <1>2 DEF DiskOK, FullWrite, RawWrite, RawDiscard, Extent
<1> QED  BY <1>1, <1>3 DEF DiskOK, DiskType, Kept

LEMMA DiskStep ==
  ASSUME TypeOK, ZonesOK, OnPath, HostOrder, HostOrder', DiskOK, [ServerNext]_sVars
  PROVE  DiskOK'
<1>0. CASE UNCHANGED sVars
  BY <1>0 DEF sVars, vars, auxVars, DiskOK, DiskType, Kept, FullWrite, RawWrite, RawDiscard, Extent
<1>1. ASSUME NEW t \in Thread, NEW o \in Ops, NEW z \in Zone, NEW off, NEW n, CallOp(t, o, z, off, n)
      PROVE  DiskOK'
  BY <1>1, CallDisk
<1>2. ASSUME NEW t \in Thread, Inside(t) PROVE DiskOK'
  BY <1>2, InsideDisk
<1>3. ASSUME NEW t \in Thread, Outside(t) \/ Interrupt(t) PROVE DiskOK'
  <2>1. CASE raw_write(t)
    BY <2>1, WriteDisk
  <2>2. CASE raw_discard(t)
    BY <2>2, DiscardDisk
  <2>3. CASE zoned_read(t) \/ Interrupt(t) \/ zoned_report_zones(t) \/ sigint_handler(t)
    <3>1. /\ \E d \in {"none", "read", "report", "signal"}, z \in {0, aux[t].z + 1} :
               aux' = [aux EXCEPT ![t] = [do |-> d, z |-> z]]
          /\ UNCHANGED <<vars, disk, token, settled>>
      BY <2>3 DEF zoned_read, Interrupt, zoned_report_zones, sigint_handler
    <3> QED  BY <3>1, RestDisk
  <2> QED  BY <1>3, <2>1, <2>2, <2>3 DEF Outside
<1>4. ASSUME NEW t \in Thread, NEW d \in {"read", "report"}, NEW z, StartAux(t, d, z) PROVE DiskOK'
  <2>1. aux' = [aux EXCEPT ![t] = [do |-> d, z |-> z]] /\ UNCHANGED <<vars, disk, token, settled>>
    BY <1>4 DEF StartAux
  <2> QED  BY <2>1, RestDisk
<1> QED  BY <1>0, <1>1, <1>2, <1>3, <1>4 DEF ServerNext

-----------------------------------------------------------------------------
(* Reports                                                                 *)

Entry == [cond : Cond, wp : Int, torn : BOOLEAN]

\* A zone as it may be between two operations, unless all were being reset.
Coherent(r) ==
  r.cond # "NOT_WP" /\ ~r.torn =>
    /\ r.cond = "EMPTY" => r.wp = 0
    /\ r.cond = "FULL" <=> r.wp = Capacity
    /\ r.cond = "CLOSED" => r.wp > 0

ReportOK ==
  /\ report \in [Thread -> Seq(Entry)]
  /\ \A t \in Thread : \A i \in 1 .. Len(report[t]) : Coherent(report[t][i])

LEMMA ReportStep ==
  ASSUME TypeOK, ZonesOK, HostOrder, ReportOK, [ServerNext]_sVars
  PROVE  ReportOK'
<1>t. report \in [Thread -> Seq(Entry)]
  BY DEF ReportOK
<1>s. UNCHANGED report => ReportOK'
  BY DEF ReportOK
<1>0. CASE UNCHANGED sVars
  BY <1>0, <1>s DEF sVars, auxVars
<1>1. ASSUME NEW t \in Thread, NEW o, NEW z, NEW off, NEW n, CallOp(t, o, z, off, n) PROVE ReportOK'
  BY <1>1, <1>s DEF CallOp
<1>2. ASSUME NEW t \in Thread, Inside(t) \/ Interrupt(t) PROVE ReportOK'
  BY <1>2, <1>s DEF Inside, Interrupt
<1>3. ASSUME NEW t \in Thread, NEW d, NEW z, StartAux(t, d, z) PROVE ReportOK'
  <2>1. report' = [report EXCEPT ![t] = <<>>]
    BY <1>3 DEF StartAux
  <2>2. report' \in [Thread -> Seq(Entry)]
    BY <2>1, <1>t
  <2>3. ASSUME NEW u \in Thread, NEW i \in 1 .. Len(report'[u]) PROVE Coherent(report'[u][i])
    <3>1. CASE u = t
      BY <2>1, <2>3, <3>1, <1>t
    <3>2. CASE u # t
      BY <2>1, <2>3, <3>2, <1>t DEF ReportOK
    <3> QED  BY <3>1, <3>2
  <2> QED  BY <2>2, <2>3 DEF ReportOK, Coherent
<1>4. ASSUME NEW t \in Thread, Outside(t) PROVE ReportOK'
  <2>1. CASE raw_write(t) \/ raw_discard(t) \/ zoned_read(t) \/ sigint_handler(t)
    BY <2>1, <1>s DEF raw_write, raw_discard, zoned_read, sigint_handler
  <2>2. CASE zoned_report_zones(t)
    <3> DEFINE z == aux[t].z
    <3>0. PICK c \in SeenCond(z), w \in SeenWp(z) :
            report' = [report EXCEPT ![t] = Append(@, [cond |-> c, wp |-> w, torn |-> Wiping])]
      BY <2>2 DEF zoned_report_zones
    <3> DEFINE r == [cond |-> c, wp |-> w, torn |-> Wiping]
    <3>1. z \in Zone /\ zone_locks[z] = None /\ report' = [report EXCEPT ![t] = Append(@, r)]
      BY <2>2, <3>0 DEF zoned_report_zones, HostOrder
    <3>2. r \in Entry /\ (~r.torn => r.cond = cond[z] /\ r.wp = wp[z])
      <4>1. c \in Cond
        BY <3>1 DEF SeenCond, FreshCond, TypeOK, Cond
      <4>2. w \in Int
        BY <3>1, ZonedConstantsOK DEF SeenWp, TypeOK, Zone
      <4>3. Wiping \in BOOLEAN
        BY DEF Wiping
      <4>4. ~Wiping => c = cond[z] /\ w = wp[z]
        BY <3>0 DEF SeenCond, SeenWp
      <4> QED  BY <4>1, <4>2, <4>3, <4>4 DEF Entry
    <3>3. ZoneOK(z) /\ (wp[z] = Capacity => cond[z] = "FULL")
      <4>1. ASSUME NEW u \in Thread, zone[u] = z, pc[u] = "full" PROVE FALSE
        BY <3>1, <4>1, ZonedConstantsOK DEF ZonesOK, ThreadOK, Locked
      <4>2. ZoneOK(z)
        BY <3>1 DEF ZonesOK
      <4> QED  BY <4>1, <4>2 DEF ZoneOK
    <3>4. Coherent(r)
      BY <3>2, <3>3 DEF Coherent, ZoneOK
    <3> HIDE DEF r
    <3>5. report' \in [Thread -> Seq(Entry)]
      BY <3>1, <3>2, <1>t
    <3>6. ASSUME NEW u \in Thread, NEW i \in 1 .. Len(report'[u]) PROVE Coherent(report'[u][i])
      <4>1. CASE u = t
        <5>1. report'[u] = Append(report[u], r) /\ report[u] \in Seq(Entry)
          BY <3>1, <4>1, <1>t
        <5>2. CASE i = Len(report[u]) + 1
          BY <5>1, <5>2, <3>4
        <5>3. CASE i # Len(report[u]) + 1
          <6>1. i \in 1 .. Len(report[u]) /\ report'[u][i] = report[u][i]
            BY <5>1, <5>3, <3>2, <3>6
          <6> QED  BY <6>1 DEF ReportOK
        <5> QED  BY <5>2, <5>3
      <4>2. CASE u # t
        BY <3>1, <3>6, <4>2, <1>t DEF ReportOK
      <4> QED  BY <4>1, <4>2
    <3> QED  BY <3>5, <3>6 DEF ReportOK, Coherent
  <2> QED  BY <1>4, <2>1, <2>2 DEF Outside
<1> QED  BY <1>0, <1>1, <1>2, <1>3, <1>4 DEF ServerNext

-----------------------------------------------------------------------------
(* The server                                                              *)

ServerInv == ExactInv /\ ZonesOK /\ OnPath /\ HostOrder /\ DiskOK /\ ReportOK

LEMMA InitServer == ServerInit => ServerInv
<1> SUFFICES ASSUME ServerInit PROVE ServerInv
  OBVIOUS
<1>1. ExactInv /\ ZonesOK
  BY InitExact, InitZones DEF ServerInit
<1>2. \A t \in Thread : pc[t] = "idle" /\ aux[t] = [do |-> "none", z |-> 0]
  BY DEF ServerInit, Init, NoAux
<1>3. OnPath
  BY <1>2 DEF OnPath
<1>4. HostOrder
  <2>1. 0 \in Zone /\ "none" \in AuxKind
    BY ZonedConstantsOK DEF Zone, AuxKind
  <2>2. aux \in [Thread -> [do : AuxKind, z : Zone]]
    BY <2>1 DEF ServerInit, NoAux
  <2> QED  BY <1>2, <2>2 DEF HostOrder, Apart, InOp
<1>5. DiskOK
  <2>1. DiskType
    BY DEF ServerInit, DiskType, Blank
  <2>2. ASSUME NEW z \in SeqZone PROVE Kept(z)
    <3>1. z \in Zone
      BY ZonedConstantsOK DEF SeqZone, Zone
    <3> QED  BY <3>1 DEF ServerInit, Blank, Kept
  <2> QED  BY <1>2, <2>1, <2>2 DEF DiskOK, FullWrite, RawWrite, RawDiscard
<1>6. ReportOK
  BY DEF ServerInit, ReportOK
<1> QED  BY <1>1, <1>3, <1>4, <1>5, <1>6 DEF ServerInv

LEMMA ServerInvStep ==
  ASSUME Ordered, RoomForAll, ServerInv, [ServerNext]_sVars
  PROVE  ServerInv'
<1>1. [Next]_vars
  BY ServerMoves
<1>2. ExactInv /\ TypeOK /\ ZonesOK /\ OnPath /\ HostOrder /\ DiskOK /\ ReportOK
  BY DEF ServerInv, ExactInv
<1>3. ExactInv'
  BY <1>1, <1>2, CountedStep, CountersStep, ExactStep DEF ExactInv
<1>4. ZonesOK'
  BY <1>1, <1>2, OrderedAlone, ZonesStep
<1>5. OnPath'
  BY <1>1, <1>2, <1>4, PathStep
<1>6. HostOrder'
  BY <1>2, HostStep
<1>7. DiskOK'
  BY <1>2, <1>6, DiskStep
<1>8. ReportOK'
  BY <1>2, ReportStep
<1> QED  BY <1>3, <1>4, <1>5, <1>6, <1>7, <1>8 DEF ServerInv

THEOREM ServerInvariant ==
  Ordered /\ RoomForAll => (ServerSpec => []ServerInv)
<1> SUFFICES ASSUME Ordered, RoomForAll PROVE ServerSpec => []ServerInv
  OBVIOUS
<1>1. ServerInv /\ [ServerNext]_sVars => ServerInv'
  BY ServerInvStep
<1> QED  BY InitServer, <1>1, PTL DEF ServerSpec, sVars

\* Two appends, an append and a reset of all zones, a close and a report: as
\* long as the host keeps resets apart, a zone nobody holds has the condition
\* its write pointer calls for.
THEOREM ServerCondMatchesWp ==
  Ordered /\ RoomForAll => (ServerSpec => []CondMatchesWp)
<1> SUFFICES ASSUME Ordered, RoomForAll PROVE ServerSpec => []CondMatchesWp
  OBVIOUS
<1>1. ServerInv => CondMatchesWp
  BY ZonesShown DEF ServerInv, ExactInv
<1> QED  BY <1>1, ServerInvariant, PTL

\* No sector is given to two writers and none below the write pointer is
\* skipped, with any number of threads appending.
THEOREM ServerGrantsDisjoint ==
  Ordered /\ RoomForAll => (ServerSpec => []GrantsDisjoint)
<1> SUFFICES ASSUME Ordered, RoomForAll PROVE ServerSpec => []GrantsDisjoint
  OBVIOUS
<1>1. ServerInv => GrantsDisjoint
  BY ZonesShown DEF ServerInv, ExactInv
<1> QED  BY <1>1, ServerInvariant, PTL

\* A write that has returned is on the store until its zone is reset, although
\* raw_write and raw_discard run after the locks were dropped.
THEOREM ServerSettledOnDisk ==
  Ordered /\ RoomForAll => (ServerSpec => []SettledOnDisk)
<1> SUFFICES ASSUME Ordered, RoomForAll PROVE ServerSpec => []SettledOnDisk
  OBVIOUS
<1>1. ServerInv => SettledOnDisk
  BY DEF ServerInv, DiskOK, Kept, SettledOnDisk
<1> QED  BY <1>1, ServerInvariant, PTL

\* zoned_report_zones shows no zone in the middle of an operation, except one that
\* zoned_reset_all_zone, which takes no zone lock, is clearing while it is copied.
THEOREM ServerReportsConsistent ==
  Ordered /\ RoomForAll => (ServerSpec => []ReportsConsistent)
<1> SUFFICES ASSUME Ordered, RoomForAll
             PROVE  ServerSpec => []ReportsConsistent
  OBVIOUS
<1>1. ServerInv => ReportsConsistent
  BY DEF ServerInv, ReportOK, Coherent, ReportsConsistent
<1> QED  BY <1>1, ServerInvariant, PTL
=============================================================================
