-------------------------- MODULE ZonedCommonProofs --------------------------
(***************************************************************************)
(* Proofs about ZonedCommon, for any number of threads and zones and any   *)
(* limits: what the counters count, and what the zone locks protect.       *)
(***************************************************************************)
EXTENDS ZonedCommon, FiniteSetTheorems, TLAPS

USE DEF zoneVars, counters, args

-----------------------------------------------------------------------------
(* Counting zones                                                          *)

\* What a zone in condition x adds to the count of the conditions S.
Weight(x, S) == IF x \in S THEN 1 ELSE 0

LEMMA FiniteZones == IsFiniteSet(Zone)
BY FS_Interval, ZonedConstantsOK DEF Zone

Among(f, S) == {y \in Zone : f[y] \in S}

\* One zone changes its condition.
LEMMA CountAt ==
  ASSUME NEW f \in [Zone -> Cond], NEW z \in Zone, NEW x \in Cond, NEW S,
         NEW g, g = [f EXCEPT ![z] = x]
  PROVE  /\ Cardinality(Among(f, S)) \in Nat /\ Cardinality(Among(f, S)) >= Weight(f[z], S)
         /\ Cardinality(Among(g, S)) \in Nat
         /\ Cardinality(Among(g, S)) = Cardinality(Among(f, S)) + Weight(x, S) - Weight(f[z], S)
<1> DEFINE A == Among(f, S)
           B == Among(g, S)
           R == A \ {z}
<1>1. IsFiniteSet(R) /\ z \notin R /\ Cardinality(R) \in Nat
  <2>1. R \subseteq Zone /\ z \notin R
    BY DEF Among
  <2> QED  BY <2>1, FiniteZones, FS_Subset, FS_CardinalityType
<1>2. A = IF f[z] \in S THEN R \cup {z} ELSE R
  BY DEF Among
<1>3. B = IF x \in S THEN R \cup {z} ELSE R
  BY DEF Among
<1> HIDE DEF A, B, R
<1>4. Cardinality(R \cup {z}) = Cardinality(R) + 1
  BY <1>1, FS_AddElement
<1>5. Cardinality(A) = Cardinality(R) + Weight(f[z], S)
  BY <1>1, <1>2, <1>4 DEF Weight
<1>6. Cardinality(B) = Cardinality(R) + Weight(x, S)
  BY <1>1, <1>3, <1>4 DEF Weight
<1>7. Weight(x, S) \in {0, 1} /\ Weight(f[z], S) \in {0, 1}
  BY DEF Weight
<1>8. /\ Cardinality(A) \in Nat /\ Cardinality(A) >= Weight(f[z], S)
      /\ Cardinality(B) \in Nat
      /\ Cardinality(B) = Cardinality(A) + Weight(x, S) - Weight(f[z], S)
  BY <1>1, <1>5, <1>6, <1>7
<1> QED  BY <1>8 DEF A, B

\* The counts before and after such a step.
LEMMA CountStep ==
  ASSUME cond \in [Zone -> Cond], NEW z \in Zone, NEW x \in Cond, NEW S,
         cond' = [cond EXCEPT ![z] = x]
  PROVE  /\ Count(S) \in Nat /\ Count(S) >= Weight(cond[z], S) /\ Count(S)' \in Nat
         /\ Count(S)' = Count(S) + Weight(x, S) - Weight(cond[z], S)
<1>1. Count(S) = Cardinality(Among(cond, S)) /\ Count(S)' = Cardinality(Among(cond', S))
  BY DEF Count, Among
<1>2. /\ Cardinality(Among(cond, S)) \in Nat
      /\ Cardinality(Among(cond, S)) >= Weight(cond[z], S)
      /\ Cardinality(Among(cond', S)) \in Nat
      /\ Cardinality(Among(cond', S))
           = Cardinality(Among(cond, S)) + Weight(x, S) - Weight(cond[z], S)
  BY CountAt, Zenon
<1> QED  BY <1>1, <1>2

\* Without such a step.
LEMMA CountType ==
  ASSUME cond \in [Zone -> Cond], NEW S
  PROVE  Count(S) \in Nat
<1>1. IsFiniteSet(Zone)
  BY FiniteZones
<1>2. IsFiniteSet({z \in Zone : cond[z] \in S})
  BY <1>1, FS_Subset
<1> QED  BY <1>2, FS_CardinalityType DEF Count

\* A fresh disk has no open and no active zone.
LEMMA CountFresh ==
  ASSUME NEW S, "EMPTY" \notin S, "NOT_WP" \notin S
  PROVE  /\ cond = FreshCond => Count(S) = 0
         /\ cond' = FreshCond => Count(S)' = 0
<1>1. {z \in Zone : FreshCond[z] \in S} = {}
  BY DEF FreshCond
<1> QED  BY <1>1, FS_EmptySet DEF Count

\* Every open zone is active.
LEMMA OpenAreActive ==
  ASSUME cond \in [Zone -> Cond]
  PROVE  Count(OpenCond) <= Count(ActiveCond)
<1> DEFINE A == {z \in Zone : cond[z] \in OpenCond}
           B == {z \in Zone : cond[z] \in ActiveCond}
<1>1. IsFiniteSet(B)
  BY FiniteZones, FS_Subset
<1>2. A \in SUBSET B
  BY DEF ActiveCond
<1>3. Cardinality(A) <= Cardinality(B)
  BY <1>1, <1>2, FS_Subset
<1> QED  BY <1>3 DEF Count

-----------------------------------------------------------------------------
(* What a step does to the counters                                        *)

Same == UNCHANGED <<cond, num_open_zones, num_imp_open_zones, num_active_zones>>

\* The zone is counted as active and not opened.
Leak ==
  /\ UNCHANGED <<cond, num_open_zones, num_imp_open_zones>>
  /\ num_active_zones' = num_active_zones + 1
  /\ num_active_zones < max_active_zones /\ num_open_zones >= max_open_zones
  /\ \E z \in Zone : cond[z] = "EMPTY"

StartOver ==
  cond' = FreshCond /\ num_open_zones' = 0 /\ num_imp_open_zones' = 0 /\ num_active_zones' = 0

\* Zone z goes to condition x and the counters follow.
Recount(z, x) ==
  /\ cond' = [cond EXCEPT ![z] = x]
  /\ num_imp_open_zones' =
       num_imp_open_zones + Weight(x, {"IMP_OPEN"}) - Weight(cond[z], {"IMP_OPEN"})
  /\ num_open_zones' = num_open_zones + Weight(x, OpenCond) - Weight(cond[z], OpenCond)
  /\ num_active_zones' = num_active_zones + Weight(x, ActiveCond) - Weight(cond[z], ActiveCond)
  /\ Weight(x, OpenCond) <= Weight(cond[z], OpenCond) \/ num_open_zones < max_open_zones
  /\ Weight(x, ActiveCond) <= Weight(cond[z], ActiveCond) \/ num_active_zones < max_active_zones

CountersEffect ==
  \/ Same \/ Leak \/ StartOver
  \/ \E z \in Zone, x \in Cond : Recount(z, x)

\* Uncount is what the counters need when a zone stops being open or active.
LEMMA Uncounted ==
  ASSUME TypeOK, NEW z \in Zone, NEW x \in Cond, x \notin OpenCond, NEW keepActive \in BOOLEAN,
         Uncount(z, keepActive), cond' = [cond EXCEPT ![z] = x],
         x \in ActiveCond <=> cond[z] \in ActiveCond /\ keepActive
  PROVE  Recount(z, x)
<1>1. num_imp_open_zones \in Nat /\ num_open_zones \in Nat /\ num_active_zones \in Nat
  BY DEF TypeOK
<1>2. "IMP_OPEN" \in OpenCond /\ OpenCond \subseteq ActiveCond
  BY DEF OpenCond, ActiveCond
<1>3. Weight(x, {"IMP_OPEN"}) = 0 /\ Weight(x, OpenCond) = 0
  BY <1>2 DEF Weight
<1>4. Weight(x, ActiveCond) = IF cond[z] \in ActiveCond /\ keepActive THEN 1 ELSE 0
  BY DEF Weight
<1>5. /\ Weight(cond[z], {"IMP_OPEN"}) = IF cond[z] = "IMP_OPEN" THEN 1 ELSE 0
      /\ Weight(cond[z], OpenCond) = IF cond[z] \in OpenCond THEN 1 ELSE 0
      /\ Weight(cond[z], ActiveCond) = IF cond[z] \in ActiveCond THEN 1 ELSE 0
  BY DEF Weight
<1>6. num_imp_open_zones' =
        num_imp_open_zones + Weight(x, {"IMP_OPEN"}) - Weight(cond[z], {"IMP_OPEN"})
  BY <1>1, <1>3, <1>5 DEF Uncount
<1>7. num_open_zones' = num_open_zones + Weight(x, OpenCond) - Weight(cond[z], OpenCond)
  BY <1>1, <1>3, <1>5 DEF Uncount
<1>8. /\ num_active_zones' = num_active_zones + Weight(x, ActiveCond) - Weight(cond[z], ActiveCond)
      /\ Weight(x, ActiveCond) <= Weight(cond[z], ActiveCond)
      /\ Weight(x, OpenCond) <= Weight(cond[z], OpenCond)
  BY <1>1, <1>3, <1>4, <1>5 DEF Uncount
<1> QED  BY <1>6, <1>7, <1>8 DEF Recount

\* A zone that was neither open nor active changes no counter.
LEMMA UncountedNone ==
  ASSUME TypeOK, NEW z \in Zone, NEW keepActive, Uncount(z, keepActive),
         cond[z] \notin ActiveCond, UNCHANGED cond
  PROVE  Same
<1>1. num_imp_open_zones \in Nat /\ num_open_zones \in Nat /\ num_active_zones \in Nat
  BY DEF TypeOK
<1>2. cond[z] # "IMP_OPEN" /\ cond[z] \notin OpenCond
  BY DEF OpenCond, ActiveCond
<1> QED  BY <1>1, <1>2 DEF Uncount, Same

\* Every step takes one of these four forms.
LEMMA CountersStep == TypeOK /\ [Next]_vars => CountersEffect
<1> SUFFICES ASSUME TypeOK, [Next]_vars PROVE CountersEffect
  OBVIOUS
<1> USE DEF Goto, At
<1>t. /\ num_imp_open_zones \in Nat /\ num_open_zones \in Nat /\ num_active_zones \in Nat
      /\ cond \in [Zone -> Cond] /\ zone \in [Thread -> Zone] /\ victim \in [Thread -> 0 .. num_zones]
      /\ max_open_zones \in Nat /\ max_active_zones \in Nat /\ num_zones \in Nat
  BY ZonedConstantsOK DEF TypeOK
<1>w. /\ \A x : Weight(x, {"IMP_OPEN"}) = IF x = "IMP_OPEN" THEN 1 ELSE 0
      /\ \A x : Weight(x, OpenCond) = IF x \in {"IMP_OPEN", "EXP_OPEN"} THEN 1 ELSE 0
      /\ \A x : Weight(x, ActiveCond) = IF x \in {"IMP_OPEN", "EXP_OPEN", "CLOSED"} THEN 1 ELSE 0
  BY DEF Weight, OpenCond, ActiveCond
<1>s. Same => CountersEffect
  BY DEF CountersEffect
<1>0. CASE UNCHANGED vars
  BY <1>0, <1>s DEF vars, Same
<1>1. ASSUME NEW t \in Thread, NEW o, NEW z, NEW off, NEW n, Call(t, o, z, off, n)
      PROVE  CountersEffect
  BY <1>1, <1>s DEF Call, Same
<1>2. ASSUME NEW t \in Thread, Step(t) PROVE CountersEffect
  <2> DEFINE z == zone[t]
  <2>z. z \in Zone /\ cond[z] \in Cond
    BY <1>t
  <2>1. CASE zoned_write_common(t) \/ LoadWp(t) \/ StoreWp(t) \/ zoned_open_zone(t)
             \/ EvictDone(t) \/ LockZone(t) \/ zoned_reset_all_zone(t)
    BY <2>1, <1>s DEF zoned_write_common, LoadWp, StoreWp, zoned_open_zone, EvictDone,
                      LockZone, zoned_reset_all_zone, Same
  <2>2. CASE OpenAlready(t)
    <3>1. CASE cond[z] = "IMP_OPEN" /\ op[t] = "open"
      <4>1. /\ cond' = [cond EXCEPT ![z] = "EXP_OPEN"] /\ "EXP_OPEN" \in Cond
            /\ num_imp_open_zones' = num_imp_open_zones - 1
            /\ UNCHANGED <<num_open_zones, num_active_zones>>
        BY <2>2, <3>1 DEF OpenAlready, Cond, ActiveCond, OpenCond
      <4>2. Recount(z, "EXP_OPEN")
        BY <3>1, <4>1, <1>t, <1>w DEF Recount
      <4> QED  BY <2>z, <4>1, <4>2 DEF CountersEffect
    <3>2. CASE ~(cond[z] = "IMP_OPEN" /\ op[t] = "open")
      BY <2>2, <3>2, <1>s, <1>t DEF OpenAlready, Same
    <3> QED  BY <3>1, <3>2
  <2>3. CASE OpenRefused(t)
    <3>1. UNCHANGED <<cond, num_open_zones, num_imp_open_zones>>
      BY <2>3 DEF OpenRefused
    <3>2. CASE UNCHANGED num_active_zones
      BY <3>1, <3>2, <1>s DEF Same
    <3>3. CASE ~UNCHANGED num_active_zones
      <4>1. ~TooManyActive(z) /\ TooManyOpen /\ CountActive(z)
        BY <2>3, <3>3 DEF OpenRefused
      <4>2. cond[z] = "EMPTY" /\ num_active_zones' = num_active_zones + 1
        BY <3>3, <4>1, <1>t DEF CountActive
      <4>3. Leak
        BY <3>1, <4>1, <4>2, <1>t, <2>z DEF Leak, TooManyActive, TooManyOpen
      <4> QED  BY <4>3 DEF CountersEffect
    <3> QED  BY <3>2, <3>3
  <2>4. CASE OpenGranted(t)
    <3> DEFINE x == IF op[t] = "open" THEN "EXP_OPEN" ELSE "IMP_OPEN"
    <3>1. /\ cond' = [cond EXCEPT ![z] = x] /\ x \in Cond
          /\ num_open_zones' = num_open_zones + 1
          /\ num_imp_open_zones' = num_imp_open_zones + (IF op[t] = "open" THEN 0 ELSE 1)
          /\ num_active_zones' = num_active_zones + (IF cond[z] = "EMPTY" THEN 1 ELSE 0)
      BY <2>4, <1>t DEF OpenGranted, CountActive, Cond, ActiveCond, OpenCond
    <3>2. /\ cond[z] \in {"EMPTY", "CLOSED"} /\ num_open_zones < max_open_zones
          /\ cond[z] = "EMPTY" => num_active_zones < max_active_zones
      BY <2>4, <1>t DEF OpenGranted, TooManyActive, TooManyOpen
    <3>3. Recount(z, x)
      BY <3>1, <3>2, <1>t, <1>w DEF Recount
    <3> QED  BY <2>z, <3>1, <3>3 DEF CountersEffect
  <2>5. CASE OpenEvicts(t)
    <3>1. /\ UNCHANGED <<cond, num_open_zones, num_imp_open_zones>>
          /\ ~TooManyActive(z) /\ TooManyOpen /\ CountActive(z)
      BY <2>5 DEF OpenEvicts
    <3>2. CASE cond[z] = "EMPTY"
      <4>1. Leak
        BY <3>1, <3>2, <1>t, <2>z DEF Leak, TooManyActive, TooManyOpen, CountActive
      <4> QED  BY <4>1 DEF CountersEffect
    <3>3. CASE cond[z] # "EMPTY"
      BY <3>1, <3>3, <1>s, <1>t DEF Same, CountActive
    <3> QED  BY <3>2, <3>3
  <2>6. CASE close_imp_open_zone(t)
    <3> DEFINE v == victim[t]
    <3>1. CASE v # z /\ cond[v] = "IMP_OPEN"
      <4>1. /\ cond' = [cond EXCEPT ![v] = "CLOSED"] /\ "CLOSED" \in Cond /\ v \in Zone
            /\ num_open_zones' = num_open_zones - 1
            /\ num_imp_open_zones' = num_imp_open_zones - 1
            /\ UNCHANGED num_active_zones
        BY <2>6, <3>1, <1>t DEF close_imp_open_zone, Cond, ActiveCond, Zone
      <4>2. Recount(v, "CLOSED")
        BY <3>1, <4>1, <1>t, <1>w DEF Recount
      <4> QED  BY <4>1, <4>2 DEF CountersEffect
    <3>2. CASE ~(v # z /\ cond[v] = "IMP_OPEN")
      BY <2>6, <3>2, <1>s DEF close_imp_open_zone, Same
    <3> QED  BY <3>1, <3>2
  <2>7. CASE mark_zone_full_locked(t)
    <3>1. Uncount(z, FALSE)
      BY <2>7 DEF mark_zone_full_locked
    <3>2. CASE cond[z] = "NOT_WP"
      <4>1. UNCHANGED cond /\ cond[z] \notin ActiveCond
        BY <2>7, <3>2 DEF mark_zone_full_locked, ActiveCond, OpenCond
      <4> QED  BY <3>1, <4>1, <2>z, <1>s, UncountedNone
    <3>3. CASE cond[z] # "NOT_WP"
      <4>1. /\ cond' = [cond EXCEPT ![z] = "FULL"] /\ "FULL" \in Cond
            /\ "FULL" \notin ActiveCond /\ "FULL" \notin OpenCond
        BY <2>7, <3>3 DEF mark_zone_full_locked, Cond, ActiveCond, OpenCond
      <4>2. Recount(z, "FULL")
        BY <3>1, <4>1, <2>z, Uncounted
      <4> QED  BY <2>z, <4>1, <4>2 DEF CountersEffect
    <3> QED  BY <3>2, <3>3
  <2>8. CASE zoned_close_zone(t)
    <3>1. Uncount(z, wp[z] # 0)
      BY <2>8 DEF zoned_close_zone
    <3>2. CASE cond[z] \notin ActiveCond
      <4>1. UNCHANGED cond
        BY <2>8, <3>2 DEF zoned_close_zone
      <4> QED  BY <3>1, <3>2, <4>1, <2>z, <1>s, UncountedNone
    <3>3. CASE cond[z] \in ActiveCond
      <4> DEFINE x == IF wp[z] = 0 THEN "EMPTY" ELSE "CLOSED"
      <4>1. /\ cond' = [cond EXCEPT ![z] = x] /\ x \in Cond
            /\ x \notin OpenCond /\ (x \in ActiveCond <=> wp[z] # 0)
        BY <2>8, <3>3 DEF zoned_close_zone, Cond, ActiveCond, OpenCond
      <4> HIDE DEF x
      <4>2. Recount(z, x)
        BY <3>1, <3>3, <4>1, <2>z, Uncounted
      <4> QED  BY <2>z, <4>1, <4>2 DEF CountersEffect
    <3> QED  BY <3>2, <3>3
  <2>9. CASE zoned_reset_zone(t)
    <3>1. Uncount(z, FALSE)
      BY <2>9 DEF zoned_reset_zone
    <3>2. CASE cond[z] \notin ActiveCond \cup {"FULL"}
      <4>1. UNCHANGED cond
        BY <2>9, <3>2 DEF zoned_reset_zone
      <4> QED  BY <3>1, <3>2, <4>1, <2>z, <1>s, UncountedNone
    <3>3. CASE cond[z] \in ActiveCond \cup {"FULL"}
      <4>1. /\ cond' = [cond EXCEPT ![z] = "EMPTY"] /\ "EMPTY" \in Cond
            /\ "EMPTY" \notin ActiveCond /\ "EMPTY" \notin OpenCond
        BY <2>9, <3>3 DEF zoned_reset_zone, Cond, ActiveCond, OpenCond
      <4>2. Recount(z, "EMPTY")
        BY <3>1, <4>1, <2>z, Uncounted
      <4> QED  BY <2>z, <4>1, <4>2 DEF CountersEffect
    <3> QED  BY <3>2, <3>3
  <2>10. CASE ResetAllDone(t)
    <3>1. StartOver
      BY <2>10 DEF ResetAllDone, StartOver
    <3> QED  BY <3>1 DEF CountersEffect
  <2> QED  BY <1>2, <2>1, <2>2, <2>3, <2>4, <2>5, <2>6, <2>7, <2>8, <2>9, <2>10 DEF Step
<1> QED  BY <1>0, <1>1, <1>2 DEF Next

-----------------------------------------------------------------------------
(* The counters                                                            *)

\* OpenCountExact holds at every moment, also while open_zone_locked holds the
\* global lock to close another zone: that is what makes it inductive.
Counts ==
  /\ num_imp_open_zones = Count({"IMP_OPEN"})
  /\ num_open_zones = Count(OpenCond)
  /\ num_open_zones <= max_open_zones
  /\ num_active_zones >= Count(ActiveCond)

LEMMA NotFresh ==
  /\ "EMPTY" \notin {"IMP_OPEN"} /\ "NOT_WP" \notin {"IMP_OPEN"}
  /\ "EMPTY" \notin OpenCond /\ "NOT_WP" \notin OpenCond
  /\ "EMPTY" \notin ActiveCond /\ "NOT_WP" \notin ActiveCond
BY DEF ActiveCond, OpenCond

\* The counters keep up with the zones, and none goes below zero.
LEMMA CountsStep ==
  ASSUME TypeOK, Counts, CountersEffect
  PROVE  /\ Counts'
         /\ num_open_zones' \in Nat /\ num_imp_open_zones' \in Nat /\ num_active_zones' \in Nat
<1>t. /\ num_imp_open_zones \in Nat /\ num_open_zones \in Nat /\ num_active_zones \in Nat
      /\ cond \in [Zone -> Cond] /\ max_open_zones \in Nat
  BY ZonedConstantsOK DEF TypeOK
<1>1. CASE Same
  <2>1. UNCHANGED <<cond, num_open_zones, num_imp_open_zones, num_active_zones>>
    BY <1>1 DEF Same
  <2>2. Counts'
    BY <2>1 DEF Counts, Count
  <2> QED  BY <2>1, <2>2, <1>t
<1>2. CASE Leak
  <2>1. /\ UNCHANGED <<cond, num_open_zones, num_imp_open_zones>>
        /\ num_active_zones' = num_active_zones + 1
    BY <1>2 DEF Leak
  <2>2. Count(ActiveCond) \in Nat /\ \A S : Count(S)' = Count(S)
    BY <2>1, <1>t, CountType DEF Count
  <2>3. num_active_zones' >= Count(ActiveCond)'
    BY <2>1, <2>2, <1>t DEF Counts
  <2> QED  BY <2>1, <2>2, <2>3, <1>t DEF Counts
<1>3. CASE StartOver
  <2>1. Count({"IMP_OPEN"})' = 0 /\ Count(OpenCond)' = 0 /\ Count(ActiveCond)' = 0
    BY <1>3, NotFresh, CountFresh DEF StartOver
  <2> QED  BY <1>3, <2>1, <1>t DEF StartOver, Counts
<1>4. ASSUME NEW z \in Zone, NEW x \in Cond, Recount(z, x)
      PROVE  /\ Counts'
             /\ num_open_zones' \in Nat /\ num_imp_open_zones' \in Nat /\ num_active_zones' \in Nat
  <2>1. cond' = [cond EXCEPT ![z] = x]
    BY <1>4 DEF Recount
  <2>2. \A S : /\ Count(S) \in Nat /\ Count(S)' \in Nat
               /\ Count(S)' = Count(S) + Weight(x, S) - Weight(cond[z], S)
    BY <2>1, <1>t, CountStep
  <2>3. \A S : Weight(x, S) \in {0, 1} /\ Weight(cond[z], S) \in {0, 1}
    BY DEF Weight
  <2>4. num_imp_open_zones' = Count({"IMP_OPEN"})'
    BY <1>4, <2>2 DEF Recount, Counts
  <2>5. num_open_zones' = Count(OpenCond)'
    BY <1>4, <2>2 DEF Recount, Counts
  <2>6. num_open_zones' <= max_open_zones
    <3>1. /\ num_open_zones' = num_open_zones + Weight(x, OpenCond) - Weight(cond[z], OpenCond)
          /\ Weight(x, OpenCond) <= Weight(cond[z], OpenCond) \/ num_open_zones < max_open_zones
          /\ num_open_zones <= max_open_zones
      BY <1>4 DEF Recount, Counts
    <3> QED  BY <3>1, <2>3, <1>t
  <2>7. num_active_zones' >= Count(ActiveCond)' /\ num_active_zones' \in Int
    <3>1. /\ num_active_zones' = num_active_zones + Weight(x, ActiveCond) - Weight(cond[z], ActiveCond)
          /\ num_active_zones >= Count(ActiveCond)
      BY <1>4 DEF Recount, Counts
    <3>2. /\ Count(ActiveCond) \in Nat
          /\ Count(ActiveCond)' = Count(ActiveCond) + Weight(x, ActiveCond) - Weight(cond[z], ActiveCond)
      BY <2>2
    <3> QED  BY <3>1, <3>2, <2>3, <1>t
  <2>8. num_open_zones' \in Nat /\ num_imp_open_zones' \in Nat /\ num_active_zones' \in Nat
    <3>1. Count(ActiveCond)' \in Nat
      BY <2>2
    <3> QED  BY <2>2, <2>4, <2>5, <2>7, <3>1
  <2> QED  BY <2>4, <2>5, <2>6, <2>7, <2>8 DEF Counts
<1> QED  BY <1>1, <1>2, <1>3, <1>4 DEF CountersEffect

-----------------------------------------------------------------------------
(* Types                                                                   *)

LEMMA InitCounts == Init => TypeOK /\ Counts
<1> SUFFICES ASSUME Init PROVE TypeOK /\ Counts
  OBVIOUS
<1>1. 0 \in Zone /\ FreshCond \in [Zone -> Cond]
  BY ZonedConstantsOK DEF Zone, FreshCond, Cond
<1>2. TypeOK
  BY <1>1, ZonedConstantsOK DEF Init, TypeOK, Label, OpCode, Status
<1>3. Count({"IMP_OPEN"}) = 0 /\ Count(OpenCond) = 0 /\ Count(ActiveCond) = 0
  BY NotFresh, CountFresh DEF Init
<1> QED  BY <1>2, <1>3, ZonedConstantsOK DEF Init, Counts

\* The variables of TypeOK that no counter is among.
Shape ==
  /\ cond \in [Zone -> Cond]
  /\ wp \in [Zone -> Int]
  /\ granted \in [Zone -> SUBSET Int]
  /\ zone_locks \in [Zone -> Thread \cup {None}]
  /\ global_lock \in Thread \cup {None}
  /\ pc \in [Thread -> Label]
  /\ op \in [Thread -> OpCode]
  /\ zone \in [Thread -> Zone]
  /\ offset \in [Thread -> Int] /\ length \in [Thread -> Nat] /\ loaded \in [Thread -> Int]
  /\ result \in [Thread -> Status]
  /\ victim \in [Thread -> 0 .. num_zones]
  /\ started \in 0 .. MaxOps

\* How the calls end.
LEMMA ReturnShape ==
  ASSUME Shape, NEW t \in Thread, NEW status \in Status, AfterOpen(t, status) \/ Return(t, status)
  PROVE  /\ zone_locks' \in [Zone -> Thread \cup {None}]
         /\ pc' \in [Thread -> Label]
         /\ result' \in [Thread -> Status]
<1>1. "load" \in Label /\ "idle" \in Label
  BY DEF Label
<1> QED  BY <1>1 DEF Shape, AfterOpen, Return, Goto, Unlock

LEMMA ShapeStep == Shape /\ [Next]_vars => Shape'
<1> SUFFICES ASSUME Shape, [Next]_vars PROVE Shape'
  OBVIOUS
<1> USE DEF Goto, At
<1>l. /\ Label = {"idle", "write", "load", "store", "open", "open_locked", "evict", "close",
                  "close_locked", "finish", "full", "reset", "reset_locked", "reset_all", "wiping"}
      /\ {"BLK_STS_OK", "BLK_STS_IOERR", "BLK_STS_ZONE_OPEN_RESOURCE",
          "BLK_STS_ZONE_ACTIVE_RESOURCE"} \subseteq Status
      /\ {"IMP_OPEN", "EXP_OPEN", "CLOSED", "EMPTY", "FULL"} \subseteq Cond
  BY DEF Label, Status, Cond, ActiveCond, OpenCond
<1>k. /\ Capacity \in Nat /\ MaxOps \in Nat /\ num_zones \in Nat
      /\ num_conventional_zones \in 0 .. num_zones /\ Ops \subseteq OpCode
  BY ZonedConstantsOK
<1>0. CASE UNCHANGED vars
  BY <1>0 DEF vars, Shape
<1>1. ASSUME NEW t \in Thread, NEW o \in Ops, NEW z \in Zone, NEW off \in 0 .. Capacity - 1,
             NEW n \in 0 .. Capacity, Call(t, o, z, off, n)
      PROVE  Shape'
  <2>1. (IF o \in {"write", "append"} THEN "write" ELSE o) \in Label /\ o \in OpCode
    BY <1>l, <1>k DEF OpCode
  <2>2. pc' \in [Thread -> Label] /\ op' \in [Thread -> OpCode]
    BY <1>1, <2>1 DEF Call, Shape
  <2>3. started' \in 0 .. MaxOps
    BY <1>1, <1>k DEF Call, Shape
  <2>4. zone' \in [Thread -> Zone] /\ offset' \in [Thread -> Int] /\ length' \in [Thread -> Nat]
    BY <1>1, <1>k DEF Call, Shape
  <2> QED  BY <1>1, <2>2, <2>3, <2>4 DEF Call, Shape
<1>2. ASSUME NEW t \in Thread, Step(t) PROVE Shape'
  <2> DEFINE z == zone[t]
  <2>z. z \in Zone /\ cond[z] \in Cond /\ wp[z] \in Int
    BY DEF Shape
  <2>s. \A w \in SeenWp(z) : w \in Int
    BY <2>z, <1>k DEF SeenWp, Zone
  <2>1. CASE zoned_write_common(t)
    <3>1. \A w \in SeenWp(z) : WriteAt(t, w) \in Int
      BY <2>s DEF WriteAt, Shape
    <3>2. offset' \in [Thread -> Int]
      BY <2>1, <3>1 DEF zoned_write_common, Shape
    <3>3. pc' \in [Thread -> Label] /\ result' \in [Thread -> Status]
      BY <2>1, <1>l DEF zoned_write_common, Shape
    <3>4. zone_locks' \in [Zone -> Thread \cup {None}]
      BY <2>1 DEF zoned_write_common, Shape
    <3> QED  BY <2>1, <3>2, <3>3, <3>4 DEF zoned_write_common, Shape
  <2>2. CASE LoadWp(t)
    BY <2>2, <2>s, <1>l DEF LoadWp, Shape
  <2>3. CASE StoreWp(t)
    <3>1. /\ loaded[t] + length[t] \in Int
          /\ offset[t] .. offset[t] + length[t] - 1 \in SUBSET Int
      BY DEF Shape
    <3>2. wp' \in [Zone -> Int] /\ granted' \in [Zone -> SUBSET Int]
      BY <2>3, <3>1, <2>z DEF StoreWp, Shape
    <3>3. /\ zone_locks' \in [Zone -> Thread \cup {None}]
          /\ pc' \in [Thread -> Label] /\ result' \in [Thread -> Status]
      <4>1. CASE Goto(t, "full") /\ UNCHANGED <<zone_locks, result>>
        BY <4>1, <1>l DEF Shape
      <4>2. CASE Return(t, "BLK_STS_OK")
        BY <4>2, <1>l, ReturnShape
      <4> QED  BY <2>3, <4>1, <4>2 DEF StoreWp
    <3> QED  BY <2>3, <3>2, <3>3 DEF StoreWp, Shape
  <2>4. CASE zoned_open_zone(t)
    BY <2>4, <2>z, <1>l DEF zoned_open_zone, Shape
  <2>5. CASE OpenAlready(t)
    <3>1. cond' \in [Zone -> Cond]
      BY <2>5, <1>l DEF OpenAlready, Shape
    <3>2. \E status \in Status : AfterOpen(t, status)
      BY <2>5, <1>l DEF OpenAlready
    <3>3. /\ zone_locks' \in [Zone -> Thread \cup {None}]
          /\ pc' \in [Thread -> Label] /\ result' \in [Thread -> Status]
      BY <3>2, ReturnShape
    <3> QED  BY <2>5, <3>1, <3>3 DEF OpenAlready, Shape
  <2>6. CASE OpenRefused(t)
    <3>1. \E status \in Status : AfterOpen(t, status)
      BY <2>6, <1>l DEF OpenRefused
    <3>2. /\ zone_locks' \in [Zone -> Thread \cup {None}]
          /\ pc' \in [Thread -> Label] /\ result' \in [Thread -> Status]
      BY <3>1, ReturnShape
    <3> QED  BY <2>6, <3>2 DEF OpenRefused, Shape
  <2>7. CASE OpenGranted(t)
    <3>1. cond' \in [Zone -> Cond]
      BY <2>7, <1>l DEF OpenGranted, Shape
    <3>2. /\ zone_locks' \in [Zone -> Thread \cup {None}]
          /\ pc' \in [Thread -> Label] /\ result' \in [Thread -> Status]
      BY <2>7, <1>l, ReturnShape DEF OpenGranted
    <3> QED  BY <2>7, <3>1, <3>2 DEF OpenGranted, Shape
  <2>8. CASE OpenEvicts(t)
    BY <2>8, <1>l, <1>k DEF OpenEvicts, Shape
  <2>9. CASE close_imp_open_zone(t)
    <3>1. victim[t] \in 0 .. num_zones /\ victim[t] < num_zones
      BY <2>9 DEF close_imp_open_zone, Shape
    <3>2. victim' \in [Thread -> 0 .. num_zones]
      BY <2>9, <3>1, <1>k DEF close_imp_open_zone, Shape
    <3>3. cond' \in [Zone -> Cond]
      BY <2>9, <1>l DEF close_imp_open_zone, Shape
    <3> QED  BY <2>9, <3>2, <3>3 DEF close_imp_open_zone, Shape
  <2>10. CASE EvictDone(t)
    <3>1. /\ zone_locks' \in [Zone -> Thread \cup {None}]
          /\ pc' \in [Thread -> Label] /\ result' \in [Thread -> Status]
      BY <2>10, <1>l, ReturnShape DEF EvictDone
    <3> QED  BY <2>10, <3>1 DEF EvictDone, Shape
  <2>11. CASE LockZone(t)
    <3>1. \E l \in {"close_locked", "reset_locked", "full"} : pc' = [pc EXCEPT ![t] = l]
      BY <2>11 DEF LockZone
    <3> QED  BY <2>11, <3>1, <1>l DEF LockZone, Shape
  <2>12. CASE mark_zone_full_locked(t) \/ zoned_close_zone(t) \/ zoned_reset_zone(t)
    <3>1. \E status \in Status : Return(t, status)
      BY <2>12, <1>l DEF mark_zone_full_locked, zoned_close_zone, zoned_reset_zone
    <3>2. /\ zone_locks' \in [Zone -> Thread \cup {None}]
          /\ pc' \in [Thread -> Label] /\ result' \in [Thread -> Status]
      BY <3>1, ReturnShape
    <3>3. cond' \in [Zone -> Cond]
      <4>1. CASE mark_zone_full_locked(t)
        BY <4>1, <1>l DEF mark_zone_full_locked, Shape
      <4>2. CASE zoned_close_zone(t)
        BY <4>2, <1>l DEF zoned_close_zone, Shape
      <4>3. CASE zoned_reset_zone(t)
        BY <4>3, <1>l DEF zoned_reset_zone, Shape
      <4> QED  BY <2>12, <4>1, <4>2, <4>3
    <3>4. wp' \in [Zone -> Int]
      <4>1. CASE mark_zone_full_locked(t)
        BY <4>1, <1>k DEF mark_zone_full_locked, Shape
      <4>2. CASE zoned_close_zone(t)
        BY <4>2 DEF zoned_close_zone, Shape
      <4>3. CASE zoned_reset_zone(t)
        BY <4>3 DEF zoned_reset_zone, Shape
      <4> QED  BY <2>12, <4>1, <4>2, <4>3
    <3>5. granted' \in [Zone -> SUBSET Int]
      BY <2>12 DEF mark_zone_full_locked, zoned_close_zone, zoned_reset_zone, Shape
    <3>6. UNCHANGED <<global_lock, op, zone, offset, length, loaded, victim, started>>
      BY <2>12 DEF mark_zone_full_locked, zoned_close_zone, zoned_reset_zone
    <3> QED  BY <3>2, <3>3, <3>4, <3>5, <3>6 DEF Shape
  <2>13. CASE zoned_reset_all_zone(t)
    BY <2>13, <1>l DEF zoned_reset_all_zone, Shape
  <2>14. CASE ResetAllDone(t)
    <3>1. FreshCond \in [Zone -> Cond]
      BY <1>l DEF FreshCond, Cond
    <3> QED  BY <2>14, <3>1, <1>l DEF ResetAllDone, Shape
  <2> QED  BY <1>2, <2>1, <2>2, <2>3, <2>4, <2>5, <2>6, <2>7, <2>8, <2>9, <2>10, <2>11,
              <2>12, <2>13, <2>14 DEF Step
<1> QED  BY <1>0, <1>1, <1>2 DEF Next

LEMMA CountedStep == TypeOK /\ Counts /\ [Next]_vars => TypeOK' /\ Counts'
<1> SUFFICES ASSUME TypeOK, Counts, [Next]_vars PROVE TypeOK' /\ Counts'
  OBVIOUS
<1>1. Shape'
  BY ShapeStep DEF TypeOK, Shape
<1>2. /\ Counts'
      /\ num_open_zones' \in Nat /\ num_imp_open_zones' \in Nat /\ num_active_zones' \in Nat
  BY CountersStep, CountsStep
<1> QED  BY <1>1, <1>2 DEF Shape, TypeOK

\* Types and counters together: a counter stays a natural number because it
\* is at least the number of zones it counts.
THEOREM CountsInvariant == Spec => [](TypeOK /\ Counts)
<1>1. Init => TypeOK /\ Counts
  BY InitCounts
<1>2. TypeOK /\ Counts /\ [Next]_vars => TypeOK' /\ Counts'
  BY CountedStep
<1> QED  BY <1>1, <1>2, PTL DEF Spec

\* No variable leaves its range; no unsigned counter wraps around.
THEOREM ZonedTypeCorrect == Spec => []TypeOK
BY CountsInvariant, PTL

\* The limit on open zones is never exceeded and its counters are exact, for
\* any limits and any interleaving, also when zones are closed to make room.
THEOREM OpenZonesCounted == Spec => []OpenCountExact
<1>1. Counts => OpenCountExact
  BY DEF Counts, OpenCountExact
<1> QED  BY <1>1, CountsInvariant, PTL

-----------------------------------------------------------------------------
(* Limits that no open has to make room for                                *)

\* Either the limit on active zones is met before the one on open zones, or the
\* disk has no more zones than may be open: zoned-passthrough with a target of
\* at most 32 zones.
RoomForAll == max_active_zones <= max_open_zones \/ num_zones <= max_open_zones

\* Then no zone is counted as active and left as it was.
Exact ==
  /\ num_active_zones = Count(ActiveCond)
  /\ num_active_zones <= max_active_zones

\* A closed zone is active and not open.
LEMMA ClosedNotOpen ==
  ASSUME cond \in [Zone -> Cond], NEW z \in Zone, cond[z] = "CLOSED"
  PROVE  Count(OpenCond) < Count(ActiveCond)
<1> DEFINE A == {y \in Zone : cond[y] \in OpenCond}
           B == {y \in Zone : cond[y] \in ActiveCond}
<1>1. A \cup {z} \in SUBSET B /\ z \notin A
  BY DEF ActiveCond, OpenCond
<1>2. IsFiniteSet(B) /\ IsFiniteSet(A)
  BY FiniteZones, FS_Subset
<1>3. Cardinality(A \cup {z}) <= Cardinality(B)
  BY <1>1, <1>2, FS_Subset
<1>4. Cardinality(A \cup {z}) = Cardinality(A) + 1 /\ Cardinality(A) \in Nat
  BY <1>1, <1>2, FS_AddElement, FS_CardinalityType
<1>5. Cardinality(B) \in Nat
  BY <1>2, FS_CardinalityType
<1> HIDE DEF A, B
<1>6. Cardinality(A) < Cardinality(B)
  BY <1>3, <1>4, <1>5
<1> QED  BY <1>6 DEF A, B, Count

\* A zone that is not open leaves room for it.
LEMMA NotAllOpen ==
  ASSUME cond \in [Zone -> Cond], NEW z \in Zone, cond[z] \notin OpenCond
  PROVE  Count(OpenCond) < num_zones
<1> DEFINE A == {y \in Zone : cond[y] \in OpenCond}
<1>1. A \cup {z} \in SUBSET Zone /\ z \notin A
  OBVIOUS
<1>2. IsFiniteSet(Zone) /\ IsFiniteSet(A) /\ Cardinality(Zone) = num_zones
  <2>1. num_zones - 1 \in Int /\ 0 \in Int /\ ~(0 > num_zones - 1)
    BY ZonedConstantsOK
  <2>2. Cardinality(Zone) = num_zones - 1 - 0 + 1
    BY <2>1, FS_Interval DEF Zone
  <2> QED  BY <1>1, <2>2, FiniteZones, FS_Subset, ZonedConstantsOK
<1>3. Cardinality(A \cup {z}) <= Cardinality(Zone)
  BY <1>1, <1>2, FS_Subset
<1>4. Cardinality(A \cup {z}) = Cardinality(A) + 1 /\ Cardinality(A) \in Nat
  BY <1>1, <1>2, FS_AddElement, FS_CardinalityType
<1> HIDE DEF A
<1>5. Cardinality(A) < num_zones
  BY <1>2, <1>3, <1>4, ZonedConstantsOK
<1> QED  BY <1>5 DEF A, Count

LEMMA ExactStep ==
  ASSUME TypeOK, Counts, Exact, CountersEffect, RoomForAll
  PROVE  Exact'
<1>t. /\ num_open_zones \in Nat /\ num_active_zones \in Nat /\ cond \in [Zone -> Cond]
      /\ max_open_zones \in Nat /\ max_active_zones \in Nat
  BY ZonedConstantsOK DEF TypeOK
<1>1. CASE Same
  BY <1>1 DEF Same, Exact, Count
<1>2. CASE Leak
  <2>1. num_open_zones <= num_active_zones
    BY OpenAreActive, <1>t DEF Counts, Exact
  <2>2. num_active_zones < max_active_zones /\ num_open_zones >= max_open_zones
    BY <1>2 DEF Leak
  <2>3. PICK z \in Zone : cond[z] = "EMPTY"
    BY <1>2 DEF Leak
  <2>4. num_open_zones < num_zones
    BY <2>3, <1>t, NotAllOpen, NotFresh DEF Counts
  <2> QED  BY <2>1, <2>2, <2>4, <1>t, ZonedConstantsOK DEF RoomForAll
<1>3. CASE StartOver
  <2>1. Count(ActiveCond)' = 0
    BY <1>3, NotFresh, CountFresh DEF StartOver
  <2> QED  BY <1>3, <2>1, <1>t DEF StartOver, Exact
<1>4. ASSUME NEW z \in Zone, NEW x \in Cond, Recount(z, x) PROVE Exact'
  <2>1. /\ cond' = [cond EXCEPT ![z] = x]
        /\ num_active_zones' = num_active_zones + Weight(x, ActiveCond) - Weight(cond[z], ActiveCond)
        /\ Weight(x, ActiveCond) <= Weight(cond[z], ActiveCond) \/ num_active_zones < max_active_zones
    BY <1>4 DEF Recount
  <2>2. Count(ActiveCond)' = Count(ActiveCond) + Weight(x, ActiveCond) - Weight(cond[z], ActiveCond)
    BY <2>1, <1>t, CountStep
  <2>3. Weight(x, ActiveCond) \in {0, 1} /\ Weight(cond[z], ActiveCond) \in {0, 1}
    BY DEF Weight
  <2>4. num_active_zones' <= max_active_zones
    BY <2>1, <2>3, <1>t DEF Exact
  <2> QED  BY <2>1, <2>2, <2>4 DEF Exact
<1> QED  BY <1>1, <1>2, <1>3, <1>4 DEF CountersEffect

\* The limit on open zones turns nothing away that the one on active zones
\* lets through: no open closes another zone, and none is refused for it.
LEMMA RoomToOpen ==
  ASSUME TypeOK, Counts, Exact, RoomForAll,
         NEW z \in Zone, cond[z] \in {"EMPTY", "CLOSED"}, ~TooManyActive(z)
  PROVE  ~TooManyOpen
<1>t. /\ num_open_zones \in Nat /\ num_active_zones \in Nat /\ cond \in [Zone -> Cond]
      /\ max_open_zones \in Nat /\ max_active_zones \in Nat
  BY ZonedConstantsOK DEF TypeOK
<1>1. num_open_zones < num_zones
  <2>1. cond[z] \notin OpenCond
    BY DEF OpenCond
  <2> QED  BY <2>1, <1>t, NotAllOpen DEF Counts
<1>2. num_open_zones < max_active_zones
  <2>1. CASE cond[z] = "EMPTY"
    <3>1. num_active_zones < max_active_zones
      BY <2>1, <1>t DEF TooManyActive
    <3>2. num_open_zones <= num_active_zones
      BY OpenAreActive, <1>t DEF Counts, Exact
    <3> QED  BY <3>1, <3>2, <1>t
  <2>2. CASE cond[z] = "CLOSED"
    <3>1. num_open_zones < num_active_zones
      BY <2>2, ClosedNotOpen, <1>t DEF Counts, Exact
    <3>2. num_active_zones <= max_active_zones
      BY DEF Exact
    <3> QED  BY <3>1, <3>2, <1>t
  <2> QED  BY <2>1, <2>2
<1> QED  BY <1>1, <1>2, <1>t, ZonedConstantsOK DEF RoomForAll, TooManyOpen

ExactInv == TypeOK /\ Counts /\ Exact

LEMMA InitExact == Init => ExactInv
<1> SUFFICES ASSUME Init PROVE Exact
  BY InitCounts DEF ExactInv
<1>1. Count(ActiveCond) = 0
  BY NotFresh, CountFresh DEF Init
<1> QED  BY <1>1, ZonedConstantsOK DEF Init, Exact

THEOREM ExactInvariant == RoomForAll => (Spec => []ExactInv)
<1> SUFFICES ASSUME RoomForAll PROVE Spec => []ExactInv
  OBVIOUS
<1>1. ExactInv /\ [Next]_vars => ExactInv'
  BY CountedStep, CountersStep, ExactStep DEF ExactInv
<1> QED  BY InitExact, <1>1, PTL DEF Spec

\* The counters are exact, the one of the active zones too, as long as no open
\* finds the limit on open zones reached; where one does, open_zone_locked
\* counts the zone and leaves it.
THEOREM ActiveZonesCounted == RoomForAll => (Spec => []CountersExact)
<1> SUFFICES ASSUME RoomForAll PROVE Spec => []CountersExact
  OBVIOUS
<1>1. ExactInv => CountersExact
  BY DEF ExactInv, Counts, Exact, CountersExact
<1> QED  BY <1>1, ExactInvariant, PTL

\* Only open_zone_locked answers that there are too many active zones, and
\* only when its counter says so.
LEMMA RefusedByCounter ==
  ASSUME TypeOK, [Next]_vars, NEW t \in Thread,
         result[t] # "BLK_STS_ZONE_ACTIVE_RESOURCE", result'[t] = "BLK_STS_ZONE_ACTIVE_RESOURCE"
  PROVE  num_active_zones >= max_active_zones
<1>t. result \in [Thread -> Status]
  BY DEF TypeOK
<1>s. ASSUME NEW u \in Thread, NEW s \in Status, s # "BLK_STS_ZONE_ACTIVE_RESOURCE",
             \/ Return(u, s) \/ AfterOpen(u, s) \/ UNCHANGED result
             \/ result' = [result EXCEPT ![u] = s]
      PROVE  FALSE
  BY <1>s, <1>t DEF Return, AfterOpen
<1>k. {"BLK_STS_OK", "BLK_STS_IOERR", "BLK_STS_ZONE_OPEN_RESOURCE"} \subseteq Status
  BY DEF Status
<1>1. ~UNCHANGED vars
  BY <1>s, <1>k DEF vars
<1>2. ASSUME NEW u \in Thread, NEW o, NEW z, NEW off, NEW n, Call(u, o, z, off, n) PROVE FALSE
  BY <1>2, <1>s, <1>k DEF Call
<1>3. PICK u \in Thread : Step(u)
  BY <1>1, <1>2 DEF Next
<1>4. ~zoned_write_common(u)
  BY <1>s, <1>k DEF zoned_write_common
<1>5. ~LoadWp(u) /\ ~LockZone(u) /\ ~OpenEvicts(u) /\ ~close_imp_open_zone(u)
  BY <1>s, <1>k DEF LoadWp, LockZone, OpenEvicts, close_imp_open_zone
<1>6. /\ ~StoreWp(u) /\ ~EvictDone(u) /\ ~zoned_reset_all_zone(u) /\ ~ResetAllDone(u)
      /\ ~mark_zone_full_locked(u)
  BY <1>s, <1>k DEF StoreWp, EvictDone, zoned_reset_all_zone, ResetAllDone, mark_zone_full_locked
<1>7. ~zoned_open_zone(u)
  BY <1>s, <1>k DEF zoned_open_zone
<1>8. ~OpenAlready(u) /\ ~OpenGranted(u) /\ ~zoned_close_zone(u) /\ ~zoned_reset_zone(u)
  BY <1>s, <1>k DEF OpenAlready, OpenGranted, zoned_close_zone, zoned_reset_zone
<1>9. OpenRefused(u)
  BY <1>3, <1>4, <1>5, <1>6, <1>7, <1>8 DEF Step
<1>10. TooManyActive(zone[u])
  BY <1>9, <1>s, <1>k DEF OpenRefused
<1> QED  BY <1>10 DEF TooManyActive

\* Under the same limits the promise of blk_status.h is kept: nothing is
\* refused for want of active zones while there are fewer than allowed.
THEOREM RefusalsJustified == RoomForAll => (Spec => RefusedOnlyAtLimit)
<1> SUFFICES ASSUME RoomForAll PROVE Spec => RefusedOnlyAtLimit
  OBVIOUS
<1> DEFINE Justified == \A t \in Thread :
             /\ result[t] # "BLK_STS_ZONE_ACTIVE_RESOURCE"
             /\ result'[t] = "BLK_STS_ZONE_ACTIVE_RESOURCE"
             => Count(ActiveCond) >= max_active_zones
<1>1. ExactInv /\ [Next]_vars => [Justified]_vars
  BY RefusedByCounter DEF ExactInv, Exact
<1>2. Spec => []ExactInv
  BY ExactInvariant
<1>3. Spec => [][Justified]_vars
  BY <1>1, <1>2, PTL DEF Spec
<1> QED  BY <1>3 DEF RefusedOnlyAtLimit

-----------------------------------------------------------------------------
(* What the zone locks protect. Every zone has the condition its write     *)
(* pointer calls for, and the positions given to writers neither overlap   *)
(* nor leave a gap, under the two conditions that the counterexamples of   *)
(* the runs show to be needed: no open has to close another zone           *)
(* (RoomForAll), and a reset of all zones, which takes no zone lock, meets *)
(* no other operation.                                                     *)

\* The positions where a thread holds the lock of its zone.
Locked == {"load", "store", "open_locked", "close_locked", "full", "reset_locked"}

\* The condition, the write pointer and the positions given out of a zone. A
\* zone written up to its capacity is FULL or about to be marked so.
ZoneOK(z) ==
  /\ z \in SeqZone <=> cond[z] # "NOT_WP"
  /\ wp[z] \in Nat /\ wp[z] <= Capacity
  /\ cond[z] \in {"NOT_WP", "EMPTY"} => wp[z] = 0
  /\ cond[z] = "CLOSED" => wp[z] > 0
  /\ cond[z] = "FULL" => wp[z] = Capacity
  /\ cond[z] # "FULL" => granted[z] = 0 .. wp[z] - 1
  /\ wp[z] = Capacity /\ cond[z] # "FULL" => \E t \in Thread : zone[t] = z /\ pc[t] = "full"

\* A write that was let through and has not moved the write pointer yet.
Writing(t) == pc[t] \in {"load", "store"} \/ (pc[t] = "open_locked" /\ op[t] # "open")

\* What was checked under the lock still holds when it is used.
ThreadOK(t) ==
  /\ pc[t] # "evict"
  /\ pc[t] \in Locked => zone_locks[zone[t]] = t
  /\ pc[t] = "write" => op[t] \in {"write", "append"} /\ length[t] > 0
  /\ pc[t] = "open" => op[t] = "open"
  /\ Writing(t) => /\ zone[t] \in SeqZone /\ offset[t] = wp[zone[t]]
                   /\ length[t] > 0 /\ wp[zone[t]] + length[t] <= Capacity
  /\ pc[t] \in {"load", "store"} => cond[zone[t]] \in OpenCond
  /\ pc[t] = "store" => loaded[t] = wp[zone[t]]

ZonesOK == (\A z \in Zone : ZoneOK(z)) /\ (\A t \in Thread : ThreadOK(t))

\* A reset of all zones is not under way together with another operation.
ResetAllAlone ==
  \A t, u \in Thread : pc[t] \in {"reset_all", "wiping"} /\ u # t => pc[u] = "idle"

\* Then an operation finds every zone as it is.
LEMMA SeenAsIs ==
  ASSUME ResetAllAlone, NEW t \in Thread, pc[t] \notin {"idle", "wiping"}, NEW z
  PROVE  /\ ~Wiping
         /\ SeenWp(z) = {wp[z]} /\ SeenCond(z) = {cond[z]} /\ SeenEnd(z) = {Capacity}
<1>1. ~Wiping
  BY DEF Wiping, At, ResetAllAlone
<1> QED  BY <1>1 DEF SeenWp, SeenCond, SeenEnd

-----------------------------------------------------------------------------
(* What a step leaves alone                                                *)

\* Nothing changes but thread t and its zone.
Local(t) ==
  /\ \A z \in Zone \ {zone[t]} : /\ cond'[z] = cond[z] /\ wp'[z] = wp[z]
                                 /\ granted'[z] = granted[z] /\ zone_locks'[z] = zone_locks[z]
  /\ \A u \in Thread \ {t} : pc'[u] = pc[u] /\ offset'[u] = offset[u] /\ loaded'[u] = loaded[u]
  /\ UNCHANGED <<op, zone, length>>

\* Without the lock of its zone the thread can only take it.
Guarded(t) ==
  \/ pc[t] \in Locked
  \/ /\ UNCHANGED zoneVars
     /\ UNCHANGED zone_locks \/ zone_locks[zone[t]] = None

\* A step is taken inside an operation, and a reset of all zones takes two.
LEMMA StepInside ==
  ASSUME NEW t \in Thread, Step(t)
  PROVE  pc[t] # "idle" /\ (pc[t] = "wiping" => ResetAllDone(t))
BY DEF Step, At, zoned_write_common, LoadWp, StoreWp, zoned_open_zone, OpenAlready, OpenRefused,
   OpenGranted, OpenEvicts, close_imp_open_zone, EvictDone, LockZone, mark_zone_full_locked,
   zoned_close_zone, zoned_reset_zone, zoned_reset_all_zone, ResetAllDone

LEMMA StepLocal ==
  ASSUME TypeOK, NEW t \in Thread, Step(t), pc[t] \notin {"evict", "wiping"}
  PROVE  Local(t) /\ Guarded(t)
<1> USE DEF Goto, At, Return, Unlock, AfterOpen
<1>t. /\ cond \in [Zone -> Cond] /\ wp \in [Zone -> Int] /\ granted \in [Zone -> SUBSET Int]
      /\ zone_locks \in [Zone -> Thread \cup {None}] /\ pc \in [Thread -> Label]
      /\ offset \in [Thread -> Int] /\ loaded \in [Thread -> Int] /\ zone[t] \in Zone
  BY DEF TypeOK
<1>1. CASE zoned_write_common(t)
  BY <1>1, <1>t DEF zoned_write_common, Local, Guarded
<1>2. CASE LoadWp(t)
  BY <1>2, <1>t DEF LoadWp, Local, Guarded
<1>3. CASE StoreWp(t)
  BY <1>3, <1>t DEF StoreWp, Local, Guarded, Locked
<1>4. CASE zoned_open_zone(t)
  BY <1>4, <1>t DEF zoned_open_zone, Local, Guarded
<1>5. CASE OpenAlready(t)
  BY <1>5, <1>t DEF OpenAlready, Local, Guarded, Locked
<1>6. CASE OpenRefused(t)
  BY <1>6, <1>t DEF OpenRefused, Local, Guarded, Locked
<1>7. CASE OpenGranted(t)
  BY <1>7, <1>t DEF OpenGranted, Local, Guarded, Locked
<1>8. CASE OpenEvicts(t)
  BY <1>8, <1>t DEF OpenEvicts, Local, Guarded, Locked
<1>9. CASE LockZone(t)
  BY <1>9, <1>t DEF LockZone, Local, Guarded
<1>10. CASE mark_zone_full_locked(t)
  BY <1>10, <1>t DEF mark_zone_full_locked, Local, Guarded, Locked
<1>11. CASE zoned_close_zone(t)
  BY <1>11, <1>t DEF zoned_close_zone, Local, Guarded, Locked
<1>12. CASE zoned_reset_zone(t)
  BY <1>12, <1>t DEF zoned_reset_zone, Local, Guarded, Locked
<1>13. CASE zoned_reset_all_zone(t)
  BY <1>13, <1>t DEF zoned_reset_all_zone, Local, Guarded
<1>14. ~close_imp_open_zone(t) /\ ~EvictDone(t) /\ ~ResetAllDone(t)
  BY DEF close_imp_open_zone, EvictDone, ResetAllDone
<1> QED  BY <1>1, <1>2, <1>3, <1>4, <1>5, <1>6, <1>7, <1>8, <1>9, <1>10, <1>11, <1>12, <1>13,
            <1>14 DEF Step

\* The other threads find what they checked unchanged.
LEMMA OtherThreads ==
  ASSUME TypeOK, NEW t \in Thread, NEW u \in Thread, u # t, Local(t), Guarded(t),
         ThreadOK(t), ThreadOK(u)
  PROVE  ThreadOK(u)'
<1>t. zone[t] \in Zone /\ zone[u] \in Zone /\ None # u
  BY ZonedConstantsOK DEF TypeOK
<1>1. /\ pc'[u] = pc[u] /\ offset'[u] = offset[u] /\ loaded'[u] = loaded[u]
      /\ op'[u] = op[u] /\ zone'[u] = zone[u] /\ length'[u] = length[u]
  BY DEF Local
<1>2. pc[u] \in Locked =>
        /\ cond'[zone[u]] = cond[zone[u]] /\ wp'[zone[u]] = wp[zone[u]]
        /\ zone_locks'[zone[u]] = zone_locks[zone[u]]
  <2>1. CASE zone[u] # zone[t]
    BY <2>1, <1>t DEF Local
  <2>2. CASE zone[u] = zone[t] /\ pc[u] \in Locked
    <3>1. zone_locks[zone[t]] = u
      BY <2>2 DEF ThreadOK
    <3>2. pc[t] \notin Locked
      BY <3>1 DEF ThreadOK
    <3> QED  BY <3>1, <3>2, <1>t DEF Guarded
  <2> QED  BY <2>1, <2>2
<1>3. Writing(u) => pc[u] \in Locked
  BY DEF Writing, Locked
<1>4. pc[u] \in {"load", "store"} => pc[u] \in Locked
  BY DEF Locked
<1>5. Writing(u)' = Writing(u)
  BY <1>1 DEF Writing
<1> QED  BY <1>1, <1>2, <1>3, <1>4, <1>5 DEF ThreadOK

LEMMA OtherZones ==
  ASSUME TypeOK, NEW t \in Thread, NEW z \in Zone, z # zone[t], Local(t), ZoneOK(z)
  PROVE  ZoneOK(z)'
<1>1. cond'[z] = cond[z] /\ wp'[z] = wp[z] /\ granted'[z] = granted[z]
  BY DEF Local
<1>2. ASSUME NEW u \in Thread, zone[u] = z, pc[u] = "full"
      PROVE  zone'[u] = z /\ pc'[u] = "full"
  BY <1>2 DEF Local
<1> QED  BY <1>1, <1>2 DEF ZoneOK

\* A zone that a step does not change.
LEMMA ZoneKept ==
  ASSUME TypeOK, NEW t \in Thread, NEW z \in Zone, ZoneOK(z), UNCHANGED zoneVars, UNCHANGED zone,
         pc[t] # "full", \A u \in Thread \ {t} : pc'[u] = pc[u]
  PROVE  ZoneOK(z)'
<1>1. ASSUME NEW u \in Thread, zone[u] = z, pc[u] = "full"
      PROVE  zone'[u] = z /\ pc'[u] = "full"
  BY <1>1
<1> QED  BY <1>1 DEF ZoneOK

\* The holder of the lock is the only one that may be about to mark the zone.
LEMMA OnlyHolder ==
  ASSUME ZonesOK, NEW t \in Thread, NEW z \in Zone, z = zone[t], pc[t] \in Locked, pc[t] # "full"
  PROVE  wp[z] = Capacity => cond[z] = "FULL"
<1>1. ASSUME NEW u \in Thread, zone[u] = z, pc[u] = "full" PROVE FALSE
  <2>1. pc[u] \in Locked
    BY <1>1 DEF Locked
  <2>2. zone_locks[z] = u /\ zone_locks[z] = t
    BY <1>1, <2>1 DEF ZonesOK, ThreadOK
  <2> QED  BY <1>1, <2>2
<1> QED  BY <1>1 DEF ZonesOK, ZoneOK

-----------------------------------------------------------------------------
(* What a step does to its own zone                                        *)

\* A call that is over.
LEMMA OverOK ==
  ASSUME NEW t \in Thread, pc'[t] = "idle"
  PROVE  ThreadOK(t)'
BY DEF ThreadOK, Writing, Locked

Mine(t) == ThreadOK(t)' /\ ZoneOK(zone[t])'

LEMMA WriteMine ==
  ASSUME TypeOK, ZonesOK, ResetAllAlone, NEW t \in Thread, zoned_write_common(t)
  PROVE  Mine(t)
<1> DEFINE z == zone[t]
<1>t. /\ z \in Zone /\ zone_locks \in [Zone -> Thread \cup {None}] /\ pc \in [Thread -> Label]
      /\ offset \in [Thread -> Int] /\ length[t] \in Nat /\ wp[z] \in Int /\ Capacity \in Nat
  BY ZonedConstantsOK DEF TypeOK
<1>1. /\ pc[t] = "write" /\ op[t] \in {"write", "append"} /\ length[t] > 0
      /\ UNCHANGED <<cond, wp, granted, op, zone, length>>
  BY DEF zoned_write_common, At, ZonesOK, ThreadOK
<1>2. \A u \in Thread \ {t} : pc'[u] = pc[u]
  BY <1>t DEF zoned_write_common, Goto
<1>3. ZoneOK(z)'
  BY <1>1, <1>2, <1>t, ZoneKept DEF ZonesOK
<1>4. CASE pc'[t] = "idle"
  BY <1>3, <1>4, OverOK DEF Mine
<1>5. CASE pc'[t] # "idle"
  <2>0. SeenWp(z) = {wp[z]} /\ SeenCond(z) = {cond[z]} /\ SeenEnd(z) = {Capacity}
    BY <1>1, SeenAsIs
  <2>1. /\ ~WriteRefused(t, wp[z], Capacity, cond[z]) /\ z \in SeqZone /\ zone_locks'[z] = t
        /\ offset'[t] = WriteAt(t, wp[z])
        /\ pc'[t] = IF cond[z] \in OpenCond THEN "load" ELSE "open_locked"
    BY <1>5, <1>t, <2>0 DEF zoned_write_common, Goto
  <2>2. WriteAt(t, wp[z]) = wp[z] /\ ~(Capacity < WriteAt(t, wp[z]) + length[t])
    BY <2>1 DEF WriteRefused
  <2>3. offset'[t] = wp[z] /\ wp[z] + length[t] <= Capacity
    BY <2>1, <2>2, <1>t
  <2>4. ThreadOK(t)'
    BY <1>1, <2>1, <2>3 DEF ThreadOK, Writing
  <2> QED  BY <1>3, <2>4 DEF Mine
<1> QED  BY <1>4, <1>5

LEMMA LoadMine ==
  ASSUME TypeOK, ZonesOK, ResetAllAlone, NEW t \in Thread, LoadWp(t)
  PROVE  Mine(t)
<1>t. /\ pc \in [Thread -> Label] /\ loaded \in [Thread -> Int] /\ zone[t] \in Zone
      /\ SeenWp(zone[t]) = {wp[zone[t]]}
  BY SeenAsIs DEF TypeOK, LoadWp, At
<1>1. /\ pc[t] = "load" /\ pc'[t] = "store" /\ loaded'[t] = wp[zone[t]]
      /\ UNCHANGED <<cond, wp, granted, op, zone, offset, length, zone_locks>>
      /\ \A u \in Thread \ {t} : pc'[u] = pc[u]
  BY <1>t DEF LoadWp, At, Goto
<1>2. ZoneOK(zone[t])'
  BY <1>1, <1>t, ZoneKept DEF ZonesOK
<1>3. ThreadOK(t)'
  BY <1>1 DEF ZonesOK, ThreadOK, Writing, Locked
<1> QED  BY <1>2, <1>3 DEF Mine

\* The write pointer and the positions given out move together.
LEMMA StoreMine ==
  ASSUME TypeOK, ZonesOK, ResetAllAlone, NEW t \in Thread, StoreWp(t)
  PROVE  Mine(t)
<1> DEFINE z == zone[t]
           new == loaded[t] + length[t]
<1>t. /\ z \in Zone /\ wp \in [Zone -> Int] /\ wp[z] \in Nat /\ granted \in [Zone -> SUBSET Int]
      /\ pc \in [Thread -> Label] /\ length[t] \in Nat /\ Capacity \in Nat \ {0}
  BY ZonedConstantsOK DEF TypeOK, ZonesOK, ZoneOK
<1>w. ~Wiping
  BY SeenAsIs DEF StoreWp, At
<1>1. /\ pc[t] = "store" /\ z \in SeqZone /\ offset[t] = wp[z] /\ loaded[t] = wp[z]
      /\ length[t] > 0 /\ wp[z] + length[t] <= Capacity
      /\ cond[z] \in OpenCond /\ zone_locks[z] = t
  BY DEF StoreWp, At, ZonesOK, ThreadOK, Writing, Locked
<1>2. /\ wp'[z] = wp[z] + length[t]
      /\ granted'[z] = granted[z] \cup (wp[z] .. wp[z] + length[t] - 1)
      /\ UNCHANGED <<cond, op, zone, offset, length>>
  BY <1>1, <1>t DEF StoreWp
<1>3. granted[z] = 0 .. wp[z] - 1
  BY <1>1, <1>t DEF ZonesOK, ZoneOK, OpenCond
<1>4. granted'[z] = 0 .. wp'[z] - 1
  BY <1>1, <1>2, <1>3, <1>t
<1>5. wp'[z] > 0 /\ wp'[z] \in Nat /\ wp'[z] <= Capacity /\ cond'[z] \in {"IMP_OPEN", "EXP_OPEN"}
  BY <1>1, <1>2, <1>t DEF OpenCond
<1>6. CASE new = Capacity
  <2>1. pc'[t] = "full" /\ UNCHANGED zone_locks
    BY <1>6, <1>t, <1>w DEF StoreWp, Goto
  <2>2. ZoneOK(z)'
    BY <1>1, <1>2, <1>4, <1>5, <2>1 DEF ZoneOK
  <2>3. ThreadOK(t)'
    BY <1>1, <1>2, <2>1 DEF ThreadOK, Writing, Locked
  <2> QED  BY <2>2, <2>3 DEF Mine
<1>7. CASE new # Capacity
  <2>1. pc'[t] = "idle" /\ wp'[z] # Capacity
    BY <1>1, <1>2, <1>7, <1>t, <1>w DEF StoreWp, Return, Goto
  <2>2. ZoneOK(z)'
    BY <1>1, <1>2, <1>4, <1>5, <2>1 DEF ZoneOK
  <2> QED  BY <2>1, <2>2, OverOK DEF Mine
<1> QED  BY <1>6, <1>7

LEMMA OpenMine ==
  ASSUME TypeOK, ZonesOK, NEW t \in Thread, zoned_open_zone(t)
  PROVE  Mine(t)
<1>t. /\ zone[t] \in Zone /\ zone_locks \in [Zone -> Thread \cup {None}] /\ pc \in [Thread -> Label]
  BY DEF TypeOK
<1>1. /\ pc[t] = "open" /\ op[t] = "open" /\ UNCHANGED <<cond, wp, granted, op, zone, length>>
      /\ \A u \in Thread \ {t} : pc'[u] = pc[u]
      /\ pc'[t] = "idle" \/ (pc'[t] = "open_locked" /\ zone_locks'[zone[t]] = t)
  BY <1>t DEF zoned_open_zone, At, Goto, ZonesOK, ThreadOK
<1>2. ZoneOK(zone[t])'
  BY <1>1, <1>t, ZoneKept DEF ZonesOK
<1>3. ThreadOK(t)'
  BY <1>1 DEF ThreadOK, Writing, Locked
<1> QED  BY <1>2, <1>3 DEF Mine

LEMMA LockMine ==
  ASSUME TypeOK, ZonesOK, NEW t \in Thread, LockZone(t)
  PROVE  Mine(t)
<1>t. /\ zone[t] \in Zone /\ zone_locks \in [Zone -> Thread \cup {None}] /\ pc \in [Thread -> Label]
  BY DEF TypeOK
<1>1. /\ pc[t] # "full" /\ UNCHANGED <<cond, wp, granted, op, zone, length>>
      /\ \A u \in Thread \ {t} : pc'[u] = pc[u]
      /\ pc'[t] \in {"close_locked", "reset_locked", "full"} /\ zone_locks'[zone[t]] = t
  BY <1>t DEF LockZone, Goto
<1>2. ZoneOK(zone[t])'
  BY <1>1, <1>t, ZoneKept DEF ZonesOK
<1>3. ThreadOK(t)'
  BY <1>1 DEF ThreadOK, Writing, Locked
<1> QED  BY <1>2, <1>3 DEF Mine

-----------------------------------------------------------------------------
(* ... in open_zone_locked                                                 *)

\* A zone at the end of open_zone_locked. It was not about to be marked full,
\* since that is done by the holder of the lock.
LEMMA OpenedMine ==
  ASSUME TypeOK, ZonesOK, NEW t \in Thread, pc[t] = "open_locked", NEW status, AfterOpen(t, status),
         cond'[zone[t]] = cond[zone[t]] \/ (cond[zone[t]] # "NOT_WP" /\ cond[zone[t]] # "FULL"
                                            /\ cond'[zone[t]] \in OpenCond),
         UNCHANGED <<wp, granted, args>>,
         status = "BLK_STS_OK" => cond'[zone[t]] \in OpenCond
  PROVE  Mine(t)
<1> DEFINE z == zone[t]
<1>t. z \in Zone /\ pc \in [Thread -> Label] /\ "open_locked" \in Locked
  BY DEF TypeOK, Locked
<1>1. wp[z] = Capacity => cond[z] = "FULL"
  BY <1>t, OnlyHolder
<1>2. ZoneOK(z)'
  <2>1. ZoneOK(z)
    BY <1>t DEF ZonesOK
  <2>2. wp'[z] = wp[z] /\ granted'[z] = granted[z]
    OBVIOUS
  <2>3. CASE cond'[z] = cond[z]
    BY <1>1, <2>1, <2>2, <2>3 DEF ZoneOK
  <2>4. CASE cond[z] # "NOT_WP" /\ cond[z] # "FULL" /\ cond'[z] \in OpenCond
    BY <1>1, <2>1, <2>2, <2>4 DEF ZoneOK, OpenCond
  <2> QED  BY <2>3, <2>4
<1>3. CASE op[t] # "open" /\ status = "BLK_STS_OK"
  <2>1. pc'[t] = "load" /\ UNCHANGED zone_locks
    BY <1>3, <1>t DEF AfterOpen, Goto
  <2>2. Writing(t) /\ ThreadOK(t)
    BY <1>3 DEF Writing, ZonesOK
  <2>3. /\ zone_locks[z] = t /\ z \in SeqZone /\ offset[t] = wp[z]
        /\ length[t] > 0 /\ wp[z] + length[t] <= Capacity
    BY <2>2, <1>t DEF ThreadOK
  <2>4. ThreadOK(t)'
    BY <1>3, <2>1, <2>3 DEF ThreadOK
  <2> QED  BY <1>2, <2>4 DEF Mine
<1>4. CASE ~(op[t] # "open" /\ status = "BLK_STS_OK")
  <2>1. pc'[t] = "idle"
    BY <1>4, <1>t DEF AfterOpen, Return, Goto
  <2> QED  BY <1>2, <2>1, OverOK DEF Mine
<1> QED  BY <1>3, <1>4

LEMMA OpenLockedMine ==
  ASSUME ExactInv, RoomForAll, ZonesOK, NEW t \in Thread,
         OpenAlready(t) \/ OpenRefused(t) \/ OpenGranted(t) \/ OpenEvicts(t)
  PROVE  Mine(t)
<1> DEFINE z == zone[t]
<1> USE DEF At
<1>t. TypeOK /\ z \in Zone /\ cond \in [Zone -> Cond]
  BY DEF ExactInv, TypeOK
<1>1. CASE OpenAlready(t)
  <2>1. /\ pc[t] = "open_locked" /\ UNCHANGED <<wp, granted, args>>
        /\ cond' = IF cond[z] = "IMP_OPEN" /\ op[t] = "open" THEN [cond EXCEPT ![z] = "EXP_OPEN"]
                   ELSE cond
    BY <1>1 DEF OpenAlready
  <2>2. PICK status : /\ AfterOpen(t, status)
                      /\ status = IF cond[z] \in OpenCond THEN "BLK_STS_OK" ELSE "BLK_STS_IOERR"
    BY <1>1 DEF OpenAlready
  <2>3. cond'[z] = cond[z] \/ (cond[z] = "IMP_OPEN" /\ cond'[z] = "EXP_OPEN")
    BY <2>1, <1>t
  <2>4. /\ status = "BLK_STS_OK" => cond'[z] \in OpenCond
        /\ cond'[z] = cond[z] \/ (cond[z] # "NOT_WP" /\ cond[z] # "FULL" /\ cond'[z] \in OpenCond)
    BY <2>2, <2>3 DEF OpenCond
  <2> QED  BY <2>1, <2>2, <2>4, <1>t, OpenedMine
<1>2. CASE OpenRefused(t)
  <2>1. pc[t] = "open_locked" /\ UNCHANGED <<cond, wp, granted, args>>
    BY <1>2 DEF OpenRefused
  <2>2. PICK status : AfterOpen(t, status) /\ status # "BLK_STS_OK"
    BY <1>2 DEF OpenRefused
  <2> QED  BY <2>1, <2>2, <1>t, OpenedMine
<1>3. CASE OpenGranted(t)
  <2>1. /\ pc[t] = "open_locked" /\ UNCHANGED <<wp, granted, args>> /\ AfterOpen(t, "BLK_STS_OK")
        /\ cond[z] \in {"EMPTY", "CLOSED"}
    BY <1>3 DEF OpenGranted
  <2>2. cond'[z] \in OpenCond
    BY <1>3, <1>t DEF OpenGranted, OpenCond
  <2> QED  BY <2>1, <2>2, <1>t, OpenedMine
<1>4. ~OpenEvicts(t)
  BY <1>t, RoomToOpen DEF ExactInv, OpenEvicts
<1> QED  BY <1>1, <1>2, <1>3, <1>4

-----------------------------------------------------------------------------
(* ... when it ends an operation                                           *)

LEMMA FullMine ==
  ASSUME TypeOK, ZonesOK, NEW t \in Thread, mark_zone_full_locked(t)
  PROVE  Mine(t)
<1> DEFINE z == zone[t]
<1>t. /\ z \in Zone /\ cond \in [Zone -> Cond] /\ wp \in [Zone -> Int] /\ pc \in [Thread -> Label]
      /\ Capacity \in Nat \ {0}
  BY ZonedConstantsOK DEF TypeOK
<1>1. pc'[t] = "idle" /\ UNCHANGED <<zone, granted>> /\ ZoneOK(z)
  BY <1>t DEF mark_zone_full_locked, Return, Goto, ZonesOK
<1>2. CASE cond[z] = "NOT_WP"
  <2>1. UNCHANGED <<cond, wp>>
    BY <1>2 DEF mark_zone_full_locked
  <2>2. ZoneOK(z)'
    BY <1>1, <1>2, <2>1, <1>t DEF ZoneOK
  <2> QED  BY <1>1, <2>2, OverOK DEF Mine
<1>3. CASE cond[z] # "NOT_WP"
  <2>1. cond'[z] = "FULL" /\ wp'[z] = Capacity
    BY <1>3, <1>t DEF mark_zone_full_locked
  <2>2. ZoneOK(z)'
    BY <1>1, <1>3, <2>1, <1>t DEF ZoneOK
  <2> QED  BY <1>1, <2>2, OverOK DEF Mine
<1> QED  BY <1>2, <1>3

LEMMA CloseMine ==
  ASSUME TypeOK, ZonesOK, NEW t \in Thread, zoned_close_zone(t)
  PROVE  Mine(t)
<1> DEFINE z == zone[t]
<1>t. /\ z \in Zone /\ cond \in [Zone -> Cond] /\ wp \in [Zone -> Int] /\ pc \in [Thread -> Label]
  BY DEF TypeOK
<1>1. /\ pc[t] = "close_locked" /\ pc'[t] = "idle" /\ UNCHANGED <<zone, wp, granted>> /\ ZoneOK(z)
      /\ cond'[z] = IF cond[z] \in ActiveCond THEN IF wp[z] = 0 THEN "EMPTY" ELSE "CLOSED" ELSE cond[z]
  BY <1>t DEF zoned_close_zone, At, Return, Goto, ZonesOK
<1>2. wp[z] = Capacity => cond[z] = "FULL"
  BY <1>1, <1>t, OnlyHolder DEF Locked
<1>3. ZoneOK(z)'
  <2>1. CASE cond[z] \in ActiveCond
    <3>1. cond[z] # "FULL" /\ cond[z] # "NOT_WP"
      BY <2>1 DEF ActiveCond, OpenCond
    <3>2. cond'[z] = IF wp[z] = 0 THEN "EMPTY" ELSE "CLOSED"
      BY <1>1, <2>1
    <3> QED  BY <1>1, <1>2, <3>1, <3>2, <1>t DEF ZoneOK
  <2>2. CASE cond[z] \notin ActiveCond
    <3>1. cond'[z] = cond[z]
      BY <1>1, <2>2
    <3> QED  BY <1>1, <1>2, <3>1 DEF ZoneOK
  <2> QED  BY <2>1, <2>2
<1> QED  BY <1>1, <1>3, OverOK DEF Mine

LEMMA ResetMine ==
  ASSUME TypeOK, ZonesOK, NEW t \in Thread, zoned_reset_zone(t)
  PROVE  Mine(t)
<1> DEFINE z == zone[t]
<1>t. /\ z \in Zone /\ cond \in [Zone -> Cond] /\ wp \in [Zone -> Int] /\ pc \in [Thread -> Label]
      /\ granted \in [Zone -> SUBSET Int] /\ Capacity \in Nat \ {0}
  BY ZonedConstantsOK DEF TypeOK
<1>1. pc[t] = "reset_locked" /\ pc'[t] = "idle" /\ UNCHANGED zone /\ ZoneOK(z)
  BY <1>t DEF zoned_reset_zone, At, Return, Goto, ZonesOK
<1>2. wp[z] = Capacity => cond[z] = "FULL"
  BY <1>1, <1>t, OnlyHolder DEF Locked
<1>3. CASE cond[z] \in ActiveCond \cup {"FULL"}
  <2>1. cond'[z] = "EMPTY" /\ wp'[z] = 0 /\ granted'[z] = {}
    BY <1>3, <1>t DEF zoned_reset_zone
  <2>2. z \in SeqZone
    BY <1>1, <1>3 DEF ZoneOK, ActiveCond, OpenCond
  <2>3. 0 .. 0 - 1 = {}
    OBVIOUS
  <2>4. granted'[z] = 0 .. wp'[z] - 1 /\ wp'[z] # Capacity /\ wp'[z] \in Nat /\ wp'[z] <= Capacity
    BY <2>1, <2>3, <1>t
  <2>5. ZoneOK(z)'
    BY <1>1, <2>1, <2>2, <2>4 DEF ZoneOK
  <2> QED  BY <1>1, <2>5, OverOK DEF Mine
<1>4. CASE cond[z] \notin ActiveCond \cup {"FULL"}
  <2>1. UNCHANGED <<cond, wp, granted>>
    BY <1>4 DEF zoned_reset_zone
  <2>2. ZoneOK(z)'
    BY <1>1, <1>2, <2>1 DEF ZoneOK
  <2> QED  BY <1>1, <2>2, OverOK DEF Mine
<1> QED  BY <1>3, <1>4

LEMMA WipeMine ==
  ASSUME TypeOK, ZonesOK, NEW t \in Thread, zoned_reset_all_zone(t)
  PROVE  Mine(t)
<1>1. /\ pc[t] = "reset_all" /\ pc'[t] = "wiping" /\ zone[t] \in Zone
      /\ UNCHANGED <<cond, wp, granted, zone>> /\ \A u \in Thread \ {t} : pc'[u] = pc[u]
  BY DEF zoned_reset_all_zone, At, Goto, TypeOK
<1>2. ZoneOK(zone[t])'
  BY <1>1, ZoneKept DEF ZonesOK
<1>3. ThreadOK(t)'
  BY <1>1 DEF ThreadOK, Writing, Locked
<1> QED  BY <1>2, <1>3 DEF Mine

-----------------------------------------------------------------------------
(* The invariant                                                           *)

LEMMA StepZones ==
  ASSUME ExactInv, RoomForAll, ZonesOK, ResetAllAlone, NEW t \in Thread, Step(t),
         pc[t] # "wiping"
  PROVE  ZonesOK'
<1>1. TypeOK /\ pc[t] # "evict"
  BY DEF ExactInv, ZonesOK, ThreadOK
<1>2. Local(t) /\ Guarded(t)
  BY <1>1, StepLocal
<1>3. ~close_imp_open_zone(t) /\ ~EvictDone(t) /\ ~ResetAllDone(t)
  BY <1>1 DEF close_imp_open_zone, EvictDone, ResetAllDone, At
<1>4. Mine(t)
  BY <1>1, <1>3, WriteMine, LoadMine, StoreMine, OpenMine, LockMine, OpenLockedMine, FullMine,
     CloseMine, ResetMine, WipeMine DEF Step
<1>5. ASSUME NEW z \in Zone PROVE ZoneOK(z)'
  <2>1. CASE z = zone[t]
    <3>1. zone'[t] = z /\ ZoneOK(zone[t])'
      BY <2>1, <1>2, <1>4 DEF Local, Mine
    <3> QED  BY <3>1 DEF ZoneOK
  <2>2. CASE z # zone[t]
    BY <2>2, <1>1, <1>2, OtherZones DEF ZonesOK
  <2> QED  BY <2>1, <2>2
<1>6. ASSUME NEW u \in Thread PROVE ThreadOK(u)'
  BY <1>1, <1>2, <1>4, OtherThreads DEF Mine, ZonesOK
<1> QED  BY <1>5, <1>6 DEF ZonesOK

LEMMA CallZones ==
  ASSUME TypeOK, ZonesOK, NEW t \in Thread, NEW o \in Ops, NEW z \in Zone, NEW off, NEW n \in Nat,
         o \in {"write", "append"} => n > 0, Call(t, o, z, off, n)
  PROVE  ZonesOK'
<1>t. /\ pc \in [Thread -> Label] /\ op \in [Thread -> OpCode] /\ zone \in [Thread -> Zone]
      /\ length \in [Thread -> Nat] /\ offset \in [Thread -> Int] /\ o \in OpCode
  BY ZonedConstantsOK DEF TypeOK
<1>1. /\ pc[t] = "idle" /\ pc'[t] = IF o \in {"write", "append"} THEN "write" ELSE o
      /\ op'[t] = o /\ length'[t] = n /\ UNCHANGED <<cond, wp, granted, zone_locks, loaded>>
  BY <1>t DEF Call, At, Goto
<1>2. \A u \in Thread \ {t} : /\ pc'[u] = pc[u] /\ op'[u] = op[u] /\ zone'[u] = zone[u]
                              /\ length'[u] = length[u] /\ offset'[u] = offset[u]
  BY <1>t DEF Call, Goto
<1>3. ThreadOK(t)'
  <2>1. pc'[t] \in {"write", "open", "close", "finish", "reset", "reset_all"}
    BY <1>1, <1>t DEF OpCode
  <2>2. pc'[t] = "write" => o \in {"write", "append"}
    BY <1>1, <1>t DEF OpCode
  <2> QED  BY <1>1, <2>1, <2>2 DEF ThreadOK, Writing, Locked
<1>4. ASSUME NEW u \in Thread \ {t} PROVE ThreadOK(u)'
  BY <1>1, <1>2 DEF ZonesOK, ThreadOK, Writing
<1>5. ASSUME NEW y \in Zone PROVE ZoneOK(y)'
  <2>1. ASSUME NEW u \in Thread, zone[u] = y, pc[u] = "full"
        PROVE  zone'[u] = y /\ pc'[u] = "full"
    BY <2>1, <1>1, <1>2
  <2> QED  BY <1>1, <2>1 DEF ZonesOK, ZoneOK
<1> QED  BY <1>3, <1>4, <1>5 DEF ZonesOK

\* A fresh disk.
LEMMA FreshZones ==
  ASSUME NEW f, NEW w, NEW g, NEW z \in Zone,
         f = FreshCond, w = [y \in Zone |-> 0], g = [y \in Zone |-> {}]
  PROVE  /\ z \in SeqZone <=> f[z] # "NOT_WP"
         /\ f[z] \in {"EMPTY", "NOT_WP"} /\ w[z] = 0 /\ g[z] = 0 .. w[z] - 1
         /\ w[z] \in Nat /\ w[z] <= Capacity /\ w[z] # Capacity
<1>1. f[z] = IF z \in SeqZone THEN "EMPTY" ELSE "NOT_WP"
  BY DEF FreshCond
<1>2. 0 .. 0 - 1 = {}
  OBVIOUS
<1> QED  BY <1>1, <1>2, ZonedConstantsOK

LEMMA ResetAllZones ==
  ASSUME TypeOK, ZonesOK, NEW t \in Thread, ResetAllDone(t), ResetAllAlone
  PROVE  ZonesOK'
<1>1. ASSUME NEW u \in Thread PROVE pc'[u] = "idle"
  BY DEF ResetAllDone, At, Goto, ResetAllAlone, TypeOK
<1>2. ASSUME NEW z \in Zone PROVE ZoneOK(z)'
  BY FreshZones DEF ResetAllDone, ZoneOK
<1> QED  BY <1>1, <1>2, OverOK DEF ZonesOK

LEMMA InitZones == Init => ZonesOK
<1> SUFFICES ASSUME Init PROVE ZonesOK
  OBVIOUS
<1>1. ASSUME NEW z \in Zone PROVE ZoneOK(z)
  BY FreshZones DEF Init, ZoneOK
<1>2. ASSUME NEW t \in Thread PROVE ThreadOK(t)
  BY DEF Init, ThreadOK, Writing, Locked
<1> QED  BY <1>1, <1>2 DEF ZonesOK

LEMMA ZonesStep ==
  ASSUME ExactInv, RoomForAll, ZonesOK, ResetAllAlone, [Next]_vars
  PROVE  ZonesOK'
<1>t. TypeOK
  BY DEF ExactInv
<1>0. CASE UNCHANGED vars
  BY <1>0 DEF vars, ZonesOK, ZoneOK, ThreadOK, Writing
<1>1. ASSUME NEW t \in Thread, NEW o \in Ops, NEW z \in Zone, NEW off \in 0 .. Capacity - 1,
             NEW n \in 0 .. Capacity, o \in {"write", "append"} => n > 0, Call(t, o, z, off, n)
      PROVE  ZonesOK'
  <2>1. n \in Nat
    BY ZonedConstantsOK
  <2> QED  BY <1>1, <1>t, <2>1, CallZones
<1>2. ASSUME NEW t \in Thread, Step(t) PROVE ZonesOK'
  <2>1. CASE pc[t] # "wiping"
    BY <1>2, <2>1, StepZones
  <2>2. CASE pc[t] = "wiping"
    <3>1. ResetAllDone(t)
      BY <1>2, <2>2, StepInside
    <3> QED  BY <3>1, <1>t, ResetAllZones
  <2> QED  BY <2>1, <2>2
<1> QED  BY <1>0, <1>1, <1>2 DEF Next

\* What the invariant says of a zone nobody is working on, and of a write
\* about to move the write pointer.
LEMMA ZonesShown == TypeOK /\ ZonesOK => CondMatchesWp /\ GrantsDisjoint
<1> SUFFICES ASSUME TypeOK, ZonesOK PROVE CondMatchesWp /\ GrantsDisjoint
  OBVIOUS
<1>z. SeqZone \subseteq Zone
  BY ZonedConstantsOK DEF SeqZone, Zone
<1>1. ASSUME NEW z \in SeqZone, zone_locks[z] = None
      PROVE  wp[z] = Capacity => cond[z] = "FULL"
  <2>1. ASSUME NEW u \in Thread, zone[u] = z, pc[u] = "full" PROVE FALSE
    BY <1>1, <2>1, ZonedConstantsOK DEF ZonesOK, ThreadOK, Locked
  <2> QED  BY <2>1, <1>z DEF ZonesOK, ZoneOK
<1>2. CondMatchesWp
  BY <1>1, <1>z DEF CondMatchesWp, ZonesOK, ZoneOK
<1>3. ASSUME NEW t \in Thread, At(t, "store")
      PROVE  (offset[t] .. offset[t] + length[t] - 1) \cap granted[zone[t]] = {}
  <2>1. zone[t] \in Zone /\ wp[zone[t]] \in Nat /\ length[t] \in Nat
    BY DEF TypeOK, ZonesOK, ZoneOK
  <2>2. offset[t] = wp[zone[t]] /\ cond[zone[t]] \in OpenCond
    BY <1>3 DEF At, ZonesOK, ThreadOK, Writing
  <2>3. granted[zone[t]] = 0 .. wp[zone[t]] - 1
    BY <2>1, <2>2 DEF ZonesOK, ZoneOK, OpenCond
  <2> QED  BY <2>1, <2>2, <2>3
<1>4. GrantsDisjoint
  BY <1>3, <1>z DEF GrantsDisjoint, ZonesOK, ZoneOK
<1> QED  BY <1>2, <1>4

-----------------------------------------------------------------------------
(* A host that does not reset all zones at once                            *)

NoResetAll == \A t \in Thread : pc[t] \notin {"reset_all", "wiping"}

LEMMA NoResetAllStep ==
  ASSUME TypeOK, "reset_all" \notin Ops, NoResetAll, [Next]_vars
  PROVE  NoResetAll'
<1>t. pc \in [Thread -> Label]
  BY DEF TypeOK
<1>g. ASSUME NEW t \in Thread, NEW l, Goto(t, l), l \notin {"reset_all", "wiping"} PROVE NoResetAll'
  BY <1>g, <1>t DEF Goto, NoResetAll
<1>r. ASSUME NEW t \in Thread, NEW s, Return(t, s) \/ AfterOpen(t, s) PROVE NoResetAll'
  BY <1>r, <1>g DEF Return, AfterOpen
<1>u. UNCHANGED pc => NoResetAll'
  BY DEF NoResetAll
<1>0. CASE UNCHANGED vars
  BY <1>0, <1>u DEF vars
<1>1. ASSUME NEW t \in Thread, NEW o \in Ops, NEW z, NEW off, NEW n, Call(t, o, z, off, n)
      PROVE  NoResetAll'
  <2>1. o # "wiping"
    BY ZonedConstantsOK DEF OpCode
  <2> QED  BY <1>1, <2>1, <1>g DEF Call
<1>2. ASSUME NEW t \in Thread, Step(t) PROVE NoResetAll'
  <2>1. CASE zoned_write_common(t)
    BY <2>1, <1>g DEF zoned_write_common
  <2>2. CASE LoadWp(t) \/ OpenEvicts(t) \/ ResetAllDone(t)
    BY <2>2, <1>g DEF LoadWp, OpenEvicts, ResetAllDone
  <2>3. CASE StoreWp(t)
    BY <2>3, <1>g, <1>r DEF StoreWp
  <2>4. CASE zoned_open_zone(t)
    BY <2>4, <1>g DEF zoned_open_zone
  <2>5. CASE OpenAlready(t) \/ OpenGranted(t) \/ EvictDone(t)
    BY <2>5, <1>r DEF OpenAlready, OpenGranted, EvictDone
  <2>6. CASE OpenRefused(t)
    BY <2>6, <1>r DEF OpenRefused
  <2>7. CASE close_imp_open_zone(t)
    BY <2>7, <1>u DEF close_imp_open_zone
  <2>8. CASE LockZone(t)
    <3>1. \E l \in {"close_locked", "reset_locked", "full"} : Goto(t, l)
      BY <2>8 DEF LockZone
    <3> QED  BY <3>1, <1>g
  <2>9. CASE mark_zone_full_locked(t) \/ zoned_close_zone(t) \/ zoned_reset_zone(t)
    BY <2>9, <1>r DEF mark_zone_full_locked, zoned_close_zone, zoned_reset_zone
  <2>10. ~zoned_reset_all_zone(t)
    BY DEF zoned_reset_all_zone, At, NoResetAll
  <2> QED  BY <1>2, <2>1, <2>2, <2>3, <2>4, <2>5, <2>6, <2>7, <2>8, <2>9, <2>10 DEF Step
<1> QED  BY <1>0, <1>1, <1>2 DEF Next

\* Without resets of all zones the zone locks alone keep every zone in order,
\* whatever the threads do at the same time: condition and write pointer of an
\* idle zone agree, and no position is given to two writers.
THEOREM ZonesInvariant ==
  RoomForAll /\ "reset_all" \notin Ops
  => (Spec => [](CondMatchesWp /\ GrantsDisjoint))
<1> SUFFICES ASSUME RoomForAll, "reset_all" \notin Ops
             PROVE  Spec => [](CondMatchesWp /\ GrantsDisjoint)
  OBVIOUS
<1> DEFINE Inv == ExactInv /\ ZonesOK /\ NoResetAll
<1>1. Init => Inv
  BY InitExact, InitZones DEF Init, NoResetAll
<1>2. Inv /\ [Next]_vars => Inv'
  <2> SUFFICES ASSUME Inv, [Next]_vars PROVE Inv'
    OBVIOUS
  <2>1. ExactInv'
    BY CountedStep, CountersStep, ExactStep DEF ExactInv
  <2>2. ResetAllAlone
    BY DEF NoResetAll, ResetAllAlone
  <2>3. ZonesOK'
    BY <2>2, ZonesStep
  <2>4. NoResetAll'
    BY NoResetAllStep DEF ExactInv
  <2> QED  BY <2>1, <2>3, <2>4
<1>3. Inv => CondMatchesWp /\ GrantsDisjoint
  BY ZonesShown DEF ExactInv
<1> QED  BY <1>1, <1>2, <1>3, PTL DEF Spec
=============================================================================
