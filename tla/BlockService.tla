---------------------------- MODULE BlockService ----------------------------
(***************************************************************************)
(* What a BIUS device promises its callers, whatever the lists, threads    *)
(* and connections behind it: a request is given an id, the server may     *)
(* carry it out once while it is open, and it is answered once; OK is only *)
(* answered for a request that was carried out.                            *)
(***************************************************************************)
EXTENDS Integers

CONSTANTS
  MaxId,   \* bound: how many requests are submitted
  Answer   \* what a request can be answered with

VARIABLES
  issued,  \* the ids given out are 1 .. issued
  served,  \* how often the server has carried out an id
  outcome  \* the answer of an id, "none" before it has one

serviceVars == <<issued, served, outcome>>

Open(i) == i <= issued /\ outcome[i] = "none"

ServiceInit ==
  /\ issued = 0
  /\ served = [i \in 1 .. MaxId |-> 0]
  /\ outcome = [i \in 1 .. MaxId |-> "none"]

Submit ==
  /\ issued < MaxId /\ issued' = issued + 1
  /\ UNCHANGED <<served, outcome>>

\* Refused on arrival.
Reject ==
  /\ issued < MaxId /\ issued' = issued + 1
  /\ outcome' = [outcome EXCEPT ![issued + 1] = "BLK_STS_NOTSUPP"]
  /\ UNCHANGED served

Serve(i) ==
  /\ Open(i) /\ served[i] = 0
  /\ served' = [served EXCEPT ![i] = 1]
  /\ UNCHANGED <<issued, outcome>>

Reply(i, a) ==
  /\ Open(i)
  /\ a = "BLK_STS_OK" => served[i] = 1
  /\ outcome' = [outcome EXCEPT ![i] = a]
  /\ UNCHANGED <<issued, served>>

ServiceNext ==
  \/ Submit \/ Reject
  \/ \E i \in 1 .. MaxId : Serve(i) \/ \E a \in Answer : Reply(i, a)

ServiceSpec == ServiceInit /\ [][ServiceNext]_serviceVars
=============================================================================
