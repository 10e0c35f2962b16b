-------------------------- MODULE BiusTeardownProofs --------------------------
(***************************************************************************)
(* Proofs about BiusTeardown, for any number of tags and connections: the  *)
(* lists stay whole under list_add_tail and list_del, and the walks of the *)
(* teardown end every request they meet exactly once and miss none, while  *)
(* blk-mq hands out the tags they give back, except the one that a walk is *)
(* standing on.                                                            *)
(***************************************************************************)
EXTENDS BiusTeardown, TLAPS

USE DEF ptrVars

-----------------------------------------------------------------------------
(* The lists                                                               *)

Linked(n) == ListOf(n) # None

\* A linked node and its neighbours. While a request is half way into the
\* pending list, the head already has it for its predecessor and the former
\* last node still has the head for its successor.
LinkOK(n) ==
  /\ next[n] \in Node /\ ListOf(next[n]) = ListOf(n)
  /\ prev[n] \in Node
  /\ IF adding # None /\ next[n] = Pending THEN n = prev[adding] ELSE prev[next[n]] = n
  /\ adding = None \/ n # Pending => ListOf(prev[n]) = ListOf(n) /\ next[prev[n]] = n

Whole == \A n \in Node : Linked(n) => LinkOK(n)

HalfWay ==
  adding # None =>
    /\ on[adding] = None /\ next[adding] = Pending /\ prev[Pending] = adding
    /\ prev[adding] \in Node /\ ListOf(prev[adding]) = Pending /\ next[prev[adding]] = Pending

\* No circle without a head: every set of listed requests has one whose
\* predecessor is not among them.
Acyclic ==
  \A S \in SUBSET Slot :
    S # {} /\ (\A s \in S : on[s] # None) => \E s \in S : prev[s] \notin S

Links == Whole /\ HalfWay /\ Acyclic

PtrType ==
  /\ next \in [Node -> Node \cup {Poison}] /\ prev \in [Node -> Node \cup {Poison}]
  /\ adding \in Slot \cup {None}
  /\ on \in [Slot -> ListHead \cup {None}]

LEMMA Nodes ==
  /\ Slot \subseteq Node /\ ListHead \subseteq Node /\ Slot \cap ListHead = {} /\ Conn \subseteq ListHead
  /\ Pending \in ListHead /\ Pending \notin Slot /\ Pending \notin Conn
  /\ None \notin Node /\ Poison \notin Node /\ None # Poison
  /\ \A n \in Node : n \in Slot \/ n \in ListHead
BY ConstantsOK DEF Node, ListHead

LEMMA ListOfNode ==
  /\ \A h \in ListHead : ListOf(h) = h /\ Linked(h)
  /\ \A s \in Slot : ListOf(s) = on[s] /\ (Linked(s) <=> on[s] # None)
BY Nodes DEF ListOf, Linked

LEMMA ListOfNext ==
  /\ \A h \in ListHead : ListOf(h)' = h
  /\ \A s \in Slot : ListOf(s)' = on'[s]
BY Nodes DEF ListOf

\* list_del of a request that is on a list. The pending list is taken from
\* under pending_lock only, so not while a request is half way into it.
LEMMA DelLinks ==
  ASSUME PtrType, Links, UNCHANGED adding, NEW s \in Slot, on[s] # None,
         adding = None \/ on[s] # Pending, list_del(s)
  PROVE  PtrType' /\ Links'
<1> DEFINE p == prev[s]
           x == next[s]
<1>1. /\ LinkOK(s) /\ ListOf(s) = on[s] /\ s \in Node /\ s # Pending
      /\ \A n \in Node : Linked(n) => LinkOK(n)
  BY Nodes, ListOfNode DEF Links, Whole
<1>2. /\ p \in Node /\ x \in Node /\ next[p] = s /\ prev[x] = s
      /\ ListOf(p) = on[s] /\ ListOf(x) = on[s]
  <2>1. adding # None => x # Pending
    BY <1>1, Nodes, ListOfNode DEF LinkOK
  <2> QED  BY <1>1, <2>1 DEF LinkOK
<1>3. p # s /\ x # s
  <2>1. p # s
    <3>1. \E r \in {s} : prev[r] \notin {s}
      BY DEF Links, Acyclic
    <3> QED  BY <3>1
  <2> QED  BY <1>2, <2>1
<1>4. /\ next' = [next EXCEPT ![p] = x, ![s] = Poison]
      /\ prev' = [prev EXCEPT ![x] = p, ![s] = Poison]
      /\ on' = [on EXCEPT ![s] = None]
  BY DEF list_del
<1>5. PtrType'
  BY <1>2, <1>4, Nodes DEF PtrType
<1>6. /\ \A n \in Node \ {s} : next'[n] = IF n = p THEN x ELSE next[n]
      /\ \A n \in Node \ {s} : prev'[n] = IF n = x THEN p ELSE prev[n]
      /\ \A r \in Slot \ {s} : on'[r] = on[r]
      /\ on'[s] = None
  BY <1>2, <1>3, <1>4 DEF PtrType
<1>7. ASSUME NEW n \in Node \ {s} PROVE ListOf(n)' = ListOf(n)
  BY <1>6, Nodes, ListOfNode, ListOfNext
<1>a. adding # None =>
        /\ on[adding] = None /\ next[adding] = Pending /\ prev[Pending] = adding
        /\ prev[adding] \in Node /\ ListOf(prev[adding]) = Pending /\ next[prev[adding]] = Pending
        /\ adding \in Slot /\ adding \in Node /\ ListOf(adding) = None /\ on[s] # Pending
        /\ ListOf(Pending) = Pending /\ Pending \in Node
        /\ adding \notin {s, p, x} /\ prev[adding] \notin {s, p, x} /\ Pending \notin {s, p, x}
  <2> SUFFICES ASSUME adding # None PROVE <1>a!2
    OBVIOUS
  <2>1. /\ on[adding] = None /\ next[adding] = Pending /\ prev[Pending] = adding
        /\ prev[adding] \in Node /\ ListOf(prev[adding]) = Pending /\ next[prev[adding]] = Pending
    BY DEF Links, HalfWay
  <2>2. /\ adding \in Slot /\ adding \in Node /\ ListOf(adding) = None /\ on[s] # Pending
        /\ ListOf(Pending) = Pending /\ Pending \in Node
    BY <2>1, Nodes, ListOfNode DEF PtrType
  <2> QED  BY <1>1, <1>2, <2>1, <2>2
<1> HIDE DEF p, x
<1>8. ASSUME NEW n \in Node, Linked(n)' PROVE LinkOK(n)'
  <2>1. n # s /\ Linked(n) /\ LinkOK(n)
    <3>1. ListOf(s)' = None
      BY <1>6, ListOfNext
    <3> QED  BY <1>1, <1>7, <1>8, <3>1 DEF Linked
  <2>2. CASE ListOf(n) = on[s]
    <3>2. /\ next[n] \in Node /\ ListOf(next[n]) = ListOf(n) /\ prev[n] \in Node
          /\ prev[next[n]] = n /\ ListOf(prev[n]) = ListOf(n) /\ next[prev[n]] = n
      <4>1. adding # None => next[n] # Pending /\ n # Pending
        BY <1>a, <2>1, <2>2 DEF LinkOK
      <4> QED  BY <2>1, <4>1 DEF LinkOK
    <3>3. /\ next'[n] \in Node \ {s} /\ ListOf(next'[n]) = ListOf(n) /\ prev'[next'[n]] = n
      <4>1. CASE n = p
        BY <1>2, <1>3, <1>6, <2>1, <4>1
      <4>2. CASE n # p
        <5>1. next[n] # s
          BY <3>2, <4>2 DEF p
        <5>2. next[n] # x
          BY <1>2, <2>1, <3>2
        <5> QED  BY <1>6, <2>1, <3>2, <4>2, <5>1, <5>2
      <4> QED  BY <4>1, <4>2
    <3>4. /\ prev'[n] \in Node \ {s} /\ ListOf(prev'[n]) = ListOf(n) /\ next'[prev'[n]] = n
      <4>1. CASE n = x
        BY <1>2, <1>3, <1>6, <2>1, <4>1
      <4>2. CASE n # x
        <5>1. prev[n] # s
          BY <3>2, <4>2 DEF x
        <5>2. prev[n] # p
          BY <1>2, <2>1, <3>2
        <5> QED  BY <1>6, <2>1, <3>2, <4>2, <5>1, <5>2
      <4> QED  BY <4>1, <4>2
    <3>5. ListOf(next[n])' = ListOf(n)' /\ ListOf(prev[n])' = ListOf(n)'
      BY <1>7, <2>1, <3>3, <3>4 DEF ListOf
    <3>6. ~(adding' # None /\ next'[n] = Pending)
      BY <1>a, <2>2, <3>3
    <3> QED  BY <3>3, <3>4, <3>5, <3>6 DEF LinkOK
  <2>3. CASE ListOf(n) # on[s]
    <3>1. n \notin {s, p, x} /\ next[n] \in Node \ {s, p, x}
      BY <1>1, <1>2, <2>1, <2>3 DEF LinkOK
    <3>2. /\ next'[n] = next[n] /\ prev'[n] = prev[n] /\ prev'[next[n]] = prev[next[n]]
      BY <1>6, <3>1
    <3>3. adding # None => prev'[adding] = prev[adding]
      BY <1>6, <1>a
    <3>4. adding = None \/ n # Pending =>
            prev[n] \in Node \ {s, p, x} /\ ListOf(prev[n]) = ListOf(n) /\ next'[prev[n]] = n
      BY <1>1, <1>2, <1>6, <2>1, <2>3 DEF LinkOK
    <3>5. /\ ListOf(next[n])' = ListOf(n)'
          /\ adding = None \/ n # Pending => ListOf(prev[n])' = ListOf(n)'
      BY <1>7, <2>1, <3>1, <3>2, <3>4 DEF ListOf, LinkOK
    <3> QED  BY <2>1, <3>2, <3>3, <3>4, <3>5 DEF LinkOK
  <2> QED  BY <2>2, <2>3
<1>h. HalfWay'
  <2> SUFFICES ASSUME adding # None PROVE HalfWay'
    BY DEF HalfWay
  <2>1. /\ on'[adding] = None /\ next'[adding] = Pending /\ prev'[Pending] = adding
        /\ prev'[adding] = prev[adding] /\ next'[prev[adding]] = Pending
    BY <1>6, <1>a
  <2>2. ListOf(prev[adding])' = Pending
    BY <1>7, <1>a, <2>1 DEF ListOf
  <2> QED  BY <1>a, <2>1, <2>2 DEF HalfWay
<1>9. Acyclic'
  <2> SUFFICES ASSUME NEW S \in SUBSET Slot, S # {}, \A r \in S : on'[r] # None
               PROVE  \E r \in S : prev'[r] \notin S
    BY DEF Acyclic
  <2>1. s \notin S /\ \A r \in S : on[r] # None /\ r \in Node \ {s}
    BY <1>6, Nodes
  <2>2. PICK r \in S : prev[r] \notin S
    BY <2>1 DEF Links, Acyclic
  <2>3. CASE prev'[r] \notin S
    BY <2>3
  <2>4. CASE prev'[r] \in S
    <3>1. r = x /\ p \in S
      BY <1>6, <2>1, <2>2, <2>4
    <3>2. PICK q \in S \cup {s} : prev[q] \notin S \cup {s}
      <4>1. S \cup {s} \in SUBSET Slot /\ S \cup {s} # {} /\ \A q \in S \cup {s} : on[q] # None
        BY <2>1
      <4> QED  BY <4>1 DEF Links, Acyclic
    <3>3. q # s
      BY <3>1, <3>2 DEF p
    <3>4. q \in S /\ q # x
      BY <3>2, <3>3, <1>2
    <3>5. prev'[q] = prev[q]
      BY <1>6, <2>1, <3>4
    <3> QED  BY <3>2, <3>4, <3>5
  <2> QED  BY <2>3, <2>4
<1> QED  BY <1>5, <1>8, <1>9, <1>h DEF Links, Whole

\* Only linked nodes have linked neighbours.
LEMMA Neighbours ==
  ASSUME PtrType, Links, NEW n \in Node, Linked(n)
  PROVE  /\ LinkOK(n)
         /\ next[n] \in Node /\ Linked(next[n])
         /\ n # Pending \/ adding = None => prev[n] \in Node /\ Linked(prev[n])
BY DEF Links, Whole, LinkOK, Linked

\* One more listed request, whose predecessor was listed before it.
LEMMA AcyclicAdd ==
  ASSUME PtrType, Links, NEW s \in Slot, on[s] = None, NEW h \in ListHead, on' = [on EXCEPT ![s] = h],
         prev'[s] # s, \A r \in Slot \ {s} : prev'[r] = prev[r]
  PROVE  Acyclic'
<1> SUFFICES ASSUME NEW S \in SUBSET Slot, S # {}, \A r \in S : on'[r] # None
             PROVE  \E r \in S : prev'[r] \notin S
  BY DEF Acyclic
<1> DEFINE R == S \ {s}
<1>1. CASE R = {}
  BY <1>1
<1>2. CASE R # {}
  <2>1. \A r \in R : on[r] # None
    BY DEF PtrType
  <2>2. PICK r \in R : prev[r] \notin R
    BY <1>2, <2>1 DEF Links, Acyclic
  <2>3. Linked(r) /\ r \in Node /\ r # Pending
    BY <2>1, Nodes, ListOfNode
  <2>4. Linked(prev[r])
    BY <2>3, Neighbours
  <2>5. prev[r] # s
    BY <2>4, ListOfNode
  <2> QED  BY <2>2, <2>5
<1> QED  BY <1>1, <1>2

\* list_add_tail to the list of a connection.
LEMMA AddLinks ==
  ASSUME PtrType, Links, UNCHANGED adding, NEW h \in Conn, NEW s \in Slot, on[s] = None, s # adding,
         list_add_tail(s, h)
  PROVE  PtrType' /\ Links'
<1> DEFINE t == prev[h]
<1>h. h \in ListHead /\ h \in Node /\ h # Pending /\ h # s /\ s \in Node /\ ListOf(h) = h
  BY Nodes, ListOfNode
<1>1. LinkOK(h) /\ ~Linked(s)
  BY <1>h, ListOfNode, Neighbours
<1>2. t \in Node /\ ListOf(t) = h /\ next[t] = h /\ t # s
  <2>1. t \in Node /\ ListOf(t) = h /\ next[t] = h
    BY <1>h, <1>1 DEF LinkOK
  <2>2. ListOf(s) = None /\ h # None
    BY <1>h, <1>1, Nodes DEF Linked
  <2> QED  BY <2>1, <2>2
<1>3. /\ prev' = [prev EXCEPT ![h] = s, ![s] = t]
      /\ next' = [next EXCEPT ![s] = h, ![t] = s]
      /\ on' = [on EXCEPT ![s] = h]
  BY DEF list_add_tail
<1>4. PtrType'
  BY <1>h, <1>2, <1>3 DEF PtrType
<1>5. /\ next'[s] = h /\ next'[t] = s /\ \A n \in Node \ {s, t} : next'[n] = next[n]
      /\ prev'[h] = s /\ prev'[s] = t /\ \A n \in Node \ {s, h} : prev'[n] = prev[n]
      /\ on'[s] = h /\ \A r \in Slot \ {s} : on'[r] = on[r]
  BY <1>h, <1>2, <1>3 DEF PtrType
<1>6. ListOf(s)' = h /\ \A n \in Node \ {s} : ListOf(n)' = ListOf(n)
  <2>1. ListOf(s)' = h
    BY <1>5, ListOfNext
  <2>2. ASSUME NEW n \in Node \ {s} PROVE ListOf(n)' = ListOf(n)
    BY <1>5, Nodes, ListOfNode, ListOfNext
  <2> QED  BY <2>1, <2>2
<1> HIDE DEF t
<1>7. ASSUME NEW n \in Node, Linked(n)' PROVE LinkOK(n)'
  <2>1. CASE n = s
    <3>1. /\ next'[n] = h /\ prev'[n] = t /\ prev'[next'[n]] = n /\ next'[prev'[n]] = n
      BY <1>5, <2>1
    <3>2. ListOf(next[n])' = ListOf(n)' /\ ListOf(prev[n])' = ListOf(n)'
      BY <1>h, <1>2, <1>6, <2>1, <3>1 DEF ListOf
    <3> QED  BY <1>h, <1>2, <3>1, <3>2 DEF LinkOK
  <2>2. CASE n # s
    <3>1. Linked(n) /\ LinkOK(n) /\ next[n] \in Node \ {s}
      BY <1>1, <1>6, <1>7, <2>2, Neighbours DEF Linked
    <3>2. n # Pending \/ adding = None => prev[n] \in Node \ {s}
      BY <1>1, <3>1, Neighbours
    <3>3. prev'[n] \in Node
      BY <1>5, <1>h, <2>2, <3>1 DEF LinkOK
    <3>4. adding' = None \/ n # Pending => ListOf(prev[n])' = ListOf(n)' /\ next'[prev'[n]] = n
      <4>1. CASE n = h
        <5>1. prev'[n] = s /\ next'[s] = h
          BY <1>5, <4>1
        <5> QED  BY <1>6, <1>h, <4>1, <5>1 DEF ListOf
      <4>2. CASE n # h /\ (adding = None \/ n # Pending)
        <5>1. prev'[n] = prev[n] /\ next[prev[n]] = n /\ ListOf(prev[n]) = ListOf(n)
          BY <1>5, <2>2, <3>1, <4>2 DEF LinkOK
        <5>2. prev[n] \in Node \ {s} /\ prev[n] # t
          BY <1>2, <3>2, <4>2, <5>1
        <5> QED  BY <1>5, <1>6, <2>2, <5>1, <5>2 DEF ListOf
      <4> QED  BY <4>1, <4>2
    <3>5. CASE n = t
      <4>1. next'[n] = s /\ prev'[s] = n
        BY <1>5, <3>5
      <4>2. ListOf(next[n])' = ListOf(n)'
        BY <1>2, <1>6, <2>2, <3>5, <4>1 DEF ListOf
      <4>3. IF adding' # None /\ next'[n] = Pending THEN n = prev'[adding'] ELSE prev'[next'[n]] = n
        BY <4>1, Nodes
      <4> QED  BY <3>3, <3>4, <4>1, <4>2, <4>3, <1>h DEF LinkOK
    <3>6. CASE n # t
      <4>1. next'[n] = next[n] /\ next[n] # h
        <5>1. next[n] # h
          BY <1>h, <3>1, <3>6 DEF LinkOK, t
        <5> QED  BY <1>5, <2>2, <3>6, <5>1
      <4>2. ListOf(next[n])' = ListOf(n)'
        BY <1>6, <2>2, <3>1, <4>1 DEF ListOf, LinkOK
      <4>3. IF adding' # None /\ next'[n] = Pending THEN n = prev'[adding'] ELSE prev'[next'[n]] = n
        <5>1. prev'[next[n]] = prev[next[n]]
          BY <1>5, <3>1, <4>1
        <5>2. adding # None => prev'[adding] = prev[adding]
          BY <1>5, Nodes, ListOfNode DEF PtrType
        <5> QED  BY <3>1, <4>1, <5>1, <5>2 DEF LinkOK
      <4> QED  BY <3>1, <3>3, <3>4, <4>1, <4>2, <4>3 DEF LinkOK
    <3> QED  BY <3>5, <3>6
  <2> QED  BY <2>1, <2>2
<1>8. HalfWay'
  <2> SUFFICES ASSUME adding # None PROVE HalfWay'
    BY DEF HalfWay
  <2>1. /\ on[adding] = None /\ next[adding] = Pending /\ prev[Pending] = adding
        /\ prev[adding] \in Node /\ ListOf(prev[adding]) = Pending /\ next[prev[adding]] = Pending
    BY DEF Links, HalfWay
  <2>2. adding \in Slot /\ adding \in Node /\ Pending \in Node /\ ~Linked(adding)
    BY <2>1, Nodes, ListOfNode DEF PtrType
  <2>3. adding # t /\ prev[adding] # t /\ prev[adding] # s
    BY <1>1, <1>2, <1>h, <2>1, <2>2, Nodes DEF Linked
  <2>4. /\ on'[adding] = None /\ next'[adding] = Pending /\ prev'[Pending] = adding
        /\ prev'[adding] = prev[adding] /\ next'[prev[adding]] = Pending
    BY <1>5, <1>h, <2>1, <2>2, <2>3, Nodes
  <2>5. ListOf(prev[adding])' = Pending
    BY <1>6, <2>1, <2>3, <2>4 DEF ListOf
  <2> QED  BY <2>1, <2>4, <2>5 DEF HalfWay
<1>9. Acyclic'
  <2>1. \A r \in Slot \ {s} : prev'[r] = prev[r]
    BY <1>5, <1>h, Nodes
  <2> QED  BY <1>2, <1>3, <1>5, <1>h, <2>1, AcyclicAdd
<1> QED  BY <1>4, <1>7, <1>8, <1>9 DEF Links, Whole

\* bius_queue_rq up to the last store: the node is not reachable yet.
LEMMA QueueLinks ==
  ASSUME PtrType, Links, adding = None, NEW s \in Slot, on[s] = None,
         LinkBehind(s, Pending), adding' = s, UNCHANGED on
  PROVE  PtrType' /\ Links'
<1> DEFINE t == prev[Pending]
<1>p. Pending \in Node /\ s \in Node /\ Pending # s /\ ListOf(Pending) = Pending /\ Linked(Pending)
  BY Nodes, ListOfNode
<1>1. LinkOK(Pending) /\ ~Linked(s)
  BY <1>p, ListOfNode, Neighbours
<1>2. t \in Node /\ ListOf(t) = Pending /\ next[t] = Pending /\ t # s
  BY <1>p, <1>1 DEF LinkOK, Linked
<1>3. /\ prev' = [prev EXCEPT ![Pending] = s, ![s] = t]
      /\ next' = [next EXCEPT ![s] = Pending]
  BY DEF LinkBehind
<1>4. PtrType'
  BY <1>p, <1>2, <1>3 DEF PtrType
<1>5. /\ next'[s] = Pending /\ \A n \in Node \ {s} : next'[n] = next[n]
      /\ prev'[Pending] = s /\ prev'[s] = t /\ \A n \in Node \ {s, Pending} : prev'[n] = prev[n]
  BY <1>p, <1>3 DEF PtrType
<1>6. \A n : ListOf(n)' = ListOf(n)
  BY DEF ListOf
<1>n. s # None
  BY Nodes
<1> HIDE DEF t
<1>7. ASSUME NEW n \in Node, Linked(n)' PROVE LinkOK(n)'
  <2>1. Linked(n) /\ LinkOK(n) /\ n # s /\ next[n] \in Node \ {s}
    BY <1>1, <1>6, <1>7, Neighbours DEF Linked
  <2>2. prev[n] \in Node \ {s} /\ prev[next[n]] = n /\ next[prev[n]] = n
    BY <1>1, <2>1, Neighbours DEF LinkOK
  <2>3. next'[n] = next[n] /\ ListOf(next[n])' = ListOf(n)'
    BY <1>5, <1>6, <2>1 DEF LinkOK, ListOf
  <2>4. IF next[n] = Pending THEN n = prev'[s] ELSE prev'[next[n]] = n
    BY <1>5, <2>1, <2>2 DEF t
  <2>5. n # Pending => ListOf(prev[n])' = ListOf(n)' /\ next'[prev'[n]] = n /\ prev'[n] = prev[n]
    BY <1>5, <1>6, <2>1, <2>2 DEF LinkOK, ListOf
  <2>6. prev'[n] \in Node
    BY <1>5, <1>p, <2>1, <2>2, <2>5
  <2> QED  BY <2>1, <2>3, <2>4, <2>5, <2>6, <1>n DEF LinkOK
<1>8. HalfWay'
  <2>1. prev'[s] = t /\ next'[t] = Pending /\ ListOf(prev[adding])' = Pending
    BY <1>2, <1>5, <1>6 DEF ListOf
  <2> QED  BY <1>2, <1>5, <2>1 DEF HalfWay
<1>9. Acyclic'
  <2> SUFFICES ASSUME NEW S \in SUBSET Slot, S # {}, \A r \in S : on[r] # None
               PROVE  \E r \in S : prev'[r] \notin S
    BY DEF Acyclic
  <2>1. PICK r \in S : prev[r] \notin S
    BY DEF Links, Acyclic
  <2>2. prev'[r] = prev[r]
    BY <1>5, Nodes
  <2> QED  BY <2>1, <2>2
<1> QED  BY <1>4, <1>7, <1>8, <1>9 DEF Links, Whole

\* The last store of list_add_tail makes it the last node of the list.
LEMMA PublishLinks ==
  ASSUME PtrType, Links, adding # None, next' = [next EXCEPT ![prev[adding]] = adding],
         on' = [on EXCEPT ![adding] = Pending], adding' = None, UNCHANGED prev
  PROVE  PtrType' /\ Links'
<1> DEFINE a == adding
           t == prev[a]
<1>1. /\ on[a] = None /\ next[a] = Pending /\ prev[Pending] = a
      /\ t \in Node /\ ListOf(t) = Pending /\ next[t] = Pending
  BY DEF Links, HalfWay
<1>2. /\ a \in Slot /\ a \in Node /\ Pending \in Node /\ Pending \in ListHead /\ a # Pending
      /\ ~Linked(a) /\ t # a
  BY <1>1, Nodes, ListOfNode DEF PtrType, Linked
<1>3. PtrType'
  BY <1>1, <1>2 DEF PtrType
<1>4. /\ next'[t] = a /\ \A n \in Node \ {t} : next'[n] = next[n]
      /\ on'[a] = Pending /\ \A r \in Slot \ {a} : on'[r] = on[r]
  BY <1>1, <1>2 DEF PtrType
<1> DEFINE L(n) == IF n \in ListHead THEN n ELSE on'[n]
<1>5. L(a) = Pending /\ (\A n \in Node \ {a} : L(n) = ListOf(n)) /\ \A n : ListOf(n)' = L(n)
  <2>1. a \notin ListHead
    BY <1>2, Nodes
  <2>2. ASSUME NEW n \in Node \ {a} PROVE L(n) = ListOf(n)
    BY <1>4, Nodes DEF ListOf
  <2> QED  BY <1>4, <2>1, <2>2 DEF ListOf
<1> HIDE DEF L, a, t
<1>d. /\ a = adding /\ t = prev[a]
      /\ PtrType /\ Links /\ adding' = None /\ prev' = prev /\ on' = [on EXCEPT ![a] = Pending]
  BY DEF a, t
<1>6. ASSUME NEW n \in Node, Linked(n)' PROVE LinkOK(n)'
  <2>1. CASE n = a
    <3>1. next'[n] = Pending /\ prev'[n] = t /\ prev'[next'[n]] = n /\ next'[prev'[n]] = n
      BY <1>1, <1>2, <1>4, <1>d, <2>1
    <3>2. L(next'[n]) = L(n) /\ L(prev'[n]) = L(n)
      BY <1>1, <1>2, <1>5, <2>1, <3>1, ListOfNode
    <3>3. ListOf(next[n])' = L(next'[n]) /\ ListOf(prev[n])' = L(prev'[n]) /\ ListOf(n)' = L(n)
      BY DEF ListOf, L
    <3> QED  BY <1>1, <1>2, <1>d, <3>1, <3>2, <3>3 DEF LinkOK
  <2>2. CASE n # a
    <3>1. Linked(n) /\ LinkOK(n) /\ next[n] \in Node \ {a}
      BY <1>2, <1>5, <1>6, <1>d, <2>2, Neighbours DEF Linked
    <3>2. next'[n] \in Node /\ L(next'[n]) = ListOf(n) /\ prev[next'[n]] = n
      <4>1. CASE n = t
        BY <1>1, <1>2, <1>4, <1>5, <1>d, <4>1
      <4>2. CASE n # t
        <5>1. next[n] # Pending /\ prev[next[n]] = n
          BY <1>2, <1>d, <3>1, <4>2 DEF LinkOK, PtrType
        <5> QED  BY <1>4, <1>5, <3>1, <4>2, <5>1 DEF LinkOK
      <4> QED  BY <4>1, <4>2
    <3>3. prev[n] \in Node /\ L(prev[n]) = ListOf(n) /\ next'[prev[n]] = n
      <4>1. CASE n = Pending
        <5>1. prev[n] = a /\ a # t
          BY <1>1, <1>2, <4>1
        <5> QED  BY <1>1, <1>2, <1>4, <1>5, <4>1, <5>1, ListOfNode
      <4>2. CASE n # Pending
        <5>1. prev[n] \in Node \ {a} /\ next[prev[n]] = n /\ ListOf(prev[n]) = ListOf(n)
          BY <1>2, <1>d, <3>1, <4>2, Neighbours DEF LinkOK
        <5>2. prev[n] # t
          BY <1>1, <4>2, <5>1
        <5> QED  BY <1>4, <1>5, <5>1, <5>2
      <4> QED  BY <4>1, <4>2
    <3>4. ListOf(next[n])' = L(next'[n]) /\ ListOf(prev[n])' = L(prev'[n]) /\ ListOf(n)' = ListOf(n)
      <4>1. ListOf(n)' = L(n) /\ L(n) = ListOf(n)
        BY <1>5, <2>2
      <4> QED  BY <4>1 DEF ListOf, L
    <3> QED  BY <1>d, <3>2, <3>3, <3>4 DEF LinkOK
  <2> QED  BY <2>1, <2>2
<1>7. Acyclic'
  <2>1. prev'[a] # a /\ \A r \in Slot \ {a} : prev'[r] = prev[r]
    BY <1>2, <1>d
  <2> QED  BY <1>1, <1>2, <1>d, <2>1, AcyclicAdd
<1> QED  BY <1>3, <1>6, <1>7, <1>d DEF Links, Whole, HalfWay

-----------------------------------------------------------------------------
(* While the server runs                                                   *)

\* A tag that is not handed out is nowhere, an open request is on a list,
\* half way into one, or in the hands of a read().
SlotOK(s) ==
  /\ rq[s] = "free" => s # adding /\ (\A c \in Conn : hold[c] # s) /\ on[s] = None
  /\ rq[s] = "started" => on[s] # None \/ s = adding \/ \E c \in Conn : hold[c] = s

HoldOK(c) ==
  hold[c] # None =>
    /\ on[hold[c]] = None /\ hold[c] # adding /\ conn[c] = "up"
    /\ \A d \in Conn \ {c} : hold[d] # hold[c]

Usage == (\A s \in Slot : SlotOK(s)) /\ (\A c \in Conn : HoldOK(c))

\* No list is walked while a thread still serves, and the sweep comes last.
Phase ==
  /\ Serving => sweep = "no" /\ ~overtaken
  /\ (\E c \in Conn : conn[c] = "up") => Serving
  /\ sweep # "no" => \A c \in Conn : conn[c] = "closed"
  /\ cursor[Pending] = Pending => sweep \in {"walk", "drain", "gone"}
  /\ late # {} => cursor[Pending] = Pending
  /\ \A c \in Conn : hold[c] # None => conn[c] = "up"

-----------------------------------------------------------------------------
(* What is left of a list while it is torn down. Behind a node that was     *)
(* passed the pointers say nothing: its tag may be in use again. The open   *)
(* requests of a list form a chain that ends at its head h; nx and pv are   *)
(* next and prev.                                                           *)

Live(h) == {s \in Slot : on[s] = h /\ rq[s] = "started"}

\* Every set of these requests has one whose predecessor is not among them.
Unrolled(pv, R) == \A T \in SUBSET R : T # {} => \E y \in T : pv[y] \notin T

Chain(nx, pv, h, S) ==
  \A y \in S : nx[y] \in S \cup {h} /\ (nx[y] # h => pv[nx[y]] = y)

\* All of them come behind x: the head itself, or the node whose request the
\* walk has just ended.
Behind(nx, pv, h, x, S) ==
  /\ x \notin S /\ Chain(nx, pv, h, S) /\ Unrolled(pv, S)
  /\ nx[x] \in S \cup {h} /\ (nx[x] # h => pv[nx[x]] = x)
  /\ \A y \in S : pv[y] \in S \cup {x} /\ nx[pv[y]] = y

\* The walk stands at the first of them. What prev[x] is does not matter: the
\* node before may have been queued again, behind all of these.
At(nx, pv, h, x, S) ==
  /\ x \in S /\ Chain(nx, pv, h, S) /\ Unrolled(pv, S \ {x})
  /\ \A y \in S : nx[y] # x
  /\ \A y \in S \ {x} : pv[y] \in S /\ nx[pv[y]] = y

\* The last node of the pending list, and a request half way behind it.
LastNode == IF adding = None THEN prev[Pending] ELSE prev[adding]

Tail(S) ==
  /\ LastNode \in S /\ next[LastNode] = Pending
  /\ adding # None => prev[Pending] = adding /\ next[adding] = Pending

WaitingOK(c) ==
  /\ conn[c] = "stop" => Behind(next, prev, c, c, Live(c))
  /\ conn[c] = "walk" => IF cursor[c] = c THEN Live(c) = {} ELSE At(next, prev, c, cursor[c], Live(c))
  /\ conn[c] = "step" => rq[cursor[c]] = "free" /\ Behind(next, prev, c, cursor[c], Live(c))
  /\ conn[c] = "closed" => Live(c) = {}

PendingOK ==
  /\ sweep \in {"no", "start"} =>
       Behind(next, prev, Pending, Pending, Live(Pending)) /\ Tail(Live(Pending) \cup {Pending})
  /\ sweep = "walk" =>
       IF cursor[Pending] = Pending THEN Live(Pending) \subseteq late
       ELSE At(next, prev, Pending, cursor[Pending], Live(Pending)) /\ Tail(Live(Pending))
  /\ sweep = "step" =>
       /\ rq[cursor[Pending]] = "free"
       /\ Behind(next, prev, Pending, cursor[Pending], Live(Pending))
       /\ Tail(Live(Pending) \cup {cursor[Pending]})
  /\ sweep \in {"drain", "gone"} => cursor[Pending] = Pending /\ Live(Pending) \subseteq late

OpenOK ==
  /\ adding # None => rq[adding] = "started" /\ on[adding] = None
  /\ \A s \in Slot : rq[s] = "started" => on[s] # None \/ s = adding

Walks == OpenOK /\ PendingOK /\ \A c \in Conn : WaitingOK(c)

\* The body of a loop is left at a request, or the model has stopped.
Standing ==
  ~stray => /\ \A c \in Conn : conn[c] = "step" => cursor[c] \in Slot
            /\ sweep = "step" => cursor[Pending] \in Slot

Inv ==
  /\ TypeOK /\ Phase /\ Standing
  /\ stray => overtaken
  /\ Serving => Links /\ Usage
  /\ ~Serving /\ ~overtaken => Walks

LEMMA ListHeads == ListHead = Conn \cup {Pending} /\ \A h \in ListHead : h \notin Slot
BY Nodes DEF ListHead

LEMMA TypeOfPtr == TypeOK => PtrType
BY DEF TypeOK, PtrType

LEMMA InvInit == Init => Inv
<1> SUFFICES ASSUME Init PROVE Inv
  OBVIOUS
<1> USE DEF Init
<1>1. TypeOK
  BY Nodes DEF TypeOK
<1>2. \A s \in Slot : ListOf(s) = None
  BY Nodes DEF ListOf
<1>3. Whole
  <2> SUFFICES ASSUME NEW n \in Node, Linked(n) PROVE LinkOK(n)
    BY DEF Whole
  <2>1. n \in ListHead
    BY <1>2, Nodes DEF Linked
  <2>2. next[n] = n /\ prev[n] = n
    BY <2>1
  <2> QED  BY <2>2 DEF LinkOK
<1>4. HalfWay /\ Acyclic
  BY DEF HalfWay, Acyclic
<1>5. Usage
  BY Nodes DEF Usage, SlotOK, HoldOK
<1>6. Phase /\ Standing /\ Serving
  BY Nodes DEF Phase, Standing, Serving
<1> QED  BY <1>1, <1>3, <1>4, <1>5, <1>6 DEF Inv, Links

\* A step of the serving phase.
LEMMA ServingKept ==
  ASSUME Inv, Serving, UNCHANGED <<conn, cursor, sweep, late, overtaken, stray>>,
         TypeOK', Links', Usage'
  PROVE  Inv'
BY DEF Inv, Serving, Phase, Standing, Usage, HoldOK

LEMMA UpServing ==
  ASSUME Inv, NEW c \in Conn, conn[c] = "up"
  PROVE  Serving /\ Links /\ Usage
BY DEF Inv, Phase

LEMMA TakeInv ==
  ASSUME Inv, NEW c \in Conn, Take(c)
  PROVE  Inv'
<1> DEFINE s == next[Pending]
<1>s. Serving /\ Links /\ Usage /\ TypeOK /\ PtrType
  BY UpServing, TypeOfPtr DEF Take, Inv
<1>1. s \in Slot /\ on[s] = Pending
  <2>1. s \in Node /\ ListOf(s) = Pending /\ s # Pending
    <3>1. Pending \in Node /\ Linked(Pending) /\ ListOf(Pending) = Pending
      BY Nodes, ListOfNode
    <3> QED  BY <1>s, <3>1, Neighbours DEF LinkOK, Take
  <2> QED  BY <2>1, Nodes, ListOfNode
<1>2. /\ adding = None /\ conn[c] = "up" /\ hold[c] = None /\ hold' = [hold EXCEPT ![c] = s]
      /\ list_del(s) /\ UNCHANGED <<rq, adding, exiting, conn, cursor, sweep, late, overtaken, stray>>
  BY DEF Take
<1> HIDE DEF s
<1>3. PtrType' /\ Links'
  BY <1>s, <1>1, <1>2, DelLinks, Nodes
<1>4. TypeOK'
  BY <1>s, <1>1, <1>2, <1>3 DEF TypeOK, PtrType
<1>5. /\ on'[s] = None /\ \A r \in Slot \ {s} : on'[r] = on[r]
      /\ hold'[c] = s /\ \A d \in Conn \ {c} : hold'[d] = hold[d]
  BY <1>s, <1>1, <1>2 DEF list_del, TypeOK
<1>6. rq[s] = "started" /\ s # adding /\ s # None /\ \A d \in Conn : hold[d] # s
  BY <1>s, <1>1, <1>2, Nodes DEF Usage, SlotOK, HoldOK, TypeOK
<1>7. \A r \in Slot : SlotOK(r)'
  <2> SUFFICES ASSUME NEW r \in Slot PROVE SlotOK(r)'
    OBVIOUS
  <2>1. SlotOK(r)
    BY <1>s DEF Usage
  <2>2. CASE r = s
    BY <1>2, <1>5, <1>6, <2>2 DEF SlotOK
  <2>3. CASE r # s
    BY <1>2, <1>5, <1>6, <2>1, <2>3, Nodes DEF SlotOK
  <2> QED  BY <2>2, <2>3
<1>8. \A d \in Conn : HoldOK(d)'
  <2> SUFFICES ASSUME NEW d \in Conn PROVE HoldOK(d)'
    OBVIOUS
  <2>1. HoldOK(d)
    BY <1>s DEF Usage
  <2>2. CASE d = c
    BY <1>2, <1>5, <1>6, <2>2 DEF HoldOK
  <2>3. CASE d # c
    BY <1>s, <1>2, <1>5, <1>6, <2>1, <2>3 DEF HoldOK, TypeOK
  <2> QED  BY <2>2, <2>3
<1> QED  BY <1>s, <1>2, <1>3, <1>4, <1>7, <1>8, ServingKept DEF Usage

LEMMA AwaitInv ==
  ASSUME Inv, NEW c \in Conn, Await(c)
  PROVE  Inv'
<1> DEFINE s == hold[c]
<1>s. Serving /\ Links /\ Usage /\ TypeOK /\ PtrType /\ conn[c] = "up"
  <2>1. TypeOK /\ PtrType /\ s # None
    BY TypeOfPtr DEF Inv, Await
  <2>2. conn[c] = "up"
    BY <2>1 DEF Inv, Phase
  <2> QED  BY <2>1, <2>2, UpServing
<1>1. /\ s \in Slot /\ on[s] = None /\ s # adding
      /\ \A d \in Conn \ {c} : hold[d] # s
  BY <1>s DEF Await, TypeOK, Usage, HoldOK
<1>2. /\ list_add_tail(s, c) /\ hold' = [hold EXCEPT ![c] = None]
      /\ UNCHANGED <<rq, adding, exiting, conn, cursor, sweep, late, overtaken, stray>>
  BY DEF Await
<1>3. PtrType' /\ Links'
  BY <1>s, <1>1, <1>2, AddLinks
<1>4. TypeOK'
  BY <1>s, <1>1, <1>2, <1>3 DEF TypeOK, PtrType
<1>5. /\ on'[s] = c /\ (\A r \in Slot \ {s} : on'[r] = on[r]) /\ c # None
      /\ hold'[c] = None /\ \A d \in Conn \ {c} : hold'[d] = hold[d]
  BY <1>s, <1>1, <1>2, ConstantsOK DEF list_add_tail, TypeOK
<1>6. rq[s] = "started" /\ s # None
  BY <1>s, <1>1, Nodes DEF Usage, SlotOK, TypeOK
<1>7. \A r \in Slot : SlotOK(r)'
  <2> SUFFICES ASSUME NEW r \in Slot PROVE SlotOK(r)'
    OBVIOUS
  <2>1. SlotOK(r)
    BY <1>s DEF Usage
  <2>2. CASE r = s
    BY <1>2, <1>5, <1>6, <2>2 DEF SlotOK
  <2>3. CASE r # s
    BY <1>2, <1>5, <1>6, <2>1, <2>3, Nodes DEF SlotOK
  <2> QED  BY <2>2, <2>3
<1>8. \A d \in Conn : HoldOK(d)'
  <2> SUFFICES ASSUME NEW d \in Conn PROVE HoldOK(d)'
    OBVIOUS
  <2>1. HoldOK(d)
    BY <1>s DEF Usage
  <2>2. CASE d = c
    BY <1>5, <2>2 DEF HoldOK
  <2>3. CASE d # c
    BY <1>s, <1>1, <1>2, <1>5, <1>6, <2>1, <2>3 DEF HoldOK, TypeOK
  <2> QED  BY <2>2, <2>3
<1> QED  BY <1>s, <1>2, <1>3, <1>4, <1>7, <1>8, ServingKept DEF Usage

LEMMA WriteInv ==
  ASSUME Inv, NEW c \in Conn, bius_dev_write(c)
  PROVE  Inv'
<1>s. Serving /\ Links /\ Usage /\ TypeOK /\ PtrType
  BY UpServing, TypeOfPtr DEF bius_dev_write, Inv
<1>1. PICK s \in Slot : on[s] = c /\ list_del(s) /\ rq' = [rq EXCEPT ![s] = "free"]
  BY DEF bius_dev_write
<1>2. UNCHANGED <<adding, hold, exiting, conn, cursor, sweep, late, overtaken, stray>>
  BY DEF bius_dev_write
<1>n. c # None /\ s # None /\ c # Pending
  BY Nodes
<1>3. PtrType' /\ Links'
  BY <1>s, <1>1, <1>2, <1>n, DelLinks
<1>4. TypeOK'
  BY <1>s, <1>1, <1>2, <1>3 DEF TypeOK, PtrType
<1>5. /\ on'[s] = None /\ \A r \in Slot \ {s} : on'[r] = on[r]
      /\ rq'[s] = "free" /\ \A r \in Slot \ {s} : rq'[r] = rq[r]
  BY <1>s, <1>1 DEF list_del, TypeOK
<1>6. s # adding /\ \A d \in Conn : hold[d] # s
  BY <1>s, <1>1, <1>n DEF Usage, HoldOK, Links, HalfWay
<1>7. \A r \in Slot : SlotOK(r)'
  <2> SUFFICES ASSUME NEW r \in Slot PROVE SlotOK(r)'
    OBVIOUS
  <2>1. SlotOK(r)
    BY <1>s DEF Usage
  <2>2. CASE r = s
    BY <1>2, <1>5, <1>6, <2>2 DEF SlotOK
  <2>3. CASE r # s
    BY <1>2, <1>5, <1>6, <2>1, <2>3 DEF SlotOK
  <2> QED  BY <2>2, <2>3
<1>8. \A d \in Conn : HoldOK(d)'
  BY <1>s, <1>2, <1>5, <1>6 DEF Usage, HoldOK, TypeOK
<1> QED  BY <1>s, <1>2, <1>3, <1>4, <1>7, <1>8, ServingKept DEF Usage

\* Steps that leave the lists and the requests alone.
LEMMA StillLists ==
  ASSUME Links, Usage, UNCHANGED <<next, prev, on, rq, adding, hold>>,
         \A c \in Conn : conn[c] = "up" /\ hold[c] # None => conn'[c] = "up"
  PROVE  Links' /\ Usage'
<1>1. Links'
  <2>1. \A n : ListOf(n)' = ListOf(n)
    BY DEF ListOf
  <2>2. \A n \in Node : (LinkOK(n)' <=> LinkOK(n)) /\ (Linked(n)' <=> Linked(n))
    BY DEF LinkOK, Linked, ListOf
  <2>3. HalfWay' /\ Acyclic'
    BY DEF Links, HalfWay, Acyclic, ListOf
  <2> QED  BY <2>2, <2>3 DEF Links, Whole
<1>2. Usage'
  BY DEF Usage, SlotOK, HoldOK
<1> QED  BY <1>1, <1>2

LEMMA DieInv ==
  ASSUME Inv, NEW c \in Conn, Die(c)
  PROVE  Inv'
<1>s. Serving /\ Links /\ Usage /\ TypeOK
  BY UpServing DEF Die, Inv
<1>1. /\ conn[c] = "up" /\ hold[c] = None /\ conn' = [conn EXCEPT ![c] = "stop"]
      /\ UNCHANGED <<next, prev, rq, adding, hold, exiting, cursor, sweep, on, late, overtaken, stray>>
  BY DEF Die
<1>2. TypeOK'
  BY <1>s, <1>1 DEF TypeOK
<1>3. conn'[c] = "stop" /\ \A d \in Conn \ {c} : conn'[d] = conn[d]
  BY <1>s, <1>1 DEF TypeOK
<1>4. Links' /\ Usage'
  BY <1>s, <1>1, <1>3, StillLists
<1>5. Serving'
  BY <1>s, <1>3 DEF Serving
<1>6. sweep = "no" /\ ~overtaken
  BY <1>s DEF Inv, Phase
<1>7. Phase' /\ Standing'
  BY <1>1, <1>5, <1>6 DEF Inv, Phase, Standing, Serving
<1> QED  BY <1>1, <1>2, <1>4, <1>5, <1>6, <1>7 DEF Inv

LEMMA ExitInv ==
  ASSUME Inv, Exit \/ UNCHANGED vars
  PROVE  Inv'
<1>1. UNCHANGED <<next, prev, rq, adding, hold, conn, cursor, sweep, on, late, overtaken, stray>>
  BY DEF Exit, vars
<1>2. TypeOK'
  BY <1>1 DEF Inv, TypeOK, Exit, vars
<1>3. Serving => Links' /\ Usage'
  BY <1>1, StillLists DEF Inv
<1>4. Walks => Walks'
  BY <1>1 DEF Walks, OpenOK, PendingOK, WaitingOK, Tail, LastNode, Live
<1> QED  BY <1>1, <1>2, <1>3, <1>4 DEF Inv, Phase, Standing, Serving

-----------------------------------------------------------------------------
(* Chains                                                                  *)

\* Nothing is left behind a node whose successor is the head.
LEMMA ChainLast ==
  ASSUME NEW nx, NEW pv, NEW h, NEW x, NEW S, h \notin S, Behind(nx, pv, h, x, S), nx[x] = h
  PROVE  S = {}
<1> SUFFICES ASSUME S # {} PROVE FALSE
  OBVIOUS
<1>1. PICK y \in S : pv[y] \notin S
  BY DEF Behind, Unrolled
<1> QED  BY <1>1 DEF Behind

\* The step of a loop, and its start: the next node is the first of the rest.
LEMMA ChainStep ==
  ASSUME NEW nx, NEW pv, NEW h, NEW x, NEW S, Behind(nx, pv, h, x, S), nx[x] # h
  PROVE  At(nx, pv, h, nx[x], S)
<1>1. nx[x] \in S /\ pv[nx[x]] = x /\ x \notin S
  BY DEF Behind
<1>2. \A y \in S : nx[y] # nx[x]
  BY <1>1 DEF Behind, Chain
<1>3. \A y \in S \ {nx[x]} : pv[y] \in S /\ nx[pv[y]] = y
  BY DEF Behind
<1>4. Unrolled(pv, S \ {nx[x]})
  BY DEF Behind, Unrolled
<1> QED  BY <1>1, <1>2, <1>3, <1>4 DEF Behind, At

\* The body of a loop: what is left comes behind the node just ended.
LEMMA ChainEnd ==
  ASSUME NEW nx, NEW pv, NEW h, NEW x, NEW S, At(nx, pv, h, x, S)
  PROVE  Behind(nx, pv, h, x, S \ {x})
<1>1. Chain(nx, pv, h, S \ {x})
  BY DEF At, Chain
<1>2. nx[x] \in (S \ {x}) \cup {h} /\ (nx[x] # h => pv[nx[x]] = x)
  BY DEF At, Chain
<1>3. \A y \in S \ {x} : pv[y] \in (S \ {x}) \cup {x} /\ nx[pv[y]] = y
  BY DEF At
<1> QED  BY <1>1, <1>2, <1>3 DEF At, Behind

\* A chain does not notice what happens to other nodes.
LEMMA ChainKept ==
  ASSUME NEW nx, NEW pv, NEW h, NEW x, NEW S, NEW n2, NEW p2,
         \A y \in S : n2[y] = nx[y] /\ p2[y] = pv[y]
  PROVE  /\ At(nx, pv, h, x, S) => At(n2, p2, h, x, S)
         /\ Behind(nx, pv, h, x, S) /\ n2[x] = nx[x] => Behind(n2, p2, h, x, S)
<1>1. Chain(nx, pv, h, S) => Chain(n2, p2, h, S)
  BY DEF Chain
<1>2. \A R \in SUBSET S : Unrolled(pv, R) => Unrolled(p2, R)
  BY DEF Unrolled
<1>3. ASSUME At(nx, pv, h, x, S) PROVE At(n2, p2, h, x, S)
  <2>1. Unrolled(p2, S \ {x})
    BY <1>2, <1>3 DEF At
  <2> QED  BY <1>1, <1>3, <2>1 DEF At
<1>4. ASSUME Behind(nx, pv, h, x, S), n2[x] = nx[x] PROVE Behind(n2, p2, h, x, S)
  <2>1. Unrolled(p2, S)
    BY <1>2, <1>4 DEF Behind
  <2> QED  BY <1>1, <1>4, <2>1 DEF Behind
<1> QED  BY <1>3, <1>4

\* One more node a at the end, behind the last node t.
LEMMA ChainAdd ==
  ASSUME NEW nx, NEW pv, NEW h, NEW x, NEW S, NEW n2, NEW a, NEW t,
         a \notin S, a # x, a # h, h \notin S, t # a, nx[t] = h, n2[t] = a, n2[a] = h, pv[a] = t,
         \A y \in (S \cup {x}) \ {t} : n2[y] = nx[y]
  PROVE  /\ At(nx, pv, h, x, S) /\ t \in S => At(n2, pv, h, x, S \cup {a})
         /\ Behind(nx, pv, h, x, S) /\ t \in S \cup {x} => Behind(n2, pv, h, x, S \cup {a})
<1>1. ASSUME Chain(nx, pv, h, S) PROVE Chain(n2, pv, h, S \cup {a})
  <2> SUFFICES ASSUME NEW y \in S \cup {a}
               PROVE  n2[y] \in (S \cup {a}) \cup {h} /\ (n2[y] # h => pv[n2[y]] = y)
    BY DEF Chain
  <2>1. CASE y = a
    BY <2>1
  <2>2. CASE y = t
    BY <2>2
  <2>3. CASE y # a /\ y # t
    BY <1>1, <2>3 DEF Chain
  <2> QED  BY <2>1, <2>2, <2>3
<1>2. ASSUME NEW R \in SUBSET S, Unrolled(pv, R), \A y \in R : pv[y] # a PROVE Unrolled(pv, R \cup {a})
  <2> SUFFICES ASSUME NEW T \in SUBSET (R \cup {a}), T # {} PROVE \E y \in T : pv[y] \notin T
    BY DEF Unrolled
  <2>1. CASE T \ {a} = {}
    BY <2>1
  <2>2. CASE T \ {a} # {}
    <3>1. PICK y \in T \ {a} : pv[y] \notin T \ {a}
      BY <1>2, <2>2 DEF Unrolled
    <3> QED  BY <1>2, <3>1
  <2> QED  BY <2>1, <2>2
<1>3. ASSUME At(nx, pv, h, x, S), t \in S PROVE At(n2, pv, h, x, S \cup {a})
  <2>1. Unrolled(pv, (S \cup {a}) \ {x})
    <3>1. Unrolled(pv, (S \ {x}) \cup {a})
      BY <1>2, <1>3 DEF At
    <3>2. (S \cup {a}) \ {x} = (S \ {x}) \cup {a}
      OBVIOUS
    <3> QED  BY <3>1, <3>2
  <2>2. \A y \in S \cup {a} : n2[y] # x
    BY <1>3 DEF At
  <2>3. ASSUME NEW y \in (S \cup {a}) \ {x} PROVE pv[y] \in S \cup {a} /\ n2[pv[y]] = y
    <3>1. CASE y = a
      BY <1>3, <3>1
    <3>2. CASE y # a
      <4>1. pv[y] \in S /\ nx[pv[y]] = y /\ pv[y] # t
        BY <1>3, <2>3, <3>2 DEF At
      <4> QED  BY <4>1
    <3> QED  BY <3>1, <3>2
  <2> QED  BY <1>1, <1>3, <2>1, <2>2, <2>3 DEF At
<1>4. ASSUME Behind(nx, pv, h, x, S), t \in S \cup {x} PROVE Behind(n2, pv, h, x, S \cup {a})
  <2>1. Unrolled(pv, S \cup {a})
    BY <1>2, <1>4 DEF Behind
  <2>2. n2[x] \in (S \cup {a}) \cup {h} /\ (n2[x] # h => pv[n2[x]] = x)
    <3>1. CASE x = t
      BY <3>1
    <3>2. CASE x # t
      BY <1>4, <3>2 DEF Behind
    <3> QED  BY <3>1, <3>2
  <2>3. ASSUME NEW y \in S \cup {a} PROVE pv[y] \in (S \cup {a}) \cup {x} /\ n2[pv[y]] = y
    <3>1. CASE y = a
      BY <1>4, <3>1
    <3>2. CASE y # a
      <4>1. pv[y] \in S \cup {x} /\ nx[pv[y]] = y /\ pv[y] # t
        BY <1>4, <2>3, <3>2 DEF Behind
      <4> QED  BY <4>1
    <3> QED  BY <3>1, <3>2
  <2> QED  BY <1>1, <1>4, <2>1, <2>2, <2>3 DEF Behind
<1> QED  BY <1>3, <1>4

\* When the last thread has ended, every list is whole.
LEMMA WholeChains ==
  ASSUME TypeOK, Links, Usage, \A c \in Conn : hold[c] = None
  PROVE  /\ \A h \in ListHead : Behind(next, prev, h, h, Live(h))
         /\ Tail(Live(Pending) \cup {Pending})
         /\ OpenOK
<1>1. ASSUME NEW h \in ListHead PROVE Behind(next, prev, h, h, Live(h))
  <2> DEFINE S == Live(h)
  <2>1. h \notin S /\ h \in Node /\ LinkOK(h) /\ ListOf(h) = h
    BY TypeOfPtr, ListHeads, Nodes, ListOfNode, Neighbours DEF Live
  <2>2. \A y \in Slot : on[y] = h <=> y \in S
    BY ListHeads, Nodes DEF Usage, SlotOK, Live, TypeOK
  <2>3. \A n \in Node : ListOf(n) = h => n \in S \cup {h}
    BY <2>2, Nodes, ListOfNode
  <2>4. ASSUME NEW n \in S \cup {h}
        PROVE  /\ n \in Node /\ LinkOK(n) /\ ListOf(n) = h
               /\ next[n] \in S \cup {h} /\ (next[n] # h => prev[next[n]] = n)
    <3>1. n \in Node /\ ListOf(n) = h /\ Linked(n)
      BY <2>1, <2>2, Nodes, ListOfNode DEF Live
    <3>2. LinkOK(n)
      BY <3>1, TypeOfPtr, Neighbours
    <3>3. next[n] \in S \cup {h}
      BY <2>3, <3>1, <3>2 DEF LinkOK
    <3>4. next[n] # h => next[n] # Pending
      BY <3>3, Nodes DEF Live
    <3> QED  BY <3>1, <3>2, <3>3, <3>4 DEF LinkOK
  <2>5. ASSUME NEW y \in S PROVE prev[y] \in S \cup {h} /\ next[prev[y]] = y
    <3>1. LinkOK(y) /\ ListOf(y) = h /\ y # Pending
      BY <2>4, Nodes DEF Live
    <3> QED  BY <2>3, <3>1 DEF LinkOK
  <2>6. Unrolled(prev, S)
    <3> SUFFICES ASSUME NEW T \in SUBSET S, T # {} PROVE \E y \in T : prev[y] \notin T
      BY DEF Unrolled
    <3>1. T \in SUBSET Slot /\ \A y \in T : on[y] # None
      BY Nodes DEF Live
    <3> QED  BY <3>1 DEF Links, Acyclic
  <2> HIDE DEF S
  <2>7. Behind(next, prev, h, h, S)
    BY <2>1, <2>4, <2>5, <2>6 DEF Behind, Chain
  <2> QED  BY <2>7 DEF S
<1>2. Tail(Live(Pending) \cup {Pending})
  <2>1. Pending \in Node /\ LinkOK(Pending) /\ ListOf(Pending) = Pending /\ Pending \in ListHead
    BY TypeOfPtr, Nodes, ListOfNode, Neighbours
  <2>2. LastNode \in Node /\ ListOf(LastNode) = Pending /\ next[LastNode] = Pending
    BY <2>1 DEF LastNode, LinkOK, Links, HalfWay
  <2>3. LastNode \in Live(Pending) \cup {Pending}
    <3>1. LastNode \in Slot => on[LastNode] = Pending
      BY <2>2, ListOfNode
    <3>2. LastNode \in Slot => rq[LastNode] = "started"
      BY <3>1, Nodes DEF Usage, SlotOK, TypeOK
    <3>3. LastNode \in ListHead => LastNode = Pending
      BY <2>2, ListOfNode
    <3> QED  BY <2>2, <3>1, <3>2, <3>3, Nodes DEF Live
  <2> QED  BY <2>2, <2>3 DEF Tail, Links, HalfWay
<1>3. OpenOK
  BY Nodes DEF OpenOK, Usage, SlotOK, TypeOK, Links, HalfWay
<1> QED  BY <1>1, <1>2, <1>3

-----------------------------------------------------------------------------
(* Requests that arrive                                                    *)

LEMMA QueueInv ==
  ASSUME Inv, NEW s \in Slot, bius_queue_rq(s)
  PROVE  Inv'
<1>1. /\ adding = None /\ adding' = s /\ rq[s] = "free" /\ ~stray
      /\ rq' = [rq EXCEPT ![s] = "started"] /\ LinkBehind(s, Pending)
      /\ on' = [on EXCEPT ![s] = None] /\ overtaken' = (overtaken \/ StoodOn(s))
      /\ UNCHANGED <<hold, exiting, conn, cursor, sweep, late, stray>>
  BY DEF bius_queue_rq
<1>t. TypeOK /\ PtrType /\ Phase /\ Standing
  BY TypeOfPtr DEF Inv
<1>2. TypeOK'
  BY <1>1, <1>t, Nodes DEF TypeOK, LinkBehind
<1>3. /\ \A n \in Node \ {s} : next'[n] = next[n]
      /\ \A r \in Slot \ {s} : prev'[r] = prev[r]
      /\ next'[s] = Pending /\ prev'[Pending] = s /\ prev'[s] = prev[Pending]
      /\ rq'[s] = "started" /\ \A r \in Slot \ {s} : rq'[r] = rq[r]
      /\ on'[s] = None /\ \A r \in Slot \ {s} : on'[r] = on[r]
  BY <1>1, <1>t, Nodes DEF LinkBehind, TypeOK
<1>4. Serving' <=> Serving
  BY <1>1 DEF Serving
<1>5. CASE Serving
  <2>1. Links /\ Usage /\ ~overtaken /\ sweep = "no"
    BY <1>5 DEF Inv, Phase
  <2>2. on[s] = None /\ \A c \in Conn : hold[c] # s
    BY <1>1, <2>1 DEF Usage, SlotOK
  <2>3. on' = on
    BY <1>1, <1>t, <2>2 DEF TypeOK
  <2>4. Links'
    BY <1>1, <1>t, <2>1, <2>2, <2>3, QueueLinks
  <2>5. \A r \in Slot : SlotOK(r)'
    <3> SUFFICES ASSUME NEW r \in Slot PROVE SlotOK(r)'
      OBVIOUS
    <3>1. SlotOK(r)
      BY <2>1 DEF Usage
    <3>2. CASE r = s
      BY <1>1, <1>3, <3>2 DEF SlotOK
    <3>3. CASE r # s
      BY <1>1, <1>3, <3>1, <3>3, Nodes DEF SlotOK
    <3> QED  BY <3>2, <3>3
  <2>6. \A c \in Conn : HoldOK(c)'
    BY <1>1, <2>1, <2>2, <2>3 DEF Usage, HoldOK
  <2>7. ~overtaken'
    BY <1>1, <1>5, <2>1 DEF StoodOn, Serving
  <2>8. UNCHANGED overtaken
    BY <1>2, <1>t, <2>1, <2>7 DEF TypeOK
  <2> QED  BY <1>1, <1>2, <1>5, <2>1, <2>4, <2>5, <2>6, <2>8, ServingKept DEF Usage
<1>6. CASE ~Serving
  <2>1. Phase' /\ Standing'
    BY <1>1, <1>4, <1>6, <1>t DEF Phase, Standing
  <2>2. ASSUME ~overtaken' PROVE Walks'
    <3>1. Walks /\ ~StoodOn(s)
      BY <1>1, <1>6, <2>2 DEF Inv
    <3>2. \A h \in ListHead : Live(h)' = Live(h) /\ s \notin Live(h)
      BY <1>1, <1>3, Nodes DEF Live
    <3>3. \A h \in ListHead : \A y \in Live(h) : next'[y] = next[y] /\ prev'[y] = prev[y]
      BY <1>3, <3>2, Nodes DEF Live
    <3>4. \A h \in ListHead : h \in Node \ {s} /\ next'[h] = next[h]
      BY <1>3, Nodes
    <3>5. OpenOK'
      BY <1>1, <1>3, <3>1, Nodes DEF Walks, OpenOK
    <3>6. ASSUME NEW c \in Conn PROVE WaitingOK(c)'
      <4>1. c \in ListHead /\ WaitingOK(c)
        BY <3>1, Nodes DEF Walks
      <4>2. conn[c] = "step" =>
              cursor[c] \in Slot \ {s} /\ next'[cursor[c]] = next[cursor[c]] /\ rq'[cursor[c]] = rq[cursor[c]]
        BY <1>1, <1>3, <1>t, <3>1, Nodes DEF StoodOn, Standing
      <4>3. conn[c] = "stop" => Behind(next', prev', c, c, Live(c))
        BY <3>3, <3>4, <4>1, ChainKept DEF WaitingOK
      <4>4. conn[c] = "walk" /\ cursor[c] # c => At(next', prev', c, cursor[c], Live(c))
        BY <3>3, <4>1, ChainKept DEF WaitingOK
      <4>5. conn[c] = "step" => Behind(next', prev', c, cursor[c], Live(c))
        BY <3>3, <4>1, <4>2, ChainKept DEF WaitingOK
      <4> QED  BY <1>1, <3>2, <4>1, <4>2, <4>3, <4>4, <4>5 DEF WaitingOK
    <3>7. PendingOK'
      <4>1. Pending \in ListHead /\ PendingOK
        BY <3>1, Nodes DEF Walks
      <4>2. sweep = "step" => /\ cursor[Pending] \in Slot \ {s} /\ next'[cursor[Pending]] = next[cursor[Pending]]
                              /\ rq'[cursor[Pending]] = rq[cursor[Pending]]
        BY <1>1, <1>3, <1>t, <3>1, Nodes DEF StoodOn, Standing
      <4>3. sweep \in {"no", "start"} => Behind(next', prev', Pending, Pending, Live(Pending))
        BY <3>3, <3>4, <4>1, ChainKept DEF PendingOK
      <4>4. sweep = "walk" /\ cursor[Pending] # Pending => At(next', prev', Pending, cursor[Pending], Live(Pending))
        BY <3>3, <4>1, ChainKept DEF PendingOK
      <4>5. sweep = "step" => Behind(next', prev', Pending, cursor[Pending], Live(Pending))
        BY <3>3, <4>1, <4>2, ChainKept DEF PendingOK
      <4>6. ASSUME NEW S, Tail(S), S \subseteq Node \ {s} PROVE Tail(S)'
        <5>1. LastNode' = LastNode /\ LastNode \in Node \ {s}
          BY <1>1, <1>3, <4>6, Nodes DEF LastNode, Tail
        <5>2. next'[LastNode] = Pending
          BY <1>3, <4>6, <5>1 DEF Tail
        <5> QED  BY <1>1, <1>3, <4>6, <5>1, <5>2 DEF Tail
      <4>7. Live(Pending) \subseteq Node \ {s}
        BY <3>2, <4>1, Nodes DEF Live
      <4>8. sweep \in {"no", "start"} => Tail(Live(Pending) \cup {Pending})'
        <5>1. ASSUME NEW S, S = Live(Pending) \cup {Pending}, sweep \in {"no", "start"} PROVE Tail(S)'
          BY <4>1, <4>6, <4>7, <3>4, <5>1 DEF PendingOK
        <5> QED  BY <3>2, <4>1, <5>1 DEF Tail
      <4>9. sweep = "walk" /\ cursor[Pending] # Pending => Tail(Live(Pending))'
        <5>1. ASSUME NEW S, S = Live(Pending), sweep = "walk", cursor[Pending] # Pending PROVE Tail(S)'
          BY <4>1, <4>6, <4>7, <5>1 DEF PendingOK
        <5> QED  BY <3>2, <4>1, <5>1 DEF Tail
      <4>10. sweep = "step" => Tail(Live(Pending) \cup {cursor[Pending]})'
        <5>1. ASSUME NEW S, S = Live(Pending) \cup {cursor[Pending]}, sweep = "step" PROVE Tail(S)'
          BY <4>1, <4>2, <4>6, <4>7, <5>1, Nodes DEF PendingOK
        <5> QED  BY <1>1, <3>2, <4>1, <5>1 DEF Tail
      <4> QED  BY <1>1, <3>2, <4>1, <4>2, <4>3, <4>4, <4>5, <4>8, <4>9, <4>10 DEF PendingOK
    <3> QED  BY <3>5, <3>6, <3>7 DEF Walks
  <2> QED  BY <1>1, <1>2, <1>4, <1>6, <2>1, <2>2 DEF Inv
<1> QED  BY <1>5, <1>6

LEMMA PublishInv ==
  ASSUME Inv, Publish
  PROVE  Inv'
<1> DEFINE a == adding
           t == prev[a]
<1>t. TypeOK /\ PtrType /\ Phase /\ Standing
  BY TypeOfPtr DEF Inv
<1>1. /\ a # None /\ a \in Slot /\ next' = [next EXCEPT ![t] = a] /\ on' = [on EXCEPT ![a] = Pending]
      /\ late' = IF cursor[Pending] = Pending THEN late \cup {a} ELSE late
      /\ adding' = None /\ ~stray
      /\ UNCHANGED <<prev, rq, hold, exiting, conn, cursor, sweep, overtaken, stray>>
  BY <1>t DEF Publish, TypeOK
<1>2. TypeOK'
  BY <1>1, <1>t, Nodes DEF TypeOK
<1>3. /\ \A n \in Node \ {t} : next'[n] = next[n]
      /\ t \in Node => next'[t] = a
      /\ on'[a] = Pending /\ \A r \in Slot \ {a} : on'[r] = on[r]
  BY <1>1, <1>t DEF TypeOK
<1>4. Serving' <=> Serving
  BY <1>1 DEF Serving
<1> HIDE DEF t
<1>5. CASE Serving
  <2>1. Links /\ Usage /\ ~overtaken /\ sweep = "no" /\ cursor[Pending] # Pending /\ late' = late
    BY <1>1, <1>5, <1>t DEF Inv, Phase
  <2>2. Links'
    BY <1>1, <1>t, <2>1, PublishLinks DEF t
  <2>3. on[a] = None
    BY <1>1, <2>1 DEF Links, HalfWay
  <2>4. rq[a] = "started" /\ \A c \in Conn : hold[c] # a
    BY <1>1, <1>t, <2>1, <2>3 DEF Usage, SlotOK, HoldOK, TypeOK
  <2> HIDE DEF a
  <2>d. adding = a
    BY DEF a
  <2>5. \A r \in Slot : SlotOK(r)'
    <3> SUFFICES ASSUME NEW r \in Slot PROVE SlotOK(r)'
      OBVIOUS
    <3>1. SlotOK(r)
      BY <2>1 DEF Usage
    <3>2. CASE r = a
      BY <1>1, <1>3, <2>4, <3>2, Nodes DEF SlotOK
    <3>3. CASE r # a
      BY <1>1, <1>3, <2>d, <3>1, <3>3, Nodes DEF SlotOK
    <3> QED  BY <3>2, <3>3
  <2>6. \A c \in Conn : HoldOK(c)'
    BY <1>1, <1>3, <1>t, <2>1, <2>4, Nodes DEF Usage, HoldOK, TypeOK
  <2> QED  BY <1>1, <1>2, <1>5, <2>1, <2>2, <2>5, <2>6, ServingKept DEF Usage
<1>6. CASE ~Serving
  <2>1. Phase' /\ Standing'
    BY <1>1, <1>4, <1>6, <1>t DEF Phase, Standing
  <2>2. ASSUME ~overtaken PROVE Walks'
    <3>1. Walks
      BY <1>6, <2>2 DEF Inv
    <3>2. rq[a] = "started" /\ on[a] = None /\ LastNode = t /\ prev[a] = t
      BY <1>1, <3>1 DEF Walks, OpenOK, LastNode, t
    <3>l. ASSUME NEW S, Tail(S) PROVE t \in S /\ next[t] = Pending /\ prev[Pending] = a /\ next[a] = Pending
      BY <1>1, <3>2, <3>l DEF Tail
    <3> HIDE DEF a
    <3>d. adding = a
      BY DEF a
    <3>3. Live(Pending)' = Live(Pending) \cup {a} /\ \A c \in Conn : Live(c)' = Live(c) /\ a \notin Live(c)
      <4>1. Live(Pending)' = Live(Pending) \cup {a}
        BY <1>1, <1>3, <3>2 DEF Live
      <4>2. ASSUME NEW c \in Conn PROVE Live(c)' = Live(c) /\ a \notin Live(c)
        <5>1. c # Pending /\ c # None
          BY Nodes
        <5> QED  BY <1>1, <1>3, <3>2, <5>1 DEF Live
      <4> QED  BY <4>1, <4>2
    <3>4. OpenOK'
      BY <1>1, <1>3, <3>1, <3>2, <3>d, Nodes DEF Walks, OpenOK
    <3>5. ASSUME NEW c \in Conn PROVE WaitingOK(c)'
      <4>1. c \in ListHead /\ c # Pending /\ c \in Node /\ c # None /\ WaitingOK(c)
        BY <3>1, Nodes DEF Walks
      <4>2. CASE conn[c] = "closed"
        BY <1>1, <3>3, <4>1, <4>2 DEF WaitingOK
      <4>3. CASE conn[c] # "closed"
        <5>1. t \in Live(Pending) \cup {Pending}
          <6>1. Tail(Live(Pending) \cup {Pending})
            BY <1>t, <3>1, <4>3 DEF Phase, Walks, PendingOK
          <6> QED  BY <3>l, <6>1
        <5>2. t # c /\ t \notin Live(c) /\ (t \in Slot => rq[t] = "started")
          BY <4>1, <5>1, Nodes DEF Live
        <5>3. \A y \in Live(c) : y \in Slot /\ next'[y] = next[y] /\ prev'[y] = prev[y]
          BY <1>1, <1>3, <5>2, Nodes DEF Live
        <5>4. next'[c] = next[c]
          BY <1>3, <4>1, <5>2
        <5>5. conn[c] = "step" => next'[cursor[c]] = next[cursor[c]]
          BY <1>1, <1>3, <1>t, <4>1, <5>2, Nodes DEF WaitingOK, Standing
        <5>6. conn[c] = "stop" => Behind(next', prev', c, c, Live(c))
          BY <4>1, <5>3, <5>4, ChainKept DEF WaitingOK
        <5>7. conn[c] = "walk" /\ cursor[c] # c => At(next', prev', c, cursor[c], Live(c))
          BY <4>1, <5>3, ChainKept DEF WaitingOK
        <5>8. conn[c] = "step" => Behind(next', prev', c, cursor[c], Live(c))
          BY <4>1, <5>3, <5>5, ChainKept DEF WaitingOK
        <5> QED  BY <1>1, <3>3, <4>1, <4>3, <5>6, <5>7, <5>8 DEF WaitingOK
      <4> QED  BY <4>2, <4>3
    <3>6. PendingOK'
      <4>1. PendingOK /\ Pending \in ListHead /\ Pending \in Node /\ Pending # a /\ Pending \notin Live(Pending)
        BY <1>1, <3>1, Nodes DEF Walks, Live
      <4>2. a \notin Live(Pending) /\ a # None /\ a \in Node /\ Live(Pending) \subseteq Node
        BY <1>1, <3>2, Nodes DEF Live
      <4>3. ASSUME NEW S, Tail(S), a \notin S, S \subseteq Node
            PROVE  /\ t \in Node /\ t # a /\ next[t] = Pending /\ next'[t] = a /\ next'[a] = Pending /\ prev[a] = t
                   /\ LastNode' = a
        <5>1. t \in S /\ next[t] = Pending /\ prev[Pending] = a /\ next[a] = Pending
          BY <3>l, <4>3
        <5>2. t \in Node /\ t # a /\ next'[t] = a /\ next'[a] = Pending
          BY <1>3, <4>2, <4>3, <5>1
        <5>3. LastNode' = a
          BY <1>1, <5>1 DEF LastNode
        <5> QED  BY <3>2, <5>1, <5>2, <5>3
      <4>4. CASE sweep \in {"no", "start"}
        <5> DEFINE S == Live(Pending)
        <5>1. Behind(next, prev, Pending, Pending, S) /\ Tail(S \cup {Pending})
          BY <4>1, <4>4 DEF PendingOK
        <5>2. /\ t \in S \cup {Pending} /\ t # a /\ next[t] = Pending /\ next'[t] = a /\ next'[a] = Pending
              /\ prev[a] = t /\ LastNode' = a
          BY <3>l, <4>1, <4>2, <4>3, <5>1
        <5>3. \A y \in (S \cup {Pending}) \ {t} : next'[y] = next[y]
          BY <1>3, <4>1, <4>2
        <5>4. Behind(next', prev, Pending, Pending, S \cup {a})
          BY <4>1, <4>2, <5>1, <5>2, <5>3, ChainAdd
        <5>6. Tail(Live(Pending) \cup {Pending})'
          BY <1>1, <3>3, <5>2 DEF Tail
        <5> QED  BY <1>1, <3>3, <4>4, <5>4, <5>6 DEF PendingOK
      <4>5. CASE sweep = "walk" /\ cursor[Pending] # Pending
        <5> DEFINE S == Live(Pending)
        <5>1. At(next, prev, Pending, cursor[Pending], S) /\ Tail(S)
          BY <4>1, <4>5 DEF PendingOK
        <5>2. /\ t \in S /\ t # a /\ next[t] = Pending /\ next'[t] = a /\ next'[a] = Pending
              /\ prev[a] = t /\ LastNode' = a
          BY <3>l, <4>1, <4>2, <4>3, <5>1
        <5>3. cursor[Pending] \in S
          BY <5>1 DEF At
        <5>4. \A y \in (S \cup {cursor[Pending]}) \ {t} : next'[y] = next[y]
          BY <1>3, <4>2, <5>3
        <5>5. At(next', prev, Pending, cursor[Pending], S \cup {a})
          BY <4>1, <4>2, <5>1, <5>2, <5>3, <5>4, ChainAdd
        <5>6. Tail(Live(Pending))'
          BY <1>1, <3>3, <5>2 DEF Tail
        <5> QED  BY <1>1, <3>3, <4>5, <5>5, <5>6 DEF PendingOK
      <4>6. CASE sweep = "step"
        <5> DEFINE S == Live(Pending)
                   x == cursor[Pending]
        <5>1. Behind(next, prev, Pending, x, S) /\ Tail(S \cup {x}) /\ rq[x] = "free"
          BY <4>1, <4>6 DEF PendingOK
        <5>2. x \in Node /\ x # a
          BY <1>1, <1>t, <3>2, <4>6, <5>1, Nodes DEF Standing
        <5>3. /\ t \in S \cup {x} /\ t # a /\ next[t] = Pending /\ next'[t] = a /\ next'[a] = Pending
              /\ prev[a] = t /\ LastNode' = a
          BY <3>l, <4>2, <4>3, <5>1, <5>2
        <5>4. \A y \in (S \cup {x}) \ {t} : next'[y] = next[y]
          BY <1>3, <4>2, <5>2
        <5>5. Behind(next', prev, Pending, x, S \cup {a})
          BY <4>1, <4>2, <5>1, <5>2, <5>3, <5>4, ChainAdd
        <5>7. Tail(Live(Pending) \cup {cursor[Pending]})'
          BY <1>1, <3>3, <5>3 DEF Tail
        <5> QED  BY <1>1, <3>3, <4>6, <5>1, <5>5, <5>7 DEF PendingOK
      <4>7. CASE sweep \in {"drain", "gone"} \/ (sweep = "walk" /\ cursor[Pending] = Pending)
        BY <1>1, <3>3, <4>1, <4>7 DEF PendingOK
      <4> QED  BY <1>t, <4>4, <4>5, <4>6, <4>7 DEF TypeOK
    <3> QED  BY <3>4, <3>5, <3>6 DEF Walks
  <2> QED  BY <1>1, <1>2, <1>4, <1>6, <2>1, <2>2 DEF Inv
<1> QED  BY <1>5, <1>6

-----------------------------------------------------------------------------
(* The walks                                                               *)

\* The body of a loop. Unless a walk was overtaken, it stands at an open
\* request of its list, and that one is ended.
LEMMA BodyEnds ==
  ASSUME TypeOK, NEW h \in ListHead, WalkEnd(h), At(next, prev, h, cursor[h], Live(h)), UNCHANGED on
  PROVE  /\ cursor[h] \in Slot /\ rq'[cursor[h]] = "free" /\ UNCHANGED stray
         /\ \A r \in Slot \ {cursor[h]} : rq'[r] = rq[r]
         /\ Live(h)' = Live(h) \ {cursor[h]}
         /\ \A g \in ListHead \ {h} : Live(g)' = Live(g)
<1>1. cursor[h] \in Slot /\ on[cursor[h]] = h /\ rq[cursor[h]] = "started"
  BY DEF At, Live
<1>2. rq' = [rq EXCEPT ![cursor[h]] = "free"] /\ UNCHANGED stray
  BY <1>1 DEF WalkEnd
<1>3. rq'[cursor[h]] = "free" /\ \A r \in Slot \ {cursor[h]} : rq'[r] = rq[r]
  BY <1>1, <1>2 DEF TypeOK
<1> QED  BY <1>1, <1>2, <1>3 DEF Live

LEMMA WalkTypes ==
  ASSUME TypeOK, NEW h \in ListHead, WalkEnd(h)
  PROVE  /\ rq' \in [Slot -> {"free", "started"}] /\ stray' \in BOOLEAN
         /\ stray => stray' /\ (~stray' => cursor[h] \in Slot)
BY DEF TypeOK, WalkEnd

LEMMA ReleaseStartInv ==
  ASSUME Inv, NEW c \in Conn, ReleaseStart(c)
  PROVE  Inv'
<1>1. /\ conn[c] = "stop" /\ sweep = "no" /\ ~stray /\ \A d \in Conn : conn[d] \in {"stop", "closed"}
      /\ cursor' = [cursor EXCEPT ![c] = next[c]] /\ conn' = [conn EXCEPT ![c] = "walk"]
      /\ UNCHANGED <<next, prev, rq, adding, hold, exiting, sweep, on, late, overtaken, stray>>
  BY DEF ReleaseStart
<1>t. TypeOK /\ Phase /\ Standing
  BY DEF Inv
<1>c. c \in ListHead /\ c # Pending /\ c \in Node /\ c \notin Slot
  BY Nodes
<1>2. TypeOK'
  BY <1>1, <1>c, <1>t DEF TypeOK
<1>3. /\ conn'[c] = "walk" /\ \A d \in Conn \ {c} : conn'[d] = conn[d]
      /\ cursor'[c] = next[c] /\ \A h \in ListHead \ {c} : cursor'[h] = cursor[h]
  BY <1>1, <1>c, <1>t DEF TypeOK
<1>4. ~Serving' /\ cursor'[Pending] = cursor[Pending]
  BY <1>3, <1>c, Nodes DEF Serving
<1>5. Phase' /\ Standing'
  <2>1. \A d \in Conn : conn'[d] # "up" /\ conn'[d] # "step" /\ hold[d] = None
    BY <1>1, <1>3, <1>t DEF Phase
  <2> QED  BY <1>1, <1>4, <1>t, <2>1 DEF Phase, Standing
<1>6. ASSUME ~overtaken PROVE Walks'
  <2>1. OpenOK /\ PendingOK /\ \A d \in Conn : WaitingOK(d)
    <3>1. CASE Serving
      <4>1. Links /\ Usage /\ \A d \in Conn : hold[d] = None
        BY <1>1, <1>t, <3>1 DEF Inv, Phase
      <4>2. \A d \in Conn : conn[d] = "stop"
        BY <1>1, <3>1 DEF Serving
      <4> QED  BY <1>1, <1>t, <4>1, <4>2, WholeChains, Nodes DEF PendingOK, WaitingOK
    <3>2. CASE ~Serving
      BY <1>6, <3>2 DEF Inv, Walks
    <3> QED  BY <3>1, <3>2
  <2>2. \A h : Live(h)' = Live(h)
    BY <1>1 DEF Live
  <2>3. WaitingOK(c)'
    <3>1. Behind(next, prev, c, c, Live(c)) /\ c \notin Live(c)
      BY <1>1, <1>c, <2>1 DEF WaitingOK, Live
    <3>2. IF next[c] = c THEN Live(c) = {} ELSE At(next, prev, c, next[c], Live(c))
      BY <3>1, ChainLast, ChainStep
    <3> QED  BY <1>1, <1>3, <2>2, <3>2 DEF WaitingOK
  <2>4. ASSUME NEW d \in Conn, d # c PROVE WaitingOK(d)'
    <3>1. WaitingOK(d) /\ cursor'[d] = cursor[d] /\ conn'[d] = conn[d]
      BY <1>3, <2>1, <2>4, Nodes
    <3> QED  BY <1>1, <2>2, <3>1 DEF WaitingOK
  <2>5. OpenOK' /\ PendingOK'
    BY <1>1, <1>4, <2>1, <2>2 DEF OpenOK, PendingOK, Tail, LastNode
  <2> QED  BY <2>3, <2>4, <2>5 DEF Walks
<1> QED  BY <1>1, <1>2, <1>4, <1>5, <1>6 DEF Inv

LEMMA ReleaseEndInv ==
  ASSUME Inv, NEW c \in Conn, ReleaseEnd(c)
  PROVE  Inv'
<1>1. /\ conn[c] = "walk" /\ WalkEnd(c) /\ ~stray /\ conn' = [conn EXCEPT ![c] = "step"]
      /\ UNCHANGED <<next, prev, adding, hold, exiting, cursor, sweep, on, late, overtaken>>
  BY DEF ReleaseEnd
<1>t. TypeOK /\ Phase /\ Standing
  BY DEF Inv
<1>c. c \in ListHead /\ c # Pending /\ c \in Node /\ c \notin Slot /\ cursor[c] # c
  BY <1>1, Nodes DEF WalkEnd
<1>2. TypeOK'
  BY <1>1, <1>c, <1>t, WalkTypes DEF TypeOK
<1>3. conn'[c] = "step" /\ \A d \in Conn \ {c} : conn'[d] = conn[d]
  BY <1>1, <1>t DEF TypeOK
<1>4. ~Serving /\ ~Serving' /\ sweep = "no" /\ \A d \in Conn : conn[d] # "up"
  BY <1>1, <1>3, <1>t DEF Serving, Phase
<1>5. Phase' /\ Standing'
  <2>1. Phase'
    BY <1>1, <1>3, <1>4, <1>t DEF Phase
  <2>2. ~stray' => cursor'[c] \in Slot
    <3>1. CASE cursor[c] \in Slot
      BY <1>1, <3>1
    <3>2. CASE cursor[c] \notin Slot
      BY <1>1, <3>2 DEF WalkEnd
    <3> QED  BY <3>1, <3>2
  <2>3. /\ sweep' = "no" /\ (\A d \in Conn \ {c} : conn'[d] = conn[d] /\ cursor'[d] = cursor[d])
        /\ \A d \in Conn : conn[d] = "step" => cursor[d] \in Slot
    BY <1>1, <1>3, <1>4, <1>t DEF Standing
  <2>4. Standing'
    BY <2>2, <2>3 DEF Standing
  <2> QED  BY <2>1, <2>4
<1>6. ASSUME ~overtaken PROVE Walks' /\ ~stray'
  <2>1. OpenOK /\ PendingOK /\ \A d \in Conn : WaitingOK(d)
    BY <1>4, <1>6 DEF Inv, Walks
  <2>2. At(next, prev, c, cursor[c], Live(c))
    BY <1>1, <1>c, <2>1 DEF WaitingOK
  <2>3. /\ cursor[c] \in Slot /\ rq'[cursor[c]] = "free" /\ UNCHANGED stray
        /\ \A r \in Slot \ {cursor[c]} : rq'[r] = rq[r]
        /\ Live(c)' = Live(c) \ {cursor[c]}
        /\ \A g \in ListHead \ {c} : Live(g)' = Live(g)
    BY <1>1, <1>c, <1>t, <2>2, BodyEnds
  <2>4. WaitingOK(c)'
    BY <1>1, <1>3, <2>2, <2>3, ChainEnd DEF WaitingOK
  <2>5. ASSUME NEW d \in Conn, d # c PROVE WaitingOK(d)'
    <3>1. Live(d)' = Live(d) /\ conn'[d] = conn[d] /\ WaitingOK(d)
      BY <1>3, <2>1, <2>3, <2>5, Nodes
    <3>2. conn[d] = "step" => rq'[cursor[d]] = "free"
      BY <1>1, <1>t, <2>3, <3>1 DEF WaitingOK, Standing
    <3> QED  BY <1>1, <3>1, <3>2 DEF WaitingOK
  <2>6. PendingOK'
    <3>1. Live(Pending)' = Live(Pending)
      BY <1>c, <2>3, Nodes
    <3> QED  BY <1>1, <1>4, <2>1, <3>1 DEF PendingOK, Tail, LastNode
  <2>7. OpenOK'
    <3>1. on[cursor[c]] = c /\ c # None
      BY <2>2, Nodes DEF At, Live
    <3>2. adding # None => adding \in Slot /\ adding # cursor[c]
      BY <1>t, <2>1, <3>1 DEF OpenOK, TypeOK
    <3> QED  BY <1>1, <2>1, <2>3, <3>2 DEF OpenOK
  <2> QED  BY <1>1, <2>3, <2>4, <2>5, <2>6, <2>7 DEF Walks
<1> QED  BY <1>1, <1>2, <1>4, <1>5, <1>6 DEF Inv

LEMMA ReleaseNextInv ==
  ASSUME Inv, NEW c \in Conn, ReleaseNext(c)
  PROVE  Inv'
<1>1. /\ conn[c] = "step" /\ ~stray /\ cursor' = [cursor EXCEPT ![c] = next[cursor[c]]]
      /\ conn' = [conn EXCEPT ![c] = "walk"]
      /\ UNCHANGED <<next, prev, rq, adding, hold, exiting, sweep, on, late, overtaken, stray>>
  BY DEF ReleaseNext
<1>t. TypeOK /\ Phase /\ Standing
  BY DEF Inv
<1>c. c \in ListHead /\ c # Pending /\ c \notin Slot /\ cursor[c] \in Node
  BY <1>1, <1>t, Nodes DEF Standing
<1>2. TypeOK'
  BY <1>1, <1>c, <1>t DEF TypeOK
<1>3. /\ conn'[c] = "walk" /\ \A d \in Conn \ {c} : conn'[d] = conn[d]
      /\ cursor'[c] = next[cursor[c]] /\ \A h \in ListHead \ {c} : cursor'[h] = cursor[h]
  BY <1>1, <1>c, <1>t DEF TypeOK
<1>4. ~Serving /\ ~Serving' /\ sweep = "no" /\ cursor'[Pending] = cursor[Pending]
  BY <1>1, <1>3, <1>c, <1>t, Nodes DEF Serving, Phase
<1>5. Phase' /\ Standing'
  <2>1. Phase'
    BY <1>1, <1>3, <1>4, <1>t DEF Phase
  <2>2. \A d \in Conn : conn'[d] = "step" => conn[d] = "step" /\ cursor'[d] = cursor[d]
    BY <1>3, Nodes
  <2> QED  BY <1>1, <1>4, <1>t, <2>1, <2>2 DEF Standing
<1>6. ASSUME ~overtaken PROVE Walks'
  <2>1. OpenOK /\ PendingOK /\ \A d \in Conn : WaitingOK(d)
    BY <1>4, <1>6 DEF Inv, Walks
  <2>2. \A h : Live(h)' = Live(h)
    BY <1>1 DEF Live
  <2>3. WaitingOK(c)'
    <3>1. Behind(next, prev, c, cursor[c], Live(c)) /\ c \notin Live(c)
      BY <1>1, <1>c, <2>1 DEF WaitingOK, Live
    <3>2. IF next[cursor[c]] = c THEN Live(c) = {} ELSE At(next, prev, c, next[cursor[c]], Live(c))
      BY <3>1, ChainLast, ChainStep
    <3> QED  BY <1>1, <1>3, <2>2, <3>2 DEF WaitingOK
  <2>4. ASSUME NEW d \in Conn, d # c PROVE WaitingOK(d)'
    <3>1. WaitingOK(d) /\ cursor'[d] = cursor[d] /\ conn'[d] = conn[d]
      BY <1>3, <2>1, <2>4, Nodes
    <3> QED  BY <1>1, <2>2, <3>1 DEF WaitingOK
  <2>5. OpenOK' /\ PendingOK'
    BY <1>1, <1>4, <2>1, <2>2 DEF OpenOK, PendingOK, Tail, LastNode
  <2> QED  BY <2>3, <2>4, <2>5 DEF Walks
<1> QED  BY <1>1, <1>2, <1>4, <1>5, <1>6 DEF Inv

LEMMA ReleaseDropInv ==
  ASSUME Inv, NEW c \in Conn, ReleaseDrop(c)
  PROVE  Inv'
<1>1. /\ conn[c] = "walk" /\ cursor[c] = c /\ ~stray /\ conn' = [conn EXCEPT ![c] = "closed"]
      /\ IF \A d \in Conn \ {c} : conn[d] = "closed" THEN sweep' = "start" ELSE UNCHANGED sweep
      /\ UNCHANGED <<next, prev, rq, adding, hold, exiting, cursor, on, late, overtaken, stray>>
  BY DEF ReleaseDrop
<1>t. TypeOK /\ Phase /\ Standing
  BY DEF Inv
<1>2. TypeOK'
  BY <1>1, <1>t DEF TypeOK
<1>3. conn'[c] = "closed" /\ \A d \in Conn \ {c} : conn'[d] = conn[d]
  BY <1>1, <1>t DEF TypeOK
<1>4. ~Serving /\ ~Serving' /\ sweep = "no" /\ sweep' \in {"no", "start"}
  BY <1>1, <1>3, <1>t DEF Serving, Phase
<1>5. Phase' /\ Standing'
  <2>1. Phase'
    BY <1>1, <1>3, <1>4, <1>t DEF Phase
  <2> QED  BY <1>1, <1>3, <1>4, <1>t, <2>1 DEF Standing
<1>6. ASSUME ~overtaken PROVE Walks'
  <2>1. OpenOK /\ PendingOK /\ \A d \in Conn : WaitingOK(d)
    BY <1>4, <1>6 DEF Inv, Walks
  <2>2. \A h : Live(h)' = Live(h)
    BY <1>1 DEF Live
  <2>3. ASSUME NEW d \in Conn PROVE WaitingOK(d)'
    BY <1>1, <1>3, <2>1, <2>2 DEF WaitingOK
  <2>4. OpenOK' /\ PendingOK'
    BY <1>1, <1>4, <2>1, <2>2 DEF OpenOK, PendingOK, Tail, LastNode
  <2> QED  BY <2>3, <2>4 DEF Walks
<1> QED  BY <1>1, <1>2, <1>4, <1>5, <1>6 DEF Inv

\* The steps of the sweep; all connections are closed.
LEMMA ClosedKept ==
  ASSUME UNCHANGED conn, \A c \in Conn : conn[c] = "closed" /\ WaitingOK(c) /\ Live(c)' = Live(c)
  PROVE  \A c \in Conn : WaitingOK(c)'
BY DEF WaitingOK

LEMMA SweepNextInv ==
  ASSUME Inv, SweepStart \/ SweepNext
  PROVE  Inv'
<1> DEFINE x == IF sweep = "start" THEN Pending ELSE cursor[Pending]
<1>1. /\ sweep \in {"start", "step"} /\ sweep' = "walk" /\ ~stray
      /\ cursor' = [cursor EXCEPT ![Pending] = next[x]]
      /\ UNCHANGED <<next, prev, rq, adding, hold, exiting, conn, on, late, overtaken, stray>>
  BY DEF SweepStart, SweepNext
<1>t. TypeOK /\ Phase /\ Standing /\ Pending \in ListHead /\ Pending \notin Live(Pending)
  BY Nodes DEF Inv, Live
<1>x. x \in Node
  BY <1>1, <1>t, Nodes DEF Standing
<1>2. TypeOK'
  BY <1>1, <1>t, <1>x DEF TypeOK
<1>3. cursor'[Pending] = next[x] /\ \A c \in Conn : cursor'[c] = cursor[c]
  BY <1>1, <1>t, Nodes DEF TypeOK
<1>4. ~Serving /\ ~Serving' /\ \A c \in Conn : conn[c] = "closed"
  BY <1>1, <1>t, ConstantsOK DEF Serving, Phase
<1>5. Phase' /\ Standing'
  <2>1. late = {} /\ \A c \in Conn : hold[c] = None
    BY <1>1, <1>4, <1>t DEF Phase
  <2> QED  BY <1>1, <1>4, <1>t, <2>1 DEF Phase, Standing
<1>6. ASSUME ~overtaken PROVE Walks'
  <2>1. OpenOK /\ PendingOK /\ \A c \in Conn : WaitingOK(c)
    BY <1>4, <1>6 DEF Inv, Walks
  <2>2. \A h : Live(h)' = Live(h)
    BY <1>1 DEF Live
  <2>3. Behind(next, prev, Pending, x, Live(Pending)) /\ Tail(Live(Pending) \cup {x})
    BY <1>1, <2>1 DEF PendingOK
  <2>4. IF next[x] = Pending THEN Live(Pending) = {}
        ELSE At(next, prev, Pending, next[x], Live(Pending)) /\ Tail(Live(Pending))
    <3>1. CASE next[x] = Pending
      BY <1>t, <2>3, <3>1, ChainLast
    <3>2. CASE next[x] # Pending
      BY <2>3, <3>2, ChainStep DEF Tail
    <3> QED  BY <3>1, <3>2
  <2> HIDE DEF x
  <2>5. PendingOK'
    BY <1>1, <1>3, <2>2, <2>4 DEF PendingOK, Tail, LastNode
  <2>6. OpenOK'
    BY <1>1, <2>1 DEF OpenOK
  <2> QED  BY <1>1, <1>4, <2>1, <2>2, <2>5, <2>6, ClosedKept DEF Walks
<1> QED  BY <1>1, <1>2, <1>4, <1>5, <1>6 DEF Inv

LEMMA SweepEndInv ==
  ASSUME Inv, SweepEnd
  PROVE  Inv'
<1> DEFINE x == cursor[Pending]
<1>1. /\ sweep = "walk" /\ sweep' = "step" /\ WalkEnd(Pending) /\ x # Pending /\ ~stray
      /\ UNCHANGED <<next, prev, adding, hold, exiting, conn, cursor, on, late, overtaken>>
  BY DEF SweepEnd, WalkEnd
<1>t. TypeOK /\ Phase /\ Standing /\ Pending \in ListHead
  BY Nodes DEF Inv
<1>2. TypeOK'
  BY <1>1, <1>t, WalkTypes DEF TypeOK
<1>4. ~Serving /\ ~Serving' /\ \A c \in Conn : conn[c] = "closed"
  BY <1>1, <1>t, ConstantsOK DEF Serving, Phase
<1>5. Phase' /\ Standing'
  <2>1. Phase'
    BY <1>1, <1>4, <1>t DEF Phase
  <2>2. ~stray' => cursor'[Pending] \in Slot
    <3>1. CASE x \in Slot
      BY <1>1, <3>1
    <3>2. CASE x \notin Slot
      BY <1>1, <3>2 DEF WalkEnd
    <3> QED  BY <3>1, <3>2
  <2>3. \A c \in Conn : conn'[c] = "closed"
    BY <1>1, <1>4
  <2>4. Standing'
    BY <2>2, <2>3 DEF Standing
  <2> QED  BY <2>1, <2>4
<1>6. ASSUME ~overtaken PROVE Walks' /\ ~stray'
  <2>1. OpenOK /\ PendingOK /\ \A c \in Conn : WaitingOK(c)
    BY <1>4, <1>6 DEF Inv, Walks
  <2>2. At(next, prev, Pending, x, Live(Pending)) /\ Tail(Live(Pending))
    BY <1>1, <2>1 DEF PendingOK
  <2>3. /\ x \in Slot /\ rq'[x] = "free" /\ UNCHANGED stray
        /\ \A r \in Slot \ {x} : rq'[r] = rq[r]
        /\ Live(Pending)' = Live(Pending) \ {x}
        /\ \A g \in ListHead \ {Pending} : Live(g)' = Live(g)
    BY <1>1, <1>t, <2>2, BodyEnds
  <2>4. PendingOK'
    <3>1. Behind(next, prev, Pending, x, Live(Pending) \ {x})
      BY <2>2, ChainEnd
    <3>2. Tail(Live(Pending) \cup {cursor[Pending]})'
      BY <1>1, <2>2, <2>3 DEF Tail, LastNode
    <3> QED  BY <1>1, <2>3, <3>1, <3>2 DEF PendingOK
  <2>5. \A c \in Conn : WaitingOK(c)'
    <3>1. \A c \in Conn : Live(c)' = Live(c)
      BY <2>3, Nodes
    <3> QED  BY <1>1, <1>4, <2>1, <3>1, ClosedKept
  <2>6. OpenOK'
    <3>1. on[x] = Pending /\ Pending # None
      BY <2>2, Nodes DEF At, Live
    <3>2. adding # None => adding \in Slot /\ adding # x
      BY <1>t, <2>1, <3>1 DEF OpenOK, TypeOK
    <3> QED  BY <1>1, <2>1, <2>3, <3>2 DEF OpenOK
  <2> QED  BY <1>1, <2>3, <2>4, <2>5, <2>6 DEF Walks
<1> QED  BY <1>1, <1>2, <1>4, <1>5, <1>6 DEF Inv

LEMMA SweepLastInv ==
  ASSUME Inv, SweepDone \/ del_gendisk
  PROVE  Inv'
<1>1. /\ sweep \in {"walk", "drain"} /\ sweep' \in {"drain", "gone"} /\ ~stray
      /\ sweep = "walk" => cursor[Pending] = Pending
      /\ UNCHANGED <<next, prev, rq, adding, hold, exiting, conn, cursor, on, late, overtaken, stray>>
  BY DEF SweepDone, del_gendisk
<1>t. TypeOK /\ Phase /\ Standing
  BY DEF Inv
<1>2. TypeOK'
  BY <1>1, <1>t DEF TypeOK
<1>4. ~Serving /\ ~Serving' /\ \A c \in Conn : conn[c] = "closed"
  BY <1>1, <1>t, ConstantsOK DEF Serving, Phase
<1>5. Phase' /\ Standing'
  BY <1>1, <1>4, <1>t DEF Phase, Standing
<1>6. ASSUME ~overtaken PROVE Walks'
  <2>1. OpenOK /\ PendingOK /\ \A c \in Conn : WaitingOK(c)
    BY <1>4, <1>6 DEF Inv, Walks
  <2>2. \A h : Live(h)' = Live(h)
    BY <1>1 DEF Live
  <2>3. PendingOK' /\ OpenOK'
    BY <1>1, <2>1, <2>2 DEF PendingOK, OpenOK
  <2> QED  BY <1>1, <1>4, <2>1, <2>2, <2>3, ClosedKept DEF Walks
<1> QED  BY <1>1, <1>2, <1>4, <1>5, <1>6 DEF Inv

-----------------------------------------------------------------------------
(* The results                                                             *)

\* The inductive invariant of the lists and the teardown, with blk-mq free to
\* hand out any tag it was given back: until a file is closed the lists are
\* linked both ways and lead back to their heads; from then on the open requests
\* of each list are a chain that ends at its head and begins where the walk is,
\* unless the tag was queued again on which a walk stood.
THEOREM TeardownInvariant == Spec => []Inv
<1>1. Init => Inv
  BY InvInit
<1>2. Inv /\ [Next]_vars => Inv'
  <2> SUFFICES ASSUME Inv, [Next]_vars PROVE Inv'
    OBVIOUS
  <2>1. ASSUME NEW s \in Slot, bius_queue_rq(s) PROVE Inv'
    BY <2>1, QueueInv
  <2>2. CASE Publish
    BY <2>2, PublishInv
  <2>3. ASSUME NEW c \in Conn, ThreadStep(c) PROVE Inv'
    BY <2>3, TakeInv, AwaitInv, WriteInv, DieInv DEF ThreadStep
  <2>4. ASSUME NEW c \in Conn, ReleaseStep(c) PROVE Inv'
    BY <2>4, ReleaseStartInv, ReleaseEndInv, ReleaseNextInv, ReleaseDropInv DEF ReleaseStep
  <2>5. CASE SweepStep
    BY <2>5, SweepEndInv, SweepNextInv, SweepLastInv DEF SweepStep
  <2>6. CASE Exit \/ UNCHANGED vars
    BY <2>6, ExitInv
  <2> QED  BY <2>1, <2>2, <2>3, <2>4, <2>5, <2>6 DEF Next
<1> QED  BY <1>1, <1>2, PTL DEF Spec

\* The ranges of the variables: no pointer leaves the nodes of the lists.
THEOREM TeardownTypeCorrect == Spec => []TypeOK
<1>1. Inv => TypeOK
  BY DEF Inv
<1> QED  BY <1>1, TeardownInvariant, PTL

\* list_add_tail and list_del keep the circular lists whole and apart until the
\* first file is closed.
THEOREM ListsStayWhole == Spec => []ListsWhole
<1>1. Inv => ListsWhole
  BY DEF Inv, Links, Whole, Linked, LinkOK, ListsWhole
<1> QED  BY <1>1, TeardownInvariant, PTL

\* The loops of bius_dev_release and remove_block_device end no request
\* twice and take no list head for a request, unless the tag was queued again
\* on which one of them stood.
THEOREM NoRequestEndedTwice == Spec => []NoStrayEnd
<1>1. Inv => NoStrayEnd
  BY DEF Inv, NoStrayEnd
<1> QED  BY <1>1, TeardownInvariant, PTL

\* bius_dev_release misses no request of its connection, under the same
\* condition.
THEOREM ReleaseMissesNone == Spec => []ReleaseEndsAll
<1>1. Inv => ReleaseEndsAll
  <2> SUFFICES ASSUME Inv, ~overtaken, NEW c \in Conn, NEW s \in Slot, conn[c] = "closed", on[s] = c
               PROVE  rq[s] = "free"
    BY DEF ReleaseEndsAll
  <2>1. Live(c) = {}
    BY DEF Inv, Serving, Walks, WaitingOK
  <2> QED  BY <2>1 DEF Live, Inv, TypeOK
<1> QED  BY <1>1, TeardownInvariant, PTL

\* The sweep of remove_block_device misses no request that was published
\* before it met the head again, under the same condition.
THEOREM SweepMissesOnlyLate == Spec => []OnlyLateOnesLeft
<1>1. Inv => OnlyLateOnesLeft
  <2> SUFFICES ASSUME Inv, sweep \in {"drain", "gone"}, ~overtaken, NEW s \in Slot, rq[s] = "started", s # adding
               PROVE  s \in late
    BY DEF OnlyLateOnesLeft
  <2>1. (\A c \in Conn : conn[c] = "closed") /\ ~Serving
    BY ConstantsOK DEF Inv, Phase, Serving
  <2>2. OpenOK /\ PendingOK /\ \A c \in Conn : Live(c) = {}
    BY <2>1 DEF Inv, Walks, WaitingOK
  <2>3. on[s] \in ListHead
    BY <2>2 DEF OpenOK, Inv, TypeOK
  <2>4. on[s] = Pending
    BY <2>2, <2>3 DEF Live, ListHead
  <2> QED  BY <2>2, <2>4 DEF PendingOK, Live
<1> QED  BY <1>1, TeardownInvariant, PTL
=============================================================================
