---------------------------- MODULE BiusTeardown ----------------------------
(***************************************************************************)
(* The request lists of one block device at the level of their pointers,   *)
(* and the end of the server. bius_dev_release (kernel/char_dev.c) and     *)
(* remove_block_device (kernel/block_dev.c) walk a list, give the tag of   *)
(* each entry back to blk-mq, read the next pointer afterwards and unlink  *)
(* nothing; the sweep of the pending list takes no lock while              *)
(* bius_queue_rq may still append to it.                                   *)
(*                                                                         *)
(* What a syscall does between taking a request and ending it, and every   *)
(* fault on the way, is the subject of BiusTransport. Here a request is    *)
(* taken, waits on a connection and is answered.                           *)
(***************************************************************************)
EXTENDS Naturals, FiniteSets

CONSTANTS
  Slot,     \* the tags, each with the list node of its bius_request
  Conn,     \* the connections, each standing for its waiting_requests head
  Pending,  \* the head pending_requests
  Poison,   \* LIST_POISON1 and LIST_POISON2
  None

ASSUME ConstantsOK ==
  /\ IsFiniteSet(Conn) /\ Conn # {}
  /\ Pending \notin Slot \cup Conn /\ Slot \cap Conn = {}
  /\ {None, Poison} \cap (Slot \cup Conn \cup {Pending}) = {} /\ None # Poison

ListHead == Conn \cup {Pending}
Node == Slot \cup ListHead

VARIABLES
  next, prev,  \* struct list_head of every node
  rq,          \* blk-mq: is the tag handed out?
  adding,      \* the request whose list_add_tail holds pending_lock, or None
  hold,        \* the request a read() has taken and not yet put on a list
  exiting,     \* the process is ending
  conn,        \* the state of each connection
  cursor,      \* the loop variable of the walk of each list
  sweep,       \* where remove_block_device is
  on,          \* history: the list a request was put on and not taken off
  late,        \* history: requests published after the sweep met the head
  overtaken,   \* history: a tag was queued again while a walk stood on it
  stray        \* the kernel ended what is no open request

ptrVars == <<next, prev>>
vars == <<next, prev, rq, adding, hold, exiting, conn, cursor, sweep, on, late,
          overtaken, stray>>

Init ==
  /\ next = [n \in Node |-> IF n \in ListHead THEN n ELSE Poison]
  /\ prev = [n \in Node |-> IF n \in ListHead THEN n ELSE Poison]
  /\ rq = [s \in Slot |-> "free"]
  /\ adding = None
  /\ hold = [c \in Conn |-> None]
  /\ exiting = FALSE
  /\ conn = [c \in Conn |-> "up"]
  /\ cursor = [h \in ListHead |-> None]
  /\ sweep = "no"
  /\ on = [s \in Slot |-> None]
  /\ late = {} /\ overtaken = FALSE /\ stray = FALSE

-----------------------------------------------------------------------------
(* list.h                                                                  *)

\* The stores of __list_add up to the one that makes the node reachable.
LinkBehind(s, h) ==
  /\ prev' = [prev EXCEPT ![h] = s, ![s] = prev[h]]
  /\ next' = [next EXCEPT ![s] = h]

list_add_tail(s, h) ==
  /\ prev' = [prev EXCEPT ![h] = s, ![s] = prev[h]]
  /\ next' = [next EXCEPT ![s] = h, ![prev[h]] = s]
  /\ on' = [on EXCEPT ![s] = h]

list_del(s) ==
  /\ next' = [next EXCEPT ![prev[s]] = next[s], ![s] = Poison]
  /\ prev' = [prev EXCEPT ![next[s]] = prev[s], ![s] = Poison]
  /\ on' = [on EXCEPT ![s] = None]

-----------------------------------------------------------------------------
(* While the server runs                                                   *)

\* A walk has ended the request of the tag and not yet read its next pointer.
StoodOn(s) ==
  \/ \E c \in Conn : conn[c] = "step" /\ cursor[c] = s
  \/ sweep = "step" /\ cursor[Pending] = s

\* Requests arrive until del_gendisk is through, the server's exit or not, on
\* any tag that is free, also one that the teardown gave back just now and
\* whose node is still on the list being walked.
\* pending_lock is taken and all but the last store of list_add_tail is done.
bius_queue_rq(s) ==
  /\ ~stray /\ sweep # "gone" /\ adding = None
  /\ rq[s] = "free"
  /\ rq' = [rq EXCEPT ![s] = "started"]
  /\ LinkBehind(s, Pending)
  /\ on' = [on EXCEPT ![s] = None]
  /\ adding' = s
  /\ overtaken' = (overtaken \/ StoodOn(s))
  /\ UNCHANGED <<hold, exiting, conn, cursor, sweep, late, stray>>

\* The last store, and the unlock.
Publish ==
  /\ ~stray /\ adding # None
  /\ next' = [next EXCEPT ![prev[adding]] = adding]
  /\ on' = [on EXCEPT ![adding] = Pending]
  /\ late' = IF cursor[Pending] = Pending THEN late \cup {adding} ELSE late
  /\ adding' = None
  /\ UNCHANGED <<prev, rq, hold, exiting, conn, cursor, sweep, overtaken, stray>>

\* Mutant: the list is not tested for emptiness once the lock is held.
Take_NoTest(c) ==
  /\ ~stray /\ conn[c] = "up" /\ hold[c] = None
  /\ adding = None
  /\ hold' = [hold EXCEPT ![c] = next[Pending]]
  /\ UNCHANGED <<ptrVars, rq, adding, exiting, conn, cursor, sweep, on, late, overtaken, stray>>

\* Mutant: pending_lock is not taken.
Take_NoLock(c) ==
  /\ ~stray /\ conn[c] = "up" /\ hold[c] = None
  /\ next[Pending] # Pending
  /\ hold' = [hold EXCEPT ![c] = next[Pending]]
  /\ list_del(next[Pending])
  /\ UNCHANGED <<rq, adding, exiting, conn, cursor, sweep, late, overtaken, stray>>

\* bius_dev_read under pending_lock.
Take(c) ==
  /\ ~stray /\ conn[c] = "up" /\ hold[c] = None
  /\ adding = None /\ next[Pending] # Pending
  /\ hold' = [hold EXCEPT ![c] = next[Pending]]
  /\ list_del(next[Pending])
  /\ UNCHANGED <<rq, adding, exiting, conn, cursor, sweep, late, overtaken, stray>>

\* bius_dev_read under waiting_lock.
Await(c) ==
  /\ ~stray /\ hold[c] # None
  /\ list_add_tail(hold[c], c)
  /\ hold' = [hold EXCEPT ![c] = None]
  /\ UNCHANGED <<rq, adding, exiting, conn, cursor, sweep, late, overtaken, stray>>

\* Mutant: the request is answered and stays in waiting_requests.
bius_dev_write_NoListDel(c) ==
  /\ ~stray /\ conn[c] = "up" /\ hold[c] = None
  /\ \E s \in Slot :
       /\ on[s] = c /\ rq[s] = "started"
       /\ rq' = [rq EXCEPT ![s] = "free"]
  /\ UNCHANGED <<ptrVars, adding, hold, exiting, conn, cursor, sweep, on, late, overtaken, stray>>

\* A reply: list_del under waiting_lock, and the request is ended.
bius_dev_write(c) ==
  /\ ~stray /\ conn[c] = "up" /\ hold[c] = None
  /\ \E s \in Slot :
       /\ on[s] = c
       /\ list_del(s)
       /\ rq' = [rq EXCEPT ![s] = "free"]
  /\ UNCHANGED <<adding, hold, exiting, conn, cursor, sweep, late, overtaken, stray>>

Exit ==
  /\ ~stray /\ ~exiting
  /\ exiting' = TRUE
  /\ UNCHANGED <<ptrVars, rq, adding, hold, conn, cursor, sweep, on, late, overtaken, stray>>

\* A thread ends outside its syscalls.
Die(c) ==
  /\ ~stray /\ exiting /\ conn[c] = "up" /\ hold[c] = None
  /\ conn' = [conn EXCEPT ![c] = "stop"]
  /\ UNCHANGED <<ptrVars, rq, adding, hold, exiting, cursor, sweep, on, late, overtaken, stray>>

-----------------------------------------------------------------------------
(* list_for_each_entry, with a body that ends the request                  *)

\* The tag goes back to blk-mq; the node keeps its place and its pointers.
\* Anything but an open request here, a list head taken for a request or a
\* tag already given back, is where the model stops.
WalkEnd(h) ==
  /\ cursor[h] # h
  /\ IF cursor[h] \in Slot /\ rq[cursor[h]] = "started"
     THEN rq' = [rq EXCEPT ![cursor[h]] = "free"] /\ UNCHANGED stray
     ELSE stray' = TRUE /\ UNCHANGED rq

\* The last thread to end closes the files, one after the other.
ReleaseStart(c) ==
  /\ ~stray /\ conn[c] = "stop"
  /\ \A d \in Conn : conn[d] \in {"stop", "closed"}
  /\ sweep = "no"
  /\ cursor' = [cursor EXCEPT ![c] = next[c]]
  /\ conn' = [conn EXCEPT ![c] = "walk"]
  /\ UNCHANGED <<ptrVars, rq, adding, hold, exiting, sweep, on, late, overtaken, stray>>

\* The body of the loop of bius_dev_release.
ReleaseEnd(c) ==
  /\ ~stray /\ conn[c] = "walk"
  /\ WalkEnd(c)
  /\ conn' = [conn EXCEPT ![c] = "step"]
  /\ UNCHANGED <<ptrVars, adding, hold, exiting, cursor, sweep, on, late, overtaken>>

\* The step of the loop reads the node after the body.
ReleaseNext(c) ==
  /\ ~stray /\ conn[c] = "step"
  /\ cursor' = [cursor EXCEPT ![c] = next[cursor[c]]]
  /\ conn' = [conn EXCEPT ![c] = "walk"]
  /\ UNCHANGED <<ptrVars, rq, adding, hold, exiting, sweep, on, late, overtaken, stray>>

\* Mutant: the loop stops at the first entry.
ReleaseDrop_FirstOnly(c) ==
  /\ ~stray /\ conn[c] = "step"
  /\ conn' = [conn EXCEPT ![c] = "closed"]
  /\ UNCHANGED <<ptrVars, rq, adding, hold, exiting, cursor, sweep, on, late, overtaken, stray>>

\* Mutant: num_connection is tested before it is lowered.
ReleaseDrop_TestFirst(c) ==
  /\ ~stray /\ conn[c] = "walk" /\ cursor[c] = c
  /\ conn' = [conn EXCEPT ![c] = "closed"]
  /\ sweep' = IF \A d \in Conn : conn[d] = "closed" THEN "start" ELSE sweep
  /\ UNCHANGED <<ptrVars, rq, adding, hold, exiting, cursor, on, late, overtaken, stray>>

\* num_connection drops, and the last connection starts the sweep.
ReleaseDrop(c) ==
  /\ ~stray /\ conn[c] = "walk" /\ cursor[c] = c
  /\ conn' = [conn EXCEPT ![c] = "closed"]
  /\ IF \A d \in Conn \ {c} : conn[d] = "closed"
     THEN sweep' = "start" ELSE UNCHANGED sweep
  /\ UNCHANGED <<ptrVars, rq, adding, hold, exiting, cursor, on, late, overtaken, stray>>

\* remove_block_device, once the device is off the list of disks.
SweepStart ==
  /\ ~stray /\ sweep = "start"
  /\ cursor' = [cursor EXCEPT ![Pending] = next[Pending]]
  /\ sweep' = "walk"
  /\ UNCHANGED <<ptrVars, rq, adding, hold, exiting, conn, on, late, overtaken, stray>>

\* The body of the loop of remove_block_device.
SweepEnd ==
  /\ ~stray /\ sweep = "walk"
  /\ WalkEnd(Pending)
  /\ sweep' = "step"
  /\ UNCHANGED <<ptrVars, adding, hold, exiting, conn, cursor, on, late, overtaken>>

\* Mutant: only the first entry is visited.
SweepNext_FirstOnly ==
  /\ ~stray /\ sweep = "step"
  /\ cursor' = [cursor EXCEPT ![Pending] = Pending]
  /\ sweep' = "walk"
  /\ UNCHANGED <<ptrVars, rq, adding, hold, exiting, conn, on, late, overtaken, stray>>

SweepNext ==
  /\ ~stray /\ sweep = "step"
  /\ cursor' = [cursor EXCEPT ![Pending] = next[cursor[Pending]]]
  /\ sweep' = "walk"
  /\ UNCHANGED <<ptrVars, rq, adding, hold, exiting, conn, on, late, overtaken, stray>>

\* The loop is back at the head.
SweepDone ==
  /\ ~stray /\ sweep = "walk" /\ cursor[Pending] = Pending
  /\ sweep' = "drain"
  /\ UNCHANGED <<ptrVars, rq, adding, hold, exiting, conn, cursor, on, late, overtaken, stray>>

\* del_gendisk waits for the requests in flight and lets no more in.
del_gendisk ==
  /\ ~stray /\ sweep = "drain"
  /\ \A s \in Slot : rq[s] = "free"
  /\ sweep' = "gone"
  /\ UNCHANGED <<ptrVars, rq, adding, hold, exiting, conn, cursor, on, late, overtaken, stray>>

-----------------------------------------------------------------------------
ThreadStep(c) == Take(c) \/ Await(c) \/ bius_dev_write(c) \/ Die(c)
ReleaseStep(c) == ReleaseStart(c) \/ ReleaseEnd(c) \/ ReleaseNext(c) \/ ReleaseDrop(c)
SweepStep == SweepStart \/ SweepEnd \/ SweepNext \/ SweepDone \/ del_gendisk

Next ==
  \/ \E s \in Slot : bius_queue_rq(s)
  \/ Publish
  \/ \E c \in Conn : ThreadStep(c) \/ ReleaseStep(c)
  \/ Exit
  \/ SweepStep

Spec == Init /\ [][Next]_vars

\* A thread that is asked to end does so, whoever is inside list_add_tail
\* leaves it, and release runs to its end. Nothing is assumed of blk-mq.
Fairness ==
  /\ WF_vars(Publish) /\ WF_vars(SweepStep)
  /\ \A c \in Conn : WF_vars(Await(c)) /\ SF_vars(Die(c)) /\ WF_vars(ReleaseStep(c))

FairSpec == Spec /\ Fairness

-----------------------------------------------------------------------------
(* Properties                                                              *)

\* The ranges of the variables.
TypeOK ==
  /\ next \in [Node -> Node \cup {Poison}] /\ prev \in [Node -> Node \cup {Poison}]
  /\ rq \in [Slot -> {"free", "started"}]
  /\ adding \in Slot \cup {None}
  /\ hold \in [Conn -> Slot \cup {None}]
  /\ exiting \in BOOLEAN /\ overtaken \in BOOLEAN /\ stray \in BOOLEAN
  /\ conn \in [Conn -> {"up", "stop", "walk", "step", "closed"}]
  /\ cursor \in [ListHead -> Node \cup {None, Poison}]
  /\ sweep \in {"no", "start", "walk", "step", "drain", "gone"}
  /\ on \in [Slot -> ListHead \cup {None}]
  /\ late \subseteq Slot

\* The list a node belongs to.
ListOf(n) == IF n \in ListHead THEN n ELSE on[n]

\* No file of the device is being closed yet.
Serving == \A c \in Conn : conn[c] \in {"up", "stop"}

\* Through every list_add_tail and list_del of bius_queue_rq, bius_dev_read
\* and bius_dev_write, until the first file is closed, the circular lists stay
\* whole and apart: the successor of a linked node is a node of the same list
\* and points back to it.
ListsWhole ==
  Serving /\ adding = None =>
    \A n \in Node : ListOf(n) # None =>
      /\ next[n] \in Node /\ ListOf(next[n]) = ListOf(n)
      /\ prev[next[n]] = n

\* The loops of the teardown end open requests of their own list only: no
\* list head is taken for a request and no request is ended twice, although
\* blk-mq hands out tags again whose nodes are still linked. There is one way
\* for a loop to leave its list: the tag it stands on is queued again between
\* the body of the loop, which gave it back, and the step, which reads next.
NoStrayEnd == stray => overtaken

\* A connection that was closed leaves no open request on its list, unless its
\* walk was overtaken.
ReleaseEndsAll ==
  ~overtaken =>
    \A c \in Conn, s \in Slot : conn[c] = "closed" /\ on[s] = c => rq[s] = "free"

\* The sweep ends whatever was published before it met the head again, tags
\* that were queued again behind it included. What can keep del_gendisk
\* waiting was published after that, or a walk was overtaken.
OnlyLateOnesLeft ==
  sweep \in {"drain", "gone"} /\ ~overtaken =>
    \A s \in Slot : rq[s] = "started" => s \in late \cup {adding}

\* If the block layer stops sending requests, an exit of the server ends in the
\* removal of the disk, unless a request was published after the sweep or a
\* walk was overtaken. While it does not stop, the sweep may meet tags it gave
\* back again and again.
ExitCompletes ==
  <>[](adding = None) => (exiting ~> (sweep = "gone" \/ late # {} \/ overtaken))
=============================================================================
