-------------------------- MODULE BiusServiceProofs --------------------------
(***************************************************************************)
(* Proofs about BiusTransport, second part: what driver and library say to *)
(* each other over a connection, and that the whole implements             *)
(* BlockService. They rest on the ledger of BiusTransportProofs.           *)
(***************************************************************************)
EXTENDS BiusTransportProofs

USE DEF reqVars, libVars, endVars

\* What driver and library both know of connection c: the data phase of
\* DataPhaseAgrees, the request a reply was found for is the one it names,
\* and a reply of BLK_STS_OK is for an id that was carried out.
Dialogue(c) ==
  /\ pc[c] \notin Closed \cup {"copyin"} => sending[c] = None
  /\ pc[c] = "copyin" =>
       /\ sending[c] \in waiting[c] /\ id[sending[c]] = k2u[c].id
       /\ map_data[sending[c]] = k2u[c].length - total_read[c]
       /\ map_data[sending[c]] > 0
  /\ pc[c] = "finish" => id[request[c]] = k2u[c].id
  /\ pc[c] \in {"reply", "finish"} /\ reply[c] = "BLK_STS_OK" /\ k2u[c].id \in Id
       => executed[k2u[c].id] > 0

Dialogues == \A c \in Conn : Dialogue(c)

\* The header in the library's hands is that of a request which waits for it.
\* Not so after a failed copy, when the library goes on with an old header.
Current(c) ==
  pc[c] \in {"copyin", "handle", "reply"} => \E r \in waiting[c] : id[r] = k2u[c].id

\* Nothing is carried out before its header reaches the server's callback.
Unserved ==
  /\ \A r \in Range(pending) : executed[id[r]] = 0
  /\ \A c \in Conn : pc[c] = "send" => executed[id[request[c]]] = 0
  /\ \A c \in Conn : pc[c] \in {"copyin", "handle"} => executed[k2u[c].id] = 0
  /\ \A i \in Id : executed[i] <= 1 /\ (i > next_request_id => executed[i] = 0)

\* What holds of the headers as long as no copy stops short.
Headers == (\A c \in Conn : Current(c)) /\ Unserved

\* A reporter's request is marked as one, an ended one has its answer, and
\* the library's replies are assigned.
Reports ==
  /\ \A r \in Req : rstate[r] # "free" => (type[r] = "BIUS_REPORT_ZONES" <=> r \in Reporter)
  /\ \A p \in Reporter : rstate[p] = "ended" =>
       id[p] \in Id /\ ended[id[p]] > 0 /\ result[id[p]] # "GARBAGE"
  /\ \A c \in Conn : reply[c] # "GARBAGE"
  /\ ~exiting /\ \A c \in Conn : pc[c] \notin Closed

-----------------------------------------------------------------------------
(* What a step does to the history                                         *)

Quiet == UNCHANGED <<next_request_id, ended, result, executed>>

Submitted ==
  /\ next_request_id < MaxId /\ next_request_id' = next_request_id + 1
  /\ UNCHANGED <<ended, result, executed>>

Rejected ==
  /\ next_request_id < MaxId /\ next_request_id' = next_request_id + 1
  /\ ended' = [ended EXCEPT ![next_request_id + 1] = @ + 1]
  /\ result' = [result EXCEPT ![next_request_id + 1] = "BLK_STS_NOTSUPP"]
  /\ UNCHANGED executed

CarriedOut(c) ==
  /\ pc[c] = "handle" /\ k2u[c].id \in Id
  /\ executed' = [executed EXCEPT ![k2u[c].id] = @ + 1]
  /\ UNCHANGED <<next_request_id, ended, result>>

\* BLK_STS_OK only comes from the reply the connection holds.
Completed(r, res) ==
  /\ r \in Linked
  /\ ended' = [ended EXCEPT ![id[r]] = @ + 1]
  /\ result' = [result EXCEPT ![id[r]] = res]
  /\ res = "BLK_STS_OK" =>
       \E c \in Conn : pc[c] = "finish" /\ request[c] = r /\ reply[c] = "BLK_STS_OK"
  /\ UNCHANGED <<next_request_id, executed>>

HistoryEffect ==
  \/ Quiet \/ Submitted \/ Rejected
  \/ \E c \in Conn : CarriedOut(c)
  \/ \E r \in Req, res \in Result : Completed(r, res)

\* A request in the hands of a syscall ends with BLK_STS_IOERR, with ERR, with
\* garbage or with the reply.
LEMMA HandCompleted ==
  ASSUME TypeOK, Ledger, NEW c \in Conn, pc[c] \in {"send", "finish"},
         NEW res \in Result, on_request_end(request[c], res),
         UNCHANGED <<next_request_id, executed>>,
         res = "BLK_STS_OK" => pc[c] = "finish" /\ reply[c] = "BLK_STS_OK"
  PROVE  HistoryEffect
<1>1. request[c] \in Req /\ request[c] \in Linked
  BY ConstantsOK DEF TypeOK, Ledger, Hands, Linked, Held
<1>2. Completed(request[c], res)
  BY <1>1 DEF Completed, on_request_end
<1> QED  BY <1>1, <1>2 DEF HistoryEffect

\* Every step takes one of these five forms.
LEMMA HistoryStep == TypeOK /\ Ledger /\ [Next]_vars => HistoryEffect
<1> SUFFICES ASSUME TypeOK, Ledger, [Next]_vars PROVE HistoryEffect
  OBVIOUS
<1> USE DEF Goto, At
<1>q. Quiet => HistoryEffect
  BY DEF HistoryEffect
<1>t. reply \in [Conn -> Result] /\ {"BLK_STS_IOERR", "ERR", "GARBAGE"} \subseteq Result
  BY DEF TypeOK, Result
<1>0. CASE UNCHANGED vars
  BY <1>0, <1>q DEF vars, Quiet
<1>1. ASSUME NEW s \in Slot, NEW op \in Ops, NEW n \in 0 .. MaxLen, bius_queue_rq(s, op, n)
      PROVE  HistoryEffect
  <2>1. CASE op = "BIUS_INVALID_OP"
    BY <1>1, <2>1 DEF bius_queue_rq, NewRequest, RejectOp, Rejected, HistoryEffect
  <2>2. CASE op # "BIUS_INVALID_OP"
    BY <1>1, <2>2 DEF bius_queue_rq, NewRequest, AddPending, Submitted, HistoryEffect
  <2> QED  BY <2>1, <2>2
<1>2. ASSUME NEW p \in Reporter, bius_report_zones(p) PROVE HistoryEffect
  BY <1>2 DEF bius_report_zones, NewRequest, AddPending, Submitted, HistoryEffect
<1>3. ASSUME NEW p \in Reporter, ReportReturn(p) \/ ReportKilled(p) PROVE HistoryEffect
  BY <1>3, <1>q DEF ReportReturn, ReportKilled, Quiet
<1>4. ASSUME NEW i \in Id, wake_up(i) PROVE HistoryEffect
  BY <1>4, <1>q DEF wake_up, Quiet
<1>5. ASSUME NEW c \in Conn, ThreadStep(c) PROVE HistoryEffect
  <2>1. CASE handle_initialization(c) \/ Dequeue(c) \/ FoundEmpty(c) \/ WaitEvent(c)
             \/ bius_send_command(c, FALSE) \/ get_request_by_id(c)
    BY <2>1, <1>q DEF handle_initialization, Dequeue, FoundEmpty, WaitEvent,
                      bius_send_command, get_request_by_id, Quiet
  <2>2. ASSUME NEW n \in 1 .. MaxLen, bius_send_data(c, n) PROVE HistoryEffect
    BY <2>2, <1>q DEF bius_send_data, Quiet
  <2>3. ASSUME NEW res \in {"BLK_STS_OK", "ERR"}, handle_blk_command(c, res)
        PROVE  HistoryEffect
    <3>1. CASE res = "BLK_STS_OK" /\ k2u[c].id \in Id
      BY <2>3, <3>1 DEF handle_blk_command, CarriedOut, HistoryEffect
    <3>2. CASE ~(res = "BLK_STS_OK" /\ k2u[c].id \in Id)
      BY <2>3, <3>2, <1>q DEF handle_blk_command, Quiet
    <3> QED  BY <3>1, <3>2
  <2>4. CASE FinishReply(c)
    <3>1. pc[c] = "finish" /\ UNCHANGED <<next_request_id, executed>>
      BY <2>4 DEF FinishReply
    <3>2. CASE Dead(request[c])
      BY <2>4, <3>2, <1>q DEF FinishReply, Quiet
    <3>3. CASE ~Dead(request[c])
      <4>1. \/ on_request_end(request[c], reply[c])
            \/ on_request_end(request[c], "GARBAGE")
        BY <2>4, <3>3 DEF FinishReply, end_blk_request, end_request_int
      <4> QED  BY <3>1, <4>1, <1>t, HandCompleted
    <3> QED  BY <3>2, <3>3
  <2> QED  BY <1>5, <2>1, <2>2, <2>3, <2>4 DEF ThreadStep
<1>6. ASSUME NEW c \in Conn, ExitStep(c) PROVE HistoryEffect
  <2>1. CASE Die(c) \/ ReleaseDrop(c) \/ RemoveDone(c)
    BY <2>1, <1>q DEF Die, ReleaseDrop, RemoveDone, Quiet
  <2>2. CASE ReleaseWalk(c)
    <3>1. PICK r \in waiting[c] :
            UNCHANGED endVars \/ end_blk_request(r, "BLK_STS_IOERR")
      BY <2>2 DEF ReleaseWalk
    <3>2. r \in Linked /\ r \in Req
      BY DEF Linked, Held, TypeOK
    <3>3. UNCHANGED <<next_request_id, executed>>
      BY <2>2 DEF ReleaseWalk
    <3>4. CASE UNCHANGED endVars
      BY <3>3, <3>4, <1>q DEF Quiet
    <3>5. CASE end_blk_request(r, "BLK_STS_IOERR")
      <4>1. Completed(r, "BLK_STS_IOERR") \/ Completed(r, "GARBAGE")
        BY <3>2, <3>3, <3>5 DEF Completed, end_blk_request, on_request_end
      <4> QED  BY <3>2, <4>1, <1>t DEF HistoryEffect
    <3> QED  BY <3>1, <3>4, <3>5
  <2>3. CASE remove_block_device(c)
    <3>1. UNCHANGED <<next_request_id, executed>> /\ pending # <<>>
      BY <2>3 DEF remove_block_device
    <3>2. CASE UNCHANGED endVars
      BY <3>1, <3>2, <1>q DEF Quiet
    <3>3. CASE on_request_end(Head(pending), "BLK_STS_IOERR")
      <4>1. Head(pending) \in Req /\ Head(pending) \in Linked
        BY <3>1, TakeFromList DEF TypeOK, Linked, Ledger, OnePlace
      <4>2. Completed(Head(pending), "BLK_STS_IOERR")
        BY <3>1, <3>3, <4>1 DEF Completed, on_request_end
      <4> QED  BY <4>1, <4>2, <1>t DEF HistoryEffect
    <3> QED  BY <2>3, <3>2, <3>3 DEF remove_block_device
  <2> QED  BY <1>6, <2>1, <2>2, <2>3 DEF ExitStep
<1>7. ASSUME NEW c \in Conn, FaultStep(c) PROVE HistoryEffect
  <2>1. CASE Interrupted(c) \/ SendDataFailed(c) \/ ReplyLost(c) \/ bius_send_command(c, TRUE)
    BY <2>1, <1>q DEF Interrupted, SendDataFailed, ReplyLost, bius_send_command, Quiet
  <2>2. CASE SendCommandFailed(c)
    <3>1. pc[c] = "send" /\ UNCHANGED <<next_request_id, executed>>
      BY <2>2 DEF SendCommandFailed
    <3>2. \/ UNCHANGED endVars
          \/ on_request_end(request[c], "BLK_STS_IOERR")
          \/ on_request_end(request[c], "GARBAGE")
      BY <2>2 DEF SendCommandFailed, end_blk_request
    <3> QED  BY <3>1, <3>2, <1>t, <1>q, HandCompleted DEF Quiet
  <2>3. CASE FinishFailed(c)
    <3>1. pc[c] = "finish" /\ UNCHANGED <<next_request_id, executed>>
      BY <2>3 DEF FinishFailed
    <3>2. \/ on_request_end(request[c], "BLK_STS_IOERR")
          \/ on_request_end(request[c], "GARBAGE")
          \/ on_request_end(request[c], "ERR")
      BY <2>3 DEF FinishFailed, end_blk_request, end_request_int
    <3> QED  BY <3>1, <3>2, <1>t, HandCompleted
  <2> QED  BY <1>7, <2>1, <2>2, <2>3 DEF FaultStep
<1>8. CASE Exit
  BY <1>8, <1>q DEF Exit, Quiet
<1> QED  BY <1>0, <1>1, <1>2, <1>3, <1>4, <1>5, <1>6, <1>7, <1>8 DEF Next

-----------------------------------------------------------------------------
(* The dialogue over a connection                                          *)

\* A step that does not concern connection d, nor the requests it holds.
Apart(d) ==
  /\ pc'[d] = pc[d] /\ sending'[d] = sending[d] /\ waiting'[d] = waiting[d]
  /\ request'[d] = request[d] /\ k2u'[d] = k2u[d] /\ total_read'[d] = total_read[d]
  /\ reply'[d] = reply[d]
  /\ \A r \in Held(d) : id'[r] = id[r] /\ map_data'[r] = map_data[r]
  /\ \A i \in Id : executed[i] > 0 => executed'[i] > 0

LEMMA ApartKeeps ==
  ASSUME TypeOK, Ledger, NEW d \in Conn, Dialogue(d), Apart(d)
  PROVE  Dialogue(d)'
<1>1. pc[d] = "finish" => request[d] \in Held(d)
  BY DEF Ledger, Hands, Held
<1>2. \A r \in waiting[d] : r \in Held(d)
  BY DEF Held
<1> QED  BY <1>1, <1>2 DEF Apart, Dialogue

\* Taking a header: the data phase begins, or the callback is next.
LEMMA SendDialogue ==
  ASSUME TypeOK, Ledger, Dialogues, NEW c \in Conn, NEW short \in BOOLEAN,
         bius_send_command(c, short)
  PROVE  Dialogues'
<1> USE DEF Goto, At
<1> DEFINE r == request[c]
<1>t. /\ pc \in [Conn -> PC] /\ sending \in [Conn -> Req \cup {None}]
      /\ waiting \in [Conn -> SUBSET Req] /\ request \in [Conn -> Req \cup {None}]
      /\ total_read \in [Conn -> Nat] /\ DOMAIN k2u = Conn
      /\ map_data \in [Req -> 0 .. MaxLen]
      /\ length \in [Req -> 0 .. MaxLen] /\ MaxLen \in Nat
  BY ConstantsOK DEF TypeOK
<1>1. /\ pc[c] = "send" /\ r \in Req /\ r \in Held(c) /\ sending[c] = None
      /\ UNCHANGED <<id, length, reply, executed>>
  BY <1>t, ConstantsOK DEF bius_send_command, Ledger, Hands, Held, Dialogues, Dialogue, Closed
<1>2. CASE Dead(r)
  <2>1. \A d \in Conn : Apart(d)
    BY <1>1, <1>2 DEF bius_send_command, Apart
  <2> QED  BY <2>1, ApartKeeps DEF Dialogues
<1>3. CASE ~Dead(r)
  <2>1. /\ StartSending(c, r)
        /\ waiting' = [waiting EXCEPT ![c] = @ \cup {r}]
        /\ request' = [request EXCEPT ![c] = None]
        /\ total_read' = [total_read EXCEPT ![c] = 0]
    BY <1>3 DEF bius_send_command
  <2>2. \E h : k2u' = [k2u EXCEPT ![c] = h]
    BY <1>3 DEF bius_send_command
  <2>3. \E l : pc' = [pc EXCEPT ![c] = l]
    BY <1>3 DEF bius_send_command, ExitFrom
  <2>4. ASSUME NEW d \in Conn \ {c} PROVE Apart(d)
    <3>1. r \notin Held(d) /\ Held(d) \subseteq Req
      BY <1>1, <1>t DEF Ledger, OnePlace, Held
    <3>2. \A q \in Held(d) : map_data'[q] = map_data[q]
      BY <2>1, <3>1, <1>t DEF StartSending
    <3>3. sending'[d] = sending[d]
      BY <2>1, <1>t DEF StartSending
    <3> QED  BY <1>1, <2>1, <2>2, <2>3, <3>2, <3>3, <1>t DEF Apart
  <2>5. Dialogue(c)'
    <3>1. CASE short
      <4>1. pc'[c] = "stop"
        BY <1>3, <3>1, <1>t DEF bius_send_command, ExitFrom
      <4> QED  BY <4>1 DEF Dialogue, Closed
    <3>2. CASE ~short /\ HasDataPhase(r)
      <4>1. /\ pc'[c] = "copyin" /\ k2u'[c].id = id[r] /\ k2u'[c].length = length[r]
            /\ map_data'[r] = length[r] /\ sending'[c] = r
        BY <1>1, <1>3, <3>2, <2>1, <1>t DEF bius_send_command, StartSending
      <4>2. /\ total_read'[c] = 0 /\ r \in waiting'[c] /\ length[r] \in Nat /\ length[r] > 0
        BY <1>1, <3>2, <2>1, <1>t DEF HasDataPhase
      <4> QED  BY <1>1, <4>1, <4>2 DEF Dialogue
    <3>3. CASE ~short /\ ~HasDataPhase(r)
      <4>1. pc'[c] = "handle" /\ sending'[c] = None
        BY <1>1, <1>3, <3>3, <2>1, <1>t DEF bius_send_command, StartSending
      <4> QED  BY <4>1 DEF Dialogue
    <3> QED  BY <3>1, <3>2, <3>3
  <2> QED  BY <2>4, <2>5, ApartKeeps DEF Dialogues
<1> QED  BY <1>2, <1>3

\* Most steps change one connection and no request.
LEMMA OneConnection ==
  ASSUME TypeOK, Ledger, Dialogues, NEW c \in Conn, Dialogue(c)',
         \E l : pc' = [pc EXCEPT ![c] = l], \E r : sending' = [sending EXCEPT ![c] = r],
         \E w : waiting' = [waiting EXCEPT ![c] = w], \E q : request' = [request EXCEPT ![c] = q],
         \E n : total_read' = [total_read EXCEPT ![c] = n],
         \E a : reply' = [reply EXCEPT ![c] = a],
         UNCHANGED <<k2u, id>>,
         \A d \in Conn \ {c} : \A r \in Held(d) : map_data'[r] = map_data[r],
         \A i \in Id : executed[i] > 0 => executed'[i] > 0
  PROVE  Dialogues'
<1>1. /\ pc \in [Conn -> PC] /\ sending \in [Conn -> Req \cup {None}]
      /\ waiting \in [Conn -> SUBSET Req] /\ request \in [Conn -> Req \cup {None}]
      /\ total_read \in [Conn -> Nat] /\ reply \in [Conn -> Result]
  BY DEF TypeOK
<1>2. \A d \in Conn \ {c} : Apart(d)
  BY <1>1 DEF Apart
<1> QED  BY <1>2, ApartKeeps DEF Dialogues

\* A step of connection c that only moves on, to a place where nothing is
\* asked of the connection beyond what was there before.
LEMMA MovesOn ==
  ASSUME TypeOK, Ledger, Dialogues, NEW c \in Conn,
         \/ pc' = pc
         \/ /\ pc[c] \notin Closed \cup {"copyin"}
            /\ \E l \in PC \ {"copyin", "reply", "finish"} : pc' = [pc EXCEPT ![c] = l]
         \/ \E l \in Closed : pc' = [pc EXCEPT ![c] = l],
         UNCHANGED <<sending, request, k2u, total_read, reply, id, map_data, executed>>,
         \A d \in Conn : waiting'[d] = waiting[d] \/ pc'[d] \in Closed
  PROVE  Dialogues'
<1>1. /\ pc \in [Conn -> PC] /\ Closed \cap {"copyin", "reply", "finish"} = {}
  BY DEF TypeOK, Closed
<1> SUFFICES ASSUME NEW d \in Conn PROVE Dialogue(d)'
  BY DEF Dialogues
<1>2. Dialogue(d)
  BY DEF Dialogues
<1>3. CASE pc'[d] \in Closed
  BY <1>1, <1>3 DEF Dialogue
<1>4. CASE pc'[d] \notin Closed /\ pc'[d] = pc[d]
  BY <1>1, <1>2, <1>4 DEF Dialogue
<1>5. CASE pc'[d] \notin Closed /\ pc'[d] # pc[d]
  <2>1. pc[d] \notin Closed \cup {"copyin"} /\ pc'[d] \notin {"copyin", "reply", "finish"}
    BY <1>1, <1>5
  <2> QED  BY <1>2, <2>1 DEF Dialogue
<1> QED  BY <1>3, <1>4, <1>5

\* A new request is in nobody's hands.
LEMMA NewApart ==
  ASSUME TypeOK, Ledger, Dialogues, NEW r \in Req, rstate[r] = "free",
         id' = [id EXCEPT ![r] = next_request_id + 1],
         UNCHANGED <<pc, sending, waiting, request, k2u, total_read, reply, map_data, executed>>
  PROVE  Dialogues'
<1>0. waiting \in [Conn -> SUBSET Req] /\ request \in [Conn -> Req \cup {None}]
  BY DEF TypeOK
<1>1. \A d \in Conn : r \notin Held(d) /\ Held(d) \subseteq Req
  <2>1. r \notin Linked
    BY DEF Ledger, Accounts
  <2> QED  BY <2>1, <1>0 DEF Linked, Held
<1>2. id \in [Req -> 0 .. MaxId]
  BY DEF TypeOK
<1>3. \A d \in Conn : \A q \in Held(d) : id'[q] = id[q]
  BY <1>1, <1>2
<1>4. \A d \in Conn : Apart(d)
  BY <1>3 DEF Apart
<1> QED  BY <1>4, ApartKeeps DEF Dialogues

\* The dialogue, one action after the other.
LEMMA DialogueStep == TypeOK /\ Ledger /\ Dialogues /\ [Next]_vars => Dialogues'
<1> SUFFICES ASSUME TypeOK, Ledger, Dialogues, [Next]_vars PROVE Dialogues'
  OBVIOUS
<1> USE DEF Goto, At
<1>t. /\ pc \in [Conn -> PC] /\ sending \in [Conn -> Req \cup {None}]
      /\ waiting \in [Conn -> SUBSET Req] /\ request \in [Conn -> Req \cup {None}]
      /\ total_read \in [Conn -> Nat] /\ reply \in [Conn -> Result]
      /\ map_data \in [Req -> 0 .. MaxLen] /\ MaxLen \in Nat /\ None \notin Req
      /\ executed \in [Id -> Nat]
      /\ k2u \in [Conn -> [id : 0 .. MaxId, opcode : OpCode, length : 0 .. MaxLen]]
  BY ConstantsOK DEF TypeOK
<1>p. {"read", "prewait", "asleep", "send", "handle"} \subseteq PC \ {"copyin", "reply", "finish"}
  BY DEF PC, InSyscall, InLibrary
<1>0. CASE UNCHANGED vars
  <2>1. \A c \in Conn : Apart(c)
    BY <1>0 DEF vars, Apart
  <2> QED  BY <2>1, ApartKeeps DEF Dialogues
<1>1. ASSUME NEW s \in Slot, NEW op \in Ops, NEW n \in 0 .. MaxLen, bius_queue_rq(s, op, n)
      PROVE  Dialogues'
  BY <1>1, NewApart DEF bius_queue_rq, NewRequest, Req
<1>2. ASSUME NEW p \in Reporter, bius_report_zones(p) PROVE Dialogues'
  BY <1>2, NewApart DEF bius_report_zones, NewRequest, Req
<1>3. ASSUME NEW p \in Reporter, ReportReturn(p) \/ ReportKilled(p) PROVE Dialogues'
  <2>1. \A c \in Conn : Apart(c)
    BY <1>3 DEF ReportReturn, ReportKilled, Apart
  <2> QED  BY <2>1, ApartKeeps DEF Dialogues
<1>4. ASSUME NEW i \in Id, wake_up(i) PROVE Dialogues'
  <2>1. CASE pc' = pc
    <3>1. \A c \in Conn : Apart(c)
      BY <1>4, <2>1 DEF wake_up, Apart
    <3> QED  BY <3>1, ApartKeeps DEF Dialogues
  <2>2. CASE pc' # pc
    <3>1. PICK c \in Conn : pc[c] = "asleep" /\ pc' = [pc EXCEPT ![c] = "prewait"]
      BY <1>4, <2>2 DEF wake_up, Asleep
    <3>2. pc[c] \notin Closed \cup {"copyin"}
      BY <3>1 DEF Closed
    <3> QED  BY <1>4, <3>1, <3>2, <1>p, MovesOn DEF wake_up
  <2> QED  BY <2>1, <2>2
<1>5. ASSUME NEW c \in Conn, ThreadStep(c) PROVE Dialogues'
  <2>1. CASE handle_initialization(c) \/ FoundEmpty(c) \/ WaitEvent(c)
    <3>1. /\ pc[c] \notin Closed \cup {"copyin"}
          /\ \E l \in {"read", "prewait", "asleep"} : pc' = [pc EXCEPT ![c] = l]
      BY <2>1 DEF handle_initialization, FoundEmpty, WaitEvent, Closed
    <3>2. UNCHANGED <<waiting, sending, request, k2u, total_read, reply, id, map_data, executed>>
      BY <2>1 DEF handle_initialization, FoundEmpty, WaitEvent
    <3> QED  BY <3>1, <3>2, <1>p, MovesOn
  <2>2. CASE Dequeue(c)
    <3>1. /\ UNCHANGED <<waiting, sending, k2u, total_read, reply, id, map_data, executed>>
          /\ pc[c] = "read"
      BY <2>2 DEF Dequeue
    <3>2. CASE UNCHANGED <<pc, request>>
      BY <3>1, <3>2, MovesOn
    <3>3. CASE /\ \E r : request' = [request EXCEPT ![c] = r]
               /\ pc' = [pc EXCEPT ![c] = "send"]
      <4>1. Dialogue(c)'
        BY <3>1, <3>3, <1>t DEF Dialogues, Dialogue, Closed
      <4>2. /\ waiting' = [waiting EXCEPT ![c] = waiting[c]]
            /\ sending' = [sending EXCEPT ![c] = sending[c]]
            /\ total_read' = [total_read EXCEPT ![c] = total_read[c]]
            /\ reply' = [reply EXCEPT ![c] = reply[c]]
        BY <3>1, <1>t
      <4> QED  BY <3>1, <3>3, <4>1, <4>2, OneConnection
    <3> QED  BY <2>2, <3>2, <3>3 DEF Dequeue
  <2>3. CASE bius_send_command(c, FALSE)
    BY <2>3, SendDialogue
  <2>4. ASSUME NEW n \in 1 .. MaxLen, bius_send_data(c, n) PROVE Dialogues'
    <3> DEFINE r == sending[c]
    <3>1. /\ pc[c] = "copyin" /\ n \in 1 .. map_data[r]
          /\ map_data' = [map_data EXCEPT ![r] = @ - n]
          /\ sending' = [sending EXCEPT ![c] = IF n = map_data[r] THEN None ELSE r]
          /\ total_read' = [total_read EXCEPT ![c] = total_read[c] + n]
          /\ pc' = [pc EXCEPT ![c] = IF total_read[c] + n < k2u[c].length
                                     THEN "copyin" ELSE "handle"]
          /\ UNCHANGED <<waiting, request, k2u, reply, id, executed>>
      BY <2>4 DEF bius_send_data
    <3>2. /\ r \in waiting[c] /\ r \in Req /\ id[r] = k2u[c].id
          /\ map_data[r] = k2u[c].length - total_read[c]
      BY <3>1, <1>t DEF Dialogues, Dialogue
    <3>3. ASSUME NEW d \in Conn \ {c}, NEW q \in Held(d) PROVE map_data'[q] = map_data[q]
      <4>1. r \in Held(c) /\ r \notin Held(d) /\ q \in Req
        BY <3>2, <1>t DEF Held, Ledger, OnePlace
      <4> QED  BY <3>1, <4>1, <1>t
    <3>4. map_data[r] \in Nat /\ total_read[c] \in Nat /\ k2u[c].length \in Nat /\ n \in Nat
      BY <3>2, <1>t
    <3>5. Dialogue(c)'
      <4>1. CASE n = map_data[r]
        <5>1. pc'[c] = "handle" /\ sending'[c] = None
          BY <3>1, <3>2, <3>4, <4>1, <1>t
        <5> QED  BY <5>1 DEF Dialogue
      <4>2. CASE n # map_data[r]
        <5>0. n < map_data[r] /\ total_read[c] + n < k2u[c].length /\ map_data[r] - n > 0
          BY <3>1, <3>2, <3>4, <4>2
        <5>1. /\ pc'[c] = "copyin" /\ sending'[c] = r
              /\ map_data'[r] = map_data[r] - n /\ map_data[r] - n > 0
              /\ total_read'[c] = total_read[c] + n
          BY <3>1, <3>2, <4>2, <5>0, <1>t
        <5>2. map_data'[r] = k2u[c].length - total_read'[c]
          BY <5>1, <3>2, <3>4
        <5>3. r \in waiting'[c] /\ id'[r] = k2u'[c].id /\ k2u'[c] = k2u[c]
          BY <3>1, <3>2
        <5> QED  BY <5>1, <5>2, <5>3 DEF Dialogue
      <4> QED  BY <4>1, <4>2
    <3>6. /\ waiting' = [waiting EXCEPT ![c] = waiting[c]]
          /\ request' = [request EXCEPT ![c] = request[c]]
          /\ reply' = [reply EXCEPT ![c] = reply[c]]
      BY <3>1, <1>t
    <3> QED  BY <3>1, <3>3, <3>5, <3>6, OneConnection
  <2>5. ASSUME NEW res \in {"BLK_STS_OK", "ERR"}, handle_blk_command(c, res) PROVE Dialogues'
    <3>1. /\ pc[c] = "handle" /\ pc' = [pc EXCEPT ![c] = "reply"]
          /\ reply' = [reply EXCEPT ![c] = res]
          /\ executed' = IF res = "BLK_STS_OK" /\ k2u[c].id \in Id
                         THEN [executed EXCEPT ![k2u[c].id] = @ + 1] ELSE executed
          /\ UNCHANGED <<sending, waiting, request, k2u, total_read, id, map_data>>
      BY <2>5 DEF handle_blk_command
    <3>2. \A i \in Id : executed[i] > 0 => executed'[i] > 0
      BY <3>1, <1>t
    <3>3. res = "BLK_STS_OK" /\ k2u[c].id \in Id => executed'[k2u[c].id] > 0
      BY <3>1, <1>t
    <3>4. Dialogue(c)'
      BY <3>1, <3>3, <1>t DEF Dialogues, Dialogue, Closed
    <3>5. /\ waiting' = [waiting EXCEPT ![c] = waiting[c]]
          /\ sending' = [sending EXCEPT ![c] = sending[c]]
          /\ request' = [request EXCEPT ![c] = request[c]]
          /\ total_read' = [total_read EXCEPT ![c] = total_read[c]]
      BY <3>1, <1>t
    <3> QED  BY <3>1, <3>2, <3>4, <3>5, OneConnection
  <2>6. CASE get_request_by_id(c)
    <3>1. pc[c] = "reply" /\ UNCHANGED <<k2u, total_read, reply, id, map_data, executed>>
      BY <2>6 DEF get_request_by_id
    <3>2. CASE UNCHANGED <<waiting, sending, request>> /\ pc' \in {pc, [pc EXCEPT ![c] = "stop"]}
      BY <3>1, <3>2, MovesOn DEF Closed
    <3>3. CASE \E r \in waiting[c] :
                 /\ id[r] = k2u[c].id
                 /\ waiting' = [waiting EXCEPT ![c] = @ \ {r}]
                 /\ sending' = [sending EXCEPT ![c] = IF @ = r THEN None ELSE @]
                 /\ request' = [request EXCEPT ![c] = r]
                 /\ pc' = [pc EXCEPT ![c] = "finish"]
      <4>1. PICK r \in waiting[c] :
                 /\ id[r] = k2u[c].id
                 /\ waiting' = [waiting EXCEPT ![c] = @ \ {r}]
                 /\ sending' = [sending EXCEPT ![c] = IF @ = r THEN None ELSE @]
                 /\ request' = [request EXCEPT ![c] = r]
                 /\ pc' = [pc EXCEPT ![c] = "finish"]
        BY <3>3
      <4>2. sending[c] = None
        BY <3>1 DEF Dialogues, Dialogue, Closed
      <4>3. pc'[c] = "finish" /\ sending'[c] = None /\ request'[c] = r
        BY <4>1, <4>2, <1>t
      <4>4. Dialogue(c)'
        BY <3>1, <4>1, <4>3 DEF Dialogues, Dialogue
      <4>5. /\ total_read' = [total_read EXCEPT ![c] = total_read[c]]
            /\ reply' = [reply EXCEPT ![c] = reply[c]]
        BY <3>1, <1>t
      <4> QED  BY <3>1, <4>1, <4>4, <4>5, OneConnection
    <3> QED  BY <2>6, <3>2, <3>3 DEF get_request_by_id, ExitFrom
  <2>7. CASE FinishReply(c)
    <3>1. /\ pc[c] = "finish"
          /\ UNCHANGED <<waiting, sending, k2u, total_read, reply, id, map_data, executed>>
      BY <2>7 DEF FinishReply
    <3>2. CASE UNCHANGED <<pc, request>>
      BY <3>1, <3>2, MovesOn
    <3>3. CASE /\ request' = [request EXCEPT ![c] = None]
               /\ pc' = [pc EXCEPT ![c] = "read"]
      <4>1. Dialogue(c)'
        BY <3>1, <3>3, <1>t DEF Dialogues, Dialogue, Closed
      <4>2. /\ waiting' = [waiting EXCEPT ![c] = waiting[c]]
            /\ sending' = [sending EXCEPT ![c] = sending[c]]
            /\ total_read' = [total_read EXCEPT ![c] = total_read[c]]
            /\ reply' = [reply EXCEPT ![c] = reply[c]]
        BY <3>1, <1>t
      <4> QED  BY <3>1, <3>3, <4>1, <4>2, OneConnection
    <3> QED  BY <2>7, <3>2, <3>3 DEF FinishReply
  <2> QED  BY <1>5, <2>1, <2>2, <2>3, <2>4, <2>5, <2>6, <2>7 DEF ThreadStep
<1>6. ASSUME NEW c \in Conn, ExitStep(c) PROVE Dialogues'
  <2>1. UNCHANGED <<sending, request, k2u, total_read, reply, id, map_data, executed>>
    BY <1>6 DEF ExitStep, Die, ReleaseWalk, ReleaseDrop, remove_block_device, RemoveDone
  <2>2. pc' = pc \/ \E l \in Closed : pc' = [pc EXCEPT ![c] = l]
    BY <1>6 DEF ExitStep, Die, ReleaseWalk, ReleaseDrop, remove_block_device, RemoveDone, Closed
  <2>3. ASSUME NEW d \in Conn PROVE waiting'[d] = waiting[d] \/ pc'[d] \in Closed
    <3>1. CASE ReleaseWalk(c)
      <4>1. \/ UNCHANGED waiting
            \/ \E w : waiting' = [waiting EXCEPT ![c] = w] /\ pc' = [pc EXCEPT ![c] = "walk"]
        BY <3>1 DEF ReleaseWalk
      <4> QED  BY <4>1, <1>t DEF Closed
    <3>2. CASE ~ReleaseWalk(c)
      BY <1>6, <3>2 DEF ExitStep, Die, ReleaseDrop, remove_block_device, RemoveDone
    <3> QED  BY <3>1, <3>2
  <2> QED  BY <2>1, <2>2, <2>3, MovesOn
<1>7. ASSUME NEW c \in Conn, FaultStep(c) PROVE Dialogues'
  <2>1. CASE Interrupted(c) \/ SendDataFailed(c) \/ ReplyLost(c)
    <3>1. UNCHANGED <<waiting, sending, request, k2u, total_read, reply, id, map_data, executed>>
      BY <2>1 DEF Interrupted, SendDataFailed, ReplyLost
    <3>2. \/ pc[c] \in {"asleep", "reply"} /\ pc' = [pc EXCEPT ![c] = "read"]
          \/ pc' = [pc EXCEPT ![c] = "stop"]
      BY <2>1 DEF Interrupted, SendDataFailed, ReplyLost, ExitFrom
    <3> QED  BY <3>1, <3>2, <1>p, MovesOn DEF Closed
  <2>2. CASE bius_send_command(c, TRUE)
    BY <2>2, SendDialogue
  <2>3. CASE SendCommandFailed(c)
    <3> DEFINE r == request[c]
    <3>1. pc[c] = "send" /\ UNCHANGED <<waiting, k2u, total_read, reply, id, executed>>
      BY <2>3 DEF SendCommandFailed
    <3>2. CASE UNCHANGED <<map_data, sending, request, pc>>
      BY <3>1, <3>2, MovesOn
    <3>3. CASE /\ map_data' = [map_data EXCEPT ![r] = IF HasDataPhase(r) THEN length[r] ELSE @]
               /\ sending' = [sending EXCEPT ![c] = None]
               /\ request' = [request EXCEPT ![c] = None]
               /\ pc' = [pc EXCEPT ![c] = "handle"]
      <4>1. pc'[c] = "handle" /\ sending'[c] = None
        BY <3>3, <1>t
      <4>2. Dialogue(c)'
        BY <4>1 DEF Dialogue
      <4>3. ASSUME NEW d \in Conn \ {c}, NEW q \in Held(d) PROVE map_data'[q] = map_data[q]
        <5>1. r \in Held(c) /\ r \notin Held(d) /\ q \in Req
          BY <3>1, <1>t DEF Held, Ledger, Hands, OnePlace
        <5> QED  BY <3>3, <5>1, <1>t
      <4>4. /\ waiting' = [waiting EXCEPT ![c] = waiting[c]]
            /\ total_read' = [total_read EXCEPT ![c] = total_read[c]]
            /\ reply' = [reply EXCEPT ![c] = reply[c]]
        BY <3>1, <1>t
      <4> QED  BY <3>1, <3>3, <4>2, <4>3, <4>4, OneConnection
    <3> QED  BY <2>3, <3>2, <3>3 DEF SendCommandFailed
  <2>4. CASE FinishFailed(c)
    <3>1. /\ pc[c] = "finish" /\ request' = [request EXCEPT ![c] = None]
          /\ \E l \in {"read", "stop"} : pc' = [pc EXCEPT ![c] = l]
          /\ UNCHANGED <<waiting, sending, k2u, total_read, reply, id, map_data, executed>>
      BY <2>4 DEF FinishFailed, ExitFrom
    <3>2. Dialogue(c)'
      BY <3>1, <1>t DEF Dialogues, Dialogue, Closed
    <3>3. /\ waiting' = [waiting EXCEPT ![c] = waiting[c]]
          /\ sending' = [sending EXCEPT ![c] = sending[c]]
          /\ total_read' = [total_read EXCEPT ![c] = total_read[c]]
          /\ reply' = [reply EXCEPT ![c] = reply[c]]
      BY <3>1, <1>t
    <3> QED  BY <3>1, <3>2, <3>3, OneConnection
  <2> QED  BY <1>7, <2>1, <2>2, <2>3, <2>4 DEF FaultStep
<1>8. CASE Exit
  <2>1. \A c \in Conn : Apart(c)
    BY <1>8 DEF Exit, Apart
  <2> QED  BY <2>1, ApartKeeps DEF Dialogues
<1> QED  BY <1>0, <1>1, <1>2, <1>3, <1>4, <1>5, <1>6, <1>7, <1>8 DEF Next

-----------------------------------------------------------------------------
(* What the dialogue guarantees                                            *)

\* An id that is ended with BLK_STS_OK was carried out before.
LEMMA ServedStep ==
  TypeOK /\ Ledger /\ Dialogues /\ OkMeansServed /\ [Next]_vars => OkMeansServed'
<1> SUFFICES ASSUME TypeOK, Ledger, Dialogues, OkMeansServed, HistoryEffect, NEW i \in Id
             PROVE  ended'[i] > 0 /\ result'[i] = "BLK_STS_OK" => executed'[i] > 0
  BY HistoryStep DEF OkMeansServed
<1>t. /\ ended \in [Id -> Nat] /\ result \in [Id -> Result] /\ executed \in [Id -> Nat]
      /\ next_request_id \in 0 .. MaxId /\ MaxId \in Nat
  BY ConstantsOK DEF TypeOK
<1>i. ended[i] > 0 /\ result[i] = "BLK_STS_OK" => executed[i] > 0
  BY DEF OkMeansServed
<1>1. CASE Quiet \/ Submitted
  BY <1>1, <1>i DEF Quiet, Submitted
<1>2. CASE Rejected
  BY <1>2, <1>i, <1>t DEF Rejected
<1>3. CASE \E c \in Conn : CarriedOut(c)
  BY <1>3, <1>i, <1>t DEF CarriedOut
<1>4. ASSUME NEW r \in Req, NEW res \in Result, Completed(r, res)
      PROVE  ended'[i] > 0 /\ result'[i] = "BLK_STS_OK" => executed'[i] > 0
  <2>1. CASE i # id[r]
    BY <1>4, <2>1, <1>i, <1>t DEF Completed
  <2>2. CASE i = id[r]
    <3> SUFFICES ASSUME res = "BLK_STS_OK" PROVE executed[i] > 0
      BY <1>4, <2>2, <1>t DEF Completed
    <3>1. PICK c \in Conn : pc[c] = "finish" /\ request[c] = r /\ reply[c] = "BLK_STS_OK"
      BY <1>4 DEF Completed
    <3> QED  BY <2>2, <3>1 DEF Dialogues, Dialogue
  <2> QED  BY <2>1, <2>2
<1> QED  BY <1>1, <1>2, <1>3, <1>4 DEF HistoryEffect

\* The dialogue holds in every reachable state, whatever copies stop short and
\* whoever is killed.
THEOREM DialogueInvariant == Spec => []Dialogues
<1>1. Init => Dialogues
  BY DEF Init, Dialogues, Dialogue
<1>2. TypeOK /\ Ledger /\ Dialogues /\ [Next]_vars => Dialogues'
  BY DialogueStep
<1> QED  BY <1>1, <1>2, LedgerInvariant, PTL DEF Spec

\* Driver and library agree on what the next read() means, through every
\* short copy, interruption and exit.
THEOREM DataPhaseKept == Spec => []DataPhaseAgrees
<1>1. Dialogues => DataPhaseAgrees
  BY DEF Dialogues, Dialogue, DataPhaseAgrees
<1> QED  BY <1>1, DialogueInvariant, PTL

\* No error path and no teardown answers BLK_STS_OK for the server.
THEOREM OkOnlyIfServed == Spec => []OkMeansServed
<1>1. Init => OkMeansServed
  BY DEF Init, OkMeansServed
<1>2. TypeOK /\ Ledger /\ Dialogues /\ OkMeansServed /\ [Next]_vars => OkMeansServed'
  BY ServedStep
<1> QED  BY <1>1, <1>2, LedgerInvariant, DialogueInvariant, PTL DEF Spec

-----------------------------------------------------------------------------
(* The headers, as long as no copy stops short                             *)

\* A step that brings no header and carries nothing out.
LEMMA HeadersKeep ==
  ASSUME TypeOK, Headers, UNCHANGED <<executed, k2u, id, next_request_id>>,
         Range(pending') \subseteq Range(pending),
         \A c \in Conn : pc'[c] = "send" => pc[c] = "send" /\ request'[c] = request[c],
         \A c \in Conn : pc'[c] \in {"copyin", "handle", "reply"} =>
           /\ pc[c] \in {"copyin", "handle", "reply"} /\ waiting'[c] = waiting[c]
           /\ pc'[c] # "reply" => pc[c] # "reply"
  PROVE  Headers'
<1>1. \A c \in Conn : Current(c)'
  BY DEF Headers, Current
<1>2. Unserved'
  BY DEF Headers, Unserved
<1> QED  BY <1>1, <1>2 DEF Headers

\* A new request has an id nobody has carried out.
LEMMA HeadersNew ==
  ASSUME TypeOK, Ledger, Headers, NEW r \in Req, rstate[r] = "free", NEW op, NEW n,
         NewRequest(r, op, n), Range(pending') \subseteq Range(pending) \cup {r},
         UNCHANGED <<executed, k2u, pc, waiting, request>>
  PROVE  Headers'
<1>t. /\ waiting \in [Conn -> SUBSET Req] /\ request \in [Conn -> Req \cup {None}]
      /\ id \in [Req -> 0 .. MaxId] /\ pending \in Seq(Req)
      /\ next_request_id \in 0 .. MaxId /\ MaxId \in Nat
  BY ConstantsOK DEF TypeOK
<1>0. r \notin Linked
  BY DEF Ledger, Accounts
<1>1. \A c \in Conn : r \notin Held(c)
  BY <1>0 DEF Linked
<1>2. \A q \in Range(pending) : q # r /\ q \in Req
  BY <1>0, <1>t DEF Linked, Range
<1>3. /\ id' = [id EXCEPT ![r] = next_request_id + 1] /\ next_request_id + 1 \in Id
      /\ next_request_id' = next_request_id + 1
  BY <1>t DEF NewRequest, Id
<1>4. executed[next_request_id + 1] = 0
  BY <1>3, <1>t DEF Headers, Unserved
<1>5. \A q \in Req : q # r => id'[q] = id[q]
  BY <1>3, <1>t
<1>6. id'[r] = next_request_id + 1
  BY <1>3, <1>t
<1>7. ASSUME NEW c \in Conn PROVE Current(c)'
  <2>1. \A q \in waiting[c] : q \in Req /\ q # r
    BY <1>1, <1>t DEF Held
  <2> QED  BY <2>1, <1>5 DEF Headers, Current
<1>8. ASSUME NEW c \in Conn, pc'[c] = "send" PROVE executed'[id'[request'[c]]] = 0
  <2>1. request[c] # r /\ request[c] \in Req
    BY <1>8, <1>1, <1>t DEF Held, Ledger, Hands
  <2> QED  BY <2>1, <1>8, <1>5 DEF Headers, Unserved
<1>9. ASSUME NEW q \in Range(pending') PROVE executed'[id'[q]] = 0
  <2>1. CASE q = r
    BY <2>1, <1>4, <1>6
  <2>2. CASE q # r
    BY <2>2, <1>2, <1>5 DEF Headers, Unserved
  <2> QED  BY <2>1, <2>2
<1>10. ASSUME NEW i \in Id
       PROVE  executed'[i] <= 1 /\ (i > next_request_id' => executed'[i] = 0)
  <2>1. i > next_request_id' => i > next_request_id
    BY <1>3, <1>t DEF Id
  <2> QED  BY <2>1 DEF Headers, Unserved
<1>11. \A c \in Conn : pc'[c] \in {"copyin", "handle"} => executed'[k2u'[c].id] = 0
  BY DEF Headers, Unserved
<1>12. Unserved'
  BY <1>8, <1>9, <1>10, <1>11 DEF Unserved
<1> QED  BY <1>7, <1>12 DEF Headers

\* The callback carries out an id that no other connection and no list has.
LEMMA HeadersCarriedOut ==
  ASSUME TypeOK, Ledger, Headers, NEW c \in Conn, pc[c] = "handle",
         pc' = [pc EXCEPT ![c] = "reply"],
         executed' = executed \/ /\ k2u[c].id \in Id
                                 /\ executed' = [executed EXCEPT ![k2u[c].id] = @ + 1],
         UNCHANGED <<k2u, id, next_request_id, pending, waiting, request>>
  PROVE  Headers'
<1>t. /\ waiting \in [Conn -> SUBSET Req] /\ request \in [Conn -> Req \cup {None}]
      /\ pc \in [Conn -> PC] /\ executed \in [Id -> Nat] /\ next_request_id \in 0 .. MaxId
      /\ MaxId \in Nat
  BY ConstantsOK DEF TypeOK
<1>1. PICK r \in waiting[c] : id[r] = k2u[c].id
  BY DEF Headers, Current
<1>2. r \in Linked /\ \A q \in Linked : id[q] = id[r] => q = r
  BY DEF Ledger, Accounts, Linked, Held
<1>3. id[r] \in 1 .. next_request_id /\ executed[id[r]] = 0
  BY <1>1, <1>2 DEF Ledger, Accounts, Headers, Unserved
<1>4. \A i \in Id : i # id[r] => executed'[i] = executed[i]
  BY <1>1, <1>t
<1>4a. \A q \in Linked : id[q] \in Id
  BY <1>t DEF Ledger, Accounts, Id
<1>5. \A q \in Linked : q # r => executed'[id[q]] = executed[id[q]]
  BY <1>2, <1>4, <1>4a
<1>6. ASSUME NEW q \in Range(pending') PROVE executed'[id'[q]] = 0
  <2>1. q \in Linked /\ q # r
    BY DEF Linked, Held, Ledger, OnePlace
  <2> QED  BY <2>1, <1>5 DEF Headers, Unserved
<1>7. ASSUME NEW d \in Conn, pc'[d] = "send" PROVE executed'[id'[request'[d]]] = 0
  <2>1. pc[d] = "send" /\ d # c
    BY <1>7, <1>t
  <2>2. request[d] \in Held(d) /\ r \in Held(c)
    BY <2>1 DEF Held, Ledger, Hands
  <2>3. request[d] \in Linked /\ request[d] # r
    BY <2>1, <2>2 DEF Linked, Ledger, OnePlace
  <2> QED  BY <2>1, <2>3, <1>5 DEF Headers, Unserved
<1>8. ASSUME NEW d \in Conn, pc'[d] \in {"copyin", "handle"} PROVE executed'[k2u'[d].id] = 0
  <2>1. pc[d] \in {"copyin", "handle"} /\ d # c
    BY <1>8, <1>t
  <2>2. PICK q \in waiting[d] : id[q] = k2u[d].id
    BY <2>1 DEF Headers, Current
  <2>3. q \in Held(d) /\ r \in Held(c)
    BY DEF Held
  <2>4. q \in Linked /\ q # r
    BY <2>1, <2>3 DEF Linked, Ledger, OnePlace
  <2> QED  BY <2>1, <2>2, <2>4, <1>5 DEF Headers, Unserved
<1>9. ASSUME NEW i \in Id
      PROVE  executed'[i] <= 1 /\ (i > next_request_id' => executed'[i] = 0)
  <2>1. CASE i # id[r]
    BY <2>1, <1>4 DEF Headers, Unserved
  <2>2. CASE i = id[r]
    <3>1. executed'[i] \in {0, 1} /\ ~(i > next_request_id')
      BY <2>2, <1>1, <1>3, <1>t
    <3> QED  BY <3>1
  <2> QED  BY <2>1, <2>2
<1>10. ASSUME NEW d \in Conn PROVE Current(d)'
  <2>1. pc'[d] \in {"copyin", "handle", "reply"} => pc[d] \in {"copyin", "handle", "reply"}
    BY <1>t
  <2> QED  BY <2>1 DEF Headers, Current
<1>11. Unserved'
  BY <1>6, <1>7, <1>8, <1>9 DEF Unserved
<1> QED  BY <1>10, <1>11 DEF Headers

\* The headers, one action after the other.
LEMMA HeadersStep ==
  ASSUME "efault" \notin Faults, TypeOK, Ledger, Headers, [Next]_vars
  PROVE  Headers'
<1> USE DEF Goto, At
<1>t. /\ waiting \in [Conn -> SUBSET Req] /\ request \in [Conn -> Req \cup {None}]
      /\ pc \in [Conn -> PC] /\ pending \in Seq(Req) /\ DOMAIN k2u = Conn
      /\ k2u \in [Conn -> [id : 0 .. MaxId, opcode : OpCode, length : 0 .. MaxLen]]
  BY DEF TypeOK
<1>c. Closed \cap {"send", "copyin", "handle", "reply"} = {}
  BY DEF Closed
<1>0. CASE UNCHANGED vars
  BY <1>0, HeadersKeep DEF vars
<1>1. ASSUME NEW s \in Slot, NEW op \in Ops, NEW n \in 0 .. MaxLen, bius_queue_rq(s, op, n)
      PROVE  Headers'
  <2>1. s \in Req /\ rstate[s] = "free" /\ NewRequest(s, op, n)
        /\ UNCHANGED <<executed, k2u, pc, waiting, request>>
    BY <1>1 DEF bius_queue_rq, Req
  <2>2. pending' = pending \/ pending' = Append(pending, s)
    BY <1>1 DEF bius_queue_rq, RejectOp, AddPending
  <2>3. Range(pending') \subseteq Range(pending) \cup {s}
    <3>1. CASE pending' = pending
      BY <3>1
    <3>2. CASE pending' = Append(pending, s)
      <4>1. Range(Append(pending, s)) = Range(pending) \cup {s}
        BY <2>1, <1>t, AppendToList
      <4> QED  BY <3>2, <4>1
    <3> QED  BY <2>2, <3>1, <3>2
  <2> QED  BY <2>1, <2>3, HeadersNew
<1>2. ASSUME NEW p \in Reporter, bius_report_zones(p) PROVE Headers'
  <2>1. p \in Req /\ rstate[p] = "free" /\ NewRequest(p, "BIUS_REPORT_ZONES", 0)
        /\ UNCHANGED <<executed, k2u, pc, waiting, request>> /\ pending' = Append(pending, p)
    BY <1>2 DEF bius_report_zones, Req, AddPending
  <2>2. Range(pending') \subseteq Range(pending) \cup {p}
    BY <2>1, <1>t, AppendToList
  <2> QED  BY <2>1, <2>2, HeadersNew
<1>3. ASSUME NEW p \in Reporter, ReportReturn(p) \/ ReportKilled(p) PROVE Headers'
  BY <1>3, HeadersKeep DEF ReportReturn, ReportKilled
<1>4. ASSUME NEW i \in Id, wake_up(i) PROVE Headers'
  <2>1. pc' = pc \/ \E c \in Conn : pc' = [pc EXCEPT ![c] = "prewait"]
    BY <1>4 DEF wake_up, Asleep
  <2>2. UNCHANGED <<executed, k2u, id, next_request_id, pending, waiting, request>>
    BY <1>4 DEF wake_up
  <2> QED  BY <2>1, <2>2, <1>t, HeadersKeep
<1>5. ASSUME NEW c \in Conn, ThreadStep(c) PROVE Headers'
  <2>1. CASE handle_initialization(c) \/ FoundEmpty(c) \/ WaitEvent(c)
    <3>1. \E l \in {"read", "prewait", "asleep"} : pc' = [pc EXCEPT ![c] = l]
      BY <2>1 DEF handle_initialization, FoundEmpty, WaitEvent
    <3>2. UNCHANGED <<executed, k2u, id, next_request_id, pending, waiting, request>>
      BY <2>1 DEF handle_initialization, FoundEmpty, WaitEvent
    <3> QED  BY <3>1, <3>2, <1>t, HeadersKeep
  <2>2. CASE Dequeue(c)
    <3>1. /\ UNCHANGED <<executed, k2u, id, next_request_id, waiting>>
          /\ pending # <<>>
      BY <2>2 DEF Dequeue
    <3>2. CASE UNCHANGED <<pending, request, pc>>
      BY <3>1, <3>2, HeadersKeep
    <3>3. CASE /\ request' = [request EXCEPT ![c] = Head(pending)]
               /\ pending' = Tail(pending) /\ pc' = [pc EXCEPT ![c] = "send"]
      <4>1. /\ Head(pending) \in Range(pending)
            /\ Range(pending') \subseteq Range(pending)
        BY <3>1, <3>3, <1>t, TakeFromList DEF Ledger, OnePlace
      <4>2. \A d \in Conn : Current(d)'
        <5>1. \A d \in Conn : pc'[d] \in {"copyin", "handle", "reply"} => pc'[d] = pc[d]
          BY <3>3, <1>t
        <5> QED  BY <3>1, <5>1 DEF Headers, Current
      <4>3. ASSUME NEW d \in Conn, pc'[d] = "send" PROVE executed'[id'[request'[d]]] = 0
        <5>1. CASE d = c
          <6>1. request'[d] = Head(pending)
            BY <3>3, <5>1, <1>t
          <6> QED  BY <3>1, <4>1, <6>1 DEF Headers, Unserved
        <5>2. CASE d # c
          <6>1. request'[d] = request[d] /\ pc[d] = "send"
            BY <3>3, <4>3, <5>2, <1>t
          <6> QED  BY <3>1, <6>1 DEF Headers, Unserved
        <5> QED  BY <5>1, <5>2
      <4>4. \A d \in Conn : pc'[d] \in {"copyin", "handle"} => pc'[d] = pc[d]
        BY <3>3, <1>t
      <4>5. Unserved'
        BY <3>1, <4>1, <4>3, <4>4 DEF Headers, Unserved
      <4> QED  BY <4>2, <4>5 DEF Headers
    <3> QED  BY <2>2, <3>2, <3>3 DEF Dequeue
  <2>3. CASE bius_send_command(c, FALSE)
    <3> DEFINE r == request[c]
    <3>1. pc[c] = "send" /\ UNCHANGED <<executed, id, next_request_id, pending>>
      BY <2>3 DEF bius_send_command
    <3>2. CASE Dead(r)
      BY <2>3, <3>1, <3>2, HeadersKeep DEF bius_send_command
    <3>3. CASE ~Dead(r)
      <4>1. /\ waiting' = [waiting EXCEPT ![c] = @ \cup {r}]
            /\ request' = [request EXCEPT ![c] = None]
            /\ \E o, n : k2u' = [k2u EXCEPT ![c] = [id |-> id[r], opcode |-> o, length |-> n]]
            /\ \E l \in {"copyin", "handle"} : pc' = [pc EXCEPT ![c] = l]
        BY <2>3, <3>3 DEF bius_send_command
      <4>2. r \in waiting'[c] /\ k2u'[c].id = id[r] /\ pc'[c] \in {"copyin", "handle"}
        BY <4>1, <1>t
      <4>3. \A d \in Conn \ {c} : /\ waiting'[d] = waiting[d] /\ request'[d] = request[d]
                                  /\ k2u'[d] = k2u[d] /\ pc'[d] = pc[d]
        BY <4>1, <1>t
      <4>4. executed[id[r]] = 0
        BY <3>1 DEF Headers, Unserved
      <4>5. \A d \in Conn : Current(d)'
        BY <3>1, <4>2, <4>3 DEF Headers, Current
      <4>6. Unserved'
        BY <3>1, <4>2, <4>3, <4>4 DEF Headers, Unserved
      <4> QED  BY <4>5, <4>6 DEF Headers
    <3> QED  BY <3>2, <3>3
  <2>4. ASSUME NEW n \in 1 .. MaxLen, bius_send_data(c, n) PROVE Headers'
    <3>1. /\ pc[c] = "copyin" /\ \E l \in {"copyin", "handle"} : pc' = [pc EXCEPT ![c] = l]
          /\ UNCHANGED <<executed, k2u, id, next_request_id, pending, waiting, request>>
      BY <2>4 DEF bius_send_data
    <3> QED  BY <3>1, <1>t, HeadersKeep
  <2>5. ASSUME NEW res \in {"BLK_STS_OK", "ERR"}, handle_blk_command(c, res) PROVE Headers'
    BY <2>5, HeadersCarriedOut DEF handle_blk_command
  <2>6. CASE get_request_by_id(c)
    <3>1. /\ UNCHANGED <<executed, k2u, id, next_request_id, pending>>
          /\ \/ UNCHANGED <<waiting, request, pc>>
             \/ UNCHANGED <<waiting, request>> /\ pc' = [pc EXCEPT ![c] = "stop"]
             \/ \E w, r : /\ waiting' = [waiting EXCEPT ![c] = w]
                          /\ request' = [request EXCEPT ![c] = r]
                          /\ pc' = [pc EXCEPT ![c] = "finish"]
      BY <2>6 DEF get_request_by_id, ExitFrom
    <3> QED  BY <3>1, <1>t, HeadersKeep
  <2>7. CASE FinishReply(c)
    <3>1. /\ UNCHANGED <<executed, k2u, id, next_request_id, pending, waiting>>
          /\ \/ UNCHANGED <<request, pc>>
             \/ /\ request' = [request EXCEPT ![c] = None]
                /\ pc' = [pc EXCEPT ![c] = "read"]
      BY <2>7 DEF FinishReply
    <3> QED  BY <3>1, <1>t, HeadersKeep
  <2> QED  BY <1>5, <2>1, <2>2, <2>3, <2>4, <2>5, <2>6, <2>7 DEF ThreadStep
<1>6. ASSUME NEW c \in Conn, ExitStep(c) PROVE Headers'
  <2>1. UNCHANGED <<executed, k2u, id, next_request_id, request>>
    BY <1>6 DEF ExitStep, Die, ReleaseWalk, ReleaseDrop, remove_block_device, RemoveDone
  <2>2. \/ UNCHANGED <<pc, waiting>>
        \/ /\ \E l \in Closed : pc' = [pc EXCEPT ![c] = l]
           /\ waiting' = waiting \/ \E w : waiting' = [waiting EXCEPT ![c] = w]
    BY <1>6 DEF ExitStep, Die, ReleaseWalk, ReleaseDrop, remove_block_device, RemoveDone, Closed
  <2>3. Range(pending') \subseteq Range(pending)
    <3>1. CASE pending' = pending
      BY <3>1
    <3>2. CASE pending # <<>> /\ pending' = Tail(pending)
      <4>1. Range(Tail(pending)) \subseteq Range(pending)
        BY <3>2, <1>t, TakeFromList DEF Ledger, OnePlace
      <4> QED  BY <3>2, <4>1
    <3> QED  BY <1>6, <3>1, <3>2 DEF ExitStep, Die, ReleaseWalk, ReleaseDrop,
                                     remove_block_device, RemoveDone
  <2>4. \A d \in Conn : pc'[d] \in Closed \/ (pc'[d] = pc[d] /\ waiting'[d] = waiting[d])
    BY <2>2, <1>t
  <2>5. \A d \in Conn : pc'[d] = "send" => pc[d] = "send" /\ request'[d] = request[d]
    BY <2>1, <2>4, <1>c
  <2>6. \A d \in Conn : pc'[d] \in {"copyin", "handle", "reply"} =>
          pc[d] = pc'[d] /\ waiting'[d] = waiting[d]
    BY <2>4, <1>c
  <2> QED  BY <2>1, <2>3, <2>5, <2>6, HeadersKeep
<1>7. ASSUME NEW c \in Conn, FaultStep(c) PROVE Headers'
  <2>1. Interrupted(c)
    BY <1>7 DEF FaultStep, SendCommandFailed, SendDataFailed, ReplyLost, FinishFailed
  <2>2. /\ pc' = [pc EXCEPT ![c] = "read"]
        /\ UNCHANGED <<executed, k2u, id, next_request_id, pending, waiting, request>>
    BY <2>1 DEF Interrupted
  <2> QED  BY <2>2, <1>t, HeadersKeep
<1>8. CASE Exit
  BY <1>8, HeadersKeep DEF Exit
<1> QED  BY <1>0, <1>1, <1>2, <1>3, <1>4, <1>5, <1>6, <1>7, <1>8 DEF Next

\* Without short copies each id is carried out at most once, and only while
\* its request waits for the answer.
THEOREM HeadersInvariant == "efault" \notin Faults => (Spec => []Headers)
<1> SUFFICES ASSUME "efault" \notin Faults PROVE Spec => []Headers
  OBVIOUS
<1>1. Init => Headers
  <2> SUFFICES ASSUME Init PROVE Headers
    OBVIOUS
  <2>1. Range(pending) = {}
    BY DEF Init, Range
  <2>2. \A i \in Id : executed[i] = 0
    BY DEF Init
  <2>3. \A c \in Conn : pc[c] = "init"
    BY DEF Init
  <2> QED  BY <2>1, <2>2, <2>3 DEF Headers, Current, Unserved
<1>2. TypeOK /\ Ledger /\ Headers /\ [Next]_vars => Headers'
  BY HeadersStep
<1> QED  BY <1>1, <1>2, LedgerInvariant, PTL DEF Spec

-----------------------------------------------------------------------------
(* The service                                                             *)

\* The answers the caller sees.
Outcome(I, e, u) == [i \in I |-> IF e[i] = 0 THEN "none" ELSE u[i]]

\* One id is answered.
LEMMA OutcomeSet ==
  ASSUME NEW I, NEW k \in I, NEW e, NEW f, NEW u, NEW v, f[k] = 1,
         \A i \in I : i # k => f[i] = e[i] /\ v[i] = u[i]
  PROVE  Outcome(I, f, v) = [Outcome(I, e, u) EXCEPT ![k] = v[k]]
<1> DEFINE g == [Outcome(I, e, u) EXCEPT ![k] = v[k]]
<1>1. Outcome(I, f, v)[k] = v[k] /\ g[k] = v[k]
  BY DEF Outcome
<1>2. ASSUME NEW i \in I, i # k PROVE Outcome(I, f, v)[i] = g[i]
  <2>1. f[i] = e[i] /\ v[i] = u[i]
    BY <1>2
  <2> QED  BY <1>2, <2>1 DEF Outcome
<1>3. /\ Outcome(I, f, v) = [i \in I |-> Outcome(I, f, v)[i]]
      /\ g = [i \in I |-> g[i]]
  BY Zenon DEF Outcome
<1>4. \A i \in I : Outcome(I, f, v)[i] = g[i]
  BY <1>1, <1>2
<1> HIDE DEF g
<1>5. Outcome(I, f, v) = g
  BY <1>3, <1>4
<1> QED  BY <1>5 DEF g

\* A step of the request path is a step of the service, or none.
LEMMA ServiceStep ==
  ASSUME TypeOK, Ledger, Dialogues, Headers, [Next]_vars
  PROVE  [Service!ServiceNext]_(Service!serviceVars)
<1>t. /\ ended \in [Id -> Nat] /\ result \in [Id -> Result] /\ executed \in [Id -> Nat]
      /\ next_request_id \in 0 .. MaxId /\ MaxId \in Nat /\ Id = 1 .. MaxId
  BY ConstantsOK DEF TypeOK, Id
<1>h. HistoryEffect
  BY HistoryStep
<1>1. CASE Quiet
  BY <1>1 DEF Quiet, Service!serviceVars
<1>2. CASE Submitted
  <2>1. Service!Submit
    BY <1>2 DEF Submitted, Service!Submit
  <2> QED  BY <2>1 DEF Service!ServiceNext
<1>3. CASE Rejected
  <2> DEFINE k == next_request_id + 1
  <2>1. k \in Id /\ ended[k] = 0
    BY <1>3, <1>t DEF Rejected, Ledger, Accounts
  <2>2. ended'[k] = 1 /\ result'[k] = "BLK_STS_NOTSUPP"
    BY <1>3, <2>1, <1>t DEF Rejected
  <2>3. \A i \in Id : i # k => ended'[i] = ended[i] /\ result'[i] = result[i]
    BY <1>3, <1>t DEF Rejected
  <2>4. Outcome(Id, ended', result') = [Outcome(Id, ended, result) EXCEPT ![k] = "BLK_STS_NOTSUPP"]
    <3>1. Outcome(Id, ended', result') = [Outcome(Id, ended, result) EXCEPT ![k] = result'[k]]
      BY <2>1, <2>2, <2>3, OutcomeSet
    <3> QED  BY <2>2, <3>1
  <2>5. Service!Reject
    BY <1>3, <2>4 DEF Rejected, Service!Reject, Outcome
  <2> QED  BY <2>5 DEF Service!ServiceNext
<1>4. ASSUME NEW c \in Conn, CarriedOut(c)
      PROVE  [Service!ServiceNext]_(Service!serviceVars)
  <2> DEFINE k == k2u[c].id
  <2>1. PICK r \in waiting[c] : id[r] = k
    BY <1>4 DEF CarriedOut, Headers, Current
  <2>2. r \in Linked
    BY DEF Linked, Held
  <2>3. k \in 1 .. next_request_id /\ ended[k] = 0
    BY <2>1, <2>2 DEF Ledger, Accounts
  <2>4. k \in Id /\ executed[k] = 0
    BY <1>4 DEF CarriedOut, Headers, Unserved
  <2>5. executed' = [executed EXCEPT ![k] = 1] /\ UNCHANGED <<next_request_id, ended, result>>
    BY <1>4, <2>4, <1>t DEF CarriedOut
  <2>6. Service!Open(k)
    BY <2>3, <2>4, <1>t DEF Service!Open
  <2>7. Service!Serve(k)
    BY <2>4, <2>5, <2>6 DEF Service!Serve
  <2> QED  BY <2>4, <2>7, <1>t DEF Service!ServiceNext
<1>5. ASSUME NEW r \in Req, NEW res \in Result, Completed(r, res)
      PROVE  [Service!ServiceNext]_(Service!serviceVars)
  <2> DEFINE k == id[r]
  <2>1. k \in 1 .. next_request_id /\ ended[k] = 0
    BY <1>5 DEF Completed, Ledger, Accounts
  <2>2. k \in Id
    BY <2>1, <1>t
  <2>3. Service!Open(k)
    BY <2>1, <2>2, <1>t DEF Service!Open
  <2>4. ASSUME res = "BLK_STS_OK" PROVE executed[k] = 1
    <3>1. PICK c \in Conn : pc[c] = "finish" /\ request[c] = r /\ reply[c] = "BLK_STS_OK"
      BY <1>5, <2>4 DEF Completed
    <3>2. executed[k] > 0
      BY <2>2, <3>1 DEF Dialogues, Dialogue
    <3>3. executed[k] \in Nat /\ executed[k] <= 1
      BY <2>2, <1>t DEF Headers, Unserved
    <3> QED  BY <3>2, <3>3
  <2>5. ended'[k] = 1 /\ result'[k] = res
    BY <1>5, <2>1, <2>2, <1>t DEF Completed
  <2>6. \A i \in Id : i # k => ended'[i] = ended[i] /\ result'[i] = result[i]
    BY <1>5, <1>t DEF Completed
  <2>7. Outcome(Id, ended', result') = [Outcome(Id, ended, result) EXCEPT ![k] = res]
    <3>1. Outcome(Id, ended', result') = [Outcome(Id, ended, result) EXCEPT ![k] = result'[k]]
      BY <2>2, <2>5, <2>6, OutcomeSet
    <3> QED  BY <2>5, <3>1
  <2>8. Service!Reply(k, res)
    BY <1>5, <2>3, <2>4, <2>7 DEF Completed, Service!Reply, Outcome
  <2> QED  BY <2>2, <2>8, <1>t DEF Service!ServiceNext
<1> QED  BY <1>h, <1>1, <1>2, <1>3, <1>4, <1>5 DEF HistoryEffect

\* The request path implements BlockService, for any number of connections,
\* tags, reporters and ids, whoever is killed and whenever the server exits.
THEOREM ServiceRefined == "efault" \notin Faults => (Spec => ImplementsService)
<1> SUFFICES ASSUME "efault" \notin Faults PROVE Spec => ImplementsService
  OBVIOUS
<1>1. Init => Service!ServiceInit
  BY DEF Init, Service!ServiceInit, Id
<1>2. TypeOK /\ Ledger /\ Dialogues /\ Headers /\ [Next]_vars
        => [Service!ServiceNext]_(Service!serviceVars)
  BY ServiceStep
<1>3. Spec => []Headers
  BY HeadersInvariant
<1> QED  BY <1>1, <1>2, <1>3, LedgerInvariant, DialogueInvariant, PTL
         DEF Spec, ImplementsService, Service!ServiceSpec

-----------------------------------------------------------------------------
(* What a reporter is told                                                 *)

\* A step that ends nothing and starts nothing.
LEMMA ReportsKeep ==
  ASSUME TypeOK, Reports, UNCHANGED <<type, id, ended, result, exiting>>,
         \A r \in Req : rstate'[r] # "free" => rstate[r] # "free",
         \A p \in Reporter : rstate'[p] = "ended" => rstate[p] = "ended",
         \A c \in Conn : reply'[c] # "GARBAGE", \A c \in Conn : pc'[c] \notin Closed
  PROVE  Reports'
BY DEF Reports

\* A request that is ended takes no other's answer.
LEMMA ReportsEnd ==
  ASSUME TypeOK, Ledger, Reports, NEW r \in Linked, r \in Req, NEW res,
         on_request_end(r, res), r \in Reporter => res # "GARBAGE",
         UNCHANGED <<type, id, exiting, reply>>, \A c \in Conn : pc'[c] \notin Closed
  PROVE  Reports'
<1>t. /\ rstate \in [Req -> {"free", "started", "ended", "dead"}]
      /\ ended \in [Id -> Nat] /\ result \in [Id -> Result]
      /\ next_request_id \in 0 .. MaxId /\ MaxId \in Nat
  BY ConstantsOK DEF TypeOK
<1>1. id[r] \in Id /\ ended[id[r]] = 0 /\ rstate[r] # "free"
  BY <1>t DEF Ledger, Accounts, Id
<1>2. /\ \A q \in Req : q # r => rstate'[q] = rstate[q]
      /\ \A i \in Id : i # id[r] => ended'[i] = ended[i] /\ result'[i] = result[i]
      /\ ended'[id[r]] = 1 /\ result'[id[r]] = res
  BY <1>1, <1>t DEF on_request_end
<1>3. \A q \in Req : rstate'[q] # "free" => (type'[q] = "BIUS_REPORT_ZONES" <=> q \in Reporter)
  BY <1>1, <1>2 DEF Reports
<1>4. ASSUME NEW p \in Reporter, rstate'[p] = "ended"
      PROVE  id'[p] \in Id /\ ended'[id'[p]] > 0 /\ result'[id'[p]] # "GARBAGE"
  <2>1. CASE p = r
    BY <2>1, <1>1, <1>2
  <2>2. CASE p # r
    <3>1. rstate[p] = "ended"
      BY <1>4, <2>2, <1>2 DEF Req
    <3>2. id[p] \in Id /\ ended[id[p]] > 0 /\ result[id[p]] # "GARBAGE"
      BY <3>1 DEF Reports
    <3>3. id[p] # id[r]
      BY <3>2, <1>1
    <3> QED  BY <3>2, <3>3, <1>2
  <2> QED  BY <2>1, <2>2
<1> QED  BY <1>3, <1>4 DEF Reports

\* A new request is marked for what it is.
LEMMA ReportsNew ==
  ASSUME TypeOK, Ledger, Reports, NEW r \in Req, NEW op, NEW n, NewRequest(r, op, n),
         op = "BIUS_REPORT_ZONES" <=> r \in Reporter,
         rstate[r] = "free", AddPending(r) \/ RejectOp, UNCHANGED <<pc, reply, exiting>>
  PROVE  Reports'
<1>t. /\ rstate \in [Req -> {"free", "started", "ended", "dead"}]
      /\ ended \in [Id -> Nat] /\ result \in [Id -> Result]
      /\ type \in [Req -> OpCode] /\ id \in [Req -> 0 .. MaxId]
      /\ next_request_id \in 0 .. MaxId /\ MaxId \in Nat
  BY ConstantsOK DEF TypeOK
<1> DEFINE k == next_request_id + 1
<1>1. k \in Id /\ ended[k] = 0
  BY <1>t DEF NewRequest, Ledger, Accounts, Id
<1>2. type'[r] = op /\ \A q \in Req : q # r => type'[q] = type[q] /\ id'[q] = id[q]
  BY <1>t DEF NewRequest
<1>3. rstate'[r] # "ended" /\ \A q \in Req : q # r => rstate'[q] = rstate[q]
  BY <1>t DEF AddPending, RejectOp
<1>4. \A i \in Id : i # k => ended'[i] = ended[i] /\ result'[i] = result[i]
  BY <1>t DEF AddPending, RejectOp
<1>5. \A q \in Req : rstate'[q] # "free" => (type'[q] = "BIUS_REPORT_ZONES" <=> q \in Reporter)
  BY <1>2, <1>3 DEF Reports
<1>6. ASSUME NEW p \in Reporter, rstate'[p] = "ended"
      PROVE  id'[p] \in Id /\ ended'[id'[p]] > 0 /\ result'[id'[p]] # "GARBAGE"
  <2>1. p \in Req /\ p # r
    BY <1>6, <1>3 DEF Req
  <2>2. id[p] \in Id /\ ended[id[p]] > 0 /\ result[id[p]] # "GARBAGE"
    BY <2>1, <1>6, <1>3 DEF Reports
  <2>3. id[p] # k
    BY <2>2, <1>1
  <2> QED  BY <2>1, <2>2, <2>3, <1>2, <1>4
<1> QED  BY <1>5, <1>6 DEF Reports

\* The reports, one action after the other.
LEMMA ReportsStep ==
  ASSUME Faults \subseteq {"kill"}, TypeOK, Ledger, Headers, Reports, [Next]_vars
  PROVE  Reports'
<1> USE DEF Goto, At
<1>t. /\ rstate \in [Req -> {"free", "started", "ended", "dead"}] /\ pc \in [Conn -> PC]
      /\ reply \in [Conn -> Result] /\ request \in [Conn -> Req \cup {None}]
      /\ waiting \in [Conn -> SUBSET Req]
  BY DEF TypeOK
<1>r. /\ \A c \in Conn : reply[c] # "GARBAGE" /\ pc[c] \notin Closed
      /\ ~exiting
  BY DEF Reports
<1>c. Closed \cap {"read", "prewait", "asleep", "send", "copyin", "handle", "reply", "finish"} = {}
  BY DEF Closed
<1>0. CASE UNCHANGED vars
  BY <1>0, <1>r, ReportsKeep DEF vars
<1>1. ASSUME NEW s \in Slot, NEW op \in Ops, NEW n \in 0 .. MaxLen, bius_queue_rq(s, op, n)
      PROVE  Reports'
  <2>1. s \in Req /\ s \notin Reporter /\ op # "BIUS_REPORT_ZONES"
    BY ConstantsOK DEF Req, BlkOp
  <2>2. /\ NewRequest(s, op, n) /\ rstate[s] = "free" /\ (AddPending(s) \/ RejectOp)
        /\ UNCHANGED <<pc, reply, exiting>>
    BY <1>1 DEF bius_queue_rq
  <2> QED  BY <2>1, <2>2, ReportsNew
<1>2. ASSUME NEW p \in Reporter, bius_report_zones(p) PROVE Reports'
  <2>1. /\ NewRequest(p, "BIUS_REPORT_ZONES", 0) /\ rstate[p] = "free" /\ AddPending(p)
        /\ UNCHANGED <<pc, reply, exiting>> /\ p \in Req
    BY <1>2 DEF bius_report_zones, Req
  <2> QED  BY <2>1, ReportsNew
<1>3. ASSUME NEW p \in Reporter, ReportReturn(p) \/ ReportKilled(p) PROVE Reports'
  <2>1. /\ UNCHANGED <<type, id, ended, result, exiting, reply, pc>> /\ rstate[p] # "free"
        /\ \E x \in {"free", "dead"} : rstate' = [rstate EXCEPT ![p] = x]
    BY <1>3 DEF ReportReturn, ReportKilled
  <2> QED  BY <2>1, <1>r, <1>t, ReportsKeep
<1>4. ASSUME NEW i \in Id, wake_up(i) PROVE Reports'
  <2>1. /\ UNCHANGED <<type, id, ended, result, exiting, reply, rstate>>
        /\ pc' = pc \/ \E c \in Conn : pc' = [pc EXCEPT ![c] = "prewait"]
    BY <1>4 DEF wake_up, Asleep
  <2>2. \A c \in Conn : pc'[c] \notin Closed
    BY <2>1, <1>r, <1>t, <1>c
  <2> QED  BY <2>1, <2>2, <1>r, ReportsKeep
<1>5. ASSUME NEW c \in Conn, ThreadStep(c) PROVE Reports'
  <2>p. ASSUME NEW l \in {"read", "prewait", "asleep", "send", "copyin", "handle", "reply",
                          "finish"},
               pc' = [pc EXCEPT ![c] = l] \/ pc' = pc
        PROVE  \A d \in Conn : pc'[d] \notin Closed
    BY <2>p, <1>r, <1>t, <1>c
  <2>1. CASE handle_initialization(c) \/ Dequeue(c) \/ FoundEmpty(c) \/ WaitEvent(c)
             \/ bius_send_command(c, FALSE)
    <3>1. UNCHANGED <<type, id, ended, result, exiting, reply, rstate>>
      BY <2>1 DEF handle_initialization, Dequeue, FoundEmpty, WaitEvent, bius_send_command
    <3>2. \/ pc' = pc
          \/ \E l \in {"read", "prewait", "asleep", "send", "copyin", "handle"} :
               pc' = [pc EXCEPT ![c] = l]
      BY <2>1 DEF handle_initialization, Dequeue, FoundEmpty, WaitEvent, bius_send_command
    <3>3. \A d \in Conn : pc'[d] \notin Closed
      BY <3>2, <2>p
    <3> QED  BY <3>1, <3>3, <1>r, ReportsKeep
  <2>2. ASSUME NEW n \in 1 .. MaxLen, bius_send_data(c, n) PROVE Reports'
    <3>1. /\ UNCHANGED <<type, id, ended, result, exiting, reply, rstate>>
          /\ \E l \in {"copyin", "handle"} : pc' = [pc EXCEPT ![c] = l]
      BY <2>2 DEF bius_send_data
    <3>2. \A d \in Conn : pc'[d] \notin Closed
      BY <3>1, <2>p
    <3> QED  BY <3>1, <3>2, <1>r, ReportsKeep
  <2>3. ASSUME NEW res \in {"BLK_STS_OK", "ERR"}, handle_blk_command(c, res) PROVE Reports'
    <3>1. /\ UNCHANGED <<type, id, ended, result, exiting, rstate>>
          /\ pc' = [pc EXCEPT ![c] = "reply"] /\ reply' = [reply EXCEPT ![c] = res]
      BY <2>3 DEF handle_blk_command
    <3>2. \A d \in Conn : pc'[d] \notin Closed
      BY <3>1, <2>p
    <3>3. \A d \in Conn : reply'[d] # "GARBAGE"
      BY <3>1, <1>r, <1>t
    <3> QED  BY <3>1, <3>2, <3>3, ReportsKeep
  <2>4. CASE get_request_by_id(c)
    <3>1. pc[c] = "reply" /\ UNCHANGED <<type, id, ended, result, reply, rstate>>
      BY <2>4 DEF get_request_by_id
    <3>2. \E r \in waiting[c] : id[r] = k2u[c].id
      BY <3>1 DEF Headers, Current
    <3>3. exiting' = exiting /\ (pc' = pc \/ pc' = [pc EXCEPT ![c] = "finish"])
      BY <2>4, <3>2 DEF get_request_by_id
    <3>4. \A d \in Conn : pc'[d] \notin Closed
      BY <3>3, <2>p
    <3> QED  BY <3>1, <3>3, <3>4, <1>r, ReportsKeep
  <2>5. CASE FinishReply(c)
    <3> DEFINE r == request[c]
    <3>1. /\ pc[c] = "finish" /\ UNCHANGED <<type, id, reply, exiting>>
          /\ pc' = pc \/ pc' = [pc EXCEPT ![c] = "read"]
      BY <2>5 DEF FinishReply
    <3>2. \A d \in Conn : pc'[d] \notin Closed
      BY <3>1, <2>p
    <3>3. r \in Req /\ r \in Linked
      BY <3>1, <1>t, ConstantsOK DEF Ledger, Hands, Linked, Held
    <3>4. r \in Reporter => type[r] = "BIUS_REPORT_ZONES"
      BY <3>3 DEF Reports, Ledger, Accounts
    <3>5. CASE UNCHANGED endVars
      BY <3>1, <3>2, <3>5, <1>r, ReportsKeep
    <3>6. CASE ~Dead(r)
      <4>1. \E res : on_request_end(r, res) /\ (r \in Reporter => res = reply[c])
        BY <2>5, <3>4, <3>6 DEF FinishReply, end_blk_request, end_request_int, is_blk_request
      <4> QED  BY <3>1, <3>2, <3>3, <4>1, <1>r, ReportsEnd
    <3> QED  BY <2>5, <3>5, <3>6 DEF FinishReply
  <2> QED  BY <1>5, <2>1, <2>2, <2>3, <2>4, <2>5 DEF ThreadStep
<1>6. ASSUME NEW c \in Conn PROVE ~ExitStep(c)
  BY <1>r DEF ExitStep, Die, ReleaseWalk, ReleaseDrop, Closing, remove_block_device, RemoveDone,
              Closed
<1>7. ASSUME NEW c \in Conn, FaultStep(c) PROVE Reports'
  <2>1. Interrupted(c)
    BY <1>7 DEF FaultStep, SendCommandFailed, SendDataFailed, ReplyLost, FinishFailed
  <2>2. /\ pc' = [pc EXCEPT ![c] = "read"]
        /\ UNCHANGED <<type, id, ended, result, exiting, reply, rstate>>
    BY <2>1 DEF Interrupted
  <2>3. \A d \in Conn : pc'[d] \notin Closed
    BY <2>2, <1>r, <1>t, <1>c
  <2> QED  BY <2>2, <2>3, <1>r, ReportsKeep
<1>8. ~Exit
  BY DEF Exit
<1> QED  BY <1>0, <1>1, <1>2, <1>3, <1>4, <1>5, <1>6, <1>7, <1>8 DEF Next

\* As long as the server lives and no copy stops short, a reporter returns
\* with the server's answer, whoever else is killed while waiting.
THEOREM ReportersAnswered == Faults \subseteq {"kill"} => (Spec => []ReportsAreAnswers)
<1> SUFFICES ASSUME Faults \subseteq {"kill"} PROVE Spec => []ReportsAreAnswers
  OBVIOUS
<1>1. Init => Reports
  <2> SUFFICES ASSUME Init PROVE Reports
    OBVIOUS
  <2>1. \A r \in Req : rstate[r] = "free"
    BY DEF Init
  <2>2. \A p \in Reporter : p \in Req
    BY DEF Req
  <2>3. ~exiting /\ \A c \in Conn : reply[c] = "ERR" /\ pc[c] = "init"
    BY DEF Init
  <2>4. "init" \notin Closed
    BY DEF Closed
  <2> QED  BY <2>1, <2>2, <2>3, <2>4 DEF Reports
<1>2. TypeOK /\ Ledger /\ Headers /\ Reports /\ [Next]_vars => Reports'
  BY ReportsStep
<1>3. Spec => []Headers
  BY HeadersInvariant
<1>4. Reports => ReportsAreAnswers
  BY DEF Reports, ReportsAreAnswers
<1> QED  BY <1>1, <1>2, <1>3, <1>4, LedgerInvariant, PTL DEF Spec
=============================================================================
