------------------------ MODULE BiusTransportProofs ------------------------
(***************************************************************************)
(* Proofs about BiusTransport, for any number of tags, reporters and       *)
(* connections and under every combination of faults.                      *)
(***************************************************************************)
EXTENDS BiusTransport, FiniteSetTheorems, SequenceTheorems, TLAPS

-----------------------------------------------------------------------------
(* Adding to the tail of a list and taking from its head                   *)

\* list_add_tail of a request that is on no list.
LEMMA AppendToList ==
  ASSUME NEW S, NEW q \in Seq(S), NEW r \in S
  PROVE  /\ Append(q, r) \in Seq(S)
         /\ Len(Append(q, r)) = Len(q) + 1
         /\ Range(Append(q, r)) = Range(q) \cup {r}
         /\ IsInjective(q) /\ r \notin Range(q) => IsInjective(Append(q, r))
<1> DEFINE a == Append(q, r)
<1>1. /\ a \in Seq(S) /\ Len(a) = Len(q) + 1
      /\ \A k \in 1 .. Len(q) : a[k] = q[k]
      /\ a[Len(q) + 1] = r
  OBVIOUS
<1>2. DOMAIN a = 1 .. Len(q) + 1 /\ DOMAIN q = 1 .. Len(q) /\ Len(q) \in Nat
  BY <1>1
<1>3. Range(a) = Range(q) \cup {r}
  BY <1>1, <1>2 DEF Range
<1>4. IsInjective(q) /\ r \notin Range(q) => IsInjective(a)
  BY <1>1, <1>2 DEF Range, IsInjective
<1> QED  BY <1>1, <1>3, <1>4

\* list_del of the first entry.
LEMMA TakeFromList ==
  ASSUME NEW S, NEW q \in Seq(S), q # <<>>, IsInjective(q)
  PROVE  /\ Head(q) \in S /\ Head(q) \in Range(q)
         /\ Tail(q) \in Seq(S)
         /\ Len(Tail(q)) = Len(q) - 1
         /\ Range(Tail(q)) = Range(q) \ {Head(q)}
         /\ IsInjective(Tail(q))
<1> DEFINE t == Tail(q)
<1>1. /\ Head(q) = q[1] /\ Head(q) \in S
      /\ t \in Seq(S) /\ Len(t) = Len(q) - 1
      /\ \A k \in 1 .. Len(t) : t[k] = q[k + 1]
  BY HeadTailProperties
<1>2. DOMAIN t = 1 .. Len(t) /\ DOMAIN q = 1 .. Len(q) /\ Len(q) \in Nat \ {0}
  BY <1>1, EmptySeq
<1>3. \A j, k \in 1 .. Len(q) : q[j] = q[k] => j = k
  BY <1>2 DEF IsInjective
<1>4. Range(t) = Range(q) \ {Head(q)}
  <2>1. ASSUME NEW x \in Range(t) PROVE x \in Range(q) /\ x # q[1]
    <3>1. PICK k \in 1 .. Len(t) : x = q[k + 1]
      BY <1>1, <1>2 DEF Range
    <3> QED  BY <3>1, <1>1, <1>2, <1>3 DEF Range
  <2>2. ASSUME NEW x \in Range(q), x # q[1] PROVE x \in Range(t)
    <3>1. PICK k \in 1 .. Len(q) : x = q[k]
      BY <1>2 DEF Range
    <3>2. k - 1 \in 1 .. Len(t) /\ t[k - 1] = q[k]
      BY <3>1, <2>2, <1>1, <1>2
    <3> QED  BY <3>1, <3>2, <1>2 DEF Range
  <2> QED  BY <2>1, <2>2, <1>1
<1>5. IsInjective(t)
  BY <1>1, <1>2, <1>3 DEF IsInjective
<1>6. Head(q) \in Range(q)
  BY <1>1, <1>2 DEF Range
<1> QED  BY <1>1, <1>4, <1>5, <1>6

-----------------------------------------------------------------------------
(* Types                                                                   *)

\* The initial values are in range.
LEMMA InitType == Init => TypeOK
<1> SUFFICES ASSUME Init PROVE TypeOK
  OBVIOUS
<1> USE DEF Init
<1>1. NoCmd \in [id : 0 .. MaxId, opcode : OpCode, length : 0 .. MaxLen]
  BY ConstantsOK DEF NoCmd, OpCode, BlkOp
<1>2. k2u \in [Conn -> [id : 0 .. MaxId, opcode : OpCode, length : 0 .. MaxLen]]
  BY <1>1
<1>3. pending \in Seq(Req)
  OBVIOUS
<1>4. /\ type \in [Req -> OpCode]
      /\ pc \in [Conn -> PC]
      /\ reply \in [Conn -> Result] /\ result \in [Id -> Result]
  BY DEF OpCode, BlkOp, PC, InLibrary, Result
<1>5. /\ next_request_id \in 0 .. MaxId /\ id \in [Req -> 0 .. MaxId]
      /\ length \in [Req -> 0 .. MaxLen] /\ map_data \in [Req -> 0 .. MaxLen]
      /\ total_read \in [Conn -> Nat] /\ ended \in [Id -> Nat] /\ executed \in [Id -> Nat]
  BY ConstantsOK
<1>6. /\ rstate \in [Req -> {"free", "started", "ended", "dead"}]
      /\ sending \in [Conn -> Req \cup {None}] /\ request \in [Conn -> Req \cup {None}]
      /\ waiting \in [Conn -> SUBSET Req]
  OBVIOUS
<1> QED  BY <1>2, <1>3, <1>4, <1>5, <1>6 DEF TypeOK

USE DEF reqVars, libVars, endVars

\* list_add_tail keeps pending a list of requests.
LEMMA AppendType == ASSUME TypeOK, NEW r \in Req PROVE Append(pending, r) \in Seq(Req)
BY AppendToList DEF TypeOK

\* So does the list_del of its first entry.
LEMMA TailType ==
  ASSUME TypeOK, pending # <<>>
  PROVE  Head(pending) \in Req /\ Tail(pending) \in Seq(Req)
BY HeadTailProperties DEF TypeOK

\* Counting one more completion of an id.
LEMMA Bump ==
  ASSUME NEW I, NEW f \in [I -> Nat], NEW x
  PROVE  [f EXCEPT ![x] = @ + 1] \in [I -> Nat]
<1>1. \A y \in I : f[y] + 1 \in Nat
  OBVIOUS
<1> QED  BY <1>1

\* Whatever ends a request, the history keeps its type.
LEMMA EndType ==
  ASSUME TypeOK, NEW r \in Req, NEW res \in Result, on_request_end(r, res)
  PROVE  /\ rstate' \in [Req -> {"free", "started", "ended", "dead"}]
         /\ ended' \in [Id -> Nat]
         /\ result' \in [Id -> Result]
<1>1. /\ rstate \in [Req -> {"free", "started", "ended", "dead"}]
      /\ ended \in [Id -> Nat] /\ result \in [Id -> Result]
  BY DEF TypeOK
<1>2. ended' \in [Id -> Nat]
  BY <1>1, Bump DEF on_request_end
<1> QED  BY <1>1, <1>2 DEF on_request_end

\* The header is copied out, in full or in part.
LEMMA SendType ==
  ASSUME TypeOK, NEW c \in Conn, NEW short \in BOOLEAN, request[c] \in Req,
         bius_send_command(c, short)
  PROVE  TypeOK'
<1> DEFINE r == request[c]
           Header == [id : 0 .. MaxId, opcode : OpCode, length : 0 .. MaxLen]
<1>1. CASE Dead(r)
  BY <1>1 DEF TypeOK, bius_send_command
<1>2. CASE ~Dead(r)
  <2>0. /\ map_data \in [Req -> 0 .. MaxLen] /\ length \in [Req -> 0 .. MaxLen]
        /\ sending \in [Conn -> Req \cup {None}] /\ waiting \in [Conn -> SUBSET Req]
        /\ request \in [Conn -> Req \cup {None}] /\ total_read \in [Conn -> Nat]
    BY DEF TypeOK
  <2>1. map_data' \in [Req -> 0 .. MaxLen] /\ sending' \in [Conn -> Req \cup {None}]
    <3>1. CASE HasDataPhase(r)
      BY <1>2, <2>0, <3>1 DEF bius_send_command, StartSending
    <3>2. CASE ~HasDataPhase(r)
      BY <1>2, <2>0, <3>2 DEF bius_send_command, StartSending
    <3> QED  BY <3>1, <3>2
  <2>2. /\ waiting' \in [Conn -> SUBSET Req] /\ request' \in [Conn -> Req \cup {None}]
        /\ total_read' \in [Conn -> Nat]
    BY <1>2, <2>0 DEF bius_send_command
  <2>3. NoCmd \in Header /\ [id |-> id[r], opcode |-> type[r], length |-> length[r]] \in Header
    BY ConstantsOK DEF TypeOK, NoCmd, OpCode, BlkOp
  <2>4. k2u' \in [Conn -> Header]
    BY <1>2, <2>3 DEF TypeOK, bius_send_command
  <2>5. pc' \in [Conn -> PC] /\ exiting' \in BOOLEAN /\ oops' \in BOOLEAN
    BY <1>2 DEF TypeOK, bius_send_command, ExitFrom, Goto, PC, InLibrary, Closed
  <2> QED  BY <1>2, <2>1, <2>2, <2>4, <2>5 DEF TypeOK, bius_send_command
<1> QED  BY <1>1, <1>2

NewType(r, op, n) ==
  /\ next_request_id + 1 \in Id
  /\ next_request_id' \in 0 .. MaxId
  /\ id' \in [Req -> 0 .. MaxId]
  /\ type' \in [Req -> OpCode]
  /\ length' \in [Req -> 0 .. MaxLen]

\* A request that enters the driver gets an id within the bound.
LEMMA NewRequestType ==
  ASSUME TypeOK, NEW r \in Req, NEW op \in OpCode, NEW n \in 0 .. MaxLen, NewRequest(r, op, n)
  PROVE  NewType(r, op, n)
<1>1. /\ next_request_id \in 0 .. MaxId /\ id \in [Req -> 0 .. MaxId]
      /\ type \in [Req -> OpCode] /\ length \in [Req -> 0 .. MaxLen]
  BY DEF TypeOK
<1>2. next_request_id + 1 \in 1 .. MaxId
  BY <1>1, ConstantsOK DEF NewRequest
<1> QED  BY <1>1, <1>2 DEF NewType, NewRequest, Id

\* list_add_tail and what goes with it.
LEMMA AddPendingType ==
  ASSUME TypeOK, NEW r \in Req, next_request_id + 1 \in Id, AddPending(r)
  PROVE  /\ pending' \in Seq(Req) /\ wakers' \subseteq Id /\ oops' \in BOOLEAN
         /\ rstate' \in [Req -> {"free", "started", "ended", "dead"}]
         /\ ended' \in [Id -> Nat] /\ result' \in [Id -> Result]
<1>1. /\ pending' \in Seq(Req)
  BY AppendType DEF AddPending
<1> QED  BY <1>1 DEF AddPending, TypeOK

\* The types, one action after the other.
LEMMA TypeStep == TypeOK /\ Hands /\ [Next]_vars => TypeOK'
<1> SUFFICES ASSUME TypeOK, Hands, [Next]_vars PROVE TypeOK'
  OBVIOUS
<1> USE DEF TypeOK, Goto, At
<1> SUFFICES ASSUME Next PROVE TypeOK'
  BY DEF vars
<1>1. ASSUME NEW s \in Slot, NEW op \in Ops, NEW n \in 0 .. MaxLen, bius_queue_rq(s, op, n)
      PROVE  TypeOK'
  <2>1. NewType(s, op, n)
    BY <1>1, ConstantsOK, NewRequestType DEF bius_queue_rq, Req, OpCode
  <2>2. CASE op = "BIUS_INVALID_OP"
    <3>1. ended' \in [Id -> Nat] /\ result' \in [Id -> Result]
      <4>1. ended \in [Id -> Nat] /\ result \in [Id -> Result]
        OBVIOUS
      <4>2. /\ ended' = [ended EXCEPT ![next_request_id + 1] = @ + 1]
            /\ result' = [result EXCEPT ![next_request_id + 1] = "BLK_STS_NOTSUPP"]
        BY <1>1, <2>2 DEF bius_queue_rq, RejectOp
      <4>3. ended' \in [Id -> Nat]
        BY <4>1, <4>2, Bump
      <4> HIDE DEF TypeOK
      <4> QED  BY <4>1, <4>2, <4>3 DEF Result
    <3> QED  BY <1>1, <2>1, <2>2, <3>1 DEF bius_queue_rq, RejectOp, NewType
  <2>3. CASE op # "BIUS_INVALID_OP"
    BY <1>1, <2>1, <2>3, AddPendingType DEF bius_queue_rq, NewType, Req
  <2> QED  BY <2>2, <2>3
<1>2. ASSUME NEW p \in Reporter, bius_report_zones(p) PROVE TypeOK'
  <2>1. NewType(p, "BIUS_REPORT_ZONES", 0)
    <3>1. p \in Req /\ 0 \in 0 .. MaxLen /\ NewRequest(p, "BIUS_REPORT_ZONES", 0)
      BY <1>2, ConstantsOK DEF bius_report_zones, Req
    <3> HIDE DEF TypeOK
    <3> QED  BY <3>1, NewRequestType DEF OpCode
  <2> QED  BY <1>2, <2>1, AddPendingType DEF bius_report_zones, NewType, Req
<1>3. ASSUME NEW p \in Reporter, ReportReturn(p) \/ ReportKilled(p) PROVE TypeOK'
  BY <1>3 DEF ReportReturn, ReportKilled
<1>4. ASSUME NEW i \in Id, wake_up(i) PROVE TypeOK'
  BY <1>4 DEF wake_up, PC, InSyscall, Asleep
<1>5. ASSUME NEW c \in Conn, ThreadStep(c) PROVE TypeOK'
  <2>1. CASE handle_initialization(c)
    BY <2>1 DEF handle_initialization, PC, InSyscall
  <2>2. CASE Dequeue(c)
    BY <2>2, TailType DEF Dequeue, PC, InSyscall
  <2>3. CASE FoundEmpty(c) \/ WaitEvent(c)
    BY <2>3 DEF FoundEmpty, WaitEvent, PC, InSyscall
  <2>4. CASE bius_send_command(c, FALSE)
    <3>1. request[c] \in Req
      BY <2>4 DEF Hands, bius_send_command
    <3> QED  BY <2>4, <3>1, SendType
  <2>5. ASSUME NEW n \in 1 .. MaxLen, bius_send_data(c, n) PROVE TypeOK'
    <3>1. sending[c] \in Req /\ map_data[sending[c]] \in 0 .. MaxLen /\ total_read[c] \in Nat
      BY <2>5 DEF bius_send_data
    <3>2. map_data[sending[c]] - n \in 0 .. MaxLen /\ total_read[c] + n \in Nat
      <4>1. n \in 1 .. map_data[sending[c]]
        BY <2>5 DEF bius_send_data
      <4> HIDE DEF TypeOK
      <4> QED  BY <3>1, <4>1, ConstantsOK
    <3>3. map_data' \in [Req -> 0 .. MaxLen] /\ total_read' \in [Conn -> Nat]
      <4>1. /\ map_data' = [map_data EXCEPT ![sending[c]] = map_data[sending[c]] - n]
            /\ total_read' = [total_read EXCEPT ![c] = total_read[c] + n]
        BY <2>5 DEF bius_send_data
      <4>2. map_data \in [Req -> 0 .. MaxLen] /\ total_read \in [Conn -> Nat]
        OBVIOUS
      <4> HIDE DEF TypeOK
      <4> QED  BY <3>1, <3>2, <4>1, <4>2
    <3>4. pc' \in [Conn -> PC] /\ sending' \in [Conn -> Req \cup {None}]
      <4>1. /\ \E l \in {"copyin", "handle"} : pc' = [pc EXCEPT ![c] = l]
            /\ \E r \in Req \cup {None} : sending' = [sending EXCEPT ![c] = r]
        BY <2>5, <3>1 DEF bius_send_data
      <4>2. pc \in [Conn -> PC] /\ sending \in [Conn -> Req \cup {None}]
        OBVIOUS
      <4> HIDE DEF TypeOK
      <4> QED  BY <4>1, <4>2 DEF PC, InLibrary
    <3>5. UNCHANGED <<reqVars, pending, wakers, connected, waiting, request, k2u,
                      reply, exiting, oops, endVars, executed>>
      BY <2>5 DEF bius_send_data
    <3> QED  BY <3>3, <3>4, <3>5
  <2>6. ASSUME NEW res \in {"BLK_STS_OK", "ERR"}, handle_blk_command(c, res) PROVE TypeOK'
    <3>1. /\ reply' = [reply EXCEPT ![c] = res] /\ pc' = [pc EXCEPT ![c] = "reply"]
          /\ executed' = executed \/ executed' = [executed EXCEPT ![k2u[c].id] = @ + 1]
          /\ UNCHANGED <<reqVars, map_data, pending, wakers, connected, waiting, sending,
                         request, k2u, total_read, exiting, oops, endVars>>
      BY <2>6 DEF handle_blk_command
    <3>2. executed \in [Id -> Nat]
      OBVIOUS
    <3>3. executed' \in [Id -> Nat]
      <4> HIDE DEF TypeOK
      <4>1. [executed EXCEPT ![k2u[c].id] = @ + 1] \in [Id -> Nat]
        BY <3>2, Bump
      <4> QED  BY <3>1, <3>2, <4>1
    <3>4. reply' \in [Conn -> Result] /\ pc' \in [Conn -> PC]
      BY <3>1 DEF PC, InLibrary, Result
    <3> QED  BY <3>1, <3>3, <3>4
  <2>7. CASE get_request_by_id(c)
    <3>1. UNCHANGED <<waiting, sending, request>>
          \/ \E r \in waiting[c] :
               /\ waiting' = [waiting EXCEPT ![c] = @ \ {r}]
               /\ sending' = [sending EXCEPT ![c] = IF @ = r THEN None ELSE @]
               /\ request' = [request EXCEPT ![c] = r]
      BY <2>7 DEF get_request_by_id
    <3>2. /\ waiting' \in [Conn -> SUBSET Req] /\ sending' \in [Conn -> Req \cup {None}]
          /\ request' \in [Conn -> Req \cup {None}]
      <4>1. /\ waiting \in [Conn -> SUBSET Req] /\ sending \in [Conn -> Req \cup {None}]
            /\ request \in [Conn -> Req \cup {None}]
        OBVIOUS
      <4> HIDE DEF TypeOK
      <4> QED  BY <3>1, <4>1
    <3>3. pc' \in [Conn -> PC] /\ exiting' \in BOOLEAN /\ oops' \in BOOLEAN
      BY <2>7 DEF get_request_by_id, ExitFrom, PC, InSyscall, Closed
    <3> QED  BY <2>7, <3>2, <3>3 DEF get_request_by_id
  <2>8. CASE FinishReply(c)
    <3>1. request[c] \in Req
      BY <2>8 DEF Hands, FinishReply
    <3>2. UNCHANGED <<reqVars, map_data, pending, wakers, connected, waiting, sending,
                      libVars, exiting, executed>>
      BY <2>8 DEF FinishReply
    <3>3. CASE Dead(request[c])
      <4>1. oops' = TRUE /\ UNCHANGED <<request, pc, endVars>>
        BY <2>8, <3>3 DEF FinishReply
      <4> QED  BY <3>2, <4>1
    <3>4. CASE ~Dead(request[c])
      <4>1. /\ request' = [request EXCEPT ![c] = None]
            /\ pc' = [pc EXCEPT ![c] = "read"] /\ UNCHANGED oops
        BY <2>8, <3>4 DEF FinishReply
      <4>2. \E res \in Result : on_request_end(request[c], res)
        <5>1. reply[c] \in Result /\ "GARBAGE" \in Result
          BY DEF Result
        <5> QED  BY <2>8, <3>4, <5>1 DEF FinishReply, end_blk_request, end_request_int
      <4>3. /\ rstate' \in [Req -> {"free", "started", "ended", "dead"}]
            /\ ended' \in [Id -> Nat] /\ result' \in [Id -> Result]
        BY <3>1, <4>2, EndType
      <4>4. request' \in [Conn -> Req \cup {None}] /\ pc' \in [Conn -> PC]
        BY <4>1 DEF PC, InSyscall
      <4> QED  BY <3>2, <4>1, <4>3, <4>4
    <3> QED  BY <3>3, <3>4
  <2> QED  BY <1>5, <2>1, <2>2, <2>3, <2>4, <2>5, <2>6, <2>7, <2>8 DEF ThreadStep
<1>6. ASSUME NEW c \in Conn, ExitStep(c) PROVE TypeOK'
  <2>1. CASE Die(c) \/ ReleaseDrop(c) \/ RemoveDone(c)
    BY <2>1 DEF Die, ReleaseDrop, RemoveDone, PC, Closed
  <2>2. CASE ReleaseWalk(c)
    <3>1. PICK r \in waiting[c] :
            \/ oops' = TRUE /\ UNCHANGED <<endVars, waiting, pc>>
            \/ /\ end_blk_request(r, "BLK_STS_IOERR")
               /\ waiting' = [waiting EXCEPT ![c] = @ \ {r}]
               /\ pc' = [pc EXCEPT ![c] = "walk"]
               /\ UNCHANGED oops
      BY <2>2 DEF ReleaseWalk
    <3>2. /\ rstate' \in [Req -> {"free", "started", "ended", "dead"}]
          /\ ended' \in [Id -> Nat] /\ result' \in [Id -> Result]
      <4>1. UNCHANGED <<rstate, ended, result>> \/ \E res \in Result : on_request_end(r, res)
        BY <3>1 DEF end_blk_request, Result
      <4>2. r \in Req
        OBVIOUS
      <4> QED  BY <4>1, <4>2, EndType
    <3>3. pc' \in [Conn -> PC] /\ oops' \in BOOLEAN
      BY <3>1 DEF PC, Closed
    <3>4. waiting' \in [Conn -> SUBSET Req]
      <4>1. waiting \in [Conn -> SUBSET Req]
        OBVIOUS
      <4> HIDE DEF TypeOK
      <4> QED  BY <3>1, <4>1
    <3> QED  BY <2>2, <3>2, <3>3, <3>4 DEF ReleaseWalk
  <2>3. CASE remove_block_device(c)
    BY <2>3, EndType, TailType DEF remove_block_device, Result
  <2> QED  BY <1>6, <2>1, <2>2, <2>3 DEF ExitStep
<1>7. ASSUME NEW c \in Conn, FaultStep(c) PROVE TypeOK'
  <2>1. CASE Interrupted(c) \/ SendDataFailed(c) \/ ReplyLost(c)
    BY <2>1 DEF Interrupted, SendDataFailed, ReplyLost, ExitFrom, PC, InSyscall, Closed
  <2>2. CASE bius_send_command(c, TRUE)
    <3>1. request[c] \in Req
      BY <2>2 DEF Hands, bius_send_command
    <3> QED  BY <2>2, <3>1, SendType
  <2>3. CASE SendCommandFailed(c)
    <3>1. request[c] \in Req
      BY <2>3 DEF Hands, SendCommandFailed
    <3>2. /\ rstate' \in [Req -> {"free", "started", "ended", "dead"}]
          /\ ended' \in [Id -> Nat] /\ result' \in [Id -> Result]
      BY <2>3, <3>1, EndType DEF SendCommandFailed, end_blk_request, Result
    <3>3. UNCHANGED <<reqVars, pending, wakers, connected, waiting, libVars, exiting, executed>>
      BY <2>3 DEF SendCommandFailed
    <3>4. CASE Dead(request[c])
      <4>1. oops' = TRUE /\ UNCHANGED <<map_data, sending, request, pc>>
        BY <2>3, <3>4 DEF SendCommandFailed
      <4> QED  BY <3>2, <3>3, <4>1
    <3>5. CASE ~Dead(request[c])
      <4>1. /\ \E n \in 0 .. MaxLen : map_data' = [map_data EXCEPT ![request[c]] = n]
            /\ sending' = [sending EXCEPT ![c] = None]
            /\ request' = [request EXCEPT ![c] = None]
            /\ pc' = [pc EXCEPT ![c] = "handle"] /\ UNCHANGED oops
        <5>1. length[request[c]] \in 0 .. MaxLen /\ map_data[request[c]] \in 0 .. MaxLen
          BY <3>1
        <5> HIDE DEF TypeOK
        <5> QED  BY <2>3, <3>5, <5>1 DEF SendCommandFailed
      <4>2. map_data' \in [Req -> 0 .. MaxLen]
        BY <4>1
      <4>3. /\ sending' \in [Conn -> Req \cup {None}] /\ request' \in [Conn -> Req \cup {None}]
            /\ pc' \in [Conn -> PC]
        BY <4>1 DEF PC, InLibrary
      <4> QED  BY <3>2, <3>3, <4>1, <4>2, <4>3
    <3> QED  BY <3>4, <3>5
  <2>4. CASE FinishFailed(c)
    <3>1. request[c] \in Req
      BY <2>4 DEF Hands, FinishFailed
    <3>2. UNCHANGED <<reqVars, map_data, pending, wakers, connected, waiting, sending,
                      libVars, oops, executed>>
      BY <2>4 DEF FinishFailed
    <3>3. /\ request' = [request EXCEPT ![c] = None] /\ exiting' \in BOOLEAN
          /\ \E l \in {"stop", "read"} : pc' = [pc EXCEPT ![c] = l]
      BY <2>4 DEF FinishFailed, ExitFrom
    <3>4. \E res \in Result : on_request_end(request[c], res)
      <4>1. {"BLK_STS_IOERR", "ERR", "GARBAGE"} \subseteq Result
        BY DEF Result
      <4> QED  BY <2>4, <4>1 DEF FinishFailed, end_blk_request, end_request_int
    <3>5. /\ rstate' \in [Req -> {"free", "started", "ended", "dead"}]
          /\ ended' \in [Id -> Nat] /\ result' \in [Id -> Result]
      BY <3>1, <3>4, EndType
    <3>6. request' \in [Conn -> Req \cup {None}] /\ pc' \in [Conn -> PC]
      BY <3>3 DEF PC, InSyscall, Closed
    <3> QED  BY <3>2, <3>3, <3>5, <3>6
  <2> QED  BY <1>7, <2>1, <2>2, <2>3, <2>4 DEF FaultStep
<1>8. CASE Exit
  BY <1>8 DEF Exit
<1> QED  BY <1>1, <1>2, <1>3, <1>4, <1>5, <1>6, <1>7, <1>8 DEF Next

-----------------------------------------------------------------------------
(* The ledger: where every open request is                                 *)

\* Before anything is queued every list and every hand is empty.
LEMMA InitLedger == Init => Ledger
<1> SUFFICES ASSUME Init PROVE Ledger
  OBVIOUS
<1>1. Range(pending) = {} /\ IsInjective(pending)
  BY DEF Init, Range, IsInjective
<1>2. \A c \in Conn : Held(c) = {}
  BY DEF Init, Held
<1>3. Linked = {}
  BY <1>1, <1>2 DEF Linked
<1>4. OnePlace
  BY <1>1, <1>2 DEF OnePlace, Init
<1>5. Hands /\ Accounts /\ EndedOnce /\ NoLostRequest
  BY <1>3 DEF Hands, Accounts, EndedOnce, NoLostRequest, Init
<1> QED  BY <1>4, <1>5 DEF Ledger

\* A step that moves requests at most between the two hands of a connection.
LEMMA LedgerStay ==
  ASSUME TypeOK, Ledger, Hands',
         UNCHANGED <<next_request_id, id, ended, pending>>,
         \A c \in Conn : Held(c)' = Held(c) /\ request'[c] \notin waiting'[c],
         \A r \in Linked : rstate'[r] \in {"started", "dead"}
  PROVE  Ledger'
<1>1. Linked' = Linked
  BY DEF Linked
<1>2. OnePlace'
  BY DEF Ledger, OnePlace
<1>3. Accounts'
  BY <1>1 DEF Ledger, Accounts
<1>4. EndedOnce' /\ NoLostRequest'
  BY <1>1 DEF Ledger, EndedOnce, NoLostRequest
<1> QED  BY <1>2, <1>3, <1>4 DEF Ledger

\* A step that leaves the lists and the hands alone.
LEMMA LedgerSame ==
  ASSUME TypeOK, Ledger, Hands',
         UNCHANGED <<next_request_id, id, ended, pending, waiting, request>>,
         \A r \in Linked : rstate'[r] \in {"started", "dead"}
  PROVE  Ledger'
<1>1. \A c \in Conn : Held(c)' = Held(c) /\ request'[c] \notin waiting'[c]
  BY DEF Held, Ledger, OnePlace
<1> QED  BY <1>1, LedgerStay

\* A step that ends a request and takes it off its list or out of the hand.
LEMMA LedgerEnd ==
  ASSUME TypeOK, Ledger, Hands', OnePlace',
         NEW r \in Linked, NEW res, on_request_end(r, res), r \in Req,
         UNCHANGED <<next_request_id, id>>, Linked' = Linked \ {r}
  PROVE  Ledger'
<1>1. /\ id[r] \in 1 .. next_request_id /\ ended[id[r]] = 0
      /\ \A q \in Linked : id[q] = id[r] => q = r
  BY DEF Ledger, Accounts
<1>2. next_request_id \in 0 .. MaxId /\ ended \in [Id -> Nat] /\ id[r] \in Id
  <2>1. next_request_id \in 0 .. MaxId /\ ended \in [Id -> Nat]
    BY DEF TypeOK
  <2> QED  BY <1>1, <2>1, ConstantsOK DEF Id
<1>3. /\ ended'[id[r]] = 1
      /\ \A i \in Id : i # id[r] => ended'[i] = ended[i]
  BY <1>1, <1>2 DEF on_request_end
<1>4. \A q \in Linked' : rstate'[q] = rstate[q]
  BY DEF on_request_end, TypeOK
<1>5. Accounts'
  <2>1. \A q \in Linked' : rstate'[q] \in {"started", "dead"} /\ id[q] \in 1 .. next_request_id
    BY <1>4 DEF Ledger, Accounts
  <2>2. \A q \in Linked' : ended'[id[q]] = 0
    BY <2>1, <1>1, <1>2, <1>3, ConstantsOK DEF Ledger, Accounts, Id
  <2>3. \A i \in Id : i > next_request_id => ended'[i] = 0
    BY <1>1, <1>2, <1>3 DEF Ledger, Accounts, Id
  <2> QED  BY <2>1, <2>2, <2>3 DEF Ledger, Accounts
<1>6. EndedOnce'
  BY <1>2, <1>3 DEF Ledger, EndedOnce
<1>7. NoLostRequest'
  BY <1>2, <1>3, ConstantsOK DEF Ledger, NoLostRequest, Id
<1> QED  BY <1>5, <1>6, <1>7 DEF Ledger

\* A request the driver refuses is ended under its own id.
LEMMA LedgerReject ==
  ASSUME TypeOK, Ledger, NEW s \in Req, s \notin Linked, NEW op, NEW n,
         NewRequest(s, op, n), RejectOp, UNCHANGED <<waiting, request, pc>>
  PROVE  Ledger'
<1>1. /\ next_request_id \in 0 .. MaxId /\ next_request_id + 1 \in Id /\ ended \in [Id -> Nat]
      /\ id \in [Req -> 0 .. MaxId]
  BY ConstantsOK DEF TypeOK, NewRequest, Id
<1>2. /\ ended[next_request_id + 1] = 0 /\ ended'[next_request_id + 1] = 1
      /\ \A i \in Id : i # next_request_id + 1 => ended'[i] = ended[i]
  BY <1>1 DEF Ledger, Accounts, RejectOp
<1>3. Linked' = Linked /\ UNCHANGED pending
  BY DEF Linked, Held, RejectOp
<1>4. \A r \in Linked : id'[r] = id[r] /\ rstate'[r] = rstate[r]
  BY DEF NewRequest, TypeOK, RejectOp
<1>5. OnePlace' /\ Hands'
  BY <1>3 DEF Ledger, OnePlace, Hands, Held
<1>6. Accounts'
  <2>1. \A r \in Linked : /\ rstate'[r] \in {"started", "dead"} /\ id'[r] \in 1 .. next_request_id
                          /\ ended'[id'[r]] = 0
    <3>1. \A r \in Linked : /\ rstate[r] \in {"started", "dead"} /\ id[r] \in 1 .. next_request_id
                            /\ ended[id[r]] = 0 /\ id[r] \in Id /\ id[r] # next_request_id + 1
      BY <1>1, ConstantsOK DEF Ledger, Accounts, Id
    <3> QED  BY <3>1, <1>2, <1>4
  <2>2. \A i \in Id : i > next_request_id + 1 => ended'[i] = 0
    BY <1>1, <1>2 DEF Ledger, Accounts, Id
  <2> QED  BY <1>1, <1>3, <1>4, <2>1, <2>2 DEF Ledger, Accounts, NewRequest
<1>7. EndedOnce'
  BY <1>1, <1>2 DEF Ledger, EndedOnce
<1>8. NoLostRequest'
  <2>1. next_request_id' = next_request_id + 1
    BY DEF NewRequest
  <2>2. ASSUME NEW i \in 1 .. next_request_id', ended'[i] = 0 PROVE \E r \in Linked' : id'[r] = i
    <3>1. i \in 1 .. next_request_id /\ i \in Id /\ ended[i] = 0
      BY <1>1, <1>2, <2>1, <2>2, ConstantsOK DEF Id
    <3> QED  BY <3>1, <1>3, <1>4 DEF Ledger, NoLostRequest
  <2> QED  BY <2>2 DEF NoLostRequest
<1> QED  BY <1>5, <1>6, <1>7, <1>8 DEF Ledger

\* A request that joins the pending list was on no list and has a fresh id.
LEMMA LedgerAdd ==
  ASSUME TypeOK, Ledger, NEW r \in Req, r \notin Linked, NEW op, NEW n,
         NewRequest(r, op, n), AddPending(r), UNCHANGED <<waiting, request, pc>>
  PROVE  Ledger'
<1>1. /\ next_request_id \in 0 .. MaxId /\ next_request_id + 1 \in Id /\ ended \in [Id -> Nat]
      /\ id \in [Req -> 0 .. MaxId] /\ pending \in Seq(Req)
  BY ConstantsOK DEF TypeOK, NewRequest, Id
<1>2. ended[next_request_id + 1] = 0 /\ UNCHANGED ended
  BY <1>1 DEF Ledger, Accounts, AddPending
<1>3. Range(pending') = Range(pending) \cup {r} /\ IsInjective(pending')
  BY <1>1, AppendToList DEF AddPending, Linked, Ledger, OnePlace
<1>4. Linked' = Linked \cup {r} /\ \A c \in Conn : Held(c)' = Held(c) /\ r \notin Held(c)
  <2>1. \A c \in Conn : Held(c)' = Held(c)
    BY DEF Held
  <2>2. \A c \in Conn : r \notin Held(c)
    BY DEF Linked
  <2>3. Linked' = Range(pending') \cup UNION {Held(c) : c \in Conn}
    BY <2>1 DEF Linked
  <2> QED  BY <1>3, <2>1, <2>2, <2>3 DEF Linked
<1>5. /\ \A q \in Linked : id'[q] = id[q] /\ rstate'[q] = rstate[q]
      /\ id'[r] = next_request_id + 1 /\ rstate'[r] = "started"
  <2>1. /\ id' = [id EXCEPT ![r] = next_request_id + 1]
        /\ rstate' = [rstate EXCEPT ![r] = "started"]
    BY DEF NewRequest, AddPending
  <2>2. DOMAIN id = Req /\ DOMAIN rstate = Req
    BY DEF TypeOK
  <2> QED  BY <2>1, <2>2
<1>6. OnePlace'
  BY <1>3, <1>4 DEF Ledger, OnePlace
<1>7. Hands'
  BY DEF Ledger, Hands
<1>8. Accounts'
  <2>1. \A q \in Linked : /\ rstate'[q] \in {"started", "dead"} /\ id'[q] \in 1 .. next_request_id
                          /\ ended'[id'[q]] = 0
    BY <1>1, <1>2, <1>5 DEF Ledger, Accounts
  <2>2. \A i \in Id : i > next_request_id + 1 => ended'[i] = 0
    BY <1>1, <1>2 DEF Ledger, Accounts, Id
  <2>3. next_request_id' = next_request_id + 1
    BY DEF NewRequest
  <2> QED  BY <1>1, <1>2, <1>4, <1>5, <2>1, <2>2, <2>3 DEF Ledger, Accounts
<1>9. EndedOnce' /\ NoLostRequest'
  BY <1>1, <1>2, <1>4, <1>5 DEF Ledger, EndedOnce, NoLostRequest, NewRequest
<1> QED  BY <1>6, <1>7, <1>8, <1>9 DEF Ledger

\* An ended request leaves the connection that held it.
LEMMA EndHeld ==
  ASSUME TypeOK, Ledger, Hands', NEW c \in Conn, NEW r \in Held(c), NEW res, on_request_end(r, res),
         UNCHANGED <<next_request_id, id, pending>>,
         \A d \in Conn : Held(d)' = IF d = c THEN Held(d) \ {r} ELSE Held(d),
         \A d \in Conn : request'[d] \notin waiting'[d]
  PROVE  Ledger'
<1>1. r \in Linked /\ r \in Req
  BY DEF Linked, Held, TypeOK
<1>2. Linked' = Linked \ {r}
  BY DEF Linked, Ledger, OnePlace
<1>3. OnePlace'
  BY DEF Ledger, OnePlace
<1> QED  BY <1>1, <1>2, <1>3, LedgerEnd

\* The request a syscall holds is ended and the syscall lets go of it.
LEMMA HandEnds ==
  ASSUME TypeOK, Ledger, NEW c \in Conn, pc[c] \in {"send", "finish"},
         \E res : on_request_end(request[c], res),
         request' = [request EXCEPT ![c] = None],
         \E l \in {"read", "handle", "stop"} : pc' = [pc EXCEPT ![c] = l],
         UNCHANGED <<next_request_id, id, pending, waiting>>
  PROVE  Ledger'
<1>1. /\ waiting \in [Conn -> SUBSET Req] /\ request \in [Conn -> Req \cup {None}]
      /\ pc \in [Conn -> PC] /\ None \notin Req
  BY ConstantsOK DEF TypeOK
<1>2. /\ request[c] \in Held(c) /\ request[c] # None
      /\ \A d \in Conn : request[d] # None <=> pc[d] \in {"send", "finish"}
  BY DEF Held, Ledger, Hands
<1>3. Hands'
  BY <1>1, <1>2 DEF Hands
<1>4. /\ \A d \in Conn : Held(d)' = IF d = c THEN Held(d) \ {request[c]} ELSE Held(d)
      /\ \A d \in Conn : request'[d] \notin waiting'[d]
  BY <1>1, <1>2 DEF Held, Ledger, OnePlace
<1> QED  BY <1>2, <1>3, <1>4, EndHeld

\* bius_send_command moves the request from the hand to waiting_requests.
LEMMA SendLedger ==
  ASSUME TypeOK, Ledger, NEW c \in Conn, NEW short \in BOOLEAN, bius_send_command(c, short)
  PROVE  Ledger'
<1>1. /\ waiting \in [Conn -> SUBSET Req] /\ request \in [Conn -> Req \cup {None}]
      /\ pc \in [Conn -> PC] /\ None \notin Req
  BY ConstantsOK DEF TypeOK
<1>2. /\ pc[c] = "send" /\ request[c] # None
      /\ \A d \in Conn : request[d] # None <=> pc[d] \in {"send", "finish"}
      /\ \A r \in Linked : rstate[r] \in {"started", "dead"}
      /\ UNCHANGED <<next_request_id, id, ended, pending, rstate>>
  BY DEF bius_send_command, At, Ledger, Hands, Accounts
<1>3. CASE Dead(request[c])
  <2>1. Hands' /\ UNCHANGED <<waiting, request>>
    BY <1>2, <1>3 DEF bius_send_command, Hands
  <2> QED  BY <1>2, <2>1, LedgerSame
<1>4. CASE ~Dead(request[c])
  <2>1. /\ waiting' = [waiting EXCEPT ![c] = @ \cup {request[c]}]
        /\ request' = [request EXCEPT ![c] = None]
        /\ \E l \in {"stop", "copyin", "handle"} : pc' = [pc EXCEPT ![c] = l]
    BY <1>4 DEF bius_send_command, ExitFrom, Goto
  <2>2. Hands'
    BY <2>1, <1>1, <1>2 DEF Hands
  <2>3. \A d \in Conn : Held(d)' = Held(d) /\ request'[d] \notin waiting'[d]
    BY <2>1, <1>1, <1>2 DEF Held, Ledger, OnePlace
  <2> QED  BY <1>2, <2>2, <2>3, LedgerStay
<1> QED  BY <1>3, <1>4

\* The ledger, one action after the other.
LEMMA LedgerStep == TypeOK /\ Ledger /\ [Next]_vars => Ledger'
<1> SUFFICES ASSUME TypeOK, Ledger, [Next]_vars PROVE Ledger'
  OBVIOUS
<1> USE DEF Goto, At
<1>l. \A r \in Linked : rstate[r] \in {"started", "dead"}
  BY DEF Ledger, Accounts
<1>t. /\ waiting \in [Conn -> SUBSET Req] /\ request \in [Conn -> Req \cup {None}]
      /\ pc \in [Conn -> PC] /\ pending \in Seq(Req) /\ None \notin Req
      /\ rstate \in [Req -> {"free", "started", "ended", "dead"}]
  BY ConstantsOK DEF TypeOK
<1>h. \A c \in Conn : request[c] # None <=> pc[c] \in {"send", "finish"}
  BY DEF Ledger, Hands
<1>0. CASE UNCHANGED vars
  <2>1. Hands'
    BY <1>0, <1>h DEF Hands, vars
  <2> QED  BY <1>0, <1>l, <2>1, LedgerSame DEF vars
<1>1. ASSUME NEW s \in Slot, NEW op \in Ops, NEW n \in 0 .. MaxLen, bius_queue_rq(s, op, n)
      PROVE  Ledger'
  <2>1. s \in Req /\ s \notin Linked
    BY <1>1, <1>l DEF bius_queue_rq, Req
  <2>2. CASE op = "BIUS_INVALID_OP"
    BY <1>1, <2>1, <2>2, LedgerReject DEF bius_queue_rq
  <2>3. CASE op # "BIUS_INVALID_OP"
    BY <1>1, <2>1, <2>3, LedgerAdd DEF bius_queue_rq
  <2> QED  BY <2>2, <2>3
<1>2. ASSUME NEW p \in Reporter, bius_report_zones(p) PROVE Ledger'
  <2>1. p \in Req /\ p \notin Linked
    BY <1>2, <1>l DEF bius_report_zones, Req
  <2> QED  BY <1>2, <2>1, LedgerAdd DEF bius_report_zones
<1>3. ASSUME NEW p \in Reporter, ReportReturn(p) \/ ReportKilled(p) PROVE Ledger'
  <2>1. Hands' /\ \A r \in Linked : rstate'[r] \in {"started", "dead"}
    <3>1. \A r \in Linked : r \in Req
      BY <1>t DEF Linked, Held, Range
    <3> QED  BY <1>3, <1>h, <1>l, <1>t, <3>1 DEF ReportReturn, ReportKilled, Hands
  <2> QED  BY <1>3, <2>1, LedgerSame DEF ReportReturn, ReportKilled
<1>4. ASSUME NEW i \in Id, wake_up(i) PROVE Ledger'
  <2>1. Hands'
    BY <1>4, <1>h, <1>t DEF wake_up, Asleep, Hands
  <2> QED  BY <1>4, <1>l, <2>1, LedgerSame DEF wake_up
<1>5. ASSUME NEW c \in Conn, ThreadStep(c) PROVE Ledger'
  <2>1. CASE handle_initialization(c)
    <3>1. Hands'
      BY <2>1, <1>h, <1>t DEF handle_initialization, Hands
    <3> QED  BY <2>1, <1>l, <3>1, LedgerSame DEF handle_initialization
  <2>2. CASE Dequeue(c)
    <3>1. CASE UNCHANGED <<pending, request, pc>>
      <4>1. Hands'
        BY <3>1, <1>h DEF Hands
      <4> QED  BY <2>2, <3>1, <1>l, <4>1, LedgerSame DEF Dequeue
    <3>2. CASE ~UNCHANGED <<pending, request, pc>>
      <4> DEFINE r == Head(pending)
      <4>1. /\ request' = [request EXCEPT ![c] = r] /\ pending' = Tail(pending)
            /\ pc' = [pc EXCEPT ![c] = "send"] /\ pending # <<>> /\ request[c] = None
            /\ UNCHANGED <<waiting, next_request_id, id, ended, rstate>>
        BY <2>2, <3>2, <1>h DEF Dequeue
      <4>2. /\ r \in Req /\ r \in Range(pending)
            /\ Range(pending') = Range(pending) \ {r} /\ IsInjective(pending')
        BY <4>1, <1>t, TakeFromList DEF Ledger, OnePlace
      <4>3. \A d \in Conn : Held(d)' = IF d = c THEN Held(d) \cup {r} ELSE Held(d)
        BY <4>1, <4>2, <1>t DEF Held
      <4>4. Linked' = Linked
        BY <4>2, <4>3 DEF Linked
      <4>5. \A d \in Conn : request'[d] \notin waiting'[d] /\ Held(d)' \cap Range(pending') = {}
        BY <4>1, <4>2, <4>3, <1>t DEF Ledger, OnePlace, Held
      <4>6. \A d, e \in Conn : d # e => Held(d)' \cap Held(e)' = {}
        BY <4>2, <4>3 DEF Ledger, OnePlace
      <4>7. Hands'
        BY <4>1, <4>2, <1>h, <1>t DEF Hands
      <4>8. Accounts' /\ EndedOnce' /\ NoLostRequest'
        BY <4>1, <4>4 DEF Ledger, Accounts, EndedOnce, NoLostRequest
      <4> QED  BY <4>2, <4>5, <4>6, <4>7, <4>8 DEF Ledger, OnePlace
    <3> QED  BY <3>1, <3>2
  <2>3. CASE FoundEmpty(c) \/ WaitEvent(c)
    <3>1. Hands'
      BY <2>3, <1>h, <1>t DEF FoundEmpty, WaitEvent, Hands
    <3> QED  BY <2>3, <1>l, <3>1, LedgerSame DEF FoundEmpty, WaitEvent
  <2>4. CASE bius_send_command(c, FALSE)
    BY <2>4, <1>l, SendLedger
  <2>5. ASSUME NEW n \in 1 .. MaxLen, bius_send_data(c, n) PROVE Ledger'
    <3>1. Hands'
      BY <2>5, <1>h, <1>t DEF bius_send_data, Hands
    <3> QED  BY <2>5, <1>l, <3>1, LedgerSame DEF bius_send_data
  <2>6. ASSUME NEW res \in {"BLK_STS_OK", "ERR"}, handle_blk_command(c, res) PROVE Ledger'
    <3>1. Hands'
      BY <2>6, <1>h, <1>t DEF handle_blk_command, Hands
    <3> QED  BY <2>6, <1>l, <3>1, LedgerSame DEF handle_blk_command
  <2>7. CASE get_request_by_id(c)
    <3>1. request[c] = None /\ UNCHANGED <<next_request_id, id, ended, pending, rstate>>
      BY <2>7, <1>h DEF get_request_by_id
    <3>2. CASE UNCHANGED <<waiting, request>> /\ pc' \in {pc, [pc EXCEPT ![c] = "stop"]}
      <4>1. Hands'
        BY <3>1, <3>2, <1>h, <1>t DEF Hands
      <4> QED  BY <3>1, <3>2, <1>l, <4>1, LedgerSame
    <3>3. CASE \E r \in waiting[c] :
                 /\ waiting' = [waiting EXCEPT ![c] = @ \ {r}]
                 /\ request' = [request EXCEPT ![c] = r]
                 /\ pc' = [pc EXCEPT ![c] = "finish"]
      <4>1. PICK r \in waiting[c] :
                 /\ waiting' = [waiting EXCEPT ![c] = @ \ {r}]
                 /\ request' = [request EXCEPT ![c] = r]
                 /\ pc' = [pc EXCEPT ![c] = "finish"]
        BY <3>3
      <4>2. Hands'
        BY <3>1, <4>1, <1>h, <1>t DEF Hands
      <4>3. \A d \in Conn : Held(d)' = Held(d) /\ request'[d] \notin waiting'[d]
        BY <3>1, <4>1, <1>t DEF Held, Ledger, OnePlace
      <4> QED  BY <3>1, <1>l, <4>2, <4>3, LedgerStay
    <3> QED  BY <2>7, <3>2, <3>3 DEF get_request_by_id, ExitFrom
  <2>8. CASE FinishReply(c)
    <3>1. CASE Dead(request[c])
      <4>1. Hands'
        BY <2>8, <3>1, <1>h, <1>t DEF FinishReply, Hands
      <4> QED  BY <2>8, <3>1, <1>l, <4>1, LedgerSame DEF FinishReply
    <3>2. CASE ~Dead(request[c])
      <4>1. \E res : on_request_end(request[c], res)
        BY <2>8, <3>2 DEF FinishReply, end_blk_request, end_request_int
      <4> QED  BY <2>8, <3>2, <4>1, HandEnds DEF FinishReply
    <3> QED  BY <3>1, <3>2
  <2> QED  BY <1>5, <2>1, <2>2, <2>3, <2>4, <2>5, <2>6, <2>7, <2>8 DEF ThreadStep
<1>6. ASSUME NEW c \in Conn, ExitStep(c) PROVE Ledger'
  <2>1. CASE Die(c) \/ ReleaseDrop(c) \/ RemoveDone(c)
    <3>1. Hands'
      BY <2>1, <1>h, <1>t DEF Die, InLibrary, ReleaseDrop, Closing, RemoveDone, Hands
    <3> QED  BY <2>1, <1>l, <3>1, LedgerSame DEF Die, ReleaseDrop, RemoveDone
  <2>2. CASE ReleaseWalk(c)
    <3>1. PICK r \in waiting[c] :
            \/ UNCHANGED <<endVars, waiting, pc>>
            \/ /\ end_blk_request(r, "BLK_STS_IOERR")
               /\ waiting' = [waiting EXCEPT ![c] = @ \ {r}]
               /\ pc' = [pc EXCEPT ![c] = "walk"]
      BY <2>2 DEF ReleaseWalk
    <3>2. /\ pc[c] \in {"stop", "walk"} /\ request[c] = None
          /\ UNCHANGED <<next_request_id, id, pending, request>>
      BY <2>2, <1>h DEF ReleaseWalk, Closing
    <3>3. Hands'
      BY <3>1, <3>2, <1>h, <1>t DEF Hands
    <3>4. CASE UNCHANGED <<endVars, waiting, pc>>
      BY <3>2, <3>3, <3>4, <1>l, LedgerSame
    <3>5. CASE /\ end_blk_request(r, "BLK_STS_IOERR")
               /\ waiting' = [waiting EXCEPT ![c] = @ \ {r}]
      <4>1. \E res : on_request_end(r, res)
        BY <3>5 DEF end_blk_request
      <4>2. /\ r \in Held(c)
            /\ \A d \in Conn : Held(d)' = IF d = c THEN Held(d) \ {r} ELSE Held(d)
            /\ \A d \in Conn : request'[d] \notin waiting'[d]
        BY <3>2, <3>5, <1>t DEF Held, Ledger, OnePlace
      <4> QED  BY <3>2, <3>3, <4>1, <4>2, EndHeld
    <3> QED  BY <3>1, <3>4, <3>5
  <2>3. CASE remove_block_device(c)
    <3>1. UNCHANGED <<next_request_id, id, waiting, request, pc>> /\ pending # <<>>
      BY <2>3 DEF remove_block_device
    <3>2. Hands'
      BY <3>1, <1>h DEF Hands
    <3>3. CASE UNCHANGED <<endVars, pending>>
      BY <3>1, <3>2, <3>3, <1>l, LedgerSame
    <3>4. CASE on_request_end(Head(pending), "BLK_STS_IOERR") /\ pending' = Tail(pending)
      <4> DEFINE r == Head(pending)
      <4>1. /\ r \in Req /\ r \in Range(pending)
            /\ Range(pending') = Range(pending) \ {r} /\ IsInjective(pending')
        BY <3>1, <3>4, <1>t, TakeFromList DEF Ledger, OnePlace
      <4>2. \A d \in Conn : Held(d)' = Held(d) /\ r \notin Held(d)
        BY <3>1, <4>1 DEF Held, Ledger, OnePlace
      <4>3. r \in Linked /\ Linked' = Linked \ {r}
        BY <4>1, <4>2 DEF Linked
      <4>4. OnePlace'
        BY <3>1, <4>1, <4>2 DEF Ledger, OnePlace
      <4> QED  BY <3>1, <3>2, <3>4, <4>1, <4>3, <4>4, LedgerEnd
    <3> QED  BY <2>3, <3>3, <3>4 DEF remove_block_device
  <2> QED  BY <1>6, <2>1, <2>2, <2>3 DEF ExitStep
<1>7. ASSUME NEW c \in Conn, FaultStep(c) PROVE Ledger'
  <2>1. CASE Interrupted(c) \/ SendDataFailed(c) \/ ReplyLost(c)
    <3>1. Hands'
      BY <2>1, <1>h, <1>t DEF Interrupted, SendDataFailed, ReplyLost, ExitFrom, Hands
    <3> QED  BY <2>1, <1>l, <3>1, LedgerSame DEF Interrupted, SendDataFailed, ReplyLost
  <2>2. CASE bius_send_command(c, TRUE)
    BY <2>2, <1>l, SendLedger
  <2>3. CASE SendCommandFailed(c)
    <3>1. CASE Dead(request[c])
      <4>1. Hands'
        BY <2>3, <3>1, <1>h, <1>t DEF SendCommandFailed, Hands
      <4> QED  BY <2>3, <3>1, <1>l, <4>1, LedgerSame DEF SendCommandFailed
    <3>2. CASE ~Dead(request[c])
      <4>1. \E res : on_request_end(request[c], res)
        BY <2>3, <3>2 DEF SendCommandFailed, end_blk_request
      <4> QED  BY <2>3, <3>2, <4>1, HandEnds DEF SendCommandFailed
    <3> QED  BY <3>1, <3>2
  <2>4. CASE FinishFailed(c)
    <3>1. \E res : on_request_end(request[c], res)
      BY <2>4 DEF FinishFailed, end_blk_request, end_request_int
    <3> QED  BY <2>4, <3>1, HandEnds DEF FinishFailed, ExitFrom
  <2> QED  BY <1>7, <2>1, <2>2, <2>3, <2>4 DEF FaultStep
<1>8. CASE Exit
  <2>1. Hands'
    BY <1>8, <1>h DEF Exit, Hands
  <2> QED  BY <1>8, <1>l, <2>1, LedgerSame DEF Exit
<1> QED  BY <1>0, <1>1, <1>2, <1>3, <1>4, <1>5, <1>6, <1>7, <1>8 DEF Next

-----------------------------------------------------------------------------
(* What holds in every reachable state                                     *)

\* Types and ledger are inductive together: each action's types rest on the
\* syscalls' hands being full when they should be, the ledger on the types.
THEOREM LedgerInvariant == Spec => [](TypeOK /\ Ledger)
<1>1. Init => TypeOK /\ Ledger
  BY InitType, InitLedger
<1>2. TypeOK /\ Ledger /\ [Next]_vars => TypeOK' /\ Ledger'
  BY TypeStep, LedgerStep DEF Ledger
<1> QED  BY <1>1, <1>2, PTL DEF Spec

\* The variables of driver and library keep to their ranges.
THEOREM TypeCorrect == Spec => []TypeOK
BY LedgerInvariant, PTL

\* No list corruption: a request is on one list, or in one hand.
THEOREM RequestsInOnePlace == Spec => []OnePlace
<1>1. Ledger => OnePlace
  BY DEF Ledger
<1> QED  BY <1>1, LedgerInvariant, PTL

\* No request is ended twice, whatever fails.
THEOREM RequestsEndedOnce == Spec => []EndedOnce
<1>1. Ledger => EndedOnce
  BY DEF Ledger
<1> QED  BY <1>1, LedgerInvariant, PTL

\* No request is forgotten, whatever fails.
THEOREM RequestsNotLost == Spec => []NoLostRequest
<1>1. Ledger => NoLostRequest
  BY DEF Ledger
<1> QED  BY <1>1, LedgerInvariant, PTL

-----------------------------------------------------------------------------
(* Wake-ups                                                                *)

\* A wake_up that is still to come belongs to an id already given out.
WakersIssued == \A i \in wakers : i <= next_request_id

\* Readers, wake-ups and tasks can be counted.
LEMMA Countable ==
  ASSUME TypeOK
  PROVE  /\ IsFiniteSet(Looking) /\ Cardinality(Looking) \in Nat
         /\ IsFiniteSet(wakers) /\ Cardinality(wakers) \in Nat
         /\ Len(pending) \in Nat
<1>1. Looking \in SUBSET Conn /\ wakers \in SUBSET Id /\ IsFiniteSet(Id) /\ IsFiniteSet(Conn)
  BY ConstantsOK, FS_Interval DEF Looking, TypeOK, Id
<1>2. IsFiniteSet(Looking) /\ IsFiniteSet(wakers)
  BY <1>1, FS_Subset
<1> QED  BY <1>2, FS_CardinalityType DEF TypeOK

\* A step that takes no reader away from the list and adds nothing to it.
LEMMA WakeKeep ==
  ASSUME TypeOK, TypeOK', WakeupsSuffice, WakersIssued,
         UNCHANGED <<pending, wakers, next_request_id>>, exiting => exiting',
         exiting' \/ Looking \subseteq Looking', Asleep' # {} => Asleep # {}
  PROVE  WakeupsSuffice' /\ WakersIssued'
<1>1. WakersIssued'
  BY DEF WakersIssued
<1>2. ASSUME ~exiting', Asleep' # {} PROVE WakeupsSuffice'
  <2>1. IsFiniteSet(Looking') /\ Looking \in SUBSET Looking'
    <3>1. Looking' \in SUBSET Conn /\ IsFiniteSet(Conn)
      BY ConstantsOK DEF Looking
    <3> QED  BY <1>2, <3>1, FS_Subset
  <2>2. Cardinality(Looking) <= Cardinality(Looking')
    BY <2>1, FS_Subset
  <2>3. Len(pending) <= Cardinality(Looking) + Cardinality(wakers)
    BY <1>2 DEF WakeupsSuffice
  <2>4. Cardinality(Looking') \in Nat
    BY <2>1, FS_CardinalityType
  <2> QED  BY <2>2, <2>3, <2>4, Countable DEF WakeupsSuffice
<1> QED  BY <1>1, <1>2 DEF WakeupsSuffice

\* A request is added together with the wake_up that follows.
LEMMA WakeAdd ==
  ASSUME TypeOK, WakeupsSuffice, WakersIssued, NEW r \in Req, NEW op, NEW n,
         NewRequest(r, op, n), AddPending(r), UNCHANGED <<pc, exiting>>
  PROVE  WakeupsSuffice' /\ WakersIssued'
<1>1. next_request_id \in Nat /\ wakers \subseteq Id /\ next_request_id' = next_request_id + 1
  BY ConstantsOK DEF TypeOK, NewRequest
<1>2. next_request_id + 1 \notin wakers /\ wakers' = wakers \cup {next_request_id + 1}
  BY <1>1 DEF WakersIssued, AddPending, Id
<1>3. Cardinality(wakers') = Cardinality(wakers) + 1
  BY <1>2, Countable, FS_AddElement
<1>4. Len(pending') = Len(pending) + 1
  BY AppendToList DEF TypeOK, AddPending
<1>5. Looking' = Looking /\ Asleep' = Asleep
  BY DEF Looking, Asleep
<1>6. WakersIssued'
  BY <1>1, <1>2 DEF WakersIssued, Id
<1> QED  BY <1>3, <1>4, <1>5, <1>6, Countable DEF WakeupsSuffice

\* Sending a command concerns no reader that looks or sleeps.
LEMMA SendWake ==
  ASSUME TypeOK, TypeOK', WakeupsSuffice, WakersIssued,
         NEW c \in Conn, NEW short \in BOOLEAN, bius_send_command(c, short)
  PROVE  WakeupsSuffice' /\ WakersIssued'
<1>1. /\ pc[c] = "send" /\ pc \in [Conn -> PC]
      /\ \E l \in {"stop", "copyin", "handle"} : pc' \in {pc, [pc EXCEPT ![c] = l]}
      /\ UNCHANGED <<pending, wakers, next_request_id>> /\ (exiting => exiting')
  BY DEF bius_send_command, ExitFrom, Goto, At, TypeOK
<1>2. Looking \subseteq Looking' /\ (Asleep' # {} => Asleep # {})
  BY <1>1 DEF Looking, Asleep
<1> QED  BY <1>1, <1>2, WakeKeep

\* The wake-ups, one action after the other.
LEMMA WakeStep ==
  TypeOK /\ TypeOK' /\ WakeupsSuffice /\ WakersIssued /\ [Next]_vars
    => WakeupsSuffice' /\ WakersIssued'
<1> SUFFICES ASSUME TypeOK, TypeOK', WakeupsSuffice, WakersIssued, [Next]_vars
             PROVE  WakeupsSuffice' /\ WakersIssued'
  OBVIOUS
<1> USE DEF Goto, At
<1>t. pc \in [Conn -> PC] /\ pending \in Seq(Req)
  BY DEF TypeOK
<1>0. CASE UNCHANGED vars
  BY <1>0, WakeKeep DEF vars, Looking, Asleep
<1>1. ASSUME NEW s \in Slot, NEW op \in Ops, NEW n \in 0 .. MaxLen, bius_queue_rq(s, op, n)
      PROVE  WakeupsSuffice' /\ WakersIssued'
  <2>1. CASE op = "BIUS_INVALID_OP"
    <3>1. /\ UNCHANGED <<pending, wakers, pc, exiting>>
          /\ next_request_id' = next_request_id + 1 /\ next_request_id \in Nat
      BY <1>1, <2>1 DEF bius_queue_rq, NewRequest, RejectOp, TypeOK
    <3>2. WakersIssued'
      BY <3>1 DEF WakersIssued, TypeOK, Id
    <3> QED  BY <3>1, <3>2 DEF WakeupsSuffice, Looking, Asleep
  <2>2. CASE op # "BIUS_INVALID_OP"
    BY <1>1, <2>2, WakeAdd DEF bius_queue_rq, Req
  <2> QED  BY <2>1, <2>2
<1>2. ASSUME NEW p \in Reporter, bius_report_zones(p) PROVE WakeupsSuffice' /\ WakersIssued'
  BY <1>2, WakeAdd DEF bius_report_zones, Req
<1>3. ASSUME NEW p \in Reporter, ReportReturn(p) \/ ReportKilled(p)
      PROVE  WakeupsSuffice' /\ WakersIssued'
  BY <1>3, WakeKeep DEF ReportReturn, ReportKilled, Looking, Asleep
<1>4. ASSUME NEW i \in Id, wake_up(i) PROVE WakeupsSuffice' /\ WakersIssued'
  <2>1. /\ i \in wakers /\ wakers' = wakers \ {i}
        /\ UNCHANGED <<pending, next_request_id, exiting>>
    BY <1>4 DEF wake_up
  <2>2. WakersIssued'
    BY <2>1 DEF WakersIssued
  <2>3. Cardinality(wakers') = Cardinality(wakers) - 1
    BY <2>1, Countable, FS_RemoveElement
  <2>4. CASE Asleep = {}
    BY <1>4, <2>2, <2>4 DEF wake_up, WakeupsSuffice, Asleep
  <2>5. CASE Asleep # {}
    <3>1. PICK c \in Asleep : pc' = [pc EXCEPT ![c] = "prewait"]
      BY <1>4, <2>5 DEF wake_up
    <3>2. Looking' = Looking \cup {c} /\ c \notin Looking
      BY <3>1, <1>t DEF Looking, Asleep
    <3>3. Cardinality(Looking') = Cardinality(Looking) + 1
      BY <3>2, Countable, FS_AddElement
    <3> QED  BY <2>1, <2>2, <2>3, <2>5, <3>3, Countable DEF WakeupsSuffice
  <2> QED  BY <2>4, <2>5
<1>5. ASSUME NEW c \in Conn, ThreadStep(c) PROVE WakeupsSuffice' /\ WakersIssued'
  <2>1. CASE \/ handle_initialization(c) \/ FoundEmpty(c)
             \/ \E res \in {"BLK_STS_OK", "ERR"} : handle_blk_command(c, res)
    <3>1. UNCHANGED <<pending, wakers, next_request_id, exiting>>
      BY <2>1 DEF handle_initialization, FoundEmpty, handle_blk_command
    <3>2. Looking \subseteq Looking' /\ (Asleep' # {} => Asleep # {})
      BY <2>1, <1>t DEF handle_initialization, FoundEmpty, handle_blk_command, Looking, Asleep
    <3> QED  BY <3>1, <3>2, WakeKeep
  <2>2. CASE Dequeue(c)
    <3>1. CASE UNCHANGED <<pending, request, pc>>
      BY <2>2, <3>1, WakeKeep DEF Dequeue, Looking, Asleep
    <3>2. CASE ~UNCHANGED <<pending, request, pc>>
      <4>1. /\ pending' = Tail(pending) /\ pc' = [pc EXCEPT ![c] = "send"] /\ pending # <<>>
            /\ UNCHANGED <<next_request_id, wakers, exiting>> /\ pc[c] = "read"
        BY <2>2, <3>2 DEF Dequeue
      <4>2. Len(pending') = Len(pending) - 1
        BY <4>1, <1>t, HeadTailProperties
      <4>3. Looking' = Looking \ {c} /\ c \in Looking /\ Asleep' = Asleep
        BY <4>1, <1>t DEF Looking, Asleep
      <4>4. Cardinality(Looking') = Cardinality(Looking) - 1
        BY <4>3, Countable, FS_RemoveElement
      <4> QED  BY <4>1, <4>2, <4>3, <4>4, Countable DEF WakeupsSuffice, WakersIssued
    <3> QED  BY <3>1, <3>2
  <2>3. CASE WaitEvent(c)
    <3>1. CASE pending = <<>>
      <4>1. Len(pending') = 0 /\ UNCHANGED <<wakers, next_request_id>>
        BY <2>3, <3>1 DEF WaitEvent
      <4>2. Cardinality(Looking') \in Nat
        <5>1. Looking' \in SUBSET Conn /\ IsFiniteSet(Conn)
          BY ConstantsOK DEF Looking
        <5> QED  BY <5>1, FS_Subset, FS_CardinalityType
      <4> QED  BY <4>1, <4>2, Countable DEF WakeupsSuffice, WakersIssued
    <3>2. CASE pending # <<>>
      <4>1. Looking \subseteq Looking' /\ (Asleep' # {} => Asleep # {})
        BY <2>3, <3>2, <1>t DEF WaitEvent, Looking, Asleep
      <4> QED  BY <2>3, <4>1, WakeKeep DEF WaitEvent
    <3> QED  BY <3>1, <3>2
  <2>4. CASE bius_send_command(c, FALSE)
    BY <2>4, SendWake
  <2>5. ASSUME NEW n \in 1 .. MaxLen, bius_send_data(c, n) PROVE WakeupsSuffice' /\ WakersIssued'
    <3>1. Looking \subseteq Looking' /\ (Asleep' # {} => Asleep # {})
      BY <2>5, <1>t DEF bius_send_data, Looking, Asleep
    <3> QED  BY <2>5, <3>1, WakeKeep DEF bius_send_data
  <2>6. CASE get_request_by_id(c)
    <3>1. /\ pc[c] = "reply" /\ pc' \in {pc, [pc EXCEPT ![c] = "stop"], [pc EXCEPT ![c] = "finish"]}
          /\ UNCHANGED <<pending, wakers, next_request_id>> /\ (exiting => exiting')
      BY <2>6 DEF get_request_by_id, ExitFrom
    <3>2. Looking \subseteq Looking' /\ (Asleep' # {} => Asleep # {})
      BY <3>1, <1>t DEF Looking, Asleep
    <3> QED  BY <3>1, <3>2, WakeKeep
  <2>7. CASE FinishReply(c)
    <3>1. /\ pc[c] = "finish" /\ pc' \in {pc, [pc EXCEPT ![c] = "read"]}
          /\ UNCHANGED <<pending, wakers, next_request_id, exiting>>
      BY <2>7 DEF FinishReply
    <3>2. Looking \subseteq Looking' /\ (Asleep' # {} => Asleep # {})
      BY <3>1, <1>t DEF Looking, Asleep
    <3> QED  BY <3>1, <3>2, WakeKeep
  <2> QED  BY <1>5, <2>1, <2>2, <2>3, <2>4, <2>5, <2>6, <2>7 DEF ThreadStep
<1>6. ASSUME NEW c \in Conn, ExitStep(c) PROVE WakeupsSuffice' /\ WakersIssued'
  <2>1. CASE Die(c)
    <3>1. exiting' /\ (Asleep' # {} => Asleep # {})
      BY <2>1, <1>t DEF Die, Asleep
    <3> QED  BY <2>1, <3>1, WakeKeep DEF Die
  <2>2. CASE ReleaseDrop(c) \/ ReleaseWalk(c) \/ RemoveDone(c)
    <3>1. /\ pc[c] \in {"stop", "walk", "sweep"}
          /\ \E l \in {"walk", "sweep", "closed"} : pc' \in {pc, [pc EXCEPT ![c] = l]}
          /\ UNCHANGED <<pending, wakers, next_request_id, exiting>>
      BY <2>2 DEF ReleaseDrop, ReleaseWalk, RemoveDone, Closing
    <3>2. Looking \subseteq Looking' /\ (Asleep' # {} => Asleep # {})
      BY <3>1, <1>t DEF Looking, Asleep
    <3> QED  BY <3>1, <3>2, WakeKeep
  <2>3. CASE remove_block_device(c)
    <3>1. UNCHANGED <<wakers, next_request_id, exiting, pc>> /\ pending # <<>>
          /\ (UNCHANGED pending \/ pending' = Tail(pending))
      BY <2>3 DEF remove_block_device
    <3>2. Looking' = Looking /\ Asleep' = Asleep
      BY <3>1 DEF Looking, Asleep
    <3>3. Len(pending') <= Len(pending) /\ Len(pending') \in Nat
      BY <3>1, <1>t, HeadTailProperties, LenProperties
    <3> QED  BY <3>1, <3>2, <3>3, Countable DEF WakeupsSuffice, WakersIssued
  <2> QED  BY <1>6, <2>1, <2>2, <2>3 DEF ExitStep
<1>7. ASSUME NEW c \in Conn, FaultStep(c) PROVE WakeupsSuffice' /\ WakersIssued'
  <2>1. CASE Interrupted(c) \/ SendDataFailed(c) \/ ReplyLost(c)
    <3>1. Looking \subseteq Looking' /\ (Asleep' # {} => Asleep # {})
      BY <2>1, <1>t DEF Interrupted, SendDataFailed, ReplyLost, ExitFrom, Looking, Asleep
    <3>2. UNCHANGED <<pending, wakers, next_request_id>> /\ (exiting => exiting')
      BY <2>1 DEF Interrupted, SendDataFailed, ReplyLost, ExitFrom
    <3> QED  BY <3>1, <3>2, WakeKeep
  <2>2. CASE bius_send_command(c, TRUE)
    BY <2>2, SendWake
  <2>3. CASE SendCommandFailed(c) \/ FinishFailed(c)
    <3>1. /\ pc[c] \in {"send", "finish"}
          /\ \E l \in {"handle", "stop", "read"} : pc' \in {pc, [pc EXCEPT ![c] = l]}
          /\ UNCHANGED <<pending, wakers, next_request_id>> /\ (exiting => exiting')
      BY <2>3 DEF SendCommandFailed, FinishFailed, ExitFrom
    <3>2. Looking \subseteq Looking' /\ (Asleep' # {} => Asleep # {})
      BY <3>1, <1>t DEF Looking, Asleep
    <3> QED  BY <3>1, <3>2, WakeKeep
  <2> QED  BY <1>7, <2>1, <2>2, <2>3 DEF FaultStep
<1>8. CASE Exit
  BY <1>8, WakeKeep DEF Exit, Looking, Asleep
<1> QED  BY <1>0, <1>1, <1>2, <1>3, <1>4, <1>5, <1>6, <1>7, <1>8 DEF Next

\* While a reader sleeps, no pending request is without a reader that looks
\* or a wake_up to come: no wake-up is lost in the gap between the unlock and
\* the wake_up, or between the check and the sleep.
THEOREM NoLostWakeup == Spec => []WakeupsSuffice
<1>1. Init => WakeupsSuffice /\ WakersIssued
  BY DEF Init, WakeupsSuffice, WakersIssued, Asleep
<1>2. TypeOK /\ TypeOK' /\ WakeupsSuffice /\ WakersIssued /\ [Next]_vars
        => WakeupsSuffice' /\ WakersIssued'
  BY WakeStep
<1> QED  BY <1>1, <1>2, TypeCorrect, PTL DEF Spec

-----------------------------------------------------------------------------
(* The end of the server                                                   *)

\* A released connection has let go of everything, and only the last one to
\* go leaves requests on the pending list, until its sweep is over.
Released ==
  /\ \A c \in Conn : pc[c] \in {"sweep", "closed"} => waiting[c] = {} /\ c \notin connected
  /\ connected = {} => pending = <<>> \/ \E c \in Conn : pc[c] = "sweep"

\* A step of a live connection that leaves pending requests and the set of
\* connections alone.
LEMMA ReleasedKeep ==
  ASSUME TypeOK, TypeOK', Released, NEW c \in Conn, pc[c] \notin {"sweep", "closed"},
         UNCHANGED connected, UNCHANGED pending \/ connected # {},
         \A d \in Conn \ {c} : pc'[d] = pc[d] /\ waiting'[d] = waiting[d],
         pc'[c] \notin {"sweep", "closed"}
  PROVE  Released'
BY DEF Released

\* Sending a command is a step of a live connection.
LEMMA SendReleased ==
  ASSUME TypeOK, TypeOK', Released, NEW c \in Conn, NEW short \in BOOLEAN,
         bius_send_command(c, short)
  PROVE  Released'
<1>1. pc \in [Conn -> PC] /\ waiting \in [Conn -> SUBSET Req]
  BY DEF TypeOK
<1>2. /\ pc[c] \notin {"sweep", "closed"} /\ UNCHANGED <<connected, pending>>
      /\ pc' = pc \/ \E l \in {"stop", "copyin", "handle"} : pc' = [pc EXCEPT ![c] = l]
      /\ waiting' = waiting \/ waiting' = [waiting EXCEPT ![c] = @ \cup {request[c]}]
  BY DEF bius_send_command, ExitFrom, Goto, At
<1> QED  BY <1>1, <1>2, ReleasedKeep

\* The release, one action after the other.
LEMMA ReleasedStep == TypeOK /\ TypeOK' /\ Released /\ [Next]_vars => Released'
<1> SUFFICES ASSUME TypeOK, TypeOK', Released, [Next]_vars PROVE Released'
  OBVIOUS
<1> USE DEF Goto, At
<1>t. /\ pc \in [Conn -> PC] /\ pending \in Seq(Req) /\ waiting \in [Conn -> SUBSET Req]
      /\ connected \subseteq Conn
  BY DEF TypeOK
<1>0. CASE UNCHANGED vars
  BY <1>0 DEF vars, Released
<1>1. ASSUME NEW s \in Slot, NEW op \in Ops, NEW n \in 0 .. MaxLen, bius_queue_rq(s, op, n)
      PROVE  Released'
  BY <1>1 DEF bius_queue_rq, Released
<1>2. ASSUME NEW p \in Reporter, bius_report_zones(p) \/ ReportReturn(p) \/ ReportKilled(p)
      PROVE  Released'
  BY <1>2 DEF bius_report_zones, ReportReturn, ReportKilled, Released
<1>4. ASSUME NEW i \in Id, wake_up(i) PROVE Released'
  <2>1. UNCHANGED pc \/ \E c \in Conn : pc[c] = "asleep" /\ pc' = [pc EXCEPT ![c] = "prewait"]
    BY <1>4 DEF wake_up, Asleep
  <2>2. UNCHANGED <<pending, waiting, connected>>
    BY <1>4 DEF wake_up
  <2> QED  BY <2>1, <2>2, <1>t DEF Released
<1>5. ASSUME NEW c \in Conn, ThreadStep(c) PROVE Released'
  <2>1. CASE handle_initialization(c)
    BY <2>1, <1>t DEF handle_initialization, Released
  <2>2. CASE Dequeue(c)
    <3>1. CASE connected = {}
      <4>1. PICK d \in Conn : pc[d] = "sweep"
        BY <2>2, <3>1 DEF Dequeue, Released
      <4>2. d # c /\ pc'[d] = "sweep"
        BY <2>2, <4>1, <1>t DEF Dequeue
      <4> QED  BY <2>2, <4>2, <1>t DEF Dequeue, Released
    <3>2. CASE connected # {}
      BY <2>2, <3>2, <1>t DEF Dequeue, Released
    <3> QED  BY <3>1, <3>2
  <2>3. CASE FoundEmpty(c) \/ WaitEvent(c) \/ FinishReply(c)
    <3>1. /\ pc[c] \notin {"sweep", "closed"} /\ UNCHANGED <<connected, pending, waiting>>
          /\ pc' = pc \/ \E l \in {"prewait", "asleep", "read"} : pc' = [pc EXCEPT ![c] = l]
      BY <2>3 DEF FoundEmpty, WaitEvent, FinishReply
    <3> QED  BY <3>1, <1>t, ReleasedKeep
  <2>4. CASE bius_send_command(c, FALSE)
    BY <2>4, SendReleased
  <2>5. ASSUME NEW n \in 1 .. MaxLen, bius_send_data(c, n) PROVE Released'
    BY <2>5, <1>t, ReleasedKeep DEF bius_send_data
  <2>6. ASSUME NEW res \in {"BLK_STS_OK", "ERR"}, handle_blk_command(c, res) PROVE Released'
    BY <2>6, <1>t, ReleasedKeep DEF handle_blk_command
  <2>7. CASE get_request_by_id(c)
    <3>1. /\ pc[c] \notin {"sweep", "closed"} /\ UNCHANGED <<connected, pending>>
          /\ pc' = pc \/ \E l \in {"stop", "finish"} : pc' = [pc EXCEPT ![c] = l]
          /\ waiting' = waiting \/ \E r \in waiting[c] : waiting' = [waiting EXCEPT ![c] = @ \ {r}]
      BY <2>7 DEF get_request_by_id, ExitFrom
    <3> QED  BY <3>1, <1>t, ReleasedKeep
  <2> QED  BY <1>5, <2>1, <2>2, <2>3, <2>4, <2>5, <2>6, <2>7 DEF ThreadStep
<1>6. ASSUME NEW c \in Conn, ExitStep(c) PROVE Released'
  <2>1. CASE Die(c)
    <3>1. pc[c] \notin {"sweep", "closed"} /\ UNCHANGED <<connected, pending, waiting>>
          /\ pc' = [pc EXCEPT ![c] = "stop"]
      BY <2>1 DEF Die, InLibrary
    <3> QED  BY <3>1, <1>t, ReleasedKeep
  <2>2. CASE ReleaseWalk(c)
    <3>1. /\ pc[c] \notin {"sweep", "closed"} /\ UNCHANGED <<connected, pending>>
          /\ pc' = pc \/ pc' = [pc EXCEPT ![c] = "walk"]
          /\ waiting' = waiting \/ \E r \in waiting[c] : waiting' = [waiting EXCEPT ![c] = @ \ {r}]
      BY <2>2 DEF ReleaseWalk, Closing
    <3> QED  BY <3>1, <1>t, ReleasedKeep
  <2>3. CASE ReleaseDrop(c)
    <3>1. /\ waiting[c] = {} /\ connected' = connected \ {c} /\ UNCHANGED <<waiting, pending>>
          /\ pc' = [pc EXCEPT ![c] = IF connected = {c} THEN "sweep" ELSE "closed"]
          /\ \A d \in Conn : pc[d] # "sweep"
      BY <2>3 DEF ReleaseDrop, Closing
    <3>2. \A d \in Conn : pc'[d] \in {"sweep", "closed"} => waiting'[d] = {} /\ d \notin connected'
      BY <3>1, <1>t DEF Released
    <3>3. connected' = {} => pending' = <<>> \/ pc'[c] = "sweep"
      BY <3>1, <1>t DEF Released
    <3> QED  BY <3>2, <3>3 DEF Released
  <2>4. CASE remove_block_device(c)
    BY <2>4 DEF remove_block_device, Released
  <2>5. CASE RemoveDone(c)
    BY <2>5, <1>t DEF RemoveDone, Released
  <2> QED  BY <1>6, <2>1, <2>2, <2>3, <2>4, <2>5 DEF ExitStep
<1>7. ASSUME NEW c \in Conn, FaultStep(c) PROVE Released'
  <2>1. CASE bius_send_command(c, TRUE)
    BY <2>1, SendReleased
  <2>2. CASE \/ Interrupted(c) \/ SendDataFailed(c) \/ ReplyLost(c)
             \/ SendCommandFailed(c) \/ FinishFailed(c)
    <3>1. /\ pc[c] \notin {"sweep", "closed"} /\ UNCHANGED <<connected, pending, waiting>>
          /\ pc' = pc \/ \E l \in {"stop", "read", "handle"} : pc' = [pc EXCEPT ![c] = l]
      BY <2>2 DEF Interrupted, SendDataFailed, ReplyLost, SendCommandFailed, FinishFailed, ExitFrom
    <3> QED  BY <3>1, <1>t, ReleasedKeep
  <2> QED  BY <1>7, <2>1, <2>2 DEF FaultStep
<1>8. CASE Exit
  BY <1>8 DEF Exit, Released
<1> QED  BY <1>0, <1>1, <1>2, <1>4, <1>5, <1>6, <1>7, <1>8 DEF Next

\* When the last connection is closed no request is left open: what was being
\* served, what was waiting for a reply and what nobody had read was ended.
THEOREM TeardownEndsAll == Spec => []TeardownLeavesNothing
<1>1. Init => Released
  BY DEF Init, Released
<1>2. TypeOK /\ TypeOK' /\ Released /\ [Next]_vars => Released'
  BY ReleasedStep
<1>3. TypeOK /\ Ledger /\ Released => TeardownLeavesNothing
  <2> SUFFICES ASSUME TypeOK, Ledger, Released, \A c \in Conn : pc[c] = "closed",
                      NEW i \in 1 .. next_request_id
               PROVE  ended[i] = 1
    BY DEF TeardownLeavesNothing
  <2>1. connected = {}
    BY DEF Released, TypeOK
  <2>2. Range(pending) = {}
    BY <2>1 DEF Released, Range
  <2>3. \A c \in Conn : Held(c) = {}
    BY DEF Released, Ledger, Hands, Held
  <2>4. Linked = {}
    BY <2>2, <2>3 DEF Linked
  <2>5. i \in Id
    BY ConstantsOK DEF TypeOK, Id
  <2>6. ended[i] # 0 /\ ended[i] <= 1 /\ ended[i] \in Nat
    BY <2>4, <2>5 DEF Ledger, NoLostRequest, EndedOnce, TypeOK
  <2> QED  BY <2>6
<1> QED  BY <1>1, <1>2, <1>3, LedgerInvariant, PTL DEF Spec
=============================================================================
