--------------------------- MODULE BiusTransport ---------------------------
(***************************************************************************)
(* The request path of one BIUS block device: blk-mq and report_zones()    *)
(* callers queue requests on the device's pending list (kernel/block_dev.c),*)
(* the threads of one libbius server take them through their own           *)
(* connections to /dev/bius, carry them out and reply (kernel/char_dev.c,  *)
(* library/libbius.c), and the exit of the server ends what is left.       *)
(*                                                                         *)
(* The build modelled is the default one (CONFIG_BIUS_DATAMAP undefined).  *)
(* A step is what happens under one lock, or one stretch of code that only *)
(* touches what its thread owns.                                           *)
(***************************************************************************)
EXTENDS Integers, Sequences, FiniteSets, Functions

CONSTANTS
  Slot,      \* the requests of the blk-mq tag set, each with its bius_request
  Reporter,  \* callers of bius_report_zones, each with a request on its stack
  Conn,      \* the connections; each has its own library thread
  Creator,   \* the connection that sends BIUS_CREATE, the others BIUS_CONNECT
  Ops,       \* the operations the block layer submits
  MaxId,     \* bound: how many request ids a run may use
  MaxLen,    \* bound: the longest request, in blocks of data
  Faults,    \* what the environment may do, see FaultKinds
  None       \* a NULL pointer

Req == Slot \cup Reporter
Id == 1 .. MaxId

\* BIUS_FLUSH stands for every operation that carries no data.
BlkOp == {"BIUS_READ", "BIUS_WRITE", "BIUS_ZONE_APPEND", "BIUS_FLUSH",
          "BIUS_INVALID_OP"}
OpCode == BlkOp \cup {"BIUS_REPORT_ZONES"}

\* "exit": the server process is killed; "efault": a copy from or to user
\* memory stops short; "kill": a process blocked in bius_report_zones is killed.
FaultKinds == {"exit", "efault", "kill"}

\* What a request is ended with. GARBAGE is an int_result nobody assigned.
Result == {"BLK_STS_OK", "ERR", "BLK_STS_IOERR", "BLK_STS_NOTSUPP", "GARBAGE"}

ASSUME ConstantsOK ==
  /\ IsFiniteSet(Conn) /\ Creator \in Conn
  /\ Slot \cap Reporter = {}
  /\ None \notin Req
  /\ Ops \subseteq BlkOp
  /\ MaxId \in Nat /\ MaxLen \in Nat \ {0}
  /\ Faults \subseteq FaultKinds

VARIABLES
  \* bius_request, per request
  next_request_id, rstate, id, type, length, map_data,
  \* bius_block_device
  pending, wakers, connected,
  \* bius_connection and the thread that serves it
  waiting, sending, pc, request, k2u, total_read, reply,
  \* the process, and whether the kernel touched memory that is no request
  exiting, oops,
  \* history: how often and with what each id was ended, how often executed
  ended, result, executed

reqVars == <<next_request_id, id, type, length>>
libVars == <<k2u, total_read, reply>>
endVars == <<rstate, ended, result>>
vars == <<reqVars, map_data, pending, wakers, connected, waiting, sending, pc,
          request, libVars, exiting, oops, endVars, executed>>

\* Where a thread can be. In "send" and "finish" the syscall holds request[c]
\* in a local variable only; "read" and "prewait" lead to the pending list.
InSyscall == {"read", "prewait", "asleep", "send", "finish"}
InLibrary == {"init", "copyin", "handle", "reply"}
Closed == {"stop", "walk", "sweep", "closed"}
PC == InSyscall \cup InLibrary \cup Closed

NoCmd == [id |-> 0, opcode |-> "BIUS_INVALID_OP", length |-> 0]

request_may_have_data(op) == op \in {"BIUS_READ", "BIUS_WRITE", "BIUS_ZONE_APPEND"}
request_is_write(op) == op \in {"BIUS_WRITE", "BIUS_ZONE_APPEND"}
is_blk_request(op) == op # "BIUS_REPORT_ZONES"

\* The stack frame that holds a report_zones request is gone.
Dead(r) == rstate[r] = "dead"

Init ==
  /\ next_request_id = 0
  /\ rstate = [r \in Req |-> "free"]
  /\ id = [r \in Req |-> 0]
  /\ type = [r \in Req |-> "BIUS_INVALID_OP"]
  /\ length = [r \in Req |-> 0]
  /\ map_data = [r \in Req |-> 0]
  /\ pending = <<>> /\ wakers = {} /\ connected = {}
  /\ waiting = [c \in Conn |-> {}]
  /\ sending = [c \in Conn |-> None]
  /\ pc = [c \in Conn |-> "init"]
  /\ request = [c \in Conn |-> None]
  /\ k2u = [c \in Conn |-> NoCmd]
  /\ total_read = [c \in Conn |-> 0]
  /\ reply = [c \in Conn |-> "ERR"]
  /\ exiting = FALSE /\ oops = FALSE
  /\ ended = [i \in Id |-> 0]
  /\ result = [i \in Id |-> "GARBAGE"]
  /\ executed = [i \in Id |-> 0]

\* Nothing is said of what follows a stray access: the model stops there.
At(c, l) == ~oops /\ pc[c] = l
Goto(c, l) == pc' = [pc EXCEPT ![c] = l]

\* exit(1) in the library: the whole process goes.
ExitFrom(c) == Goto(c, "stop") /\ exiting' = TRUE

-----------------------------------------------------------------------------
(* Ending a request                                                        *)

\* blk_mq_end_request gives the slot back; up() lets the reporter go on.
on_request_end(r, res) ==
  /\ rstate' = [rstate EXCEPT ![r] = IF r \in Slot THEN "free" ELSE "ended"]
  /\ ended' = [ended EXCEPT ![id[r]] = @ + 1]
  /\ result' = [result EXCEPT ![id[r]] = res]

\* Sets blk_result, which is not the field a reporter reads.
end_blk_request(r, res) ==
  on_request_end(r, IF r \in Slot THEN res ELSE "GARBAGE")

end_request_int(r, res) == on_request_end(r, res)

-----------------------------------------------------------------------------
(* The block layer                                                         *)

\* The part bius_queue_rq and bius_report_zones share.
NewRequest(r, op, n) ==
  /\ next_request_id < MaxId
  /\ next_request_id' = next_request_id + 1
  /\ id' = [id EXCEPT ![r] = next_request_id + 1]
  /\ type' = [type EXCEPT ![r] = op]
  /\ length' = [length EXCEPT ![r] = n]

\* list_add_tail under pending_lock; wake_up comes after the unlock.
AddPending(r) ==
  /\ pending' = Append(pending, r)
  /\ wakers' = wakers \cup {next_request_id + 1}
  /\ rstate' = [rstate EXCEPT ![r] = "started"]
  /\ oops' = (pending # <<>> /\ Dead(pending[Len(pending)]))
  /\ UNCHANGED <<ended, result>>

\* An operation the driver does not know is ended on the spot. The same
\* status is also returned; what blk-mq makes of that is outside the driver.
RejectOp ==
  /\ ended' = [ended EXCEPT ![next_request_id + 1] = @ + 1]
  /\ result' = [result EXCEPT ![next_request_id + 1] = "BLK_STS_NOTSUPP"]
  /\ UNCHANGED <<pending, wakers, rstate, oops>>

\* The disk takes requests while a connection is left. What arrives during
\* the removal itself is a matter of list pointers, not of this module.
bius_queue_rq(s, op, n) ==
  /\ ~oops /\ connected # {} /\ rstate[s] = "free"
  /\ IF request_may_have_data(op) THEN n > 0 ELSE n = 0
  /\ NewRequest(s, op, n)
  /\ IF op = "BIUS_INVALID_OP" THEN RejectOp ELSE AddPending(s)
  /\ UNCHANGED <<map_data, connected, waiting, sending, pc, request, libVars,
                 exiting, executed>>

bius_report_zones(p) ==
  /\ ~oops /\ connected # {} /\ rstate[p] = "free"
  /\ NewRequest(p, "BIUS_REPORT_ZONES", 0)
  /\ AddPending(p)
  /\ UNCHANGED <<map_data, connected, waiting, sending, pc, request, libVars,
                 exiting, executed>>

Asleep == {c \in Conn : pc[c] = "asleep"}

\* Mutant: nobody is woken.
wake_up_Lost(i) ==
  /\ ~oops /\ i \in wakers
  /\ wakers' = wakers \ {i}
  /\ UNCHANGED <<reqVars, map_data, pending, connected, waiting, sending, pc,
                 request, libVars, exiting, oops, endVars, executed>>

\* wake_up: one exclusive waiter leaves the wait queue and checks again.
wake_up(i) ==
  /\ ~oops /\ i \in wakers
  /\ wakers' = wakers \ {i}
  /\ IF Asleep = {} THEN UNCHANGED pc
     ELSE \E c \in Asleep : Goto(c, "prewait")
  /\ UNCHANGED <<reqVars, map_data, pending, connected, waiting, sending,
                 request, libVars, exiting, oops, endVars, executed>>

\* down_killable returned 0: the reporter leaves with what int_result holds.
ReportReturn(p) ==
  /\ ~oops /\ rstate[p] = "ended" /\ id[p] \notin wakers
  /\ rstate' = [rstate EXCEPT ![p] = "free"]
  /\ UNCHANGED <<reqVars, map_data, pending, wakers, connected, waiting, sending,
                 pc, request, libVars, exiting, oops, ended, result, executed>>

\* down_killable returned -EINTR: the frame goes, the request stays linked.
ReportKilled(p) ==
  /\ "kill" \in Faults
  /\ ~oops /\ rstate[p] = "started" /\ id[p] \notin wakers
  /\ rstate' = [rstate EXCEPT ![p] = "dead"]
  /\ UNCHANGED <<reqVars, map_data, pending, wakers, connected, waiting, sending,
                 pc, request, libVars, exiting, oops, ended, result, executed>>

-----------------------------------------------------------------------------
(* Connecting and reading a command                                        *)

\* open, then BIUS_CREATE for the first connection and BIUS_CONNECT for the
\* others, whose threads are started once the device exists.
handle_initialization(c) ==
  /\ At(c, "init") /\ (c = Creator \/ connected # {}) /\ ~exiting
  /\ connected' = connected \cup {c}
  /\ Goto(c, "read")
  /\ UNCHANGED <<reqVars, map_data, pending, wakers, waiting, sending, request,
                 libVars, exiting, oops, endVars, executed>>

\* bius_dev_read with no data to send: take the first pending request.
Dequeue(c) ==
  /\ At(c, "read") /\ sending[c] = None /\ pending # <<>>
  /\ IF Dead(pending[1]) \/ (Len(pending) > 1 /\ Dead(pending[2]))
     THEN oops' = TRUE /\ UNCHANGED <<pending, request, pc>>
     ELSE /\ request' = [request EXCEPT ![c] = Head(pending)]
          /\ pending' = Tail(pending)
          /\ Goto(c, "send")
          /\ UNCHANGED oops
  /\ UNCHANGED <<reqVars, map_data, wakers, connected, waiting, sending,
                 libVars, exiting, endVars, executed>>

\* The list was empty under the lock: unlock and go and wait.
FoundEmpty(c) ==
  /\ At(c, "read") /\ sending[c] = None /\ pending = <<>>
  /\ Goto(c, "prewait")
  /\ UNCHANGED <<reqVars, map_data, pending, wakers, connected, waiting, sending,
                 request, libVars, exiting, oops, endVars, executed>>

\* Mutant: the waiter sleeps without looking at the list again.
WaitEvent_NoRecheck(c) ==
  /\ At(c, "prewait")
  /\ Goto(c, "asleep")
  /\ UNCHANGED <<reqVars, map_data, pending, wakers, connected, waiting, sending,
                 request, libVars, exiting, oops, endVars, executed>>

\* wait_event_interruptible_exclusive checks the list again, without the lock.
WaitEvent(c) ==
  /\ At(c, "prewait")
  /\ Goto(c, IF pending = <<>> THEN "asleep" ELSE "read")
  /\ UNCHANGED <<reqVars, map_data, pending, wakers, connected, waiting, sending,
                 request, libVars, exiting, oops, endVars, executed>>

\* A stop, or a signal whose handler has SA_RESTART: read is called again.
Interrupted(c) ==
  /\ At(c, "asleep") /\ ~exiting
  /\ Goto(c, "read")
  /\ UNCHANGED <<reqVars, map_data, pending, wakers, connected, waiting, sending,
                 request, libVars, exiting, oops, endVars, executed>>

\* A write announces its data: the next read()s on the connection carry it.
HasDataPhase(r) == request_is_write(type[r]) /\ length[r] > 0

StartSending(c, r) ==
  IF HasDataPhase(r)
  THEN /\ map_data' = [map_data EXCEPT ![r] = length[r]]
       /\ sending' = [sending EXCEPT ![c] = r]
  ELSE UNCHANGED <<map_data, sending>>

\* bius_send_command copied the header (short: only a part of it, which the
\* driver takes for success and the library for a failure), and the request
\* joins the connection's waiting list.
bius_send_command(c, short) ==
  /\ At(c, "send")
  /\ LET r == request[c] IN
     IF Dead(r) THEN oops' = TRUE /\ UNCHANGED <<map_data, sending, waiting, pc,
                                       request, k2u, total_read, exiting>>
     ELSE /\ StartSending(c, r)
          /\ waiting' = [waiting EXCEPT ![c] = @ \cup {r}]
          /\ request' = [request EXCEPT ![c] = None]
          /\ total_read' = [total_read EXCEPT ![c] = 0]
          /\ IF short THEN /\ ExitFrom(c)
                           /\ k2u' = [k2u EXCEPT ![c] = NoCmd]
             ELSE /\ k2u' = [k2u EXCEPT ![c] = [id |-> id[r], opcode |-> type[r],
                                                length |-> length[r]]]
                  /\ Goto(c, IF HasDataPhase(r) THEN "copyin" ELSE "handle")
                  /\ UNCHANGED exiting
          /\ UNCHANGED oops
  /\ UNCHANGED <<reqVars, pending, wakers, connected, reply, endVars, executed>>

\* Mutant: the failed request is forgotten instead of ended.
SendCommandFailed_Forget(c) ==
  /\ "efault" \in Faults
  /\ At(c, "send") /\ ~Dead(request[c])
  /\ sending' = [sending EXCEPT ![c] = None]
  /\ request' = [request EXCEPT ![c] = None]
  /\ Goto(c, "handle")
  /\ UNCHANGED <<reqVars, map_data, pending, wakers, connected, waiting, libVars,
                 exiting, oops, endVars, executed>>

\* Nothing of the header could be copied: the request is ended and read()
\* returns 0, after which the library carries on with the header it has.
SendCommandFailed(c) ==
  /\ "efault" \in Faults
  /\ At(c, "send")
  /\ LET r == request[c] IN
     IF Dead(r) THEN oops' = TRUE /\ UNCHANGED <<map_data, sending, request, pc, endVars>>
     ELSE /\ end_blk_request(r, "BLK_STS_IOERR")
          /\ map_data' = [map_data EXCEPT ![r] = IF HasDataPhase(r) THEN length[r] ELSE @]
          /\ sending' = [sending EXCEPT ![c] = None]
          /\ request' = [request EXCEPT ![c] = None]
          /\ Goto(c, "handle")
          /\ UNCHANGED oops
  /\ UNCHANGED <<reqVars, pending, wakers, connected, waiting, libVars, exiting, executed>>

-----------------------------------------------------------------------------
(* The data of a write, the operation, the reply                           *)

\* Mutant: one block too many is taken off what remains to be sent.
bius_send_data_OffByOne(c, n) ==
  LET r == sending[c] IN
  /\ At(c, "copyin") /\ r # None /\ n = map_data[r]
  /\ map_data' = [map_data EXCEPT ![r] = @ - n - 1]
  /\ sending' = [sending EXCEPT ![c] = None]
  /\ total_read' = [total_read EXCEPT ![c] = @ + n]
  /\ Goto(c, "handle")
  /\ UNCHANGED <<reqVars, pending, wakers, connected, waiting, request, k2u,
                 reply, exiting, oops, endVars, executed>>

\* Mutant: connection->sending is not cleared when the data is through.
bius_send_data_KeepSending(c, n) ==
  LET r == sending[c] IN
  /\ At(c, "copyin") /\ r # None /\ n = map_data[r]
  /\ map_data' = [map_data EXCEPT ![r] = @ - n]
  /\ total_read' = [total_read EXCEPT ![c] = @ + n]
  /\ Goto(c, "handle")
  /\ UNCHANGED <<reqVars, pending, wakers, connected, waiting, sending, request,
                 k2u, reply, exiting, oops, endVars, executed>>

\* One round of handle_copy_in: bius_send_data copies n blocks, all that
\* remain unless a copy stops short.
bius_send_data(c, n) ==
  LET r == sending[c] IN
  /\ At(c, "copyin") /\ r # None
  /\ n \in 1 .. map_data[r] /\ (n = map_data[r] \/ "efault" \in Faults)
  /\ map_data' = [map_data EXCEPT ![r] = @ - n]
  /\ sending' = [sending EXCEPT ![c] = IF n = map_data[r] THEN None ELSE @]
  /\ total_read' = [total_read EXCEPT ![c] = @ + n]
  /\ Goto(c, IF total_read[c] + n < k2u[c].length THEN "copyin" ELSE "handle")
  /\ UNCHANGED <<reqVars, pending, wakers, connected, waiting, request, k2u,
                 reply, exiting, oops, endVars, executed>>

\* bius_send_data copied nothing: read() returned 0 and the library exits.
SendDataFailed(c) ==
  /\ "efault" \in Faults
  /\ At(c, "copyin") /\ sending[c] # None
  /\ ExitFrom(c)
  /\ UNCHANGED <<reqVars, map_data, pending, wakers, connected, waiting, sending,
                 request, libVars, oops, endVars, executed>>

\* The server's callback runs for the header the thread holds.
handle_blk_command(c, res) ==
  /\ At(c, "handle")
  /\ reply' = [reply EXCEPT ![c] = res]
  /\ executed' = IF res = "BLK_STS_OK" /\ k2u[c].id \in Id
                 THEN [executed EXCEPT ![k2u[c].id] = @ + 1] ELSE executed
  /\ Goto(c, "reply")
  /\ UNCHANGED <<reqVars, map_data, pending, wakers, connected, waiting, sending,
                 request, k2u, total_read, exiting, oops, endVars>>

\* Mutant: the list_del is missing, the request stays in waiting_requests.
get_request_by_id_NoListDel(c) ==
  /\ At(c, "reply")
  /\ \E r \in waiting[c] :
       /\ id[r] = k2u[c].id
       /\ request' = [request EXCEPT ![c] = r]
       /\ Goto(c, "finish")
  /\ UNCHANGED <<reqVars, map_data, pending, wakers, connected, waiting, sending,
                 libVars, exiting, oops, endVars, executed>>

\* bius_dev_write, up to the unlock of waiting_lock and the test of sending.
get_request_by_id(c) ==
  /\ At(c, "reply")
  /\ LET found == {r \in waiting[c] : id[r] = k2u[c].id} IN
     IF \E r \in waiting[c] : Dead(r)
     THEN oops' = TRUE /\ UNCHANGED <<waiting, sending, request, pc, exiting>>
     ELSE IF found = {}
     THEN ExitFrom(c) /\ UNCHANGED <<waiting, sending, request, oops>>
     ELSE \E r \in found :
          /\ waiting' = [waiting EXCEPT ![c] = @ \ {r}]
          /\ sending' = [sending EXCEPT ![c] = IF @ = r THEN None ELSE @]
          /\ request' = [request EXCEPT ![c] = r]
          /\ Goto(c, "finish")
          /\ UNCHANGED <<exiting, oops>>
  /\ UNCHANGED <<reqVars, map_data, pending, wakers, connected, libVars, endVars, executed>>

\* Nothing of the reply's header could be copied: write() returns 0, the
\* library reads on and the request stays in waiting_requests.
ReplyLost(c) ==
  /\ "efault" \in Faults
  /\ At(c, "reply")
  /\ Goto(c, "read")
  /\ UNCHANGED <<reqVars, map_data, pending, wakers, connected, waiting, sending,
                 request, libVars, exiting, oops, endVars, executed>>

\* Mutant: every request is ended as a block request.
FinishReply_AlwaysBlk(c) ==
  /\ At(c, "finish") /\ ~Dead(request[c])
  /\ end_blk_request(request[c], reply[c])
  /\ request' = [request EXCEPT ![c] = None]
  /\ Goto(c, "read")
  /\ UNCHANGED <<reqVars, map_data, pending, wakers, connected, waiting, sending,
                 libVars, exiting, oops, executed>>

\* Mutant: the server's reply is not looked at.
FinishReply_AlwaysOk(c) ==
  /\ At(c, "finish") /\ ~Dead(request[c])
  /\ end_blk_request(request[c], "BLK_STS_OK")
  /\ request' = [request EXCEPT ![c] = None]
  /\ Goto(c, "read")
  /\ UNCHANGED <<reqVars, map_data, pending, wakers, connected, waiting, sending,
                 libVars, exiting, oops, executed>>

\* The rest of bius_dev_write when every copy works.
FinishReply(c) ==
  /\ At(c, "finish")
  /\ LET r == request[c] IN
     IF Dead(r) THEN oops' = TRUE /\ UNCHANGED <<request, pc, endVars>>
     ELSE /\ IF is_blk_request(type[r]) THEN end_blk_request(r, reply[c])
             ELSE end_request_int(r, reply[c])
          /\ request' = [request EXCEPT ![c] = None]
          /\ Goto(c, "read")
          /\ UNCHANGED oops
  /\ UNCHANGED <<reqVars, map_data, pending, wakers, connected, waiting, sending,
                 libVars, exiting, executed>>

\* The data of a read or the zone report could not be copied in. A reporter
\* gets -EINVAL and the thread goes on; for a read, write() fails and it exits.
FinishFailed(c) ==
  /\ "efault" \in Faults
  /\ At(c, "finish") /\ reply[c] = "BLK_STS_OK"
  /\ LET r == request[c] IN
     /\ type[r] \in {"BIUS_READ", "BIUS_REPORT_ZONES"} /\ ~Dead(r)
     /\ IF is_blk_request(type[r])
        THEN end_blk_request(r, "BLK_STS_IOERR") /\ ExitFrom(c)
        ELSE end_request_int(r, "ERR") /\ Goto(c, "read") /\ UNCHANGED exiting
     /\ request' = [request EXCEPT ![c] = None]
  /\ UNCHANGED <<reqVars, map_data, pending, wakers, connected, waiting, sending,
                 libVars, oops, executed>>

-----------------------------------------------------------------------------
(* The end of the server                                                   *)

Exit ==
  /\ "exit" \in Faults /\ ~exiting /\ ~oops
  /\ exiting' = TRUE
  /\ UNCHANGED <<reqVars, map_data, pending, wakers, connected, waiting, sending,
                 pc, request, libVars, oops, endVars, executed>>

\* Mutant: the wait of a read() cannot be interrupted.
Die_Uninterruptible(c) ==
  /\ exiting /\ ~oops
  /\ pc[c] \in InLibrary \cup {"read"}
  /\ Goto(c, "stop")
  /\ UNCHANGED <<reqVars, map_data, pending, wakers, connected, waiting, sending,
                 request, libVars, exiting, oops, endVars, executed>>

\* A thread ends in user mode, or when the wait of its read() is interrupted.
Die(c) ==
  /\ exiting /\ ~oops
  /\ pc[c] \in InLibrary \cup {"read", "asleep"}
  /\ Goto(c, "stop")
  /\ UNCHANGED <<reqVars, map_data, pending, wakers, connected, waiting, sending,
                 request, libVars, exiting, oops, endVars, executed>>

\* The last thread to end closes the files, one after the other.
Closing(c) ==
  /\ ~oops /\ pc[c] \in {"stop", "walk"}
  /\ \A d \in Conn : pc[d] \in Closed
  /\ \A d \in Conn \ {c} : pc[d] \in {"stop", "closed"}

\* bius_dev_release: the loop over waiting_requests. waiting[c] stands for
\* what the loop has still to visit.
ReleaseWalk(c) ==
  /\ Closing(c)
  /\ \E r \in waiting[c] :
     IF Dead(r) THEN oops' = TRUE /\ UNCHANGED <<endVars, waiting, pc>>
     ELSE /\ end_blk_request(r, "BLK_STS_IOERR")
          /\ waiting' = [waiting EXCEPT ![c] = @ \ {r}]
          /\ Goto(c, "walk")
          /\ UNCHANGED oops
  /\ UNCHANGED <<reqVars, map_data, pending, wakers, connected, sending, request,
                 libVars, exiting, executed>>

\* bius_dev_release: num_connection drops, and the last one out removes.
ReleaseDrop(c) ==
  /\ Closing(c) /\ waiting[c] = {}
  /\ connected' = connected \ {c}
  /\ Goto(c, IF connected = {c} THEN "sweep" ELSE "closed")
  /\ UNCHANGED <<reqVars, map_data, pending, wakers, waiting, sending, request,
                 libVars, exiting, oops, endVars, executed>>

\* remove_block_device: the loop over pending_requests, which takes every
\* request for the tail of a blk-mq request.
remove_block_device(c) ==
  /\ At(c, "sweep") /\ pending # <<>>
  /\ IF Head(pending) \in Reporter THEN oops' = TRUE /\ UNCHANGED <<endVars, pending>>
     ELSE /\ on_request_end(Head(pending), "BLK_STS_IOERR")
          /\ pending' = Tail(pending)
          /\ UNCHANGED oops
  /\ UNCHANGED <<reqVars, map_data, wakers, connected, waiting, sending, pc,
                 request, libVars, exiting, executed>>

\* Mutant: the disk is deleted with requests still pending.
RemoveDone_NoSweep(c) ==
  /\ At(c, "sweep")
  /\ Goto(c, "closed")
  /\ UNCHANGED <<reqVars, map_data, pending, wakers, connected, waiting, sending,
                 request, libVars, exiting, oops, endVars, executed>>

RemoveDone(c) ==
  /\ At(c, "sweep") /\ pending = <<>>
  /\ Goto(c, "closed")
  /\ UNCHANGED <<reqVars, map_data, pending, wakers, connected, waiting, sending,
                 request, libVars, exiting, oops, endVars, executed>>

-----------------------------------------------------------------------------
\* What the thread of connection c does by itself.
ThreadStep(c) ==
  \/ handle_initialization(c)
  \/ Dequeue(c) \/ FoundEmpty(c) \/ WaitEvent(c)
  \/ bius_send_command(c, FALSE)
  \/ \E n \in 1 .. MaxLen : bius_send_data(c, n)
  \/ \E res \in {"BLK_STS_OK", "ERR"} : handle_blk_command(c, res)
  \/ get_request_by_id(c) \/ FinishReply(c)

\* The exit of the process, once it is under way.
ExitStep(c) ==
  \/ Die(c) \/ ReleaseWalk(c) \/ ReleaseDrop(c)
  \/ remove_block_device(c) \/ RemoveDone(c)

\* What the environment may do to the thread.
FaultStep(c) ==
  \/ Interrupted(c)
  \/ "efault" \in Faults /\ bius_send_command(c, TRUE)
  \/ SendCommandFailed(c) \/ SendDataFailed(c) \/ ReplyLost(c) \/ FinishFailed(c)

Next ==
  \/ \E s \in Slot, op \in Ops, n \in 0 .. MaxLen : bius_queue_rq(s, op, n)
  \/ \E p \in Reporter : bius_report_zones(p) \/ ReportReturn(p) \/ ReportKilled(p)
  \/ \E i \in Id : wake_up(i)
  \/ \E c \in Conn : ThreadStep(c) \/ ExitStep(c) \/ FaultStep(c)
  \/ Exit

Spec == Init /\ [][Next]_vars

\* Threads that can run do run, a wake_up that follows an unlock is reached,
\* and so is the return of a reporter. Nothing is assumed of the block layer,
\* of signals or of faults.
Fairness ==
  /\ \A c \in Conn : WF_vars(ThreadStep(c)) /\ WF_vars(ExitStep(c))
  /\ \A i \in Id : WF_vars(wake_up(i))
  /\ \A p \in Reporter : WF_vars(ReportReturn(p))

FairSpec == Spec /\ Fairness

-----------------------------------------------------------------------------
(* Properties                                                              *)

\* The ranges of the variables.
TypeOK ==
  /\ next_request_id \in 0 .. MaxId
  /\ rstate \in [Req -> {"free", "started", "ended", "dead"}]
  /\ id \in [Req -> 0 .. MaxId]
  /\ type \in [Req -> OpCode]
  /\ length \in [Req -> 0 .. MaxLen]
  /\ map_data \in [Req -> 0 .. MaxLen]
  /\ pending \in Seq(Req)
  /\ wakers \subseteq Id
  /\ connected \subseteq Conn
  /\ waiting \in [Conn -> SUBSET Req]
  /\ sending \in [Conn -> Req \cup {None}]
  /\ pc \in [Conn -> PC]
  /\ request \in [Conn -> Req \cup {None}]
  /\ k2u \in [Conn -> [id : 0 .. MaxId, opcode : OpCode, length : 0 .. MaxLen]]
  /\ total_read \in [Conn -> Nat]
  /\ reply \in [Conn -> Result]
  /\ exiting \in BOOLEAN /\ oops \in BOOLEAN
  /\ ended \in [Id -> Nat]
  /\ result \in [Id -> Result]
  /\ executed \in [Id -> Nat]

\* What connection c is answerable for: its waiting_requests and the request
\* one of its syscalls has taken off a list and holds in a local variable.
Held(c) == waiting[c] \cup ({request[c]} \ {None})

\* A list node is on one list: bius_dev_read moves a request from the pending
\* list to one connection's waiting_requests and bius_dev_write takes it off,
\* each under a different lock, and no request is on two lists, twice on one,
\* or on a list while a syscall holds it.
OnePlace ==
  /\ IsInjective(pending)
  /\ \A c \in Conn : request[c] \notin waiting[c] /\ Held(c) \cap Range(pending) = {}
  /\ \A c, d \in Conn : c # d => Held(c) \cap Held(d) = {}

\* end_blk_request and end_request_int, called from read(), write(), release
\* and the removal of the device, end no request twice.
EndedOnce == \A i \in Id : ended[i] <= 1

Linked == Range(pending) \cup UNION {Held(c) : c \in Conn}

\* A request that was queued and not ended is still on a list or in the hands
\* of a syscall: none of the error returns loses it.
NoLostRequest ==
  \A i \in 1 .. next_request_id : ended[i] = 0 => \E r \in Linked : id[r] = i

\* A syscall holds a request exactly between taking it off one list and
\* putting it on the next or ending it.
Hands == \A c \in Conn : request[c] # None <=> pc[c] \in {"send", "finish"}

\* What the lists hold are open requests: each has an id of its own that was
\* given out and not ended. A tag that blk-mq reuses is on no list.
Accounts ==
  /\ \A r \in Linked :
       rstate[r] \in {"started", "dead"} /\ id[r] \in 1 .. next_request_id /\ ended[id[r]] = 0
  /\ \A r, q \in Linked : id[r] = id[q] => r = q
  /\ \A i \in Id : i > next_request_id => ended[i] = 0

\* Together inductive.
Ledger == OnePlace /\ Hands /\ Accounts /\ EndedOnce /\ NoLostRequest

Looking == {c \in Conn : pc[c] \in {"read", "prewait"}}

\* wake_up is called after pending_lock is released and wakes one exclusive
\* waiter: while readers sleep, every pending request has a reader that is
\* about to look at the list or a wake_up still to come.
WakeupsSuffice ==
  ~exiting /\ Asleep # {} => Len(pending) <= Cardinality(Looking) + Cardinality(wakers)

\* Driver and library agree on what the next read() of a connection means:
\* connection->sending is set exactly while the library copies data in, for
\* the request it was told of, and map_data is the "remain length".
DataPhaseAgrees ==
  \A c \in Conn :
    /\ pc[c] \notin Closed \cup {"copyin"} => sending[c] = None
    /\ pc[c] = "copyin" =>
         /\ sending[c] \in waiting[c] /\ id[sending[c]] = k2u[c].id
         /\ map_data[sending[c]] = k2u[c].length - total_read[c]
         /\ map_data[sending[c]] > 0

\* A request ended with BLK_STS_OK was carried out by the server.
OkMeansServed ==
  \A i \in Id : ended[i] > 0 /\ result[i] = "BLK_STS_OK" => executed[i] > 0

\* The request path implements the service its callers see.
Service == INSTANCE BlockService WITH
  Answer <- Result,
  issued <- next_request_id,
  served <- executed,
  outcome <- [i \in Id |-> IF ended[i] = 0 THEN "none" ELSE result[i]]

\* Through every hand-over between block layer, driver and library a request
\* is executed at most once, before its answer, and answered once, with OK
\* only if it was executed.
ImplementsService == Service!ServiceSpec

\* bius_report_zones returns what the server replied, not an int_result that
\* nobody assigned.
ReportsAreAnswers ==
  \A p \in Reporter : rstate[p] = "ended" => result[id[p]] # "GARBAGE"

\* connection.h says of waiting_requests "List of requests waiting for
\* userspace response": nothing on the list is the remains of a stack frame.
WaitingAreRequests ==
  \A c \in Conn : \A r \in waiting[c] : rstate[r] = "started"

\* When the last connection is closed every request has been ended.
TeardownLeavesNothing ==
  (\A c \in Conn : pc[c] = "closed") => \A i \in 1 .. next_request_id : ended[i] = 1

\* Every request that is queued is ended.
EveryRequestEnds ==
  \A i \in Id : next_request_id >= i ~> ended[i] = 1

\* An exit of the server reaches the end of the last release.
ExitCompletes == exiting ~> \A c \in Conn : pc[c] = "closed"
=============================================================================
