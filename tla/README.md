# BIUS: a TLA+ model of the driver, the library and the example servers

BIUS puts a Linux block device in user space. A kernel module turns requests of
the block layer into commands that a server process reads from `/dev/bius`,
and the server's replies into completions. This directory models that path from
the test program down to the example servers' disks, checks the models with TLC
and proves with TLAPS the safety properties of the request path, the teardown, the
registry, the data path, the data map and the zoned servers for every number of
requests, connections, tags, bytes, pages, zones and threads. Every invariant that a
passing run checks is also proved, some of them under the conditions named below.

## The system

| Part | State | Operations | Module |
|---|---|---|---|
| Block device, `kernel/block_dev.c`, `request.h` | `pending_requests` under `pending_lock`, wait queue, `next_request_id`, the `bius_request` behind each blk-mq tag | `bius_queue_rq`, `bius_report_zones`, `remove_block_device`, completion through `on_request_end` | `BiusTransport`; `BiusTeardown` for the lists as pointers |
| Character device, `kernel/char_dev.c`, `command.h`, `connection.h` | per connection: `waiting_requests` under `waiting_lock`, `sending` | `open`, `read` (command or data), `write` (initialisation or reply), `release` | the same; `BiusDataPath` for the bytes |
| Registry, `block_dev.c`, `char_dev.c` | `all_disk_list`, `num_connection` | create, connect by name, removal by the last connection | `BiusRegistry` |
| Library, `library/libbius.c` | per thread: a descriptor, the last header `k2u`, the reply `u2k`, a copy buffer | start-up, `read_command`, `handle_copy_in`, dispatch, `write_command`, `exit(1)` on errors | its steps in each of the above, and in `BiusDataMap` |
| Zoned servers, `examples/zoned-common.h`, `zoned-ramdisk.c` | `zone_info`, three counters, a spin lock per zone and a global one | write, append, open, close, finish, reset, reset all, read, report, SIGINT | `ZonedCommon`, composed into `ZonedServer` |
| Data mapping, `kernel/data_mapping.c` (only with `CONFIG_BIUS_DATAMAP`) | page table entries, mapping list, reserved pages | map, copy misaligned pages, unmap | `BiusDataMap` |
| Ramdisk, passthrough, `blktest` | the disk | `memcpy`, `pread`, `pwrite`, write all and verify | `BiusDataPath` |

What is hard here: a request passes through several hands under different
locks and is on no list in between; the wake-up of a reader comes after the
unlock and wakes one of several; `read()` means a command or data depending on
state that driver and library keep separately; copies to user memory fail half
way; the server dies at any moment, with several descriptors to close, and the
teardown walks lists without locks; devices are found and removed by name, under
other locks than the ones that count their users; `report_zones` callers keep
their request on the stack and can be killed; pages are mapped through lists that
are reused from request to request; and in the zoned servers two kinds of locks
are taken in two orders and the data moves outside both.

What makes the parts correct: every request is ended, once, with the server's
answer or an error; none is forgotten on an error path; no reader sleeps while
work is pending; OK is only reported for what was carried out; lists stay whole;
a device lives as long as it is used and no longer; the bytes arrive in order,
whatever the split, and no others are shown; the counters of the zoned servers
say how many zones are open and active, writers never get the same sectors, and
what was written is on the disk. `PROJECT.json` lists the hazards with the line
where each one bites and the properties aimed at it.

## Modules

Each component module `M` has an `MCM` and one or more `.cfg` for TLC.
`BlockService` is what callers see of the request path, and `BiusTransport` is
shown to implement it. `ZonedServer` extends `ZonedCommon`: its steps are the
steps of `ZonedCommon` with the disk beside them. The theorems are in modules of
their own: `BiusTransportProofs` and, on top of it, `BiusServiceProofs`;
`ZonedCommonProofs` and, on top of it, `ZonedServerProofs`;
`BiusTeardownProofs`; `BiusRegistryProofs`; `BiusDataPathProofs`;
`BiusDataMapProofs`.

### BiusTransport

A request is a blk-mq tag (`Slot`) or the stack frame of a `report_zones`
caller (`Reporter`); `id`, `type`, `length`, `map_data` are the fields of its
`bius_request`, `rstate` whether it is in use. `pending` is the pending list.
Each connection `c` has `waiting[c]`, `sending[c]` and the thread that serves
it, of which `pc[c]` says where it is, `request[c]` which request a running
system call holds in a local variable, and `k2u[c]`, `total_read[c]`,
`reply[c]` what the library knows. A step is what the code does under one lock
or with its own variables only. `ended`, `result` and `executed` are history:
what became of each id.

| Code | Actions |
|---|---|
| `bius_queue_rq` | `bius_queue_rq` (list insertion), `wake_up` (after the unlock) |
| `bius_report_zones` | `bius_report_zones`, `wake_up`, `ReportReturn`, `ReportKilled` |
| `bius_dev_read` | `Dequeue`, `FoundEmpty`, `WaitEvent`, `Interrupted`, `bius_send_command`, `SendCommandFailed`; with `sending` set, `bius_send_data`, `SendDataFailed` |
| `handle_requests` | the order of the labels, `handle_blk_command`, and the exits in the failing actions |
| `bius_dev_write` | `handle_initialization`, `get_request_by_id`, `FinishReply`, `FinishFailed`, `ReplyLost` |
| exit, `bius_dev_release`, `remove_block_device` | `Exit`, `Die`, `ReleaseWalk`, `ReleaseDrop`, `remove_block_device`, `RemoveDone` |

`oops` becomes true when the driver follows a pointer into a stack frame that
is gone, or takes a `report_zones` request for a blk-mq one. Anything may
follow, so the model stops there; properties hold up to that point.

Left out on purpose: offsets and contents of data (lengths are counted in
blocks); the status that `bius_queue_rq` returns in addition to ending an
unsupported request, which concerns blk-mq; a reply whose header is copied only
in part; a server without `report_zones`; the first header of a thread, which
is uninitialised if the very first `read()` returns 0 and is taken for an
unknown operation.
Requests that arrive while the last release removes the device, and the pointers
of the lists, are in `BiusTeardown`; the bytes in `BiusDataPath`.

### BiusTeardown

The same two kinds of lists, as `next` and `prev` of every node: one node per tag,
one head per connection and one for the pending list. `on` is history (the list a
request was put on), and so are `late` and `overtaken`. `rq` is whether blk-mq has
handed the tag out. blk-mq may hand out a tag again as soon as a walk has ended its
request, while the node is still linked: `bius_queue_rq` then overwrites its pointers.
`StoodOn` is the narrow place where that matters to the walk, between the body of its
loop and the step that reads the next pointer, and `overtaken` records that it happened.

| Code | Actions |
|---|---|
| `list_add_tail` in `bius_queue_rq` | `bius_queue_rq` up to the store that makes the node reachable, `Publish` that store: the unlocked sweep may come between |
| `bius_dev_read`, `bius_dev_write` | `Take`, `Await`, `bius_dev_write` |
| the loop of `bius_dev_release` | `ReleaseStart`, `ReleaseEnd` (the body), `ReleaseNext` (the step, which reads the node after the body), `ReleaseDrop` |
| the sweep of `remove_block_device` | `SweepStart`, `SweepEnd`, `SweepNext`, `SweepDone`, `del_gendisk` (external: waits for the requests in flight) |

A walk that comes to something else than an open request (a list head taken for a
request, a tag given back before) sets `stray`, and the model stops there.

### BiusRegistry

`disks` is `all_disk_list`, `num_connection`, `block_dev` and `device` (the local
variable of a syscall) have the code's names; `proc` is the life of each server
process and `maker` history. The lookup and the count of `handle_initialization`
(`Lookup`, `CountUp`) are two steps, because they take two locks, and so are the
drop of the count, the second lookup by name and the unlinking of the removal
(`bius_dev_release`, `RemoveLookup`, `Unlink`, `put_disk`, `unregister_blkdev`).
`majors` are the registered major numbers. `unregister_blkdev` gets the name inside the
disk just put: the major goes, or, if the memory was reused and the names differ,
stays for good. `create_block_device` is
one step that makes the device known, or `CreateFailed`: its negative result is
assigned to an unsigned variable and never noticed, and the model stops at the
unassigned pointer that follows. `Overlap` says whether a server may start while
another of its name still runs.

### BiusDataPath

One write pass and one read pass of `do_test_hard` over `Iter` chunks, each chunk a
request whose bios and segments are any of `Layouts`, given by the offsets at which
they end. `chain`, `bio` (the offset at which the current bio starts), `bi_done` and
`map_data` are the chain and the iterator of the `bius_request`; `buffer` and
`total_read` the library's; `seg` and `user_data` those of `bius_receive_data`;
`moved` the loop variable of a passthrough callback. Bytes are values that are all
distinct, so that a byte out of place shows.

| Code | Actions |
|---|---|
| `do_test_hard` | `Submit`, `NextChunk` |
| `handle_copy_in` | `handle_copy_in`, `ReadReturns`, `CopiedIn` |
| `bius_send_data` | `bius_send_data(n)`: one `copy_to_iter` of `n` bytes and `bio_advance_iter`; `SendDone` |
| callbacks | `ramdisk_write`, `ramdisk_read`, `passthrough_write`, `passthrough_read`, `TransferFailed` |
| `bius_receive_data`, `end_blk_request` | `bius_receive_data`, `ReceiveFailed`, `EndOk` |

### BiusDataMap

One connection of the `CONFIG_BIUS_DATAMAP` build. A request is a sequence of
segments within pages; `at` says how many bytes of the request come before a
segment. `ptes` is the server's window, `reserved` and `reserve_mapping_list` are the
reserved pages and what they stand for, `mapping_list` the list. Reserved pages and
list start with what `kmalloc` left (`Leftover`) and keep what the request before
left; `unset` is the part of the list's page that no list has reached. The loops of
the code are steps:

| Code | Action |
|---|---|
| `bius_map_data` | `bius_dev_read` starts it; `MapSegment`, one round: `AddToList` extends the last entry or starts one, `MapPage` shows the page or a reserved page; `EndMapping`, in both of the next, ends the list and chooses the type of the map |
| `bius_send_command` after it | `MapDone`, or `SendCommandFailed`: the request is ended without `bius_unmap_data`, its pages stay in the window, `read()` returns 0 and the library goes on with its old header (`stale`) |
| `handle_blk_command` and the list variant | `handle_blk_command`; `handle_blk_command_with_datamap_list`, one entry; `CallbackFails` |
| `bius_copy_in_misaligned_pages` | `bius_dev_write` starts it, `CopyEntry` is one round; `ReplyRefused` if no request has the id of the header: the library exits |
| `bius_unmap_data` | `bius_unmap_data` |

### ZonedCommon and ZonedServer

`cond` and `wp` (counted from the start of the zone) are `zone_info`; the
counters and locks have the code's names. A thread has the arguments of its
call and a label for the lock it waits for or the code it is in. A step covers
what happens between two lock operations. `zoned_reset_all_zone` takes no zone lock,
so two things are finer. `wp += length` is a load and a store. And the reset itself
begins when it has the global lock (label `wiping`) and ends with `ResetAllDone`; in
between `SeenCond`, `SeenWp` and `SeenEnd` are what others may read of a zone: old
fields, cleared ones, new ones, in any mixture. `granted` is history: the sectors
given to writers since the last reset.

`ZonedServer` adds what comes after the locks (`raw_write`, `raw_discard`), what
takes one zone lock at a time (`zoned_read`, `zoned_report_zones`) and the SIGINT
handler on top of whatever its thread was doing. A report copied while all zones are
cleared may mix fields; its entry says so (`torn`). `disk` holds which write each
sector came from, `settled` (history) which one last returned. `Ordered` says
whether the host keeps a reset apart from all other operations of its zone, and a
reset of all zones from all operations; reads, reports and signals come at any time
in either case. `SignalAt` is where in an operation a signal may hit.

Left out: the statistics, and raw writes outside their zone, to which only a write
pointer read half cleared can lead.

## What TLC checks

Every run explores all states of its instance. `CHECK_DEADLOCK FALSE` is in
every configuration because each instance has a bound on requests, devices or
operations, after which the system rightly stops. `zoned_limits` also reaches a
state in which two threads wait for each other's locks; see the known limits.

| Run | Instance | What it shows |
|---|---|---|
| `transport_live` | 1 tag, 1 reporter, 2 connections, 3 requests, no faults | `EveryRequestEnds`: every queued request is ended. `ReportsAreAnswers` |
| `transport_exit` | 2 tags, 2 connections, 3 requests, the server may be killed | `ImplementsService` (refinement of `BlockService`), `ExitCompletes` |
| `transport_faults` | 2 tags, 1 reporter, 2 connections, 2 reads or writes of up to 2 blocks, failing copies, killed reporters, a killed server | `OnePlace`, `EndedOnce`, `NoLostRequest`, `WakeupsSuffice`, `DataPhaseAgrees`, `OkMeansServed`, `TeardownLeavesNothing` |
| `transport_killed` | 1 tag, 1 reporter, 2 requests, killed reporters only | violated: a dead stack request in `waiting_requests` |
| `teardown_lists` | 3 tags, handed out again as soon as they are given back, 2 connections | `ListsWhole`, `NoStrayEnd`, `ReleaseEndsAll`, `OnlyLateOnesLeft`, `ExitCompletes`: the walks do their work unless a tag is queued again while a walk stands on it |
| `registry_restart` | 3 servers of 2 threads, two of one name but never at once, 3 devices | `InUseListed`, `OwnDeviceOnly`, `NoDangling`, `DevicesGo` |
| `datapath_faults` | chunks of 4 bytes in every split, 2 chunks, both servers, short and failing copies | `RemainMatchesChain`, `InOrderPrefix`, `VerificationOk`, `TestEnds` |
| `datamap_sequence` | pages of 3 sectors, all layouts of up to two segments and those of three around a full page, 2 requests, failing callbacks and header copies | `WrittenInOrder`, `SimpleReadsDelivered`, `OthersKept`, `NothingElseShown`, `WindowCleared` |
| `datamap_listread` | the same layouts, 1 request | violated: a read through a list is delivered in the wrong place |
| `server_disk` | 2 threads, 2 zones of 2 sectors, 3 operations (append, open, close, reset, reset all) and 1 read, report or signal, limit of 1 active zone, ordered host | `CountersExact`, `CondMatchesWp`, `GrantsDisjoint`, `SettledOnDisk`, `ReportsConsistent`, `AllReturn` |
| `zoned_limits` | 4 zones of which 1 conventional, all seven operations, 4 of them, limit of 1 open zone | `OpenCountExact` while zones are closed to make room and all are reset, with operations of the other thread during the reset |
| `zoned_leak` | 3 zones, opens only | violated: a zone refused below the limit |

The bounds. Two connections are what the races need: two readers of one list, a
reader and a releaser, two waiting lists. Two tags and two or three ids let a tag
be reused while another request is under way and let a thread hold the header of
an earlier request; two blocks are what a partial copy needs. Three tags put
two requests on a list of the teardown with a third arriving, or the first of them
again. Three devices let each server run and one of a shared name come again after
another. Four bytes in
every split have segments and bios that end together and apart, and copies that
stop inside and between them. Pages of three sectors have segments that start
late, end early, both, or neither; two requests in a row are what stale lists
need. In the zoned runs two threads meet at every pair of lock operations; two
sectors separate empty, partly written and full; three or four operations are
enough for two threads to make a zone active, write, close or reset it and open
another. `Slot` is a symmetry set in `transport_faults` and `Thread` in
`zoned_limits`, which have invariants only.

Fairness. `FairSpec` of `BiusTransport` asks that a thread that can take its
next step does (a running kernel or user thread), that a `wake_up` following an
unlock is reached, that a reporter whose semaphore was raised returns, and that
a dying process proceeds. Nothing is asked of the block layer, of signals or of
faults, and nothing makes a sleeping reader wake by itself. `BiusTeardown` asks
that whoever is inside `list_add_tail` or a system call leaves it, that release
and sweep go on, and, strongly, that a thread with a kill pending dies: it cannot
go back to a system call for ever. `BiusRegistry` asks that a system call under way
and an exit go on, `BiusDataPath` that its one thread does. In `ZonedServer` a
thread goes on when the lock it spins on is free; since a run starts finitely many
operations, weak fairness is enough.

Each property of a passing run has a mutant: an operator with a `_Suffix` right
before the action it replaces, which changes it as a plausible bug would (a
missing recheck, a missing `list_del`, a dropped decrement) and makes TLC report
that property.

### The three violations

- `bius_report_zones` puts a request on its stack, and when `down_killable`
  is interrupted it returns without unlinking it. `waiting_requests` then holds
  something else than "requests waiting for userspace response"
  (`connection.h`).
- `open_zone_locked` raises `num_active_zones` before it looks at the limit on
  open zones and leaves it raised when the open fails. After that, zones are
  refused with `BLK_STS_ZONE_ACTIVE_RESOURCE` although fewer are active than
  allowed, against the comment in `blk_status.h`.
- `bius_copy_in_misaligned_pages` takes offset and end of an entry from
  `mapping_list[i]` where the address is at `mapping_list[i * 2]`. From the second
  entry of a list on, a read is copied to wrong places, and what `blktest` calls
  "Verification failed" would follow for such a layout.

### Known limits of the passing runs

Some properties hold only in part, and the runs say so by their instance. No text
in the repository says otherwise, so these are recorded as hazards and not as
violations.

- `ReportsAreAnswers` without faults: an error path ends a report with
  `end_blk_request`, and `int_result` stays unassigned.
- `ImplementsService` without failing copies: after a `read()` of 0 the library
  executes its last header again.
- `NoStrayEnd`, `ReleaseEndsAll`, `OnlyLateOnesLeft` and `ExitCompletes` of
  `BiusTeardown` unless the tag on which a walk stands is queued again before the walk
  reads its next pointer (`overtaken`). The model reaches this. In `bius_dev_release`
  the walk then goes on along the pending list to its head, which it takes for a
  request, and never reaches the rest of the waiting list. In the sweep the next pointer is
  the head: with `s1` and `s2` pending, `s1` is ended and queued again, the sweep is
  over, and `s2` stays open although nothing arrived late.
- `ExitCompletes` of `BiusTeardown` also unless a request is published after the sweep
  met the head: nobody ends that one, and `del_gendisk` waits for it. It further needs
  the block layer to stop sending: otherwise the sweep may meet the same tags for ever.
- `NoDangling` for all uses of a put disk but one: `unregister_blkdev` is given the
  name inside the disk that was put the line before.
- `NothingElseShown` and `OthersKept` until a header cannot be copied out: then the
  pages of the ended request stay in the window, and the library's old command runs on
  them once. `WindowCleared` says that nothing else is mapped before the server is gone.
- `NothingElseShown` for the part of the list's page that a list was stored in. The page
  comes from `kmalloc` and is never cleared: the rest shows what was there.
- `ReportsConsistent` except for zones that a reset of all zones clears while they are
  copied.
- The properties of `BiusRegistry` for servers of one name that run one after the
  other: with `Overlap = TRUE` `InUseListed`, `OwnDeviceOnly` and `NoDangling` are
  violated. They also stop at a failed `create_block_device`, which goes unnoticed.
- `OthersKept` for writes and simple maps; the third violation shows the rest.
- `SettledOnDisk`, `CondMatchesWp` and `GrantsDisjoint` for a host that keeps resets
  apart from other operations: with `Ordered = FALSE` a discard wipes out a later
  write, a reset of all zones comes between the load and the store of `wp += length`,
  and an append during such a reset may get a write pointer of 0.
- `CountersExact`, `CondMatchesWp` and `AllReturn` without closing zones to make
  room: after it the target is not opened, and zone locks and the global lock are
  taken in both orders, so that two threads can wait for each other.
- `AllReturn` for signals that find their thread outside the zone operations: with
  `SignalAt = {"load"}` the handler waits for a spin lock that its own thread holds.

## What is proved

All theorems are safety results for every value of the constants that the
`ASSUME` of the component's module allows; TLC evaluates these assumptions on
every run. A theorem that holds under a further condition on a constant says so
in its statement; the last column says what happens without it:

| Condition | Meaning | Without it |
|---|---|---|
| `"efault" \notin Faults` | no copy to or from the server's memory fails | the library executes its last header again |
| `Faults \subseteq {"kill"}` | in addition the server does not exit | an error path leaves `int_result` unassigned |
| `RoomForAll` | `max_active_zones <= max_open_zones`, or no more zones than may be open | `zoned_leak`; no open may have to close another zone |
| `"reset_all" \notin Ops`, `Ordered` | no reset of all zones, or a host that keeps resets apart from other operations | a reset between load and store of `wp += length`, and zones read half cleared |
| `~Overlap` | no two servers of one name at once | connect and remove go by name |
| `SegmentsApart` | the segments of a request do not overlap in memory | a byte of two segments can hold only one of the disk's bytes |

The shipped limits are 32 open and 64 active zones: `zoned-passthrough` with at
most 32 zones satisfies `RoomForAll`; `zoned-ramdisk`, with 1024 zones, does not,
and only `CountsInvariant` and its parts speak about it as shipped.

### The request path: BiusTransportProofs, BiusServiceProofs

- `LedgerInvariant`: `TypeOK /\ Ledger` is inductive. `OnePlace`, `EndedOnce` and
  `NoLostRequest` are not inductive alone: that ending a request is the first
  time depends on every request on a list being open (`Accounts`), that a
  request taken from a list is on no other depends on `OnePlace`, and that a
  system call has a request to act on depends on `Hands`. `Ledger` is their
  conjunction. Its proof sorts the actions into steps that leave lists and hands
  alone, move a request within a connection, end one, or add one, with a lemma
  each. `TypeCorrect`, `RequestsInOnePlace`, `RequestsEndedOnce` and
  `RequestsNotLost` are its parts.
- `NoLostWakeup`: `WakeupsSuffice` by counting: each action that adds a pending
  request adds a wake-up, each that removes a looking reader removes a request,
  finds the list empty or was preceded by a `wake_up`. Beside the types it needs
  that a wake-up to come belongs to an id given out (`WakersIssued`), so that a
  new request really adds one.
- `TeardownEndsAll`: `TeardownLeavesNothing`, from `NoLostRequest` and the fact
  that a closed connection holds nothing and that the last one emptied the
  pending list.
- `DialogueInvariant`, `DataPhaseKept`, `OkOnlyIfServed`: what driver and library
  know of one another, under every fault. `DataPhaseAgrees` says nothing about
  the labels around the data phase; `Dialogue` adds that the request found for a
  reply is the one the header names, and that an OK in the reply stands for
  something carried out.
- `HeadersInvariant`, `ServiceRefined`: without failing copies the request path
  implements `BlockService`. The mapping is `issued <- next_request_id`,
  `served <- executed` (how often an id was carried out, so that a second time would
  be no step of the service) and an `outcome` read from `ended` and `result`. Every
  action falls into one of five effects on these (none, submit, reject, serve,
  reply); `Headers` supplies that a header in the library's hands is that of a
  waiting request not carried out before.
- `ReportersAnswered`: `ReportsAreAnswers` when reporters may be killed and nothing
  else fails.

### The zoned servers: ZonedCommonProofs, ZonedServerProofs

- `CountsInvariant`, with `ZonedTypeCorrect` and `OpenZonesCounted`: the counters of
  open zones are exact at every moment, for all operations and any limits. The
  number of zones in a condition is `Cardinality` of a set; one lemma says how a
  change of one zone moves it, and each action is that lemma twice or thrice.
  Of `num_active_zones` only `>=` holds: what an open leaves raised is the leak.
- `ExactInvariant`, `ActiveZonesCounted`, `RefusalsJustified`: with `RoomForAll` the
  branch that leaks is never taken, so that the active count is exact and a zone
  is refused at the limit only (`RefusedOnlyAtLimit`, violated in `zoned_leak`,
  whose limits are outside `RoomForAll`).
- `ZonesInvariant`: `CondMatchesWp /\ GrantsDisjoint`. Needed beside them: which
  labels hold the lock of their zone and that one thread does at a time, what
  the loaded value of `wp` is worth while the lock is held, and that a zone at its
  capacity is full or about to be marked full by the thread that filled it. While no
  reset of all zones runs beside another operation (`ResetAllAlone`), operations find
  the zones as they are (`SeenAsIs`).
- `ServerIsZoned` carries the results over to `ZonedServer`. `ServerInvariant` adds
  the disk: under `Ordered` a thread past its lock still owns the sectors it was
  granted, so that `raw_write` of two threads and `raw_discard` cannot meet. From it
  `ServerCondMatchesWp`, `ServerGrantsDisjoint` (now with resets of all zones),
  `ServerSettledOnDisk` and `ServerReportsConsistent`; and `ServerCountersExact`.

### The lists: BiusTeardownProofs

`TeardownInvariant`, with tags handed out again at any time. `Inv` has two halves.

Until the first file is closed (`Serving`):

- `Links`: every linked node and its neighbours point at each other, except
  around a request half way into the pending list (`HalfWay`); and there is no
  circle without a head. The last is stated without induction, as "every set of
  listed requests has a member whose predecessor is outside it" (`Acyclic`), which
  each `list_add_tail` and `list_del` keeps.
- `Usage` and `Phase`: an open request is on a list, being added or held by one
  `read()`; no list is walked while a thread serves.

From then on the lists are not whole any more: a tag queued again is linked in two
places. Unless a walk was overtaken, `Walks` still holds. It speaks only of the open
requests of a list (`Live`): they form a chain that ends at the head (`Chain`), without
a circle (`Unrolled`), and the walk is at the first of them (`At`), or at the node just
before it (`Behind`), whose request it has ended. `Behind` uses that node's next
pointer, which is right because nobody queued that tag again; `At` says nothing about
the previous node of the first request, because the tag before may be at the end of
the list by now. New requests come behind the last of the chain (`Tail`). So the node a
walk comes to is open (`NoRequestEndedTwice`), and when it meets the head no open
request can be left, since one would be behind a node of the chain
(`ReleaseMissesNone`, `SweepMissesOnlyLate`).

`TeardownTypeCorrect` needs `Links`: a pointer taken from a list is a node only because
the node it is taken from is linked. `ListsStayWhole` is a part of `Links`.

### The registry: BiusRegistryProofs

`RegistryInvariant` under `~Overlap`: a process has at most one device on the list,
and one of its connections is there that keeps it (`ListOK`); `num_connection` is
the number of connections that use the device (`CountOK`); while a connection
creates, the others of its process are off, and while one removes, none uses the
device any more (`PairOK`). The second lookup by name finds the right device
because whoever has that name is not off, hence the same server. From it
`RegistryTypeCorrect`, `UsedDevicesStay`, `DevicesOfTheirOwn` and `NothingDangles`.

### The bytes: BiusDataPathProofs

`DataPathInvariant`, without any condition, for every chunk size, number of chunks
and split. `DataInv` follows the data through the stages of a request: while it is
copied in, the iterator is inside its bio and stands at `total_read + total_sent`
(`Sending`); what a callback has moved has arrived (`Serving`); the segments received
hold the data and `user_data` keeps up with them (`Replying`); and the chunks before
this one are on the disk (`OnDisk`). `VerificationOk` speaks of the end of a read only
and is not inductive without all four. Three facts carry the proof: behind every
offset short of the end there is a next end of a bio and of a segment
(`NextEndIs`, from the well-foundedness of `<`), a segment does not reach beyond its
bio, and chunks take places of their own on the disk (`PlaceIs`). From it
`RemainIsExact`, `ReceivedInOrder` and `TestVerifies`.

### The data map: BiusDataMapProofs

`DataMapInvariant`, without any condition, for every page size, every layout of the
segments, every leftover and every number of requests. `DataMapInv` is `MapInv` and
`ListOK` (what is stored in the list are numbers of the window) until a header cannot
be copied out, and then `StaleOK`: the server takes nothing more, and its window is
empty when it is gone. The byte `b` of a request is at
address `vm_start + Base(l, s) + b` of the window, where `s` is its segment: `Base` is
the same for all segments of one entry, because `bius_map_data` joins two segments only
if one ends its page and the next starts its own. `MapInv` says so of the list as far
as it has been written: a splitting `f` of the segments exists such that entry `e` is
the address and the length of segments `f[e] .. f[e + 1] - 1` (`Splits`). Beside it,
`Shown` and `Numbered`: each page of the window shows its segment, through a reserved
page of its own if it is covered in part, these are handed out in order, and what does
not belong to the segment in them is zero; `WindowOK`: the rest of the window is the
zero page, and `request.size` is what is in use; `WriteOK`: a write has the bytes up to
`offset` on the disk; `KeptOK`: other memory is as before. None of the properties is
inductive alone: that a call of the server stays within the request needs the list, the
window and the layout together (`Located`, `ByteIn`).

From it `WindowIsCleared`, `WindowShowsRequest`, `WritesInOrder` and `OthersAreKept`.
For `SimpleReadsAreDelivered` `ReadOK` follows a read through a simple map: after the
server's call the data is in the pages and the reserved pages, and since a simple map
is one run, only the first and the last segment can have a reserved page, numbered 2
and, if both have one, 3 (`RunEdges`), which are those that
`bius_copy_in_misaligned_pages` copies (`CopySimple`). For a list that function is
wrong (`datamap_listread`), so that nothing is claimed of it.

### Model-checked only

- Liveness under fairness (`EveryRequestEnds`, both `ExitCompletes`, `DevicesGo`,
  `TestEnds`, `AllReturn`): beyond the prover.
- The violations: they are counterexamples.

## Not modelled

- The kernel thread of `bius_revalidate`: the driver keeps no count for it, and a
  model would only restate the missing reference.
- Inside `create_block_device`, the calls into the kernel: one step here.
- Of the data map: setting up the window, TLB flushes, the limit on reserved pages
  (256 segments are beyond TLC) and zone appends through a list, which need the zones
  beside it. A header copied out only in part, at which the library exits at once, is
  left out here too.
- Flush and discard of the plain servers: flush has no state in the model, and the
  driver announces no discard.
- `kernel/main.c`, macros, option handling and printing; the kernel patch.

## Plan

1. `BiusTransport`, `BlockService` and their proofs; `ZonedCommon` - done.
2. `BiusTeardown`, `BiusRegistry`, `BiusDataPath`, `BiusDataMap`, `ZonedServer` - done.
3. Proofs of the request path, its refinement of `BlockService`, the zoned servers,
   the teardown, the registry, the data path and the data map - done.
4. Left: zone appends through a list, which need the data map and the zones in one
   model, and the limit on reserved pages, which needs segments longer than a page.
