# IsoAgLib in TLA+

IsoAgLib is a C++ library for ISO 11783 (ISOBUS) electronic control units (ECUs): it lets an
application claim an address on the CAN bus, exchange messages longer than a frame, and talk to
virtual terminals, task controllers and file servers. This directory holds TLA+ modules of its
protocol engines, the TLC configurations that check them on small instances, and theorems that
TLAPS proves for every instance.

Paths below are relative to `src/library/xgpl_src/IsoAgLib/` unless they start with `src/`.
`PROJECT.json` gives, for every definition, the source lines it models.

    tlc -workers 2 -config Scheduler.cfg MCScheduler.tla     # check a run
    tlapm Scheduler_proofs.tla                               # check the proofs

## 1. The system

The library is single-threaded in its default build. The application's main loop calls
`timeEvent()`, which runs every scheduler task that is due, and `processMsg()`, which hands
received CAN frames to the objects registered for them. There are no unit tests; asserts,
comments and the documentation in `src/documents` and the headers are what the program says of
itself.

| Component | State | Operations | Hard about it |
|---|---|---|---|
| Scheduler (`scheduler/impl`) | list of tasks in trigger order, per task trigger time, period, flags | `registerTask`, `deregisterTask`, `setPeriod`, `setNextTriggerTime`, `timeEvent`, `timeEventPost` | a task makes all these calls on itself and others while the list is being worked off; overruns |
| Multi-packet sending (`comm/Part3_DataLink`) | list of `SendStream_c`, the state and counters of each, one scheduler task | `addSendStream` and its wrappers, `processMsg` (CTS, EoMA, abort), `timeEvent`, `abortSend` | any CTS at any time, rewinding streamers, notifications that start the next stream while the list is iterated |
| Multi-packet receiving (`comm/Part3_DataLink`) | clients with cached addresses, list of `Stream_c` | `registerClient*`, `deregisterClient`, `processMsg` (RTS, BAM, DPO, data, abort, fast packet), `timeEvent`, address changes | data packets that name no message, clients that leave, addresses that move, time-outs racing late packets |
| Network management (`comm/Part5_NetworkManagement`) | list of `IsoItem_c`, table by address, own `IdentItem_c`s, time of the last request | `registerIdentItem`, `deregisterIdentItem`, claims and requests in `processMsg`, `timeEvent` of monitor, identity and item, broadcasts to handlers | claims that cross on the bus, several identities per ECU, three state machines over one address |
| CAN input and output (`driver/can/impl`) | filter boxes, reordered by use; send queue | `insertFilter`, `deleteFilter`, `processMsg`, `operator<<` | customers that insert and delete filters inside the dispatch; overlapping filters |
| Filters that follow addresses (`isofiltermanager_c`) | filter list by NAME | reacts to address changes | built only with `HAL_USE_SPECIFIC_FILTERS` |
| ISOBUS start and stop (`comm/impl/isobus_c`) | none of its own | `init`, `close`, `sendMsg` | order of subsystem start and stop |
| File-server client (`comm/Part13_FileServer_Client`) | servers by NAME and state, one communication per client and server, one command with its packet and time stamps | directory, file and volume commands, initialisation sequence, status reception | retries against late answers, a shared send buffer, transaction numbers |
| Task-controller client (`comm/Part10_TaskController_Client`) | connection state, command state, pool upload, measurement programs | connection sequence, command time-outs, upload, process data | answers that arrive after the time-out or after a reconnect |
| Virtual-terminal client (`comm/Part6_VirtualTerminal_Client`) | terminal instances, connection state, four command queues by priority, upload phases | command queuing and replies, pool upload, terminal loss and return, auxiliary assignments | answers matched by one byte, transfers ended during a terminal's loss |
| Diagnostics, proprietary messages, requests for PGNs | small lists | request handlers | re-entrant registration |
| Tractor, positioning and time data (`comm/Part7_ApplicationLayer`) | last value and source with its time-out, about forty alike files | decode, encode, select the source | source change-over |
| Utilities, hardware abstraction, system, supplementary drivers, `src/tools` | - | - | - |

How they interact: every periodic or timed object is a `SchedulerTask_c`; every receiver is a
`CanCustomer_c` in a filter box; everything that sends goes through `IsoBus_c::sendMsg()`, which
asks the network management for the addresses; everything that follows partners is a
`ControlFunctionStateHandler_c`, to which the monitor list broadcasts additions, removals and
changes of address; and the clients of Parts 6, 10 and 13 send and receive their long messages
through the two multi-packet components.

What makes each correct: the scheduler never loses, duplicates or starves a task and never lets the
main loop oversleep one; a transport delivers a message whole and once or not at all, and says so
truthfully; after claims have been processed no address has two users and everybody's list
agrees; a client's command ends once, with its own answer or with a time-out, and its connection
never stands still.

## 2. Modules

| Module | Models |
|---|---|
| `Scheduler` | `Scheduler_c` and `SchedulerTask_c`, one action per call |
| `Scheduler_proofs` | theorems about it |
| `SendStream` | `SendStream_c`: a record and one operator per handler |
| `MultiSend` | `MultiSend_c`: the list of streams, its task, peers that answer anything |
| `MultiSend_proofs` | theorems about it |
| `RecvStream` | `Stream_c`: a record and one operator per handler |
| `MultiReceive` | `MultiReceive_c`: clients, streams, its task, peers that send anything |
| `MultiReceive_proofs` | theorems about it |
| `Delivery` | abstract: what a transport protocol promises its two users |
| `Transport` | one `SendStream` and one `RecvStream` joined by a lossy bus; implements `Delivery` |
| `IsoMonitor` | `IsoMonitor_c`, `IsoItem_c`, `IdentItem_c` of one ECU: a record and one operator per handler |
| `IsoFilter` | `IsoFilterManager_c` and `IsoFilterBox_c` of one ECU: a record and one operator per handler |
| `AddressClaim` | ECUs that run `IsoMonitor` with its `IsoFilter` on one bus, and foreign nodes |
| `AddressClaim_proofs` | theorems about `IsoMonitor` and `AddressClaim` |
| `CanDelivery` | abstract: what customers that register filters may rely on |
| `CanDispatch` | `CanIo_c` and `FilterBox_c`: the boxes and the walk through one; implements `CanDelivery` |
| `CanDispatch_proofs` | theorems about it, and that it implements `CanDelivery` |
| `FsCommand` | `FsCommand_c`: one command of a file-server client, a record and one operator per handler |
| `FsClient` | `FsManager_c`, `FsServerInstance_c` and `FsClientServerCommunication_c` with a server that answers late or never |
| `FsClient_proofs` | theorems about `FsCommand` and `FsClient` |
| `TcConnection` | `TcClientConnection_c` with its `CurrentCommand_c` and `ControlSourceHandler_c`: a record and one operator per handler |
| `TcClient` | `TcClient_c` with its clients, task controllers and peers |
| `TcClient_proofs` | theorems about `TcConnection` and `TcClient` |
| `VtConnection` | `VtClientConnection_c` with its `CommandHandler_c`, `UploadPoolState_c` and `MultipleVt_c`: a record and one operator per handler |
| `VtClient` | `VtClient_c` with one connection, terminals, and the application's commands |
| `Lists`, `SequenceLemmas` | operators on sequences, and lemmas about sequences and sets of naturals that the proofs share |
| `MC*` | the small instances TLC checks |

`SendStream`, `RecvStream`, `IsoMonitor`, `IsoFilter`, `FsCommand`, `TcConnection` and `VtConnection` have no variables: the record is the object, an operator the method,
and a second operator of the same arguments (or the field `out`) what the method puts on the bus.
That way `MultiSend` and `Transport` run the same sender, `MultiReceive` and `Transport` the
same receiver, and every client of a scenario the same connection. An operator `X_Something` in front of `X` is a plausible defect of `X`, used to see
that the properties can tell the difference; no specification refers to it.

A run covers several *scenarios*: a record, chosen in `Init` and never changed, that says which actors there are,
what they do and how often. The properties hold in every one of them unless a premise names the
scenario. One scenario per question keeps each state space small where a single instance that allows
everything would not be finite in practice.

### Scheduler

`timeEvent()` of the scheduler is the sequence `EnterTimeEvent`, (`StartTask`, calls, `FinishTask`)*,
`LeaveTimeEvent`; `phase` is the place of the main thread. The clock may advance between any two
steps, so that tasks overrun by any amount. `Calls` are made by the application between calls of
`timeEvent()` and by the running task, on itself and others. `FinishTask` is `timeEventPost()` with
its three cases. Left out: names, statistics, the mutex and the break flag of the multi-threaded
build, and the early return of `timeEvent()` with 0 when it ran longer than `ISOAGLIB_SCHEDULER_MAX_TIMEEVENT`
(`scheduler_c.cpp:105`, 137), an option that `doc/txt/mainpage.txt:624` offers and no configuration in the repository sets.
Under that option the loop could stop between any two tasks; the next call goes on with the front of the list.

### Sending

`SendStream` keeps the two state machines (`men_sendState`, `men_sendSuccess`), the position in the
data, the counters of a burst, the streamer's position with its bookmark, and the time left until
`mi32_timestampToWaitTo`. Data is counted in packets; for the positions the code computes in bytes
the comment in the module says why the comparison is the same. `MultiSend` visits the streams in
list order, erases the finished ones, and lets handlers start the next stream from inside the
notification. The CAN send buffer is the nondeterministic number of free places at each
`timeEvent()`. A send that is refused leaves the list as it is: because one runs for the pair it is modelled, because a NAME is not
known (`MS_NOT_STARTED_NW_RESOLUTION_ERROR`, `multisend_c.cpp:233`) it is left out, as nothing changes.

### Receiving

`RecvStream` keeps what `Stream_c` counts: next packet, burst, page offset, what is awaited and
until when. `MultiReceive` adds the clients with their cached addresses, the monitor list as far
as it matters (address of every NAME), and the task. The CTS delay and the split of a burst among
clients are the code's. Left out: the display statistics, the storage of chunks, and
`ENABLE_MULTIPACKET_RETRY`, which the default build leaves off. When a name leaves the
monitor list (`RemoveItem`) `MultiReceive_c` does nothing (`multireceive_c.cpp:1424`, a to-do there): clients and streams keep the address it had, which another
name may take. The history variable `stale` remembers that it happened to a cached address; what the module promises about peers and their
clients ends there, what it promises about counters and ends does not.

### Transport

The bus carries the messages of each direction in order and may lose them. `payload` marks data
packets with the transfer they are from; no handler looks at it, as nothing in a real packet tells.
With `prompt` the clock advances only when nothing is due, the assumption under which ISO 11783-3 chose its time-outs; without it every
message and task is late by any time. Times are in units of 250 ms, as the constants of the
code, except that the 50 ms between the packets of a broadcast are one unit and the 250 ms (`T1`) in
which the receiver expects the next packet are two, so that the one stays shorter than the other.

### Address claim

`IsoMonitor` holds the list in list order (the first match counts in the code), the table by address
with pointers that may dangle (a dangling pointer resolves to any outcome a freed item can have),
the identities, and `known`, which is what a handler learns from broadcasts. Item ids
are reused as memory is. `AddressClaim` gives each ECU a queue of messages; every ECU
processes in bus order but at its own pace. `TimePasses` waits until each ECU's time event ran and at
most `late` messages are unprocessed. Left out: `calc_randomWait` (time events are late by any
number of ticks anyway), the working-set announce, `init()`/`close()`, and the time stamp of a
message, for which the time of processing is taken. The handlers' broadcasts also reach `IsoFilter`, which
keeps the filters that are given by NAMEs: `filters.boxes` are the manager's boxes with the addresses they
last heard, `filters.can` what it has inserted at `CanIo_c`. (The default build of the PC target
leaves `HAL_USE_SPECIFIC_FILTERS` on.)

### CAN dispatch

`Receive` chooses the box that takes a frame, `Turn` gives it to the next customer, who may insert and
delete any filter before it returns; `index` and `size` are the static members that `deleteFilter` adapts while the walk is on. A deleted
box is `Freed`: what a walk reads after that is what the code's own members say. The number of matches that makes boxes swap
saturates at `UpdateRate`. Left out: sending, the wait for a free send buffer, time, the bus-off state.

### File-server client

A record of `FsCommand` is one command object with the packet it is sent in, its transaction number, its time stamps and
its two flags for long requests. `FsClient` adds the server as `FsServerInstance_c` sees it, the initialisation
(properties, then volumes) that runs in the manager on behalf of the first client, the clients that register,
connect and leave, the transfers of long requests and the server's queue of requests per client. Sizes of files
and names are not counted: a request is short or long, an answer has one part or several. An application that calls from inside
a notification is that call right after the handler. Assumed: a server answers one client's requests in order;
what is under way is dropped when the server counts as lost (6 s); an application connects to a server it was told is
usable; the client's address is claimed. Left out: `initializeVolume`, the maintenance message, the contents of buffers, and what a handler
does with a reference to a deleted server.

### Task-controller client

A record of `TcConnection` is one client's connection: its state (`men_devPoolState`), the command awaited with its age, the
labels that decide whether the description is uploaded, and the sources that set its values. `TcClient` adds servers with
their two views of liveness (the cached status that clients are told of, and the time stamp that a search looks at), what each server has
stored of each description (`whole`, `old`, `translated` or nothing), the transfers, and peers. `older` and `genuine` are history: how many requests of earlier connections the server still answers, and whether the present connection has taken an
answer to a request of its own. The description is one payload; that the sender delivers it whole or
reports an abort is what `transport` shows. Left out: process data and their measurement, connections between peers, control assignments the client sends,
the working-set task message, several types of servers.

### Virtual-terminal client

The record of `VtConnection` is one master connection with its queues of commands by priority, the command in progress, the state of the upload, its
phase and language, and the terminals as `VtServerInstance_c` knows them; `VtClient` adds what each terminal really
holds (its pool, what arrived since, the versions it has stored, a value), the order in which it handles requests, the transfers to it, and the
application. A pool has a part in no language and, if it has several languages, one for each. `Value` and `String` stand for all commands: they are about one object each,
`Value` goes in one frame and `String` in several. Two fields remember what happened rather than what the code keeps: `mixed` (an answer was taken for
another command's) and `retried`; `stalled` names why what the code waits for will not come (a request without a time-out was lost, a transfer refused because another ran, a report dropped while the terminal was overdue,
an update that has no part), and `Hangs` says that it still waits for just that; `strayed` marks those in which the transfer of
an earlier connection reported to the present one. Assumed: a terminal handles requests in order; one that was switched off is away for longer than the 3 s after which it is
missed; the working set's announcement goes through the same queue. Left out: slaves, auxiliary controls, the preferred terminal with its
boot time, the display state, input by the user, the maintenance message, `sendCommandsToBus(false)`, updates of no objects, and parts of the pool that the application streams itself.
(The stop at 0x11 and 0x12 in `queueOrReplace()`, `commandhandler_c.cpp:843`, is met only by a search for one of these two, and the library queues both without a search.)

## 3. Runs

| Run | Module | Result |
|---|---|---|
| `scheduler` | `MCScheduler` | holds |
| `multisend` | `MCMultiSend` | holds |
| `multireceive` | `MCMultiReceive` | holds |
| `multireceive_lostaddress` | `MCMultiReceive` | `ClientForEveryChunk` is violated |
| `transport` | `MCTransport` | holds |
| `addressclaim` | `MCAddressClaim` | holds |
| `addressclaim_shadow` | `MCAddressClaim` | `OwnAddressIsOwn` is violated |
| `can` | `MCCanDispatch` | holds |
| `fsclient` | `MCFsClient` | holds |
| `tcclient` | `MCTcClient` | holds |
| `tcclient_overdue` | `MCTcClient` | `ServerOutlivesConnections` is violated |
| `vtclient` | `MCVtClient` | holds |

Where invariants ask one question they are one property, the conjunction of named parts that the module defines and
comments one by one: a counterexample names the part in its last state.

**scheduler.** Three tasks, one of them with hard timing, periods of -1 (one-shot) and 2, and a
clock up to 3. Two of the tasks do anything to each other while they run; the third is left alone, and
`DueTaskRuns` says that they cannot starve it, which rests on equal trigger times being served in
turn. Three tasks give every relation of trigger times (before, equal, behind) around the one that
moves; a clock of 3 with period 2 gives overruns of a period and more. `HardTimingKeepsGrid` is
about overruns, `NeverSleepsPastATask` about the value `timeEvent()` returns. All but
`DueTaskRuns` are proved as well, and so is the type, see section 5.

**multisend.** `AnyCts`: one TP or ETP transfer of 4 packets, from a buffer or a streamer, and a
peer that asks for 0 to 3 packets from number 0 to 5, five messages long: bursts that repeat,
skip, overlap the end, pause, and acknowledges and aborts that come early. `ManyStreams`: three
streams over a pair and a broadcast, of every protocol, with one handler that starts a stream when told of
the end of another. The times are 1 or 2 units: only their order matters to one sender.
`StreamsConsistent` is the type with the list of streams (one running per pair, the end told once), `PacketsCarryTheirData` that a packet carries
the data of its number after any rewinding, `TaskWakesInTime` and `StreamsEnd` that no stream waits for ever.

**multireceive.** `AnyMessage`: one peer sends any RTS, DPO, data packet or abort in any state,
seven messages, sequence numbers up to one past the longest message. `Broadcasts`: BAM and fast packets from senders whose
address moves or is lost. `TwoNames`: two own names that take the same PGN, one loses its address and the other takes
that of the first. `Leaving`: the first of them or the peer leaves the monitor list, with its address in the caches, and the other takes that. `TwoClients`: two clients on one name, one filtered by sender; both
refuse, keep, and deregister. Two streams at once are the smallest number that can be confused.
`BurstsFit` keeps the counts within the message, `ServedByItsClient` and `EndToldOnce` say who hears of a stream, `StreamsSettle` that
each ends. `ServedByItsClient` and the part `OneStreamPerPeer` of `StreamsConsistent` speak of the time before a cached name left the list (`stale`).

**transport.** `Abort` (TP, three transfers of 2 to 4 packets, one loss, one abort by the
application, refusals), `Losses` (ETP, three transfers, four losses), `Late` (ETP, nothing prompt,
one loss), `LateAbort` (nothing prompt, one abort, refusals), `Broadcasts` (one loss and one abort).
`KeepsPromises` is the refinement of `Delivery`: `outcome` maps to itself and `delivered` to the
transfers of the messages handed over. `DeliveredIntact` says that each such message is one
message; `NoAbortWithoutFault` that the two ends' time-outs and counters fit each other for every
split into bursts.

These bounds are the limits of the protocol, not of the patience of TLC: with more faults two
transfers *do* mix, because neither data packets nor CTS and acknowledge are checked for the
transfer they belong to. The shortest mixtures found:
an application's abort whose message is lost together with the next RTS; no loss, but two aborts
with immediate restarts before the first answer, so that the acknowledge of the second transfer
ends the third; a broadcast with three losses, or with two losses and an abort; and without prompt timing two losses. All are
inherent to ISO 11783-3 for transfers of one PGN; as the sender does not look at the PGN of a CTS or an
acknowledge either, the second also happens between transfers of different PGNs.

**addressclaim.** `Two`: two ECUs, two identities that wish one address, switched on and off
and restarted in any order. `Early`: also while they wait to claim. `Late`: messages processed a
tick late. `Observed`: with a third ECU. `Pair`: two identities of one ECU against a third one.
`Foreign`: foreign nodes that claim, move, give up and ask. `Impostor`: one of them has the NAME of
an own identity. Three addresses for at most three nodes, all in the dynamic range, let
a node go to the next address, wrap, keep its own, and run out of them (foreign nodes take two). Waits are one
tick; `RequestPeriod` is 2 so that it is the longest. Three identities on three ECUs exceed four million states
and are left out; two identities and an observer, and three identities on two ECUs, are what is checked.
`HandlersKnow` and the end of claims (in `AddressesSettle`) do not hold with an impostor, and the agreement of lists (in `QuietAgreement`) neither with late
messages nor for identities switched off while they wait (`Early`): each has that as its premise, and
section 6 says what happens then. `FiltersFollow` says that the filters at `CanIo_c` are those of the addresses claimed by now; its premise leaves out the
impostor and two foreign NAMEs, where boxes come to share a filter (section 6). With one foreign NAME, early calls and restarts together they
may do so as well; no scenario combines these. No identity wishes the last address of the range (0xEE), from which the search
may not end.

**can.** Two filters of which one overlaps the other, a frame that matches one and a frame that matches both, three customers, one of which wants full frames only. Two
boxes are what swapping needs, three customers let one be called while another is deleted in front of it, behind it or is the
caller itself. `Delivers` is the refinement of `CanDelivery`, `BoxesConsistent` says that the walk stays within
the vector it reads.

**fsclient.** `Calm` and `Leaving`: two or three clients that come and go. `Losses`: long and short requests, any of which or of whose answers is lost. `Late`: answers in parts in the middle of the
next command, a busy server. `Dying`, `Second`: a server that dies and returns, a second client at any time. `Broken`: a server that answers in parts what should have none. `Old`: one of an unsupported version.
Four commands in a row are enough for a late answer to meet the next command of its kind with one in between; two attempts (`Attempts`)
give a first try, a repetition and giving up. `CommandsConsistent`: a transfer has somebody to report to, a command of an application is busy until its end is told, and ends once. `CommandsKeptApart`: the bytes that are sent are those
of the running command, and it is ended by its own answer; the exceptions are in the comments of its two parts and in section 6. `ServerKnowledge`: while a server is usable, the clients that know it are exactly those that registered before it became so;
clients are connected only to such a server; and one that is online is being asked unless the client it was asked for has left. These are statements of what the code
does: `fsmanager_c.h:123` promises more, that later clients are told too (section 6). `ServerBecomesUsable`: with several commands, and a second initialization beside the first, a
server that answers ends up usable. `CommandsEnd`: every command ends, or the connection does.

**tcclient.** `Upload` and `Calm`: one server that refuses, holds an old, a translated or no description, is late, or busy. `Losses`: with forced reconnections. `Leaves`, `Silences`, `Dies`: two servers, or one, that leave, return, or are overdue. `Comes`: clients
register, decline, and deregister. `Others`: another long message to the same server. `Peered`: two values set by one or two peers. `ActiveIsStored` is the one that matters: an active client's description is at the server as a whole.
In `Losses` five requests may be under way at once (`ServerQueue`), enough for a whole handshake of answers to earlier connections; that one is the exception, as the client then takes
itself for active on answers of which none was meant for it (`genuine`; section 6). In the other scenarios the server holds three (`Room`). The property covers every connection that took one answer to a request of its own.
`SessionsConsistent`: a transfer reads the buffer it was given, tasks end with the connection. `SourcesWatched`: a source of values is lost only when silent.
`HandshakeEnds`: no command waits for ever but those that `stalled` marks.

**tcclient_overdue.** The scenario `Dies` alone: one client, one server that falls silent and leaves. `ServerOutlivesConnections` is the assertion of the server's destructor. That no other order of events
violates it is the part `ConnectedToListed` of `ConnectionsConsistent`, checked in `tcclient` and proved.

**vtclient.** `Calm`, `Late`: one terminal that holds a version of the pool, or another language, or nothing, and answers in time, or late and never. `Plain`, `Spoken`, `Values`, `Strings`, `Urgent`: a pool without languages, with commands of one and two priorities that replace each other or not, and losses. `Refuses`, `Rejects`: full memory,
rejected languages, unknown clients. `Next2`: moving to another terminal. `Leaves`, `Silences`: terminals that leave the bus, are silent, or switched off. `Updates`: the application's updates against a change of language. `Disconnects`, `Others`. Two commands wait at once (`CommandQueue`), the smallest number that shows an order; a terminal owes three answers (`ServerQueue`), so that
one is late by two; one retry and time-outs of one unit keep every order of time-outs and answers. `ConnectionConsistent` says that a terminal which its client
takes for loaded holds the pool in the language recorded (`UploadedIsHeld`), that it shows the value commanded last when nothing waits
(`LastValueWins`, with one priority even after retries), that answers go astray only after a retry (`MixedByRetry`), and that queue, command and transfer belong together. `ConnectionProgresses`: uploads, updates and commands end, a client that disconnects
learns when it may be switched off, a terminal that keeps sending its status is found. A connection is excused only while it still waits for what one of the four causes in `Hangs` took from it
(section 6), and each of the four is named; what else could stop it violates the property. Late answers together with changes of
language, and more than one connection, are beyond the run.

**Deadlock** is checked except in `transport`, where both ends rest after the last transfer, and in
`addressclaim`, whose bounds leave nothing to do but the time event.

**Fairness.** `scheduler`: the main loop keeps calling `timeEvent()` and tasks return, as in every
program of the library. `multisend`, `multireceive`: the scheduler calls the task when its
time has come (that it does is what `scheduler` shows), the clock runs, and the CAN send buffer does not stay full
for ever (strong fairness of `EnterTimeEvent` with a free place: `canio_c` empties it while the bus
is alive). Nothing is assumed of peers: that streams end and settle is due to time-outs alone; the
number of messages is bounded, so the peer falls silent at last. `transport`: both schedulers,
receipt, and the clock. `addressclaim`: each ECU's time event runs and its messages are processed
again and again as time passes, stated as `[]<>` of the states in which that has happened.
`fsclient`, `tcclient`, `vtclient`, stated in the same way: the clock runs and what is due is done before it advances (`ClockRuns`; the bit
`turn` flips with every unit); a server that is on handles what it is sent, or that is lost (`ServerRuns`, `ServersAnswer`); a transfer ends, and one that
is started again and again is not aborted every time (`TransfersSucceed`, which `multisend` and `transport` justify up to the last part: the code restarts without a limit); in `vtclient` what
is asked for again and again is answered once (`RepeatsSucceed`). `can` has no liveness.

## 4. Disagreements between the code and what it says

* `multireceive_lostaddress`: while two own names have no address both their clients cache 0xFE;
  `deregisterClient()` then keeps the stream of the leaving client because `getClient()`
  finds the other one, and a later chunk finds none. The comment at `multireceive_c.cpp:911` says
  there must be one, and asserts it.
* `addressclaim_shadow`: an own identity that waits hides another own identity that has claimed the
  same address from `item(sa)` (`isomonitor_c.cpp:613`), so that a stronger node's claim does not
  move it; `isomonitor_c.h:126` says two items never have one address.
* `tcclient_overdue`: `removeRemotePd()` ends the connections to a server that leaves the bus only if the server is
  alive at that moment (`tcclient_c.cpp:426`), and deletes it in any case. One that has been silent for more than 6 s and leaves before its own
  time event noticed is deleted under its connections; `pdremotenode_c.cpp:40` asserts that there are none.

## 5. Proofs

Every theorem is about the same `Spec` and definitions that the runs check, for every value of the constants that
satisfies the named assumptions. Where a run covers scenarios, a theorem covers every scenario that is well-formed: any number of
clients, streams and messages, in any order.

| Module | Theorem | States |
|---|---|---|
| `Scheduler_proofs` | `TypeCorrect`, `QueueAlwaysHoldsRegistered`, `QueueAlwaysSorted` | the task list is a sorted list of the registered tasks |
| | `IdleTimeIsSafe` | `NeverSleepsPastATask` |
| | `HardTimingStaysOnGrid` | the action property `HardTimingKeepsGrid` |
| `MultiSend_proofs` | `PacketsAlwaysCarryTheirData` | `PacketsCarryTheirData` |
| | `StreamsStayConsistent` | `StreamsConsistent` of `MultiSend` |
| | `TaskAlwaysWakesInTime` | `TaskWakesInTime` |
| `MultiReceive_proofs` | `BurstsAlwaysFit` | `BurstsFit` |
| | `StreamsStayConsistent` | `StreamsConsistent` of `MultiReceive` |
| | `EndIsToldOnce` | the action property `EndToldOnce` |
| `CanDispatch_proofs` | `BoxesStayConsistent` | `BoxesConsistent` |
| | `DispatchDelivers` | the refinement `Delivers` |
| `AddressClaim_proofs` | `IdentitiesStayConsistent` | `IdentitiesConsistent` |
| | `HandlersAlwaysKnow` | `HandlersKnow` |
| | `StrongestStaysPut` | the action property `StrongestNeverMoves` |
| | `AddressSearch` | what `unifyIsoSa()` answers, for any list |
| `FsClient_proofs` | `CommandsStayConsistent` | `CommandsConsistent` |
| | `ServerStaysKnown` | `ServerKnowledge` |
| `TcClient_proofs` | `ConnectionsStayConsistent` | `ConnectionsConsistent` |
| | `SessionsStayConsistent` | `SessionsConsistent` |
| | `SourcesStayWatched` | `SourcesWatched` |

`SequenceLemmas` holds the facts about lists that several of them need: what the community modules'
`RemoveAt`, `Append`, `SelectSeq` and `SelectInSeq` return, and that a set of naturals has a least element.
(`Lists` has a `SelectSeq` that takes a set, since the prover cannot look into an operator that is handed a
`LAMBDA`; `FsClient`, `TcConnection` and `TcClient` use it for the same reason.)

**Scheduler.** Assumed is `SchedulerAssumption`: periods are integers but not 0, delays
naturals, `NoTask` is no task. The inductive invariant `IInv` is the conjunction of the first three theorems' properties.
None of them is inductive alone (that the type holds too, `TypeCorrect`, is a theorem but no run's property): that a task is put behind the last one that is not
later needs the rest of the list to be sorted; that taking it out leaves a list without it needs it to be
there once; and the trigger times compared need their type. The argument goes from lists to
actions: lemmas say what the list is after a removal (`WithoutTask`) and an insertion
(`InsertedTask`), `InsertPositionType` that the code's search always finds a position (by the well-ordering
of the naturals), `RescheduledList` combines them for `rescheduleTask`, and
`SetTriggerKeeps`, `CallKeepsIInv`, `FinishKeepsIInv` and `StepKeepsIInv` lift that to the calls, to
`timeEventPost()` and to `Next`. `HardTimingStaysOnGrid` is arithmetic: adding `((now - first + p - 1) / p) * p` as the code does rounds up
to a multiple of the period (`RoundedUp`, `MultipleLeavesNoRest`).

**MultiSend.** Assumed are `MultiSendAssumption` and `SendStreamAssumption` (types, and times that are naturals). That a packet carries the data of its number is not inductive: a burst is rewound by
setting five counters (`offset`, `lastCts`, `left`, `sent`, the streamer's position with its bookmark), and what is sent next follows from
them together. `Sound` says how they belong together, one case per protocol: for a transfer to one receiver the next
packet is `lastCts + sent` in a buffer and in a streamer alike, the burst asked for is still in the data, and the last data page offset announced fits the last CTS;
for a broadcast all is one burst; for a fast packet the first frame counts. Each operator of `SendStream` is shown to keep
`Sound` (`TimeEventHandled`, `AbortHandled`, one lemma per answer of the receiver), whatever a CTS asks for, and each action then only moves
records in a list. For `TaskWakesInTime` the invariant is about the middle of an iteration: `nextWait` is at most the wait of every stream the loop has passed,
also after one was erased and while handlers put new ones at the end; `StartedAgain` tells what such a handler leaves.

**MultiReceive.** Assumed are `MultiReceiveAssumption` and `RecvStreamAssumption`. A stream is sought by addresses, and addresses move, so
that one stream serves a data packet is not inductive. The invariant `IInv` says of each stream in the list that its addresses are those the
monitor list has now for the two names it was opened with (`FollowsNames`, kept by the
reaction to every change of address), that no two names have one address, and that the streams differ by
their names (`OneStreamPerNames`); `OneStreamPerPeer` follows. These hold until a name leaves the monitor list with its address cached, so `IInv` has them as
`stale \/ NamesFollowed`, and the lemma `RemoveItemKeeps` shows that the removal of a name nobody cached disturbs nothing. All the rest, counters and ends, holds also afterwards. `StreamOk` says that a stream still waits for a part of
its message that is missing; without it a BAM or a data packet in the wrong state
could leave counters beyond the message. `Typed` includes that the list has no stream twice. `EndToldOnce` is proved of every step from the same invariant.

**CanDispatch.** Assumed is `CanDispatchAssumption`. The invariant: no two boxes have one filter, no customer is twice in a box, no box is empty
(`WellFormed`), and while a walk is on its box is there with a place up to the
index and the size, or it is gone and the walk is over (`WalkConsistent`). That makes `index` and `size`, which `deleteFilter()` adapts from outside,
mean a position in the list; `DispatchDelivers` then maps each step to one of `CanDelivery`: customers before the index have been called,
those behind it are still to be called, whatever is inserted and deleted in between. Swapping boxes changes no
customer's list, because boxes are found by filters that differ.

**Address claim.** Assumed are `IsoMonitorAssumption` and `AddressClaimAssumption`. What is proved is about one ECU whatever the bus brings: any number of ECUs and foreign nodes, impostors
included, any messages at any delay. That an identity's pointer never dangles is not inductive: `processMsg()` and `timeEvent()` erase items, insert others,
and change the one that is pointed at, all found by ids that are used again. `Good` says how one monitor's parts belong together (`Items`): ids differ, so that
an id names one item; the local items are exactly those of the identities that claim or have claimed; such an identity is registered; other nodes' items are in a state
a claim leaves them in, which keeps an item that never entered the list's address table from being taken for one that did. Where nobody
else has an own NAME, `Known` adds that an item is found by its NAME and that the handlers know its address unless it is an own one that still
waits; a NAME listed twice would make two items share one entry of what the handlers know.
One lemma per method shows that it keeps `Good`, and, for those that touch one item (`Changed`), that all the others stay as they are: that is what lets
`ProcessAddressClaim` look up two items first and work on the second after it has moved the first, and `CheckItems` walk the list
while it erases from it. The loops over the identities and over the list are recursive functions of naturals, and
the proofs go by induction over their length. On the bus, `Inbox` says that a claim with an own NAME comes only from the foreign nodes: an ECU sends claims of its own identities and these are no one else's.
`StrongestStaysPut` needs of that invariant that an identity has one item, found whatever is erased and inserted around it, and that a claim in an inbox is not of a stronger NAME. `Firm` says of a monitor that the item of an identity that runs is at a
given address it has chosen before. One lemma per handler shows that it keeps `Firm`: only the branches of `processMsg()` for a stronger NAME evict an own item, and of `IsoItem_c::timeEvent()` only the first claim chooses an address. For `timeEvent()` as a whole
the invariant of the loop is `FirmOn` (an identity that was switched off in its first turn must not start again in a later one), and `OthersKept` and `LocalsKept` say what the turns of the others leave.
`AddressSearch`: for any list of items and any range of addresses,
`unifyIsoSa()` answers a free address or none, never moves a node whose address is free, and leaves
a node that may choose without an address only when all of the range are taken; it assumes that the node does not wish `RangeHigher`. Its core is that one turn of the search, which
starts anywhere and wraps, meets each address.

**File-server client.** Assumed are `FsCommandAssumption` and `FsClientAssumption`; a scenario may have any clients, any number of commands and registrations,
any losses, answers in parts or not, and a server that dies at any time. `EndsOnce` is not inductive: whether an answer may end a command depends on what the
command is, whether it was answered, and whether a transfer that may restart it is still under way. `IInv` has five parts. `Links`: for each client `GoodClient` relates the handler,
its transfer, the server's queue, the reception and the outcome: a busy handler has a command whose end is owed and a request in its buffer, a transfer runs only for a handler that waits for it,
and while the first command of a connection runs nobody was told that it is ready. `Queries`: an initializing command that was started asks one of the questions of the sequence and waits for its answer.
`Knowledge` ties the server's state to what its clients know and to the initializations: an offline server has none, one that is online has at least one unless it left with its client, and without a
second initialization only one that is online has any. Then a server that clients use never becomes pending again, which `Connections` needs.
Each operator of `FsCommand` is shown to keep a sound command sound and to say what it does to `IsBusy`, `lastCommand` and the transfer (`HandlerTimed`, `HandlerAnswered` for a client's command;
`QueryTimed`, `QueryAnswered` for an initializing one); `OneClient` lifts a step of one link to the whole state; `OfferedToAllIs` follows a single answer through the list of initializing commands by induction over its length, while commands
leave the list, use up the answer, or send the next request. One lemma per action then keeps `IInv`.

**Task-controller client.** Assumed are `TcConnectionAssumption` and `TcClientAssumption`; a scenario may have any clients, servers and peers, any losses, servers that go at any time, and answers
late by any number of periods. None of the three properties is inductive. `IInv` has four parts. `Own`, about each client alone: the command in progress says what
the transfer, the buffer and the state of the connection may be (`CommandFits`), without which an aborted transfer could be taken for one that delivered; and sources are listed only while the description is agreed on (`SourcesFit`). A
peer's status marks only the first of its entries, and an entry without a mark is what a lost source is found by: so the invariant speaks of the first entry of a peer, and bounds its age by the peer's silence.
`Placed`, about a client at the servers: the server it is connected to is known or still alive, or it has left the list and its loss is not
noticed yet (`Serves`); a client that waits without one knows of no listed server (`NoneKnown`); and tasks run for it exactly while it is active and its server said so. `Noticed`, about time: that a server is alive is cached
when its time event comes round, so one that was heard must be noticed in the next period, while its status is fresh; that clients are connected to servers that are alive follows only with that. `UsersFit`: a peer lists exactly the clients that watch it. One lemma per handler of
`TcConnection` says what it does to a connection that fits; `Reconnected` and `LeaveServerIs` say what is left where a connection ends, which
several actions do for many clients at once; one lemma per action then keeps `IInv`, which TLC checked first on all the states of `tcclient`.

Only model-checked:

* liveness and everything with fairness or ENABLED, which the prover does not handle;
* `ServedByItsClient`, `DeliveredIntact`, `KeepsPromises`, `CommandsKeptApart`, `ActiveIsStored`, `QuietAgreement`, `OwnAddressIsOwn`, `FiltersFollow`: they hold in the scenarios of
  their runs and not in all that is well-formed (two lost addresses, more faults, 256 commands, an identity that shadows another or
  hides a node: see sections 3, 4 and 6), or, `ActiveIsStored`, depend on how many answers of earlier connections may be under way, so there is no theorem for every value of the constants to prove;
* `NoAbortWithoutFault`, which needs an invariant over the timers of both ends and what is under way between them, and `ConnectionConsistent` of
  `VtClient`, which needs one over what a terminal has not handled yet: not proved, though nothing is known against them.

## 6. Remarks that are no properties

Met while modelling, modelled as they are:

* While a claimed item of the identity's own NAME is listed and nobody has asked for claims yet, the
  identity waits and never asks (`identitem_c.cpp:237`); with two nodes of one NAME, a
  configuration error, it waits for ever.
* `insertIsoMember()` asserts that the NAME is not listed (`isomonitor_c.cpp:328`); an impostor, or
  an own identity activated while a node of its NAME has lost its address, lists it twice.
* `internalIsoItemErase()` clears the table's entry of the item's address even if the item never
  was in the table (`isomonitor_c.cpp:868`): an identity switched off while it waits makes the node
  that uses the address unknown to the table, and its requests go unanswered.
* When a remote node takes an address the table keeps its old entry (`isomonitor_c.cpp:749`), which
  may dangle later.
* `unifyIsoSa()` wraps before it tries 0xEE and, started from a busy 0xEE, does not stop if 0x80 to 0xED
  are busy as well (`isomonitor_c.cpp:531`); `isomonitor_c.h:131` promises 254.
* `calc_randomWait()` narrows its divisor to 8 bits in one place (`isoitem_c.cpp:373`).
* A client that deregisters inside `processPartStreamDataChunk()` frees the stream still in use
  (`multireceive_c.cpp:914`); no client of the library does.
* `deregisterClient` of one registration removes the streams of that registration, the sender filter included
  (`multireceive_c.cpp:816`), but with it goes also every registration that differs from it in the sender filter only (834). A stream of such a one stays
  without a client. No client of the library registers so.
* A name that leaves the monitor list leaves its address behind in clients and streams (`multireceive_c.cpp:1424`, a to-do). When another name takes
  that address, its messages reach the streams and clients of the first: `ServedByItsClient` fails without its premise.
* A one-shot task that deregisters itself in its `timeEvent()` is deregistered again by `timeEventPost()` (`schedulertask_c.cpp:114`) and
  meets the assertion of `scheduler_c.cpp:91`. The comment at `schedulertask_c.cpp:96` calls the first legal, for periodic tasks, where `isRegistered()` is asked. The action `FinishTask` has it.
* Transports: with more faults than the bounds of `transport` allow two transfers mix, see section 3.

CAN dispatch and filters:

* A frame goes to the first box that matches only, and boxes are swapped by how often they match
  (`canio_c.cpp:232`), so that of overlapping filters the customers of only one hear of it.
  The library registers such filters.
* The deletion of a customer that was inserted during the walk costs another its turn (`filterbox_c.cpp:106`).
* `++m_matchCnt` is counted on a box that a customer may have destroyed (`filterbox_c.cpp:153`).
* An own identity that waits and hides a claimed foreign node lets two nodes share an address; two filter boxes then
  share one filter, and the first to go takes it from both (`isofilterbox_c.cpp:101`).

File-server client:

* `fileserverError()` (`ifsclient_c.h:59`) is never called. A client that registers when a server is usable is not told of it,
  nor by any later `timeEvent()` of the manager, though `fsmanager_c.h:123` says that it notifies clients "that have not been notified on fileservers yet"; `UsableIsKnown` states exactly who knows. Of a `getCurrentDirectory` that is given up the client is not told at all.
* An answer in parts to a command that should have none ends the command without a word (`fscommand_c.cpp:360`, a to-do there).
* A second initialisation, started by a client that registers while a server is online, shares the address and the numbers of the
  first client's connection; an answer in parts can end the next command of its kind. Its end takes a usable server back to pending (or unusable) under its clients; if the
  server leaves the bus before it is usable again they are told nothing and keep a reference to what was deleted, the exception in `ConnectedToUsable`.
* An initialization runs on behalf of the first client and ends with it; the server then stays online and is not asked again by the clients that remain, the exception in `InitializationRuns`.
* `m_packetLength` has 8 bits; it suffices as `CONFIG_FS_CLIENT_MAX_WRITE_SIZE` is 240. `en_lastCommand` is not initialised. `sendMultiPacketTry()` may be
  called with eight bytes, which `multisend_c.cpp:224` asserts not to happen.

Task-controller client:

* Answers are matched by kind only. After several reconnections a handshake can consist of late answers to earlier connections only; the client then takes itself for
  active, and its description need not be at the server (the exception `genuine` in `ActiveIsStored`).
* The result of `sendIsoTarget()` is ignored (`tcclientconnection_c.cpp:775`), the end of a transfer is dropped while the server is
  overdue (819): the connection then waits without a time-out. An aborted upload is restarted without a limit (304).
* A server that leaves while it is overdue unnoticed is deleted without telling its clients (`tcclient_c.cpp:426`); the next server is chosen by
  what is alive, while clients are told by a cached status (491); clients that register after the server came are not connected (98).
* `updateTimestampSetpointValueSource()` marks only a peer's first entry (`tcclientconnection_c.cpp:1038`). `deregisterClient()` destroys a handler whose task may still be
  registered (1011); the model does not do that.
* The version message looks at one option twice.

Virtual-terminal client:

* A language message between the request for the terminal's version and its answer lets the upload choose no language (-2), while the comment at
  `uploadpoolstate_c.cpp:700` says not to proceed before it is known. For a pool without languages the update that follows has no part: it ends inside `tryToStart()`, which
  then waits for it, without a time-out, though nothing was lost: the cause `partless` of `Hangs`. (For one with languages the first language is uploaded, and then the right one.)
* A report of a transfer is dropped while the terminal is overdue (`commandhandler_c.cpp:1119`, `uploadpoolstate_c.cpp:724`); the answers of an upload have no
  time-out but that for GetVersions; the result of `sendIsoTarget()` is ignored. In each case the connection stands still until the terminal is lost (the causes `missed`, the state waited in, and `refused` of `Hangs`).
* A transfer to a terminal that leaves the bus is not aborted, as the pointer to the terminal is gone (`vtclientconnection_c.cpp:712`, 752). It reports to the connection to the
  next terminal, where the assertion at `commandhandler_c.cpp:1129` may fail.
* Answers are matched by the command byte alone (`commandhandler_c.cpp:1516`); a command is retried through `tryToStart()`, which takes the most urgent queue
  (1127): with two priorities an older value can come last. The answer to an update is handled before it is known to be for the command in progress (1326); if a user's
  update of higher priority came first, the language counts as being updated for ever.
* `getVtIsoVersion() < m_uploadingVersion` is never true, the latter being the smaller of the two (`uploadpoolstate_c.cpp:280`). `moveToNextVt()` with one terminal deletes the pool, and
  nothing uploads it again. A retried Memory request's answer is taken for either of two requests.

Seen in the components not modelled: full send queues that block the thread (`canio_c.cpp:274`); 32-bit overflows in the distance and change triggers
(`measuresubprog_c.cpp:99`, 227); the unchecked look-up of a sender
(`proprietarymessagehandler_c.cpp:280`); handlers that deregister while they are asked
(`isorequestpgn_c.cpp:180`); the latched source of tractor data (`basecommon_c.cpp:146`); the break flag of the multi-threaded scheduler, set and cleared outside
its lock (`scheduler_c.h:87`).

## 7. Plan

Done, in this order: the scheduler with its proofs, the transport's two ends, their composition with
its abstract specification, the address claim, the file-server client, the task-controller
client, the filters that follow addresses, the CAN dispatch with its abstract specification, the virtual-terminal client, and the
proofs about all but the virtual-terminal client. Next is `ConnectionConsistent` of `VtClient`, with an invariant like that of `TcClient`.

### Not modelled

The serialisation of objects and device descriptions and the accessors of packets (pure encodings), the cyclic
messages of Part 7 (forty decoders of one shape), diagnostics, proprietary messages and requests for parameter groups (synchronous
hand-over), start and stop (a fixed order of calls), the multi-threaded scheduler, hardware abstraction, drivers, and the tools with their vendored libraries (input and output
without protocol state; most of the lines of `src/` are theirs). Process-data measurement and the auxiliary functions, which build on the connections above, have
state of their own and would be the next components to model.
