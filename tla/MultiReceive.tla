---------------------------- MODULE MultiReceive ----------------------------
(***************************************************************************)
(* MultiReceive_c: the registered clients, the list of streams that are    *)
(* being received, the messages peers send about them in any order, and    *)
(* the scheduler task that paces and times out the streams.                *)
(*                                                                         *)
(* timeEvent() is the sequence EnterTimeEvent, (PassStream | SendNextCts | *)
(* RemoveTimedOut)*, LeaveTimeEvent; the clock stands still during it.     *)
(* PGN filters (pgn and mask) are the sets of PGNs they accept.            *)
(***************************************************************************)
EXTENDS RecvStream, Lists, FiniteSets, Functions

CONSTANTS
  Client,           \* the CanCustomer_c that receive messages
  Name,             \* the ISONAMEs in the monitor list
  Address,          \* the addresses they can hold
  Pgn,
  Scenario,         \* what clients and peers do, and the bounds: see below
  MaxOverall,       \* mui8_maxPaketsAllowedOverall
  MaxPerClient,     \* mui8_maxPaketsAllowedPerClient
  IdleWait,         \* 5000 ms, the period when nothing runs
  MaxStreams,       \* bound: streams created in any scenario
  Lost,             \* 0xFE, no address
  Global,           \* 0xFF, the broadcast destination
  NoClient          \* getClient() found none

\* A client wrapper that may be registered; the sender Global filters nothing.
Registration ==
  [client : Client, name : Name, pgns : SUBSET Pgn, sender : Name \union {Global},
   broadcast : BOOLEAN, fastPacket : BOOLEAN]

\* What a message is announced with.
Announcement == [type : StreamType, pgn : Pgn, total : Nat \ {0}, maxBurst : 0..255]

\* One combination of clients and peers.
IsScenario(c) ==
  /\ c.address \in [Name -> Address \union {Lost}]           \* at the start
  /\ \A m, n \in Name : c.address[m] = c.address[n] => m = n \/ c.address[m] = Lost
  /\ c.moves \subseteq Name \X (Address \union {Lost})        \* changes of address
  /\ c.leaves \subseteq Name              \* who may leave the monitor list
  /\ c.registrations \subseteq Registration
  /\ c.starts \subseteq Announcement
  /\ \A t \in c.starts : t.total \in 2..(IF t.type = "StreamETP" THEN 16777215 ELSE 255)
  /\ c.seqs \subseteq 0..255               \* sequence numbers of data packets
  /\ c.pages \subseteq Nat                 \* offsets of data page offset messages
  /\ c.streams \in 0..MaxStreams           \* bound: streams created
  /\ c.messages \in Nat                    \* bound: messages received
  /\ c.changes \in Nat                     \* bound: registrations and address changes

ASSUME MultiReceiveAssumption ==
  /\ \A c \in Scenario : IsScenario(c)
  /\ MaxOverall \in 1..255 /\ MaxPerClient \in 1..255
  /\ IdleWait \in Nat \ {0}
  /\ MaxStreams \in Nat
  /\ Global \notin Name
  /\ Lost \notin Address /\ Global \notin Address /\ Lost # Global
  /\ NoClient \notin Client

Id == 1..MaxStreams

VARIABLES
  scenario,   \* that of this behaviour
  clients,    \* mlist_clients: registrations with mui8_cachedClientAddress
  list,       \* mlist_streams, as identities in list order
  stream,     \* the streams ever created, by identity
  ident,      \* their ReceiveStreamIdentifier_c, with the current addresses
  holder,     \* the client that accepted the stream, NoClient for a broadcast
  address,    \* the monitor list: address of every ISONAME
  stale,      \* history: a name left it whose address a client or a stream had cached
  taskWait,   \* time left until the task's next trigger
  loop,       \* iteration of timeEvent(): position in the list, 0 outside
  calls,      \* the calls on clients made by the last step
  over,       \* streams whose client was told the end, or deregistered
  received,   \* messages received so far
  changes     \* registrations and address changes so far

streamVars == <<list, stream, ident, holder>>
vars == <<scenario, clients, streamVars, address, stale, taskWait, loop, calls, over, received, changes>>

InList == Range(list)
Created == 1..Len(stream)
Smallest(S) == CHOOSE x \in S : \A y \in S : x <= y

Init ==
  /\ scenario \in Scenario
  /\ clients = <<>>
  /\ list = <<>> /\ stream = <<>> /\ ident = <<>> /\ holder = <<>>
  /\ address = scenario.address /\ stale = FALSE
  /\ taskWait = IdleWait /\ loop = 0
  /\ calls = {} /\ over = {} /\ received = 0 /\ changes = 0

-----------------------------------------------------------------------------
(* Look-ups                                                                *)

\* doesAcceptStream
Accepts(w, id) ==
  /\ id.pgn \in w.pgns
  /\ IF id.da = Global THEN w.broadcast ELSE id.da = w.cached
  /\ w.sender \in {Global, id.saName}
  /\ w.fastPacket <=> id.type = "StreamFastPacket"

\* getClient: that of the first wrapper that accepts the stream.
Accepting(ws, id) == {k \in 1..Len(ws) : Accepts(ws[k], id)}
ClientOf(ws, id) ==
  IF Accepting(ws, id) = {} THEN NoClient ELSE ws[Smallest(Accepting(ws, id))].client

\* A defect of getStreamInternal: kept streams are found.
Found_AnyState(type, pgns, sa, da) ==
  {i \in InList : ident[i].type = type /\ ident[i].pgn \in pgns
                  /\ ident[i].sa = sa /\ ident[i].da = da}

\* getStreamInternal skips the kept streams.
Found(type, pgns, sa, da) ==
  {i \in InList : /\ ~Kept(stream[i])
                  /\ ident[i].type = type /\ ident[i].pgn \in pgns
                  /\ ident[i].sa = sa /\ ident[i].da = da}
FirstOf(S) == CHOOSE i \in S : \A j \in S :
  (CHOOSE k \in 1..Len(list) : list[k] = i) <= (CHOOSE k \in 1..Len(list) : list[k] = j)

StreamCount(q) == Cardinality({i \in Range(q) : ~Kept(stream[i])})

\* nextTimeEvent, from now.
NextTimeEvent(q, streams) ==
  Smallest({IdleWait} \union
           {streams[i].wait : i \in {j \in Range(q) : streams[j].await # "AwaitNothing"}})

NotBeforeNow(t) == IF t < 0 THEN 0 ELSE t

\* The share of the packets all streams together may send in a burst.
AllowedPackets(count) ==
  LET share == IF count > 0 THEN MaxOverall \div count ELSE 1
  IN  Least(IF share = 0 THEN 1 ELSE share, MaxPerClient)

-----------------------------------------------------------------------------
(* Steps the handlers are made of                                          *)

Call(client, i, what) == [client |-> client, id |-> i, what |-> what]

\* tellClient: nobody is told of a broadcast or if no client accepts the stream.
AbortCall(i) ==
  LET c == ClientOf(clients, ident[i])
  IN  IF ident[i].da = Global \/ c = NoClient THEN {} ELSE {Call(c, i, "abort")}

\* A defect of tellClientRemoveStream: the stream stays in the list.
Removed_ToldOnly(i) == list

\* The list without stream i.
Removed(i) == Selected(list, InList \ {i})

TellClientRemoveStream(i) ==
  /\ list' = Removed(i)
  /\ calls' = AbortCall(i)
  /\ over' = over \union {i}
  /\ UNCHANGED <<stream, ident, holder>>

\* createStream at the end of the list q.
CreateStream(q, s, id, client) ==
  /\ Len(stream) < scenario.streams
  /\ stream' = Append(stream, s)
  /\ ident' = Append(ident, id)
  /\ holder' = Append(holder, client)
  /\ list' = Append(q, Len(stream) + 1)

Ignored == calls' = {} /\ UNCHANGED <<streamVars, over>>

\* finishStream for stream i, whose record is now s: the broadcast goes to every
\* client that accepts it, any other message to its client, which may keep it.
FinishStream(i, s, keep) ==
  LET takers == {k \in 1..Len(clients) : /\ ident[i].pgn \in clients[k].pgns
                                         /\ clients[k].broadcast
                                         /\ clients[k].fastPacket <=> s.type = "StreamFastPacket"}
      keeps == keep /\ ident[i].da # Global
  IN  /\ calls' = IF ident[i].da = Global
                  THEN {Call(clients[k].client, i, "last") : k \in takers}
                  ELSE {Call(ClientOf(clients, ident[i]), i, "last")}
      /\ stream' = [stream EXCEPT ![i] = IF keeps THEN JustKept(s) ELSE s]
      /\ list' = IF keeps THEN list ELSE Removed(i)
      /\ over' = over \union {i}
      /\ UNCHANGED <<ident, holder>>

\* A message from sa to da is looked at if both are in the monitor list.
Held == {address[n] : n \in Name} \ {Lost}
Hears(sa, da) ==
  /\ loop = 0
  /\ sa # da
  /\ received < scenario.messages /\ received' = received + 1
  /\ sa \in Held
  /\ da \in Held \union {Global}
  /\ UNCHANGED <<clients, address, loop, changes>>

\* The names of the ends, Global for everybody.
NameAt(a) == IF a = Global THEN Global ELSE CHOOSE n \in Name : address[n] = a
IdentOf(type, pgn, sa, da) ==
  [type |-> type, pgn |-> pgn, sa |-> sa, da |-> da, saName |-> NameAt(sa), daName |-> NameAt(da)]

\* processMsg ends with setNextTriggerTime(nextTimeEvent()).
Retriggered == taskWait' = NotBeforeNow(NextTimeEvent(list', stream'))

-----------------------------------------------------------------------------
(* processMsgIso and processMsgNmea                                        *)

\* RTS and ETP RTS; wellFormed is the check of the sizes against each other, accept
\* the answer of the client's reactOnStreamStart.
ReceiveRts(t, sa, da, wellFormed, accept) ==
  /\ t.type # "StreamFastPacket" /\ da # Global
  /\ Hears(sa, da)
  /\ LET running == Found(t.type, Pgn, sa, da)
         id == IdentOf(t.type, t.pgn, sa, da)
         client == ClientOf(clients, id)
         s == NewRecvStream(t.type, FALSE, t.total,
                            IF t.type = "StreamETP" THEN 255 ELSE t.maxBurst)
     IN  CASE running # {} -> TellClientRemoveStream(FirstOf(running))
           [] running = {} /\ (~wellFormed \/ t.maxBurst = 0 \/ client = NoClient \/ ~accept) ->
                Ignored
           [] OTHER ->
                /\ CreateStream(list, ExpectBurst(s, AllowedPackets(StreamCount(list) + 1)),
                                id, client)
                /\ calls' = {Call(client, Len(stream) + 1, "start")}
                /\ UNCHANGED over
  /\ Retriggered

\* BAM replaces a broadcast of the same sender that is still being received.
ReceiveBam(t, sa, wellFormed) ==
  /\ t.type = "StreamTP"
  /\ Hears(sa, Global)
  /\ LET running == Found("StreamTP", Pgn, sa, Global)
         rest == IF running = {} THEN list ELSE Removed(FirstOf(running))
     IN  /\ IF wellFormed
            THEN CreateStream(rest, NewRecvStream("StreamTP", TRUE, t.total, 255),
                              IdentOf("StreamTP", t.pgn, sa, Global), NoClient)
            ELSE list' = rest /\ UNCHANGED <<stream, ident, holder>>
         /\ over' = over \union (IF running = {} THEN {} ELSE {FirstOf(running)})
         /\ calls' = {}
  /\ Retriggered

\* DPO for a stream of this PGN.
ReceiveDpo(type, pgn, sa, da, n, offset) ==
  /\ type # "StreamFastPacket" /\ da # Global
  /\ Hears(sa, da)
  /\ LET hit == Found(type, {pgn}, sa, da)
         i == FirstOf(hit)
     IN  CASE hit = {} -> Ignored
           [] hit # {} /\ (type # "StreamETP" \/ ~AcceptsDpo(stream[i], n)) ->
                TellClientRemoveStream(i)
           [] OTHER -> /\ stream' = [stream EXCEPT ![i] = WithDpo(@, n, offset)]
                       /\ calls' = {}
                       /\ UNCHANGED <<list, ident, holder, over>>
  /\ Retriggered

\* The sender aborts, even its own broadcast.
ReceiveConnAbort(type, pgn, sa, da) ==
  /\ type # "StreamFastPacket"
  /\ Hears(sa, da)
  /\ LET hit == Found(type, {pgn}, sa, da)
     IN  IF hit = {} THEN Ignored ELSE TellClientRemoveStream(FirstOf(hit))
  /\ Retriggered

\* A data packet carries no PGN; keep is what the client answers to the last chunk.
Data(i, seq, keep) ==
  CASE ~AcceptsData(stream[i], seq) -> TellClientRemoveStream(i)
    [] AcceptsData(stream[i], seq) /\ WithData(stream[i], seq).state = "StreamFinished" ->
         FinishStream(i, WithData(stream[i], seq), keep)
    [] OTHER -> /\ stream' = [stream EXCEPT ![i] = WithData(@, seq)]
                /\ calls' = {}
                /\ UNCHANGED <<list, ident, holder, over>>

ReceiveData(type, sa, da, seq, keep) ==
  /\ type # "StreamFastPacket"
  /\ Hears(sa, da)
  /\ LET hit == Found(type, Pgn, sa, da)
     IN  IF hit = {} THEN Ignored ELSE Data(FirstOf(hit), seq, keep)
  /\ Retriggered

\* A frame of a fast packet, broadcast; frame 0 opens the stream.
ReceiveFrame(t, sa, frame, keep) ==
  /\ t.type = "StreamFastPacket"
  /\ Hears(sa, Global)
  /\ LET hit == Found("StreamFastPacket", {t.pgn}, sa, Global)
         s == WithData(NewRecvStream("StreamFastPacket", TRUE, t.total, 255), frame)
         wanted == \E k \in 1..Len(clients) : clients[k].fastPacket /\ t.pgn \in clients[k].pgns
     IN  CASE hit # {} -> Data(FirstOf(hit), frame, keep)
           [] hit = {} /\ (frame # 0 \/ ~wanted) -> Ignored
           [] OTHER ->
                /\ CreateStream(list, s, IdentOf("StreamFastPacket", t.pgn, sa, Global), NoClient)
                /\ calls' = {}
                /\ UNCHANGED over
  /\ Retriggered

-----------------------------------------------------------------------------
(* timeEvent()                                                             *)

EnterTimeEvent ==
  /\ loop = 0 /\ taskWait = 0
  /\ loop' = 1
  /\ calls' = {}
  /\ UNCHANGED <<clients, streamVars, address, taskWait, over, received, changes>>

Visits(i) == loop \in 1..Len(list) /\ i = list[loop]

\* Kept streams, and those that wait for data in time.
PassStream ==
  /\ loop \in 1..Len(list)
  /\ LET s == stream[list[loop]]
     IN  Kept(s) \/ (~ReadyToSendCts(s) /\ ~TimedOut(s))
  /\ loop' = loop + 1
  /\ calls' = {}
  /\ UNCHANGED <<clients, streamVars, address, taskWait, over, received, changes>>

\* A burst is complete: the client gets the chunk, the sender the next CTS.
SendNextCts ==
  /\ \E i \in InList :
       /\ Visits(i)
       /\ ~Kept(stream[i]) /\ ReadyToSendCts(stream[i])
       /\ calls' = {Call(ClientOf(clients, ident[i]), i, "chunk")}
       /\ stream' = [stream EXCEPT ![i] = ExpectBurst(@, AllowedPackets(StreamCount(list)))]
  /\ loop' = loop + 1
  /\ UNCHANGED <<clients, list, ident, holder, address, taskWait, over, received, changes>>

RemoveTimedOut ==
  /\ \E i \in InList :
       /\ Visits(i)
       /\ ~Kept(stream[i]) /\ TimedOut(stream[i])
       /\ TellClientRemoveStream(i)
  /\ UNCHANGED <<clients, address, taskWait, loop, received, changes>>

\* A defect of the period: the task sleeps its idle time whatever is to come.
LeaveTimeEvent_Idle ==
  /\ loop > Len(list)
  /\ loop' = 0
  /\ calls' = {}
  /\ taskWait' = IdleWait
  /\ UNCHANGED <<clients, streamVars, address, over, received, changes>>

\* setPeriod of a hard-timing task that may have been called late: the next trigger
\* is a period after the last one, at most the period from now.
LeaveTimeEvent ==
  /\ loop > Len(list)
  /\ loop' = 0
  /\ calls' = {}
  /\ LET period == NextTimeEvent(list, stream)
     IN  taskWait' \in 0..(IF period < 1 THEN 1 ELSE period)
  /\ UNCHANGED <<clients, streamVars, address, over, received, changes>>

\* The clock; the task may be called late.
Tick ==
  /\ loop = 0
  /\ taskWait > 0 \/ \E i \in InList : stream[i].wait >= 0
  /\ taskWait' = IF taskWait > 0 THEN taskWait - 1 ELSE 0
  /\ stream' = [i \in Created |-> IF i \in InList THEN RecvElapse(stream[i]) ELSE stream[i]]
  /\ calls' = {}
  /\ UNCHANGED <<clients, list, ident, holder, address, loop, over, received, changes>>

-----------------------------------------------------------------------------
(* Clients and addresses                                                   *)

Wrapper(r) ==
  [client |-> r.client, name |-> r.name, pgns |-> r.pgns, sender |-> r.sender,
   broadcast |-> r.broadcast, fastPacket |-> r.fastPacket, cached |-> address[r.name]]

IsFor(w, r) == w.client = r.client /\ w.name = r.name /\ w.pgns = r.pgns

\* registerClientIso, registerClientNmea, with the precondition of their header.
RegisterClient(r) ==
  /\ loop = 0
  /\ changes < scenario.changes /\ changes' = changes + 1
  /\ ~\E w \in Range(clients) : IsFor(w, r)
  /\ clients' = Append(clients, Wrapper(r))
  /\ calls' = {}
  /\ UNCHANGED <<streamVars, address, taskWait, loop, over, received>>

\* A defect: the streams stay when their client is gone.
StreamsOf_None(leaving) == {}

\* The streams that find one of these wrappers first.
StreamsOf(wrappers) ==
  {i \in InList : LET hits == Accepting(clients, ident[i])
                  IN  hits # {} /\ clients[Smallest(hits)] \in wrappers}

\* Wrappers leave, and before them, without a call, the streams some of them serve.
Deregister(leaving, serving) ==
  /\ loop = 0
  /\ changes < scenario.changes /\ changes' = changes + 1
  /\ leaving # {}
  /\ list' = Selected(list, InList \ StreamsOf(serving))
  /\ over' = over \union StreamsOf(serving)
  /\ clients' = Selected(clients, Range(clients) \ leaving)
  /\ calls' = {}
  /\ UNCHANGED <<stream, ident, holder, address, taskWait, loop, received>>

\* deregisterClient of everything the client registered, and of one registration, whose
\* streams go only if the filter by sender is the same too
DeregisterClient(c) ==
  LET own == {w \in Range(clients) : w.client = c} IN Deregister(own, own)
DeregisterClientFor(r) ==
  LET leaving == {w \in Range(clients) : IsFor(w, r)}
  IN  Deregister(leaving, {w \in leaving : w.sender = r.sender})

\* removeKeptStream, after getFinishedJustKeptStream
RemoveKeptStream(i) ==
  /\ loop = 0
  /\ i \in InList /\ Kept(stream[i])
  /\ list' = Removed(i)
  /\ calls' = {}
  /\ UNCHANGED <<clients, stream, ident, holder, address, taskWait, loop, over, received, changes>>

\* reactOnIsoItemModification: n holds address a now, or none, or the one it had.  The
\* caches of the clients and of the streams follow.
ChangeAddress(n, a) ==
  /\ loop = 0
  /\ changes < scenario.changes /\ changes' = changes + 1
  /\ a # Lost => \A m \in Name \ {n} : address[m] # a
  /\ address' = [address EXCEPT ![n] = a]
  /\ clients' = [k \in 1..Len(clients) |->
                   [clients[k] EXCEPT !.cached = IF clients[k].name = n THEN a ELSE @]]
  /\ ident' = [i \in DOMAIN ident |->
                 [ident[i] EXCEPT !.sa = IF ident[i].saName = n /\ i \in InList THEN a ELSE @,
                                  !.da = IF ident[i].daName = n /\ i \in InList THEN a ELSE @]]
  /\ calls' = {}
  /\ UNCHANGED <<list, stream, holder, taskWait, loop, over, received>>

\* ... n leaves the monitor list: the caches keep the address it had.
RemoveItem(n) ==
  /\ loop = 0
  /\ changes < scenario.changes /\ changes' = changes + 1
  /\ address[n] # Lost
  /\ address' = [address EXCEPT ![n] = Lost]
  /\ stale' = (stale \/ (\E w \in Range(clients) : w.name = n)
                     \/ \E i \in InList : n \in {ident[i].saName, ident[i].daName})
  /\ calls' = {}
  /\ UNCHANGED <<clients, streamVars, taskWait, loop, over, received>>

-----------------------------------------------------------------------------
ReceiveStart ==
  \E t \in scenario.starts, sa \in Held, wellFormed \in BOOLEAN :
    \/ \E da \in Held, accept \in BOOLEAN : ReceiveRts(t, sa, da, wellFormed, accept)
    \/ ReceiveBam(t, sa, wellFormed)
    \/ \E frame \in scenario.seqs, keep \in BOOLEAN : wellFormed /\ ReceiveFrame(t, sa, frame, keep)

ReceiveMore ==
  \E type \in {t.type : t \in scenario.starts}, sa \in Held, da \in Held \union {Global} :
    \/ \E pgn \in Pgn, n \in 0..MaxPerClient, offset \in scenario.pages :
         ReceiveDpo(type, pgn, sa, da, n, offset)
    \/ \E pgn \in Pgn : ReceiveConnAbort(type, pgn, sa, da)
    \/ \E seq \in scenario.seqs, keep \in BOOLEAN : ReceiveData(type, sa, da, seq, keep)

TimeEventStep == PassStream \/ SendNextCts \/ RemoveTimedOut \/ LeaveTimeEvent

Step ==
  \/ ReceiveStart
  \/ ReceiveMore
  \/ EnterTimeEvent
  \/ TimeEventStep
  \/ Tick
  \/ \E r \in scenario.registrations : RegisterClient(r)
  \/ \E c \in Client : DeregisterClient(c)
  \/ \E r \in scenario.registrations : DeregisterClientFor(r)
  \/ \E i \in Id : RemoveKeptStream(i)
  \/ \E move \in scenario.moves : ChangeAddress(move[1], move[2])

Next ==
  /\ UNCHANGED scenario
  /\ \/ Step /\ UNCHANGED stale
     \/ \E n \in scenario.leaves : RemoveItem(n)

Spec == Init /\ [][Next]_vars

\* The scheduler keeps calling the task, and the clock runs.
FairSpec ==
  /\ Spec
  /\ WF_vars(EnterTimeEvent /\ UNCHANGED <<scenario, stale>>)
  /\ WF_vars(TimeEventStep /\ UNCHANGED <<scenario, stale>>)
  /\ SF_vars(Tick /\ UNCHANGED <<scenario, stale>>)

-----------------------------------------------------------------------------
TypeOK ==
  /\ Len(stream) <= scenario.streams
  /\ stream \in Seq(RecvStreamOf(0..255))
  /\ Len(ident) = Len(stream) /\ Len(holder) = Len(stream)
  /\ \A i \in Created :
       /\ ident[i].type = stream[i].type /\ ident[i].pgn \in Pgn
       /\ ident[i].sa \in Address \union {Lost}
       /\ ident[i].da \in Address \union {Lost, Global}
       /\ stream[i].broadcast <=> ident[i].da = Global
       /\ holder[i] \in Client \union {NoClient}
  /\ list \in Seq(Created)
  /\ address \in [Name -> Address \union {Lost}]
  /\ taskWait \in Nat /\ loop \in Nat /\ stale \in BOOLEAN
  /\ over \subseteq Created

\* What is announced for a burst is missing in the message, so that no stream is
\* ever written past the size its client accepted, whatever limits, page offsets
\* and sequence numbers the sender chooses (expectBurst, setDataPageOffset and
\* handleDataPacket each set or check a part of it).
BurstsFit == \A i \in InList : BurstFits(stream[i])

\* A data packet, which carries no PGN, finds at most one stream: no two streams in
\* work agree in type and addresses (RTS and BAM look for one before they create
\* one, and addresses change while streams run).  Where a name left the monitor list
\* with its address cached, the next holder of the address is taken for it (@todo
\* SOON-178 of the code), and nothing is said any more.
OneStreamPerPeer ==
  ~stale => \A i, j \in InList :
    /\ ~Kept(stream[i]) /\ ~Kept(stream[j])
    /\ ident[i].type = ident[j].type /\ ident[i].type # "StreamFastPacket"
    /\ ident[i].sa = ident[j].sa /\ ident[i].sa # Lost
    /\ ident[i].da = ident[j].da /\ ident[i].da # Lost
    => i = j

\* The client that accepted a stream gets its chunks and is told its end; the
\* pointer getClient returns for a chunk is never NULL (tellClient,
\* processStreamDataChunk_ofMatchingClient, finishStream look the client up anew); not
\* after a name left the monitor list with its address cached.
ServedByItsClient ==
  ~stale => \A c \in calls : ident[c.id].da # Global => c.client = holder[c.id]

\* After the last chunk or the abort of a stream its client hears no more of it, and
\* no stream leaves the list before its client was told or deregistered.
EndToldOnce ==
  [][/\ \A c \in calls' : c.id \notin over
     /\ InList \ Range(list') \subseteq over']_vars

\* The task wakes up no later than its earliest stream needs (processMsg and
\* timeEvent set the trigger in different ways).
TaskWakesInTime ==
  loop = 0 => \A i \in InList :
    Kept(stream[i]) \/ taskWait <= (IF stream[i].wait < 1 THEN 1 ELSE stream[i].wait)

\* The assertion of processStreamDataChunk_ofMatchingClient: there is a client for
\* every chunk, or the stream would not have been created.
ClientForEveryChunk == \A c \in calls : c.client # NoClient

\* Every stream is finished or removed if its sender falls silent at last.
StreamsSettle ==
  \A i \in Id : (i \in InList /\ ~Kept(stream[i])) ~> (i \notin InList \/ Kept(stream[i]))

\* The list of streams is in order and will be looked at in time, whatever messages,
\* registrations, changes of address and removals come between two calls of timeEvent().
StreamsConsistent == TypeOK /\ OneStreamPerPeer /\ TaskWakesInTime
=============================================================================
