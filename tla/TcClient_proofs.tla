--------------------------- MODULE TcClient_proofs ---------------------------
(***************************************************************************)
(* What is proved of the task-controller clients, for every choice of the  *)
(* constants: connections and servers fit together, the transfer of a      *)
(* description and the tasks of a server end with the connection, and the  *)
(* sources of a client's values are watched and lost only if silent.       *)
(***************************************************************************)
EXTENDS TcClient, SequenceLemmas

-----------------------------------------------------------------------------
(* The types of the records.                                               *)

Source ==
  [what : Value, peer : Peer, age : 0..SourceLost + 1, silent : 0..SourceLost + 1,
   alone : BOOLEAN]

Command ==
  [st : {"Idle", "Running", "WaitingForResponse", "Aborted"}, sent : Message,
   notBusy : 0..NotBusy + 1]

Requests == {q \in Seq(Message) : Len(q) <= ServerQueue}

Transfer == [to : Server \union {NoServer}, kind : {"none", "pool", "other"}]

ClientRecord ==
  [registered : BOOLEAN, state : PoolState, server : Server \union {NoServer},
   command : Command, quiet : Unset..Quiet, buffer : BOOLEAN, due : BOOLEAN,
   queue : [Server -> Requests], transfer : Transfer, sources : Seq(Source),
   sourceTask : BOOLEAN, running : BOOLEAN,
   why : {"none", "overdue", "late", "declined"}, stalled : BOOLEAN,
   older : 0..ServerQueue, genuine : BOOLEAN]

ServerRecord ==
  [age : Unset..StatusLost + 1, cached : BOOLEAN, totals : BOOLEAN, due : BOOLEAN]

Held == {"none", "old", "translated", "whole"}

-----------------------------------------------------------------------------
(* The inductive invariant: what holds of a client by itself ...           *)

\* What the command says of the transfer, the buffer and the state.
CommandFits(w) ==
  /\ w.transfer.kind = "pool" =>
       /\ w.buffer /\ w.transfer.to = w.server /\ Connected(w)
       /\ w.command.st = "Running" /\ w.command.sent = "OPTransfer"
  /\ w.command.st = "Aborted" => w.buffer
  /\ w.command.st = "WaitingForResponse" /\ w.command.sent = "RequestOPTransfer" => w.buffer
  /\ w.command.st = "WaitingForResponse" /\ w.command.sent = "Version" =>
       w.state = "Preconnecting"
  /\ w.state \in {"AwaitingConnectionDecision", "Active"} => w.command.st = "Idle"

\* There are sources only while the description is agreed on; one that was assigned alone
\* is the first one of its peer, which every value of the peer marks.
SourcesFit(w) ==
  /\ w.sources # <<>> => w.sourceTask /\ Pool(w)
  /\ \A n \in DOMAIN w.sources : w.sources[n].alone =>
       /\ w.sources[n].age <= w.sources[n].silent
       /\ \A m \in 1..(n - 1) : w.sources[m].peer # w.sources[n].peer

Own(w) ==
  /\ w \in ClientRecord
  /\ Connected(w) <=> w.state # "Disconnected"
  /\ ~Connected(w) => ~w.running
  /\ CommandFits(w)
  /\ SourcesFit(w)

-----------------------------------------------------------------------------
(* ... and what holds of it and the servers.                               *)

\* A server that a client may be connected to.
Serves(srv, list, s) ==
  IF s \in Range(list)
  THEN srv[s].age # Unset /\ (srv[s].cached \/ IsAlive(srv, s))
  ELSE srv[s].cached /\ srv[s].age > StatusLost

NoneKnown(srv, list) == \A s \in Range(list) : ~srv[s].cached

Placed(w, srv, list) ==
  /\ Connected(w) => Serves(srv, list, w.server)
  /\ w.registered /\ ~Connected(w) /\ w.why = "none" => NoneKnown(srv, list)
  /\ Connected(w) /\ w.server \in Range(list) =>
       (w.running <=> w.state = "Active" /\ srv[w.server].totals)

\* A server that was heard is noticed in the next period, while its status is fresh.
Noticed(v) ==
  ~v.cached => v.age \in {Unset, 0} \/ (v.age = 1 /\ v.due) \/ v.age > StatusLost

ServersFit(srv, list) ==
  /\ list \in Seq(Server) /\ IsInjective(list)
  /\ srv \in [Server -> ServerRecord]
  /\ \A s \in Range(list) : Noticed(srv[s])

UsersFit(us, cl) ==
  /\ us \in [Peer -> SUBSET Client]
  /\ \A p \in Peer, c \in Client : c \in us[p] <=> HasSource(cl[c], p)

IInv ==
  /\ scenario \in Scenario
  /\ turn \in BOOLEAN
  /\ stored \in [Server -> [Client -> Held]]
  /\ ServersFit(server, nodes)
  /\ DOMAIN client = Client
  /\ \A c \in Client : Own(client[c]) /\ Placed(client[c], server, nodes)
  /\ UsersFit(users, client)

-----------------------------------------------------------------------------
(* Records.                                                                *)

\* What neither a client's own parts nor its place at the servers depend on may differ.
AllKept(w, x) ==
  /\ x \in ClientRecord
  /\ x.registered = w.registered /\ x.state = w.state /\ x.server = w.server
  /\ x.command = w.command /\ x.buffer = w.buffer /\ x.transfer = w.transfer
  /\ x.sources = w.sources /\ x.sourceTask = w.sourceTask /\ x.running = w.running
  /\ x.why = w.why

\* The place of a client at the servers depends on these fields alone.
SamePlace(w, x) ==
  /\ x.registered = w.registered /\ x.server = w.server /\ x.why = w.why
  /\ x.running = w.running
  /\ x.state = "Active" <=> w.state = "Active"

\* So do its sources not change.
InPlace(w, x) == SamePlace(w, x) /\ x.sources = w.sources

(* A change of nothing that matters.                                       *)
LEMMA AllKeptIsOwn ==
  ASSUME NEW w, NEW x, Own(w), AllKept(w, x)
  PROVE  Own(x) /\ InPlace(w, x)
<1>1. CommandFits(x)
  BY DEF Own, AllKept, CommandFits, Connected
<1>2. SourcesFit(x)
  BY DEF Own, AllKept, SourcesFit, Pool
<1>3. QED BY <1>1, <1>2 DEF Own, AllKept, SamePlace, InPlace, Connected

(* A client stays where it is.                                             *)
LEMMA SamePlaceIs ==
  ASSUME NEW w, NEW x, NEW srv, NEW list, Placed(w, srv, list), SamePlace(w, x)
  PROVE  Placed(x, srv, list)
BY DEF Placed, SamePlace, Connected

(* A request joins the queue of a server, if there is room.                *)
LEMMA ReachedIs ==
  ASSUME NEW s \in Server, NEW q \in Requests, NEW r \in Message
  PROVE  Reaches(s, q, r) \in Requests
<1>1. /\ q \in Seq(Message) /\ Len(q) \in Nat
      /\ ServerQueue \in Nat /\ Room[s] \in 1..ServerQueue
  BY TcConnectionAssumption DEF Requests
<1>2. CASE Len(q) < Room[s]
  <2>1. Append(q, r) \in Seq(Message) /\ Len(Append(q, r)) = Len(q) + 1
    BY <1>1
  <2>2. Len(Append(q, r)) <= ServerQueue
    BY <1>1, <1>2, <2>1
  <2>3. Reaches(s, q, r) = Append(q, r)
    BY <1>2 DEF Reaches
  <2>4. QED BY <2>1, <2>2, <2>3 DEF Requests
<1>3. CASE ~(Len(q) < Room[s])
  BY <1>3 DEF Reaches
<1>4. QED BY <1>2, <1>3

(* The first request of a queue is answered or lost.                       *)
LEMMA RestIs ==
  ASSUME NEW q \in Requests, q # <<>>
  PROVE  Head(q) \in Message /\ Tail(q) \in Requests
<1>1. q \in Seq(Message) /\ Len(q) \in Nat /\ Len(q) <= ServerQueue /\ ServerQueue \in Nat
  BY TcConnectionAssumption DEF Requests
<1>2. Head(q) \in Message /\ Tail(q) \in Seq(Message) /\ Len(Tail(q)) = Len(q) - 1
  BY <1>1
<1>3. Len(Tail(q)) <= ServerQueue
  BY <1>1, <1>2
<1>4. QED BY <1>2, <1>3 DEF Requests

(* Another queue of a server.                                              *)
LEMMA QueueSet ==
  ASSUME NEW w \in ClientRecord, NEW s \in Server, NEW q \in Requests
  PROVE  AllKept(w, [w EXCEPT !.queue[s] = q])
<1> DEFINE f == [w.queue EXCEPT ![s] = q]
<1>1. f \in [Server -> Requests]
  BY DEF ClientRecord
<1>2. [w EXCEPT !.queue[s] = q] = [w EXCEPT !.queue = f]
  OBVIOUS
<1> HIDE DEF f
<1>3. QED BY <1>1, <1>2 DEF AllKept, ClientRecord

(* sendMsg: only the queue of the server changes.                          *)
LEMMA SendMsgIs ==
  ASSUME NEW w \in ClientRecord, w.server \in Server, NEW what \in Message
  PROVE  AllKept(w, SendMsg(w, what))
<1>1. w.queue[w.server] \in Requests
  BY DEF ClientRecord
<1> DEFINE q == Reaches(w.server, w.queue[w.server], what)
<1>2. q \in Requests
  BY <1>1, ReachedIs
<1>3. SendMsg(w, what) = [w EXCEPT !.queue[w.server] = q]
  BY DEF SendMsg
<1> HIDE DEF q
<1>4. QED BY <1>2, <1>3, QueueSet

\* What a command leaves alone.
CommandKept(w, x) ==
  /\ x \in ClientRecord
  /\ x.registered = w.registered /\ x.state = w.state /\ x.server = w.server
  /\ x.buffer = w.buffer /\ x.sources = w.sources /\ x.sourceTask = w.sourceTask
  /\ x.running = w.running /\ x.why = w.why

(* doCommand: a request is sent and waited for ...                         *)
LEMMA SinglePackageIs ==
  ASSUME NEW w \in ClientRecord, w.server \in Server, NEW what \in Message,
         what # "OPTransfer"
  PROVE  LET x == DoCommand(w, what) IN
         /\ CommandKept(w, x) /\ x.transfer = w.transfer
         /\ x.command.st = "WaitingForResponse" /\ x.command.sent = what
<1> DEFINE m == SendMsg(w, what)
           d == [st |-> "WaitingForResponse", sent |-> what, notBusy |-> 0]
<1>1. AllKept(w, m)
  BY SendMsgIs
<1>2. d \in Command /\ d.st = "WaitingForResponse" /\ d.sent = what
  BY TcConnectionAssumption DEF Command
<1>3. DoCommand(w, what) = [m EXCEPT !.command = d]
  BY DEF DoCommand, SentSinglePkg
<1> HIDE DEF m, d
<1>4. m \in ClientRecord
  BY <1>1 DEF AllKept
<1> DEFINE x == [m EXCEPT !.command = d]
<1>5. x \in ClientRecord
  BY <1>2, <1>4 DEF ClientRecord
<1>6. x.command = d /\ CommandKept(m, x) /\ x.transfer = m.transfer
  BY <1>4, <1>5 DEF ClientRecord, CommandKept
<1> HIDE DEF x
<1>7. CommandKept(w, x) /\ x.transfer = w.transfer
  BY <1>1, <1>6 DEF AllKept, CommandKept
<1>8. QED BY <1>2, <1>3, <1>6, <1>7 DEF x

(* ... or the description's transfer begins, unless another one to the server runs. *)
LEMMA TransferBegins ==
  ASSUME NEW w \in ClientRecord, w.server \in Server
  PROVE  LET x == DoCommand(w, "OPTransfer") IN
         /\ CommandKept(w, x)
         /\ x.transfer.to = w.server
         /\ x.command.st = "Running" /\ x.command.sent = "OPTransfer"
<1> DEFINE d == [st |-> "Running", sent |-> "OPTransfer", notBusy |-> 0]
           t == IF w.transfer.to = w.server THEN w.transfer
                ELSE [to |-> w.server, kind |-> "pool"]
           b == (w.transfer.to = w.server)
           x == [w EXCEPT !.command = d, !.transfer = t, !.stalled = b]
<1>1. d \in Command /\ d.st = "Running" /\ d.sent = "OPTransfer"
  BY TcConnectionAssumption DEF Command, Message
<1>2. t \in Transfer /\ t.to = w.server
  BY DEF Transfer, ClientRecord
<1>3. b \in BOOLEAN
  OBVIOUS
<1>4. DoCommand(w, "OPTransfer") = x
  BY DEF DoCommand, TransferPool
<1> HIDE DEF d, t, b
<1>5. x \in ClientRecord
  BY <1>1, <1>2, <1>3 DEF ClientRecord
<1>6. x.command = d /\ x.transfer = t /\ CommandKept(w, x)
  BY <1>5 DEF ClientRecord, CommandKept
<1> HIDE DEF x
<1>7. QED BY <1>1, <1>2, <1>4, <1>6

\* What a change of the state leaves alone.
StateKept(w, x) ==
  /\ x \in ClientRecord
  /\ x.registered = w.registered /\ x.server = w.server /\ x.command = w.command
  /\ x.buffer = w.buffer /\ x.transfer = w.transfer
  /\ x.sources = w.sources /\ x.sourceTask = w.sourceTask
  /\ x.running = w.running /\ x.why = w.why

(* setDevPoolState.                                                        *)
LEMMA StateSet ==
  ASSUME NEW w \in ClientRecord, NEW state \in PoolState
  PROVE  StateKept(w, SetDevPoolState(w, state)) /\ SetDevPoolState(w, state).state = state
<1> DEFINE b == (w.due \/ state \notin {"Disconnected", "AwaitingConnectionDecision"})
           x == [w EXCEPT !.state = state, !.due = b]
<1>1. b \in BOOLEAN
  OBVIOUS
<1>2. SetDevPoolState(w, state) = x
  BY DEF SetDevPoolState
<1> HIDE DEF b
<1>3. x \in ClientRecord
  BY <1>1 DEF ClientRecord
<1>4. StateKept(w, x) /\ x.state = state
  BY <1>3 DEF ClientRecord, StateKept
<1>5. QED BY <1>2, <1>4

-----------------------------------------------------------------------------
(* Handlers of a connected client that stays connected.                    *)

(* A client with another command keeps its sources.                        *)
LEMMA OwnFrom ==
  ASSUME NEW w, NEW x, Own(w), Connected(w), x \in ClientRecord, x.server = w.server,
         x.state # "Disconnected", x.sources = w.sources, x.sourceTask = w.sourceTask,
         x.sources # <<>> => Pool(x), CommandFits(x)
  PROVE  Own(x)
<1>1. Connected(x)
  BY DEF Connected
<1>2. SourcesFit(x)
  BY DEF Own, SourcesFit
<1>3. QED BY <1>1, <1>2 DEF Own

(* A request is waited for.                                                *)
LEMMA WaitsIs ==
  ASSUME NEW w, NEW x, NEW what, Own(w), Connected(w), CommandKept(w, x),
         x.transfer = w.transfer, w.transfer.kind # "pool",
         x.command.st = "WaitingForResponse", x.command.sent = what,
         what = "Version" => w.state = "Preconnecting",
         what = "RequestOPTransfer" => w.buffer,
         w.state \notin {"AwaitingConnectionDecision", "Active"}
  PROVE  Own(x) /\ InPlace(w, x)
<1>1. CommandFits(x)
  BY DEF CommandKept, CommandFits
<1>2. w.state # "Disconnected" /\ (w.sources # <<>> => Pool(w))
  BY DEF Own, SourcesFit
<1>3. Own(x)
  BY <1>1, <1>2, OwnFrom DEF CommandKept, Pool
<1>4. QED BY <1>3 DEF CommandKept, InPlace, SamePlace

(* The buffer is made.                                                     *)
LEMMA BufferIs ==
  ASSUME NEW w, Own(w)
  PROVE  LET x == [w EXCEPT !.buffer = TRUE] IN
         /\ Own(x) /\ InPlace(w, x) /\ x.buffer /\ x.server = w.server /\ x.state = w.state
         /\ x.command = w.command /\ x.transfer = w.transfer
<1> DEFINE x == [w EXCEPT !.buffer = TRUE]
<1>1. w \in ClientRecord
  BY DEF Own
<1>2. /\ x \in ClientRecord /\ x.buffer = TRUE
      /\ x.registered = w.registered /\ x.state = w.state /\ x.server = w.server
      /\ x.command = w.command /\ x.transfer = w.transfer
      /\ x.sources = w.sources /\ x.sourceTask = w.sourceTask /\ x.running = w.running
      /\ x.why = w.why
  BY <1>1 DEF ClientRecord
<1> HIDE DEF x
<1>3. CommandFits(x)
  BY <1>2 DEF Own, CommandFits, Connected
<1>4. SourcesFit(x)
  BY <1>2 DEF Own, SourcesFit, Pool
<1>5. Own(x) /\ InPlace(w, x)
  BY <1>2, <1>3, <1>4 DEF Own, InPlace, SamePlace, Connected
<1>6. QED BY <1>2, <1>5 DEF x

(* What the command allows next, once the silence is over.                 *)
LEMMA ProceedIs ==
  ASSUME NEW w, Own(w), Connected(w)
  PROVE  Own(Proceed(w)) /\ InPlace(w, Proceed(w))
<1>1. /\ w \in ClientRecord /\ w.server \in Server
      /\ w.command.st = "Idle" => w.transfer.kind # "pool"
      /\ {"Version", "RequestOPTransfer", "OPActivate"} \subseteq Message
  BY DEF Own, CommandFits, ClientRecord, Connected, Message
<1>2. CASE w.command.st = "Idle" /\ w.state = "Preconnecting"
  <2>1. Proceed(w) = DoCommand(w, "Version")
    BY <1>2 DEF Proceed
  <2> DEFINE x == DoCommand(w, "Version")
  <2>2. /\ CommandKept(w, x) /\ x.transfer = w.transfer
        /\ x.command.st = "WaitingForResponse" /\ x.command.sent = "Version"
    BY <1>1, SinglePackageIs
  <2> HIDE DEF x
  <2>3. Own(x) /\ InPlace(w, x)
    BY <1>1, <1>2, <2>2, WaitsIs
  <2>4. QED BY <2>1, <2>3 DEF x
<1>3. CASE w.command.st = "Idle" /\ w.state = "Uploading"
  <2> DEFINE v == [w EXCEPT !.buffer = TRUE]
             x == DoCommand(v, "RequestOPTransfer")
  <2>1. Proceed(w) = x
    BY <1>3 DEF Proceed
  <2>2. /\ Own(v) /\ InPlace(w, v) /\ v.buffer /\ v.server = w.server /\ v.state = w.state
        /\ v.command = w.command /\ v.transfer = w.transfer
    BY BufferIs
  <2> HIDE DEF v
  <2>3. v \in ClientRecord /\ v.server \in Server /\ Connected(v)
    BY <1>1, <2>2 DEF Own, Connected
  <2>4. /\ CommandKept(v, x) /\ x.transfer = v.transfer
        /\ x.command.st = "WaitingForResponse" /\ x.command.sent = "RequestOPTransfer"
    BY <1>1, <2>3, SinglePackageIs
  <2> HIDE DEF x
  <2>5. Own(x) /\ InPlace(v, x)
    BY <1>1, <1>3, <2>2, <2>3, <2>4, WaitsIs
  <2>6. QED BY <2>1, <2>2, <2>5 DEF InPlace, SamePlace
<1>4. CASE w.command.st = "Idle" /\ w.state = "Uploaded"
  <2>1. Proceed(w) = DoCommand(w, "OPActivate")
    BY <1>4 DEF Proceed
  <2> DEFINE x == DoCommand(w, "OPActivate")
  <2>2. /\ CommandKept(w, x) /\ x.transfer = w.transfer
        /\ x.command.st = "WaitingForResponse" /\ x.command.sent = "OPActivate"
    BY <1>1, SinglePackageIs
  <2> HIDE DEF x
  <2>3. Own(x) /\ InPlace(w, x)
    BY <1>1, <1>4, <2>2, WaitsIs
  <2>4. QED BY <2>1, <2>3 DEF x
<1>5. CASE w.command.st = "Aborted"
  <2>1. Proceed(w) = DoCommand(w, "OPTransfer")
    BY <1>5 DEF Proceed
  <2> DEFINE x == DoCommand(w, "OPTransfer")
  <2>2. /\ CommandKept(w, x) /\ x.transfer.to = w.server
        /\ x.command.st = "Running" /\ x.command.sent = "OPTransfer"
    BY <1>1, TransferBegins
  <2> HIDE DEF x
  <2>3. w.buffer /\ w.state \notin {"AwaitingConnectionDecision", "Active", "Disconnected"}
    BY <1>5 DEF Own, CommandFits
  <2>4. CommandFits(x)
    BY <2>2, <2>3 DEF CommandKept, CommandFits, Connected
  <2>5. w.sources # <<>> => Pool(w)
    BY DEF Own, SourcesFit
  <2>6. Own(x)
    BY <2>2, <2>3, <2>4, <2>5, OwnFrom DEF CommandKept, Pool
  <2>7. QED BY <2>1, <2>2, <2>6 DEF x, CommandKept, InPlace, SamePlace
<1>6. CASE /\ ~(w.command.st = "Idle" /\ w.state \in {"Preconnecting", "Uploading", "Uploaded"})
           /\ w.command.st # "Aborted"
  <2>1. Proceed(w) = w
    BY <1>6 DEF Proceed
  <2>2. QED BY <2>1 DEF InPlace, SamePlace
<1>7. QED BY <1>2, <1>3, <1>4, <1>5, <1>6

(* timeEvent, for a connection that does not end by itself.                *)
LEMMA TimeEventIs ==
  ASSUME NEW w, Own(w), Connected(w)
  PROVE  Own(TimeEvent(w)) /\ InPlace(w, TimeEvent(w))
<1>1. w \in ClientRecord /\ Quiet \in Unset..Quiet
  BY TcConnectionAssumption DEF Own, Unset
<1> DEFINE v == [w EXCEPT !.due = FALSE]
           u == [w EXCEPT !.quiet = Quiet, !.due = FALSE]
<1>2. AllKept(w, v) /\ AllKept(w, u)
  BY <1>1 DEF AllKept, ClientRecord
<1>3. TimeEvent(w) \in {u, v, Proceed(v)}
  BY DEF TimeEvent, Silent
<1> HIDE DEF u, v
<1>4. Own(u) /\ InPlace(w, u) /\ Own(v) /\ InPlace(w, v)
  BY <1>2, AllKeptIsOwn
<1>5. Own(Proceed(v)) /\ InPlace(v, Proceed(v))
  <2>1. Connected(v)
    BY <1>4 DEF InPlace, SamePlace, Connected
  <2>2. QED BY <1>4, <2>1, ProceedIs
<1>6. InPlace(w, Proceed(v))
  BY <1>4, <1>5 DEF InPlace, SamePlace
<1>7. QED BY <1>3, <1>4, <1>5, <1>6

(* The application's decision for a description.                           *)
LEMMA FullConnectIs ==
  ASSUME NEW w, Own(w), Connected(w), w.state = "AwaitingConnectionDecision"
  PROVE  Own(FullConnect(w)) /\ InPlace(w, FullConnect(w))
<1>1. /\ w \in ClientRecord /\ w.server \in Server /\ w.transfer.kind # "pool"
      /\ w.sources = <<>> /\ "StructureLabel" \in Message /\ "Connecting" \in PoolState
  BY DEF Own, CommandFits, SourcesFit, Pool, ClientRecord, Connected, Message, PoolState
<1> DEFINE x == DoCommand(w, "StructureLabel")
           y == SetDevPoolState(x, "Connecting")
<1>2. /\ CommandKept(w, x) /\ x.transfer = w.transfer
      /\ x.command.st = "WaitingForResponse" /\ x.command.sent = "StructureLabel"
  BY <1>1, SinglePackageIs
<1> HIDE DEF x
<1>3. StateKept(x, y) /\ y.state = "Connecting"
  BY <1>1, <1>2, StateSet DEF CommandKept
<1>4. FullConnect(w) = y
  BY DEF FullConnect, x
<1> HIDE DEF y
<1>5. CommandFits(y)
  BY <1>1, <1>2, <1>3 DEF CommandKept, StateKept, CommandFits
<1>6. Own(y)
  BY <1>1, <1>2, <1>3, <1>5, OwnFrom DEF CommandKept, StateKept
<1>7. InPlace(w, y)
  BY <1>2, <1>3 DEF CommandKept, StateKept, InPlace, SamePlace
<1>8. QED BY <1>4, <1>6, <1>7

\* A change of the state alone, of a client without a command.
Settles(w, x, state) ==
  /\ x \in ClientRecord /\ x.state = state
  /\ x.registered = w.registered /\ x.server = w.server /\ x.transfer = w.transfer
  /\ x.sources = w.sources /\ x.sourceTask = w.sourceTask
  /\ x.running = w.running /\ x.why = w.why
  /\ x.command.st = "Idle"

(* A client whose command ends is in another state.                        *)
LEMMA SettlesIs ==
  ASSUME NEW w, NEW x, NEW state, Own(w), Connected(w), Settles(w, x, state),
         w.transfer.kind # "pool", state # "Disconnected", x.sources # <<>> => Pool(x)
  PROVE  Own(x)
<1>1. CommandFits(x)
  BY DEF Settles, CommandFits
<1>2. QED BY <1>1, OwnFrom DEF Settles

\* What a client in another state means for its place: it was not active, and the
\* application is told of a task of the server when it is.
StaysPlaced(w, x, totals) ==
  /\ x.registered = w.registered /\ x.server = w.server /\ x.why = w.why
  /\ x.sources = w.sources
  /\ (w.running <=> w.state = "Active" /\ totals) =>
       (x.running <=> x.state = "Active" /\ totals)

(* The same place.                                                         *)
LEMMA SameStaysPlaced ==
  ASSUME NEW w, NEW x, NEW totals, InPlace(w, x)
  PROVE  StaysPlaced(w, x, totals)
BY DEF InPlace, SamePlace, StaysPlaced

(* A client that stays placed.                                             *)
LEMMA StaysPlacedIs ==
  ASSUME NEW w, NEW x, NEW srv, NEW list, Placed(w, srv, list),
         Connected(w), StaysPlaced(w, x, srv[w.server].totals)
  PROVE  Placed(x, srv, list)
BY DEF Placed, StaysPlaced, Connected

(* A response that is taken, and the activation it answers.                *)
LEMMA AnsweredIs ==
  ASSUME NEW w, Own(w), Connected(w), NEW response, NEW held, NEW ok \in BOOLEAN,
         NEW totals \in BOOLEAN, TakesResponse(w, response)
  PROVE  LET x == Answered(w, response, held, ok, totals) IN
         Own(x) /\ StaysPlaced(w, x, totals)
<1> DEFINE d == [w EXCEPT !.command.st = "Idle"]
           x == Answered(w, response, held, ok, totals)
<1>1. /\ w \in ClientRecord /\ w.server \in Server /\ w.command \in Command
      /\ w.command.st = "WaitingForResponse" /\ w.transfer.kind # "pool"
      /\ w.state \notin {"AwaitingConnectionDecision", "Active", "Disconnected"}
      /\ response = Response(w.command.sent)
  BY DEF Own, CommandFits, ClientRecord, Connected, TakesResponse
<1>2. /\ {"Version", "LocalizationLabel", "OPTransfer"} \subseteq Message
      /\ {"AwaitingConnectionDecision", "Uploading", "Uploaded", "Error", "Active"} \subseteq PoolState
  BY DEF Message, PoolState
<1>3. /\ d \in ClientRecord /\ d.state = w.state /\ d.command.st = "Idle"
      /\ d.registered = w.registered /\ d.server = w.server /\ d.transfer = w.transfer
      /\ d.sources = w.sources /\ d.sourceTask = w.sourceTask
      /\ d.running = w.running /\ d.why = w.why /\ d.buffer = w.buffer
  <2> DEFINE e == [w.command EXCEPT !.st = "Idle"]
  <2>1. e \in Command /\ e.st = "Idle"
    BY <1>1 DEF Command
  <2>2. d = [w EXCEPT !.command = e]
    OBVIOUS
  <2> HIDE DEF e
  <2>3. QED BY <1>1, <2>1, <2>2 DEF ClientRecord
<1> HIDE DEF d
<1>4. w.sources # <<>> => Pool(w) /\ w.state # "Preconnecting"
  BY DEF Own, SourcesFit, Pool
<1>5. Own(d) /\ InPlace(w, d)
  <2>1. Settles(w, d, w.state)
    BY <1>1, <1>3 DEF Settles
  <2>2. d.sources # <<>> => Pool(d)
    BY <1>3, <1>4 DEF Pool
  <2>3. Own(d)
    BY <1>1, <2>1, <2>2, SettlesIs
  <2>4. QED BY <1>3, <2>3 DEF InPlace, SamePlace
<1>6. Connected(d) /\ d.server \in Server /\ d.transfer.kind # "pool"
  BY <1>1, <1>3 DEF Connected
<1>7. ASSUME NEW s \in PoolState, s \in {"Uploading", "Uploaded", "Error"}
      PROVE  Own(SetDevPoolState(d, s)) /\ InPlace(w, SetDevPoolState(d, s))
  <2> DEFINE y == SetDevPoolState(d, s)
  <2>1. StateKept(d, y) /\ y.state = s
    BY <1>3, StateSet
  <2> HIDE DEF y
  <2>2. Settles(w, y, s)
    BY <1>3, <2>1 DEF Settles, StateKept
  <2>3. Pool(y)
    BY <1>7, <2>1 DEF Pool
  <2>4. Own(y)
    BY <1>1, <1>7, <2>2, <2>3, SettlesIs
  <2>5. InPlace(w, y)
    BY <1>1, <1>3, <1>7, <2>1 DEF StateKept, InPlace, SamePlace
  <2>6. QED BY <2>4, <2>5 DEF y
<1>8. CASE response = "Version"
  <2> DEFINE y == SetDevPoolState(d, "AwaitingConnectionDecision")
  <2>1. x = y
    BY <1>8 DEF Answered, d
  <2>2. StateKept(d, y) /\ y.state = "AwaitingConnectionDecision"
    BY <1>2, <1>3, StateSet
  <2> HIDE DEF y
  <2>3. w.command.sent = "Version"
    BY <1>1, <1>8 DEF Response
  <2>4. w.state = "Preconnecting"
    BY <1>1, <2>3 DEF Own, CommandFits
  <2>5. y.sources = <<>>
    BY <1>3, <1>4, <2>2, <2>4 DEF StateKept
  <2>6. Settles(w, y, "AwaitingConnectionDecision")
    BY <1>3, <2>2 DEF Settles, StateKept
  <2>7. Own(y)
    BY <1>1, <2>5, <2>6, SettlesIs
  <2>8. InPlace(w, y)
    BY <1>1, <1>3, <2>2 DEF StateKept, InPlace, SamePlace
  <2>9. QED BY <2>1, <2>7, <2>8, SameStaysPlaced
<1>9. CASE response \in {"StructureLabel", "LocalizationLabel"} /\ ~LabelFits(response, held)
  <2>1. x = SetDevPoolState(d, "Uploading")
    BY <1>9 DEF Answered, d
  <2>2. QED BY <1>2, <1>7, <2>1, SameStaysPlaced
<1>10. CASE response = "StructureLabel" /\ LabelFits(response, held)
  <2> DEFINE y == DoCommand(d, "LocalizationLabel")
  <2>1. x = y
    BY <1>10 DEF Answered, d
  <2>2. /\ CommandKept(d, y) /\ y.transfer = d.transfer
        /\ y.command.st = "WaitingForResponse" /\ y.command.sent = "LocalizationLabel"
    BY <1>2, <1>3, <1>6, SinglePackageIs
  <2> HIDE DEF y
  <2>3. Own(y) /\ InPlace(d, y)
    BY <1>1, <1>3, <1>5, <1>6, <2>2, WaitsIs
  <2>4. InPlace(w, y)
    BY <1>5, <2>3 DEF InPlace, SamePlace
  <2>5. QED BY <2>1, <2>3, <2>4, SameStaysPlaced
<1>11. CASE response = "LocalizationLabel" /\ LabelFits(response, held)
  <2>1. x = SetDevPoolState(d, "Uploaded")
    BY <1>11 DEF Answered, d
  <2>2. QED BY <1>2, <1>7, <2>1, SameStaysPlaced
<1>12. CASE response = "RequestOPTransfer" /\ ok
  <2> DEFINE y == DoCommand(d, "OPTransfer")
  <2>1. x = y
    BY <1>12 DEF Answered, d
  <2>2. /\ CommandKept(d, y) /\ y.transfer.to = d.server
        /\ y.command.st = "Running" /\ y.command.sent = "OPTransfer"
    BY <1>3, <1>6, TransferBegins
  <2> HIDE DEF y
  <2>3. w.command.sent = "RequestOPTransfer"
    BY <1>1, <1>12 DEF Response
  <2>4. w.buffer
    BY <1>1, <2>3 DEF Own, CommandFits
  <2>5. CommandFits(y)
    BY <1>1, <1>3, <1>6, <2>2, <2>4 DEF CommandKept, CommandFits, Connected
  <2>6. y.sources # <<>> => Pool(y)
    BY <1>3, <1>4, <2>2 DEF CommandKept, Pool
  <2>7. Own(y)
    BY <1>1, <1>3, <2>2, <2>5, <2>6, OwnFrom DEF CommandKept
  <2>8. InPlace(w, y)
    BY <1>3, <2>2 DEF CommandKept, InPlace, SamePlace
  <2>9. QED BY <2>1, <2>7, <2>8, SameStaysPlaced
<1>13. CASE response = "RequestOPTransfer" /\ ~ok
  <2> DEFINE y == [d EXCEPT !.state = "Error"]
  <2>1. x = y
    BY <1>13 DEF Answered, d
  <2>2. /\ y \in ClientRecord /\ y.state = "Error" /\ y.command = d.command
        /\ y.registered = d.registered /\ y.server = d.server /\ y.transfer = d.transfer
        /\ y.sources = d.sources /\ y.sourceTask = d.sourceTask
        /\ y.running = d.running /\ y.why = d.why
    BY <1>2, <1>3 DEF ClientRecord
  <2> HIDE DEF y
  <2>3. Settles(w, y, "Error") /\ Pool(y)
    BY <1>3, <2>2 DEF Settles, Pool
  <2>4. Own(y)
    BY <1>1, <2>3, SettlesIs
  <2>5. InPlace(w, y)
    BY <1>1, <1>3, <2>2 DEF InPlace, SamePlace
  <2>6. QED BY <2>1, <2>4, <2>5, SameStaysPlaced
<1>14. CASE response = "OPTransfer"
  <2> DEFINE s == IF ok THEN "Uploaded" ELSE "Error"
             v == SetDevPoolState(d, s)
             y == [v EXCEPT !.buffer = FALSE]
  <2>1. x = y
    BY <1>14 DEF Answered, d
  <2>2. s \in PoolState /\ s \in {"Uploaded", "Error"}
    BY <1>2
  <2> HIDE DEF s
  <2>3. StateKept(d, v) /\ v.state = s
    BY <1>3, <2>2, StateSet
  <2> HIDE DEF v
  <2>4. v \in ClientRecord
    BY <2>3 DEF StateKept
  <2>5. /\ y \in ClientRecord /\ y.state = v.state /\ y.command = v.command
        /\ y.registered = v.registered /\ y.server = v.server /\ y.transfer = v.transfer
        /\ y.sources = v.sources /\ y.sourceTask = v.sourceTask
        /\ y.running = v.running /\ y.why = v.why
    BY <2>4 DEF ClientRecord
  <2> HIDE DEF y
  <2>6. Settles(w, y, s) /\ Pool(y)
    BY <1>3, <2>2, <2>3, <2>5 DEF Settles, StateKept, Pool
  <2>7. Own(y)
    BY <1>1, <2>2, <2>6, SettlesIs
  <2>8. InPlace(w, y)
    BY <1>1, <1>3, <2>2, <2>3, <2>5 DEF StateKept, InPlace, SamePlace
  <2>9. QED BY <2>1, <2>7, <2>8, SameStaysPlaced
<1>15. CASE response = "OPActivate" /\ ok /\ d.state = "Uploaded"
  <2> DEFINE v == SetDevPoolState(d, "Active")
             y == IF totals THEN TaskStarted(v) ELSE v
  <2>1. x = y
    BY <1>15 DEF Answered, d
  <2>2. StateKept(d, v) /\ v.state = "Active"
    BY <1>2, <1>3, StateSet
  <2> HIDE DEF v
  <2>3. v \in ClientRecord
    BY <2>2 DEF StateKept
  <2>4. TaskStarted(v) = [v EXCEPT !.running = TRUE]
    BY <2>2 DEF TaskStarted
  <2>5. /\ y \in ClientRecord /\ y.state = "Active" /\ y.command = v.command
        /\ y.registered = v.registered /\ y.server = v.server /\ y.transfer = v.transfer
        /\ y.sources = v.sources /\ y.sourceTask = v.sourceTask /\ y.why = v.why
        /\ totals => y.running
        /\ ~totals => (y.running <=> v.running)
    <3> DEFINE z == [v EXCEPT !.running = TRUE]
    <3>1. /\ z \in ClientRecord /\ z.state = "Active" /\ z.command = v.command
          /\ z.registered = v.registered /\ z.server = v.server /\ z.transfer = v.transfer
          /\ z.sources = v.sources /\ z.sourceTask = v.sourceTask /\ z.why = v.why
          /\ z.running = TRUE
      BY <2>2, <2>3 DEF ClientRecord
    <3>2. y = IF totals THEN z ELSE v
      BY <2>4
    <3> HIDE DEF z, y
    <3>3. QED BY <2>2, <2>3, <3>1, <3>2
  <2> HIDE DEF y
  <2>6. CommandFits(y) /\ Pool(y)
    BY <1>1, <1>3, <2>2, <2>5 DEF CommandFits, StateKept, Pool
  <2>7. Own(y)
    BY <1>3, <2>2, <2>5, <2>6, OwnFrom DEF StateKept
  <2>8. StaysPlaced(w, y, totals)
    BY <1>1, <1>3, <2>2, <2>5 DEF StaysPlaced, StateKept
  <2>9. QED BY <2>1, <2>7, <2>8
<1>16. CASE response = "OPActivate" /\ ok /\ d.state # "Uploaded"
  <2>1. x = d
    BY <1>16 DEF Answered, d
  <2>2. QED BY <1>5, <2>1, SameStaysPlaced
<1>17. CASE response = "OPActivate" /\ ~ok
  <2>1. x = SetDevPoolState(d, "Error")
    BY <1>17 DEF Answered, d
  <2>2. QED BY <1>2, <1>7, <2>1, SameStaysPlaced
<1>18. CASE response \notin {"Version", "StructureLabel", "LocalizationLabel",
                             "RequestOPTransfer", "OPTransfer", "OPActivate"}
  <2>1. x = d
    BY <1>18 DEF Answered, d
  <2>2. QED BY <1>5, <2>1, SameStaysPlaced
<1>19. QED
  BY <1>8, <1>9, <1>10, <1>11, <1>12, <1>13, <1>14, <1>15, <1>16, <1>17, <1>18

-----------------------------------------------------------------------------
(* Tasks, transfers and the time.                                          *)

(* The number of statuses since a request, which is busy or not.           *)
LEMMA CountedIs ==
  ASSUME NEW w, Own(w), NEW busy \in BOOLEAN
  PROVE  LET x == [w EXCEPT !.command = CountStatus(w.command, busy)] IN
         /\ Own(x) /\ InPlace(w, x) /\ x.state = w.state /\ x.sources = w.sources
<1>1. w \in ClientRecord /\ w.command \in Command /\ NotBusy \in Nat
  BY TcConnectionAssumption DEF Own, ClientRecord
<1> DEFINE d == CountStatus(w.command, busy)
           x == [w EXCEPT !.command = d]
<1>2. d \in Command /\ d.st = w.command.st /\ d.sent = w.command.sent
  <2> DEFINE m == w.command
  <2>1. m \in Command /\ m.notBusy \in Nat
    BY <1>1 DEF Command
  <2> HIDE DEF m
  <2>2. CASE busy
    <3>1. CountStatus(m, busy) = [m EXCEPT !.notBusy = 0]
      BY <2>2 DEF CountStatus
    <3>2. QED BY <1>1, <2>1, <3>1 DEF m, Command
  <2>3. CASE ~busy /\ m.st = "WaitingForResponse" /\ m.notBusy <= NotBusy
    <3>1. CountStatus(m, busy) = [m EXCEPT !.notBusy = m.notBusy + 1]
      BY <2>3 DEF CountStatus
    <3>2. m.notBusy + 1 \in 0..NotBusy + 1
      BY <1>1, <2>1, <2>3
    <3>3. QED BY <2>1, <3>1, <3>2 DEF m, Command
  <2>4. CASE ~busy /\ ~(m.st = "WaitingForResponse" /\ m.notBusy <= NotBusy)
    <3>1. CountStatus(m, busy) = m
      BY <2>4 DEF CountStatus
    <3>2. QED BY <2>1, <3>1 DEF m
  <2>5. QED BY <2>2, <2>3, <2>4
<1> HIDE DEF d
<1>3. /\ x \in ClientRecord /\ x.command = d
      /\ x.registered = w.registered /\ x.state = w.state /\ x.server = w.server
      /\ x.buffer = w.buffer /\ x.transfer = w.transfer
      /\ x.sources = w.sources /\ x.sourceTask = w.sourceTask /\ x.running = w.running
      /\ x.why = w.why
  BY <1>1, <1>2 DEF ClientRecord
<1> HIDE DEF x
<1>4. CommandFits(x)
  BY <1>2, <1>3 DEF Own, CommandFits, Connected
<1>5. SourcesFit(x)
  BY <1>3 DEF Own, SourcesFit, Pool
<1>6. Own(x) /\ InPlace(w, x)
  BY <1>3, <1>4, <1>5 DEF Own, InPlace, SamePlace, Connected
<1>7. QED BY <1>3, <1>6 DEF x, d

\* A client whose application is told that a task starts or stops, by what it holds.
ToldAs(w, x) ==
  /\ x \in ClientRecord
  /\ x.registered = w.registered /\ x.state = w.state /\ x.server = w.server
  /\ x.command = w.command /\ x.buffer = w.buffer /\ x.transfer = w.transfer
  /\ x.sourceTask = w.sourceTask /\ x.why = w.why

(* eventTaskStartStop(true).                                               *)
LEMMA TaskStartedIs ==
  ASSUME NEW w \in ClientRecord
  PROVE  LET x == TaskStarted(w) IN
         /\ ToldAs(w, x) /\ x.sources = w.sources
         /\ w.state = "Active" => x.running
         /\ w.state # "Active" => (x.running <=> w.running)
<1>1. CASE w.state = "Active"
  <2> DEFINE z == [w EXCEPT !.running = TRUE]
  <2>1. TaskStarted(w) = z
    BY <1>1 DEF TaskStarted
  <2>2. ToldAs(w, z) /\ z.sources = w.sources /\ z.running = TRUE
    BY DEF ClientRecord, ToldAs
  <2> HIDE DEF z
  <2>3. QED BY <1>1, <2>1, <2>2
<1>2. CASE w.state # "Active"
  <2>1. TaskStarted(w) = w
    BY <1>2 DEF TaskStarted
  <2>2. QED BY <1>2, <2>1 DEF ToldAs
<1>3. QED BY <1>1, <1>2

(* eventTaskStartStop(false).                                              *)
LEMMA TaskStoppedIs ==
  ASSUME NEW w \in ClientRecord
  PROVE  LET x == TaskStopped(w) IN
         /\ ToldAs(w, x)
         /\ w.state = "Active" => ~x.running /\ x.sources = <<>>
         /\ w.state # "Active" => (x.running <=> w.running) /\ x.sources = w.sources
<1>1. CASE w.state = "Active"
  <2> DEFINE e == <<>>
             z == [w EXCEPT !.running = FALSE, !.sources = e]
  <2>1. TaskStopped(w) = z
    BY <1>1 DEF TaskStopped
  <2>2. e \in Seq(Source)
    OBVIOUS
  <2> HIDE DEF e
  <2>3. ToldAs(w, z) /\ z.sources = e /\ z.running = FALSE
    BY <2>2 DEF ClientRecord, ToldAs
  <2> HIDE DEF z
  <2>4. QED BY <1>1, <2>1, <2>3 DEF e
<1>2. CASE w.state # "Active"
  <2>1. TaskStopped(w) = w
    BY <1>2 DEF TaskStopped
  <2>2. QED BY <1>2, <2>1 DEF ToldAs
<1>3. QED BY <1>1, <1>2

(* A client that was told holds what fits, with its sources or without.    *)
LEMMA ToldIsOwn ==
  ASSUME NEW w, NEW x, Own(w), Connected(w), ToldAs(w, x),
         x.sources = w.sources \/ x.sources = <<>>
  PROVE  Own(x)
<1>1. CommandFits(x)
  BY DEF Own, CommandFits, ToldAs, Connected
<1>2. Connected(x) /\ x.state # "Disconnected"
  BY DEF Own, ToldAs, Connected
<1>3. SourcesFit(x)
  BY DEF Own, SourcesFit, ToldAs, Pool
<1>4. QED BY <1>1, <1>2, <1>3 DEF Own, ToldAs

(* What the end of the description's transfer does to the command.         *)
LEMMA TransferEnded ==
  ASSUME NEW w, Own(w), Connected(w), w.transfer.kind = "pool", NEW v,
         v \in ClientRecord, v.transfer = NoTransfer,
         v.registered = w.registered, v.state = w.state, v.server = w.server,
         v.command = w.command, v.buffer = w.buffer, v.sources = w.sources,
         v.sourceTask = w.sourceTask, v.running = w.running, v.why = w.why,
         NEW success \in BOOLEAN, NEW alive \in BOOLEAN
  PROVE  LET x == ReactOnStateChange(v, success, alive) IN Own(x) /\ InPlace(w, x)
<1> DEFINE x == ReactOnStateChange(v, success, alive)
<1>1. /\ w.buffer /\ w.command.st = "Running" /\ w.command.sent = "OPTransfer"
      /\ w.state \notin {"AwaitingConnectionDecision", "Active", "Disconnected"}
      /\ v.command \in Command /\ (w.sources # <<>> => Pool(w))
  BY DEF Own, CommandFits, SourcesFit, ClientRecord
<1>2. /\ CommandKept(w, x) /\ x.transfer = NoTransfer /\ x.command.sent = "OPTransfer"
      /\ x.command.st \in {"Running", "WaitingForResponse", "Aborted"}
  <2>1. CASE ~alive
    <3> DEFINE z == [v EXCEPT !.stalled = TRUE]
    <3>1. x = z
      BY <2>1 DEF ReactOnStateChange
    <3>2. AllKept(v, z) /\ z.transfer = v.transfer /\ z.command = v.command
      BY DEF AllKept, ClientRecord
    <3> HIDE DEF z
    <3>3. QED BY <1>1, <3>1, <3>2, ZenonT(40) DEF AllKept, CommandKept
  <2>2. CASE alive /\ success
    <3> DEFINE m == v.command
               e == [m EXCEPT !.st = "WaitingForResponse", !.notBusy = 0]
               z == [v EXCEPT !.command = e]
    <3>1. x = z
      BY <2>2 DEF ReactOnStateChange
    <3>2. m \in Command /\ 0 \in 0..NotBusy + 1
      BY <1>1, TcConnectionAssumption
    <3> HIDE DEF m
    <3>3. e \in Command /\ e.st = "WaitingForResponse" /\ e.sent = m.sent
      BY <3>2 DEF Command
    <3> HIDE DEF e
    <3>4. CommandKept(v, z) /\ z.transfer = v.transfer /\ z.command = e
      BY <3>3 DEF CommandKept, ClientRecord
    <3> HIDE DEF z
    <3>5. QED BY <1>1, <3>1, <3>3, <3>4, ZenonT(40) DEF CommandKept, m
  <2>3. CASE alive /\ ~success
    <3> DEFINE e == [v.command EXCEPT !.st = "Aborted"]
               z == [v EXCEPT !.command = e]
    <3>1. x = z
      BY <2>3 DEF ReactOnStateChange
    <3>2. e \in Command /\ e.st = "Aborted" /\ e.sent = v.command.sent
      BY <1>1 DEF Command
    <3> HIDE DEF e
    <3>3. CommandKept(v, z) /\ z.transfer = v.transfer /\ z.command = e
      BY <3>2 DEF CommandKept, ClientRecord
    <3> HIDE DEF z
    <3>4. QED BY <1>1, <3>1, <3>2, <3>3, ZenonT(40) DEF CommandKept
  <2>4. QED BY <2>1, <2>2, <2>3
<1> HIDE DEF x
<1>3. CommandFits(x)
  BY <1>1, <1>2 DEF CommandFits, CommandKept, NoTransfer
<1>4. Own(x)
  BY <1>1, <1>2, <1>3, OwnFrom DEF CommandKept, Pool
<1>5. InPlace(w, x)
  BY <1>2 DEF CommandKept, InPlace, SamePlace
<1>6. QED BY <1>4, <1>5 DEF x

-----------------------------------------------------------------------------
(* Connections end and begin.                                              *)

\* A client without a connection, whose transfer was aborted and whose sources are gone.
Loose(w) ==
  /\ w \in ClientRecord /\ ~w.running /\ w.sources = <<>> /\ w.transfer.kind # "pool"

(* A client that has no connection is loose.                               *)
LEMMA UnconnectedIsLoose ==
  ASSUME NEW w, Own(w), ~Connected(w)
  PROVE  Loose(w)
BY DEF Own, CommandFits, SourcesFit, Pool, Loose

(* preConnect, reConnect.                                                  *)
LEMMA PreConnectIs ==
  ASSUME NEW w, Loose(w), NEW s \in Server
  PROVE  LET x == PreConnect(w, s) IN
         /\ Own(x) /\ Connected(x) /\ x.server = s /\ x.registered = w.registered
         /\ ~x.running /\ x.sources = <<>> /\ x.state # "Active"
<1> DEFINE v == [w EXCEPT !.server = s, !.command = Idle, !.quiet = Unset,
                          !.why = "none", !.stalled = FALSE,
                          !.older = Len(w.queue[s]), !.genuine = FALSE]
           x == SetDevPoolState(v, "Preconnecting")
<1>0. Len(w.queue[s]) \in 0..ServerQueue
  <2>1. w.queue[s] \in Requests
    BY DEF Loose, ClientRecord
  <2>2. QED BY <2>1, TcConnectionAssumption DEF Requests
<1>1. Idle \in Command /\ Idle.st = "Idle" /\ Unset \in Unset..Quiet
  BY TcConnectionAssumption DEF Idle, Command, Message, Unset
<1>2. /\ v \in ClientRecord /\ v.server = s /\ v.command = Idle
      /\ v.registered = w.registered /\ v.transfer = w.transfer /\ v.sources = w.sources
      /\ v.running = w.running
  BY <1>0, <1>1 DEF ClientRecord, Loose
<1>3. PreConnect(w, s) = x
  BY DEF PreConnect
<1> HIDE DEF v
<1>4. StateKept(v, x) /\ x.state = "Preconnecting"
  BY <1>2, StateSet DEF PoolState
<1> HIDE DEF x
<1>5. s # NoServer
  BY TcConnectionAssumption
<1>6. /\ x \in ClientRecord /\ x.server = s /\ Connected(x) /\ x.transfer.kind # "pool"
      /\ x.sources = <<>> /\ ~x.running /\ x.command.st = "Idle"
      /\ x.registered = w.registered
  BY <1>1, <1>2, <1>4, <1>5 DEF StateKept, Connected, Loose
<1>7. CommandFits(x)
  BY <1>6 DEF CommandFits
<1>8. SourcesFit(x)
  BY <1>6 DEF SourcesFit
<1>9. Own(x)
  BY <1>4, <1>6, <1>7, <1>8 DEF Own
<1>10. QED BY <1>3, <1>4, <1>6, <1>9

\* What is left of a client whose connection ended.
Ended(w, d) ==
  /\ Own(d) /\ Loose(d) /\ ~Connected(d)
  /\ d.registered = w.registered /\ d.why = w.why

(* disconnect: an active client with a task is told, the transfer is aborted, and the *)
(* sources are gone.                                                       *)
LEMMA DisconnectIs ==
  ASSUME NEW w, Own(w), Connected(w), NEW alive, NEW totals, NEW v4, NEW delete,
         w.running <=> w.state = "Active" /\ totals
  PROVE  Ended(w, Disconnect(w, alive, totals, v4, delete))
<1> DEFINE said == Farewell(w, alive, v4, delete)
           stopped == IF totals THEN TaskStopped(said) ELSE said
           t == AbortSend(w)
           none == <<>>
           d == [stopped EXCEPT !.transfer = t, !.buffer = FALSE, !.sources = none,
                                !.server = NoServer, !.command = Idle,
                                !.quiet = Unset, !.due = FALSE, !.state = "Disconnected"]
<1>1. w \in ClientRecord /\ w.server \in Server /\ {"OPDeactivate", "OPDelete"} \subseteq Message
  BY DEF Own, ClientRecord, Connected, Message
<1>2. AllKept(w, said)
  <2>1. AllKept(w, w)
    BY <1>1 DEF AllKept
  <2>2. ASSUME NEW v, AllKept(w, v), NEW m \in Message PROVE AllKept(w, SendMsg(v, m))
    <3>1. v \in ClientRecord /\ v.server \in Server
      BY <1>1, <2>2 DEF AllKept
    <3>2. AllKept(v, SendMsg(v, m))
      BY <3>1, SendMsgIs
    <3>3. QED BY <2>2, <3>2 DEF AllKept
  <2> DEFINE e == IF v4 THEN SendMsg(w, "OPDeactivate") ELSE w
  <2>3. said \in {w, e, SendMsg(e, "OPDelete")}
    BY DEF Farewell
  <2>4. AllKept(w, e)
    BY <1>1, <2>1, <2>2
  <2> HIDE DEF e, said
  <2>5. AllKept(w, SendMsg(e, "OPDelete"))
    BY <1>1, <2>2, <2>4
  <2>6. QED BY <2>1, <2>3, <2>4, <2>5
<1> HIDE DEF said
<1>3. /\ stopped \in ClientRecord /\ stopped.registered = w.registered
      /\ stopped.why = w.why /\ ~stopped.running
  <2>1. said \in ClientRecord /\ said.registered = w.registered /\ said.why = w.why
        /\ said.running = w.running /\ said.state = w.state
    BY <1>2 DEF AllKept
  <2>2. CASE totals
    <3> DEFINE z == TaskStopped(said)
    <3>1. /\ ToldAs(said, z)
          /\ said.state = "Active" => ~z.running
          /\ said.state # "Active" => (z.running <=> said.running)
      BY <2>1, TaskStoppedIs
    <3>2. stopped = z
      BY <2>2
    <3> HIDE DEF z, stopped
    <3>3. QED BY <2>1, <2>2, <3>1, <3>2 DEF ToldAs
  <2>3. CASE ~totals
    BY <2>1, <2>3
  <2>4. QED BY <2>2, <2>3
<1>4. t \in Transfer /\ t.kind # "pool"
  BY <1>1 DEF AbortSend, ClientRecord, Transfer, NoTransfer
<1>5. /\ Idle \in Command /\ Idle.st = "Idle" /\ Unset \in Unset..Quiet
      /\ none \in Seq(Source) /\ none = <<>>
  BY TcConnectionAssumption DEF Idle, Command, Message, Unset
<1>6. Disconnect(w, alive, totals, v4, delete) = d
  BY DEF Disconnect, said
<1> HIDE DEF stopped, t, none
<1>7. /\ d \in ClientRecord /\ d.transfer = t /\ d.sources = none /\ d.server = NoServer
      /\ d.command = Idle /\ d.state = "Disconnected" /\ d.registered = stopped.registered
      /\ d.why = stopped.why /\ d.running = stopped.running
  BY <1>3, <1>4, <1>5 DEF ClientRecord, PoolState
<1> HIDE DEF d
<1>8. Loose(d) /\ ~Connected(d)
  BY <1>3, <1>4, <1>5, <1>7 DEF Loose, Connected
<1>9. CommandFits(d)
  BY <1>4, <1>5, <1>7 DEF CommandFits
<1>10. SourcesFit(d)
  BY <1>5, <1>7 DEF SourcesFit
<1>11. Own(d)
  BY <1>7, <1>8, <1>9, <1>10 DEF Own, Loose
<1>12. QED BY <1>3, <1>6, <1>7, <1>8, <1>11 DEF Ended

-----------------------------------------------------------------------------
(* Sources.                                                                *)

\* A source of the peer is in the list.
Sets(q, peer) == \E n \in DOMAIN q : q[n].peer = peer

(* The first entry of a peer is there when any is.                         *)
LEMMA HasSourceIs ==
  ASSUME NEW w \in ClientRecord, NEW peer
  PROVE  HasSource(w, peer) <=> Sets(w.sources, peer)
<1> DEFINE q == w.sources
           M == {n \in DOMAIN q : q[n].peer = peer}
<1>1. q \in Seq(Source) /\ DOMAIN q = 1..Len(q) /\ Len(q) \in Nat
  BY DEF ClientRecord
<1>2. FirstOf(w, peer) = {n \in DOMAIN q : q[n].peer = peer /\ \A m \in 1..(n - 1) : q[m].peer # peer}
  BY DEF FirstOf
<1> HIDE DEF q
<1>3. CASE M = {}
  BY <1>2, <1>3 DEF HasSource, Sets, q
<1>4. CASE M # {}
  <2>1. M \subseteq Nat
    BY <1>1
  <2>2. PICK x \in M : \A y \in M : x <= y
    <3> HIDE DEF M
    <3>1. QED BY <1>4, <2>1, LeastNatural
  <2>3. ASSUME NEW m \in 1..(x - 1) PROVE q[m].peer # peer
    <3>1. m \in DOMAIN q /\ ~(x <= m)
      BY <1>1, <2>2
    <3>2. QED BY <2>2, <3>1
  <2>4. x \in FirstOf(w, peer)
    BY <1>2, <2>2, <2>3
  <2>5. QED BY <2>2, <2>4 DEF HasSource, Sets, q
<1>5. QED BY <1>3, <1>4

(* A list of the same length is a list.                                    *)
LEMMA MappedIs ==
  ASSUME NEW S, NEW q \in Seq(S), NEW T, NEW f \in [DOMAIN q -> T]
  PROVE  f \in Seq(T) /\ (f = <<>> <=> q = <<>>)
<1>1. DOMAIN q = 1..Len(q) /\ Len(q) \in Nat
  OBVIOUS
<1>2. f \in Seq(T) /\ Len(f) = Len(q)
  BY <1>1
<1>3. QED BY <1>2

\* Only the sources may differ.
SourcesSet(w, x, q) ==
  /\ x \in ClientRecord /\ x.sources = q
  /\ x.registered = w.registered /\ x.state = w.state /\ x.server = w.server
  /\ x.command = w.command /\ x.buffer = w.buffer /\ x.transfer = w.transfer
  /\ x.running = w.running /\ x.why = w.why

(* Other sources, which fit, fit a client.                                 *)
LEMMA SourcesSetIs ==
  ASSUME NEW w, NEW x, NEW q, Own(w), SourcesSet(w, x, q), SourcesFit(x)
  PROVE  Own(x) /\ SamePlace(w, x)
<1>1. CommandFits(x)
  BY DEF Own, SourcesSet, CommandFits, Connected
<1>2. QED BY <1>1 DEF Own, SourcesSet, SamePlace, Connected

(* The entries keep their peers, their order and an age below their silence. *)
LEMMA SourcesMapped ==
  ASSUME NEW w, Own(w), NEW f \in [DOMAIN w.sources -> Source], NEW x,
         SourcesSet(w, x, f), x.sourceTask = w.sourceTask,
         \A n \in DOMAIN w.sources :
           /\ f[n].peer = w.sources[n].peer /\ f[n].alone = w.sources[n].alone
           /\ f[n].alone => f[n].age <= f[n].silent
  PROVE  /\ Own(x) /\ SamePlace(w, x)
         /\ \A p : Sets(x.sources, p) <=> Sets(w.sources, p)
<1> DEFINE q == w.sources
<1>1. q \in Seq(Source) /\ DOMAIN q = 1..Len(q) /\ Len(q) \in Nat
  BY DEF Own, ClientRecord
<1>2. DOMAIN f = DOMAIN q /\ (f = <<>> <=> q = <<>>)
  BY <1>1, MappedIs
<1>3. ASSUME NEW n \in DOMAIN f, f[n].alone, NEW m \in 1..(n - 1)
      PROVE  f[m].peer # f[n].peer
  <2>1. m \in DOMAIN q /\ n \in DOMAIN q
    BY <1>1, <1>2
  <2>2. q[n].alone
    BY <1>3, <2>1
  <2>3. q[m].peer # q[n].peer
    BY <2>1, <2>2 DEF Own, SourcesFit
  <2>4. QED BY <2>1, <2>3
<1>4. f # <<>> => w.sourceTask /\ Pool(w)
  BY <1>2 DEF Own, SourcesFit
<1>5. SourcesFit(x)
  BY <1>2, <1>3, <1>4 DEF SourcesFit, SourcesSet, Pool
<1>6. \A p : Sets(x.sources, p) <=> Sets(w.sources, p)
  BY <1>2 DEF SourcesSet, Sets
<1>7. QED BY <1>5, <1>6, SourcesSetIs

(* updateTimestampSetpointValueSource.                                     *)
LEMMA TimestampIs ==
  ASSUME NEW w, Own(w), NEW peer
  PROVE  LET x == UpdateTimestamp(w, peer) IN
         /\ Own(x) /\ SamePlace(w, x)
         /\ \A p : Sets(x.sources, p) <=> Sets(w.sources, p)
         /\ \A n \in DOMAIN x.sources :
              x.sources[n].peer = peer /\ x.sources[n].alone => x.sources[n].age = 0
<1> DEFINE q == w.sources
           f == [n \in DOMAIN q |->
                   IF n \in FirstOf(w, peer) THEN [q[n] EXCEPT !.age = 0] ELSE q[n]]
           x == [w EXCEPT !.sources = f]
<1>1. q \in Seq(Source) /\ w \in ClientRecord /\ SourceLost \in Nat
  BY TcConnectionAssumption DEF Own, ClientRecord
<1>2. ASSUME NEW n \in DOMAIN q
      PROVE  /\ q[n] \in Source
             /\ [q[n] EXCEPT !.age = 0] \in Source
             /\ [q[n] EXCEPT !.age = 0].peer = q[n].peer
             /\ [q[n] EXCEPT !.age = 0].alone = q[n].alone
             /\ [q[n] EXCEPT !.age = 0].silent = q[n].silent
             /\ [q[n] EXCEPT !.age = 0].age = 0
             /\ q[n].silent \in Nat /\ q[n].age \in Nat
  <2> DEFINE e == q[n]
  <2>1. e \in Source
    BY <1>1
  <2>2. 0 \in 0..SourceLost + 1
    BY <1>1
  <2> HIDE DEF e
  <2>3. /\ [e EXCEPT !.age = 0] \in Source
        /\ [e EXCEPT !.age = 0].peer = e.peer
        /\ [e EXCEPT !.age = 0].alone = e.alone
        /\ [e EXCEPT !.age = 0].silent = e.silent
        /\ [e EXCEPT !.age = 0].age = 0
        /\ e.silent \in Nat /\ e.age \in Nat
    BY <2>1, <2>2 DEF Source
  <2>4. QED BY <2>1, <2>3 DEF e
<1>3. UpdateTimestamp(w, peer) = x
  BY DEF UpdateTimestamp
<1>4. ASSUME NEW n \in DOMAIN q
      PROVE  /\ f[n] \in Source /\ f[n].peer = q[n].peer /\ f[n].alone = q[n].alone
             /\ f[n].silent = q[n].silent
             /\ n \in FirstOf(w, peer) => f[n].age = 0
             /\ n \notin FirstOf(w, peer) => f[n].age = q[n].age
  <2> HIDE DEF q
  <2>1. CASE n \in FirstOf(w, peer)
    <3>1. f[n] = [q[n] EXCEPT !.age = 0]
      BY <2>1
    <3> HIDE DEF f
    <3>2. QED BY <2>1, <3>1, <1>2, Zenon
  <2>2. CASE n \notin FirstOf(w, peer)
    <3>1. f[n] = q[n]
      BY <2>2
    <3> HIDE DEF f
    <3>2. QED BY <2>2, <3>1, <1>2
  <2>3. QED BY <2>1, <2>2
<1>5. f \in [DOMAIN q -> Source]
  <2>1. DOMAIN f = DOMAIN q /\ f = [n \in DOMAIN q |-> f[n]]
    OBVIOUS
  <2> HIDE DEF f, q
  <2>2. QED BY <1>4, <2>1
<1>6. ASSUME NEW n \in DOMAIN q, f[n].alone PROVE f[n].age <= f[n].silent
  <2>1. q[n].alone /\ q[n].age <= q[n].silent
    <3>1. q[n].alone
      BY <1>4, <1>6
    <3>2. QED BY <3>1 DEF Own, SourcesFit
  <2>2. q[n].silent \in Nat /\ q[n].age \in Nat
    BY <1>2
  <2>3. f[n].silent = q[n].silent /\ f[n].age \in {0, q[n].age}
    BY <1>4
  <2> HIDE DEF f, q
  <2>4. QED BY <2>1, <2>2, <2>3
<1>7. f \in Seq(Source)
  BY <1>1, <1>5, MappedIs
<1>8. ASSUME NEW n \in DOMAIN q, f[n].peer = peer, f[n].alone PROVE f[n].age = 0
  <2>1. q[n].peer = peer /\ q[n].alone
    BY <1>4, <1>8
  <2>2. \A m \in 1..(n - 1) : q[m].peer # peer
    BY <2>1 DEF Own, SourcesFit
  <2>3. n \in FirstOf(w, peer)
    BY <2>1, <2>2 DEF FirstOf
  <2>4. QED BY <1>4, <2>3
<1>9. DOMAIN f = DOMAIN q
  BY <1>5
<1> HIDE DEF f
<1>10. SourcesSet(w, x, f) /\ x.sourceTask = w.sourceTask
  BY <1>1, <1>7 DEF SourcesSet, ClientRecord
<1> HIDE DEF x
<1>11. Own(x) /\ SamePlace(w, x) /\ \A p : Sets(x.sources, p) <=> Sets(w.sources, p)
  BY <1>4, <1>5, <1>6, <1>10, SourcesMapped
<1>12. QED BY <1>3, <1>8, <1>9, <1>10, <1>11 DEF SourcesSet

(* A value of the peer arrives.                                            *)
LEMMA HeardIs ==
  ASSUME NEW w, Own(w), NEW peer
  PROVE  LET x == Heard(UpdateTimestamp(w, peer), peer) IN
         /\ Own(x) /\ SamePlace(w, x)
         /\ \A p : Sets(x.sources, p) <=> Sets(w.sources, p)
<1> DEFINE v == UpdateTimestamp(w, peer)
           q == v.sources
           f == [n \in DOMAIN q |->
                   IF q[n].peer = peer THEN [q[n] EXCEPT !.silent = 0] ELSE q[n]]
           x == [v EXCEPT !.sources = f]
<1>1. /\ Own(v) /\ SamePlace(w, v)
      /\ \A p : Sets(v.sources, p) <=> Sets(w.sources, p)
      /\ \A n \in DOMAIN q : q[n].peer = peer /\ q[n].alone => q[n].age = 0
  BY TimestampIs
<1> HIDE DEF v
<1>2. q \in Seq(Source) /\ v \in ClientRecord /\ SourceLost \in Nat
  BY <1>1, TcConnectionAssumption DEF Own, ClientRecord
<1>3. Heard(v, peer) = x
  BY DEF Heard
<1>4. ASSUME NEW n \in DOMAIN q
      PROVE  /\ f[n] \in Source /\ f[n].peer = q[n].peer /\ f[n].alone = q[n].alone
             /\ f[n].age = q[n].age
             /\ q[n].peer # peer => f[n].silent = q[n].silent
             /\ f[n].silent \in Nat /\ f[n].age \in Nat
  <2> DEFINE e == q[n]
             g == [e EXCEPT !.silent = 0]
  <2>1. e \in Source
    BY <1>2
  <2>2. 0 \in 0..SourceLost + 1
    BY <1>2
  <2>3. f[n] = IF e.peer = peer THEN g ELSE e
    OBVIOUS
  <2> HIDE DEF e, f
  <2>4. /\ g \in Source /\ g.peer = e.peer /\ g.alone = e.alone /\ g.age = e.age
        /\ g.silent = 0 /\ e.silent \in Nat /\ e.age \in Nat
    BY <2>1, <2>2 DEF Source
  <2> HIDE DEF g
  <2>5. CASE e.peer = peer
    BY <2>3, <2>4, <2>5 DEF e
  <2>6. CASE e.peer # peer
    BY <2>1, <2>3, <2>4, <2>6 DEF e
  <2>7. QED BY <2>5, <2>6
<1>5. f \in [DOMAIN q -> Source]
  <2>1. DOMAIN f = DOMAIN q /\ f = [n \in DOMAIN q |-> f[n]]
    OBVIOUS
  <2> HIDE DEF f, q
  <2>2. QED BY <1>4, <2>1
<1>6. ASSUME NEW n \in DOMAIN q, f[n].alone PROVE f[n].age <= f[n].silent
  <2>1. q[n].alone
    BY <1>4, <1>6
  <2>2. q[n].age <= q[n].silent
    BY <1>1, <2>1 DEF Own, SourcesFit
  <2>3. CASE q[n].peer = peer
    <3>1. f[n].age = 0
      BY <1>1, <1>4, <2>1, <2>3
    <3>2. f[n].silent \in Nat
      BY <1>4
    <3> HIDE DEF f
    <3>3. QED BY <3>1, <3>2
  <2>4. CASE q[n].peer # peer
    <3>1. f[n].age = q[n].age /\ f[n].silent = q[n].silent
      BY <1>4, <2>4
    <3>2. QED BY <2>2, <3>1
  <2>5. QED BY <2>3, <2>4
<1>7. f \in Seq(Source)
  BY <1>2, <1>5, MappedIs
<1> HIDE DEF f
<1>8. SourcesSet(v, x, f) /\ x.sourceTask = v.sourceTask
  BY <1>2, <1>7 DEF SourcesSet, ClientRecord
<1> HIDE DEF x
<1>9. Own(x) /\ SamePlace(v, x) /\ \A p : Sets(x.sources, p) <=> Sets(v.sources, p)
  BY <1>1, <1>4, <1>5, <1>6, <1>8, SourcesMapped
<1>10. QED BY <1>1, <1>3, <1>9 DEF v, SamePlace

(* The time passes for a client.                                           *)
LEMMA AgedIs ==
  ASSUME NEW w, Own(w)
  PROVE  LET x == Aged(w) IN
         /\ Own(x) /\ SamePlace(w, x)
         /\ \A p : Sets(x.sources, p) <=> Sets(w.sources, p)
<1> DEFINE q == w.sources
           f == [n \in DOMAIN q |-> OlderSource(q[n])]
           b == Connected(w)
           t == IF w.quiet > 0 THEN w.quiet - 1 ELSE w.quiet
           x == [w EXCEPT !.due = b, !.quiet = t, !.sources = f]
<1>1. /\ q \in Seq(Source) /\ w \in ClientRecord /\ SourceLost \in Nat
      /\ Quiet \in Nat /\ w.quiet \in Unset..Quiet
  BY TcConnectionAssumption DEF Own, ClientRecord
<1>2. Aged(w) = x
  BY DEF Aged
<1>3. ASSUME NEW n \in DOMAIN q
      PROVE  /\ f[n] \in Source /\ f[n].peer = q[n].peer /\ f[n].alone = q[n].alone
             /\ q[n].age <= q[n].silent => f[n].age <= f[n].silent
  <2> DEFINE e == q[n]
             i == Older(e.age, SourceLost)
             j == Older(e.silent, SourceLost)
             g == [e EXCEPT !.age = i, !.silent = j]
  <2>1. e \in Source
    BY <1>1
  <2>2. f[n] = g
    BY DEF OlderSource
  <2> HIDE DEF e, f
  <2>3. e.age \in 0..SourceLost + 1 /\ e.silent \in 0..SourceLost + 1
    BY <2>1 DEF Source
  <2>4. /\ i \in 0..SourceLost + 1 /\ j \in 0..SourceLost + 1
        /\ e.age <= e.silent => i <= j
    BY <1>1, <2>3 DEF Older
  <2> HIDE DEF i, j
  <2>5. g \in Source /\ g.peer = e.peer /\ g.alone = e.alone /\ g.age = i /\ g.silent = j
    BY <2>1, <2>4 DEF Source
  <2> HIDE DEF g
  <2>6. QED BY <2>2, <2>4, <2>5 DEF e
<1>4. f \in [DOMAIN q -> Source]
  <2>1. DOMAIN f = DOMAIN q /\ f = [n \in DOMAIN q |-> f[n]]
    OBVIOUS
  <2> HIDE DEF f, q
  <2>2. QED BY <1>3, <2>1
<1>5. ASSUME NEW n \in DOMAIN q, f[n].alone PROVE f[n].age <= f[n].silent
  <2>1. q[n].alone
    BY <1>3, <1>5
  <2>2. q[n].age <= q[n].silent
    BY <2>1 DEF Own, SourcesFit
  <2>3. QED BY <1>3, <2>2
<1>6. f \in Seq(Source)
  BY <1>1, <1>4, MappedIs
<1>7. t \in Unset..Quiet /\ b \in BOOLEAN
  BY <1>1 DEF Unset, Connected
<1> HIDE DEF f, b, t
<1>8. SourcesSet(w, x, f) /\ x.sourceTask = w.sourceTask
  BY <1>1, <1>6, <1>7 DEF SourcesSet, ClientRecord
<1> HIDE DEF x
<1>9. Own(x) /\ SamePlace(w, x) /\ \A p : Sets(x.sources, p) <=> Sets(w.sources, p)
  BY <1>3, <1>4, <1>5, <1>8, SourcesMapped
<1>10. QED BY <1>2, <1>9

(* A peer is assigned to set a value.                                      *)
LEMMA AddSourceIs ==
  ASSUME NEW w, Own(w), Pool(w), NEW what \in Value, NEW peer \in Peer
  PROVE  LET x == AddSource(w, what, peer) IN
         /\ Own(x) /\ SamePlace(w, x)
         /\ \A p : Sets(x.sources, p) <=> Sets(w.sources, p) \/ p = peer
<1> DEFINE q == w.sources
           a == ~HasSource(w, peer)
           e == [what |-> what, peer |-> peer, age |-> 0, silent |-> 0, alone |-> a]
           f == Append(q, e)
           x == [w EXCEPT !.sources = f, !.sourceTask = TRUE]
<1>1. /\ q \in Seq(Source) /\ w \in ClientRecord /\ DOMAIN q = 1..Len(q) /\ Len(q) \in Nat
      /\ 0 \in 0..SourceLost + 1
  BY TcConnectionAssumption DEF Own, ClientRecord
<1>2. a \in BOOLEAN /\ (a <=> ~Sets(q, peer))
  BY <1>1, HasSourceIs DEF HasSource
<1>3. AddSource(w, what, peer) = x
  BY DEF AddSource
<1> HIDE DEF a
<1>4. e \in Source /\ e.peer = peer /\ e.age = 0 /\ e.silent = 0 /\ (e.alone <=> a)
  BY <1>1, <1>2 DEF Source
<1> HIDE DEF e, q
<1>5. /\ f \in Seq(Source) /\ Len(f) = Len(q) + 1 /\ DOMAIN f = 1..(Len(q) + 1)
      /\ f[Len(q) + 1] = e /\ \A i \in 1..Len(q) : f[i] = q[i]
  BY <1>1, <1>4
<1> HIDE DEF f
<1>6. SourcesSet(w, x, f) /\ x.sourceTask = TRUE
  BY <1>1, <1>5 DEF SourcesSet, ClientRecord
<1>7. ASSUME NEW n \in DOMAIN f, f[n].alone
      PROVE  f[n].age <= f[n].silent /\ \A m \in 1..(n - 1) : f[m].peer # f[n].peer
  <2>1. CASE n \in 1..Len(q)
    <3>1. f[n] = q[n] /\ n \in DOMAIN q
      BY <1>1, <1>5, <2>1
    <3>2. q[n].age <= q[n].silent /\ \A m \in 1..(n - 1) : q[m].peer # q[n].peer
      BY <1>7, <3>1 DEF Own, SourcesFit, q
    <3>3. \A m \in 1..(n - 1) : f[m] = q[m]
      BY <1>1, <1>5, <2>1
    <3>4. QED BY <3>1, <3>2, <3>3
  <2>2. CASE n = Len(q) + 1
    <3>1. f[n] = e /\ a
      BY <1>4, <1>5, <1>7, <2>2
    <3>2. \A m \in 1..(n - 1) : m \in DOMAIN q /\ f[m] = q[m]
      BY <1>1, <1>5, <2>2
    <3>3. \A m \in 1..(n - 1) : f[m].peer # peer
      BY <1>2, <3>1, <3>2 DEF Sets
    <3>4. QED BY <1>4, <3>1, <3>3
  <2>3. QED BY <1>1, <1>5, <2>1, <2>2
<1> HIDE DEF x
<1>8. SourcesFit(x)
  BY <1>6, <1>7 DEF SourcesFit, SourcesSet, Pool
<1>9. Own(x) /\ SamePlace(w, x)
  BY <1>6, <1>8, SourcesSetIs
<1>10. ASSUME NEW p PROVE Sets(f, p) <=> Sets(q, p) \/ p = peer
  <2>1. \A i \in DOMAIN q : i \in DOMAIN f /\ f[i] = q[i]
    BY <1>1, <1>5
  <2>2. Len(q) + 1 \in DOMAIN f /\ f[Len(q) + 1].peer = peer
    BY <1>1, <1>4, <1>5
  <2>3. \A i \in DOMAIN f : (i \in DOMAIN q /\ f[i] = q[i]) \/ f[i].peer = peer
    BY <1>1, <1>4, <1>5
  <2>4. QED BY <2>1, <2>2, <2>3 DEF Sets
<1>11. QED BY <1>3, <1>6, <1>9, <1>10 DEF SourcesSet, q

(* Sources that are kept: removed, run out, or of a peer that left.        *)
LEMMA KeepSourcesIs ==
  ASSUME NEW w, Own(w), NEW keep
  PROVE  LET x == KeepSources(w, Selected(w.sources, keep)) IN
         /\ Own(x) /\ SamePlace(w, x)
         /\ \A p : Sets(x.sources, p) <=>
                     \E n \in DOMAIN w.sources : w.sources[n] \in keep /\ w.sources[n].peer = p
<1> DEFINE q == w.sources
           r == Selected(q, keep)
           b == (r # <<>>)
           x == [w EXCEPT !.sources = r, !.sourceTask = b]
<1>1. q \in Seq(Source) /\ w \in ClientRecord /\ DOMAIN q = 1..Len(q) /\ Len(q) \in Nat
  BY DEF Own, ClientRecord
<1>2. r \in Seq(Source) /\ \E f : Picks(f, q, keep, r)
  BY <1>1, SelectedPicks
<1>3. b \in BOOLEAN
  OBVIOUS
<1>4. KeepSources(w, Selected(w.sources, keep)) = x
  BY DEF KeepSources
<1> HIDE DEF r, q
<1>5. PICK f : Picks(f, q, keep, r)
  BY <1>2
<1>6. DOMAIN r = 1..Len(r) /\ Len(r) \in Nat
  BY <1>2
<1>7. /\ \A i \in DOMAIN r : f[i] \in DOMAIN q /\ r[i] = q[f[i]] /\ r[i] \in keep
      /\ \A i, j \in DOMAIN r : i < j => f[i] < f[j]
      /\ \A k \in DOMAIN q : q[k] \in keep => \E i \in DOMAIN r : f[i] = k
  BY <1>1, <1>5, <1>6 DEF Picks
<1>8. ASSUME NEW n \in DOMAIN r, r[n].alone
      PROVE  r[n].age <= r[n].silent /\ \A m \in 1..(n - 1) : r[m].peer # r[n].peer
  <2>1. f[n] \in DOMAIN q /\ r[n] = q[f[n]] /\ f[n] \in Nat
    BY <1>1, <1>7
  <2>2. q[f[n]].age <= q[f[n]].silent /\ \A m \in 1..(f[n] - 1) : q[m].peer # q[f[n]].peer
    BY <1>8, <2>1 DEF Own, SourcesFit, q
  <2>3. ASSUME NEW m \in 1..(n - 1) PROVE r[m].peer # r[n].peer
    <3>1. m \in DOMAIN r /\ m < n
      BY <1>6
    <3>2. f[m] \in DOMAIN q /\ r[m] = q[f[m]] /\ f[m] < f[n]
      BY <1>7, <3>1
    <3>3. f[m] \in 1..(f[n] - 1)
      BY <1>1, <2>1, <3>2
    <3>4. QED BY <2>1, <2>2, <3>2, <3>3
  <2>4. QED BY <2>1, <2>2, <2>3
<1>9. r # <<>> => q # <<>>
  <2>1. ASSUME r # <<>> PROVE q # <<>>
    <3>1. 1 \in DOMAIN r
      BY <1>2, <2>1
    <3>2. f[1] \in DOMAIN q
      BY <1>7, <3>1
    <3>3. QED BY <3>2
  <2>2. QED BY <2>1
<1>10. ASSUME NEW p
       PROVE  Sets(r, p) <=> \E n \in DOMAIN q : q[n] \in keep /\ q[n].peer = p
  <2>1. ASSUME NEW n \in DOMAIN r, r[n].peer = p
        PROVE  \E m \in DOMAIN q : q[m] \in keep /\ q[m].peer = p
    <3>1. f[n] \in DOMAIN q /\ r[n] = q[f[n]] /\ r[n] \in keep
      BY <1>7
    <3>2. QED BY <2>1, <3>1
  <2>2. ASSUME NEW n \in DOMAIN q, q[n] \in keep, q[n].peer = p PROVE Sets(r, p)
    <3>1. PICK i \in DOMAIN r : f[i] = n
      BY <1>7, <2>2
    <3>2. r[i] = q[n]
      BY <1>7, <3>1
    <3>3. QED BY <2>2, <3>2 DEF Sets
  <2>3. QED BY <2>1, <2>2 DEF Sets
<1> HIDE DEF b
<1>11. SourcesSet(w, x, r) /\ x.sourceTask = b
  BY <1>1, <1>2, <1>3 DEF SourcesSet, ClientRecord
<1> HIDE DEF x
<1>12. r # <<>> => Pool(w)
  BY <1>9 DEF Own, SourcesFit, q
<1>13. SourcesFit(x)
  BY <1>8, <1>11, <1>12 DEF SourcesFit, SourcesSet, Pool, b
<1>14. Own(x) /\ SamePlace(w, x)
  BY <1>11, <1>13, SourcesSetIs
<1>15. QED BY <1>4, <1>10, <1>11, <1>14 DEF SourcesSet, q

-----------------------------------------------------------------------------
(* Servers.                                                                *)

(* Some elements of a list, from one place to another.                     *)
LEMMA SubSeqIs ==
  ASSUME NEW S, NEW q \in Seq(S), NEW m \in 1..Len(q) + 1, NEW n \in 0..Len(q), m <= n + 1
  PROVE  /\ SubSeq(q, m, n) \in Seq(S)
         /\ \A t : t \in Range(SubSeq(q, m, n)) <=> \E i \in m..n : q[i] = t
<1> DEFINE r == SubSeq(q, m, n)
<1>1. Len(q) \in Nat /\ m \in Int /\ n \in Int
  OBVIOUS
<1>2. r \in Seq(S) /\ Len(r) = n - m + 1 /\ \A i \in 1..(n - m + 1) : r[i] = q[m + i - 1]
  BY <1>1
<1>3. DOMAIN r = 1..(n - m + 1)
  BY <1>2
<1> HIDE DEF r
<1>4. ASSUME NEW t, t \in Range(r) PROVE \E i \in m..n : q[i] = t
  <2>1. PICK j \in 1..(n - m + 1) : r[j] = t
    BY <1>3, <1>4 DEF Range
  <2>2. m + j - 1 \in m..n
    BY <1>1
  <2>3. QED BY <1>2, <2>1, <2>2
<1>5. ASSUME NEW t, NEW i \in m..n, q[i] = t PROVE t \in Range(r)
  <2>1. i - m + 1 \in 1..(n - m + 1) /\ m + (i - m + 1) - 1 = i
    BY <1>1
  <2>2. r[i - m + 1] = q[i]
    BY <1>2, <2>1
  <2>3. QED BY <1>3, <1>5, <2>1, <2>2 DEF Range
<1>6. QED BY <1>2, <1>4, <1>5 DEF r

(* One list after another.                                                 *)
LEMMA JoinedIs ==
  ASSUME NEW S, NEW a \in Seq(S), NEW b \in Seq(S)
  PROVE  a \o b \in Seq(S) /\ Range(a \o b) = Range(a) \union Range(b)
<1> DEFINE r == a \o b
<1>1. Len(a) \in Nat /\ Len(b) \in Nat /\ DOMAIN a = 1..Len(a) /\ DOMAIN b = 1..Len(b)
  OBVIOUS
<1>2. /\ r \in Seq(S) /\ Len(r) = Len(a) + Len(b)
      /\ \A i \in 1..(Len(a) + Len(b)) : r[i] = IF i <= Len(a) THEN a[i] ELSE b[i - Len(a)]
  OBVIOUS
<1>3. DOMAIN r = 1..(Len(a) + Len(b))
  BY <1>2
<1> HIDE DEF r
<1>4. ASSUME NEW i \in 1..Len(a) PROVE a[i] \in Range(r)
  <2>1. i \in DOMAIN r /\ r[i] = a[i]
    BY <1>1, <1>2, <1>3
  <2>2. QED BY <2>1 DEF Range
<1>5. ASSUME NEW i \in 1..Len(b) PROVE b[i] \in Range(r)
  <2>1. Len(a) + i \in 1..(Len(a) + Len(b)) /\ ~(Len(a) + i <= Len(a)) /\ (Len(a) + i) - Len(a) = i
    BY <1>1
  <2>2. r[Len(a) + i] = b[i]
    BY <1>2, <2>1
  <2>3. QED BY <1>3, <2>1, <2>2 DEF Range
<1>6. ASSUME NEW i \in DOMAIN r PROVE r[i] \in Range(a) \union Range(b)
  <2>1. CASE i <= Len(a)
    <3>1. i \in DOMAIN a /\ r[i] = a[i]
      BY <1>1, <1>2, <1>3, <2>1
    <3>2. QED BY <3>1 DEF Range
  <2>2. CASE ~(i <= Len(a))
    <3>1. i - Len(a) \in DOMAIN b /\ r[i] = b[i - Len(a)]
      BY <1>1, <1>2, <1>3, <2>2
    <3>2. QED BY <3>1 DEF Range
  <2>3. QED BY <2>1, <2>2
<1>7. Range(r) = Range(a) \union Range(b)
  BY <1>1, <1>4, <1>5, <1>6 DEF Range
<1>8. QED BY <1>2, <1>7 DEF r

(* findNextServerOfSameType: a server that is alive, and not this one, if there is one. *)
LEMMA NextServerIs ==
  ASSUME NEW srv, NEW list \in Seq(Server), IsInjective(list), NEW s \in Range(list)
  PROVE  LET n == NextServer(srv, list, s) IN
         \/ n \in Range(list) \ {s} /\ n \in Server /\ IsAlive(srv, n)
         \/ n = NoServer /\ \A t \in Range(list) \ {s} : ~IsAlive(srv, t)
<1> DEFINE here == CHOOSE n \in DOMAIN list : list[n] = s
           a == SubSeq(list, here + 1, Len(list))
           b == SubSeq(list, 1, here - 1)
           around == a \o b
           living == {t \in Server : IsAlive(srv, t)}
           alive == Selected(around, living)
<1>1. DOMAIN list = 1..Len(list) /\ Len(list) \in Nat /\ Range(list) \subseteq Server
  BY DEF Range
<1>2. here \in DOMAIN list /\ list[here] = s
  <2>1. \E n \in DOMAIN list : list[n] = s
    BY DEF Range
  <2>2. QED BY <2>1
<1>3. NextServer(srv, list, s) = IF alive = <<>> THEN NoServer ELSE Head(alive)
  BY DEF NextServer
<1> HIDE DEF here
<1>4. /\ a \in Seq(Server)
      /\ \A t : t \in Range(a) <=> \E i \in (here + 1)..Len(list) : list[i] = t
  <2>1. here + 1 \in 1..Len(list) + 1 /\ Len(list) \in 0..Len(list) /\ here + 1 <= Len(list) + 1
    BY <1>1, <1>2
  <2>2. QED BY <2>1, SubSeqIs
<1>5. /\ b \in Seq(Server)
      /\ \A t : t \in Range(b) <=> \E i \in 1..(here - 1) : list[i] = t
  <2>1. 1 \in 1..Len(list) + 1 /\ here - 1 \in 0..Len(list) /\ 1 <= (here - 1) + 1
    BY <1>1, <1>2
  <2>2. QED BY <2>1, SubSeqIs
<1> HIDE DEF a, b
<1>6. around \in Seq(Server) /\ Range(around) = Range(a) \union Range(b)
  BY <1>4, <1>5, JoinedIs
<1>7. Range(around) = Range(list) \ {s}
  <2>1. \A i, j \in DOMAIN list : list[i] = list[j] => i = j
    BY DEF IsInjective
  <2>2. ASSUME NEW t \in Range(list), t # s PROVE t \in Range(around)
    <3>1. PICK i \in DOMAIN list : list[i] = t
      BY DEF Range
    <3>2. i # here
      BY <1>2, <2>2, <3>1
    <3>3. i \in (here + 1)..Len(list) \/ i \in 1..(here - 1)
      BY <1>1, <1>2, <3>1, <3>2
    <3>4. QED BY <1>4, <1>5, <1>6, <3>1, <3>3
  <2>3. ASSUME NEW t \in Range(around) PROVE t \in Range(list) /\ t # s
    <3>1. \E i \in DOMAIN list : list[i] = t /\ i # here
      <4>1. CASE t \in Range(a)
        <5>1. PICK i \in (here + 1)..Len(list) : list[i] = t
          BY <1>4, <4>1
        <5>2. i \in DOMAIN list /\ i # here
          BY <1>1, <1>2
        <5>3. QED BY <5>1, <5>2
      <4>2. CASE t \in Range(b)
        <5>1. PICK i \in 1..(here - 1) : list[i] = t
          BY <1>5, <4>2
        <5>2. i \in DOMAIN list /\ i # here
          BY <1>1, <1>2
        <5>3. QED BY <5>1, <5>2
      <4>3. QED BY <1>6, <4>1, <4>2
    <3>2. QED BY <1>2, <2>1, <3>1 DEF Range
  <2>4. QED BY <2>2, <2>3
<1> HIDE DEF around
<1>8. alive \in Seq(Server) /\ Range(alive) = Range(around) \intersect living
  <2> HIDE DEF living
  <2>1. QED BY <1>6, SelectedIs
<1> HIDE DEF alive
<1>9. CASE alive = <<>>
  <2>1. Range(alive) = {}
    BY <1>9 DEF Range
  <2>2. QED BY <1>1, <1>3, <1>7, <1>8, <1>9, <2>1
<1>10. CASE alive # <<>>
  <2>1. Head(alive) \in Range(alive)
    <3>1. 1 \in DOMAIN alive /\ Head(alive) = alive[1]
      BY <1>8, <1>10
    <3>2. QED BY <3>1 DEF Range
  <2>2. QED BY <1>3, <1>7, <1>8, <1>10, <2>1
<1>11. QED BY <1>9, <1>10

\* What is known of a client whose connection ended, if the servers are then srv.
Reconnected(w, x, left, srv) ==
  /\ Own(x) /\ x.registered = w.registered /\ x.sources = <<>>
  /\ ~x.running /\ x.state # "Active"
  /\ Connected(x) => x.server \in Range(nodes) /\ IsAlive(srv, x.server)
  /\ ~Connected(x) /\ x.why = "none" => \A t \in Range(nodes) \ {left} : ~srv[t].cached

(* A reason for having no server changes nothing else.                     *)
LEMMA WhyIs ==
  ASSUME NEW d, Own(d), ~Connected(d), NEW why \in {"none", "overdue", "late", "declined"}
  PROVE  LET x == [d EXCEPT !.why = why] IN
         /\ Own(x) /\ Loose(x) /\ ~Connected(x) /\ x.registered = d.registered /\ x.why = why
         /\ x.sources = <<>> /\ x.state = "Disconnected" /\ ~x.running
<1> DEFINE x == [d EXCEPT !.why = why]
<1>1. d \in ClientRecord /\ d.state = "Disconnected" /\ Loose(d)
  BY UnconnectedIsLoose DEF Own
<1>2. /\ x \in ClientRecord /\ x.why = why
      /\ x.registered = d.registered /\ x.state = d.state /\ x.server = d.server
      /\ x.command = d.command /\ x.buffer = d.buffer /\ x.transfer = d.transfer
      /\ x.sources = d.sources /\ x.sourceTask = d.sourceTask /\ x.running = d.running
  BY <1>1 DEF ClientRecord
<1> HIDE DEF x
<1>3. CommandFits(x)
  BY <1>2 DEF Own, CommandFits, Connected
<1>4. SourcesFit(x)
  BY <1>2 DEF Own, SourcesFit, Pool
<1>5. Own(x) /\ Loose(x) /\ ~Connected(x)
  BY <1>1, <1>2, <1>3, <1>4 DEF Own, Loose, Connected
<1>6. QED BY <1>1, <1>2, <1>5 DEF x, Loose

(* notifyConnectionToBeEnded.                                              *)
LEMMA EndConnectionIs ==
  ASSUME NEW w, Own(w), Connected(w), NEW left, NEW srv,
         nodes \in Seq(Server), IsInjective(nodes), w.server \in Range(nodes),
         w.running <=> w.state = "Active" /\ srv[w.server].totals
  PROVE  Reconnected(w, EndConnection(w, left, srv), left, srv)
<1> DEFINE s == w.server
           d == Disconnected(w, srv, FALSE)
           next == NextServer(srv, nodes, s)
           x == EndConnection(w, left, srv)
<1>1. Ended(w, d)
  BY DisconnectIs DEF Disconnected
<1>2. s \in Server
  BY DEF Own, ClientRecord, Connected
<1>3. \/ next \in Range(nodes) \ {s} /\ next \in Server /\ IsAlive(srv, next)
      \/ next = NoServer /\ \A t \in Range(nodes) \ {s} : ~IsAlive(srv, t)
  BY NextServerIs
<1>4. NoServer \notin Server
  BY TcConnectionAssumption
<1> HIDE DEF d, next
<1>5. Loose(d) /\ Own(d) /\ ~Connected(d) /\ d.registered = w.registered
  BY <1>1 DEF Ended
<1>6. ASSUME NEW t \in Server, t \in Range(nodes), IsAlive(srv, t)
      PROVE  Reconnected(w, PreConnect(d, t), left, srv)
  <2> DEFINE y == PreConnect(d, t)
  <2>1. /\ Own(y) /\ Connected(y) /\ y.server = t /\ y.registered = d.registered
        /\ ~y.running /\ y.sources = <<>> /\ y.state # "Active"
    BY <1>5, PreConnectIs
  <2> HIDE DEF y
  <2>2. Reconnected(w, y, left, srv)
    BY <1>5, <1>6, <2>1 DEF Reconnected
  <2>3. QED BY <2>2 DEF y
<1>7. CASE next # NoServer
  <2>1. x = PreConnect(d, next)
    BY <1>7 DEF EndConnection, d, next
  <2>2. QED BY <1>3, <1>6, <1>7, <2>1
<1>8. CASE next = NoServer /\ IsAlive(srv, s)
  <2>1. x = PreConnect(d, s)
    BY <1>8 DEF EndConnection, d, next
  <2>2. QED BY <1>2, <1>6, <1>8, <2>1
<1>9. CASE next = NoServer /\ ~IsAlive(srv, s)
  <2> DEFINE why == IF \E t \in Range(nodes) \ {left} : Overdue(srv, t)
                    THEN "overdue" ELSE "none"
             y == [d EXCEPT !.why = why]
  <2>1. x = y
    BY <1>9 DEF EndConnection, WithoutServer, d, next
  <2>2. why \in {"none", "overdue", "late", "declined"}
    OBVIOUS
  <2>3. why = "none" => \A t \in Range(nodes) \ {left} : ~Overdue(srv, t)
    OBVIOUS
  <2> HIDE DEF why
  <2>4. /\ Own(y) /\ ~Connected(y) /\ y.registered = d.registered
        /\ y.why = why /\ y.sources = <<>> /\ y.state = "Disconnected" /\ ~y.running
    BY <1>5, <2>2, WhyIs
  <2> HIDE DEF y
  <2>5. \A t \in Range(nodes) : ~IsAlive(srv, t)
    BY <1>3, <1>4, <1>9
  <2>6. why = "none" => \A t \in Range(nodes) \ {left} : ~srv[t].cached
    BY <2>3, <2>5 DEF Overdue
  <2>7. QED BY <1>5, <2>1, <2>4, <2>6 DEF Reconnected
<1>10. QED BY <1>7, <1>8, <1>9

(* Such a client has its place, and none that left.                        *)
LEMMA ReconnectedIsPlaced ==
  ASSUME NEW w, NEW x, NEW left, NEW srv, NEW list, Reconnected(w, x, left, srv),
         Range(list) \subseteq Range(nodes) \ {left},
         Connected(x) => x.server \in Range(list)
  PROVE  Placed(x, srv, list)
<1>1. Connected(x) => Serves(srv, list, x.server)
  BY DEF Reconnected, Serves, IsAlive
<1>2. ~Connected(x) /\ x.why = "none" => NoneKnown(srv, list)
  BY DEF Reconnected, NoneKnown
<1>3. QED BY <1>1, <1>2 DEF Reconnected, Placed

-----------------------------------------------------------------------------
(* Steps.                                                                  *)

(* What the invariant says of a client.                                    *)
LEMMA ClientIs ==
  ASSUME IInv, NEW c \in Client
  PROVE  /\ Own(client[c]) /\ Placed(client[c], server, nodes)
         /\ client[c] \in ClientRecord
         /\ Connected(client[c]) => client[c].server \in Server
BY DEF IInv, Own, Connected, ClientRecord

(* What the invariant says of the servers.                                 *)
LEMMA ServersAre ==
  ASSUME IInv
  PROVE  /\ nodes \in Seq(Server) /\ IsInjective(nodes) /\ Range(nodes) \subseteq Server
         /\ server \in [Server -> ServerRecord]
         /\ \A s \in Server : /\ server[s].age \in Unset..StatusLost + 1
                              /\ server[s].cached \in BOOLEAN
                              /\ server[s].totals \in BOOLEAN
<1>1. nodes \in Seq(Server) /\ IsInjective(nodes) /\ server \in [Server -> ServerRecord]
  BY DEF IInv, ServersFit
<1>2. Range(nodes) \subseteq Server
  BY <1>1 DEF Range
<1>3. QED BY <1>1, <1>2 DEF ServerRecord

(* A connected client whose server is listed.                              *)
LEMMA LivesIs ==
  ASSUME IInv, NEW c \in Client, Lives(c)
  PROVE  /\ Connected(client[c]) /\ client[c].server \in Range(nodes)
         /\ client[c].server \in Server
         /\ client[c].running <=> client[c].state = "Active" /\ server[client[c].server].totals
BY ClientIs DEF Lives, Listed, Placed

(* A step of one client.                                                   *)
LEMMA OneClient ==
  ASSUME IInv, NEW c \in Client, NEW x, Own(x), Placed(x, server, nodes),
         client' = [client EXCEPT ![c] = x],
         UNCHANGED <<scenario, nodes, server, turn>>,
         stored' \in [Server -> [Client -> Held]],
         users' \in [Peer -> SUBSET Client],
         \A p \in Peer : c \in users'[p] <=> Sets(x.sources, p),
         \A p \in Peer, d \in Client \ {c} : d \in users'[p] <=> d \in users[p]
  PROVE  IInv'
<1>1. DOMAIN client = Client /\ UsersFit(users, client)
  BY DEF IInv
<1>2. DOMAIN client' = Client /\ client'[c] = x
  BY <1>1
<1>3. \A d \in Client \ {c} : client'[d] = client[d]
  BY <1>1
<1>4. ASSUME NEW d \in Client PROVE Own(client'[d]) /\ Placed(client'[d], server, nodes)
  BY <1>2, <1>3, ClientIs
<1>5. ASSUME NEW p \in Peer, NEW d \in Client
      PROVE  d \in users'[p] <=> HasSource(client'[d], p)
  <2>1. CASE d = c
    <3>1. HasSource(x, p) <=> Sets(x.sources, p)
      BY HasSourceIs DEF Own
    <3>2. QED BY <1>2, <2>1, <3>1
  <2>2. CASE d # c
    <3>1. d \in users[p] <=> HasSource(client[d], p)
      BY <1>1 DEF UsersFit
    <3>2. QED BY <1>3, <2>2, <3>1
  <2>3. QED BY <2>1, <2>2
<1>6. UsersFit(users', client')
  BY <1>5 DEF UsersFit
<1>7. QED BY <1>2, <1>4, <1>6 DEF IInv

(* A step of one client that keeps its sources.                            *)
LEMMA OneClientSameSources ==
  ASSUME IInv, NEW c \in Client, NEW x, Own(x), Placed(x, server, nodes),
         \A p : Sets(x.sources, p) <=> Sets(client[c].sources, p),
         client' = [client EXCEPT ![c] = x],
         UNCHANGED <<scenario, nodes, server, turn, users>>,
         stored' \in [Server -> [Client -> Held]]
  PROVE  IInv'
<1>1. UsersFit(users, client)
  BY DEF IInv
<1>2. ASSUME NEW p \in Peer PROVE c \in users'[p] <=> Sets(x.sources, p)
  <2>1. c \in users[p] <=> HasSource(client[c], p)
    BY <1>1 DEF UsersFit
  <2>2. HasSource(client[c], p) <=> Sets(client[c].sources, p)
    BY ClientIs, HasSourceIs
  <2>3. QED BY <2>1, <2>2
<1>3. users' \in [Peer -> SUBSET Client]
  BY <1>1 DEF UsersFit
<1>4. \A p \in Peer, d \in Client \ {c} : d \in users'[p] <=> d \in users[p]
  OBVIOUS
<1>5. QED BY <1>2, <1>3, <1>4, OneClient

(* A step of one client that keeps the sources and the place.              *)
LEMMA OneClientInPlace ==
  ASSUME IInv, NEW c \in Client, NEW x, Own(x), SamePlace(client[c], x),
         \A p : Sets(x.sources, p) <=> Sets(client[c].sources, p),
         client' = [client EXCEPT ![c] = x],
         UNCHANGED <<scenario, nodes, server, turn, users>>,
         stored' \in [Server -> [Client -> Held]]
  PROVE  IInv'
<1>1. Placed(x, server, nodes)
  BY ClientIs, SamePlaceIs
<1>2. QED BY <1>1, OneClientSameSources

(* The node of a peer forgets the clients that release it.                 *)
LEMMA ReleasedIs ==
  ASSUME IInv, NEW S \in SUBSET Client
  PROVE  /\ Released(S) \in [Peer -> SUBSET Client]
         /\ \A p \in Peer, d \in Client : d \in Released(S)[p] <=> d \in users[p] /\ d \notin S
<1>1. UsersFit(users, client)
  BY DEF IInv
<1>2. \A p \in Peer : Released(S)[p] = users[p] \ {c \in S : HasSource(client[c], p)}
  BY DEF Released
<1>3. Released(S) \in [Peer -> SUBSET Client]
  BY <1>1 DEF Released, UsersFit
<1>4. ASSUME NEW p \in Peer, NEW d \in Client
      PROVE  d \in Released(S)[p] <=> d \in users[p] /\ d \notin S
  BY <1>1, <1>2 DEF UsersFit
<1>5. QED BY <1>3, <1>4

(* Nobody sets anything.                                                   *)
LEMMA NoSources ==
  ASSUME NEW q, q = <<>>
  PROVE  \A p : ~Sets(q, p)
<1>1. DOMAIN q = {}
  OBVIOUS
<1>2. QED BY <1>1 DEF Sets

(* A step of one client that has no sources any more.                      *)
LEMMA OneClientReleased ==
  ASSUME IInv, NEW c \in Client, NEW x, Own(x), Placed(x, server, nodes), x.sources = <<>>,
         client' = [client EXCEPT ![c] = x], users' = Released({c}),
         UNCHANGED <<scenario, nodes, server, turn>>,
         stored' \in [Server -> [Client -> Held]]
  PROVE  IInv'
<1>1. /\ users' \in [Peer -> SUBSET Client]
      /\ \A p \in Peer, d \in Client : d \in users'[p] <=> d \in users[p] /\ d \notin {c}
  BY ReleasedIs
<1>2. \A p \in Peer : c \in users'[p] <=> Sets(x.sources, p)
  <2>1. \A p : ~Sets(x.sources, p)
    BY NoSources
  <2>2. \A p \in Peer : c \notin users'[p]
    BY <1>1
  <2>3. QED BY <2>1, <2>2
<1>3. \A p \in Peer, d \in Client \ {c} : d \in users'[p] <=> d \in users[p]
  BY <1>1
<1>4. QED BY <1>1, <1>2, <1>3, OneClient

(* The descriptions that are held stay typed.                              *)
LEMMA StoredKept ==
  ASSUME IInv, UNCHANGED stored
  PROVE  stored' \in [Server -> [Client -> Held]]
BY DEF IInv

(* A client that never registered.                                         *)
LEMMA NewClientIs ==
  ASSUME NEW q \in [Server -> Requests], NEW b \in BOOLEAN, NEW x \in ClientRecord,
         x.registered = b, x.state = "Disconnected", x.server = NoServer, x.command = Idle,
         x.buffer = FALSE, x.transfer = NoTransfer, x.sources = <<>>, x.running = FALSE
  PROVE  Own(x) /\ ~Connected(x)
<1>1. CommandFits(x)
  BY DEF CommandFits, Idle, NoTransfer
<1>2. SourcesFit(x)
  BY DEF SourcesFit
<1>3. QED BY <1>1, <1>2 DEF Own, Connected

(* The empty lists have their types.                                       *)
LEMMA NothingIs ==
  /\ NewClient \in ClientRecord
  /\ NewClient.registered = FALSE /\ NewClient.state = "Disconnected"
  /\ NewClient.server = NoServer /\ NewClient.command = Idle /\ NewClient.buffer = FALSE
  /\ NewClient.transfer = NoTransfer /\ NewClient.sources = <<>>
  /\ NewClient.running = FALSE /\ NewClient.why = "none"
<1> DEFINE q == [s \in Server |-> <<>>]
           e == <<>>
<1>1. q \in [Server -> Requests] /\ e \in Seq(Source)
  <2>1. <<>> \in Requests
    BY TcConnectionAssumption DEF Requests
  <2>2. QED BY <2>1
<1>2. /\ Idle \in Command /\ NoTransfer \in Transfer /\ Unset \in Unset..Quiet
      /\ "Disconnected" \in PoolState /\ 0 \in 0..ServerQueue
  BY TcConnectionAssumption DEF Idle, Command, Message, Unset, NoTransfer, Transfer, PoolState
<1>3. NewClient =
        [registered |-> FALSE, state |-> "Disconnected", server |-> NoServer,
         command |-> Idle, quiet |-> Unset, buffer |-> FALSE, due |-> FALSE,
         queue |-> q, transfer |-> NoTransfer, sources |-> e,
         sourceTask |-> FALSE, running |-> FALSE, why |-> "none", stalled |-> FALSE,
         older |-> 0, genuine |-> FALSE]
  BY DEF NewClient
<1>4. e = <<>>
  OBVIOUS
<1> HIDE DEF q, e
<1>5. NewClient \in ClientRecord
  BY <1>1, <1>2, <1>3 DEF ClientRecord
<1>6. QED BY <1>3, <1>4, <1>5

(* A client registers.                                                     *)
LEMMA RegisterClientKeeps ==
  ASSUME IInv, NEW c \in Client, RegisterClient(c), UNCHANGED <<scenario, turn>>
  PROVE  IInv'
<1> DEFINE w == client[c]
           y == IF \E s \in Range(nodes) : server[s].cached THEN "late" ELSE "none"
           x == [w EXCEPT !.registered = TRUE, !.why = y]
<1>1. Own(w) /\ Placed(w, server, nodes) /\ w \in ClientRecord
  BY ClientIs
<1>2. /\ client' = [client EXCEPT ![c].registered = TRUE, ![c].why = y]
      /\ UNCHANGED <<nodes, server, stored, users>>
  BY DEF RegisterClient
<1>3. DOMAIN client = Client
  BY DEF IInv
<1>4. client' = [client EXCEPT ![c] = x]
  BY <1>2, <1>3
<1>5. y \in {"none", "overdue", "late", "declined"} /\ (y = "none" => NoneKnown(server, nodes))
  BY DEF NoneKnown
<1> HIDE DEF y
<1>6. /\ x \in ClientRecord /\ x.why = y
      /\ x.state = w.state /\ x.server = w.server
      /\ x.command = w.command /\ x.buffer = w.buffer /\ x.transfer = w.transfer
      /\ x.sources = w.sources /\ x.sourceTask = w.sourceTask /\ x.running = w.running
  BY <1>1, <1>5 DEF ClientRecord
<1> HIDE DEF x
<1>7. CommandFits(x)
  BY <1>1, <1>6 DEF Own, CommandFits, Connected
<1>8. SourcesFit(x)
  BY <1>1, <1>6 DEF Own, SourcesFit, Pool
<1>9. Own(x)
  BY <1>1, <1>6, <1>7, <1>8 DEF Own, Connected
<1>10. Placed(x, server, nodes)
  BY <1>1, <1>5, <1>6 DEF Placed, Connected
<1>11. \A p : Sets(x.sources, p) <=> Sets(client[c].sources, p)
  BY <1>6
<1> HIDE DEF w
<1>12. QED BY <1>2, <1>4, <1>9, <1>10, <1>11, StoredKept, OneClientSameSources

(* A client deregisters.                                                   *)
LEMMA DeregisterClientKeeps ==
  ASSUME IInv, NEW c \in Client, DeregisterClient(c), UNCHANGED <<scenario, turn>>
  PROVE  IInv'
<1> DEFINE w == client[c]
           d == IF Connected(w) THEN Disconnected(w, server, FALSE) ELSE w
           q == d.queue
           x == [NewClient EXCEPT !.queue = q]
<1>1. Own(w) /\ w \in ClientRecord
  BY ClientIs
<1>2. d \in ClientRecord
  <2>1. CASE Connected(w)
    <3>1. Lives(c)
      BY <2>1 DEF DeregisterClient
    <3>2. w.running <=> w.state = "Active" /\ server[w.server].totals
      BY <3>1, LivesIs
    <3>3. Ended(w, Disconnected(w, server, FALSE))
      BY <1>1, <2>1, <3>2, DisconnectIs DEF Disconnected
    <3>4. QED BY <2>1, <3>3 DEF Ended, Own
  <2>2. CASE ~Connected(w)
    BY <1>1, <2>2
  <2>3. QED BY <2>1, <2>2
<1>3. /\ client' = [client EXCEPT ![c] = x] /\ users' = Released({c})
      /\ UNCHANGED <<nodes, server, stored>>
  BY DEF DeregisterClient
<1> HIDE DEF w, d
<1>4. q \in [Server -> Requests]
  BY <1>2 DEF ClientRecord
<1> HIDE DEF q
<1>5. /\ x \in ClientRecord /\ x.registered = FALSE /\ x.state = "Disconnected"
      /\ x.server = NoServer /\ x.command = Idle /\ x.buffer = FALSE
      /\ x.transfer = NoTransfer /\ x.sources = <<>> /\ x.running = FALSE
  <2> DEFINE n == NewClient
  <2>1. /\ n \in ClientRecord /\ n.registered = FALSE /\ n.state = "Disconnected"
        /\ n.server = NoServer /\ n.command = Idle /\ n.buffer = FALSE
        /\ n.transfer = NoTransfer /\ n.sources = <<>> /\ n.running = FALSE
    BY NothingIs
  <2>2. x = [n EXCEPT !.queue = q]
    OBVIOUS
  <2> HIDE DEF n, x
  <2>3. QED BY <1>4, <2>1, <2>2 DEF ClientRecord
<1> HIDE DEF x
<1>6. Own(x) /\ ~Connected(x)
  BY <1>4, <1>5, NewClientIs
<1>7. Placed(x, server, nodes)
  BY <1>5, <1>6 DEF Placed
<1>8. QED BY <1>3, <1>5, <1>6, <1>7, StoredKept, OneClientReleased

(* The application decides for a description.                              *)
LEMMA DoConnectKeeps ==
  ASSUME IInv, NEW c \in Client, DoConnect(c), UNCHANGED <<scenario, turn>>
  PROVE  IInv'
<1> DEFINE w == client[c]
           x == FullConnect(w)
<1>1. Own(w) /\ Connected(w) /\ w.state = "AwaitingConnectionDecision" /\ w.sources = <<>>
  BY ClientIs DEF DoConnect, Lives, Own, SourcesFit, Pool
<1>2. /\ client' = [client EXCEPT ![c] = x]
      /\ UNCHANGED <<nodes, server, stored, users>>
  BY DEF DoConnect
<1>3. Own(x) /\ InPlace(w, x)
  BY <1>1, FullConnectIs
<1> HIDE DEF x, w
<1>4. SamePlace(w, x) /\ \A p : Sets(x.sources, p) <=> Sets(w.sources, p)
  BY <1>3 DEF InPlace
<1>5. QED BY <1>2, <1>3, <1>4, StoredKept, OneClientInPlace DEF w

(* A step of one client that stays where it is, with its sources.          *)
LEMMA OneClientStays ==
  ASSUME IInv, NEW c \in Client, NEW x, Own(x), InPlace(client[c], x),
         client' = [client EXCEPT ![c] = x],
         UNCHANGED <<scenario, nodes, server, turn, users>>,
         stored' \in [Server -> [Client -> Held]]
  PROVE  IInv'
<1>1. SamePlace(client[c], x) /\ \A p : Sets(x.sources, p) <=> Sets(client[c].sources, p)
  BY DEF InPlace
<1>2. QED BY <1>1, OneClientInPlace

(* The application declines a server.                                      *)
LEMMA DontConnectKeeps ==
  ASSUME IInv, NEW c \in Client, DontConnect(c), UNCHANGED <<scenario, turn>>
  PROVE  IInv'
<1> DEFINE w == client[c]
           d == Disconnected(w, server, FALSE)
           next == NextServer(server, nodes, w.server)
           y == [d EXCEPT !.why = "declined"]
           x == IF next # NoServer THEN PreConnect(d, next) ELSE y
<1>1. /\ Own(w) /\ Connected(w) /\ w.server \in Range(nodes) /\ w.sources = <<>>
      /\ w.running <=> w.state = "Active" /\ server[w.server].totals
  BY ClientIs, LivesIs DEF DontConnect, Own, SourcesFit, Pool
<1>2. /\ client' = [client EXCEPT ![c] = x]
      /\ UNCHANGED <<nodes, server, stored, users>>
  BY DEF DontConnect
<1>3. Ended(w, d)
  BY <1>1, DisconnectIs DEF Disconnected
<1>4. /\ nodes \in Seq(Server) /\ IsInjective(nodes)
      /\ NoServer \notin Server
  BY ServersAre, TcConnectionAssumption
<1>5. (next \in Range(nodes) /\ next \in Server /\ IsAlive(server, next)) \/ next = NoServer
  BY <1>1, <1>4, NextServerIs
<1> HIDE DEF d, next
<1>6. Own(x) /\ Placed(x, server, nodes) /\ x.sources = <<>>
  <2>1. CASE next # NoServer
    <3> DEFINE z == PreConnect(d, next)
    <3>1. next \in Range(nodes) /\ next \in Server /\ IsAlive(server, next)
      BY <1>5, <2>1
    <3>2. /\ Own(z) /\ Connected(z) /\ z.server = next
          /\ ~z.running /\ z.sources = <<>> /\ z.state # "Active"
      BY <1>3, <3>1, PreConnectIs DEF Ended
    <3> HIDE DEF z
    <3>3. Placed(z, server, nodes)
      BY <3>1, <3>2 DEF Placed, Serves, IsAlive
    <3>4. QED BY <2>1, <3>2, <3>3 DEF z
  <2>2. CASE next = NoServer
    <3>1. Own(y) /\ ~Connected(y) /\ y.why = "declined" /\ y.sources = <<>>
      BY <1>3, WhyIs DEF Ended
    <3> HIDE DEF y
    <3>2. Placed(y, server, nodes)
      BY <3>1 DEF Placed
    <3>3. QED BY <2>2, <3>1, <3>2
  <2>3. QED BY <2>1, <2>2
<1>7. \A p : Sets(x.sources, p) <=> Sets(w.sources, p)
  BY <1>1, <1>6
<1> HIDE DEF x, w
<1>8. QED BY <1>2, <1>6, <1>7, StoredKept, OneClientSameSources DEF w

(* The application reconnects.                                             *)
LEMMA ForceReconnectKeeps ==
  ASSUME IInv, NEW c \in Client, NEW b \in BOOLEAN, ForceReconnect(c, b),
         UNCHANGED <<scenario, turn>>
  PROVE  IInv'
<1> DEFINE w == client[c]
           s == w.server
           d == Disconnected(w, server, b)
           x == PreConnect(d, s)
<1>1. /\ Own(w) /\ Connected(w) /\ s \in Range(nodes) /\ s \in Server
      /\ w.running <=> w.state = "Active" /\ server[s].totals
      /\ Serves(server, nodes, s)
  BY ClientIs, LivesIs DEF ForceReconnect, Placed
<1>2. /\ client' = [client EXCEPT ![c] = x] /\ users' = Released({c})
      /\ UNCHANGED <<nodes, server, stored>>
  BY DEF ForceReconnect
<1>3. Ended(w, d)
  BY <1>1, DisconnectIs DEF Disconnected
<1> HIDE DEF d
<1>4. /\ Own(x) /\ Connected(x) /\ x.server = s
      /\ ~x.running /\ x.sources = <<>> /\ x.state # "Active"
  BY <1>1, <1>3, PreConnectIs DEF Ended
<1> HIDE DEF x, s, w
<1>5. Placed(x, server, nodes)
  BY <1>1, <1>4 DEF Placed
<1>6. QED BY <1>2, <1>4, <1>5, StoredKept, OneClientReleased

(* Another long message goes to the server.                                *)
LEMMA OtherTransferKeeps ==
  ASSUME IInv, NEW c \in Client, OtherTransfer(c), UNCHANGED <<scenario, turn>>
  PROVE  IInv'
<1> DEFINE w == client[c]
           t == [to |-> w.server, kind |-> "other"]
           x == [w EXCEPT !.transfer = t]
<1>1. Own(w) /\ w \in ClientRecord /\ w.server \in Server
  BY ClientIs, LivesIs DEF OtherTransfer
<1>2. t \in Transfer /\ t.kind = "other"
  BY <1>1 DEF Transfer
<1>3. /\ client' = [client EXCEPT ![c].transfer = t]
      /\ UNCHANGED <<nodes, server, stored, users>>
  BY DEF OtherTransfer
<1>4. DOMAIN client = Client
  BY DEF IInv
<1>5. client' = [client EXCEPT ![c] = x]
  BY <1>3, <1>4
<1> HIDE DEF t
<1>6. CommandKept(w, x) /\ x.transfer = t /\ x.command = w.command
  BY <1>1, <1>2 DEF CommandKept, ClientRecord
<1> HIDE DEF x
<1>7. CommandFits(x)
  BY <1>1, <1>2, <1>6 DEF Own, CommandFits, CommandKept
<1>8. SourcesFit(x)
  BY <1>1, <1>6 DEF Own, SourcesFit, CommandKept, Pool
<1>9. Own(x) /\ InPlace(w, x)
  BY <1>1, <1>6, <1>7, <1>8 DEF Own, CommandKept, InPlace, SamePlace, Connected
<1> HIDE DEF w
<1>10. QED BY <1>3, <1>5, <1>9, StoredKept, OneClientStays DEF w

(* A transfer ends.                                                        *)
LEMMA TransferEndsKeeps ==
  ASSUME IInv, NEW c \in Client, NEW success \in BOOLEAN, NEW received \in BOOLEAN,
         TransferEnds(c, success, received), UNCHANGED <<scenario, turn>>
  PROVE  IInv'
<1> DEFINE w == client[c]
           sent == IF received
                   THEN [w EXCEPT !.queue[w.server] = Reaches(w.server, @, "OPTransfer")]
                   ELSE w
           v == [sent EXCEPT !.transfer = NoTransfer]
           alive == IsAlive(server, w.server)
           r == ReactOnStateChange(v, success, alive)
           u == [w EXCEPT !.transfer = NoTransfer]
<1>1. Own(w) /\ w \in ClientRecord /\ DOMAIN client = Client
  BY ClientIs DEF IInv
<1>2. NoTransfer \in Transfer /\ NoTransfer.kind = "none"
  BY DEF NoTransfer, Transfer
<1>3. UNCHANGED <<nodes, server, stored, users>>
  BY DEF TransferEnds
<1>4. CASE w.transfer.kind = "pool"
  <2>1. Lives(c) /\ client' = [client EXCEPT ![c] = r]
    BY <1>4 DEF TransferEnds
  <2>2. Connected(w) /\ w.server \in Server
    BY <2>1, LivesIs
  <2>3. AllKept(w, sent)
    <3>1. SendMsg(w, "OPTransfer")
            = [w EXCEPT !.queue[w.server] = Reaches(w.server, @, "OPTransfer")]
      BY DEF SendMsg
    <3>2. AllKept(w, SendMsg(w, "OPTransfer"))
      BY <1>1, <2>2, SendMsgIs DEF Message
    <3>3. AllKept(w, w)
      BY <1>1 DEF AllKept
    <3>4. sent = IF received THEN SendMsg(w, "OPTransfer") ELSE w
      BY <3>1
    <3> HIDE DEF sent
    <3>5. QED BY <3>2, <3>3, <3>4
  <2> HIDE DEF sent
  <2>4. /\ v \in ClientRecord /\ v.transfer = NoTransfer
        /\ v.registered = w.registered /\ v.state = w.state /\ v.server = w.server
        /\ v.command = w.command /\ v.buffer = w.buffer /\ v.sources = w.sources
        /\ v.sourceTask = w.sourceTask /\ v.running = w.running /\ v.why = w.why
    <3>1. sent \in ClientRecord
      BY <2>3 DEF AllKept
    <3>2. /\ v \in ClientRecord /\ v.transfer = NoTransfer
          /\ v.registered = sent.registered /\ v.state = sent.state /\ v.server = sent.server
          /\ v.command = sent.command /\ v.buffer = sent.buffer /\ v.sources = sent.sources
          /\ v.sourceTask = sent.sourceTask /\ v.running = sent.running /\ v.why = sent.why
      BY <1>2, <3>1 DEF ClientRecord
    <3> HIDE DEF v
    <3>3. QED BY <2>3, <3>2 DEF AllKept
  <2>5. alive \in BOOLEAN
    BY DEF IsAlive
  <2> HIDE DEF v, alive, w
  <2>6. Own(r) /\ InPlace(w, r)
    BY <1>1, <1>4, <2>2, <2>4, <2>5, TransferEnded
  <2> HIDE DEF r
  <2>7. QED BY <1>3, <2>1, <2>6, StoredKept, OneClientStays DEF w
<1>5. CASE w.transfer.kind # "pool"
  <2>1. client' = [client EXCEPT ![c].transfer = NoTransfer]
    BY <1>5 DEF TransferEnds
  <2>2. client' = [client EXCEPT ![c] = u]
    BY <1>1, <2>1
  <2>3. CommandKept(w, u) /\ u.transfer = NoTransfer /\ u.command = w.command
    BY <1>1, <1>2 DEF CommandKept, ClientRecord
  <2> HIDE DEF u
  <2>4. CommandFits(u)
    BY <1>1, <1>2, <2>3 DEF Own, CommandFits, CommandKept
  <2>5. SourcesFit(u)
    BY <1>1, <2>3 DEF Own, SourcesFit, CommandKept, Pool
  <2>6. Own(u) /\ InPlace(w, u)
    BY <1>1, <2>3, <2>4, <2>5 DEF Own, CommandKept, InPlace, SamePlace, Connected
  <2> HIDE DEF w
  <2>7. QED BY <1>3, <2>2, <2>6, StoredKept, OneClientStays DEF w
<1>6. QED BY <1>4, <1>5

(* What a server holds after a request.                                    *)
LEMMA HandledIs ==
  ASSUME IInv, NEW s \in Server, NEW c \in Client, NEW r, NEW ok \in BOOLEAN,
         Handled(s, c, r, ok)
  PROVE  stored' \in [Server -> [Client -> Held]]
<1> DEFINE a == Agrees(s, c, r, ok)
           h == StoredAfter(stored[s][c], r, a)
<1>1. stored \in [Server -> [Client -> Held]]
  BY DEF IInv
<1>2. stored' = [stored EXCEPT ![s][c] = h]
  BY DEF Handled
<1> HIDE DEF a
<1>3. h \in Held
  BY <1>1 DEF StoredAfter, Held
<1> HIDE DEF h
<1>4. QED BY <1>1, <1>2, <1>3

(* A request is gone.                                                      *)
LEMMA WithoutRequestIs ==
  ASSUME NEW w \in ClientRecord, NEW s \in Server, w.queue[s] # <<>>
  PROVE  AllKept(w, WithoutRequest(w, s))
<1> DEFINE q == Tail(w.queue[s])
           n == IF w.server = s /\ w.older > 0 THEN w.older - 1 ELSE w.older
           v == [w EXCEPT !.queue[s] = q]
<1>1. q \in Requests
  BY RestIs DEF ClientRecord
<1>2. n \in 0..ServerQueue
  BY TcConnectionAssumption DEF ClientRecord
<1>3. WithoutRequest(w, s) = [v EXCEPT !.older = n]
  BY DEF WithoutRequest, ClientRecord
<1> HIDE DEF q, n, v
<1>4. AllKept(w, v)
  BY <1>1, QueueSet DEF v
<1>5. AllKept(v, [v EXCEPT !.older = n])
  BY <1>2, <1>4 DEF AllKept, ClientRecord
<1>6. QED BY <1>3, <1>4, <1>5 DEF AllKept

(* An answer arrives.                                                      *)
LEMMA AnswerKeeps ==
  ASSUME IInv, NEW s \in Server, NEW c \in Client, NEW ok \in BOOLEAN, Answer(s, c, ok),
         UNCHANGED <<scenario, turn>>
  PROVE  IInv'
<1> DEFINE w == client[c]
           r == Head(w.queue[s])
           rest == WithoutRequest(w, s)
           taken == [rest EXCEPT !.genuine = @ \/ w.older = 0]
           held == stored[s][c]
           agrees == Agrees(s, c, r, ok)
           totals == server[s].totals
           y == Answered(taken, Response(r), held, agrees, totals)
           x == IF w.server = s /\ TakesResponse(w, Response(r)) THEN y ELSE rest
<1>1. /\ Own(w) /\ w \in ClientRecord /\ DOMAIN client = Client /\ w.queue[s] \in Requests
      /\ Placed(w, server, nodes)
  BY ClientIs DEF IInv, ClientRecord
<1>2. /\ w.queue[s] # <<>> /\ (Connected(w) => Lives(c)) /\ Handled(s, c, r, ok)
      /\ client' = [client EXCEPT ![c] = x]
      /\ UNCHANGED <<nodes, server, users>>
  BY DEF Answer
<1>3. stored' \in [Server -> [Client -> Held]]
  BY <1>2, HandledIs
<1>4. AllKept(w, rest) /\ AllKept(w, taken)
  <2>1. AllKept(w, rest)
    BY <1>1, <1>2, WithoutRequestIs
  <2> HIDE DEF rest, w
  <2>2. AllKept(rest, taken)
    BY <2>1 DEF AllKept, ClientRecord
  <2>3. QED BY <2>1, <2>2 DEF AllKept
<1>5. agrees \in BOOLEAN /\ totals \in BOOLEAN
  BY ServersAre DEF Agrees
<1> HIDE DEF rest, taken, agrees, totals, held, r, w
<1>6. Own(rest) /\ InPlace(w, rest) /\ Own(taken) /\ InPlace(w, taken)
  BY <1>1, <1>4, AllKeptIsOwn
<1>7. CASE w.server = s /\ TakesResponse(w, Response(r))
  <2>1. Connected(w) /\ Connected(taken) /\ w.server = s
    BY <1>4, <1>7, TcConnectionAssumption DEF AllKept, Connected
  <2>2. TakesResponse(taken, Response(r))
    BY <1>4, <1>7 DEF AllKept, TakesResponse
  <2>3. Own(y) /\ StaysPlaced(taken, y, totals)
    BY <1>5, <1>6, <2>1, <2>2, AnsweredIs
  <2>4. Placed(taken, server, nodes)
    BY <1>1, <1>6, SamePlaceIs DEF InPlace
  <2>5. taken.server = s /\ x = y
    BY <1>4, <1>7 DEF AllKept
  <2> HIDE DEF y, x
  <2>6. StaysPlaced(taken, y, server[taken.server].totals)
    BY <2>3, <2>5 DEF totals
  <2>7. Placed(y, server, nodes)
    BY <2>1, <2>4, <2>6, StaysPlacedIs
  <2>8. y.sources = w.sources
    BY <1>6, <2>3 DEF StaysPlaced, InPlace
  <2>9. QED BY <1>2, <1>3, <2>3, <2>5, <2>7, <2>8, OneClientSameSources DEF w
<1>8. CASE ~(w.server = s /\ TakesResponse(w, Response(r)))
  <2>1. x = rest
    BY <1>8
  <2> HIDE DEF x
  <2>2. QED BY <1>2, <1>3, <1>6, <2>1, OneClientStays DEF w
<1>9. QED BY <1>7, <1>8

(* A request or its answer is lost.                                        *)
LEMMA LoseKeeps ==
  ASSUME IInv, NEW s \in Server, NEW c \in Client, NEW b \in BOOLEAN, Lose(s, c, b),
         UNCHANGED <<scenario, turn>>
  PROVE  IInv'
<1> DEFINE w == client[c]
           x == WithoutRequest(w, s)
<1>1. /\ Own(w) /\ w \in ClientRecord /\ DOMAIN client = Client /\ w.queue[s] \in Requests
  BY ClientIs DEF IInv, ClientRecord
<1>2. /\ w.queue[s] # <<>>
      /\ client' = [client EXCEPT ![c] = x]
      /\ UNCHANGED <<nodes, server, users>>
  BY DEF Lose
<1>3. stored' \in [Server -> [Client -> Held]]
  <2>1. CASE b
    <3>1. Handled(s, c, Head(w.queue[s]), TRUE)
      BY <2>1 DEF Lose
    <3>2. QED BY <3>1, HandledIs
  <2>2. CASE ~b
    BY <2>2, StoredKept DEF Lose
  <2>3. QED BY <2>1, <2>2
<1>4. AllKept(w, x)
  BY <1>1, <1>2, WithoutRequestIs
<1> HIDE DEF x, w
<1>5. Own(x) /\ InPlace(w, x)
  BY <1>1, <1>4, AllKeptIsOwn
<1>6. QED BY <1>2, <1>3, <1>5, OneClientStays DEF w

-----------------------------------------------------------------------------
(* Steps of the peers.                                                     *)

(* The peers of a client before a step.                                    *)
LEMMA UsersAre ==
  ASSUME IInv, NEW c \in Client
  PROVE  /\ users \in [Peer -> SUBSET Client]
         /\ \A p \in Peer : c \in users[p] <=> Sets(client[c].sources, p)
<1>1. UsersFit(users, client)
  BY DEF IInv
<1>2. ASSUME NEW p \in Peer PROVE c \in users[p] <=> Sets(client[c].sources, p)
  <2>1. HasSource(client[c], p) <=> Sets(client[c].sources, p)
    BY ClientIs, HasSourceIs
  <2>2. QED BY <1>1, <2>1 DEF UsersFit
<1>3. QED BY <1>1, <1>2 DEF UsersFit

(* The server assigns a peer to a value.                                   *)
LEMMA AssignSourceKeeps ==
  ASSUME IInv, NEW c \in Client, NEW v \in Value, NEW p \in Peer, AssignSource(c, v, p),
         UNCHANGED <<scenario, turn>>
  PROVE  IInv'
<1> DEFINE w == client[c]
           x == AddSource(w, v, p)
<1>1. Own(w) /\ Pool(w) /\ Placed(w, server, nodes)
  BY ClientIs DEF AssignSource
<1>2. /\ client' = [client EXCEPT ![c] = x]
      /\ users' = [users EXCEPT ![p] = users[p] \union {c}]
      /\ UNCHANGED <<nodes, server, stored>>
  BY DEF AssignSource
<1>3. /\ Own(x) /\ SamePlace(w, x)
      /\ \A q : Sets(x.sources, q) <=> Sets(w.sources, q) \/ q = p
  BY <1>1, AddSourceIs
<1>4. /\ users \in [Peer -> SUBSET Client]
      /\ \A q \in Peer : c \in users[q] <=> Sets(w.sources, q)
  BY UsersAre
<1> HIDE DEF x, w
<1>5. /\ users' \in [Peer -> SUBSET Client]
      /\ users'[p] = users[p] \union {c} /\ \A q \in Peer \ {p} : users'[q] = users[q]
  BY <1>2, <1>4
<1>6. \A q \in Peer : c \in users'[q] <=> Sets(x.sources, q)
  BY <1>3, <1>4, <1>5
<1>7. \A q \in Peer, d \in Client \ {c} : d \in users'[q] <=> d \in users[q]
  BY <1>4, <1>5
<1>8. Placed(x, server, nodes)
  BY <1>1, <1>3, SamePlaceIs
<1>9. QED BY <1>2, <1>3, <1>5, <1>6, <1>7, <1>8, StoredKept, OneClient

(* The server takes the assignment back.                                   *)
LEMMA UnassignSourceKeeps ==
  ASSUME IInv, NEW c \in Client, NEW v \in Value, NEW p \in Peer, UnassignSource(c, v, p),
         UNCHANGED <<scenario, turn>>
  PROVE  IInv'
<1> DEFINE w == client[c]
           q == w.sources
           keep == {e \in Range(q) : e.what # v \/ e.peer # p}
           x == RemoveSource(w, v, p)
<1>1. Own(w) /\ Placed(w, server, nodes) /\ DOMAIN client = Client
  BY ClientIs DEF IInv
<1>2. /\ client' = [client EXCEPT ![c] = x]
      /\ users' = [users EXCEPT ![p] = IF HasSource(client'[c], p) THEN users[p] ELSE users[p] \ {c}]
      /\ UNCHANGED <<nodes, server, stored>>
  BY DEF UnassignSource
<1>3. x = KeepSources(w, Selected(w.sources, keep))
  BY DEF RemoveSource
<1>4. ASSUME NEW r, r # p, NEW n \in DOMAIN q, q[n].peer = r PROVE q[n] \in keep
  BY <1>4 DEF Range
<1> HIDE DEF keep
<1>5. /\ Own(x) /\ SamePlace(w, x)
      /\ \A r : Sets(x.sources, r) <=> \E n \in DOMAIN q : q[n] \in keep /\ q[n].peer = r
  <2> DEFINE z == KeepSources(w, Selected(w.sources, keep))
  <2>1. /\ Own(z) /\ SamePlace(w, z)
        /\ \A r : Sets(z.sources, r) <=> \E n \in DOMAIN q : q[n] \in keep /\ q[n].peer = r
    BY <1>1, KeepSourcesIs
  <2>2. z = x
    BY <1>3
  <2> HIDE DEF z, x
  <2>3. QED BY <2>1, <2>2
<1> HIDE DEF x
<1>6. /\ users \in [Peer -> SUBSET Client]
      /\ \A r \in Peer : c \in users[r] <=> Sets(q, r)
  BY UsersAre
<1> HIDE DEF w
<1>7. client'[c] = x /\ (HasSource(x, p) <=> Sets(x.sources, p))
  BY <1>1, <1>2, <1>5, HasSourceIs DEF Own
<1> HIDE DEF q
<1>8. /\ users' \in [Peer -> SUBSET Client]
      /\ users'[p] = (IF HasSource(x, p) THEN users[p] ELSE users[p] \ {c})
      /\ \A r \in Peer \ {p} : users'[r] = users[r]
  BY <1>2, <1>6, <1>7
<1>9. Sets(x.sources, p) => Sets(q, p)
  BY <1>5 DEF Sets
<1>10. \A r \in Peer \ {p} : Sets(x.sources, r) <=> Sets(q, r)
  BY <1>4, <1>5 DEF Sets
<1>11. \A r \in Peer : c \in users'[r] <=> Sets(x.sources, r)
  <2>1. c \in users'[p] <=> Sets(x.sources, p)
    BY <1>6, <1>7, <1>8, <1>9
  <2>2. \A r \in Peer \ {p} : c \in users'[r] <=> Sets(x.sources, r)
    BY <1>6, <1>8, <1>10
  <2>3. QED BY <2>1, <2>2
<1>12. \A r \in Peer, d \in Client \ {c} : d \in users'[r] <=> d \in users[r]
  BY <1>6, <1>8
<1>13. Placed(x, server, nodes)
  BY <1>1, <1>5, SamePlaceIs
<1>14. QED BY <1>2, <1>5, <1>8, <1>11, <1>12, <1>13, StoredKept, OneClient

(* A value of the peer arrives.                                            *)
LEMMA SetValueKeeps ==
  ASSUME IInv, NEW c \in Client, NEW v \in Value, SetValue(c, v), UNCHANGED <<scenario, turn>>
  PROVE  IInv'
<1> DEFINE w == client[c]
<1>1. UNCHANGED <<nodes, server, stored, users>>
  BY DEF SetValue
<1>2. PICK n \in SourceOf(w, v) :
        client' = [client EXCEPT ![c] = Heard(UpdateTimestamp(w, w.sources[n].peer), w.sources[n].peer)]
  BY DEF SetValue
<1> DEFINE p == w.sources[n].peer
           x == Heard(UpdateTimestamp(w, p), p)
<1>3. client' = [client EXCEPT ![c] = x]
  BY <1>2
<1>4. Own(w)
  BY ClientIs
<1> HIDE DEF p
<1>5. Own(x) /\ SamePlace(w, x) /\ \A q : Sets(x.sources, q) <=> Sets(w.sources, q)
  BY <1>4, HeardIs
<1> HIDE DEF x, w
<1>6. QED BY <1>1, <1>3, <1>5, StoredKept, OneClientInPlace DEF w

(* The server sends a value that a peer is to set.                         *)
LEMMA ServerSetsValueKeeps ==
  ASSUME IInv, NEW c \in Client, NEW v \in Value, ServerSetsValue(c, v),
         UNCHANGED <<scenario, turn>>
  PROVE  IInv'
<1> DEFINE w == client[c]
<1>1. UNCHANGED <<nodes, server, stored, users>>
  BY DEF ServerSetsValue
<1>2. PICK n \in SourceOf(w, v) :
        client' = [client EXCEPT ![c] = UpdateTimestamp(w, w.sources[n].peer)]
  BY DEF ServerSetsValue
<1> DEFINE p == w.sources[n].peer
           x == UpdateTimestamp(w, p)
<1>3. client' = [client EXCEPT ![c] = x]
  BY <1>2
<1>4. Own(w)
  BY ClientIs
<1> HIDE DEF p
<1>5. Own(x) /\ SamePlace(w, x) /\ \A q : Sets(x.sources, q) <=> Sets(w.sources, q)
  BY <1>4, TimestampIs
<1> HIDE DEF x, w
<1>6. QED BY <1>1, <1>3, <1>5, StoredKept, OneClientInPlace DEF w

(* The task of the sources.                                                *)
LEMMA SourceTaskKeeps ==
  ASSUME IInv, NEW c \in Client, SourceTask(c), UNCHANGED <<scenario, turn>>
  PROVE  IInv'
<1> DEFINE w == client[c]
           q == w.sources
           keep == {e \in Range(q) : e.age <= SourceLost}
           x == SourceTimeEvent(w)
<1>1. Own(w) /\ Placed(w, server, nodes) /\ DOMAIN client = Client /\ w \in ClientRecord
  BY ClientIs DEF IInv
<1>2. /\ client' = [client EXCEPT ![c] = x]
      /\ users' = [p \in Peer |->
           IF HasSource(w, p) /\ ~HasSource(client'[c], p) THEN users[p] \ {c} ELSE users[p]]
      /\ UNCHANGED <<nodes, server, stored>>
  BY DEF SourceTask
<1>3. x = KeepSources(w, Selected(w.sources, keep))
  BY DEF SourceTimeEvent
<1> HIDE DEF keep
<1>4. /\ Own(x) /\ SamePlace(w, x)
      /\ \A r : Sets(x.sources, r) <=> \E n \in DOMAIN q : q[n] \in keep /\ q[n].peer = r
  <2> DEFINE z == KeepSources(w, Selected(w.sources, keep))
  <2>1. /\ Own(z) /\ SamePlace(w, z)
        /\ \A r : Sets(z.sources, r) <=> \E n \in DOMAIN q : q[n] \in keep /\ q[n].peer = r
    BY <1>1, KeepSourcesIs
  <2>2. z = x
    BY <1>3
  <2> HIDE DEF z, x
  <2>3. QED BY <2>1, <2>2
<1> HIDE DEF x
<1>5. /\ users \in [Peer -> SUBSET Client]
      /\ \A r \in Peer : c \in users[r] <=> Sets(q, r)
  BY UsersAre
<1>6. \A p \in Peer : HasSource(w, p) <=> Sets(q, p)
  BY <1>1, HasSourceIs
<1>7. client'[c] = x /\ \A p \in Peer : HasSource(x, p) <=> Sets(x.sources, p)
  BY <1>1, <1>2, <1>4, HasSourceIs DEF Own
<1> HIDE DEF w, q
<1>8. \A p : Sets(x.sources, p) => Sets(q, p)
  BY <1>4 DEF Sets
<1>9. ASSUME NEW p \in Peer
      PROVE  users'[p] = IF Sets(q, p) /\ ~Sets(x.sources, p) THEN users[p] \ {c} ELSE users[p]
  BY <1>2, <1>6, <1>7
<1>10. users' \in [Peer -> SUBSET Client]
  <2>1. \A p \in Peer : users'[p] \in SUBSET Client
    BY <1>5, <1>9
  <2>2. DOMAIN users' = Peer /\ users' = [p \in Peer |-> users'[p]]
    BY <1>2
  <2>3. QED BY <2>1, <2>2
<1>11. \A p \in Peer : c \in users'[p] <=> Sets(x.sources, p)
  BY <1>5, <1>8, <1>9
<1>12. \A p \in Peer, d \in Client \ {c} : d \in users'[p] <=> d \in users[p]
  BY <1>9
<1>13. Placed(x, server, nodes)
  BY <1>1, <1>4, SamePlaceIs
<1>14. QED BY <1>2, <1>4, <1>10, <1>11, <1>12, <1>13, StoredKept, OneClient DEF w

(* A peer leaves the bus.                                                  *)
LEMMA RemovePeerKeeps ==
  ASSUME IInv, NEW p \in Peer, RemovePeer(p), UNCHANGED <<scenario, turn>>
  PROVE  IInv'
<1>1. /\ client' = [c \in Client |-> PeerDropped(c, p)]
      /\ users' = [users EXCEPT ![p] = {}]
      /\ UNCHANGED <<nodes, server, stored>>
  BY DEF RemovePeer
<1>2. DOMAIN client' = Client
  BY <1>1
<1>3. ASSUME NEW c \in Client
      PROVE  /\ Own(client'[c]) /\ Placed(client'[c], server, nodes)
             /\ \A r : Sets(client'[c].sources, r) <=> Sets(client[c].sources, r) /\ r # p
  <2> DEFINE w == client[c]
             q == w.sources
             keep == {e \in Range(q) : e.peer # p}
             x == KeepSources(w, Selected(w.sources, keep))
  <2>1. client'[c] = x
    BY <1>1 DEF PeerDropped, DropPeer
  <2>2. Own(w) /\ Placed(w, server, nodes)
    BY ClientIs
  <2>3. \A n \in DOMAIN q : q[n] \in keep <=> q[n].peer # p
    BY DEF Range
  <2> HIDE DEF keep
  <2>4. /\ Own(x) /\ SamePlace(w, x)
        /\ \A r : Sets(x.sources, r) <=> \E n \in DOMAIN q : q[n] \in keep /\ q[n].peer = r
    BY <2>2, KeepSourcesIs
  <2> HIDE DEF x
  <2>5. Placed(x, server, nodes)
    BY <2>2, <2>4, SamePlaceIs
  <2>6. ASSUME NEW r PROVE Sets(x.sources, r) <=> Sets(q, r) /\ r # p
    BY <2>3, <2>4 DEF Sets
  <2>7. QED BY <2>1, <2>4, <2>5, <2>6
<1>4. UsersFit(users', client')
  <2>1. users \in [Peer -> SUBSET Client]
    BY DEF IInv, UsersFit
  <2>2. users' \in [Peer -> SUBSET Client] /\ users'[p] = {}
        /\ \A r \in Peer \ {p} : users'[r] = users[r]
    BY <1>1, <2>1
  <2>3. ASSUME NEW r \in Peer, NEW c \in Client
        PROVE  c \in users'[r] <=> HasSource(client'[c], r)
    <3>1. c \in users[r] <=> Sets(client[c].sources, r)
      BY UsersAre
    <3>2. HasSource(client'[c], r) <=> Sets(client'[c].sources, r)
      BY <1>3, HasSourceIs DEF Own
    <3>3. c \in users'[r] <=> c \in users[r] /\ r # p
      BY <2>2
    <3>4. QED BY <1>3, <3>1, <3>2, <3>3
  <2>4. QED BY <2>2, <2>3 DEF UsersFit
<1>5. QED BY <1>1, <1>2, <1>3, <1>4, StoredKept DEF IInv

-----------------------------------------------------------------------------
(* Steps of the servers.                                                   *)

(* Connections to a server end.                                            *)
LEMMA LeaveServerIs ==
  ASSUME IInv, NEW S \in SUBSET Client, NEW left \in Server \union {NoServer}, NEW srv,
         \A c \in S : /\ Connected(client[c]) /\ client[c].server \in Range(nodes)
                      /\ srv[client[c].server].totals = server[client[c].server].totals,
         LeaveServer(S, left, srv)
  PROVE  /\ UsersFit(users', client') /\ DOMAIN client' = Client
         /\ \A c \in S : Reconnected(client[c], client'[c], left, srv)
         /\ \A c \in Client \ S : Own(client'[c]) /\ InPlace(client[c], client'[c])
<1> DEFINE Ends(c) == IF c \in S THEN EndConnection(client[c], left, srv) ELSE client[c]
<1>1. /\ client' = [c \in Client |->
           IF left = NoServer THEN Ends(c) ELSE [Ends(c) EXCEPT !.queue[left] = <<>>]]
      /\ users' = Released(S)
  BY DEF LeaveServer
<1>2. ASSUME NEW w, Own(w)
      PROVE  AllKept(w, IF left = NoServer THEN w ELSE [w EXCEPT !.queue[left] = <<>>])
  <2>1. CASE left = NoServer
    BY <1>2, <2>1 DEF AllKept, Own
  <2>2. CASE left # NoServer
    <3> DEFINE q == <<>>
    <3>1. q \in Requests /\ left \in Server /\ w \in ClientRecord
      BY <1>2, <2>2, TcConnectionAssumption DEF Requests, Own
    <3> HIDE DEF q
    <3>2. AllKept(w, [w EXCEPT !.queue[left] = q])
      BY <3>1, QueueSet
    <3>3. QED BY <2>2, <3>2 DEF q
  <2>3. QED BY <2>1, <2>2
<1>3. nodes \in Seq(Server) /\ IsInjective(nodes)
  BY ServersAre
<1>4. ASSUME NEW c \in S PROVE Reconnected(client[c], Ends(c), left, srv)
  <2>1. /\ Own(client[c]) /\ Connected(client[c]) /\ client[c].server \in Range(nodes)
        /\ Placed(client[c], server, nodes)
    BY ClientIs
  <2>2. client[c].running <=> client[c].state = "Active" /\ srv[client[c].server].totals
    BY <2>1 DEF Placed
  <2>3. Reconnected(client[c], EndConnection(client[c], left, srv), left, srv)
    BY <1>3, <2>1, <2>2, EndConnectionIs
  <2>4. QED BY <2>3
<1>5. ASSUME NEW c \in Client
      PROVE  client'[c] = IF left = NoServer THEN Ends(c) ELSE [Ends(c) EXCEPT !.queue[left] = <<>>]
  BY <1>1
<1>6. ASSUME NEW c \in S PROVE Reconnected(client[c], client'[c], left, srv)
  <2> DEFINE w == client[c]
             e == Ends(c)
             x == client'[c]
  <2>1. Reconnected(w, e, left, srv)
    BY <1>4
  <2> HIDE DEF Ends, e, w
  <2>2. Own(e)
    BY <2>1 DEF Reconnected
  <2>3. AllKept(e, x)
    BY <1>2, <1>5, <2>2 DEF e
  <2> HIDE DEF x
  <2>4. Own(x) /\ InPlace(e, x)
    BY <2>2, <2>3, AllKeptIsOwn
  <2>5. Reconnected(w, x, left, srv)
    BY <2>1, <2>4 DEF Reconnected, InPlace, SamePlace, Connected
  <2>6. QED BY <2>5 DEF x, w
<1>7. ASSUME NEW c \in Client \ S PROVE Own(client'[c]) /\ InPlace(client[c], client'[c])
  <2>1. Own(client[c]) /\ Ends(c) = client[c]
    BY ClientIs
  <2> HIDE DEF Ends
  <2>2. AllKept(client[c], client'[c])
    BY <1>2, <1>5, <2>1
  <2>3. QED BY <2>1, <2>2, AllKeptIsOwn
<1>8. /\ users' \in [Peer -> SUBSET Client]
      /\ \A p \in Peer, d \in Client : d \in users'[p] <=> d \in users[p] /\ d \notin S
  BY <1>1, ReleasedIs
<1>9. ASSUME NEW p \in Peer, NEW c \in Client
      PROVE  c \in users'[p] <=> HasSource(client'[c], p)
  <2>1. client'[c] \in ClientRecord
    BY <1>6, <1>7 DEF Reconnected, Own
  <2>2. HasSource(client'[c], p) <=> Sets(client'[c].sources, p)
    BY <2>1, HasSourceIs
  <2>3. c \in users[p] <=> Sets(client[c].sources, p)
    BY UsersAre
  <2>4. CASE c \in S
    <3>1. client'[c].sources = <<>>
      BY <1>6, <2>4 DEF Reconnected
    <3>2. ~Sets(client'[c].sources, p)
      BY <3>1, NoSources
    <3>3. QED BY <1>8, <2>2, <2>4, <3>2
  <2>5. CASE c \notin S
    BY <1>7, <1>8, <2>2, <2>3, <2>5 DEF InPlace
  <2>6. QED BY <2>4, <2>5
<1>10. UsersFit(users', client')
  BY <1>8, <1>9 DEF UsersFit
<1>11. DOMAIN client' = Client
  BY <1>1
<1>12. QED BY <1>6, <1>7, <1>10, <1>11

(* A client that is not asked keeps its place when the servers change.     *)
LEMMA PlacedAfter ==
  ASSUME NEW w, NEW x, NEW srv, NEW list, NEW srv2, NEW list2,
         Placed(w, srv, list), SamePlace(w, x),
         Connected(w) => Serves(srv2, list2, w.server),
         w.registered /\ ~Connected(w) /\ w.why = "none" /\ NoneKnown(srv, list) =>
           NoneKnown(srv2, list2),
         Connected(w) /\ w.server \in Range(list2) =>
           w.server \in Range(list) /\ srv2[w.server].totals = srv[w.server].totals
  PROVE  Placed(x, srv2, list2)
<1>1. Placed(w, srv2, list2)
  BY DEF Placed
<1>2. QED BY <1>1, SamePlaceIs

(* All of a step, from its parts.                                          *)
LEMMA StepOfServers ==
  ASSUME IInv, UNCHANGED <<scenario, turn>>,
         stored' \in [Server -> [Client -> Held]],
         ServersFit(server', nodes'), DOMAIN client' = Client,
         \A c \in Client : Own(client'[c]) /\ Placed(client'[c], server', nodes'),
         UsersFit(users', client')
  PROVE  IInv'
BY DEF IInv

(* A task of a client.                                                     *)
LEMMA ClientTimeEventKeeps ==
  ASSUME IInv, NEW c \in Client, ClientTimeEvent(c), UNCHANGED <<scenario, turn>>
  PROVE  IInv'
<1>1. /\ Lives(c) /\ UNCHANGED <<nodes, server, stored>>
      /\ IF EndsByItself(client[c])
         THEN LeaveServer({c}, NoServer, server)
         ELSE client' = [client EXCEPT ![c] = TimeEvent(client[c])] /\ UNCHANGED users
  BY DEF ClientTimeEvent
<1>2. Own(client[c]) /\ Connected(client[c]) /\ client[c].server \in Range(nodes)
  BY <1>1, ClientIs, LivesIs
<1>3. CASE EndsByItself(client[c])
  <2>1. LeaveServer({c}, NoServer, server)
    BY <1>1, <1>3
  <2>2. /\ UsersFit(users', client') /\ DOMAIN client' = Client
        /\ Reconnected(client[c], client'[c], NoServer, server)
        /\ \A d \in Client \ {c} : Own(client'[d]) /\ InPlace(client[d], client'[d])
    BY <1>2, <2>1, LeaveServerIs, SMTT(30)
  <2>3. ASSUME NEW d \in Client PROVE Own(client'[d]) /\ Placed(client'[d], server, nodes)
    <3>1. CASE d = c
      <4>1. Range(nodes) \subseteq Range(nodes) \ {NoServer}
        BY ServersAre, TcConnectionAssumption
      <4>2. Connected(client'[c]) => client'[c].server \in Range(nodes)
        BY <2>2 DEF Reconnected
      <4>3. Placed(client'[c], server, nodes)
        BY <2>2, <4>1, <4>2, ReconnectedIsPlaced
      <4>4. QED BY <2>2, <3>1, <4>3 DEF Reconnected
    <3>2. CASE d # c
      <4>1. Own(client'[d]) /\ SamePlace(client[d], client'[d])
        BY <2>2, <3>2 DEF InPlace
      <4>2. QED BY <4>1, ClientIs, SamePlaceIs
    <3>3. QED BY <3>1, <3>2
  <2>4. ServersFit(server, nodes)
    BY DEF IInv
  <2>5. QED BY <1>1, <2>2, <2>3, <2>4, StoredKept, StepOfServers
<1>4. CASE ~EndsByItself(client[c])
  <2> DEFINE x == TimeEvent(client[c])
  <2>1. client' = [client EXCEPT ![c] = x] /\ UNCHANGED users
    BY <1>1, <1>4
  <2>2. Own(x) /\ InPlace(client[c], x)
    BY <1>2, TimeEventIs
  <2> HIDE DEF x
  <2>3. QED BY <1>1, <2>1, <2>2, StoredKept, OneClientStays
<1>5. QED BY <1>3, <1>4

(* A server is added.                                                      *)
LEMMA AddServerKeeps ==
  ASSUME IInv, NEW s \in Server, AddServer(s), UNCHANGED <<scenario, turn>>
  PROVE  IInv'
<1>1. /\ s \notin Range(nodes) /\ nodes' = Append(nodes, s)
      /\ server' = [server EXCEPT ![s] = NewServer]
      /\ UNCHANGED <<stored, client, users>>
      /\ \A c \in Client : client[c].server # s
  BY DEF AddServer, Listed, ConnectedTo
<1>2. /\ nodes \in Seq(Server) /\ IsInjective(nodes) /\ server \in [Server -> ServerRecord]
  BY ServersAre
<1>3. /\ nodes' \in Seq(Server) /\ IsInjective(nodes') /\ Range(nodes') = Range(nodes) \union {s}
  BY <1>1, <1>2, AppendedIs
<1>4. /\ NewServer \in ServerRecord /\ Noticed(NewServer) /\ NewServer.cached = FALSE
  BY TcClientAssumption DEF NewServer, ServerRecord, Unset, Noticed
<1>5. /\ server' \in [Server -> ServerRecord] /\ server'[s] = NewServer
      /\ \A t \in Server \ {s} : server'[t] = server[t]
  BY <1>1, <1>2, <1>4
<1>6. ServersFit(server', nodes')
  <2>1. \A t \in Range(nodes) : Noticed(server[t])
    BY DEF IInv, ServersFit
  <2>2. ASSUME NEW t \in Range(nodes') PROVE Noticed(server'[t])
    <3>1. CASE t = s
      BY <1>4, <1>5, <3>1
    <3>2. CASE t # s
      BY <1>3, <1>5, <2>1, <3>2, ServersAre
    <3>3. QED BY <3>1, <3>2
  <2>3. QED BY <1>3, <1>5, <2>2 DEF ServersFit
<1>7. ASSUME NEW c \in Client PROVE Own(client[c]) /\ Placed(client[c], server', nodes')
  <2> DEFINE w == client[c]
             t == w.server
  <2>1. Own(w) /\ Placed(w, server, nodes) /\ (Connected(w) => t \in Server) /\ t # s
    BY <1>1, ClientIs
  <2>2. Connected(w) => server'[t] = server[t]
    BY <1>5, <2>1
  <2>3. Connected(w) => (t \in Range(nodes') <=> t \in Range(nodes))
    BY <1>3, <2>1
  <2> HIDE DEF w, t
  <2>4. Connected(w) => Serves(server', nodes', w.server)
    BY <2>1, <2>2, <2>3 DEF Placed, Serves, IsAlive, t
  <2>5. NoneKnown(server, nodes) => NoneKnown(server', nodes')
    <3>1. ASSUME NoneKnown(server, nodes), NEW u \in Range(nodes') PROVE ~server'[u].cached
      <4>1. CASE u = s
        BY <1>4, <1>5, <4>1
      <4>2. CASE u # s
        <5>1. u \in Range(nodes) /\ u \in Server
          BY <1>3, <4>2, ServersAre
        <5>2. server'[u] = server[u]
          BY <1>5, <4>2, <5>1
        <5>3. QED BY <3>1, <5>1, <5>2 DEF NoneKnown
      <4>3. QED BY <4>1, <4>2
    <3>2. QED BY <3>1 DEF NoneKnown
  <2>6. SamePlace(w, w)
    BY DEF SamePlace
  <2>7. Placed(w, server', nodes')
    BY <2>1, <2>2, <2>3, <2>4, <2>5, <2>6, PlacedAfter DEF t
  <2>8. QED BY <2>1, <2>7 DEF w
<1>8. DOMAIN client' = Client /\ UsersFit(users', client')
  BY <1>1 DEF IInv
<1>9. QED BY <1>1, <1>6, <1>7, <1>8, StoredKept, StepOfServers

(* The task of a server: it is noticed that it came, that it fell silent, or nothing. *)
LEMMA ServerTimeEventKeeps ==
  ASSUME IInv, NEW s \in Server, ServerTimeEvent(s), UNCHANGED <<scenario, turn>>
  PROVE  IInv'
<1> DEFINE srv == [server EXCEPT ![s].cached = IsAlive(server, s), ![s].due = FALSE]
<1>1. /\ s \in Range(nodes) /\ server' = srv /\ UNCHANGED <<nodes, stored>>
      /\ srv[s].cached /\ ~server[s].cached =>
           client' = [c \in Client |-> Came(c, s)] /\ UNCHANGED users
      /\ ~srv[s].cached /\ server[s].cached => LeaveServer(ConnectedTo(s), NoServer, srv)
      /\ srv[s].cached = server[s].cached => UNCHANGED <<client, users>>
  BY DEF ServerTimeEvent, Listed
<1>2. /\ nodes \in Seq(Server) /\ IsInjective(nodes) /\ Range(nodes) \subseteq Server
      /\ server \in [Server -> ServerRecord] /\ StatusLost \in Nat \ {0}
  BY ServersAre, TcClientAssumption
<1>3. /\ srv \in [Server -> ServerRecord]
      /\ \A t \in Server \ {s} : srv[t] = server[t]
      /\ srv[s].cached = IsAlive(server, s)
      /\ srv[s].age = server[s].age /\ srv[s].totals = server[s].totals
  <2> DEFINE b == IsAlive(server, s)
             v == [server[s] EXCEPT !.cached = b, !.due = FALSE]
  <2>1. b \in BOOLEAN /\ server[s] \in ServerRecord
    BY <1>2 DEF IsAlive
  <2> HIDE DEF b
  <2>2. v \in ServerRecord /\ v.cached = b /\ v.age = server[s].age /\ v.totals = server[s].totals
    BY <2>1 DEF ServerRecord
  <2>3. srv = [server EXCEPT ![s] = v]
    BY <1>2 DEF b
  <2> HIDE DEF v, srv
  <2>4. QED BY <1>2, <2>2, <2>3 DEF b
<1> HIDE DEF srv
<1>4. ServersFit(srv, nodes)
  <2>1. \A t \in Range(nodes) : Noticed(server[t])
    BY DEF IInv, ServersFit
  <2>2. Noticed(srv[s])
    <3>1. srv[s].age \in Unset..StatusLost + 1
      BY <1>3 DEF ServerRecord
    <3>2. ~srv[s].cached => ~IsAlive(server, s)
      BY <1>3
    <3>3. ~IsAlive(server, s) => srv[s].age = Unset \/ srv[s].age > StatusLost
      BY <1>2, <1>3, <3>1 DEF IsAlive, Unset
    <3>4. QED BY <3>2, <3>3 DEF Noticed
  <2>3. \A t \in Range(nodes) : Noticed(srv[t])
    BY <1>2, <1>3, <2>1, <2>2
  <2>4. QED BY <1>2, <1>3, <2>3 DEF ServersFit
<1>5. ASSUME NEW c \in Client, Connected(client[c]),
             client[c].server # s \/ srv[s].cached \/ ~server[s].cached
      PROVE  Serves(srv, nodes, client[c].server)
  <2> DEFINE t == client[c].server
  <2>1. t \in Server /\ Serves(server, nodes, t)
    BY <1>5, ClientIs DEF Placed
  <2>2. CASE t = s
    BY <1>1, <1>3, <1>5, <2>1, <2>2 DEF Serves, IsAlive
  <2>3. CASE t # s
    <3> HIDE DEF t
    <3>1. srv[t] = server[t]
      BY <1>3, <2>1, <2>3
    <3>2. QED BY <2>1, <3>1 DEF Serves, IsAlive, t
  <2>4. QED BY <2>2, <2>3
<1>6. ASSUME NEW c \in Client, Connected(client[c])
      PROVE  srv[client[c].server].totals = server[client[c].server].totals
  <2>1. client[c].server \in Server
    BY <1>6, ClientIs
  <2>2. QED BY <1>3, <2>1
<1>7. ASSUME NEW c \in Client, NEW x, SamePlace(client[c], x),
             client[c].server # s \/ srv[s].cached \/ ~server[s].cached,
             client[c].registered /\ ~Connected(client[c]) /\ client[c].why = "none"
               /\ NoneKnown(server, nodes) => NoneKnown(srv, nodes)
      PROVE  Placed(x, srv, nodes)
  <2>1. Placed(client[c], server, nodes)
    BY ClientIs
  <2>2. Connected(client[c]) => Serves(srv, nodes, client[c].server)
    BY <1>5, <1>7
  <2>3. QED BY <1>6, <1>7, <2>1, <2>2, PlacedAfter
<1>8. CASE srv[s].cached /\ ~server[s].cached
  <2>1. client' = [c \in Client |-> Came(c, s)] /\ UNCHANGED users
    BY <1>1, <1>8
  <2>2. ASSUME NEW c \in Client
        PROVE  /\ Own(client'[c]) /\ Placed(client'[c], srv, nodes)
               /\ client'[c].sources = client[c].sources
    <3>1. client'[c] = IF client[c].registered /\ ~Connected(client[c])
                       THEN PreConnect(client[c], s) ELSE client[c]
      BY <2>1 DEF Came
    <3>2. Own(client[c])
      BY ClientIs
    <3>3. CASE client[c].registered /\ ~Connected(client[c])
      <4> DEFINE x == PreConnect(client[c], s)
      <4>1. Loose(client[c])
        BY <3>2, <3>3, UnconnectedIsLoose
      <4>2. /\ Own(x) /\ Connected(x) /\ x.server = s /\ ~x.running /\ x.sources = <<>>
            /\ x.state # "Active"
        BY <4>1, PreConnectIs
      <4>3. client'[c] = x
        BY <3>1, <3>3
      <4> HIDE DEF x
      <4>4. Serves(srv, nodes, s)
        BY <1>1, <1>3, <1>8 DEF Serves, IsAlive
      <4>5. Placed(x, srv, nodes)
        BY <4>2, <4>4 DEF Placed
      <4>6. QED BY <4>1, <4>2, <4>3, <4>5 DEF Loose
    <3>4. CASE ~(client[c].registered /\ ~Connected(client[c]))
      <4>1. client'[c] = client[c]
        BY <3>1, <3>4
      <4>2. Placed(client[c], srv, nodes)
        BY <1>7, <1>8, <3>4 DEF SamePlace
      <4>3. QED BY <3>2, <4>1, <4>2
    <3>5. QED BY <3>3, <3>4
  <2>3. UsersFit(users', client')
    <3>1. ASSUME NEW p \in Peer, NEW c \in Client
          PROVE  c \in users'[p] <=> HasSource(client'[c], p)
      <4>1. users' = users /\ (c \in users[p] <=> Sets(client[c].sources, p))
        BY <2>1, UsersAre
      <4>2. HasSource(client'[c], p) <=> Sets(client'[c].sources, p)
        BY <2>2, HasSourceIs DEF Own
      <4>3. QED BY <2>2, <4>1, <4>2
    <3>2. users' \in [Peer -> SUBSET Client]
      BY <2>1 DEF IInv, UsersFit
    <3>3. QED BY <3>1, <3>2 DEF UsersFit
  <2>4. DOMAIN client' = Client
    BY <2>1
  <2>5. QED BY <1>1, <1>4, <2>2, <2>3, <2>4, StoredKept, StepOfServers
<1>9. CASE ~srv[s].cached /\ server[s].cached
  <2> DEFINE S == ConnectedTo(s)
  <2>1. LeaveServer(S, NoServer, srv)
    BY <1>1, <1>9
  <2>2. \A c \in Client : c \in S <=> client[c].server = s
    BY DEF ConnectedTo
  <2>3. S \in SUBSET Client
    BY DEF ConnectedTo
  <2>4. \A c \in S : /\ Connected(client[c]) /\ client[c].server \in Range(nodes)
                     /\ srv[client[c].server].totals = server[client[c].server].totals
    BY <1>1, <1>3, <2>2, <2>3, TcConnectionAssumption DEF Connected
  <2> HIDE DEF S
  <2>5. /\ UsersFit(users', client') /\ DOMAIN client' = Client
        /\ \A c \in S : Reconnected(client[c], client'[c], NoServer, srv)
        /\ \A c \in Client \ S : Own(client'[c]) /\ InPlace(client[c], client'[c])
    BY <2>1, <2>3, <2>4, LeaveServerIs
  <2>6. ~NoneKnown(server, nodes)
    BY <1>1, <1>9 DEF NoneKnown
  <2>7. ASSUME NEW c \in Client PROVE Own(client'[c]) /\ Placed(client'[c], srv, nodes)
    <3>1. CASE c \in S
      <4>1. Range(nodes) \subseteq Range(nodes) \ {NoServer}
        BY <1>2, TcConnectionAssumption
      <4>2. Connected(client'[c]) => client'[c].server \in Range(nodes)
        BY <2>5, <3>1 DEF Reconnected
      <4>3. Placed(client'[c], srv, nodes)
        BY <2>5, <3>1, <4>1, <4>2, ReconnectedIsPlaced
      <4>4. QED BY <2>5, <3>1, <4>3 DEF Reconnected
    <3>2. CASE c \notin S
      <4>1. Own(client'[c]) /\ SamePlace(client[c], client'[c])
        BY <2>5, <3>2 DEF InPlace
      <4>2. QED BY <1>7, <2>2, <2>6, <3>2, <4>1
    <3>3. QED BY <3>1, <3>2
  <2>8. QED BY <1>1, <1>4, <2>5, <2>7, StoredKept, StepOfServers
<1>10. CASE srv[s].cached = server[s].cached
  <2>1. UNCHANGED <<client, users>>
    BY <1>1, <1>10
  <2>2. NoneKnown(server, nodes) => NoneKnown(srv, nodes)
    BY <1>2, <1>3, <1>10 DEF NoneKnown
  <2>3. ASSUME NEW c \in Client PROVE Own(client[c]) /\ Placed(client[c], srv, nodes)
    <3>1. SamePlace(client[c], client[c])
      BY DEF SamePlace
    <3>2. QED BY <1>7, <1>10, <2>2, <3>1, ClientIs
  <2>4. DOMAIN client = Client /\ UsersFit(users, client)
    BY DEF IInv
  <2>5. QED BY <1>1, <1>4, <2>1, <2>3, <2>4, StoredKept, StepOfServers
<1>11. srv[s].cached \in BOOLEAN /\ server[s].cached \in BOOLEAN
  BY <1>2, <1>3 DEF ServerRecord
<1>12. QED BY <1>8, <1>9, <1>10, <1>11

(* A status of a server: its requests are counted, and its active clients are told *)
(* that a task starts or stops.                                            *)
LEMMA StatusKeeps ==
  ASSUME IInv, NEW s \in Server, NEW busy \in BOOLEAN, NEW totals \in BOOLEAN,
         Status(s, busy, totals), UNCHANGED <<scenario, turn>>
  PROVE  IInv'
<1> DEFINE Counted(w) == [w EXCEPT !.command = CountStatus(w.command, busy)]
           Told(w) == CASE totals /\ ~server[s].totals -> TaskStarted(w)
                        [] ~totals /\ server[s].totals -> TaskStopped(w)
                        [] totals = server[s].totals -> w
           stopped == IF ~totals /\ server[s].totals
                      THEN {c \in ConnectedTo(s) : client[c].state = "Active"} ELSE {}
           srv == [server EXCEPT ![s].age = 0, ![s].totals = totals]
<1>1. /\ s \in Range(nodes) /\ server' = srv /\ UNCHANGED <<nodes, stored>>
      /\ client' = [c \in Client |->
           IF c \in ConnectedTo(s) THEN Told(Counted(client[c])) ELSE client[c]]
      /\ users' = Released(stopped)
  BY DEF Status, Listed
<1>2. /\ nodes \in Seq(Server) /\ IsInjective(nodes) /\ Range(nodes) \subseteq Server
      /\ server \in [Server -> ServerRecord] /\ StatusLost \in Nat \ {0}
      /\ server[s].totals \in BOOLEAN
  BY ServersAre, TcClientAssumption
<1>3. /\ srv \in [Server -> ServerRecord]
      /\ \A t \in Server \ {s} : srv[t] = server[t]
      /\ srv[s].age = 0 /\ srv[s].totals = totals /\ srv[s].cached = server[s].cached
  <2> DEFINE v == [server[s] EXCEPT !.age = 0, !.totals = totals]
  <2>1. server[s] \in ServerRecord /\ 0 \in Unset..StatusLost + 1
    BY <1>2 DEF Unset
  <2>2. v \in ServerRecord /\ v.cached = server[s].cached /\ v.age = 0 /\ v.totals = totals
    BY <2>1 DEF ServerRecord
  <2>3. srv = [server EXCEPT ![s] = v]
    BY <1>2
  <2> HIDE DEF v, srv
  <2>4. QED BY <1>2, <2>2, <2>3
<1> HIDE DEF srv
<1>4. ServersFit(srv, nodes)
  <2>1. \A t \in Range(nodes) : Noticed(server[t])
    BY DEF IInv, ServersFit
  <2>2. Noticed(srv[s])
    BY <1>3 DEF Noticed
  <2>3. \A t \in Range(nodes) : Noticed(srv[t])
    BY <1>2, <1>3, <2>1, <2>2
  <2>4. QED BY <1>2, <1>3, <2>3 DEF ServersFit
<1>5. stopped \in SUBSET Client
  BY DEF ConnectedTo
<1>6. ASSUME NEW w, Own(w), Connected(w), w.server = s,
             w.running <=> w.state = "Active" /\ server[s].totals
      PROVE  LET x == Told(Counted(w)) IN
             /\ Own(x) /\ x.registered = w.registered /\ x.server = s /\ x.why = w.why
             /\ x.state = w.state
             /\ x.running <=> w.state = "Active" /\ totals
             /\ IF ~totals /\ server[s].totals /\ w.state = "Active"
                THEN x.sources = <<>> ELSE x.sources = w.sources
  <2> DEFINE v == Counted(w)
             x == Told(v)
  <2>1. Own(v) /\ InPlace(w, v) /\ v.state = w.state /\ v.sources = w.sources
    BY <1>6, CountedIs
  <2> HIDE DEF v
  <2>2. /\ v \in ClientRecord /\ Connected(v) /\ v.server = s /\ v.registered = w.registered
        /\ v.why = w.why /\ v.running = w.running
    BY <1>6, <2>1 DEF Own, InPlace, SamePlace, Connected
  <2>3. ToldAs(v, v)
    BY <2>2 DEF ToldAs
  <2>4. CASE totals /\ ~server[s].totals
    <3> DEFINE y == TaskStarted(v)
    <3>1. /\ ToldAs(v, y) /\ y.sources = v.sources
          /\ v.state = "Active" => y.running
          /\ v.state # "Active" => (y.running <=> v.running)
      BY <2>2, TaskStartedIs
    <3>2. x = y
      BY <2>4
    <3> HIDE DEF y, Told, x
    <3>3. Own(y)
      BY <2>1, <2>2, <3>1, ToldIsOwn
    <3>4. QED BY <1>6, <2>1, <2>2, <2>4, <3>1, <3>2, <3>3 DEF ToldAs, x, v
  <2>5. CASE ~totals /\ server[s].totals
    <3> DEFINE y == TaskStopped(v)
    <3>1. /\ ToldAs(v, y)
          /\ v.state = "Active" => ~y.running /\ y.sources = <<>>
          /\ v.state # "Active" => (y.running <=> v.running) /\ y.sources = v.sources
      BY <2>2, TaskStoppedIs
    <3>2. x = y
      BY <2>5
    <3> HIDE DEF y, Told, x
    <3>3. y.sources = v.sources \/ y.sources = <<>>
      BY <3>1
    <3>4. Own(y)
      BY <2>1, <2>2, <3>1, <3>3, ToldIsOwn
    <3>5. QED BY <1>6, <2>1, <2>2, <2>5, <3>1, <3>2, <3>4 DEF ToldAs, x, v
  <2>6. CASE totals = server[s].totals
    <3>1. x = v
      BY <2>6
    <3> HIDE DEF Told, x
    <3>2. QED BY <1>6, <2>1, <2>2, <2>6, <3>1 DEF x, v
  <2>7. QED BY <1>2, <2>4, <2>5, <2>6
<1> HIDE DEF Told, Counted
<1>7. \A c \in Client :
        c \in stopped <=> /\ client[c].server = s /\ client[c].state = "Active"
                          /\ ~totals /\ server[s].totals
  BY DEF ConnectedTo
<1> HIDE DEF stopped
<1>8. NoneKnown(server, nodes) => NoneKnown(srv, nodes)
  BY <1>2, <1>3 DEF NoneKnown
<1>9. ASSUME NEW c \in Client
      PROVE  /\ Own(client'[c]) /\ Placed(client'[c], srv, nodes)
             /\ c \in stopped => client'[c].sources = <<>>
             /\ c \notin stopped => client'[c].sources = client[c].sources
  <2> DEFINE w == client[c]
             x == client'[c]
  <2>1. Own(w) /\ Placed(w, server, nodes) /\ (Connected(w) => w.server \in Server)
    BY ClientIs
  <2>2. CASE w.server = s
    <3>1. x = Told(Counted(w))
      BY <1>1, <2>2 DEF ConnectedTo
    <3>2. Connected(w) /\ (w.running <=> w.state = "Active" /\ server[s].totals)
      BY <1>1, <2>1, <2>2, TcConnectionAssumption DEF Connected, Placed
    <3>3. (c \in stopped <=> w.state = "Active" /\ ~totals /\ server[s].totals)
      BY <1>7, <2>2
    <3> HIDE DEF x, w
    <3>4. /\ Own(x) /\ x.registered = w.registered /\ x.server = s /\ x.why = w.why
          /\ x.state = w.state
          /\ x.running <=> w.state = "Active" /\ totals
          /\ IF ~totals /\ server[s].totals /\ w.state = "Active"
             THEN x.sources = <<>> ELSE x.sources = w.sources
      BY <1>6, <2>1, <2>2, <3>1, <3>2
    <3>5. Connected(x)
      BY <2>2, <3>2, <3>4 DEF Connected
    <3>6. Serves(srv, nodes, s)
      BY <1>1, <1>2, <1>3 DEF Serves, IsAlive, Unset
    <3>7. Placed(x, srv, nodes)
      BY <1>3, <3>4, <3>5, <3>6 DEF Placed
    <3>8. QED BY <3>3, <3>4, <3>7 DEF x, w
  <2>3. CASE w.server # s
    <3>1. x = w /\ c \notin stopped
      BY <1>1, <1>7, <2>3 DEF ConnectedTo
    <3>2. Connected(w) => srv[w.server] = server[w.server]
      BY <1>3, <2>1, <2>3
    <3> HIDE DEF x, w
    <3>3. Connected(w) => Serves(srv, nodes, w.server)
      BY <2>1, <3>2 DEF Placed, Serves, IsAlive
    <3>4. SamePlace(w, w)
      BY DEF SamePlace
    <3>5. Placed(w, srv, nodes)
      BY <1>8, <2>1, <3>2, <3>3, <3>4, PlacedAfter
    <3>6. QED BY <2>1, <3>1, <3>5 DEF x, w
  <2>4. QED BY <2>2, <2>3
<1>10. /\ users' \in [Peer -> SUBSET Client]
       /\ \A p \in Peer, d \in Client : d \in users'[p] <=> d \in users[p] /\ d \notin stopped
  BY <1>1, <1>5, ReleasedIs DEF stopped
<1>11. ASSUME NEW p \in Peer, NEW c \in Client
       PROVE  c \in users'[p] <=> HasSource(client'[c], p)
  <2>1. HasSource(client'[c], p) <=> Sets(client'[c].sources, p)
    BY <1>9, HasSourceIs DEF Own
  <2>2. c \in users[p] <=> Sets(client[c].sources, p)
    BY UsersAre
  <2>3. client'[c].sources = <<>> => ~Sets(client'[c].sources, p)
    BY NoSources
  <2>4. QED BY <1>9, <1>10, <2>1, <2>2, <2>3
<1>12. UsersFit(users', client')
  BY <1>10, <1>11 DEF UsersFit
<1>13. DOMAIN client' = Client
  BY <1>1
<1>14. QED BY <1>1, <1>4, <1>9, <1>12, <1>13, StoredKept, StepOfServers

(* A server leaves the bus.  The clients of one that is alive look for the next, those of *)
(* one that is overdue unnoticed keep what is no server any more.          *)
LEMMA RemoveServerKeeps ==
  ASSUME IInv, NEW s \in Server, RemoveServer(s), UNCHANGED <<scenario, turn>>
  PROVE  IInv'
<1> DEFINE none == [c \in Client |-> "none"]
<1>1. /\ s \in Range(nodes) /\ nodes' = Selected(nodes, Server \ {s})
      /\ stored' = [stored EXCEPT ![s] = none]
      /\ IF IsAlive(server, s)
         THEN LeaveServer(ConnectedTo(s), s, DropOff(s)) /\ server' = DropOff(s)
         ELSE LeaveServer({}, s, server) /\ UNCHANGED server
  BY DEF RemoveServer, Listed
<1>2. /\ nodes \in Seq(Server) /\ IsInjective(nodes) /\ Range(nodes) \subseteq Server
      /\ server \in [Server -> ServerRecord] /\ StatusLost \in Nat \ {0}
      /\ \A t \in Server : server[t].age \in Unset..StatusLost + 1
  BY ServersAre, TcClientAssumption
<1>3. /\ nodes' \in Seq(Server) /\ IsInjective(nodes') /\ Range(nodes') = Range(nodes) \ {s}
  <2>1. /\ nodes' \in Seq(Server) /\ IsInjective(nodes')
        /\ Range(nodes') = Range(nodes) \intersect (Server \ {s})
    BY <1>1, <1>2, SelectedIs
  <2>2. QED BY <1>2, <2>1
<1>4. stored' \in [Server -> [Client -> Held]]
  <2>1. none \in [Client -> Held]
    BY DEF Held
  <2>2. stored \in [Server -> [Client -> Held]]
    BY DEF IInv
  <2> HIDE DEF none
  <2>3. QED BY <1>1, <2>1, <2>2
<1>5. \A t \in Range(nodes) : Noticed(server[t])
  BY DEF IInv, ServersFit
<1>6. CASE IsAlive(server, s)
  <2> DEFINE srv == DropOff(s)
             S == ConnectedTo(s)
  <2>1. LeaveServer(S, s, srv) /\ server' = srv
    BY <1>1, <1>6
  <2>2. /\ srv \in [Server -> ServerRecord]
        /\ \A t \in Server \ {s} : srv[t] = server[t]
        /\ srv[s].totals = server[s].totals
    <3> DEFINE v == [server[s] EXCEPT !.age = Unset]
    <3>1. server[s] \in ServerRecord /\ Unset \in Unset..StatusLost + 1
      BY <1>2 DEF Unset
    <3>2. v \in ServerRecord /\ v.totals = server[s].totals
      BY <3>1 DEF ServerRecord
    <3>3. srv = [server EXCEPT ![s] = v]
      BY <1>2 DEF DropOff
    <3> HIDE DEF v, srv
    <3>4. QED BY <1>2, <3>2, <3>3
  <2>3. \A c \in Client : c \in S <=> client[c].server = s
    BY DEF ConnectedTo
  <2>4. S \in SUBSET Client
    BY DEF ConnectedTo
  <2> HIDE DEF srv, S
  <2>5. \A c \in S : /\ Connected(client[c]) /\ client[c].server \in Range(nodes)
                     /\ srv[client[c].server].totals = server[client[c].server].totals
    BY <1>1, <2>2, <2>3, <2>4, TcConnectionAssumption DEF Connected
  <2>6. /\ UsersFit(users', client') /\ DOMAIN client' = Client
        /\ \A c \in S : Reconnected(client[c], client'[c], s, srv)
        /\ \A c \in Client \ S : Own(client'[c]) /\ InPlace(client[c], client'[c])
    BY <2>1, <2>4, <2>5, LeaveServerIs
  <2>7. ServersFit(srv, nodes')
    BY <1>2, <1>3, <1>5, <2>2 DEF ServersFit
  <2>8. NoneKnown(server, nodes) => NoneKnown(srv, nodes')
    BY <1>2, <1>3, <2>2 DEF NoneKnown
  <2>9. ASSUME NEW c \in Client PROVE Own(client'[c]) /\ Placed(client'[c], srv, nodes')
    <3> DEFINE w == client[c]
               x == client'[c]
    <3>1. CASE c \in S
      <4>1. Reconnected(w, x, s, srv)
        BY <2>6, <3>1
      <4> HIDE DEF x, w
      <4>2. Connected(x) => x.server \in Range(nodes')
        <5>1. ASSUME Connected(x) PROVE x.server \in Range(nodes) /\ IsAlive(srv, x.server)
          BY <4>1, <5>1 DEF Reconnected
        <5>2. srv[s].age = Unset
          BY <1>2 DEF srv, DropOff, ServerRecord
        <5>3. QED BY <1>3, <5>1, <5>2 DEF IsAlive
      <4>3. Placed(x, srv, nodes')
        BY <1>3, <4>1, <4>2, ReconnectedIsPlaced
      <4>4. QED BY <4>1, <4>3 DEF Reconnected, x
    <3>2. CASE c \notin S
      <4>1. Own(x) /\ SamePlace(w, x) /\ w.server # s
        BY <2>3, <2>6, <3>2 DEF InPlace
      <4>2. Placed(w, server, nodes) /\ (Connected(w) => w.server \in Server)
        BY ClientIs
      <4> HIDE DEF x, w
      <4>3. Connected(w) => srv[w.server] = server[w.server]
        BY <2>2, <4>1, <4>2
      <4>4. Connected(w) => (w.server \in Range(nodes') <=> w.server \in Range(nodes))
        BY <1>3, <4>1
      <4>5. Connected(w) => Serves(srv, nodes', w.server)
        BY <4>2, <4>3, <4>4 DEF Placed, Serves, IsAlive
      <4>6. Placed(x, srv, nodes')
        BY <2>8, <4>1, <4>2, <4>3, <4>4, <4>5, PlacedAfter
      <4>7. QED BY <4>1, <4>6 DEF x
    <3>3. QED BY <3>1, <3>2
  <2>10. QED BY <1>4, <2>1, <2>6, <2>7, <2>9, StepOfServers
<1>7. CASE ~IsAlive(server, s)
  <2>1. LeaveServer({}, s, server) /\ server' = server
    BY <1>1, <1>7
  <2>2. /\ UsersFit(users', client') /\ DOMAIN client' = Client
        /\ \A c \in Client : Own(client'[c]) /\ InPlace(client[c], client'[c])
    BY <2>1, LeaveServerIs
  <2>3. ServersFit(server, nodes')
    BY <1>2, <1>3, <1>5 DEF ServersFit
  <2>4. NoneKnown(server, nodes) => NoneKnown(server, nodes')
    BY <1>3 DEF NoneKnown
  <2>5. ASSUME NEW c \in Client PROVE Own(client'[c]) /\ Placed(client'[c], server, nodes')
    <3> DEFINE w == client[c]
               x == client'[c]
    <3>1. Own(x) /\ SamePlace(w, x)
      BY <2>2 DEF InPlace
    <3>2. Placed(w, server, nodes) /\ (Connected(w) => w.server \in Server)
      BY ClientIs
    <3> HIDE DEF x, w
    <3>3. Connected(w) => Serves(server, nodes', w.server)
      <4>1. CASE Connected(w) /\ w.server = s
        <5>1. server[s].age # Unset /\ server[s].cached
          BY <1>1, <1>7, <3>2, <4>1 DEF Placed, Serves
        <5>2. server[s].age > StatusLost
          BY <1>2, <1>7, <5>1 DEF IsAlive, Unset
        <5>3. QED BY <1>3, <4>1, <5>1, <5>2 DEF Serves
      <4>2. CASE Connected(w) /\ w.server # s
        BY <1>3, <3>2, <4>2 DEF Placed, Serves
      <4>3. QED BY <4>1, <4>2
    <3>4. Placed(x, server, nodes')
      BY <1>3, <2>4, <3>1, <3>2, <3>3, PlacedAfter
    <3>5. QED BY <3>1, <3>4 DEF x
  <2>6. QED BY <1>4, <2>1, <2>2, <2>3, <2>5, StepOfServers
<1>8. QED BY <1>6, <1>7

-----------------------------------------------------------------------------
(* The clock, and all steps.                                               *)

(* The time passes for a server that has been looked at in this period.    *)
LEMMA ServerAged ==
  ASSUME NEW v \in ServerRecord, Noticed(v), ~v.due
  PROVE  LET x == [v EXCEPT !.due = TRUE, !.age = Older(v.age, StatusLost)] IN
         /\ x \in ServerRecord /\ Noticed(x) /\ x.cached = v.cached /\ x.totals = v.totals
         /\ v.age # Unset => x.age # Unset
         /\ v.age # Unset /\ v.age <= StatusLost /\ ~v.cached =>
              x.age # Unset /\ x.age <= StatusLost
<1> DEFINE a == Older(v.age, StatusLost)
           x == [v EXCEPT !.due = TRUE, !.age = a]
<1>1. StatusLost \in Nat \ {0} /\ v.age \in Unset..StatusLost + 1 /\ v.due \in BOOLEAN
  BY TcClientAssumption DEF ServerRecord
<1>2. /\ a \in Unset..StatusLost + 1
      /\ v.age # Unset => a # Unset
      /\ v.age = Unset => a = Unset
      /\ v.age = 0 => a = 1
      /\ v.age > StatusLost => a > StatusLost
  BY <1>1 DEF Older, Unset
<1> HIDE DEF a
<1>3. x \in ServerRecord /\ x.cached = v.cached /\ x.totals = v.totals /\ x.age = a /\ x.due = TRUE
  BY <1>2 DEF ServerRecord
<1> HIDE DEF x
<1>4. ~v.cached => v.age \in {Unset, 0} \/ v.age > StatusLost
  BY DEF Noticed
<1>5. ~x.cached => x.age \in {Unset, 0} \/ (x.age = 1 /\ x.due) \/ x.age > StatusLost
  BY <1>2, <1>3, <1>4
<1>6. v.age # Unset /\ v.age <= StatusLost /\ ~v.cached => x.age # Unset /\ x.age <= StatusLost
  <2>1. SUFFICES ASSUME v.age # Unset, v.age <= StatusLost, ~v.cached
                 PROVE  x.age # Unset /\ x.age <= StatusLost
    OBVIOUS
  <2>2. v.age = 0
    BY <1>1, <1>4, <2>1 DEF Unset
  <2>3. QED BY <1>1, <1>2, <1>3, <2>2 DEF Unset
<1>7. QED BY <1>2, <1>3, <1>5, <1>6 DEF Noticed, x, a

(* The time passes.                                                        *)
LEMMA TickKeeps ==
  ASSUME IInv, Tick, UNCHANGED scenario, turn' = ~turn
  PROVE  IInv'
<1>1. /\ \A s \in Range(nodes) : ~server[s].due
      /\ server' = [s \in Server |->
           IF s \in Range(nodes)
           THEN [server[s] EXCEPT !.due = TRUE, !.age = Older(server[s].age, StatusLost)]
           ELSE server[s]]
      /\ client' = [c \in Client |->
           IF Connected(client[c]) => Lives(c) THEN Aged(client[c]) ELSE client[c]]
      /\ UNCHANGED <<nodes, stored, users>>
  BY DEF Tick, AllDone, Listed
<1>2. /\ nodes \in Seq(Server) /\ IsInjective(nodes) /\ Range(nodes) \subseteq Server
      /\ server \in [Server -> ServerRecord]
  BY ServersAre
<1>3. \A s \in Range(nodes) : Noticed(server[s])
  BY DEF IInv, ServersFit
<1>4. ASSUME NEW s \in Server
      PROVE  /\ server'[s] \in ServerRecord
             /\ server'[s].cached = server[s].cached /\ server'[s].totals = server[s].totals
             /\ s \notin Range(nodes) => server'[s] = server[s]
             /\ s \in Range(nodes) =>
                  /\ Noticed(server'[s])
                  /\ server[s].age # Unset => server'[s].age # Unset
                  /\ IsAlive(server, s) /\ ~server[s].cached => IsAlive(server', s)
  <2> DEFINE v == server[s]
             x == [v EXCEPT !.due = TRUE, !.age = Older(v.age, StatusLost)]
  <2>1. v \in ServerRecord
    BY <1>2
  <2>2. CASE s \in Range(nodes)
    <3>1. Noticed(v) /\ ~v.due
      BY <1>1, <1>3, <2>2
    <3>2. /\ x \in ServerRecord /\ Noticed(x) /\ x.cached = v.cached /\ x.totals = v.totals
          /\ v.age # Unset => x.age # Unset
          /\ v.age # Unset /\ v.age <= StatusLost /\ ~v.cached =>
               x.age # Unset /\ x.age <= StatusLost
      BY <2>1, <3>1, ServerAged
    <3>3. server'[s] = x
      BY <1>1, <2>2
    <3> HIDE DEF x
    <3>4. QED BY <2>2, <3>2, <3>3 DEF IsAlive
  <2>3. CASE s \notin Range(nodes)
    BY <1>1, <2>1, <2>3
  <2>4. QED BY <2>2, <2>3
<1>5. server' \in [Server -> ServerRecord]
  <2>1. DOMAIN server' = Server /\ server' = [s \in Server |-> server'[s]]
    BY <1>1
  <2>2. QED BY <1>4, <2>1
<1>6. ServersFit(server', nodes')
  BY <1>1, <1>2, <1>4, <1>5 DEF ServersFit
<1>7. NoneKnown(server, nodes) => NoneKnown(server', nodes)
  BY <1>2, <1>4 DEF NoneKnown
<1>8. ASSUME NEW c \in Client
      PROVE  /\ Own(client'[c]) /\ Placed(client'[c], server', nodes)
             /\ \A p : Sets(client'[c].sources, p) <=> Sets(client[c].sources, p)
  <2> DEFINE w == client[c]
             x == client'[c]
  <2>1. Own(w) /\ Placed(w, server, nodes) /\ (Connected(w) => w.server \in Server)
    BY ClientIs
  <2>2. x \in {w, Aged(w)}
    BY <1>1
  <2> HIDE DEF w, x
  <2>3. /\ Own(x) /\ SamePlace(w, x)
        /\ \A p : Sets(x.sources, p) <=> Sets(w.sources, p)
    <3>1. CASE x = w
      BY <2>1, <3>1 DEF SamePlace
    <3>2. CASE x = Aged(w)
      BY <2>1, <3>2, AgedIs
    <3>3. QED BY <2>2, <3>1, <3>2
  <2>4. Connected(w) => Serves(server', nodes, w.server)
    <3> DEFINE t == w.server
    <3>1. SUFFICES ASSUME Connected(w) PROVE Serves(server', nodes, t)
      OBVIOUS
    <3>2. t \in Server /\ Serves(server, nodes, t)
      BY <2>1, <3>1 DEF Placed
    <3> HIDE DEF t
    <3>3. CASE t \in Range(nodes)
      BY <1>4, <3>2, <3>3 DEF Serves
    <3>4. CASE t \notin Range(nodes)
      BY <1>4, <3>2, <3>4 DEF Serves
    <3>5. QED BY <3>3, <3>4
  <2>5. Connected(w) => server'[w.server].totals = server[w.server].totals
    BY <1>4, <2>1
  <2>6. Placed(x, server', nodes)
    BY <1>7, <2>1, <2>3, <2>4, <2>5, PlacedAfter
  <2>7. QED BY <2>3, <2>6 DEF x, w
<1>9. UsersFit(users', client')
  <2>1. ASSUME NEW p \in Peer, NEW c \in Client
        PROVE  c \in users'[p] <=> HasSource(client'[c], p)
    <3>1. HasSource(client'[c], p) <=> Sets(client'[c].sources, p)
      BY <1>8, HasSourceIs DEF Own
    <3>2. c \in users[p] <=> Sets(client[c].sources, p)
      BY UsersAre
    <3>3. QED BY <1>1, <1>8, <3>1, <3>2
  <2>2. users' \in [Peer -> SUBSET Client]
    BY <1>1 DEF IInv, UsersFit
  <2>3. QED BY <2>1, <2>2 DEF UsersFit
<1>10. DOMAIN client' = Client
  BY <1>1
<1>11. turn' \in BOOLEAN /\ scenario' \in Scenario
  BY DEF IInv
<1>12. stored' \in [Server -> [Client -> Held]]
  BY <1>1, StoredKept
<1>13. QED BY <1>1, <1>6, <1>8, <1>9, <1>10, <1>11, <1>12 DEF IInv

(* It holds at first.                                                      *)
LEMMA Initially ==
  ASSUME Init PROVE IInv
<1>1. /\ scenario \in Scenario /\ nodes = <<>> /\ turn = FALSE
      /\ server = [s \in Server |-> NewServer]
      /\ client = [c \in Client |-> [NewClient EXCEPT !.registered = (c \in scenario.clients)]]
      /\ users = [p \in Peer |-> {}]
  BY DEF Init
<1>2. stored \in [Server -> [Client -> Held]]
  <2>1. PICK held \in scenario.stored : stored = [s \in Server |-> [c \in Client |-> held]]
    BY DEF Init
  <2>2. scenario.stored \subseteq Held
    BY <1>1, TcClientAssumption DEF IsScenario, Held
  <2>3. held \in Held
    BY <2>1, <2>2
  <2>4. QED BY <2>1, <2>3
<1>3. nodes \in Seq(Server) /\ IsInjective(nodes) /\ Range(nodes) = {}
  BY <1>1 DEF IsInjective, Range
<1>4. NewServer \in ServerRecord
  BY TcClientAssumption DEF NewServer, ServerRecord, Unset
<1>5. ServersFit(server, nodes)
  BY <1>1, <1>3, <1>4 DEF ServersFit
<1>6. ASSUME NEW c \in Client
      PROVE  Own(client[c]) /\ Placed(client[c], server, nodes) /\ client[c].sources = <<>>
  <2> DEFINE b == (c \in scenario.clients)
             x == [NewClient EXCEPT !.registered = b]
  <2>1. client[c] = x
    BY <1>1
  <2>2. b \in BOOLEAN
    OBVIOUS
  <2> HIDE DEF b
  <2>3. /\ x \in ClientRecord /\ x.registered = b /\ x.state = "Disconnected"
        /\ x.server = NoServer /\ x.command = Idle /\ x.buffer = FALSE
        /\ x.transfer = NoTransfer /\ x.sources = <<>> /\ x.running = FALSE
    BY <2>2, NothingIs DEF ClientRecord
  <2> HIDE DEF x
  <2> DEFINE q == [s \in Server |-> <<>>]
  <2>4. q \in [Server -> Requests]
    BY TcConnectionAssumption DEF Requests
  <2> HIDE DEF q
  <2>5. Own(x) /\ ~Connected(x)
    BY <2>2, <2>3, <2>4, NewClientIs
  <2>6. NoneKnown(server, nodes)
    BY <1>3 DEF NoneKnown
  <2>7. QED BY <2>1, <2>3, <2>5, <2>6 DEF Placed
<1>7. UsersFit(users, client)
  <2>1. ASSUME NEW p \in Peer, NEW c \in Client
        PROVE  c \in users[p] <=> HasSource(client[c], p)
    <3>1. HasSource(client[c], p) <=> Sets(client[c].sources, p)
      BY <1>6, HasSourceIs DEF Own
    <3>2. ~Sets(client[c].sources, p)
      BY <1>6, NoSources
    <3>3. QED BY <1>1, <3>1, <3>2
  <2>2. users \in [Peer -> SUBSET Client]
    BY <1>1
  <2>3. QED BY <2>1, <2>2 DEF UsersFit
<1>8. DOMAIN client = Client
  BY <1>1
<1>9. QED BY <1>1, <1>2, <1>5, <1>6, <1>7, <1>8 DEF IInv

(* Every step keeps it.                                                    *)
LEMMA StepKeeps ==
  ASSUME IInv, [Next]_vars PROVE IInv'
<1>1. CASE Next
  <2>1. UNCHANGED scenario
    BY <1>1 DEF Next
  <2>2. CASE Servers /\ UNCHANGED turn
    <3>1. PICK s \in Server :
            \/ \E busy, totals \in BOOLEAN : Status(s, busy, totals)
            \/ AddServer(s)
            \/ RemoveServer(s)
            \/ \E c \in Client, ok \in BOOLEAN : Answer(s, c, ok) \/ Lose(s, c, ok)
      BY <2>2 DEF Servers
    <3>2. ASSUME NEW busy \in BOOLEAN, NEW totals \in BOOLEAN, Status(s, busy, totals) PROVE IInv'
      BY <2>1, <2>2, <3>2, StatusKeeps
    <3>3. CASE AddServer(s)
      BY <2>1, <2>2, <3>3, AddServerKeeps
    <3>4. CASE RemoveServer(s)
      BY <2>1, <2>2, <3>4, RemoveServerKeeps
    <3>5. ASSUME NEW c \in Client, NEW ok \in BOOLEAN, Answer(s, c, ok) PROVE IInv'
      BY <2>1, <2>2, <3>5, AnswerKeeps
    <3>6. ASSUME NEW c \in Client, NEW ok \in BOOLEAN, Lose(s, c, ok) PROVE IInv'
      BY <2>1, <2>2, <3>6, LoseKeeps
    <3>7. QED BY <3>1, <3>2, <3>3, <3>4, <3>5, <3>6
  <2>3. CASE Applications /\ UNCHANGED turn
    <3>1. PICK c \in Client :
            \/ RegisterClient(c)
            \/ DeregisterClient(c)
            \/ DoConnect(c)
            \/ DontConnect(c)
            \/ \E shouldDelete \in BOOLEAN : ForceReconnect(c, shouldDelete)
            \/ OtherTransfer(c)
      BY <2>3 DEF Applications
    <3>2. CASE RegisterClient(c)
      BY <2>1, <2>3, <3>2, RegisterClientKeeps
    <3>3. CASE DeregisterClient(c)
      BY <2>1, <2>3, <3>3, DeregisterClientKeeps
    <3>4. CASE DoConnect(c)
      BY <2>1, <2>3, <3>4, DoConnectKeeps
    <3>5. CASE DontConnect(c)
      BY <2>1, <2>3, <3>5, DontConnectKeeps
    <3>6. ASSUME NEW b \in BOOLEAN, ForceReconnect(c, b) PROVE IInv'
      BY <2>1, <2>3, <3>6, ForceReconnectKeeps
    <3>7. CASE OtherTransfer(c)
      BY <2>1, <2>3, <3>7, OtherTransferKeeps
    <3>8. QED BY <3>1, <3>2, <3>3, <3>4, <3>5, <3>6, <3>7
  <2>4. CASE Library /\ UNCHANGED turn
    <3>1. ASSUME NEW s \in Server, ServerTimeEvent(s) PROVE IInv'
      BY <2>1, <2>4, <3>1, ServerTimeEventKeeps
    <3>2. ASSUME NEW c \in Client, ClientTimeEvent(c) PROVE IInv'
      BY <2>1, <2>4, <3>2, ClientTimeEventKeeps
    <3>3. ASSUME NEW c \in Client, SourceTask(c) PROVE IInv'
      BY <2>1, <2>4, <3>3, SourceTaskKeeps
    <3>4. ASSUME NEW c \in Client, NEW success \in BOOLEAN, NEW received \in BOOLEAN,
                 TransferEnds(c, success, received)
          PROVE  IInv'
      BY <2>1, <2>4, <3>4, TransferEndsKeeps
    <3>5. QED BY <2>4, <3>1, <3>2, <3>3, <3>4 DEF Library
  <2>5. CASE Peers /\ UNCHANGED turn
    <3>1. ASSUME NEW c \in Client, NEW v \in Value, SetValue(c, v) PROVE IInv'
      BY <2>1, <2>5, <3>1, SetValueKeeps
    <3>2. ASSUME NEW c \in Client, NEW v \in Value, ServerSetsValue(c, v) PROVE IInv'
      BY <2>1, <2>5, <3>2, ServerSetsValueKeeps
    <3>3. ASSUME NEW c \in Client, NEW v \in Value, NEW p \in Peer, AssignSource(c, v, p)
          PROVE  IInv'
      BY <2>1, <2>5, <3>3, AssignSourceKeeps
    <3>4. ASSUME NEW c \in Client, NEW v \in Value, NEW p \in Peer, UnassignSource(c, v, p)
          PROVE  IInv'
      BY <2>1, <2>5, <3>4, UnassignSourceKeeps
    <3>5. ASSUME NEW p \in Peer, RemovePeer(p) PROVE IInv'
      BY <2>1, <2>5, <3>5, RemovePeerKeeps
    <3>6. QED BY <2>5, <3>1, <3>2, <3>3, <3>4, <3>5 DEF Peers
  <2>6. CASE Tick /\ turn' = ~turn
    BY <2>1, <2>6, TickKeeps
  <2>7. QED BY <1>1, <2>2, <2>3, <2>4, <2>5, <2>6 DEF Next
<1>2. CASE UNCHANGED vars
  BY <1>2 DEF vars, IInv, ServersFit, Noticed, Own, Placed, UsersFit
<1>3. QED BY <1>1, <1>2

-----------------------------------------------------------------------------
(* What follows from the invariant.                                        *)

(* Connections and servers fit together.                                   *)
LEMMA InvariantConnects ==
  ASSUME IInv PROVE ConnectionsConsistent
<1>1. TypeOK
  <2>1. /\ scenario \in Scenario /\ turn \in BOOLEAN
        /\ Range(nodes) \subseteq Server /\ IsInjective(nodes)
        /\ users \in [Peer -> SUBSET Client]
    BY ServersAre DEF IInv, UsersFit
  <2>2. ASSUME NEW s \in Server
        PROVE  /\ server[s].age \in Unset..StatusLost + 1
               /\ {server[s].cached, server[s].totals, server[s].due} \subseteq BOOLEAN
               /\ stored[s] \in [Client -> {"none", "old", "translated", "whole"}]
    <3>1. server[s] \in ServerRecord /\ stored[s] \in [Client -> Held]
      BY ServersAre DEF IInv
    <3>2. QED BY <3>1 DEF ServerRecord, Held
  <2>3. ASSUME NEW c \in Client
        PROVE  LET w == client[c] IN
               /\ w.state \in PoolState /\ w.server \in Server \union {NoServer}
               /\ Connected(w) <=> w.state # "Disconnected"
               /\ w.command.st \in {"Idle", "Running", "WaitingForResponse", "Aborted"}
               /\ w.command.sent \in Message /\ w.command.notBusy \in 0..NotBusy + 1
               /\ w.quiet \in Unset..Quiet
               /\ {w.registered, w.buffer, w.due, w.sourceTask, w.running, w.stalled, w.genuine}
                    \subseteq BOOLEAN
               /\ w.older \in 0..ServerQueue
               /\ \A s \in Server : Len(w.queue[s]) <= ServerQueue
               /\ w.transfer.kind \in {"none", "pool", "other"}
               /\ \A n \in DOMAIN w.sources :
                    w.sources[n].what \in Value /\ w.sources[n].peer \in Peer
    <3> DEFINE w == client[c]
    <3>1. w \in ClientRecord /\ (Connected(w) <=> w.state # "Disconnected")
      BY ClientIs DEF Own
    <3> HIDE DEF w
    <3>2. /\ w.state \in PoolState /\ w.server \in Server \union {NoServer}
          /\ w.command \in Command /\ w.quiet \in Unset..Quiet
          /\ {w.registered, w.buffer, w.due, w.sourceTask, w.running, w.stalled, w.genuine}
               \subseteq BOOLEAN
          /\ w.older \in 0..ServerQueue
          /\ w.queue \in [Server -> Requests] /\ w.transfer \in Transfer
          /\ w.sources \in Seq(Source)
      BY <3>1 DEF ClientRecord
    <3>3. \A s \in Server : Len(w.queue[s]) <= ServerQueue
      BY <3>2 DEF Requests
    <3>4. \A n \in DOMAIN w.sources : w.sources[n].what \in Value /\ w.sources[n].peer \in Peer
      <4>1. ASSUME NEW n \in DOMAIN w.sources
            PROVE  w.sources[n].what \in Value /\ w.sources[n].peer \in Peer
        <5>1. w.sources[n] \in Source
          BY <3>2
        <5>2. QED BY <5>1 DEF Source
      <4>2. QED BY <4>1
    <3>5. QED BY <3>1, <3>2, <3>3, <3>4 DEF Command, Transfer, w
  <2>4. QED BY <2>1, <2>2, <2>3 DEF TypeOK
<1>2. ConnectedToListed
  <2>1. ASSUME NEW c \in Client, Connected(client[c])
        PROVE  \/ Listed(client[c].server)
               \/ server[client[c].server].cached /\ server[client[c].server].age > StatusLost
    <3>1. Serves(server, nodes, client[c].server)
      BY <2>1, ClientIs DEF Placed
    <3>2. QED BY <3>1 DEF Serves, Listed
  <2>2. QED BY <2>1 DEF ConnectedToListed
<1>3. AliveIsConnected
  <2>1. ASSUME NEW c \in Client, client[c].registered, ~Connected(client[c]),
               client[c].why = "none"
        PROVE  ~\E s \in Range(nodes) : server[s].cached /\ IsAlive(server, s)
    <3>1. NoneKnown(server, nodes)
      BY <2>1, ClientIs DEF Placed
    <3>2. QED BY <3>1 DEF NoneKnown
  <2>2. QED BY <2>1 DEF AliveIsConnected
<1>4. QED BY <1>1, <1>2, <1>3 DEF ConnectionsConsistent

(* The transfer of a description and the tasks of a server end with the connection. *)
LEMMA InvariantEnds ==
  ASSUME IInv PROVE SessionsConsistent
<1>1. TransferReadsBuffer
  <2>1. ASSUME NEW c \in Client, client[c].transfer.kind = "pool"
        PROVE  client[c].buffer /\ client[c].transfer.to = client[c].server
    BY <2>1, ClientIs DEF Own, CommandFits
  <2>2. QED BY <2>1 DEF TransferReadsBuffer
<1>2. TaskReports
  BY LivesIs DEF TaskReports
<1>3. QED BY <1>1, <1>2 DEF SessionsConsistent

(* The sources of a client are watched, and lost only if silent.           *)
LEMMA InvariantWatches ==
  ASSUME IInv PROVE SourcesWatched
<1>1. SourcesConnected
  <2>1. ASSUME NEW c \in Client
        PROVE  /\ \A p \in Peer : c \in users[p] <=> HasSource(client[c], p)
               /\ client[c].sources # <<>> => client[c].sourceTask
    <3>1. \A p \in Peer : c \in users[p] <=> HasSource(client[c], p)
      BY DEF IInv, UsersFit
    <3>2. client[c].sources # <<>> => client[c].sourceTask
      BY ClientIs DEF Own, SourcesFit
    <3>3. QED BY <3>1, <3>2
  <2>2. QED BY <2>1 DEF SourcesConnected
<1>2. SourceLostIfSilent
  <2>1. ASSUME NEW c \in Client, NEW n \in Expired(client[c]), client[c].sources[n].alone
        PROVE  client[c].sources[n].silent > SourceLost
    <3> DEFINE w == client[c]
    <3>1. w \in ClientRecord /\ SourcesFit(w)
      BY ClientIs DEF Own
    <3> HIDE DEF w
    <3>2. n \in DOMAIN w.sources /\ w.sources[n].age > SourceLost /\ w.sources[n].alone
      BY <2>1 DEF Expired, w
    <3>3. w.sources[n] \in Source
      BY <3>1, <3>2 DEF ClientRecord
    <3>4. /\ w.sources[n].age \in Int /\ w.sources[n].silent \in Int /\ SourceLost \in Int
      BY <3>3, TcConnectionAssumption DEF Source
    <3>5. w.sources[n].age <= w.sources[n].silent
      BY <3>1, <3>2 DEF SourcesFit
    <3>6. w.sources[n].silent > SourceLost
      BY <3>2, <3>4, <3>5
    <3>7. QED BY <3>6 DEF w
  <2>2. QED BY <2>1 DEF SourceLostIfSilent
<1>3. QED BY <1>1, <1>2 DEF SourcesWatched

-----------------------------------------------------------------------------
(* Theorems.                                                               *)

(* The parts of a client fit together, with each other and with the servers. *)
THEOREM InvariantHolds == Spec => []IInv
<1>1. Init => IInv
  BY Initially
<1>2. IInv /\ [Next]_vars => IInv'
  BY StepKeeps
<1>3. QED BY <1>1, <1>2, PTL DEF Spec

(* A client is connected to a server that is there, or that was overdue unnoticed when it *)
(* left; and while a server is known to be alive no client that seeks one is without. *)
THEOREM ConnectionsStayConsistent == Spec => []ConnectionsConsistent
<1>1. IInv => ConnectionsConsistent
  BY InvariantConnects
<1>2. QED BY <1>1, InvariantHolds, PTL

(* A transfer of a description reads the buffer it was made into, for the server the client *)
(* is connected to; the application knows whether the server runs a task.  *)
THEOREM SessionsStayConsistent == Spec => []SessionsConsistent
<1>1. IInv => SessionsConsistent
  BY InvariantEnds
<1>2. QED BY <1>1, InvariantHolds, PTL

(* The node of a peer knows the connections that take values of it, whose task watches it; *)
(* a peer that sets one value is given up only when it was silent.         *)
THEOREM SourcesStayWatched == Spec => []SourcesWatched
<1>1. IInv => SourcesWatched
  BY InvariantWatches
<1>2. QED BY <1>1, InvariantHolds, PTL
=============================================================================
