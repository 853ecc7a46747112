------------------------------ MODULE TcClient ------------------------------
(***************************************************************************)
(* TcClient_c with task controllers of one type: the nodes it lists, the   *)
(* liveness of each as its ServerInstance_c sees it, the registered        *)
(* clients with one connection each, the servers that hold their           *)
(* descriptions, and peers that may set values.                            *)
(*                                                                         *)
(* Of a connection whose server was deleted under it nothing further is    *)
(* followed: it works on freed memory.                                     *)
(***************************************************************************)
EXTENDS TcConnection, SequencesExt

CONSTANTS
  Client,
  Peer,
  Value,        \* what a peer may be assigned to set (an element and a DDI)
  Scenario,
  StatusLost    \* 6000 ms without a status message

IsScenario(s) ==
  /\ s.clients \subseteq Client         \* registered from the start
  /\ s.servers \subseteq Server         \* that there may be
  /\ s.comes \in BOOLEAN                \* clients register and deregister
  /\ s.leaves \in BOOLEAN               \* servers leave the bus and return
  /\ s.silent \in BOOLEAN               \* servers stop sending their status
  /\ s.declines \in BOOLEAN             \* the application declines a server
  /\ s.forces \subseteq BOOLEAN         \* it reconnects, with or without a deletion
  /\ s.refuses \in BOOLEAN              \* a server refuses
  /\ s.loses \in BOOLEAN                \* requests, answers and transfers get lost
  /\ s.prompt \in BOOLEAN               \* servers answer before the time passes
  /\ s.busy \subseteq BOOLEAN           \* what a status says
  /\ s.totals \subseteq BOOLEAN
  /\ s.stored \subseteq {"none", "old", "translated", "whole"}  \* held at first
  /\ s.version4 \in BOOLEAN
  /\ s.others \in BOOLEAN               \* other long messages go to the server
  /\ s.peers \subseteq Peer

ASSUME TcClientAssumption ==
  /\ \A s \in Scenario : IsScenario(s)
  /\ StatusLost \in Nat \ {0}

VARIABLES
  scenario,
  nodes,       \* the servers in m_pdRemoteNodes
  server,      \* their ServerInstance_c
  stored,      \* the description of each client that a server holds
  client,      \* m_clientInfo and the connection of each client
  users,       \* connections of a peer's PdRemoteNode_c; without any there is no node
  turn         \* flips when the time passes

vars == <<scenario, nodes, server, stored, client, users, turn>>

NewServer == [age |-> Unset, cached |-> FALSE, totals |-> FALSE, due |-> TRUE]

Init ==
  /\ scenario \in Scenario
  /\ nodes = <<>>
  /\ server = [s \in Server |-> NewServer]
  /\ \E held \in scenario.stored : stored = [s \in Server |-> [c \in Client |-> held]]
  /\ client = [c \in Client |-> [NewClient EXCEPT !.registered = (c \in scenario.clients)]]
  /\ users = [p \in Peer |-> {}]
  /\ turn = FALSE

Listed(s) == s \in Range(nodes)
IsAlive(srv, s) == srv[s].age # Unset /\ srv[s].age <= StatusLost
Overdue(srv, s) == srv[s].cached /\ ~IsAlive(srv, s)
ConnectedTo(s) == {c \in Client : client[c].server = s}

\* The connection of c and its server exist.
Lives(c) == Connected(client[c]) /\ Listed(client[c].server)

Pool(w) == w.state \in {"Connecting", "Uploading", "Uploaded", "Active", "Error"}

-----------------------------------------------------------------------------
(* Connections end and begin.                                              *)

\* findNextServerOfSameType(): the next one alive behind s, else the first one.
NextServer(srv, list, s) ==
  LET here == CHOOSE n \in DOMAIN list : list[n] = s
      around == SubSeq(list, here + 1, Len(list)) \o SubSeq(list, 1, here - 1)
      alive == Selected(around, {t \in Server : IsAlive(srv, t)})
  IN IF alive = <<>> THEN NoServer ELSE Head(alive)

Disconnected(w, srv, shouldDelete) ==
  Disconnect(w, IsAlive(srv, w.server), srv[w.server].totals, scenario.version4, shouldDelete)

\* Why a client whose connection ended is left without one: a server that is overdue
\* but not noticed yet may be heard again, and that is no change of its status.
WithoutServer(w, left, srv) ==
  [w EXCEPT !.why = IF \E s \in Range(nodes) \ {left} : Overdue(srv, s) THEN "overdue" ELSE "none"]

\* notifyConnectionToBeEnded, with the servers as they are by then.
EndConnection(w, left, srv) ==
  LET s == w.server
      d == Disconnected(w, srv, FALSE)
      next == NextServer(srv, nodes, s)
  IN CASE next # NoServer -> PreConnect(d, next)
       [] next = NoServer /\ IsAlive(srv, s) -> PreConnect(d, s)
       [] OTHER -> WithoutServer(d, left, srv)

\* removeConnectionFromControlSource for all sources of the clients in S.
Released(S) == [p \in Peer |-> users[p] \ {c \in S : HasSource(client[c], p)}]

\* The connections of S end, and what was sent to the server that left is lost.
LeaveServer(S, left, srv) ==
  LET Lost(w) == IF left = NoServer THEN w ELSE [w EXCEPT !.queue[left] = <<>>] IN
  /\ client' = [c \in Client |->
       Lost(IF c \in S THEN EndConnection(client[c], left, srv) ELSE client[c])]
  /\ users' = Released(S)

-----------------------------------------------------------------------------
(* Servers.                                                                *)

Came(c, s) ==
  IF client[c].registered /\ ~Connected(client[c]) THEN PreConnect(client[c], s) ELSE client[c]

\* The server's timeEvent and notifyServerStatusChange.
ServerTimeEvent(s) ==
  LET srv == [server EXCEPT ![s].cached = IsAlive(server, s), ![s].due = FALSE] IN
  /\ Listed(s) /\ server[s].due
  /\ server' = srv
  /\ CASE srv[s].cached /\ ~server[s].cached ->
            client' = [c \in Client |-> Came(c, s)] /\ UNCHANGED users
       [] ~srv[s].cached /\ server[s].cached -> LeaveServer(ConnectedTo(s), NoServer, srv)
       [] srv[s].cached = server[s].cached -> UNCHANGED <<client, users>>
  /\ UNCHANGED <<nodes, stored>>

\* processStatus, and eventTaskStartStop of the connections; at most one in a period.
Status(s, busy, totals) ==
  LET Counted(w) == [w EXCEPT !.command = CountStatus(w.command, busy)]
      Told(w) == CASE totals /\ ~server[s].totals -> TaskStarted(w)
                   [] ~totals /\ server[s].totals -> TaskStopped(w)
                   [] totals = server[s].totals -> w
      stopped == IF ~totals /\ server[s].totals
                 THEN {c \in ConnectedTo(s) : client[c].state = "Active"} ELSE {}
  IN /\ Listed(s)
     /\ busy \in scenario.busy /\ totals \in scenario.totals
     /\ server[s].age # 0
     /\ server' = [server EXCEPT ![s].age = 0, ![s].totals = totals]
     /\ client' = [c \in Client |->
          IF c \in ConnectedTo(s) THEN Told(Counted(client[c])) ELSE client[c]]
     /\ users' = Released(stopped)
     /\ UNCHANGED <<nodes, stored>>

AddServer(s) ==
  /\ s \in scenario.servers /\ ~Listed(s)
  /\ ConnectedTo(s) = {}
  /\ nodes' = Append(nodes, s)
  /\ server' = [server EXCEPT ![s] = NewServer]
  /\ UNCHANGED <<stored, client, users>>

\* A defect: the server is still taken for alive when its clients look for the next.
DropOff_Not(s) == server

\* notifyOnDropOff
DropOff(s) == [server EXCEPT ![s].age = Unset]

\* removeRemotePd: a server that is not alive is deleted without a word, noticed or not.
RemoveServer(s) ==
  /\ scenario.leaves /\ Listed(s)
  /\ nodes' = Selected(nodes, Server \ {s})
  /\ IF IsAlive(server, s)
     THEN LeaveServer(ConnectedTo(s), s, DropOff(s)) /\ server' = DropOff(s)
     ELSE LeaveServer({}, s, server) /\ UNCHANGED server
  /\ stored' = [stored EXCEPT ![s] = [c \in Client |-> "none"]]

-----------------------------------------------------------------------------
(* Clients.                                                                *)

RegisterClient(c) ==
  /\ scenario.comes /\ ~client[c].registered
  /\ client' = [client EXCEPT
       ![c].registered = TRUE,
       ![c].why = IF \E s \in Range(nodes) : server[s].cached THEN "late" ELSE "none"]
  /\ UNCHANGED <<nodes, server, stored, users>>

\* The source handler's task must have run since the last source left: it is never
\* deregistered here.
DeregisterClient(c) ==
  /\ scenario.comes /\ client[c].registered
  /\ Connected(client[c]) => Lives(c)
  /\ ~client[c].sourceTask
  /\ LET w == client[c]
         d == IF Connected(w) THEN Disconnected(w, server, FALSE) ELSE w
     IN client' = [client EXCEPT ![c] = [NewClient EXCEPT !.queue = d.queue]]
  /\ users' = Released({c})
  /\ UNCHANGED <<nodes, server, stored>>

\* The application decides on the server it was offered.
DoConnect(c) ==
  /\ Lives(c) /\ client[c].state = "AwaitingConnectionDecision"
  /\ client' = [client EXCEPT ![c] = FullConnect(client[c])]
  /\ UNCHANGED <<nodes, server, stored, users>>

DontConnect(c) ==
  /\ scenario.declines
  /\ Lives(c) /\ client[c].state = "AwaitingConnectionDecision"
  /\ LET d == Disconnected(client[c], server, FALSE)
         next == NextServer(server, nodes, client[c].server)
     IN client' = [client EXCEPT ![c] =
          IF next # NoServer THEN PreConnect(d, next) ELSE [d EXCEPT !.why = "declined"]]
  /\ UNCHANGED <<nodes, server, stored, users>>

ForceReconnect(c, shouldDelete) ==
  /\ shouldDelete \in scenario.forces
  /\ Lives(c) /\ Pool(client[c])
  /\ client' = [client EXCEPT ![c] =
       PreConnect(Disconnected(client[c], server, shouldDelete), client[c].server)]
  /\ users' = Released({c})
  /\ UNCHANGED <<nodes, server, stored>>

ClientTimeEvent(c) ==
  /\ Lives(c) /\ client[c].due
  /\ IF EndsByItself(client[c])
     THEN LeaveServer({c}, NoServer, server)
     ELSE client' = [client EXCEPT ![c] = TimeEvent(client[c])] /\ UNCHANGED users
  /\ UNCHANGED <<nodes, server, stored>>

-----------------------------------------------------------------------------
(* Requests and their answers.                                             *)

\* What a server holds after it handled a request.
StoredAfter(was, what, ok) ==
  CASE what = "OPTransfer" -> IF ok THEN "whole" ELSE "none"
    [] what = "OPDelete" -> "none"
    [] OTHER -> was

\* A server activates what it holds.
Agrees(s, c, what, ok) == ok /\ (what = "OPActivate" => stored[s][c] = "whole")

Handled(s, c, r, ok) ==
  stored' = [stored EXCEPT ![s][c] = StoredAfter(@, r, Agrees(s, c, r, ok))]

\* What is left when the first request in the queue is gone.
WithoutRequest(w, s) ==
  [w EXCEPT !.queue[s] = Tail(@), !.older = IF w.server = s /\ @ > 0 THEN @ - 1 ELSE @]

\* The answer to the first request in the queue arrives; another server's is ignored.
Answer(s, c, ok) ==
  LET w == client[c]
      r == Head(w.queue[s])
      rest == WithoutRequest(w, s)
      taken == [rest EXCEPT !.genuine = @ \/ w.older = 0]
  IN /\ ok \/ scenario.refuses
     /\ Listed(s) /\ w.queue[s] # <<>> /\ (Connected(w) => Lives(c))
     /\ Handled(s, c, r, ok)
     /\ client' = [client EXCEPT ![c] =
          IF w.server = s /\ TakesResponse(w, Response(r))
          THEN Answered(taken, Response(r), stored[s][c], Agrees(s, c, r, ok), server[s].totals)
          ELSE rest]
     /\ UNCHANGED <<nodes, server, users>>

\* A request or its answer is lost.
Lose(s, c, handled) ==
  LET w == client[c] IN
  /\ w.queue[s] # <<>>
  /\ scenario.loses
  /\ client' = [client EXCEPT ![c] = WithoutRequest(w, s)]
  /\ IF handled THEN Listed(s) /\ Handled(s, c, Head(w.queue[s]), TRUE) ELSE UNCHANGED stored
  /\ UNCHANGED <<nodes, server, users>>

\* Another part of the program sends the server a long message.
OtherTransfer(c) ==
  /\ scenario.others
  /\ Lives(c) /\ client[c].transfer = NoTransfer
  /\ client' = [client EXCEPT ![c].transfer = [to |-> client[c].server, kind |-> "other"]]
  /\ UNCHANGED <<nodes, server, stored, users>>

\* A transfer ends; aborted, it may have reached the server nevertheless.
TransferEnds(c, success, received) ==
  LET w == client[c]
      sent == IF received
              THEN [w EXCEPT !.queue[w.server] = Reaches(w.server, @, "OPTransfer")]
              ELSE w
  IN /\ w.transfer # NoTransfer
     /\ success => received
     /\ success \/ scenario.loses
     /\ IF w.transfer.kind = "pool"
        THEN /\ Lives(c)
             /\ client' = [client EXCEPT ![c] =
                  ReactOnStateChange([sent EXCEPT !.transfer = NoTransfer], success,
                                     IsAlive(server, w.server))]
        ELSE success /\ client' = [client EXCEPT ![c].transfer = NoTransfer]
     /\ UNCHANGED <<nodes, server, stored, users>>

-----------------------------------------------------------------------------
(* Peers.                                                                  *)

\* The server assigns a peer to set a value.
AssignSource(c, v, p) ==
  /\ p \in scenario.peers
  /\ Lives(c) /\ Pool(client[c])
  /\ SourceOf(client[c], v) = {}
  /\ client' = [client EXCEPT ![c] = AddSource(client[c], v, p)]
  /\ users' = [users EXCEPT ![p] = @ \union {c}]
  /\ UNCHANGED <<nodes, server, stored>>

UnassignSource(c, v, p) ==
  /\ Lives(c) /\ Pool(client[c])
  /\ \E n \in SourceOf(client[c], v) : client[c].sources[n].peer = p
  /\ client' = [client EXCEPT ![c] = RemoveSource(client[c], v, p)]
  /\ users' = [users EXCEPT ![p] = IF HasSource(client'[c], p) THEN @ ELSE @ \ {c}]
  /\ UNCHANGED <<nodes, server, stored>>

\* The peer is not silent, whichever of its entries is marked.
Heard(w, peer) ==
  [w EXCEPT !.sources = [n \in DOMAIN w.sources |->
     IF w.sources[n].peer = peer THEN [w.sources[n] EXCEPT !.silent = 0] ELSE w.sources[n]]]

\* The peer of v sends c its value.
SetValue(c, v) ==
  /\ Lives(c)
  /\ \E n \in SourceOf(client[c], v) :
       LET p == client[c].sources[n].peer IN
       /\ c \in users[p]
       /\ client' = [client EXCEPT ![c] = Heard(UpdateTimestamp(client[c], p), p)]
  /\ UNCHANGED <<nodes, server, stored, users>>

\* The server sends c a value that a peer is to set: it is refused, but counts as the
\* peer's sign of life.
ServerSetsValue(c, v) ==
  /\ Lives(c)
  /\ \E n \in SourceOf(client[c], v) :
       client' = [client EXCEPT ![c] = UpdateTimestamp(client[c], client[c].sources[n].peer)]
  /\ UNCHANGED <<nodes, server, stored, users>>

SourceTask(c) ==
  LET w == client[c] IN
  /\ w.sourceTask
  /\ w.sources = <<>> \/ Expired(w) # {}
  /\ client' = [client EXCEPT ![c] = SourceTimeEvent(client[c])]
  /\ users' = [p \in Peer |-> IF HasSource(w, p) /\ ~HasSource(client'[c], p) THEN users[p] \ {c} ELSE users[p]]
  /\ UNCHANGED <<nodes, server, stored>>

PeerDropped(c, p) == DropPeer(client[c], p)

\* A peer leaves the bus: notifyPeerAndControlSourceDestruction, if it has a node.
RemovePeer(p) ==
  /\ users[p] # {}
  /\ client' = [c \in Client |-> PeerDropped(c, p)]
  /\ users' = [users EXCEPT ![p] = {}]
  /\ UNCHANGED <<nodes, server, stored>>

-----------------------------------------------------------------------------
(* The clock.  Tasks that are due run before it advances; a server that is *)
(* not silent sends its status in time.                                    *)

AllDone ==
  /\ \A s \in Range(nodes) : ~server[s].due
  /\ \A c \in Client : Lives(c) => ~client[c].due
  /\ \A c \in Client : client[c].sourceTask => Expired(client[c]) = {}

Older(n, longest) == IF n \in 0..longest THEN n + 1 ELSE n

OlderSource(e) == [e EXCEPT !.age = Older(@, SourceLost), !.silent = Older(@, SourceLost)]

Aged(w) ==
  [w EXCEPT !.due = Connected(w),
            !.quiet = IF @ > 0 THEN @ - 1 ELSE @,
            !.sources = [n \in DOMAIN @ |-> OlderSource(@[n])]]

Tick ==
  /\ AllDone
  /\ \A s \in Range(nodes) : scenario.silent \/ server[s].age < StatusLost
  /\ scenario.prompt => \A s \in Server, c \in Client : client[c].queue[s] = <<>>
  /\ server' = [s \in Server |->
       IF Listed(s) THEN [server[s] EXCEPT !.due = TRUE, !.age = Older(@, StatusLost)] ELSE server[s]]
  /\ client' = [c \in Client |-> IF Connected(client[c]) => Lives(c) THEN Aged(client[c]) ELSE client[c]]
  /\ UNCHANGED <<nodes, stored, users>>

Servers ==
  \E s \in Server :
    \/ \E busy, totals \in BOOLEAN : Status(s, busy, totals)
    \/ AddServer(s)
    \/ RemoveServer(s)
    \/ \E c \in Client, ok \in BOOLEAN : Answer(s, c, ok) \/ Lose(s, c, ok)

Applications ==
  \E c \in Client :
    \/ RegisterClient(c)
    \/ DeregisterClient(c)
    \/ DoConnect(c)
    \/ DontConnect(c)
    \/ \E shouldDelete \in BOOLEAN : ForceReconnect(c, shouldDelete)
    \/ OtherTransfer(c)

Library ==
  \/ \E s \in Server : ServerTimeEvent(s)
  \/ \E c \in Client :
       \/ ClientTimeEvent(c)
       \/ SourceTask(c)
       \/ \E success, received \in BOOLEAN : TransferEnds(c, success, received)

Peers ==
  \/ \E c \in Client, v \in Value : SetValue(c, v) \/ ServerSetsValue(c, v)
  \/ \E c \in Client, v \in Value, p \in Peer : AssignSource(c, v, p) \/ UnassignSource(c, v, p)
  \/ \E p \in Peer : RemovePeer(p)

Next ==
  /\ UNCHANGED scenario
  /\ \/ (Servers \/ Applications \/ Library \/ Peers) /\ UNCHANGED turn
     \/ Tick /\ turn' = ~turn

Spec == Init /\ [][Next]_vars

\* The scheduler calls the tasks that are due and the time passes.
ClockRuns == []<>AllDone /\ []<>turn /\ []<>~turn

\* What is sent to a server is answered or lost.
ServersAnswer == \A s \in Server, c \in Client : []<>(client[c].queue[s] = <<>>)

\* A transfer ends, and one that is started again and again succeeds.
TransfersSucceed ==
  \A c \in Client :
    /\ []<>(client[c].transfer = NoTransfer)
    /\ []<>(client[c].transfer.kind = "pool")
         => []<>(client[c].command.st = "WaitingForResponse" /\ client[c].command.sent = "OPTransfer")

FairSpec == Spec /\ ClockRuns /\ ServersAnswer /\ TransfersSucceed

-----------------------------------------------------------------------------
(* Correctness.                                                            *)

\* Every variable has its type.
TypeOK ==
  /\ scenario \in Scenario
  /\ Range(nodes) \subseteq Server /\ IsInjective(nodes)
  /\ \A s \in Server :
       /\ server[s].age \in Unset..StatusLost + 1
       /\ {server[s].cached, server[s].totals, server[s].due} \subseteq BOOLEAN
       /\ stored[s] \in [Client -> {"none", "old", "translated", "whole"}]
  /\ \A c \in Client :
       LET w == client[c] IN
       /\ w.state \in PoolState /\ w.server \in Server \union {NoServer}
       /\ Connected(w) <=> w.state # "Disconnected"
       /\ w.command.st \in {"Idle", "Running", "WaitingForResponse", "Aborted"}
       /\ w.command.sent \in Message /\ w.command.notBusy \in 0..NotBusy + 1
       /\ w.quiet \in Unset..Quiet
       /\ {w.registered, w.buffer, w.due, w.sourceTask, w.running, w.stalled, w.genuine}
            \subseteq BOOLEAN
       /\ w.older \in 0..ServerQueue
       /\ \A s \in Server : Len(w.queue[s]) <= ServerQueue
       /\ w.transfer.kind \in {"none", "pool", "other"}
       /\ \A n \in DOMAIN w.sources : w.sources[n].what \in Value /\ w.sources[n].peer \in Peer
  /\ users \in [Peer -> SUBSET Client]
  /\ turn \in BOOLEAN

\* The server node asserts in its destructor that no connection points to it.
\* (pdremotenode_c.cpp:40; violated by a server that leaves the bus while it is overdue
\* and nobody noticed.)
ServerOutlivesConnections ==
  \A c \in Client : Connected(client[c]) => Listed(client[c].server)

\* That is the only way to lose a server under a connection: whatever else clients and
\* servers do, a server is deleted after its connections have ended.
ConnectedToListed ==
  \A c \in Client : Connected(client[c]) =>
    LET s == client[c].server IN
    Listed(s) \/ (server[s].cached /\ server[s].age > StatusLost)

\* While a task controller is known to be alive every registered client has a connection
\* to one, but a client that registered later, that declined, or whose connection ended
\* while a server was overdue unnoticed.
AliveIsConnected ==
  \A c \in Client : client[c].registered /\ ~Connected(client[c]) /\ client[c].why = "none" =>
    ~\E s \in Range(nodes) : server[s].cached /\ IsAlive(server, s)

\* The transfer of a description reads the buffer it was made into, which is freed
\* at the end of the connection and when the server has it.
TransferReadsBuffer ==
  \A c \in Client : client[c].transfer.kind = "pool" =>
    client[c].buffer /\ client[c].transfer.to = client[c].server

\* Answers are matched to the command by their kind alone.  Still a client that takes
\* itself for active has its whole description at the server, whatever it deleted,
\* uploaded or aborted before and whatever was left unanswered, as soon as one answer
\* it took in this connection was meant for it: only a handshake made of nothing but
\* answers to earlier connections can end in an activation that a deletion follows.
ActiveIsStored ==
  \A c \in Client : Lives(c) /\ client[c].state = "Active" /\ client[c].genuine =>
    stored[client[c].server][c] = "whole"

\* The application of an active client knows whether the server runs a task.
TaskReports ==
  \A c \in Client : Lives(c) =>
    (client[c].running <=>
       client[c].state = "Active" /\ server[client[c].server].totals)

\* The node of a peer knows exactly the connections that take values of it, and while
\* there are any the task that watches them is registered.
SourcesConnected ==
  \A c \in Client :
    /\ \A p \in Peer : c \in users[p] <=> HasSource(client[c], p)
    /\ client[c].sources # <<>> => client[c].sourceTask

\* A peer that was assigned one value is given up only when it was silent too long.
SourceLostIfSilent ==
  \A c \in Client : \A n \in Expired(client[c]) :
    client[c].sources[n].alone => client[c].sources[n].silent > SourceLost

\* A command is answered, given up, or ends with its connection, unless its transfer
\* never began or its end was missed.
CommandsEnd ==
  \A c \in Client :
    client[c].command.st # "Idle" ~>
      (client[c].command.st = "Idle" \/ ~Lives(c) \/ client[c].stalled)

Settled(c) ==
  \/ client[c].state \in {"Active", "AwaitingConnectionDecision", "Disconnected"}
  \/ ~Lives(c)
  \/ client[c].stalled

\* With servers that stay and answer in time, the handshake comes to an end: the client is
\* active, or it has no server, or the application is asked.
Reliable == scenario.prompt /\ ~(scenario.loses \/ scenario.leaves \/ scenario.silent)

ConnectionSettles ==
  Reliable => \A c \in Client : Connected(client[c]) ~> Settled(c)

\* Connections and servers fit together, in whatever order clients and servers come, go
\* and fall silent.
ConnectionsConsistent == TypeOK /\ ConnectedToListed /\ AliveIsConnected

\* The transfer of a description and the tasks of a server end with the connection.
SessionsConsistent == TransferReadsBuffer /\ TaskReports

\* The sources of a client's values are watched, and lost only if silent.
SourcesWatched == SourcesConnected /\ SourceLostIfSilent

\* The handshake comes to an end, whatever is lost or repeated on the way.
HandshakeEnds == CommandsEnd /\ ConnectionSettles
=============================================================================
