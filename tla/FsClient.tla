------------------------------ MODULE FsClient ------------------------------
(***************************************************************************)
(* FsManager_c with one file server: the server as the library sees it     *)
(* (FsServerInstance_c), the commands that ask for its properties and      *)
(* volumes, the registered clients (FsClientServerCommunication_c), each   *)
(* with an FsCommand_c once it is connected, and a server that answers the *)
(* requests of one client in their order, late or never.                   *)
(*                                                                         *)
(* A callback into an application that answers with a new call is that     *)
(* call right after the handler.  Answers still under way when the server  *)
(* is taken for lost (6 s without a status) are dropped.                   *)
(***************************************************************************)
EXTENDS FsCommand, Lists, SequencesExt

CONSTANTS
  Client,
  Scenario,
  StatusLost    \* 6000 ms without a status message

\* The commands of the interface of the applications.
Asked == {"openFile", "seekFile", "readFile", "closeFile", "writeFile"}

\* What applications and server do in a behaviour.
IsScenario(s) ==
  /\ s.first \in Seq(Client)            \* registered before the server comes
  /\ s.registers \in Nat                \* bound: registrations later on
  /\ s.deregisters \in BOOLEAN
  /\ s.connects \subseteq Client        \* applications that use the server
  /\ s.asks \subseteq [kind : Asked, long : BOOLEAN] \* what applications ask for
  /\ s.commands \in Nat                 \* bound: commands of one connection
  /\ s.parts \subseteq Kind             \* answered in several packets
  /\ s.supported \in BOOLEAN            \* the server's version
  /\ s.busy \subseteq BOOLEAN           \* what its status says
  /\ s.prompt \in BOOLEAN               \* it answers before the time-out
  /\ s.loses \in BOOLEAN                \* requests, answers and transfers get lost
  /\ s.dies \in BOOLEAN                 \* the server falls silent or leaves the bus

ASSUME FsClientAssumption ==
  /\ \A s \in Scenario : IsScenario(s)
  /\ StatusLost \in Nat \ {0}

NoHandler == NewCommand(-1, CHOOSE c \in Client : TRUE, FALSE, NoCommand)
HandlerId == 0
NoReception == [answer |-> EmptyBuffer, to |-> -1, valid |-> FALSE]

VARIABLES
  scenario,
  server,        \* FsServerInstance_c; listed tells whether its IsoItem_c is there
  clients,       \* mv_communications
  initializing,  \* ml_initializingCommands
  handler,       \* pc_commandHandler of each client
  transfer,      \* the long request under way from a client to the server
  queue,         \* requests of a client the server has and will answer, in order
  reception,     \* the answer in parts a client is receiving
  registered,    \* registrations made later on
  knows,         \* clients that were told of the usable server
  late,          \* history: clients that registered while it was usable
  twice,         \* history: a second initialization of the server was started
  orphaned,      \* history: the initialization ended with the client it ran for
  ready,         \* clients told fileserverReady() for their connection
  outcome,       \* what became of a client's last command
  stranger,      \* how that command ended by an answer to another one, if it did
  turn           \* flips with every step of an answer, where the server never fails

serverVars == <<server, initializing, twice, orphaned>>
clientVars == <<clients, registered, knows, late>>
linkVars == <<handler, transfer, queue, reception, ready, outcome, stranger>>
vars == <<scenario, turn, serverVars, clientVars, linkVars>>

Connected(c) == handler[c] # NoHandler
InitIds == {initializing[i].id : i \in DOMAIN initializing}
World(command, q, t) == [command |-> command, queue |-> q, transfer |-> t]
HandlerWorld(c) == World(handler[c], queue[c], transfer[c])
KeepInitializing(P) == Selected(initializing, {i \in Range(initializing) : i.id \in P})

Init ==
  /\ scenario \in Scenario
  /\ server = [listed |-> TRUE, state |-> "offline", busy |-> FALSE, age |-> 0, due |-> TRUE]
  /\ clients = scenario.first
  /\ initializing = <<>>
  /\ handler = [c \in Client |-> NoHandler]
  /\ transfer = [c \in Client |-> NoTransfer]
  /\ queue = [c \in Client |-> <<>>]
  /\ reception = [c \in Client |-> NoReception]
  /\ registered = 0
  /\ knows = {} /\ late = {} /\ ready = {}
  /\ twice = FALSE /\ orphaned = FALSE
  /\ outcome = [c \in Client |-> "none"]
  /\ stranger = [c \in Client |-> "none"]
  /\ turn = FALSE

-----------------------------------------------------------------------------
(* The server's state.                                                     *)

\* A new initializing command; en_lastCommand is what the memory held.
Initialize(client) ==
  \E garbage \in Kind \union {NoCommand} :
    /\ initializing' = Append(initializing,
         NewCommand(CHOOSE n \in 1..2 : n \notin InitIds, client, TRUE, garbage))
    /\ twice' = (twice \/ initializing # <<>>)
    /\ orphaned' = FALSE

\* The connection of the clients in S is gone with their handler: a transfer is
\* aborted, the receptions of their commands end.
Disconnected(S, gone) ==
  /\ handler' = [c \in Client |-> IF c \in S THEN NoHandler ELSE handler[c]]
  /\ transfer' = [c \in Client |-> IF c \in S THEN NoTransfer ELSE transfer[c]]
  /\ reception' = [c \in Client |->
       IF reception[c].to \in gone \/ (c \in S /\ reception[c].to = HandlerId)
       THEN NoReception ELSE reception[c]]
  /\ ready' = ready \ S
  /\ outcome' = [c \in Client |-> IF c \in S THEN "none" ELSE outcome[c]]
  /\ stranger' = [c \in Client |-> IF c \in S THEN "none" ELSE stranger[c]]

\* A defect: the handlers live on when their server is lost.
ToldOffline_None(state) == {}

\* The clients that are told their server is lost.
ToldOffline(state) ==
  IF state = "usable" THEN {c \in Range(clients) : Connected(c)} ELSE {}

\* setState(offline).
GoOffline(listed) ==
  /\ server' = [server EXCEPT !.state = "offline", !.listed = listed, !.due = FALSE, !.age = 0]
  /\ initializing' = <<>>
  /\ Disconnected(ToldOffline(server.state), InitIds)
  /\ queue' = [c \in Client |-> <<>>]
  /\ knows' = {} /\ late' = {}
  /\ twice' = (twice /\ \E c \in Client : handler'[c] # NoHandler)
  /\ orphaned' = FALSE
  /\ UNCHANGED <<clients, registered>>

\* A status message.
Status(busy) ==
  /\ server.listed
  /\ busy \in scenario.busy
  /\ server.state # "unusable"
  /\ server' = [server EXCEPT !.state = IF @ = "offline" THEN "online" ELSE @,
                              !.busy = busy, !.age = 0]
  /\ IF server.state = "offline" /\ clients # <<>>
     THEN Initialize(Head(clients))
     ELSE UNCHANGED <<initializing, twice, orphaned>>
  /\ UNCHANGED <<clientVars, linkVars>>

ServerTimedOut == server.state \in {"online", "usable"} /\ server.age > StatusLost

ToldUsable == Range(clients)

\* The manager's timeEvent: a pending server becomes usable, a silent one is lost.
ManagerTimeEvent ==
  /\ server.listed /\ server.due
  /\ \/ /\ server.state = "usablePending"
        /\ server' = [server EXCEPT !.state = "usable", !.due = FALSE]
        /\ knows' = ToldUsable /\ late' = {}
        /\ UNCHANGED <<initializing, twice, orphaned, clients, registered, linkVars>>
     \/ ServerTimedOut /\ GoOffline(TRUE)
     \/ /\ server.state # "usablePending" /\ ~ServerTimedOut
        /\ server' = [server EXCEPT !.due = FALSE]
        /\ UNCHANGED <<initializing, twice, orphaned, clientVars, linkVars>>

\* The server's IsoItem_c is removed: offline() first, then the object is deleted.
RemoveItem ==
  /\ scenario.dies
  /\ server.listed
  /\ GoOffline(FALSE)

\* It is there again.  A handler left behind points to the deleted object: what it
\* does is undefined and not followed.
AddItem ==
  /\ ~server.listed
  /\ \A c \in Client : ~Connected(c)
  /\ server' = [server EXCEPT !.listed = TRUE, !.due = TRUE, !.busy = FALSE]
  /\ UNCHANGED <<initializing, twice, orphaned, clientVars, linkVars>>

-----------------------------------------------------------------------------
(* Clients.                                                                *)

Register(c) ==
  /\ registered < scenario.registers
  /\ c \notin Range(clients)
  /\ registered' = registered + 1
  /\ clients' = Append(clients, c)
  /\ late' = IF server.state = "usable" THEN late \union {c} ELSE late
  /\ IF server.listed /\ server.state = "online"
     THEN Len(initializing) < 2 /\ Initialize(Head(clients'))
     ELSE UNCHANGED <<initializing, twice, orphaned>>
  /\ UNCHANGED <<server, knows, linkVars>>

Deregister(c) ==
  /\ scenario.deregisters
  /\ c \in Range(clients)
  /\ LET mine == {i.id : i \in {j \in Range(initializing) : j.client = c}} IN
     /\ initializing' = KeepInitializing(InitIds \ mine)
     /\ Disconnected({c}, mine)
     /\ orphaned' = (orphaned \/ mine # {})
  /\ clients' = Selected(clients, Client \ {c})
  /\ knows' = knows \ {c} /\ late' = late \ {c}
  /\ UNCHANGED <<server, twice, registered, queue>>

\* A handler's world after a step, back in place.
HandlerBecomes(c, world) ==
  /\ handler' = [handler EXCEPT ![c] = world.command]
  /\ queue' = [queue EXCEPT ![c] = world.queue]
  /\ transfer' = [transfer EXCEPT ![c] = world.transfer]

\* requestFsConnection: a client connects to the server it was told of.
Connect(c) ==
  /\ c \in knows \intersect scenario.connects
  /\ ~Connected(c)
  /\ server.state = "usable"
  /\ HandlerBecomes(c, Begin(World(NewCommand(HandlerId, c, FALSE, NoCommand), queue[c], transfer[c]),
                             "getCurrentDirectory", FALSE))
  /\ ready' = ready \ {c}
  /\ outcome' = [outcome EXCEPT ![c] = "asked"]
  /\ stranger' = [stranger EXCEPT ![c] = "none"]
  /\ UNCHANGED <<serverVars, clientVars, reception>>

MayAsk(c) == Connected(c) /\ ~IsBusy(handler[c])

\* A command of the application.
Ask(c, kind, long) ==
  /\ server.listed /\ MayAsk(c)
  /\ [kind |-> kind, long |-> long] \in scenario.asks
  /\ handler[c].of < scenario.commands
  /\ HandlerBecomes(c, Begin(HandlerWorld(c), kind, long))
  /\ outcome' = [outcome EXCEPT ![c] = IF @ = "asked" THEN "overrun" ELSE "asked"]
  /\ stranger' = [stranger EXCEPT ![c] = "none"]
  /\ UNCHANGED <<serverVars, clientVars, reception, ready>>

-----------------------------------------------------------------------------
(* The commands' tasks.                                                    *)

InitializingTimeEvent(n) ==
  LET i == initializing[n]
      w == TimeEvent(World(i, queue[i.client], transfer[i.client]), server.busy) IN
  /\ i.due
  /\ initializing' = [initializing EXCEPT ![n] = w.command]
  /\ queue' = [queue EXCEPT ![i.client] = w.queue]
  /\ UNCHANGED <<server, twice, orphaned, clientVars, handler, transfer, reception,
                 ready, outcome, stranger>>

\* An end of c's command was reported to the application.
Tell(c) == outcome' = [outcome EXCEPT ![c] = IF @ = "asked" THEN "told" ELSE "toldTwice"]

HandlerTimeEvent(c) ==
  /\ server.listed /\ Connected(c)
  /\ handler[c].due
  /\ HandlerBecomes(c, TimeEvent(HandlerWorld(c), server.busy))
  /\ IF GivesUp(BeforeTimeOut(HandlerWorld(c)).command, server.busy)
     THEN IF handler[c].lastCommand = "getCurrentDirectory"
          THEN outcome' = [outcome EXCEPT ![c] = "unheard"]
          ELSE Tell(c)
     ELSE UNCHANGED outcome
  /\ UNCHANGED <<serverVars, clientVars, reception, ready, stranger>>

-----------------------------------------------------------------------------
(* Answers.                                                                *)

\* How an answer that ends c's command h relates to it.
Origin(h, r, inParts) ==
  CASE r.by = h.id /\ r.of = h.of -> "own"
    [] r.by = h.id /\ r.of # h.of -> IF inParts THEN "earlierInParts" ELSE "earlier"
    [] OTHER -> "initialization"

\* A taken answer ends the command of c's handler.
EndBy(c, r, inParts) ==
  /\ stranger' = [stranger EXCEPT ![c] = Origin(handler[c], r, inParts)]
  /\ IF Reported(r.kind, inParts)
     THEN /\ IF r.kind = "getCurrentDirectory"
             THEN outcome' = [outcome EXCEPT ![c] = "told"]
             ELSE Tell(c)
          /\ ready' = IF r.kind = "getCurrentDirectory" THEN ready \union {c} ELSE ready
     ELSE outcome' = [outcome EXCEPT ![c] = "unheard"] /\ UNCHANGED ready

\* An answer in one frame, offered to every initializing command in turn, then to
\* the handler.
Single(r) == [kind |-> r.kind, tan |-> r.tan, parts |-> FALSE]

Offer(r, c, acc, i) ==
  IF i.client # c \/ ~TakesAnswer(i, Single(r))
  THEN [acc EXCEPT !.commands = Append(@, i)]
  ELSE IF Finished(i, Single(r), scenario.supported)
  THEN [acc EXCEPT !.state = ServerAfter(i, Single(r), scenario.supported),
                   !.gone = @ \union {i.id}]
  ELSE LET w == Answered(World(i, acc.queue, NoTransfer), Single(r))
       IN [acc EXCEPT !.commands = Append(@, w.command), !.queue = w.queue]

OfferedToAll(r, c) ==
  LET acc[k \in 0..Len(initializing)] ==
        IF k = 0
        THEN [commands |-> <<>>, queue |-> Tail(queue[c]), state |-> server.state, gone |-> {}]
        ELSE Offer(r, c, acc[k - 1], initializing[k])
  IN acc[Len(initializing)]

AnswerInOneFrame(c) ==
  /\ queue[c] # <<>> /\ server.listed
  /\ LET r == Head(queue[c])
         all == OfferedToAll(r, c)
         taken == Connected(c) /\ TakesAnswer(handler[c], Single(r)) IN
     /\ r.kind \notin scenario.parts
     /\ initializing' = all.commands
     /\ server' = [server EXCEPT !.state = all.state]
     /\ queue' = [queue EXCEPT ![c] = all.queue]
     /\ reception' = [d \in Client |-> IF reception[d].to \in all.gone THEN NoReception ELSE reception[d]]
     /\ handler' = [handler EXCEPT ![c] =
          IF taken THEN Answered(HandlerWorld(c), Single(r)).command ELSE @]
     /\ IF taken THEN EndBy(c, r, FALSE) ELSE UNCHANGED <<outcome, stranger, ready>>
  /\ UNCHANGED <<twice, orphaned, clientVars, transfer>>

\* The clients of MultiReceive_c for answers to c, in the order of registration.
Receivers(c) ==
  Selected(initializing, {i \in Range(initializing) : i.client = c /\ i.filter})
    \o (IF Connected(c) /\ handler[c].filter THEN <<handler[c]>> ELSE <<>>)

\* The first part of an answer: its transaction number is compared here only.
AnswerPartsBegin(c) ==
  /\ queue[c] # <<>> /\ server.listed
  /\ reception[c] = NoReception
  /\ Head(queue[c]).kind \in scenario.parts
  /\ queue' = [queue EXCEPT ![c] = Tail(@)]
  /\ reception' = [reception EXCEPT ![c] =
       IF Receivers(c) = <<>> THEN NoReception
       ELSE [answer |-> Head(queue[c]), to |-> Head(Receivers(c)).id,
             valid |-> Head(queue[c]).tan = Head(Receivers(c)).tan]]
  /\ UNCHANGED <<serverVars, clientVars, handler, transfer, ready, outcome, stranger>>

InParts(r) == [kind |-> r.kind, tan |-> r.tan, parts |-> TRUE]

\* The last part of an answer ends the command if the command byte fits.
EndsCommand(h, rec) == rec.valid /\ rec.answer.kind = h.lastCommand

AnswerPartsEndForHandler(c) ==
  LET rec == reception[c] IN
  /\ rec.to = HandlerId /\ server.listed
  /\ reception' = [reception EXCEPT ![c] = NoReception]
  /\ IF EndsCommand(handler[c], rec)
     THEN /\ HandlerBecomes(c, Answered(HandlerWorld(c), InParts(rec.answer)))
          /\ EndBy(c, rec.answer, TRUE)
     ELSE UNCHANGED <<handler, queue, transfer, outcome, stranger, ready>>
  /\ UNCHANGED <<serverVars, clientVars>>

AnswerPartsEndForInitializing(c, n) ==
  LET rec == reception[c]
      i == initializing[n]
      w == Answered(World(i, queue[c], NoTransfer), InParts(rec.answer)) IN
  /\ i.id = rec.to /\ i.client = c
  /\ reception' = [reception EXCEPT ![c] = NoReception]
  /\ IF EndsCommand(i, rec)
     THEN /\ initializing' = [initializing EXCEPT ![n] = w.command]
          /\ queue' = [queue EXCEPT ![c] = w.queue]
     ELSE UNCHANGED <<initializing, queue>>
  /\ UNCHANGED <<server, twice, orphaned, clientVars, handler, transfer, ready, outcome, stranger>>

AnswerPartsEnd(c) ==
  \/ AnswerPartsEndForHandler(c)
  \/ \E n \in DOMAIN initializing : AnswerPartsEndForInitializing(c, n)

\* A request is not answered, or the answer is lost, whole or in its course.
Lose(c) ==
  /\ scenario.loses
  /\ \/ /\ queue[c] # <<>>
        /\ queue' = [queue EXCEPT ![c] = Tail(@)]
        /\ UNCHANGED reception
     \/ /\ reception[c] # NoReception
        /\ reception' = [reception EXCEPT ![c] = NoReception]
        /\ UNCHANGED queue
  /\ UNCHANGED <<serverVars, clientVars, handler, transfer, ready, outcome, stranger>>

-----------------------------------------------------------------------------
(* The transfer of a long request, a SendStream_c.                         *)

TransferEnds(c, success) ==
  /\ transfer[c] # NoTransfer /\ server.listed
  /\ transfer' = [transfer EXCEPT ![c] = NoTransfer]
  /\ handler' = [handler EXCEPT ![c].sendSuccess = success]
  /\ UNCHANGED <<serverVars, clientVars, reception, ready, outcome, stranger>>

TransferDone(c) ==
  /\ TransferEnds(c, "SendSuccess")
  /\ queue' = [queue EXCEPT ![c] = Reaches(@, transfer[c].head)]

TransferAborted(c) ==
  /\ scenario.loses
  /\ TransferEnds(c, "SendAborted")
  /\ UNCHANGED queue

-----------------------------------------------------------------------------
(* The clock.  Every task runs once in a period; a server that does not    *)
(* die sends its status in time.                                           *)

AllDone ==
  /\ ~(server.listed /\ server.due)
  /\ \A i \in Range(initializing) : ~i.due
  /\ server.listed => \A c \in Client : Connected(c) => ~handler[c].due

\* Ages beyond the longest time-out of the scenario are all the same.
Longest == IF TRUE \in scenario.busy THEN RepeatBusy ELSE Repeat

Older(c) ==
  [c EXCEPT !.due = TRUE, !.age = IF @ \in 0..Longest THEN @ + 1 ELSE @]

Commands == Range(initializing) \union {handler[c] : c \in {d \in Client : Connected(d)}}
Awaited(c) == queue[c] # <<>> \/ reception[c] # NoReception
AnswerDue ==
  scenario.prompt /\ server.listed /\ \E i \in Commands : i.age >= Repeat /\ Awaited(i.client)

Tick ==
  /\ AllDone
  /\ ~AnswerDue
  /\ server' = [server EXCEPT !.due = @ \/ server.listed,
       !.age = IF /\ scenario.dies /\ @ <= StatusLost
                  /\ server.state \in {"online", "usablePending", "usable"}
               THEN @ + 1 ELSE @]
  /\ initializing' = [n \in DOMAIN initializing |-> Older(initializing[n])]
  /\ handler' = [c \in Client |-> IF Connected(c) THEN Older(handler[c]) ELSE handler[c]]
  /\ UNCHANGED <<twice, orphaned, clientVars, transfer, queue, reception, ready, outcome, stranger>>

-----------------------------------------------------------------------------

Applications ==
  \E c \in Client :
    \/ Register(c)
    \/ Deregister(c)
    \/ Connect(c)
    \/ \E ask \in scenario.asks : Ask(c, ask.kind, ask.long)

Server ==
  \/ \E busy \in BOOLEAN : Status(busy)
  \/ RemoveItem
  \/ AddItem
  \/ \E c \in Client : Lose(c)

Library ==
  \/ ManagerTimeEvent
  \/ \E n \in DOMAIN initializing : InitializingTimeEvent(n)
  \/ \E c \in Client : HandlerTimeEvent(c) \/ TransferDone(c) \/ TransferAborted(c)

Answers == \E c \in Client : AnswerInOneFrame(c) \/ AnswerPartsBegin(c) \/ AnswerPartsEnd(c)

\* What ServerBecomesUsable is asked of.
Faultless ==
  /\ scenario.supported /\ scenario.prompt
  /\ ~scenario.loses /\ ~scenario.dies /\ ~scenario.deregisters

Next ==
  /\ UNCHANGED scenario
  /\ \/ (Applications \/ Server \/ Library \/ Tick) /\ UNCHANGED turn
     \/ Answers /\ turn' = IF Faultless THEN ~turn ELSE turn

Spec == Init /\ [][Next]_vars

\* The scheduler runs every task of a period, and time goes on unless an answer is due
\* (nothing is left to run once the server is gone for good).
ClockRuns == []<>AllDone /\ []<>(~AllDone \/ AnswerDue)

\* The server sends its status, and it answers what it hears.
ServerRuns ==
  /\ []<>(~server.listed \/ server.state # "offline")
  /\ []<>(\A c \in Client : ~Awaited(c)) \/ ([]<>turn /\ []<>(~turn))

\* A transfer that is started again and again succeeds: the code repeats an aborted
\* one without limit.
TransfersSucceed ==
  \A c \in Client : []<>(transfer[c] # NoTransfer) =>
    []<>(transfer[c] = NoTransfer /\ handler[c].sendSuccess = "SendSuccess")

FairSpec == Spec /\ ClockRuns /\ ServerRuns /\ TransfersSucceed

-----------------------------------------------------------------------------

Commanders == Range(initializing) \union {handler[c] : c \in Client}

\* Every variable has its type; a request of a client is sent Attempts times at most.
TypeOK ==
  /\ scenario \in Scenario
  /\ server \in [listed : BOOLEAN, busy : BOOLEAN, due : BOOLEAN, age : 0..StatusLost+1,
       state : {"offline", "online", "usablePending", "usable", "unusable"}]
  /\ clients \in Seq(Client) /\ Len(initializing) <= 2
  /\ \A i \in Commanders :
       /\ i.client \in Client
       /\ i.lastCommand \in Kind \union {NoCommand}
       /\ i.tan \in 0..TanRange-1
       /\ i.age \in -1..RepeatBusy+1
       /\ i.requestAttempts \in 0..Attempts \/ i.initializing
       /\ i.buffer \in Request \union {EmptyBuffer}
       /\ i.sendSuccess \in {"Running", "SendSuccess", "SendAborted"}
  /\ \A c \in Client :
       /\ Len(queue[c]) <= ServerQueue
       /\ \A n \in DOMAIN queue[c] : queue[c][n] \in Request
       /\ transfer[c].head \in Request \union {EmptyBuffer}
       /\ outcome[c] \in {"none", "asked", "told", "toldTwice", "unheard", "overrun"}
  /\ knows \union late \union ready \subseteq Client

\* A long request leaves in the bytes of one command: the transfer reads the buffer
\* while it runs, so a buffer refilled meanwhile (or a short request sent as a long
\* one) reaches the server mixed.  It can happen only to a repetition, which an answer
\* to the first try may overtake, or to a transfer left over from an earlier command.
RequestsWhole ==
  \A c \in Client : transfer[c] # NoTransfer =>
    \/ transfer[c].head.long /\ transfer[c].head.of = handler[c].buffer.of
    \/ transfer[c].try > 1
    \/ transfer[c].head.of # transfer[c].owed

\* A running transfer reports to an FsCommand_c that exists and waits for it, so the
\* destructor, which aborts it only if it waits, leaves no pointer behind.
TransferHasListener ==
  \A c \in Client : transfer[c] # NoTransfer => Connected(c) /\ handler[c].wait

\* A command of an application ends once: it is busy until its end is reported, or the
\* end is one that the code reports to nobody (getCurrentDirectory given up, or an
\* answer in an unexpected form).
EndsOnce ==
  \A c \in Client :
    /\ outcome[c] \notin {"toldTwice", "overrun"}
    /\ Connected(c) => (outcome[c] = "asked" <=> IsBusy(handler[c]))
    /\ outcome[c] = "unheard" =>
         \/ handler[c].of = 1 /\ c \notin ready
         \/ ~(scenario.parts \subseteq {"getCurrentDirectory", "readFile"})

\* An answer ends the command it answers.  Two exceptions: an answer in parts whose
\* command was given up while the parts came may end the next command of its kind, and
\* a second initialization, which shares address and numbers with the first client's
\* connection, may see its answers taken.
AnswersOwnCommand ==
  \A c \in Client :
    /\ stranger[c] # "earlier"
    /\ stranger[c] = "initialization" => twice

\* A client is connected only to a server that is listed and usable, so its handler's
\* reference to the server is good.  The end of a second initialization takes a usable
\* server back to pending under its clients (or to unusable, if it found a version that
\* is not supported): if the server leaves the bus before it is usable again, they are
\* told nothing and keep their reference.
ConnectedToUsable ==
  \A c \in Client : Connected(c) =>
    \/ server.listed /\ server.state = "usable"
    \/ twice /\ (server.listed => server.state \in {"usablePending", "unusable"})

\* While a server is usable the clients that know it are exactly those that registered
\* before it became usable, not those that did after: registerFsClient does not tell
\* them, nor does a later timeEvent of the manager.  (fsmanager_c.h:123 has it that
\* timeEvent notifies those "that have not been notified on fileservers yet".)
UsableIsKnown ==
  server.state = "usable" => knows = Range(clients) \ late

\* A server that is online is being asked for its properties as long as there is a
\* client to do it for, until that client leaves: what asks never outlives the client it
\* asks for, which is the first in the list, and waits for an answer (unless one came
\* in parts where the sequence does not expect it).
InitializationRuns ==
  /\ server.state = "online" /\ clients # <<>> => (initializing = <<>> <=> orphaned)
  /\ \A i \in Range(initializing) : clients # <<>> /\ i.client = Head(clients)
  /\ \A i \in Range(initializing) : i.queryStarted =>
       IsBusy(i) \/ ~(scenario.parts \subseteq {"getCurrentDirectory", "readFile"})

\* Every command of an application ends or its connection does, whatever is lost, if
\* transfers are not aborted for ever.
CommandsEnd ==
  \A c \in Client : Connected(c) /\ IsBusy(handler[c]) ~> ~Connected(c) \/ ~IsBusy(handler[c])

\* A supported server that answers becomes usable, even if two initializations run at
\* once and take each other's answers, as long as no client leaves.
ServerBecomesUsable == Faultless => <>(server.state = "usable")

\* Handler, transfer and outcome of a command fit together, whatever of an earlier
\* command, transfer or connection is still under way.
CommandsConsistent == TypeOK /\ TransferHasListener /\ EndsOnce

\* What is sent for a command and what ends it belongs to that command, as long as no
\* more than TanRange commands are told apart by their numbers.
CommandsKeptApart == RequestsWhole /\ AnswersOwnCommand

\* Clients are connected to servers that can be used, and the manager keeps trying to
\* find one and tells of it, in whatever order clients and server come and go.
ServerKnowledge == ConnectedToUsable /\ UsableIsKnown /\ InitializationRuns
=============================================================================
