---------------------------- MODULE TcConnection ----------------------------
(***************************************************************************)
(* TcClientConnection_c: the connection of one client to a task controller *)
(* with its current command, its outgoing requests, the transfer of the    *)
(* device description (a SendStream_c) and the peers it takes setpoints    *)
(* from (ControlSourceHandler_c).                                          *)
(*                                                                         *)
(* A handler is an operator on the record `w' of one client.  A server     *)
(* handles the requests of a client in their order.                        *)
(***************************************************************************)
EXTENDS Integers, Sequences, Lists, Functions

CONSTANTS
  Server,
  NoServer,
  Quiet,        \* 6000 ms of silence before anything is sent (and the announce)
  NotBusy,      \* 3, DEF_MaxTcNotBusyCount
  SourceLost,   \* 3000 ms without a value of a setpoint source
  ServerQueue,  \* bound: the most requests any server holds
  Room          \* bound: how many each holds, what is sent beyond is lost

ASSUME TcConnectionAssumption ==
  /\ NoServer \notin Server
  /\ Quiet \in Nat \ {0} /\ NotBusy \in Nat /\ SourceLost \in Nat
  /\ ServerQueue \in Nat \ {0} /\ Room \in [Server -> 1..ServerQueue]

PoolState ==
  {"Disconnected", "Preconnecting", "AwaitingConnectionDecision", "Connecting",
   "Uploading", "Uploaded", "Active", "Error"}

\* ProcessDataMsg_t; each has one expected response, named alike.
Message ==
  {"Version", "StructureLabel", "LocalizationLabel", "RequestOPTransfer",
   "OPTransfer", "OPActivate", "OPDeactivate", "OPDelete"}

\* The response of both activations is the same message.
Response(what) == IF what = "OPDeactivate" THEN "OPActivate" ELSE what

Unset == -1
NoTransfer == [to |-> NoServer, kind |-> "none"]
Idle == [st |-> "Idle", sent |-> "Version", notBusy |-> 0]

NewClient ==
  [registered |-> FALSE, state |-> "Disconnected", server |-> NoServer,
   command |-> Idle, quiet |-> Unset, buffer |-> FALSE, due |-> FALSE,
   queue |-> [s \in Server |-> <<>>],  \* requests that are not answered
   transfer |-> NoTransfer,
   sources |-> <<>>,       \* m_listSpValueSource: what is set, by whom, when last
   sourceTask |-> FALSE,   \* the source handler's task is registered
   running |-> FALSE,      \* the application was told that a task runs
   why |-> "none",         \* why no server is sought
   stalled |-> FALSE,      \* the description's transfer never began, or its end was missed
   older |-> 0,            \* history: unanswered requests of earlier connections to server
   genuine |-> FALSE]      \* history: it took an answer to a request of its own

Connected(w) == w.server # NoServer

\* The states that want the task to run at once.
SetDevPoolState(w, state) ==
  [w EXCEPT !.state = state,
            !.due = @ \/ state \notin {"Disconnected", "AwaitingConnectionDecision"}]

-----------------------------------------------------------------------------
(* Commands.                                                               *)

Reaches(s, queue, r) == IF Len(queue) < Room[s] THEN Append(queue, r) ELSE queue

SendMsg(w, what) ==
  [w EXCEPT !.queue[w.server] = Reaches(w.server, @, what)]

SentSinglePkg(w, what) ==
  [SendMsg(w, what) EXCEPT !.command = [st |-> "WaitingForResponse", sent |-> what, notBusy |-> 0]]

\* sendIsoTarget() starts no second transfer to the same server; doCommand() does not
\* look at what it returns.
TransferPool(w) ==
  [w EXCEPT !.command = [st |-> "Running", sent |-> "OPTransfer", notBusy |-> 0],
            !.transfer = IF @.to = w.server THEN @ ELSE [to |-> w.server, kind |-> "pool"],
            !.stalled = (w.transfer.to = w.server)]

DoCommand(w, what) == IF what = "OPTransfer" THEN TransferPool(w) ELSE SentSinglePkg(w, what)

\* getNotBusyCount() minus m_cmdTcNotBusyCountStart: a busy status takes both to zero.
CountStatus(command, busy) ==
  CASE busy -> [command EXCEPT !.notBusy = 0]
    [] ~busy /\ command.st = "WaitingForResponse" /\ command.notBusy <= NotBusy ->
         [command EXCEPT !.notBusy = @ + 1]
    [] OTHER -> command

IsTimedOut(command) == command.st = "WaitingForResponse" /\ command.notBusy > NotBusy

-----------------------------------------------------------------------------
(* Connecting and disconnecting.                                           *)

\* preConnect, reConnect
PreConnect(w, s) ==
  SetDevPoolState(
    [w EXCEPT !.server = s, !.command = Idle, !.quiet = Unset,
              !.why = "none", !.stalled = FALSE,
              !.older = Len(w.queue[s]), !.genuine = FALSE],
    "Preconnecting")

\* The decision of the application for a description.
FullConnect(w) == SetDevPoolState(DoCommand(w, "StructureLabel"), "Connecting")

Farewell(w, alive, version4, shouldDelete) ==
  IF alive /\ w.state \in {"Uploaded", "Active"}
  THEN LET d == IF version4 THEN SendMsg(w, "OPDeactivate") ELSE w
       IN IF shouldDelete THEN SendMsg(d, "OPDelete") ELSE d
  ELSE w

\* eventTaskStartStop(false)
TaskStopped(w) ==
  IF w.state = "Active" THEN [w EXCEPT !.running = FALSE, !.sources = <<>>] ELSE w

TaskStarted(w) == IF w.state = "Active" THEN [w EXCEPT !.running = TRUE] ELSE w

\* A defect: the transfer goes on after its buffer is freed.
AbortSend_Not(w) == w.transfer

AbortSend(w) == IF w.transfer.kind = "pool" THEN NoTransfer ELSE w.transfer

Disconnect(w, alive, totals, version4, shouldDelete) ==
  LET said == Farewell(w, alive, version4, shouldDelete)
      stopped == IF totals THEN TaskStopped(said) ELSE said
  IN [stopped EXCEPT !.transfer = AbortSend(w), !.buffer = FALSE, !.sources = <<>>,
                     !.server = NoServer, !.command = Idle,
                     !.quiet = Unset, !.due = FALSE, !.state = "Disconnected"]

-----------------------------------------------------------------------------
(* timeEvent(): the silence, then what the command allows.                 *)

Silent(w) == w.quiet # 0

EndsByItself(w) ==
  /\ ~Silent(w)
  /\ IsTimedOut(w.command) \/ (w.command.st = "Idle" /\ w.state = "Error")

\* A defect: an aborted transfer is not repeated.
Proceed_NoRetry(w) ==
  CASE w.command.st = "Idle" /\ w.state = "Preconnecting" -> DoCommand(w, "Version")
    [] w.command.st = "Idle" /\ w.state = "Uploading" ->
         DoCommand([w EXCEPT !.buffer = TRUE], "RequestOPTransfer")
    [] w.command.st = "Idle" /\ w.state = "Uploaded" -> DoCommand(w, "OPActivate")
    [] OTHER -> w

Proceed(w) ==
  CASE w.command.st = "Idle" /\ w.state = "Preconnecting" -> DoCommand(w, "Version")
    [] w.command.st = "Idle" /\ w.state = "Uploading" ->
         DoCommand([w EXCEPT !.buffer = TRUE], "RequestOPTransfer")
    [] w.command.st = "Idle" /\ w.state = "Uploaded" -> DoCommand(w, "OPActivate")
    [] w.command.st = "Aborted" -> DoCommand(w, "OPTransfer")
    [] OTHER -> w

TimeEvent(w) ==
  CASE w.quiet = Unset -> [w EXCEPT !.quiet = Quiet, !.due = FALSE]
    [] w.quiet # Unset /\ Silent(w) -> [w EXCEPT !.due = FALSE]
    [] ~Silent(w) -> Proceed([w EXCEPT !.due = FALSE])

-----------------------------------------------------------------------------
(* Messages.                                                               *)

\* A defect of handleResponseMessage: any response will do.
TakesResponse_Any(w, response) == w.command.st = "WaitingForResponse"

TakesResponse(w, response) ==
  w.command.st = "WaitingForResponse" /\ response = Response(w.command.sent)

\* What the label says of the description the server holds.
LabelFits(response, stored) ==
  CASE response = "StructureLabel" -> stored \in {"whole", "translated"}
    [] response = "LocalizationLabel" -> stored = "whole"

\* processMsgTc for a response that is taken.
Answered(w, response, stored, ok, totals) ==
  LET d == [w EXCEPT !.command.st = "Idle"] IN
  CASE response = "Version" -> SetDevPoolState(d, "AwaitingConnectionDecision")
    [] response \in {"StructureLabel", "LocalizationLabel"} /\ ~LabelFits(response, stored) ->
         SetDevPoolState(d, "Uploading")
    [] response = "StructureLabel" /\ LabelFits(response, stored) -> DoCommand(d, "LocalizationLabel")
    [] response = "LocalizationLabel" /\ LabelFits(response, stored) -> SetDevPoolState(d, "Uploaded")
    [] response = "RequestOPTransfer" ->
         IF ok THEN DoCommand(d, "OPTransfer") ELSE [d EXCEPT !.state = "Error"]
    [] response = "OPTransfer" ->
         [SetDevPoolState(d, IF ok THEN "Uploaded" ELSE "Error") EXCEPT !.buffer = FALSE]
    [] response = "OPActivate" /\ ok /\ d.state = "Uploaded" ->
         LET active == SetDevPoolState(d, "Active")
         IN IF totals THEN TaskStarted(active) ELSE active
    [] response = "OPActivate" /\ ok /\ d.state # "Uploaded" -> d
    [] response = "OPActivate" /\ ~ok -> SetDevPoolState(d, "Error")
    [] OTHER -> d

\* The end of a transfer is dropped if the server is overdue.
ReactOnStateChange(w, success, alive) ==
  CASE ~alive -> [w EXCEPT !.stalled = TRUE]
    [] alive /\ success -> [w EXCEPT !.command.st = "WaitingForResponse", !.command.notBusy = 0]
    [] alive /\ ~success -> [w EXCEPT !.command.st = "Aborted"]

-----------------------------------------------------------------------------
(* Peers that set values.                                                  *)

SourceOf(w, what) == {n \in DOMAIN w.sources : w.sources[n].what = what}

FirstOf(w, peer) ==
  {n \in DOMAIN w.sources : /\ w.sources[n].peer = peer
                            /\ \A m \in 1..n-1 : w.sources[m].peer # peer}

HasSource(w, peer) == FirstOf(w, peer) # {}

AddSource(w, what, peer) ==
  [w EXCEPT !.sources = Append(@,
              [what |-> what, peer |-> peer, age |-> 0, silent |-> 0, alone |-> ~HasSource(w, peer)]),
            !.sourceTask = TRUE]

\* A defect: the time of the last value is not kept.
UpdateTimestamp_None(w, peer) == w

\* Only the first entry of the peer is marked.
UpdateTimestamp(w, peer) ==
  [w EXCEPT !.sources = [n \in DOMAIN w.sources |->
     IF n \in FirstOf(w, peer) THEN [w.sources[n] EXCEPT !.age = 0] ELSE w.sources[n]]]

Expired(w) == {n \in DOMAIN w.sources : w.sources[n].age > SourceLost}

\* recalcTimeEventTrigger(): the task is registered while there are sources.
KeepSources(w, kept) == [w EXCEPT !.sources = kept, !.sourceTask = (kept # <<>>)]

SourceTimeEvent(w) ==
  KeepSources(w, Selected(w.sources, {e \in Range(w.sources) : e.age <= SourceLost}))

RemoveSource(w, what, peer) ==
  KeepSources(w, Selected(w.sources, {e \in Range(w.sources) : e.what # what \/ e.peer # peer}))

DropPeer(w, peer) ==
  KeepSources(w, Selected(w.sources, {e \in Range(w.sources) : e.peer # peer}))
=============================================================================
