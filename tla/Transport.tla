------------------------------ MODULE Transport ------------------------------
(***************************************************************************)
(* One sender (MultiSend_c with one pair) and one receiver (MultiReceive_c *)
(* with one client that keeps no stream) joined by the bus.  What one puts *)
(* on the bus the other gets in the same order, unless it is lost.  All    *)
(* transfers of a scenario are of one type and one PGN, so that nothing in *)
(* the messages tells a late answer from one for the current transfer.     *)
(***************************************************************************)
EXTENDS SendStream, RecvStream

CONSTANTS
  Scenario,      \* what is sent and what goes wrong: see below
  PkgCount,      \* packets a stream may send in one timeEvent()
  Allowed,       \* packets sendCurrentCts may allow in a burst
  MaxTransfers,  \* bound: transfers in any scenario
  NoStream       \* no stream at this end

\* Prompt is the timing ISO 11783-3 rests its timeouts on: messages and due tasks are
\* handled before the next unit of time.  Without it they may be late by any time.
Scenarios ==
  [type      : {"IsoTP", "IsoETP", "IsoTPbroadcast"},  \* men_msgType of all transfers
   size      : SUBSET Nat,       \* their sizes in packets
   prompt    : BOOLEAN,
   mayRefuse : BOOLEAN,          \* the client may refuse a stream
   transfers : 0..MaxTransfers,  \* bound: transfers
   losses    : Nat,              \* bound: messages lost
   aborts    : Nat]              \* bound: streams the application aborts

ASSUME TransportAssumption ==
  /\ MaxTransfers \in Nat
  /\ Scenario \subseteq Scenarios
  /\ \A c \in Scenario : c.size \subseteq 2..MaxPackets(c.type)
  /\ PkgCount \subseteq Nat \ {0} /\ Allowed \subseteq 1..255

VARIABLES
  scenario,   \* that of this behaviour
  sending,    \* the latest SendStream_c, or NoStream
  outcome,    \* its success and that of the streams before it
  receiving,  \* the Stream_c being received, or NoStream
  got,        \* the messages handed to the client, as their pieces of data
  toReceiver, \* on the bus from sender to receiver
  toSender,   \* and back
  losses,     \* messages lost so far
  aborts      \* streams the application aborted so far

senderVars == <<sending, outcome>>
receiverVars == <<receiving, got>>
faults == <<losses, aborts>>
vars == <<scenario, senderVars, receiverVars, toReceiver, toSender, faults>>

Type == scenario.type
Broadcast == Type = "IsoTPbroadcast"
StreamTypeOf == IF Type = "IsoETP" THEN "StreamETP" ELSE "StreamTP"

Current == Len(outcome)
Sending == Current > 0 /\ ~Finished(sending)

\* A message on the bus: the data of packet at of the current transfer is the pair of
\* them; t is known to nobody.
OnBus(ms, t) == [i \in 1..Len(ms) |-> [msg |-> ms[i], payload |-> <<t, ms[i].at>>]]

\* An answer of the receiver.
Answer(kind, n, at) == <<[msg |-> Msg(kind, n, at), payload |-> <<0, 0>>]>>
Refusal == IF Broadcast THEN <<>> ELSE Answer("ConnAbort", 0, 0)
Cts(r) == Answer("CTS", r.remaining, r.next)

Init ==
  /\ scenario \in Scenario
  /\ sending = NoStream /\ outcome = <<>>
  /\ receiving = NoStream /\ got = <<>>
  /\ toReceiver = <<>> /\ toSender = <<>>
  /\ losses = 0 /\ aborts = 0

-----------------------------------------------------------------------------
(* The sender                                                              *)

SenderGoesOn(s) ==
  /\ sending' = s
  /\ outcome' = [outcome EXCEPT ![Current] = s.success]

Begin(size) ==
  /\ ~Sending
  /\ Current < scenario.transfers
  /\ sending' = NewStream(Type, size, FALSE)
  /\ outcome' = Append(outcome, "Running")
  /\ toReceiver' = toReceiver \o OnBus(InitMessages(Type, size), Current + 1)
  /\ UNCHANGED <<receiverVars, toSender, faults>>

SenderTimeEvent(pkgCnt) ==
  /\ Sending /\ TimeHasCome(sending)
  /\ SenderGoesOn(TimeEvent(sending, pkgCnt))
  /\ toReceiver' = toReceiver \o OnBus(TimeEventMessages(sending, pkgCnt), Current)
  /\ UNCHANGED <<receiverVars, toSender, faults>>

SenderReceives ==
  /\ toSender # <<>>
  /\ toSender' = Tail(toSender)
  /\ LET m == Head(toSender).msg
     IN  IF Sending
         THEN /\ SenderGoesOn(ProcessMsg(sending, m))
              /\ toReceiver' = toReceiver \o OnBus(ProcessMsgMessages(sending, m), Current)
         ELSE UNCHANGED <<senderVars, toReceiver>>
  /\ UNCHANGED <<receiverVars, faults>>

\* abortSend of the application
ApplicationAborts ==
  /\ aborts < scenario.aborts /\ aborts' = aborts + 1
  /\ Sending
  /\ SenderGoesOn(AbortSend(sending))
  /\ toReceiver' = toReceiver \o OnBus(AbortMessages(sending), Current)
  /\ UNCHANGED <<receiverVars, toSender, losses>>

-----------------------------------------------------------------------------
(* The receiver                                                            *)

Removes(answer) ==
  /\ receiving' = NoStream
  /\ toSender' = toSender \o answer
  /\ UNCHANGED got

Ignores == UNCHANGED <<receiverVars, toSender>>

SendsCts(r, allowed) ==
  /\ receiving' = ExpectBurst(r, allowed)
  /\ toSender' = toSender \o Cts(ExpectBurst(r, allowed))
  /\ UNCHANGED got

\* A defect of the RTS branch: a running stream is taken for the new one.
OnRts_Continues(size, accept, allowed) ==
  SendsCts(IF receiving # NoStream THEN receiving
           ELSE NewRecvStream(StreamTypeOf, FALSE, size, 255), allowed)

OnRts(size, accept, allowed) ==
  IF receiving # NoStream \/ ~accept THEN Removes(Refusal)
  ELSE SendsCts(NewRecvStream(StreamTypeOf, FALSE, size, 255), allowed)

OnBam(size) ==
  /\ receiving' = NewRecvStream(StreamTypeOf, TRUE, size, 255)
  /\ UNCHANGED <<got, toSender>>

OnDpo(n, offset) ==
  IF receiving # NoStream /\ AcceptsDpo(receiving, n)
  THEN receiving' = WithDpo(receiving, n, offset) /\ UNCHANGED <<got, toSender>>
  ELSE Removes(Refusal)

OnData(n, payload) ==
  CASE receiving = NoStream -> Ignores
    [] receiving # NoStream /\ ~AcceptsData(receiving, n) -> Removes(Refusal)
    [] OTHER ->
         LET r == WithData(receiving, payload)
         IN  IF r.state = "StreamFinished"
             THEN /\ receiving' = NoStream
                  /\ got' = Append(got, r.data)
                  /\ toSender' = IF Broadcast THEN toSender
                                 ELSE toSender \o Answer("EndofMsgACK", r.total, 0)
             ELSE receiving' = r /\ UNCHANGED <<got, toSender>>

ReceiverReceives(accept, allowed) ==
  /\ toReceiver # <<>>
  /\ toReceiver' = Tail(toReceiver)
  /\ LET m == Head(toReceiver).msg
     IN  CASE m.kind = "RTS" -> OnRts(m.n, accept, allowed)
           [] m.kind = "BAM" -> OnBam(m.n)
           [] m.kind = "DPO" -> OnDpo(m.n, m.at)
           [] m.kind = "DT" -> OnData(m.n, Head(toReceiver).payload)
           [] m.kind = "ConnAbort" -> Removes(<<>>)
  /\ UNCHANGED <<senderVars, faults>>

ReceiverTimeEvent(allowed) ==
  /\ receiving # NoStream
  /\ \/ ReadyToSendCts(receiving) /\ SendsCts(receiving, allowed)
     \/ TimedOut(receiving) /\ Removes(Refusal)
  /\ UNCHANGED <<senderVars, toReceiver, faults>>

-----------------------------------------------------------------------------
(* The bus and the clock                                                   *)

LoseToReceiver ==
  /\ losses < scenario.losses /\ losses' = losses + 1
  /\ toReceiver # <<>> /\ toReceiver' = Tail(toReceiver)
  /\ UNCHANGED <<senderVars, receiverVars, toSender, aborts>>

LoseToSender ==
  /\ losses < scenario.losses /\ losses' = losses + 1
  /\ toSender # <<>> /\ toSender' = Tail(toSender)
  /\ UNCHANGED <<senderVars, receiverVars, toReceiver, aborts>>

SomethingDue ==
  \/ toReceiver # <<>> \/ toSender # <<>>
  \/ Sending /\ TimeHasCome(sending)
  \/ receiving # NoStream /\ (ReadyToSendCts(receiving) \/ TimedOut(receiving))

Tick ==
  /\ scenario.prompt => ~SomethingDue
  /\ \/ Sending /\ sending.wait > 0
     \/ receiving # NoStream /\ receiving.wait >= 0
  /\ sending' = IF Sending THEN Elapse(sending) ELSE sending
  /\ receiving' = IF receiving = NoStream THEN NoStream ELSE RecvElapse(receiving)
  /\ UNCHANGED <<outcome, got, toReceiver, toSender, faults>>

-----------------------------------------------------------------------------
ReceiverStep ==
  \E allowed \in Allowed :
    \/ \E accept \in (IF scenario.mayRefuse THEN BOOLEAN ELSE {TRUE}) : ReceiverReceives(accept, allowed)
    \/ ReceiverTimeEvent(allowed)

SenderStep == SenderReceives \/ \E n \in PkgCount : SenderTimeEvent(n)

Step ==
  \/ \E size \in scenario.size : Begin(size)
  \/ SenderStep
  \/ ApplicationAborts
  \/ ReceiverStep
  \/ LoseToReceiver \/ LoseToSender
  \/ Tick

Next == Step /\ UNCHANGED scenario

Spec == Init /\ [][Next]_vars

\* The two schedulers and the clock go on.
FairSpec ==
  /\ Spec
  /\ WF_vars(SenderReceives /\ UNCHANGED scenario)
  /\ WF_vars((\E n \in PkgCount : SenderTimeEvent(n)) /\ UNCHANGED scenario)
  /\ WF_vars(ReceiverStep /\ UNCHANGED scenario)
  /\ WF_vars(Tick /\ UNCHANGED scenario)

-----------------------------------------------------------------------------
\* The transfer a message handed over belongs to, if its pieces are of one.
TransferOf(data) == data[1][1]
Delivered == [k \in 1..Len(got) |-> TransferOf(got[k])]

\* Every message handed to the client is one message sent: its pieces in order, none
\* missing, none twice, none of another transfer, although data packets carry neither
\* PGN nor transfer (handleDataPacket, setDataPageOffset, processMsg's CTS branch).
DeliveredIntact ==
  \A k \in 1..Len(got) : \A i \in 1..Len(got[k]) : got[k][i] = <<TransferOf(got[k]), i>>

\* The promise of the protocol.
PromisesKept == INSTANCE Delivery WITH
  acknowledged <- ~Broadcast, delivered <- Delivered
KeepsPromises == PromisesKept!Spec

\* Unless something is lost, or one of the users wants it, nothing is aborted: the
\* two ends agree on every CTS and offset and their timeouts fit each other, with
\* every split of a message into bursts.
NoAbortWithoutFault ==
  losses = 0 /\ aborts = 0 /\ ~scenario.mayRefuse /\ scenario.prompt => \A t \in 1..Current : outcome[t] # "SendAborted"

\* Both ends come to rest: no stream stays open at either of them.
BothEndsSettle == <>[](~Sending /\ receiving = NoStream)
=============================================================================
