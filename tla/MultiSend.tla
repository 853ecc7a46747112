------------------------------ MODULE MultiSend ------------------------------
(***************************************************************************)
(* MultiSend_c: the list of running transmissions, one scheduler task that *)
(* drives them all, and peers that may answer anything at any time.        *)
(*                                                                         *)
(* timeEvent() is the sequence EnterTimeEvent, VisitStream*,               *)
(* LeaveTimeEvent.  A handler that learns of the end of its stream may     *)
(* start the next one from inside the notification, while the list is      *)
(* being iterated; again tells whether it does.  The clock stands still    *)
(* during timeEvent().                                                     *)
(***************************************************************************)
EXTENDS SendStream, SequencesExt

CONSTANTS
  Pair,          \* the (sender, receiver) pairs of ISONAMEs
  HandlerOf,     \* the event handler that sends over a pair
  Transfer,      \* what may be sent: records of type, size and streamer
  Scenario,      \* what applications and peers do, and the bounds: see below
  PkgCount,      \* free places of the CAN send buffer beyond the reserve
  Idle,          \* 5000 ms, the period when nothing runs
  BufferRetry,   \* 5 ms, the wait for room in the send buffer
  MaxStreams     \* bound: streams started in any scenario

\* One combination of what applications send and peers answer.
Scenarios ==
  [takes    : [Pair -> SUBSET Transfer],  \* the transfers a pair is used for
   left     : SUBSET (0..255),            \* packet counts the peers put in a CTS
   nr       : SUBSET Nat,                 \* packet numbers the peers put in a CTS
   streams  : Nat,                        \* bound: streams started
   messages : Nat]                        \* bound: messages received

ASSUME MultiSendAssumption ==
  /\ Transfer \subseteq [type : MsgType, size : Nat \ {0}, streamer : BOOLEAN]
  /\ \A t \in Transfer : t.size \in 2..MaxPackets(t.type)
  /\ Scenario \subseteq Scenarios
  /\ \A c \in Scenario : c.streams <= MaxStreams
  /\ PkgCount \subseteq Int
  /\ Idle \in Nat \ {0} /\ BufferRetry \in Nat \ {0}
  /\ MaxStreams \in Nat

Id == 1..MaxStreams

VARIABLES
  scenario,   \* what happens in this behaviour
  list,       \* mlist_sendStream, as identities in list order
  stream,     \* the streams ever started, by identity
  pair,       \* the pair each of them belongs to
  born,       \* how many streams were started
  taskWait,   \* time left until the task's next trigger
  loop,       \* iteration of timeEvent(): position in the list, 0 outside
  pkgCnt,     \* packets every stream may send in this timeEvent()
  nextWait,   \* i32_nextRetriggerNeeded, relative; -1 when nothing needs it
  wire,       \* the messages the last step put on the bus, with the stream they are from
  announced,  \* offset of the last DPO each stream sent
  told,       \* final notifications each stream's handler got
  received    \* messages received so far

listVars == <<list, stream, pair, born, told>>
loopVars == <<loop, pkgCnt, nextWait>>
vars == <<scenario, listVars, loopVars, taskWait, wire, announced, received>>

InList == Range(list)
Running == {i \in InList : ~Finished(stream[i])}
RunningOn(p) == {i \in Running : pair[i] = p}

\* The messages ms, put on the bus by stream i.
From(i, ms) == {[from |-> i, msg |-> m] : m \in Range(ms)}

Silent == wire' = {} /\ announced' = announced
Puts(W) ==
  /\ wire' = W
  /\ announced' = [i \in Id |->
       IF \E w \in W : w.from = i /\ w.msg.kind = "DPO"
       THEN (CHOOSE w \in W : w.from = i /\ w.msg.kind = "DPO").msg.at
       ELSE announced[i]]

Init ==
  /\ scenario \in Scenario
  /\ list = <<>> /\ stream = <<>> /\ pair = <<>> /\ born = 0 /\ told = <<>>
  /\ loop = 0 /\ pkgCnt = 0 /\ nextWait = -1
  /\ taskWait = 0
  /\ wire = {} /\ announced = [i \in Id |-> 0]
  /\ received = 0

-----------------------------------------------------------------------------
(* Starting a stream.                                                      *)

\* A defect of addSendStream: no search for a running stream.
MayStart_Always(p, running) == TRUE

\* addSendStream gives a stream only if none runs on the pair.
MayStart(p, running) == \A i \in running : pair[i] # p

\* stream, pair and list after changes newStream of the streams, with t started
\* on p at the end of the list q.
Started(newStream, newTold, q, p, t) ==
  /\ born < scenario.streams
  /\ born' = born + 1
  /\ stream' = Append(newStream, NewStream(t.type, t.size, t.streamer))
  /\ pair' = Append(pair, p)
  /\ told' = Append(newTold, 0)
  /\ list' = Append(q, born + 1)

Kept(newStream, newTold, q) ==
  /\ stream' = newStream
  /\ told' = newTold
  /\ list' = q
  /\ UNCHANGED <<born, pair>>

\* A defect of calcAndSetNextTriggerTime: only the newest stream is looked at.
EarliestWait_NewestOnly(q, newStream) ==
  IF q = <<>> THEN Idle ELSE newStream[q[Len(q)]].wait

\* calcAndSetNextTriggerTime: the earliest trigger time of the streams of q.
EarliestWait(q, newStream) ==
  IF q = <<>> THEN Idle ELSE Min({newStream[q[k]].wait : k \in 1..Len(q)})

Send(p, t) ==
  /\ loop = 0
  /\ t \in scenario.takes[p]
  /\ MayStart(p, Running)
  /\ Started(stream, told, list, p, t)
  /\ taskWait' = EarliestWait(list', stream')
  /\ Puts(From(born + 1, InitMessages(t.type, t.size)))
  /\ UNCHANGED <<loopVars, received>>

\* The handler of stream i, told of its end, starts the next one on the same pair
\* before the handler of processMsg, timeEvent or abortSend goes on.
StartedAgain(i, newStream, newTold, q, W) ==
  \E t \in scenario.takes[pair[i]] :
    /\ MayStart(pair[i], Running \ {i})
    /\ Started(newStream, newTold, q, pair[i], t)
    /\ Puts(W \union From(born + 1, InitMessages(t.type, t.size)))

-----------------------------------------------------------------------------
(* A message of the peer of pair p for a stream running on it.             *)

EndsNow(old, new) == ~Finished(old) /\ Finished(new)
TellIfEnded(i, new) == [told EXCEPT ![i] = IF EndsNow(stream[i], new) THEN @ + 1 ELSE @]

Receive(p, m, again) ==
  /\ loop = 0
  /\ received < scenario.messages
  /\ received' = received + 1
  /\ \E i \in RunningOn(p) :
       LET new == ProcessMsg(stream[i], m)
           streams == [stream EXCEPT ![i] = new]
       IN  /\ again => EndsNow(stream[i], new)
           /\ LET W == From(i, ProcessMsgMessages(stream[i], m))
              IN  IF again
                  THEN StartedAgain(i, streams, TellIfEnded(i, new), list, W)
                  ELSE Kept(streams, TellIfEnded(i, new), list) /\ Puts(W)
  /\ taskWait' = EarliestWait(list', stream')
  /\ UNCHANGED loopVars

ReceiveCts(p, left, nr, again) == Receive(p, Msg("CTS", left, nr), again)
ReceiveEndofMsgACK(p, again) == Receive(p, Msg("EndofMsgACK", 0, 0), again)
ReceiveConnAbort(p, again) == Receive(p, Msg("ConnAbort", 0, 0), again)

-----------------------------------------------------------------------------
(* The user aborts.  timeEvent() removes the stream when its time comes.   *)

\* abortSend(sender, receiver)
AbortSendOfPair(p) ==
  /\ loop = 0
  /\ \E i \in RunningOn(p) :
       /\ Kept([stream EXCEPT ![i] = AbortSend(@)], [told EXCEPT ![i] = @ + 1], list)
       /\ Puts(From(i, AbortMessages(stream[i])))
  /\ UNCHANGED <<loopVars, taskWait, received>>

\* The streams abortSend(handler) aborts.
Aborted(h) == {i \in Running : HandlerOf[pair[i]] = h}

\* abortSend(handler) aborts the running streams of the handler, and none that the
\* handler starts while it is told.
AbortSendOfHandler(h, again) ==
  /\ loop = 0
  /\ LET hit == Aborted(h)
         streams == [i \in DOMAIN stream |->
                       IF i \in hit THEN AbortSend(stream[i]) ELSE stream[i]]
         tolds == [i \in DOMAIN told |-> IF i \in hit THEN told[i] + 1 ELSE told[i]]
         W == UNION {From(i, AbortMessages(stream[i])) : i \in hit}
     IN  /\ hit # {}
         /\ IF again
            THEN \E i \in hit : StartedAgain(i, streams, tolds, list, W)
            ELSE Kept(streams, tolds, list) /\ Puts(W)
         /\ taskWait' = IF again THEN EarliestWait(list', stream') ELSE taskWait
  /\ UNCHANGED <<loopVars, received>>

-----------------------------------------------------------------------------
(* timeEvent()                                                             *)

BurstStreams == {k \in 1..Len(list) : IsBurstStream(stream[list[k]])}

\* The send buffer is shared among the streams that send in bursts.
Share(free) ==
  LET n == Cardinality(BurstStreams)
  IN  IF n = 0 \/ free \div n = 0 THEN 1 ELSE free \div n

EnterTimeEvent(free) ==
  /\ loop = 0
  /\ taskWait = 0
  /\ CASE list = <<>> -> taskWait' = Idle /\ UNCHANGED loopVars
       [] list # <<>> /\ free < 0 -> taskWait' = BufferRetry /\ UNCHANGED loopVars
       [] OTHER -> /\ loop' = 1 /\ pkgCnt' = Share(free) /\ nextWait' = -1
                   /\ UNCHANGED taskWait
  /\ Silent
  /\ UNCHANGED <<listVars, received>>

\* The stream at the position of the iterator is left alone.
PassStream ==
  /\ loop \in 1..Len(list)
  /\ LET s == stream[list[loop]]
     IN  /\ ~Finished(s) /\ ~TimeHasCome(s)
         /\ nextWait' = IF nextWait = -1 \/ s.wait < nextWait THEN s.wait ELSE nextWait
  /\ loop' = loop + 1
  /\ Silent
  /\ UNCHANGED <<listVars, pkgCnt, taskWait, received>>

\* It was finished before and is erased.
EraseFinished ==
  /\ loop \in 1..Len(list)
  /\ Finished(stream[list[loop]])
  /\ list' = RemoveAt(list, loop)
  /\ Silent
  /\ UNCHANGED <<stream, pair, born, told, loopVars, taskWait, received>>

\* The list after the visit of the stream at the iterator.
AfterVisit(ended) == IF ended THEN RemoveAt(list, loop) ELSE list

\* Its time has come.
VisitStream(again) ==
  /\ loop \in 1..Len(list)
  /\ LET i == list[loop]
         new == TimeEvent(stream[i], pkgCnt)
         ended == Finished(new)
         streams == [stream EXCEPT ![i] = new]
     IN  /\ ~Finished(stream[i]) /\ TimeHasCome(stream[i])
         /\ again => ended
         /\ LET W == From(i, TimeEventMessages(stream[i], pkgCnt))
            IN  IF again
                THEN /\ StartedAgain(i, streams, TellIfEnded(i, new), AfterVisit(ended), W)
                     /\ taskWait' = EarliestWait(list', stream')
                ELSE /\ Kept(streams, TellIfEnded(i, new), AfterVisit(ended)) /\ Puts(W)
                     /\ UNCHANGED taskWait
         /\ IF ended
            THEN UNCHANGED <<loop, nextWait>>
            ELSE /\ loop' = loop + 1
                 /\ nextWait' = IF nextWait = -1 \/ new.wait < nextWait THEN new.wait
                                ELSE nextWait
  /\ UNCHANGED <<pkgCnt, received>>

LeaveTimeEvent ==
  /\ loop > Len(list)
  /\ loop' = 0
  /\ taskWait' = IF nextWait > -1 THEN nextWait ELSE Idle
  /\ nextWait' = -1
  /\ pkgCnt' = 0
  /\ Silent
  /\ UNCHANGED <<listVars, received>>

\* The clock; the task may be called late.
Tick ==
  /\ loop = 0
  /\ taskWait > 0 \/ \E i \in InList : stream[i].wait > 0
  /\ taskWait' = IF taskWait > 0 THEN taskWait - 1 ELSE 0
  /\ stream' = [i \in DOMAIN stream |-> IF i \in InList THEN Elapse(stream[i]) ELSE stream[i]]
  /\ Silent
  /\ UNCHANGED <<list, pair, born, told, loopVars, received>>

TimeEventGoesOn ==
  \/ PassStream
  \/ EraseFinished
  \/ \E again \in BOOLEAN : VisitStream(again)
  \/ LeaveTimeEvent

TimeEventStep == (\E free \in PkgCount : EnterTimeEvent(free)) \/ TimeEventGoesOn

Step ==
  \/ \E p \in Pair, t \in Transfer : Send(p, t)
  \/ \E p \in Pair, left \in scenario.left, nr \in scenario.nr, again \in BOOLEAN :
       ReceiveCts(p, left, nr, again)
  \/ \E p \in Pair, again \in BOOLEAN : ReceiveEndofMsgACK(p, again)
  \/ \E p \in Pair, again \in BOOLEAN : ReceiveConnAbort(p, again)
  \/ \E p \in Pair : AbortSendOfPair(p)
  \/ \E h \in {HandlerOf[p] : p \in Pair}, again \in BOOLEAN : AbortSendOfHandler(h, again)
  \/ TimeEventStep
  \/ Tick

Next == Step /\ UNCHANGED scenario

Spec == Init /\ [][Next]_vars

\* The scheduler keeps calling the task, the clock runs, and the send buffer does
\* not stay full for ever.
FairSpec ==
  /\ Spec
  /\ WF_vars(TimeEventGoesOn /\ UNCHANGED scenario)
  /\ SF_vars((\E free \in PkgCount \intersect Nat : EnterTimeEvent(free)) /\ UNCHANGED scenario)
  /\ WF_vars(Tick /\ UNCHANGED scenario)

-----------------------------------------------------------------------------
TypeOK ==
  /\ born \in 0..MaxStreams
  /\ stream \in [1..born -> Stream]
  /\ pair \in [1..born -> Pair]
  /\ told \in [1..born -> Nat]
  /\ list \in Seq(1..born)
  /\ taskWait \in Nat
  /\ loop \in Nat /\ pkgCnt \in Nat /\ nextWait \in Nat \union {-1}
  /\ announced \in [Id -> Nat]
  /\ \A w \in wire : w.from \in 1..born /\ w.msg \in Message
  /\ received \in Nat

\* getRunningStream finds at most one stream for a message of the peer: two running
\* streams of a pair would both be fed by the same CTS (addSendStream), although
\* handlers start the next stream while the list is iterated.
OneRunningPerPair ==
  \A i, j \in Running : pair[i] = pair[j] => i = j

\* Every packet carries the piece of data its number stands for, whatever the peer
\* requested before: resumed and repeated bursts, pauses, streamers that must be
\* rewound (prepareSendMsg, timeEvent and the CTS part of processMsg).
PacketsCarryTheirData ==
  \A w \in wire : w.msg.kind = "DT" =>
    LET s == stream[w.from]
    IN  /\ w.msg.at \in 1..s.size
        /\ w.msg.at = CASE s.type = "IsoETP" -> announced[w.from] + w.msg.n
                        [] s.type = "NmeaFastPacket" -> w.msg.n + 1
                        [] OTHER -> w.msg.n

\* The handler of every stream is told once, when it ends (notifySender); a stream
\* that is not over is in the list, once, for timeEvent() to drive.
ToldOnceAndDriven ==
  /\ \A i \in 1..born : told[i] = IF Finished(stream[i]) THEN 1 ELSE 0
  /\ \A i \in 1..born : ~Finished(stream[i]) => i \in InList
  /\ \A k, l \in 1..Len(list) : list[k] = list[l] => k = l

\* Outside timeEvent() the task wakes up no later than its earliest stream needs,
\* unless it waits for room in the send buffer (calcAndSetNextTriggerTime and
\* timeEvent compute that time independently of each other).
TaskWakesInTime ==
  loop = 0 => \A i \in InList : taskWait <= stream[i].wait \/ taskWait <= BufferRetry

\* Every stream ends, and leaves the list, if its peer falls silent at last.
StreamsEnd ==
  \A i \in Id : born >= i ~> (born >= i /\ told[i] = 1 /\ i \notin InList)

\* The list of streams is in order whenever a handler is called from within its
\* iteration: starts and aborts of the application meet every state of the streams
\* (addSendStream, notifySender, abortSend).
StreamsConsistent == TypeOK /\ OneRunningPerPair /\ ToldOnceAndDriven
=============================================================================
