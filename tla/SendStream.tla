----------------------------- MODULE SendStream -----------------------------
(***************************************************************************)
(* SendStream_c: one multi-packet transmission, as a record and the        *)
(* handlers that take it from state to state.  Every handler is an         *)
(* operator on the record; what it puts on the bus is a second operator of *)
(* the same arguments, a sequence of messages.                             *)
(*                                                                         *)
(* Data is counted in packets of 7 bytes: the comparison of byte positions *)
(* offset + (left - 1) * 7 >= size of processMsg holds exactly when the    *)
(* packet positions compare so, because offset is a multiple of 7.  Times  *)
(* are the time left until mi32_timestampToWaitTo, 0 when it has come.     *)
(***************************************************************************)
EXTENDS Integers, Sequences

CONSTANTS
  AwaitTime,     \* 1250 ms, the wait for a CTS or the end-of-message acknowledge
  PauseTime,     \* 1050 ms, the wait after a CTS for no packets
  BamGap,        \* 50 ms between the packets of a broadcast
  AbortLinger,   \* 1500 ms until a stream the peer aborted is removed
  Slack          \* the 1 ms of switchToState, also the shortest burst pause

ASSUME SendStreamAssumption ==
  /\ AwaitTime \in Nat \ {0}
  /\ PauseTime \in Nat \ {0}
  /\ BamGap \in Nat \ {0}
  /\ AbortLinger \in Nat \ {0}
  /\ Slack \in Nat \ {0}

MsgType == {"IsoTP", "IsoETP", "IsoTPbroadcast", "NmeaFastPacket"}
SendState == {"AwaitCts", "SendData", "SendPauseTillCts", "AwaitEndofmsgack"}
SendSuccess == {"Running", "SendSuccess", "SendAborted"}

\* The longest message of a type, in packets: 8-bit packet numbers, and 24-bit
\* ones for the extended protocol; 32 frames of a fast packet, the first in init.
MaxPackets(type) ==
  CASE type = "IsoETP" -> 16777215
    [] type = "NmeaFastPacket" -> 32
    [] OTHER -> 255

Stream == [
  type     : MsgType,      \* men_msgType
  size     : Nat,          \* mui32_dataSize
  streamer : BOOLEAN,      \* data comes from mpc_mss, not from a buffer
  state    : SendState,    \* men_sendState
  success  : SendSuccess,  \* men_sendSuccess
  offset   : Nat,          \* mui32_dataBufferOffset
  lastCts  : Nat,          \* mui32_packetNrRequestedInLastCts
  left     : 0..255,       \* mui8_packetsLeftToSendInBurst
  sent     : 0..255,       \* mui8_packetsSentInThisBurst
  pos      : Nat,          \* position of the streamer
  saved    : Nat,          \* position the streamer was told to save
  wait     : Nat]          \* mi32_timestampToWaitTo, from now

\* A message: what it is, a count or sequence number, a packet position.
Message == [kind : {"RTS", "BAM", "CTS", "DPO", "DT", "EndofMsgACK", "ConnAbort"},
            n : Nat, at : Nat]
Msg(kind, n, at) == [kind |-> kind, n |-> n, at |-> at]

Finished(s) == s.success # "Running"
TargetSpecific(s) == s.type \in {"IsoTP", "IsoETP"}
IsBurstStream(s) == s.type # "IsoTPbroadcast"
TimeHasCome(s) == s.wait = 0

SwitchToState(s, state, time) ==
  [s EXCEPT !.state = state, !.wait = IF time > 0 THEN time + Slack ELSE 0]

-----------------------------------------------------------------------------
(* init: the stream and its first message.  A fast packet sends its first  *)
(* frame at once.                                                          *)

NewStream(type, size, streamer) ==
  LET started(state, time) ==
        SwitchToState(
          [type |-> type, size |-> size, streamer |-> streamer,
           state |-> state, success |-> "Running",
           offset |-> 0, lastCts |-> 1, left |-> 0, sent |-> 0,
           pos |-> 0, saved |-> 0, wait |-> 0], state, time)
  IN  CASE type = "IsoTPbroadcast" ->
             [started("SendData", BamGap) EXCEPT !.left = size % 256]
        [] type = "NmeaFastPacket" ->
             [started("SendData", 0) EXCEPT
               !.offset = 1, !.pos = IF streamer THEN 1 ELSE 0, !.lastCts = 0]
        [] OTHER -> started("AwaitCts", AwaitTime)

InitMessages(type, size) ==
  CASE type = "IsoTPbroadcast" -> <<Msg("BAM", size, 0)>>
    [] type = "NmeaFastPacket" -> <<Msg("DT", 0, 1)>>
    [] OTHER -> <<Msg("RTS", size, 0)>>

-----------------------------------------------------------------------------
(* abortSend                                                               *)

AbortSend(s) == [s EXCEPT !.success = "SendAborted"]
AbortMessages(s) == IF TargetSpecific(s) THEN <<Msg("ConnAbort", 0, 0)>> ELSE <<>>

-----------------------------------------------------------------------------
(* timeEvent while data is sent: packets until the data, the burst or the  *)
(* number allowed in this call ends.                                       *)

PacketsNow(s, pkgCnt) ==
  LET allowed == IF s.type = "IsoTPbroadcast" THEN 1 ELSE pkgCnt
      rest == s.size - s.offset
      whole == IF allowed < rest THEN allowed ELSE rest
  IN  IF s.type # "NmeaFastPacket" /\ s.left < whole THEN s.left ELSE whole

\* The i-th packet from here: its sequence number and the piece of data in it.
Packet(s, i) ==
  Msg("DT",
      (s.sent + i + (IF s.type \in {"IsoETP", "NmeaFastPacket"} THEN 0 ELSE s.lastCts - 1))
        % 256,
      (IF s.streamer THEN s.pos ELSE s.offset) + i)

DataMessages(s, pkgCnt) == [i \in 1..PacketsNow(s, pkgCnt) |-> Packet(s, i)]

SendDataEvent(s, pkgCnt) ==
  LET n == PacketsNow(s, pkgCnt)
      t == [s EXCEPT !.left = (@ - n) % 256, !.sent = (@ + n) % 256,
                     !.offset = @ + n, !.pos = IF s.streamer THEN @ + n ELSE @]
  IN  CASE t.offset >= t.size ->
             IF TargetSpecific(t) THEN SwitchToState(t, "AwaitEndofmsgack", AwaitTime)
             ELSE [t EXCEPT !.success = "SendSuccess"]
        [] t.offset < t.size /\ t.left = 0 /\ t.type # "NmeaFastPacket" ->
             SwitchToState(t, "AwaitCts", AwaitTime)
        [] OTHER ->
             [t EXCEPT !.wait = CASE t.type = "IsoTPbroadcast" -> BamGap
                                  [] t.type = "NmeaFastPacket" -> 0
                                  [] OTHER -> Slack]

\* A defect: a CTS or acknowledge is awaited for ever.
TimeEvent_WaitsOn(s, pkgCnt) == IF s.state = "SendData" THEN SendDataEvent(s, pkgCnt) ELSE s

TimeEvent(s, pkgCnt) ==
  CASE s.state = "SendData" -> SendDataEvent(s, pkgCnt)
    [] s.state # "SendData" /\ TargetSpecific(s) -> AbortSend(s)
    [] OTHER -> s

TimeEventMessages(s, pkgCnt) ==
  IF s.state = "SendData" THEN DataMessages(s, pkgCnt) ELSE AbortMessages(s)

-----------------------------------------------------------------------------
(* processMsg: CTS for left packets from packet nr on.                     *)

InvalidCts(nr) == nr = 0
\* A defect: one packet too many is refused.
BeyondData_OffByOne(s, left, nr) == nr - 1 + left >= s.size
BeyondData(s, left, nr) == nr - 1 + left - 1 >= s.size
NextPacket(s) == s.lastCts + s.sent
InLastBurst(s, nr) == s.lastCts <= nr /\ nr < NextPacket(s)

\* A streamer can go on, or back into the burst it saved the start of.
StreamerCanDeliver(s, nr) == s.streamer => nr = NextPacket(s) \/ InLastBurst(s, nr)

\* A defect of the rewind: back to the start of the last burst, and not forward.
RewoundTo_BurstStart(s, nr) == IF nr = NextPacket(s) THEN s.pos ELSE s.saved

\* Where the streamer stands after the rewind to its saved position and the
\* fast-forward to packet nr.
RewoundTo(s, nr) ==
  IF nr = NextPacket(s) THEN s.pos ELSE s.saved + (nr - s.lastCts)

CtsRejected(s, left, nr) ==
  \/ InvalidCts(nr)
  \/ left > 0 /\ (BeyondData(s, left, nr) \/ ~StreamerCanDeliver(s, nr))

OnCts(s, left, nr) ==
  LET t == [s EXCEPT !.left = left, !.offset = IF InvalidCts(nr) THEN @ ELSE nr - 1]
  IN  CASE CtsRejected(s, left, nr) -> AbortSend(t)
        [] ~CtsRejected(s, left, nr) /\ left = 0 ->
             SwitchToState(t, "SendPauseTillCts", PauseTime)
        [] OTHER ->
             SwitchToState(
               [t EXCEPT !.pos = IF s.streamer THEN RewoundTo(s, nr) ELSE @,
                         !.saved = IF s.streamer THEN RewoundTo(s, nr) ELSE @,
                         !.lastCts = nr, !.sent = 0],
               "SendData", 0)

CtsMessages(s, left, nr) ==
  CASE CtsRejected(s, left, nr) -> AbortMessages(s)
    [] ~CtsRejected(s, left, nr) /\ left > 0 /\ s.type = "IsoETP" -> <<Msg("DPO", left, nr - 1)>>
    [] OTHER -> <<>>

\* A defect: the acknowledge is taken in every state.
OnEndofMsgACK_AnyState(s) == [s EXCEPT !.success = "SendSuccess", !.wait = 0]

OnEndofMsgACK(s) ==
  IF s.state = "AwaitEndofmsgack" THEN [s EXCEPT !.success = "SendSuccess", !.wait = 0] ELSE s

OnConnAbort(s) == [s EXCEPT !.success = "SendAborted", !.wait = AbortLinger]

Listens(s) == TargetSpecific(s) /\ ~Finished(s)

ProcessMsg(s, m) ==
  CASE Listens(s) /\ m.kind = "CTS" -> OnCts(s, m.n, m.at)
    [] Listens(s) /\ m.kind = "EndofMsgACK" -> OnEndofMsgACK(s)
    [] Listens(s) /\ m.kind = "ConnAbort" -> OnConnAbort(s)
    [] OTHER -> s

ProcessMsgMessages(s, m) ==
  IF Listens(s) /\ m.kind = "CTS" THEN CtsMessages(s, m.n, m.at) ELSE <<>>

\* Time passes.
Elapse(s) == [s EXCEPT !.wait = IF @ > 0 THEN @ - 1 ELSE 0]
=============================================================================
