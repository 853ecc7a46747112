----------------------------- MODULE RecvStream -----------------------------
(***************************************************************************)
(* Stream_c: the receiving end of one multi-packet message, as a record    *)
(* and the handlers that change it.  Data is counted in packets; the       *)
(* payloads inserted are kept as a sequence.  A time is what is left until *)
(* mi32_timeoutLimit, or until mi32_delayCtsUntil while a CTS is to be     *)
(* sent: 0 when that moment is reached, -1 when it has passed.             *)
(*                                                                         *)
(* The build is the default one, without ENABLE_MULTIPACKET_RETRY, with    *)
(* ENABLE_MULTIPACKET_VARIANT_FAST_PACKET.                                 *)
(***************************************************************************)
EXTENDS Integers, Sequences

CONSTANTS
  T1,         \* 250 ms: data to data, announcement to data, offset to data
  T2,         \* 1250 ms: CTS to data or data page offset
  TFp,        \* 1000 ms: frame to frame of a fast packet
  CtsDelay,   \* getCtsDelay(), the pause before the CTS for the next burst
  RecvSlack   \* the 1 ms awaitNextStep adds to a timeout

ASSUME RecvStreamAssumption ==
  /\ T1 \in Nat \ {0} /\ T2 \in Nat \ {0} /\ TFp \in Nat \ {0}
  /\ CtsDelay \in Nat
  /\ RecvSlack \in Nat

StreamType == {"StreamTP", "StreamETP", "StreamFastPacket"}
StreamingState == {"StreamRunning", "StreamFinished", "StreamFinishedJustKept"}
NextComing == {"AwaitNothing", "AwaitCtsSend", "AwaitDpo", "AwaitData"}

RecvStreamOf(Payload) == [
  type      : StreamType,
  broadcast : BOOLEAN,          \* the destination is 0xFF
  state     : StreamingState,   \* mt_streamState
  await     : NextComing,       \* mt_awaitStep
  total     : Nat,              \* mui32_pkgTotalSize
  next      : Nat,              \* mui32_pkgNextToWrite
  remaining : 0..255,           \* mui8_pkgRemainingInBurst
  burst     : Nat,              \* mui32_burstCurrent
  page      : Nat,              \* mui32_dataPageOffset
  maxBurst  : 0..255,           \* mui8_maxPacketInTPBurst
  wait      : Int,
  data      : Seq(Payload)]

Least(a, b) == IF a < b THEN a ELSE b
FirstPacket(type) == IF type = "StreamFastPacket" THEN 0 ELSE 1
LastPacket(s) == s.total - (1 - FirstPacket(s.type))

\* awaitNextStep.  The default build's timeNever for AwaitNothing ends up as now.
AwaitNextStep(s, step, time) ==
  [s EXCEPT !.await = step,
            !.wait = IF step = "AwaitCtsSend" THEN time ELSE time + RecvSlack]

\* A defect of expectBurst: what was received already is forgotten.
ExpectBurst_IgnoresReceived(s, wish) ==
  LET t == [s EXCEPT !.burst = @ + 1, !.remaining = Least(Least(s.total, wish), s.maxBurst)]
  IN  IF s.type = "StreamETP" THEN AwaitNextStep(t, "AwaitDpo", T2)
      ELSE AwaitNextStep(t, "AwaitData", IF s.broadcast THEN T1 ELSE T2)

\* expectBurst: at most wish packets, and no more than are missing.
ExpectBurst(s, wish) ==
  LET missing == Least(s.total - (s.next - 1), wish)
      t == [s EXCEPT !.burst = @ + 1]
  IN  CASE s.type = "StreamETP" ->
             AwaitNextStep([t EXCEPT !.remaining = missing], "AwaitDpo", T2)
        [] s.type = "StreamTP" ->
             AwaitNextStep([t EXCEPT !.remaining = Least(s.maxBurst, missing)],
                           "AwaitData", IF s.broadcast THEN T1 ELSE T2)
        [] s.type = "StreamFastPacket" ->
             AwaitNextStep([t EXCEPT !.remaining = s.total], "AwaitData", TFp)

\* The constructor, and setTPBurstLimit for a stream that starts with an RTS.
NewRecvStream(type, broadcast, total, maxBurst) ==
  LET s == [type |-> type, broadcast |-> broadcast, state |-> "StreamRunning",
            await |-> "AwaitCtsSend", total |-> total, next |-> FirstPacket(type),
            remaining |-> 0, burst |-> 0, page |-> 0, maxBurst |-> maxBurst,
            wait |-> -1, data |-> <<>>]
  IN  IF broadcast THEN ExpectBurst(s, 255) ELSE s

-----------------------------------------------------------------------------
(* handleDataPacket                                                        *)

\* The packet number seq is the one the stream writes next.
InSequence(s, seq) ==
  IF s.type = "StreamFastPacket" THEN seq % 32 = s.next
  ELSE seq # 0 /\ seq + (IF s.type = "StreamETP" THEN s.page ELSE 0) = s.next

AcceptsData(s, seq) == s.await = "AwaitData" /\ InSequence(s, seq)

WithData(s, payload) ==
  LET t == [s EXCEPT !.data = Append(@, payload), !.next = @ + 1,
                     !.remaining = (@ - 1) % 256]
  IN  CASE t.remaining > 0 -> AwaitNextStep(t, "AwaitData", T1)
        [] t.remaining = 0 /\ (t.type = "StreamFastPacket" \/ t.next > t.total) ->
             [AwaitNextStep(t, "AwaitNothing", -1) EXCEPT !.state = "StreamFinished"]
        [] OTHER -> AwaitNextStep(t, "AwaitCtsSend", CtsDelay)

-----------------------------------------------------------------------------
(* setDataPageOffset                                                       *)

AcceptsDpo(s, n) == s.await = "AwaitDpo" /\ n \in 1..s.remaining

WithDpo(s, n, offset) ==
  AwaitNextStep([s EXCEPT !.remaining = n, !.page = offset], "AwaitData", T1)

-----------------------------------------------------------------------------
Kept(s) == s.state = "StreamFinishedJustKept"
JustKept(s) ==
  [AwaitNextStep(s, "AwaitNothing", -1) EXCEPT !.state = "StreamFinishedJustKept"]
ReadyToSendCts(s) == s.await = "AwaitCtsSend" /\ s.wait <= 0
TimedOut(s) == s.await # "AwaitCtsSend" /\ s.wait < 0

\* Time passes.
RecvElapse(s) == [s EXCEPT !.wait = IF @ >= 0 THEN @ - 1 ELSE -1]

\* What is announced for a burst is missing in the message and no more; a stream is
\* finished when all of it is there.
Announced(s) ==
  /\ s.await \in {"AwaitData", "AwaitDpo"} =>
       s.remaining > 0 /\ s.next + s.remaining - 1 <= LastPacket(s)
  /\ s.await = "AwaitCtsSend" => s.next <= LastPacket(s)
  /\ s.await = "AwaitNothing" <=> s.next = LastPacket(s) + 1

\* What was inserted is what the packet numbers say.
Filled(s) == Len(s.data) = s.next - FirstPacket(s.type)

\* handleDataPacket never inserts past the size announced at the start.
BurstFits(s) == Announced(s) /\ Filled(s)
=============================================================================
