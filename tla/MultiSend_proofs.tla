--------------------------- MODULE MultiSend_proofs ---------------------------
(***************************************************************************)
(* Proofs about MultiSend for any pairs, transfers, peers and bounds.  The *)
(* inductive invariant IInv says how the counters of a running stream      *)
(* belong together (Sound): the position of the buffer and of the streamer *)
(* follow from the packet number of the last CTS and the packets sent      *)
(* since, and the burst asked for is still in the data.  That is what      *)
(* makes a resumed or repeated burst send the right pieces.                *)
(***************************************************************************)
EXTENDS MultiSend, SequenceLemmas, FiniteSetTheorems

Typed ==
  /\ scenario \in Scenario
  /\ born \in 0..scenario.streams
  /\ stream \in Seq(Stream) /\ Len(stream) = born
  /\ pair \in Seq(Pair) /\ Len(pair) = born
  /\ told \in Seq(Nat) /\ Len(told) = born
  /\ list \in Seq(1..born) /\ IsInjective(list)
  /\ announced \in [Id -> Nat]
  /\ received \in Nat

\* The counters of a broadcast: all of it is one burst.
BroadcastOk(s) ==
  /\ s.size <= 255 /\ s.state = "SendData" /\ s.lastCts = 1
  /\ s.sent = s.offset /\ s.offset + s.left = s.size
  /\ s.streamer => s.pos = s.offset

\* The counters of a fast packet, whose first frame counts as sent.
FastPacketOk(s) ==
  /\ s.size <= 32 /\ s.state = "SendData" /\ s.lastCts = 0
  /\ s.offset = s.sent + 1 /\ s.offset <= s.size
  /\ s.streamer => s.pos = s.offset

\* The counters of a transfer to one receiver; announced is the offset of its last
\* data page offset.
TransferOk(s, a) ==
  /\ s.lastCts >= 1
  /\ s.type = "IsoTP" => s.size <= 255
  /\ s.streamer => s.saved = s.lastCts - 1 /\ s.pos = s.lastCts + s.sent - 1
  /\ s.state = "SendData" =>
       /\ s.offset = s.lastCts + s.sent - 1
       /\ s.offset + s.left <= s.size /\ s.sent + s.left <= 255
       /\ s.type = "IsoETP" => a = s.lastCts - 1

Sound(s, a) ==
  CASE s.type = "IsoTPbroadcast" -> BroadcastOk(s)
    [] s.type = "NmeaFastPacket" -> FastPacketOk(s)
    [] OTHER -> TransferOk(s, a)

Counters == \A i \in 1..born : Finished(stream[i]) \/ Sound(stream[i], announced[i])

\* What a data packet of a stream with the record s carries, a being announced.
Carries(s, a, m) ==
  /\ m.at \in 1..s.size
  /\ m.at = CASE s.type = "IsoETP" -> a + m.n
              [] s.type = "NmeaFastPacket" -> m.n + 1
              [] OTHER -> m.n

OnWire ==
  \A w \in wire :
    /\ w.from \in 1..born /\ w.msg \in Message
    /\ w.msg.kind = "DT" => Carries(stream[w.from], announced[w.from], w.msg)

Lists == OneRunningPerPair /\ ToldOnceAndDriven

\* While timeEvent() iterates, nextWait is at most the wait of every stream passed.
Timing ==
  /\ taskWait \in Nat /\ loop \in Nat /\ pkgCnt \in Nat /\ nextWait \in Nat \union {-1}
  /\ TaskWakesInTime
  /\ loop > 0 => \A k \in 1..Len(list) :
       k < loop => nextWait # -1 /\ nextWait <= stream[list[k]].wait

IInv == Typed /\ Counters /\ OnWire /\ Lists /\ Timing

\* All of the invariant but the timing.
Core == Typed /\ Counters /\ OnWire /\ Lists

-----------------------------------------------------------------------------
(* A stream's record, and the ways its handlers change it.                 *)

\* t is a later record of the transfer of s.
SameTransfer(t, s) == t.type = s.type /\ t.size = s.size /\ t.streamer = s.streamer

\* The counters of t are those of s.
SameCounters(t, s) ==
  /\ t.offset = s.offset /\ t.lastCts = s.lastCts /\ t.left = s.left
  /\ t.sent = s.sent /\ t.pos = s.pos /\ t.saved = s.saved

\* The fields of a stream and what they hold.
LEMMA StreamFields ==
  ASSUME NEW s \in Stream
  PROVE  /\ s.type \in MsgType /\ s.size \in Nat /\ s.streamer \in BOOLEAN /\ s.state \in SendState
         /\ s.success \in SendSuccess /\ s.offset \in Nat /\ s.lastCts \in Nat
         /\ s.left \in 0..255 /\ s.sent \in 0..255 /\ s.pos \in Nat /\ s.saved \in Nat
         /\ s.wait \in Nat /\ s.left \in Nat /\ s.left <= 255 /\ s.sent \in Nat /\ s.sent <= 255
<1>1. \A k \in 0..255 : k \in Nat /\ k <= 255
  OBVIOUS
<1>2. /\ s.type \in MsgType /\ s.size \in Nat /\ s.streamer \in BOOLEAN /\ s.state \in SendState
      /\ s.success \in SendSuccess /\ s.offset \in Nat /\ s.lastCts \in Nat
      /\ s.left \in 0..255 /\ s.sent \in 0..255 /\ s.pos \in Nat /\ s.saved \in Nat
      /\ s.wait \in Nat
  BY DEF Stream
<1>3. QED BY <1>1, <1>2

\* A new state and time change nothing else.
LEMMA StateSet ==
  ASSUME NEW s \in Stream, NEW state \in SendState, NEW w \in Nat
  PROVE  LET t == [s EXCEPT !.state = state, !.wait = w]
         IN  /\ t \in Stream /\ SameTransfer(t, s) /\ SameCounters(t, s)
             /\ t.state = state /\ t.success = s.success
<1>1. [s EXCEPT !.state = state, !.wait = w] \in Stream
  BY DEF Stream
<1>2. QED BY <1>1 DEF Stream, SameTransfer, SameCounters

\* switchToState() changes the state and the time to wait to.
LEMMA SwitchToStateIs ==
  ASSUME NEW s \in Stream, NEW state \in SendState, NEW time \in Nat
  PROVE  LET t == SwitchToState(s, state, time)
         IN  /\ t \in Stream /\ SameTransfer(t, s) /\ SameCounters(t, s)
             /\ t.state = state /\ t.success = s.success
<1> DEFINE w == IF time > 0 THEN time + Slack ELSE 0
<1>1. w \in Nat
  BY SendStreamAssumption
<1>2. SwitchToState(s, state, time) = [s EXCEPT !.state = state, !.wait = w]
  BY DEF SwitchToState
<1> HIDE DEF w
<1> DEFINE t == [s EXCEPT !.state = state, !.wait = w]
<1>3. /\ t \in Stream /\ SameTransfer(t, s) /\ SameCounters(t, s)
      /\ t.state = state /\ t.success = s.success
  BY <1>1, StateSet, ZenonT(40)
<1> HIDE DEF t
<1>4. SwitchToState(s, state, time) = t
  BY <1>2 DEF t
<1>5. QED BY <1>3, <1>4

\* A new time to wait to changes nothing else.
LEMMA WaitSet ==
  ASSUME NEW s \in Stream, NEW w \in Nat
  PROVE  LET t == [s EXCEPT !.wait = w]
         IN  /\ t \in Stream /\ SameTransfer(t, s) /\ SameCounters(t, s)
             /\ t.state = s.state /\ t.success = s.success /\ t.wait = w
<1>1. [s EXCEPT !.wait = w] \in Stream
  BY DEF Stream
<1>2. QED BY <1>1 DEF Stream, SameTransfer, SameCounters

\* The end of a stream changes nothing that its transfer is told by.
LEMMA SuccessSet ==
  ASSUME NEW s \in Stream, NEW x \in SendSuccess
  PROVE  /\ LET t == [s EXCEPT !.success = x]
            IN  t \in Stream /\ SameTransfer(t, s) /\ t.success = x /\ t.wait = s.wait
         /\ \A w \in Nat : LET t == [s EXCEPT !.success = x, !.wait = w]
                           IN  t \in Stream /\ SameTransfer(t, s) /\ t.success = x
<1>1. ASSUME NEW w \in Nat
      PROVE  LET t == [s EXCEPT !.success = x, !.wait = w]
             IN  t \in Stream /\ SameTransfer(t, s) /\ t.success = x
  <2>1. [s EXCEPT !.success = x, !.wait = w] \in Stream
    BY DEF Stream
  <2>2. QED BY <2>1 DEF Stream, SameTransfer
<1>2. LET t == [s EXCEPT !.success = x]
      IN  t \in Stream /\ SameTransfer(t, s) /\ t.success = x /\ t.wait = s.wait
  <2>1. [s EXCEPT !.success = x] \in Stream
    BY DEF Stream
  <2>2. QED BY <2>1 DEF Stream, SameTransfer
<1>3. QED BY <1>1, <1>2

Asked(s, left, offset) == [s EXCEPT !.left = left, !.offset = offset]
Burst(s, pos, saved, nr, sent) ==
  [s EXCEPT !.pos = pos, !.saved = saved, !.lastCts = nr, !.sent = sent]
MovedOn(s, left, sent, offset, pos) ==
  [s EXCEPT !.left = left, !.sent = sent, !.offset = offset, !.pos = pos]

\* t goes on with the transfer of s, with these counters.
Counts(t, s, offset, lastCts, left, sent, pos, saved) ==
  /\ t \in Stream /\ SameTransfer(t, s) /\ t.state = s.state /\ t.success = s.success
  /\ t.offset = offset /\ t.lastCts = lastCts /\ t.left = left
  /\ t.sent = sent /\ t.pos = pos /\ t.saved = saved

\* What a CTS asks for, before it is taken.
LEMMA AskedIs ==
  ASSUME NEW s \in Stream, NEW left \in 0..255, NEW offset \in Nat
  PROVE  Counts(Asked(s, left, offset), s, offset, s.lastCts, left, s.sent, s.pos, s.saved)
<1>1. Asked(s, left, offset) \in Stream
  BY DEF Asked, Stream
<1>2. QED BY <1>1 DEF Asked, Counts, Stream, SameTransfer

\* A new burst.
LEMMA BurstIs ==
  ASSUME NEW s \in Stream, NEW pos \in Nat, NEW saved \in Nat, NEW nr \in Nat, NEW sent \in 0..255
  PROVE  Counts(Burst(s, pos, saved, nr, sent), s, s.offset, nr, s.left, sent, pos, saved)
<1>1. Burst(s, pos, saved, nr, sent) \in Stream
  BY DEF Burst, Stream
<1>2. QED BY <1>1 DEF Burst, Counts, Stream, SameTransfer

\* Packets sent.
LEMMA MovedOnIs ==
  ASSUME NEW s \in Stream, NEW left \in 0..255, NEW sent \in 0..255, NEW offset \in Nat,
         NEW pos \in Nat
  PROVE  Counts(MovedOn(s, left, sent, offset, pos), s, offset, s.lastCts, left, sent, pos, s.saved)
<1>1. MovedOn(s, left, sent, offset, pos) \in Stream
  BY DEF MovedOn, Stream
<1>2. QED BY <1>1 DEF MovedOn, Counts, Stream, SameTransfer

-----------------------------------------------------------------------------
(* The handlers of a stream keep it sound, and what they put on the bus is  *)
(* what it stands for.                                                      *)

\* The messages are messages, and data packets carry their data if a is announced.
Says(M, s, a) ==
  \A m \in M : m \in Message /\ (m.kind = "DT" => Carries(s, a, m))

\* What is announced after the messages M, if it was a before.
NewOffset(b, a, M) ==
  IF \E m \in M : m.kind = "DPO" THEN \E m \in M : m.kind = "DPO" /\ b = m.at ELSE b = a

\* A handler took a stream from s to t and put M on the bus.
Handled(s, a, t, M) ==
  /\ t \in Stream /\ M \subseteq Message
  /\ \A b \in Nat : NewOffset(b, a, M) => (Finished(t) \/ Sound(t, b)) /\ Says(M, t, b)

\* A message in its parts.
LEMMA MsgIs ==
  ASSUME NEW kind \in {"RTS", "BAM", "CTS", "DPO", "DT", "EndofMsgACK", "ConnAbort"},
         NEW n \in Nat, NEW at \in Nat
  PROVE  LET m == Msg(kind, n, at)
         IN  m \in Message /\ m.kind = kind /\ m.n = n /\ m.at = at
BY DEF Msg, Message

\* Whether a stream is sound depends on its state and counters only.
LEMMA SoundMoves ==
  ASSUME NEW s, NEW t, NEW a, Sound(s, a), SameTransfer(t, s), SameCounters(t, s),
         t.state = s.state
  PROVE  Sound(t, a)
BY DEF Sound, BroadcastOk, FastPacketOk, TransferOk, SameTransfer, SameCounters

\* abortSend() says nothing but the abort.
LEMMA AbortMessagesAre ==
  ASSUME NEW s
  PROVE  \A m \in Range(AbortMessages(s)) : m \in Message /\ m.kind = "ConnAbort"
<1>1. LET m == Msg("ConnAbort", 0, 0) IN m \in Message /\ m.kind = "ConnAbort"
  BY MsgIs
<1>2. Range(<<Msg("ConnAbort", 0, 0)>>) = {Msg("ConnAbort", 0, 0)} /\ Range(<<>>) = {}
  BY DEF Range
<1>3. QED BY <1>1, <1>2 DEF AbortMessages

\* Nothing but aborts, and the end of the stream.
LEMMA EndHandled ==
  ASSUME NEW s \in Stream, NEW a \in Nat, NEW t \in Stream, Finished(t), NEW M,
         \A m \in M : m \in Message /\ m.kind = "ConnAbort"
  PROVE  Handled(s, a, t, M)
BY DEF Handled, Says

(* A CTS that asks for packets is taken when the burst lies in the data and   *)
(* the streamer can be brought to its start; then position, packet number and *)
(* what is announced agree again.                                             *)
LEMMA CtsTaken ==
  ASSUME NEW s \in Stream, NEW a \in Nat, Sound(s, a), TargetSpecific(s),
         NEW left \in 1..255, NEW nr \in Nat, ~CtsRejected(s, left, nr)
  PROVE  Handled(s, a, OnCts(s, left, nr), Range(CtsMessages(s, left, nr)))
<1> DEFINE to == RewoundTo(s, nr)
           pos == IF s.streamer THEN to ELSE s.pos
           saved == IF s.streamer THEN to ELSE s.saved
           asked == Asked(s, left, nr - 1)
           burst == Burst(asked, pos, saved, nr, 0)
           t == SwitchToState(burst, "SendData", 0)
<1>1. /\ s.type \in {"IsoTP", "IsoETP"} /\ TransferOk(s, a)
      /\ s.size \in Nat /\ s.pos \in Nat /\ s.saved \in Nat /\ s.sent \in 0..255 /\ s.lastCts \in Nat
  BY StreamFields DEF TargetSpecific, Sound
<1>2. nr >= 1 /\ nr - 1 \in Nat /\ nr - 1 + left <= s.size /\ StreamerCanDeliver(s, nr)
  BY <1>1 DEF CtsRejected, InvalidCts, BeyondData
<1>3. s.streamer => to = nr - 1
  <2>1. ASSUME s.streamer PROVE to = nr - 1
    <3>1. s.saved = s.lastCts - 1 /\ s.pos = s.lastCts + s.sent - 1
      BY <1>1, <2>1 DEF TransferOk
    <3>2. CASE nr = NextPacket(s)
      BY <1>1, <3>1, <3>2 DEF RewoundTo, NextPacket
    <3>3. CASE nr # NextPacket(s)
      BY <1>1, <1>2, <3>1, <3>3 DEF RewoundTo
    <3>4. QED BY <3>2, <3>3
  <2>2. QED BY <2>1
<1> HIDE DEF to
<1>4. pos \in Nat /\ saved \in Nat /\ (s.streamer => pos = nr - 1 /\ saved = nr - 1)
  BY <1>1, <1>2, <1>3
<1>5. OnCts(s, left, nr) = t
  <2>1. ~InvalidCts(nr) /\ left # 0
    BY <1>2 DEF InvalidCts
  <2>2. asked = [s EXCEPT !.left = left, !.offset = IF InvalidCts(nr) THEN @ ELSE nr - 1]
    BY <2>1 DEF Asked
  <2>3. asked.pos = s.pos /\ asked.saved = s.saved
    BY DEF Asked
  <2> HIDE DEF asked
  <2>4. burst = [asked EXCEPT !.pos = IF s.streamer THEN RewoundTo(s, nr) ELSE @,
                              !.saved = IF s.streamer THEN RewoundTo(s, nr) ELSE @,
                              !.lastCts = nr, !.sent = 0]
    BY <2>3 DEF Burst, to
  <2>5. QED BY <2>1, <2>2, <2>4 DEF OnCts
<1> HIDE DEF pos, saved
<1>6. Counts(asked, s, nr - 1, s.lastCts, left, s.sent, s.pos, s.saved)
  <2>1. left \in 0..255
    OBVIOUS
  <2>2. QED BY <1>2, <2>1, AskedIs
<1> HIDE DEF asked
<1>7. Counts(burst, asked, asked.offset, nr, asked.left, 0, pos, saved)
  <2>1. 0 \in 0..255
    OBVIOUS
  <2>2. asked \in Stream
    BY <1>6 DEF Counts
  <2>3. QED BY <1>4, <2>1, <2>2, BurstIs
<1> HIDE DEF burst
<1>8. /\ t \in Stream /\ SameTransfer(t, burst) /\ SameCounters(t, burst) /\ t.state = "SendData"
  <2>1. "SendData" \in SendState /\ 0 \in Nat
    BY DEF SendState
  <2>2. QED BY <1>7, <2>1, SwitchToStateIs DEF Counts
<1> HIDE DEF t
<1>9. /\ t.type = s.type /\ t.size = s.size /\ t.streamer = s.streamer
      /\ t.lastCts = nr /\ t.left = left /\ t.offset = nr - 1 /\ t.sent = 0
      /\ t.pos = pos /\ t.saved = saved
  BY <1>6, <1>7, <1>8 DEF SameTransfer, SameCounters, Counts
<1>10. s.type = "IsoTP" => s.size <= 255
  BY <1>1 DEF TransferOk
<1>11. ASSUME NEW b \in Nat, s.type = "IsoETP" => b = nr - 1 PROVE Sound(t, b)
  <2>1. TransferOk(t, b)
    BY <1>1, <1>2, <1>4, <1>8, <1>9, <1>10, <1>11 DEF TransferOk
  <2>2. QED BY <1>1, <1>9, <2>1 DEF Sound
<1> DEFINE M == Range(CtsMessages(s, left, nr))
           dpo == Msg("DPO", left, nr - 1)
<1>12. dpo \in Message /\ dpo.kind = "DPO" /\ dpo.at = nr - 1
  <2>1. left \in Nat /\ "DPO" \in {"RTS", "BAM", "CTS", "DPO", "DT", "EndofMsgACK", "ConnAbort"}
    OBVIOUS
  <2>2. QED BY <1>2, <2>1, MsgIs
<1>13. CASE s.type = "IsoETP"
  <2>1. CtsMessages(s, left, nr) = <<dpo>>
    <3>1. left > 0
      OBVIOUS
    <3>2. QED BY <1>13, <3>1 DEF CtsMessages
  <2>2. M = {dpo}
    BY <2>1 DEF Range
  <2> HIDE DEF M, dpo
  <2>3. \A b \in Nat : NewOffset(b, a, M) => b = nr - 1
    BY <1>12, <2>2 DEF NewOffset
  <2>4. \A b : Says(M, t, b)
    BY <1>12, <2>2 DEF Says
  <2>5. M \subseteq Message
    BY <1>12, <2>2
  <2>6. QED BY <1>5, <1>8, <1>11, <2>3, <2>4, <2>5 DEF Handled, M
<1>14. CASE s.type # "IsoETP"
  <2>1. CtsMessages(s, left, nr) = <<>>
    BY <1>14 DEF CtsMessages
  <2>2. M = {}
    BY <2>1 DEF Range
  <2>3. QED BY <1>5, <1>8, <1>11, <1>14, <2>2 DEF Handled, M, Says
<1>15. QED BY <1>13, <1>14

(* Any CTS: it is taken, or the sender pauses, or the transfer is aborted.    *)
LEMMA CtsHandled ==
  ASSUME NEW s \in Stream, NEW a \in Nat, Sound(s, a), TargetSpecific(s), ~Finished(s),
         NEW left \in 0..255, NEW nr \in Nat
  PROVE  Handled(s, a, OnCts(s, left, nr), Range(CtsMessages(s, left, nr)))
<1> DEFINE offset == IF InvalidCts(nr) THEN s.offset ELSE nr - 1
           t == Asked(s, left, offset)
<1>1. offset \in Nat
  BY StreamFields DEF InvalidCts
<1>2. t = [s EXCEPT !.left = left, !.offset = IF InvalidCts(nr) THEN @ ELSE nr - 1]
  BY DEF Asked
<1> HIDE DEF offset
<1>3. /\ t \in Stream /\ SameTransfer(t, s)
      /\ t.success = s.success /\ t.lastCts = s.lastCts /\ t.sent = s.sent
      /\ t.pos = s.pos /\ t.saved = s.saved
  <2>1. Counts(t, s, offset, s.lastCts, left, s.sent, s.pos, s.saved)
    BY <1>1, AskedIs
  <2> HIDE DEF t
  <2>2. QED BY <2>1 DEF Counts
<1>4. CASE CtsRejected(s, left, nr)
  <2>1. OnCts(s, left, nr) = AbortSend(t) /\ CtsMessages(s, left, nr) = AbortMessages(s)
    BY <1>2, <1>4 DEF OnCts, CtsMessages
  <2> HIDE DEF t
  <2>2. AbortSend(t) \in Stream /\ Finished(AbortSend(t))
    <3>1. "SendAborted" \in SendSuccess
      BY DEF SendSuccess
    <3>2. QED BY <1>3, <3>1, SuccessSet, ZenonT(40) DEF AbortSend, Finished
  <2>3. QED BY <2>1, <2>2, AbortMessagesAre, EndHandled
<1>5. CASE ~CtsRejected(s, left, nr) /\ left = 0
  <2> DEFINE u == SwitchToState(t, "SendPauseTillCts", PauseTime)
  <2>1. OnCts(s, left, nr) = u /\ CtsMessages(s, left, nr) = <<>>
    BY <1>2, <1>5 DEF OnCts, CtsMessages
  <2> HIDE DEF t
  <2>2. /\ u \in Stream /\ SameTransfer(u, t) /\ SameCounters(u, t)
        /\ u.state = "SendPauseTillCts" /\ u.success = t.success
    <3>1. "SendPauseTillCts" \in SendState /\ PauseTime \in Nat
      BY SendStreamAssumption DEF SendState
    <3>2. QED BY <1>3, <3>1, SwitchToStateIs
  <2> HIDE DEF u
  <2>3. TransferOk(s, a) /\ s.type \in {"IsoTP", "IsoETP"}
    BY StreamFields DEF Sound, TargetSpecific
  <2>4. Sound(u, a)
    <3>1. /\ u.type = s.type /\ u.size = s.size /\ u.streamer = s.streamer /\ u.lastCts = s.lastCts
          /\ u.sent = s.sent /\ u.pos = s.pos /\ u.saved = s.saved /\ u.state # "SendData"
      BY <1>3, <2>2 DEF SameTransfer, SameCounters
    <3>2. TransferOk(u, a)
      BY <2>3, <3>1 DEF TransferOk
    <3>3. QED BY <2>3, <3>1, <3>2 DEF Sound
  <2>5. Range(<<>>) = {}
    BY DEF Range
  <2>6. QED BY <2>1, <2>2, <2>4, <2>5 DEF Handled, NewOffset, Says
<1>6. CASE ~CtsRejected(s, left, nr) /\ left # 0
  <2>1. left \in 1..255
    BY <1>6
  <2>2. QED BY <1>6, <2>1, CtsTaken
<1>7. QED BY <1>4, <1>5, <1>6

(* processMsg() takes a CTS, an acknowledge or an abort of the peer.          *)
LEMMA ProcessMsgHandled ==
  ASSUME NEW s \in Stream, NEW a \in Nat, Sound(s, a), ~Finished(s),
         NEW m, m.n \in 0..255, m.at \in Nat
  PROVE  Handled(s, a, ProcessMsg(s, m), Range(ProcessMsgMessages(s, m)))
<1>1. Range(<<>>) = {} /\ Handled(s, a, s, {})
  BY DEF Range, Handled, NewOffset, Says
<1>2. CASE Listens(s) /\ m.kind = "CTS"
  <2>1. /\ ProcessMsg(s, m) = OnCts(s, m.n, m.at)
        /\ ProcessMsgMessages(s, m) = CtsMessages(s, m.n, m.at)
    BY <1>2 DEF ProcessMsg, ProcessMsgMessages
  <2>2. QED BY <1>2, <2>1, CtsHandled DEF Listens
<1>3. CASE Listens(s) /\ m.kind = "EndofMsgACK"
  <2>1. ProcessMsg(s, m) = OnEndofMsgACK(s) /\ ProcessMsgMessages(s, m) = <<>>
    BY <1>3 DEF ProcessMsg, ProcessMsgMessages
  <2> DEFINE t == [s EXCEPT !.success = "SendSuccess", !.wait = 0]
  <2>2. t \in Stream /\ t.success = "SendSuccess"
    <3>1. "SendSuccess" \in SendSuccess /\ 0 \in Nat
      BY DEF SendSuccess
    <3>2. QED BY <3>1, SuccessSet, ZenonT(40)
  <2>3. OnEndofMsgACK(s) = t \/ OnEndofMsgACK(s) = s
    BY DEF OnEndofMsgACK
  <2> HIDE DEF t
  <2>4. Handled(s, a, t, {})
    BY <2>2 DEF Handled, Finished, Says
  <2>5. QED BY <1>1, <2>1, <2>3, <2>4
<1>4. CASE Listens(s) /\ m.kind = "ConnAbort"
  <2>1. ProcessMsg(s, m) = OnConnAbort(s) /\ ProcessMsgMessages(s, m) = <<>>
    BY <1>4 DEF ProcessMsg, ProcessMsgMessages
  <2> DEFINE t == [s EXCEPT !.success = "SendAborted", !.wait = AbortLinger]
  <2>2. t \in Stream /\ t.success = "SendAborted"
    <3>1. "SendAborted" \in SendSuccess /\ AbortLinger \in Nat
      BY SendStreamAssumption DEF SendSuccess
    <3>2. QED BY <3>1, SuccessSet, ZenonT(40)
  <2>3. OnConnAbort(s) = t
    BY DEF OnConnAbort
  <2> HIDE DEF t
  <2>4. Handled(s, a, t, {})
    BY <2>2 DEF Handled, Finished, Says
  <2>5. QED BY <1>1, <2>1, <2>3, <2>4
<1>5. CASE ~(Listens(s) /\ m.kind \in {"CTS", "EndofMsgACK", "ConnAbort"})
  <2>1. ProcessMsg(s, m) = s /\ ProcessMsgMessages(s, m) = <<>>
    BY <1>5 DEF ProcessMsg, ProcessMsgMessages
  <2>2. QED BY <1>1, <2>1
<1>6. QED BY <1>2, <1>3, <1>4, <1>5

\* Counters of a byte that do not wrap.
LEMMA NoWrap ==
  /\ \A l, n \in Nat : n <= l /\ l <= 255 => l - n \in 0..255 /\ (l - n) % 256 = l - n
  /\ \A l, n \in Nat : l + n <= 255 => l + n \in 0..255 /\ (l + n) % 256 = l + n
  /\ \A l, n \in Nat : (l - n) % 256 \in 0..255 /\ (l + n) % 256 \in 0..255
<1>1. ASSUME NEW l \in Nat, NEW n \in Nat, n <= l, l <= 255
      PROVE  l - n \in 0..255 /\ (l - n) % 256 = l - n
  BY <1>1
<1>2. ASSUME NEW l \in Nat, NEW n \in Nat, l + n <= 255
      PROVE  l + n \in 0..255 /\ (l + n) % 256 = l + n
  BY <1>2
<1>3. ASSUME NEW l \in Nat, NEW n \in Nat
      PROVE  (l - n) % 256 \in 0..255 /\ (l + n) % 256 \in 0..255
  OBVIOUS
<1>4. QED BY <1>1, <1>2, <1>3

\* Whether a stream that does not send is sound does not depend on its state.
LEMMA SoundWaits ==
  ASSUME NEW s, NEW t, NEW a, Sound(s, a), TargetSpecific(s), SameTransfer(t, s),
         SameCounters(t, s), t.state # "SendData"
  PROVE  Sound(t, a)
BY DEF Sound, TargetSpecific, TransferOk, SameTransfer, SameCounters

\* The packets that timeEvent() sends are in the data and in the burst.
LEMMA PacketsNowAre ==
  ASSUME NEW s \in Stream, NEW a \in Nat, Sound(s, a), s.state = "SendData", NEW count \in Nat
  PROVE  LET n == PacketsNow(s, count)
         IN  /\ n \in Nat /\ s.offset + n <= s.size
             /\ s.type # "NmeaFastPacket" => n <= s.left
<1> DEFINE allowed == IF s.type = "IsoTPbroadcast" THEN 1 ELSE count
           rest == s.size - s.offset
           whole == IF allowed < rest THEN allowed ELSE rest
<1>1. s.size \in Nat /\ s.offset \in Nat /\ s.left \in Nat /\ s.left <= 255 /\ s.sent \in Nat /\ s.lastCts \in Nat
  BY StreamFields
<1>2. s.offset <= s.size
  <2>1. CASE s.type = "IsoTPbroadcast"
    BY <1>1, <2>1 DEF Sound, BroadcastOk
  <2>2. CASE s.type = "NmeaFastPacket"
    BY <1>1, <2>2 DEF Sound, FastPacketOk
  <2>3. CASE s.type \notin {"IsoTPbroadcast", "NmeaFastPacket"}
    BY <1>1, <2>3 DEF Sound, TransferOk
  <2>4. QED BY <2>1, <2>2, <2>3
<1>3. allowed \in Nat /\ rest \in Nat
  BY <1>1, <1>2
<1> HIDE DEF allowed
<1>4. whole \in Nat /\ s.offset + whole <= s.size
  BY <1>1, <1>2, <1>3
<1>5. PacketsNow(s, count) = IF s.type # "NmeaFastPacket" /\ s.left < whole THEN s.left ELSE whole
  BY DEF PacketsNow, allowed
<1> HIDE DEF whole, rest
<1>6. QED BY <1>1, <1>4, <1>5

(* prepareSendMsg() numbers a packet so that its number and its data agree.   *)
LEMMA PacketIs ==
  ASSUME NEW s \in Stream, NEW a \in Nat, Sound(s, a), s.state = "SendData", NEW i \in Nat,
         i >= 1, s.offset + i <= s.size, s.type # "NmeaFastPacket" => i <= s.left
  PROVE  Packet(s, i) \in Message /\ Packet(s, i).kind = "DT" /\ Carries(s, a, Packet(s, i))
<1> DEFINE base == IF s.type \in {"IsoETP", "NmeaFastPacket"} THEN 0 ELSE s.lastCts - 1
           n == (s.sent + i + base) % 256
           from == IF s.streamer THEN s.pos ELSE s.offset
           at == from + i
           p == Packet(s, i)
<1>1. /\ s.size \in Nat /\ s.offset \in Nat /\ s.left \in Nat /\ s.left <= 255 /\ s.sent \in Nat
      /\ s.lastCts \in Nat /\ s.pos \in Nat /\ s.type \in MsgType /\ s.streamer \in BOOLEAN
  BY StreamFields
<1>2. Packet(s, i) = Msg("DT", n, at)
  BY DEF Packet
<1>3. from = s.offset
  <2>1. ASSUME s.streamer PROVE s.pos = s.offset
    <3>1. CASE s.type = "IsoTPbroadcast"
      BY <2>1, <3>1 DEF Sound, BroadcastOk
    <3>2. CASE s.type = "NmeaFastPacket"
      BY <2>1, <3>2 DEF Sound, FastPacketOk
    <3>3. CASE s.type \notin {"IsoTPbroadcast", "NmeaFastPacket"}
      BY <1>1, <2>1, <3>3 DEF Sound, TransferOk
    <3>4. QED BY <3>1, <3>2, <3>3
  <2>2. QED BY <2>1
<1>4. at = s.offset + i
  BY <1>3
<1> HIDE DEF from, at
<1>5. /\ n \in Nat
      /\ at = CASE s.type = "IsoETP" -> a + n
                [] s.type = "NmeaFastPacket" -> n + 1
                [] OTHER -> n
  <2>1. CASE s.type = "IsoTPbroadcast"
    <3>1. s.size <= 255 /\ s.lastCts = 1 /\ s.sent = s.offset
      BY <2>1 DEF Sound, BroadcastOk
    <3>2. n = s.offset + i
      BY <1>1, <2>1, <3>1
    <3>3. QED BY <1>1, <1>4, <2>1, <3>2
  <2>2. CASE s.type = "NmeaFastPacket"
    <3>1. s.size <= 32 /\ s.offset = s.sent + 1
      BY <2>2 DEF Sound, FastPacketOk
    <3>2. n = s.sent + i
      BY <1>1, <2>2, <3>1
    <3>3. QED BY <1>1, <1>4, <2>2, <3>1, <3>2
  <2>3. CASE s.type = "IsoTP"
    <3>1. s.size <= 255 /\ s.offset = s.lastCts + s.sent - 1
      BY <2>3 DEF Sound, TransferOk
    <3>2. n = s.offset + i
      <4>1. base = s.lastCts - 1
        BY <2>3
      <4>2. s.sent + i + base = s.offset + i /\ s.offset + i <= 255
        <5> HIDE DEF base
        <5>1. QED BY <1>1, <3>1, <4>1
      <4>3. (s.offset + i) % 256 = s.offset + i
        BY <1>1, <4>2, NoWrap
      <4>4. QED BY <4>2, <4>3
    <3>3. QED BY <1>1, <1>4, <2>3, <3>2
  <2>4. CASE s.type = "IsoETP"
    <3>1. s.sent + s.left <= 255 /\ s.offset = s.lastCts + s.sent - 1 /\ a = s.lastCts - 1
      BY <2>4 DEF Sound, TransferOk
    <3>2. i <= s.left /\ base = 0
      BY <2>4
    <3>3. n = s.sent + i
      <4>1. s.sent + i <= 255 /\ s.sent \in Nat
        BY <1>1, <3>1, <3>2
      <4>2. (s.sent + i) % 256 = s.sent + i
        BY <4>1, NoWrap
      <4>3. s.sent + i + 0 = s.sent + i
        BY <4>1
      <4>4. QED BY <3>2, <4>2, <4>3
    <3> HIDE DEF n
    <3>4. n \in Nat /\ at = a + n
      BY <1>1, <1>4, <3>1, <3>2, <3>3
    <3>5. QED BY <2>4, <3>4
  <2>5. QED BY <1>1, <2>1, <2>2, <2>3, <2>4 DEF MsgType
<1>6. at \in Nat /\ at \in 1..s.size
  BY <1>1, <1>4
<1> HIDE DEF n
<1>7. p \in Message /\ p.kind = "DT" /\ p.n = n /\ p.at = at
  <2>1. "DT" \in {"RTS", "BAM", "CTS", "DPO", "DT", "EndofMsgACK", "ConnAbort"}
    OBVIOUS
  <2>2. QED BY <1>2, <1>5, <1>6, <2>1, MsgIs
<1> HIDE DEF p
<1>8. Carries(s, a, p)
  BY <1>5, <1>6, <1>7 DEF Carries
<1>9. QED BY <1>7, <1>8 DEF p

\* What is behind a packet is that of its stream, whatever its counters.
LEMMA CarriesMoves ==
  ASSUME NEW s, NEW t, NEW a, NEW m, Carries(s, a, m), SameTransfer(t, s)
  PROVE  Carries(t, a, m)
BY DEF Carries, SameTransfer

\* The counters of a burst are bytes, however many packets are counted.
LEMMA StaysByte ==
  ASSUME NEW s \in Stream, NEW n \in Nat
  PROVE  (s.left - n) % 256 \in 0..255 /\ (s.sent + n) % 256 \in 0..255
<1>1. \A l \in Nat : (l - n) % 256 \in 0..255 /\ (l + n) % 256 \in 0..255
  BY NoWrap
<1>2. s.left \in Nat /\ s.sent \in Nat
  BY StreamFields
<1>3. QED BY <1>1, <1>2, Zenon

\* Sending n packets of a burst keeps the counters in step.
LEMMA MovedOnSound ==
  ASSUME NEW s \in Stream, NEW a \in Nat, Sound(s, a), s.state = "SendData", NEW n \in Nat,
         s.offset + n <= s.size, s.type # "NmeaFastPacket" => n <= s.left
  PROVE  LET t == MovedOn(s, (s.left - n) % 256, (s.sent + n) % 256, s.offset + n,
                          IF s.streamer THEN s.pos + n ELSE s.pos)
         IN  /\ t \in Stream /\ SameTransfer(t, s) /\ t.success = s.success /\ t.state = "SendData"
             /\ Sound(t, a)
<1> DEFINE left == (s.left - n) % 256
           sent == (s.sent + n) % 256
           offset == s.offset + n
           pos == IF s.streamer THEN s.pos + n ELSE s.pos
           t == MovedOn(s, left, sent, offset, pos)
<1>1. /\ s.size \in Nat /\ s.offset \in Nat /\ s.left \in Nat /\ s.left <= 255 /\ s.sent \in Nat
      /\ s.lastCts \in Nat /\ s.pos \in Nat /\ s.saved \in Nat /\ s.type \in MsgType
      /\ s.streamer \in BOOLEAN
  BY StreamFields
<1>2. left \in 0..255 /\ sent \in 0..255 /\ offset \in Nat /\ pos \in Nat
  <2>1. left \in 0..255 /\ sent \in 0..255
    <3> HIDE DEF t
    <3>1. QED BY StaysByte
  <2>2. QED BY <1>1, <2>1
<1>3. sent = s.sent + n /\ (s.type # "NmeaFastPacket" => left = s.left - n)
  <2>1. s.sent + n <= 255
    <3>1. CASE s.type = "IsoTPbroadcast"
      <4>1. s.sent = s.offset /\ s.size <= 255
        BY <3>1 DEF Sound, BroadcastOk
      <4>2. QED BY <1>1, <4>1
    <3>2. CASE s.type = "NmeaFastPacket"
      <4>1. s.offset = s.sent + 1 /\ s.size <= 32
        BY <3>2 DEF Sound, FastPacketOk
      <4>2. QED BY <1>1, <4>1
    <3>3. CASE s.type \notin {"IsoTPbroadcast", "NmeaFastPacket"}
      <4>1. s.sent + s.left <= 255 /\ n <= s.left
        BY <3>3 DEF Sound, TransferOk
      <4>2. QED BY <1>1, <4>1
    <3>4. QED BY <3>1, <3>2, <3>3
  <2>2. sent = s.sent + n
    <3>1. s.sent \in Nat
      BY <1>1
    <3>2. QED BY <2>1, <3>1, NoWrap
  <2>3. ASSUME s.type # "NmeaFastPacket" PROVE left = s.left - n
    <3>1. n <= s.left
      BY <2>3
    <3>2. QED BY <1>1, <3>1, NoWrap
  <2>4. QED BY <2>2, <2>3
<1>4. s.streamer => pos = s.pos + n
  OBVIOUS
<1> HIDE DEF left, sent, pos
<1>5. Counts(t, s, offset, s.lastCts, left, sent, pos, s.saved)
  <2> HIDE DEF offset
  <2>1. QED BY <1>2, MovedOnIs
<1> HIDE DEF t
<1>6. /\ t \in Stream /\ SameTransfer(t, s) /\ t.state = s.state /\ t.success = s.success
      /\ t.type = s.type /\ t.size = s.size /\ t.streamer = s.streamer
      /\ t.offset = s.offset + n /\ t.lastCts = s.lastCts /\ t.left = left
      /\ t.sent = sent /\ t.pos = pos /\ t.saved = s.saved
  BY <1>5 DEF Counts, SameTransfer
<1>7. Sound(t, a)
  <2>1. CASE s.type = "IsoTPbroadcast"
    <3>1. BroadcastOk(s)
      BY <2>1 DEF Sound
    <3>2. BroadcastOk(t)
      BY <1>1, <1>3, <1>4, <1>6, <2>1, <3>1 DEF BroadcastOk
    <3>3. QED BY <1>6, <2>1, <3>2 DEF Sound
  <2>2. CASE s.type = "NmeaFastPacket"
    <3>1. FastPacketOk(s)
      BY <2>2 DEF Sound
    <3>2. FastPacketOk(t)
      BY <1>1, <1>3, <1>4, <1>6, <2>2, <3>1 DEF FastPacketOk
    <3>3. QED BY <1>6, <2>2, <3>2 DEF Sound
  <2>3. CASE s.type \notin {"IsoTPbroadcast", "NmeaFastPacket"}
    <3>1. TransferOk(s, a)
      BY <2>3 DEF Sound
    <3>2. /\ s.lastCts >= 1 /\ s.offset = s.lastCts + s.sent - 1 /\ s.offset + s.left <= s.size
          /\ s.sent + s.left <= 255 /\ (s.type = "IsoETP" => a = s.lastCts - 1)
          /\ (s.type = "IsoTP" => s.size <= 255)
      BY <3>1 DEF TransferOk
    <3>3. s.streamer => s.saved = s.lastCts - 1 /\ s.pos = s.lastCts + s.sent - 1
      BY <3>1 DEF TransferOk
    <3>4. sent = s.sent + n /\ left = s.left - n
      BY <1>3, <2>3
    <3>5. t.streamer => t.saved = t.lastCts - 1 /\ t.pos = t.lastCts + t.sent - 1
      BY <1>1, <1>4, <1>6, <3>3, <3>4
    <3>6. t.offset = t.lastCts + t.sent - 1 /\ t.offset + t.left <= t.size /\ t.sent + t.left <= 255
      BY <1>1, <1>6, <3>2, <3>4
    <3>7. TransferOk(t, a)
      BY <1>6, <3>2, <3>5, <3>6 DEF TransferOk
    <3>8. QED BY <1>6, <2>3, <3>7 DEF Sound
  <2>4. QED BY <2>1, <2>2, <2>3
<1>8. QED BY <1>6, <1>7 DEF t, left, sent, pos

(* timeEvent() of a stream that sends.                                        *)
LEMMA SendDataHandled ==
  ASSUME NEW s \in Stream, NEW a \in Nat, Sound(s, a), s.state = "SendData", NEW count \in Nat
  PROVE  Handled(s, a, SendDataEvent(s, count), Range(DataMessages(s, count)))
<1> DEFINE n == PacketsNow(s, count)
           u == MovedOn(s, (s.left - n) % 256, (s.sent + n) % 256, s.offset + n,
                        IF s.streamer THEN s.pos + n ELSE s.pos)
           t == SendDataEvent(s, count)
           M == Range(DataMessages(s, count))
<1>1. n \in Nat /\ s.offset + n <= s.size /\ (s.type # "NmeaFastPacket" => n <= s.left)
  BY PacketsNowAre
<1>2. \A m \in M : m \in Message /\ m.kind = "DT" /\ Carries(s, a, m)
  <2>1. ASSUME NEW i \in 1..n
        PROVE  Packet(s, i) \in Message /\ Packet(s, i).kind = "DT" /\ Carries(s, a, Packet(s, i))
    <3> HIDE DEF n
    <3>1. i \in Nat /\ i >= 1 /\ s.offset + i <= s.size /\ (s.type # "NmeaFastPacket" => i <= s.left)
      <4>1. s.offset \in Nat /\ s.size \in Nat /\ s.left \in 0..255
        BY StreamFields
      <4>2. QED BY <1>1, <2>1, <4>1
    <3>2. QED BY <3>1, PacketIs
  <2>2. M = {Packet(s, i) : i \in 1..n}
    BY DEF DataMessages, Range
  <2> HIDE DEF M, n
  <2>3. QED BY <2>1, <2>2
<1>3. SendDataEvent(s, count) =
        CASE u.offset >= u.size ->
               IF TargetSpecific(u) THEN SwitchToState(u, "AwaitEndofmsgack", AwaitTime)
               ELSE [u EXCEPT !.success = "SendSuccess"]
          [] u.offset < u.size /\ u.left = 0 /\ u.type # "NmeaFastPacket" ->
               SwitchToState(u, "AwaitCts", AwaitTime)
          [] OTHER ->
               [u EXCEPT !.wait = CASE u.type = "IsoTPbroadcast" -> BamGap
                                    [] u.type = "NmeaFastPacket" -> 0
                                    [] OTHER -> Slack]
  BY DEF SendDataEvent, MovedOn
<1> HIDE DEF n, M
<1>4. /\ u \in Stream /\ SameTransfer(u, s) /\ u.success = s.success /\ u.state = "SendData"
      /\ Sound(u, a)
  BY <1>1, MovedOnSound
<1> HIDE DEF u, t
<1>5. \A v : SameTransfer(v, s) => \A b \in Nat : NewOffset(b, a, M) => b = a /\ Says(M, v, b)
  BY <1>2, CarriesMoves DEF NewOffset, Says
<1>6. ASSUME NEW v \in Stream, SameTransfer(v, u), Finished(v) \/ Sound(v, a)
      PROVE  Handled(s, a, v, M)
  <2>1. SameTransfer(v, s)
    BY <1>4, <1>6 DEF SameTransfer
  <2>2. M \subseteq Message
    BY <1>2
  <2>3. QED BY <1>5, <1>6, <2>1, <2>2 DEF Handled
<1>7. u.size \in Nat /\ u.offset \in Nat /\ u.left \in 0..255 /\ u.type \in MsgType
  BY <1>4, StreamFields
<1>8. ASSUME NEW state \in SendState, state # "SendData", TargetSpecific(u)
      PROVE  Handled(s, a, SwitchToState(u, state, AwaitTime), M)
  <2> DEFINE v == SwitchToState(u, state, AwaitTime)
  <2>1. v \in Stream /\ SameTransfer(v, u) /\ SameCounters(v, u) /\ v.state = state
    <3>1. AwaitTime \in Nat
      BY SendStreamAssumption
    <3>2. QED BY <1>4, <3>1, SwitchToStateIs
  <2> HIDE DEF v
  <2>2. Sound(v, a)
    BY <1>4, <1>8, <2>1, SoundWaits
  <2>3. Handled(s, a, v, M)
    BY <1>6, <2>1, <2>2
  <2>4. QED BY <2>3 DEF v
<1>9. CASE u.offset >= u.size /\ TargetSpecific(u)
  <2>1. t = SwitchToState(u, "AwaitEndofmsgack", AwaitTime)
    BY <1>3, <1>7, <1>9 DEF t
  <2>2. QED BY <1>8, <1>9, <2>1 DEF t, M, SendState
<1>10. CASE u.offset >= u.size /\ ~TargetSpecific(u)
  <2> DEFINE v == [u EXCEPT !.success = "SendSuccess"]
  <2>1. t = v
    BY <1>3, <1>7, <1>10 DEF t
  <2>2. v \in Stream /\ SameTransfer(v, u) /\ v.success = "SendSuccess"
    <3>1. "SendSuccess" \in SendSuccess
      BY DEF SendSuccess
    <3>2. QED BY <1>4, <3>1, SuccessSet
  <2> HIDE DEF v
  <2>3. Handled(s, a, v, M)
    BY <1>6, <2>2 DEF Finished
  <2>4. QED BY <2>1, <2>3 DEF t, M
<1>11. CASE u.offset < u.size /\ u.left = 0 /\ u.type # "NmeaFastPacket"
  <2>1. t = SwitchToState(u, "AwaitCts", AwaitTime)
    BY <1>3, <1>7, <1>11 DEF t
  <2>2. TargetSpecific(u)
    BY <1>4, <1>7, <1>11 DEF Sound, BroadcastOk, TargetSpecific, MsgType
  <2>3. QED BY <1>8, <2>1, <2>2 DEF t, M, SendState
<1>12. CASE u.offset < u.size /\ ~(u.left = 0 /\ u.type # "NmeaFastPacket")
  <2> DEFINE w == CASE u.type = "IsoTPbroadcast" -> BamGap
                    [] u.type = "NmeaFastPacket" -> 0
                    [] OTHER -> Slack
             v == [u EXCEPT !.wait = w]
  <2>1. t = v
    BY <1>3, <1>7, <1>12 DEF t
  <2>2. w \in Nat
    BY SendStreamAssumption
  <2> HIDE DEF w
  <2>3. v \in Stream /\ SameTransfer(v, u) /\ SameCounters(v, u) /\ v.state = u.state
    BY <1>4, <2>2, WaitSet
  <2> HIDE DEF v
  <2>4. Sound(v, a)
    BY <1>4, <2>3, SoundMoves
  <2>5. Handled(s, a, v, M)
    BY <1>6, <2>3, <2>4
  <2>6. QED BY <2>1, <2>5 DEF t, M
<1>13. QED BY <1>7, <1>9, <1>10, <1>11, <1>12

(* timeEvent() of a running stream whose time has come.                       *)
LEMMA TimeEventHandled ==
  ASSUME NEW s \in Stream, NEW a \in Nat, Sound(s, a), NEW count \in Nat
  PROVE  Handled(s, a, TimeEvent(s, count), Range(TimeEventMessages(s, count)))
<1>1. CASE s.state = "SendData"
  BY <1>1, SendDataHandled DEF TimeEvent, TimeEventMessages
<1>2. CASE s.state # "SendData"
  <2>1. TargetSpecific(s)
    BY <1>2, StreamFields DEF Sound, BroadcastOk, FastPacketOk, TargetSpecific, MsgType
  <2>2. TimeEvent(s, count) = AbortSend(s) /\ TimeEventMessages(s, count) = AbortMessages(s)
    BY <1>2, <2>1 DEF TimeEvent, TimeEventMessages
  <2>3. AbortSend(s) \in Stream /\ Finished(AbortSend(s))
    <3>1. "SendAborted" \in SendSuccess
      BY DEF SendSuccess
    <3>2. QED BY <3>1, SuccessSet DEF AbortSend, Finished
  <2>4. QED BY <2>2, <2>3, AbortMessagesAre, EndHandled
<1>3. QED BY <1>1, <1>2

-----------------------------------------------------------------------------
(* A new stream.                                                           *)

Blank(type, size, streamer, state) ==
  [type |-> type, size |-> size, streamer |-> streamer, state |-> state, success |-> "Running",
   offset |-> 0, lastCts |-> 1, left |-> 0, sent |-> 0, pos |-> 0, saved |-> 0, wait |-> 0]
FirstBurst(s, left) == [s EXCEPT !.left = left]
FirstFrame(s, offset, pos, lastCts) == [s EXCEPT !.offset = offset, !.pos = pos, !.lastCts = lastCts]

\* What a transfer is.
LEMMA TransferIs ==
  ASSUME NEW t \in Transfer
  PROVE  /\ t.type \in MsgType /\ t.size \in Nat /\ t.size >= 2 /\ t.streamer \in BOOLEAN
         /\ t.type \in {"IsoTP", "IsoTPbroadcast"} => t.size <= 255
         /\ t.type = "NmeaFastPacket" => t.size <= 32
<1>1. t \in [type : MsgType, size : Nat \ {0}, streamer : BOOLEAN] /\ t.size \in 2..MaxPackets(t.type)
  BY MultiSendAssumption
<1>2. t.type \in MsgType /\ t.size \in Nat /\ t.streamer \in BOOLEAN
  BY <1>1
<1>3. t.size >= 2 /\ t.size <= MaxPackets(t.type)
  <2> DEFINE most == MaxPackets(t.type)
  <2>1. most \in Nat
    BY DEF MaxPackets
  <2> HIDE DEF most
  <2>2. t.size \in 2..most
    BY <1>1 DEF most
  <2>3. QED BY <2>1, <2>2 DEF most
<1>4. /\ t.type \in {"IsoTP", "IsoTPbroadcast"} => MaxPackets(t.type) = 255
      /\ t.type = "NmeaFastPacket" => MaxPackets(t.type) = 32
  BY DEF MaxPackets
<1>5. QED BY <1>2, <1>3, <1>4

\* The fields of a stream before its protocol is looked at.
LEMMA BlankIs ==
  ASSUME NEW type \in MsgType, NEW size \in Nat, NEW streamer \in BOOLEAN, NEW state \in SendState,
         NEW time \in Nat
  PROVE  LET s == SwitchToState(Blank(type, size, streamer, state), state, time)
         IN  /\ s \in Stream /\ s.type = type /\ s.size = size /\ s.streamer = streamer
             /\ s.state = state /\ s.success = "Running"
             /\ s.offset = 0 /\ s.lastCts = 1 /\ s.left = 0 /\ s.sent = 0 /\ s.pos = 0 /\ s.saved = 0
<1> DEFINE r == Blank(type, size, streamer, state)
           s == SwitchToState(r, state, time)
<1>1. /\ r \in Stream /\ r.type = type /\ r.size = size /\ r.streamer = streamer
      /\ r.success = "Running"
      /\ r.offset = 0 /\ r.lastCts = 1 /\ r.left = 0 /\ r.sent = 0 /\ r.pos = 0 /\ r.saved = 0
  <2>1. "Running" \in SendSuccess /\ 0 \in 0..255
    BY DEF SendSuccess
  <2>2. r \in Stream
    BY <2>1 DEF Blank, Stream
  <2>3. QED BY <2>2 DEF Blank
<1> HIDE DEF r
<1>2. /\ s \in Stream /\ SameTransfer(s, r) /\ SameCounters(s, r)
      /\ s.state = state /\ s.success = r.success
  BY <1>1, SwitchToStateIs
<1> HIDE DEF s
<1>3. /\ s.type = type /\ s.size = size /\ s.streamer = streamer
      /\ s.offset = 0 /\ s.lastCts = 1 /\ s.left = 0 /\ s.sent = 0 /\ s.pos = 0 /\ s.saved = 0
  BY <1>1, <1>2 DEF SameTransfer, SameCounters
<1>4. s \in Stream /\ s.state = state /\ s.success = "Running"
  BY <1>1, <1>2
<1>5. QED BY <1>3, <1>4 DEF s, r

\* The burst of a broadcast.
LEMMA FirstBurstIs ==
  ASSUME NEW s \in Stream, NEW left \in 0..255
  PROVE  Counts(FirstBurst(s, left), s, s.offset, s.lastCts, left, s.sent, s.pos, s.saved)
<1>1. FirstBurst(s, left) \in Stream
  BY DEF FirstBurst, Stream
<1>2. QED BY <1>1 DEF FirstBurst, Counts, Stream, SameTransfer

\* The first frame of a fast packet.
LEMMA FirstFrameIs ==
  ASSUME NEW s \in Stream, NEW offset \in Nat, NEW pos \in Nat, NEW lastCts \in Nat
  PROVE  Counts(FirstFrame(s, offset, pos, lastCts), s, offset, lastCts, s.left, s.sent, pos, s.saved)
<1>1. FirstFrame(s, offset, pos, lastCts) \in Stream
  BY DEF FirstFrame, Stream
<1>2. QED BY <1>1 DEF FirstFrame, Counts, Stream, SameTransfer

(* init() opens a stream with counters that fit, and a first message.         *)
LEMMA NewStreamIs ==
  ASSUME NEW t \in Transfer
  PROVE  LET s == NewStream(t.type, t.size, t.streamer)
             M == Range(InitMessages(t.type, t.size))
         IN  /\ s \in Stream /\ ~Finished(s)
             /\ \A a \in Nat : Sound(s, a) /\ Says(M, s, a)
             /\ \A m \in M : m.kind # "DPO"
<1> DEFINE s == NewStream(t.type, t.size, t.streamer)
           M == Range(InitMessages(t.type, t.size))
           started(state, time) ==
             SwitchToState(Blank(t.type, t.size, t.streamer, state), state, time)
<1>1. /\ t.type \in MsgType /\ t.size \in Nat /\ t.size >= 2 /\ t.streamer \in BOOLEAN
      /\ t.type \in {"IsoTP", "IsoTPbroadcast"} => t.size <= 255
      /\ t.type = "NmeaFastPacket" => t.size <= 32
  BY TransferIs
<1>2. \A x : Range(<<x>>) = {x}
  BY DEF Range
<1>3. {"SendData", "AwaitCts"} \subseteq SendState /\ {BamGap, AwaitTime, 0} \subseteq Nat
  BY SendStreamAssumption DEF SendState
<1>4. CASE t.type = "IsoTPbroadcast"
  <2> DEFINE r == started("SendData", BamGap)
             left == t.size % 256
             bam == Msg("BAM", t.size, 0)
  <2>1. s = FirstBurst(r, left) /\ M = {bam}
    BY <1>2, <1>4 DEF NewStream, InitMessages, Blank, FirstBurst
  <2>2. left = t.size /\ left \in 0..255
    <3>1. t.size + 0 <= 255 /\ 0 \in Nat
      BY <1>1, <1>4
    <3>2. t.size + 0 = t.size
      BY <1>1
    <3>3. QED BY <1>1, <3>1, <3>2, NoWrap
  <2>3. /\ r \in Stream /\ r.type = t.type /\ r.size = t.size /\ r.streamer = t.streamer
        /\ r.state = "SendData" /\ r.success = "Running"
        /\ r.offset = 0 /\ r.lastCts = 1 /\ r.sent = 0 /\ r.pos = 0
    BY <1>1, <1>3, BlankIs
  <2> HIDE DEF r, left, s, M, started
  <2>4. Counts(FirstBurst(r, left), r, r.offset, r.lastCts, left, r.sent, r.pos, r.saved)
    BY <2>2, <2>3, FirstBurstIs
  <2>5. /\ s \in Stream /\ s.type = t.type /\ s.size = t.size /\ s.state = "SendData"
        /\ s.success = "Running" /\ s.offset = 0 /\ s.lastCts = 1 /\ s.left = t.size /\ s.sent = 0
        /\ s.pos = 0
    BY <2>1, <2>2, <2>3, <2>4 DEF Counts, SameTransfer
  <2>6. BroadcastOk(s)
    BY <1>1, <1>4, <2>5 DEF BroadcastOk
  <2>7. \A a : Sound(s, a)
    BY <1>4, <2>5, <2>6 DEF Sound
  <2>8. bam \in Message /\ bam.kind = "BAM"
    BY <1>1, MsgIs
  <2> HIDE DEF bam
  <2>9. (\A a : Says(M, s, a)) /\ \A m \in M : m.kind # "DPO"
    BY <2>1, <2>8 DEF Says
  <2>10. s \in Stream /\ ~Finished(s)
    BY <2>5 DEF Finished
  <2>11. QED BY <2>7, <2>9, <2>10 DEF s, M
<1>5. CASE t.type = "NmeaFastPacket"
  <2> DEFINE r == started("SendData", 0)
             pos == IF t.streamer THEN 1 ELSE 0
             dt == Msg("DT", 0, 1)
  <2>1. s = FirstFrame(r, 1, pos, 0) /\ M = {dt}
    BY <1>2, <1>5 DEF NewStream, InitMessages, Blank, FirstFrame
  <2>2. pos \in Nat /\ 1 \in Nat /\ 0 \in Nat /\ (t.streamer => pos = 1)
    OBVIOUS
  <2>3. /\ r \in Stream /\ r.type = t.type /\ r.size = t.size /\ r.streamer = t.streamer
        /\ r.state = "SendData" /\ r.success = "Running" /\ r.sent = 0
    BY <1>1, <1>3, BlankIs
  <2> HIDE DEF r, pos, s, M, started
  <2>4. Counts(FirstFrame(r, 1, pos, 0), r, 1, 0, r.left, r.sent, pos, r.saved)
    BY <2>2, <2>3, FirstFrameIs
  <2>5. /\ s \in Stream /\ s.type = t.type /\ s.size = t.size /\ s.streamer = t.streamer
        /\ s.state = "SendData"
        /\ s.success = "Running" /\ s.offset = 1 /\ s.lastCts = 0 /\ s.sent = 0 /\ s.pos = pos
    BY <2>1, <2>3, <2>4 DEF Counts, SameTransfer
  <2>6. FastPacketOk(s)
    BY <1>1, <1>5, <2>2, <2>5 DEF FastPacketOk
  <2>7. \A a : Sound(s, a)
    BY <1>5, <2>5, <2>6 DEF Sound
  <2>8. dt \in Message /\ dt.kind = "DT" /\ dt.n = 0 /\ dt.at = 1
    BY MsgIs
  <2> HIDE DEF dt
  <2>9. \A a : Carries(s, a, dt)
    BY <1>1, <1>5, <2>5, <2>8 DEF Carries
  <2>10. (\A a : Says(M, s, a)) /\ \A m \in M : m.kind # "DPO"
    BY <2>1, <2>8, <2>9 DEF Says
  <2>11. s \in Stream /\ ~Finished(s)
    BY <2>5 DEF Finished
  <2>12. QED BY <2>7, <2>10, <2>11 DEF s, M
<1>6. CASE t.type \notin {"IsoTPbroadcast", "NmeaFastPacket"}
  <2> DEFINE rts == Msg("RTS", t.size, 0)
  <2>1. s = started("AwaitCts", AwaitTime) /\ M = {rts}
    BY <1>2, <1>6 DEF NewStream, InitMessages, Blank
  <2>2. /\ s \in Stream /\ s.type = t.type /\ s.size = t.size /\ s.state = "AwaitCts"
        /\ s.success = "Running" /\ s.lastCts = 1 /\ s.sent = 0 /\ s.pos = 0 /\ s.saved = 0
    BY <1>1, <1>3, <2>1, BlankIs
  <2> HIDE DEF s, M, started
  <2>3. \A a : TransferOk(s, a)
    BY <1>1, <2>2 DEF TransferOk
  <2>4. \A a : Sound(s, a)
    BY <1>6, <2>2, <2>3 DEF Sound
  <2>5. rts \in Message /\ rts.kind = "RTS"
    BY <1>1, MsgIs
  <2> HIDE DEF rts
  <2>6. (\A a : Says(M, s, a)) /\ \A m \in M : m.kind # "DPO"
    BY <2>1, <2>5 DEF Says
  <2>7. s \in Stream /\ ~Finished(s)
    BY <2>2 DEF Finished
  <2>8. QED BY <2>4, <2>6, <2>7 DEF s, M
<1>7. QED BY <1>4, <1>5, <1>6

-----------------------------------------------------------------------------
(* What a handler does to the list and its streams, before its application  *)
(* may start the next one, and that each effect keeps Core.                 *)

\* The messages of stream i in W.
Of(W, i) == {w.msg : w \in {v \in W : v.from = i}}

\* The streams become ns, the notifications nt and the list q; W is put on the bus.
Effect(ns, nt, q, W) ==
  /\ ns \in Seq(Stream) /\ Len(ns) = born
  /\ nt \in Seq(Nat) /\ Len(nt) = born
  /\ \A i \in 1..born : nt[i] = IF Finished(ns[i]) THEN 1 ELSE 0
  /\ \A i \in 1..born : Finished(stream[i]) => Finished(ns[i])
  /\ q \in Seq(1..born) /\ IsInjective(q)
  /\ \A i \in 1..born : ~Finished(ns[i]) => i \in Range(q)
  /\ \A w \in W : w.from \in 1..born /\ w.msg \in Message
  /\ \A i \in 1..born, b \in Nat :
       NewOffset(b, announced[i], Of(W, i)) =>
         (Finished(ns[i]) \/ Sound(ns[i], b)) /\ Says(Of(W, i), ns[i], b)

\* The bounds of a scenario, and what it holds.
LEMMA ScenarioIs ==
  ASSUME Core
  PROVE  /\ scenario.streams \in Nat /\ scenario.streams <= MaxStreams /\ MaxStreams \in Nat
         /\ born \in Nat /\ born <= MaxStreams /\ 1..born \subseteq Id
         /\ \A p \in Pair : scenario.takes[p] \subseteq Transfer
         /\ scenario.left \subseteq 0..255 /\ scenario.nr \subseteq Nat /\ scenario.messages \in Nat
<1>1. scenario \in Scenarios /\ scenario.streams <= MaxStreams /\ MaxStreams \in Nat
  BY MultiSendAssumption DEF Core, Typed
<1>2. scenario.streams \in Nat /\ scenario.messages \in Nat
  BY <1>1 DEF Scenarios
<1>3. scenario.left \subseteq 0..255 /\ scenario.nr \subseteq Nat
  BY <1>1 DEF Scenarios
<1>4. \A p \in Pair : scenario.takes[p] \subseteq Transfer
  BY <1>1 DEF Scenarios
<1>5. born \in 0..scenario.streams
  BY DEF Core, Typed
<1>6. born \in Nat /\ born <= MaxStreams
  BY <1>1, <1>2, <1>5
<1>7. 1..born \subseteq Id
  BY <1>1, <1>6 DEF Id
<1>8. QED BY <1>1, <1>2, <1>3, <1>4, <1>6, <1>7

\* What Puts makes of the offsets announced.
LEMMA PutsIs ==
  ASSUME Core, NEW W, Puts(W), \A w \in W : w.msg \in Message
  PROVE  /\ wire' = W /\ announced' \in [Id -> Nat]
         /\ \A i \in Id : NewOffset(announced'[i], announced[i], Of(W, i))
<1> DEFINE dpo(i) == \E w \in W : w.from = i /\ w.msg.kind = "DPO"
           first(i) == CHOOSE w \in W : w.from = i /\ w.msg.kind = "DPO"
<1>1. wire' = W /\ announced' = [i \in Id |-> IF dpo(i) THEN first(i).msg.at ELSE announced[i]]
  BY DEF Puts
<1>2. announced \in [Id -> Nat]
  BY DEF Core, Typed
<1>3. \A i : dpo(i) => first(i) \in W /\ first(i).from = i /\ first(i).msg.kind = "DPO"
  OBVIOUS
<1> HIDE DEF first
<1>4. \A m \in Message : m.at \in Nat
  BY DEF Message
<1>5. ASSUME NEW i \in Id PROVE NewOffset(announced'[i], announced[i], Of(W, i)) /\ announced'[i] \in Nat
  <2>1. CASE dpo(i)
    <3>1. announced'[i] = first(i).msg.at /\ first(i).msg \in Of(W, i) /\ first(i).msg \in Message
      BY <1>1, <1>3, <2>1 DEF Of
    <3>2. QED BY <1>3, <1>4, <2>1, <3>1 DEF NewOffset
  <2>2. CASE ~dpo(i)
    <3>1. announced'[i] = announced[i]
      BY <1>1, <2>2
    <3>2. ~\E m \in Of(W, i) : m.kind = "DPO"
      BY <2>2 DEF Of
    <3>3. QED BY <1>2, <3>1, <3>2 DEF NewOffset
  <2>3. QED BY <2>1, <2>2
<1>6. DOMAIN announced' = Id /\ announced' = [i \in Id |-> announced'[i]]
  BY <1>1
<1>7. QED BY <1>1, <1>5, <1>6

\* A handler after which no stream was started.
LEMMA KeptKeeps ==
  ASSUME Core, UNCHANGED scenario, received' \in Nat, NEW ns, NEW nt, NEW q, NEW W,
         Effect(ns, nt, q, W), Kept(ns, nt, q), Puts(W)
  PROVE  Core'
<1>1. stream' = ns /\ told' = nt /\ list' = q /\ born' = born /\ pair' = pair /\ scenario' = scenario
  BY DEF Kept
<1>2. /\ wire' = W /\ announced' \in [Id -> Nat]
      /\ \A i \in Id : NewOffset(announced'[i], announced[i], Of(W, i))
  BY PutsIs DEF Effect
<1>3. 1..born \subseteq Id
  BY ScenarioIs
<1>4. ASSUME NEW i \in 1..born
      PROVE  /\ Finished(ns[i]) \/ Sound(ns[i], announced'[i])
             /\ Says(Of(W, i), ns[i], announced'[i])
  BY <1>2, <1>3 DEF Effect
<1>5. Typed'
  BY <1>1, <1>2 DEF Core, Typed, Effect
<1>6. Counters'
  BY <1>1, <1>4 DEF Counters
<1>7. OnWire'
  <2>1. ASSUME NEW w \in W
        PROVE  /\ w.from \in 1..born /\ w.msg \in Message
               /\ w.msg.kind = "DT" => Carries(ns[w.from], announced'[w.from], w.msg)
    <3>1. w.from \in 1..born /\ w.msg \in Message /\ w.msg \in Of(W, w.from)
      BY DEF Effect, Of
    <3>2. QED BY <1>4, <3>1 DEF Says
  <2>2. QED BY <1>1, <1>2, <2>1 DEF OnWire
<1>8. OneRunningPerPair'
  <2>1. ASSUME NEW i \in Range(q), NEW j \in Range(q), ~Finished(ns[i]), ~Finished(ns[j]),
               pair[i] = pair[j]
        PROVE  i = j
    <3>1. i \in 1..born /\ j \in 1..born
      BY <2>1 DEF Effect, Range
    <3>2. ~Finished(stream[i]) /\ ~Finished(stream[j])
      BY <2>1, <3>1 DEF Effect
    <3>3. i \in Running /\ j \in Running
      BY <3>1, <3>2 DEF Core, Lists, ToldOnceAndDriven, Running
    <3>4. QED BY <2>1, <3>3 DEF Core, Lists, OneRunningPerPair
  <2>2. QED BY <1>1, <2>1 DEF OneRunningPerPair, Running, InList
<1>9. ToldOnceAndDriven'
  <2>1. \A k, l \in 1..Len(q) : q[k] = q[l] => k = l
    BY DEF Effect, IsInjective
  <2>2. QED BY <1>1, <2>1 DEF Effect, ToldOnceAndDriven, InList
<1>10. QED BY <1>5, <1>6, <1>7, <1>8, <1>9 DEF Core, Lists

\* A handler from which the application started the next stream.
LEMMA StartedKeeps ==
  ASSUME Core, UNCHANGED scenario, received' \in Nat, NEW ns, NEW nt, NEW q, NEW W,
         Effect(ns, nt, q, W), NEW p \in Pair, NEW t \in Transfer, Started(ns, nt, q, p, t),
         NEW R, MayStart(p, R), \A i \in 1..born : ~Finished(ns[i]) => i \in R,
         Puts(W \union From(born + 1, InitMessages(t.type, t.size)))
  PROVE  Core'
<1> DEFINE s == NewStream(t.type, t.size, t.streamer)
           M == Range(InitMessages(t.type, t.size))
           U == From(born + 1, InitMessages(t.type, t.size))
           n == born + 1
<1>1. /\ stream' = Append(ns, s) /\ told' = Append(nt, 0) /\ list' = Append(q, n) /\ born' = n
      /\ pair' = Append(pair, p) /\ scenario' = scenario /\ born < scenario.streams
  BY DEF Started
<1>2. /\ s \in Stream /\ ~Finished(s)
      /\ \A a \in Nat : Sound(s, a) /\ Says(M, s, a)
      /\ \A m \in M : m.kind # "DPO"
  BY NewStreamIs
<1>3. U = {[from |-> n, msg |-> m] : m \in M}
  BY DEF From
<1> HIDE DEF s, M, U
<1>4. /\ born \in Nat /\ n \in Nat /\ 1..born \subseteq 1..n /\ n \in 1..n /\ n \notin 1..born
      /\ \A i \in 1..n : i \in 1..born \/ i = n
      /\ 1..n \subseteq Id /\ n \in 0..scenario.streams
  <2>1. born \in Nat /\ scenario.streams \in Nat /\ scenario.streams <= MaxStreams /\ MaxStreams \in Nat
    BY ScenarioIs
  <2>2. QED BY <1>1, <2>1 DEF Id
<1> HIDE DEF n
<1>5. /\ ns \in Seq(Stream) /\ Len(ns) = born /\ nt \in Seq(Nat) /\ Len(nt) = born
      /\ pair \in Seq(Pair) /\ Len(pair) = born
      /\ q \in Seq(1..born) /\ IsInjective(q) /\ Range(q) \subseteq 1..born
  BY DEF Core, Typed, Effect, Range
<1>6. /\ stream' \in Seq(Stream) /\ Len(stream') = n
      /\ \A i \in 1..born : stream'[i] = ns[i]
      /\ stream'[n] = s
  BY <1>1, <1>2, <1>4, <1>5 DEF n
<1>7. /\ told' \in Seq(Nat) /\ Len(told') = n
      /\ \A i \in 1..born : told'[i] = nt[i]
      /\ told'[n] = 0
  BY <1>1, <1>4, <1>5 DEF n
<1>8. /\ pair' \in Seq(Pair) /\ Len(pair') = n
      /\ \A i \in 1..born : pair'[i] = pair[i]
      /\ pair'[n] = p
  BY <1>1, <1>4, <1>5, SMTT(30) DEF n
<1>9. list' \in Seq(1..n) /\ IsInjective(list') /\ Range(list') = Range(q) \union {n}
  <2>1. q \in Seq(1..n) /\ n \notin Range(q)
    BY <1>4, <1>5
  <2>2. QED BY <1>1, <1>4, <1>5, <2>1, AppendedIs
<1>10. \A w \in U : w.from = n /\ w.msg \in M /\ w.msg \in Message
  <2>1. \A m \in M : m \in Message
    BY <1>2 DEF Says
  <2>2. QED BY <1>3, <2>1
<1>11. \A w \in W : w.from \in 1..born /\ w.msg \in Message
  BY DEF Effect
<1>12. /\ wire' = W \union U /\ announced' \in [Id -> Nat]
       /\ \A i \in Id : NewOffset(announced'[i], announced[i], Of(W \union U, i))
  <2>1. Puts(W \union U)
    BY DEF U
  <2>2. \A w \in W \union U : w.msg \in Message
    BY <1>10, <1>11
  <2>3. QED BY <2>1, <2>2, PutsIs
<1>13. ASSUME NEW i \in 1..born PROVE Of(W \union U, i) = Of(W, i)
  BY <1>4, <1>10 DEF Of
<1>14. Of(W \union U, n) \subseteq M
  BY <1>4, <1>10, <1>11 DEF Of
<1>15. ASSUME NEW i \in 1..n
       PROVE  /\ Finished(stream'[i]) \/ Sound(stream'[i], announced'[i])
              /\ Says(Of(W \union U, i), stream'[i], announced'[i])
  <2>1. announced'[i] \in Nat /\ NewOffset(announced'[i], announced[i], Of(W \union U, i))
    BY <1>4, <1>12
  <2>2. CASE i \in 1..born
    <3>1. NewOffset(announced'[i], announced[i], Of(W, i))
      BY <1>13, <2>1, <2>2
    <3>2. (Finished(ns[i]) \/ Sound(ns[i], announced'[i])) /\ Says(Of(W, i), ns[i], announced'[i])
      BY <2>1, <2>2, <3>1 DEF Effect
    <3>3. QED BY <1>6, <1>13, <2>2, <3>2
  <2>3. CASE i = n
    <3>1. Sound(s, announced'[i]) /\ Says(M, s, announced'[i])
      BY <1>2, <2>1
    <3>2. Says(Of(W \union U, i), s, announced'[i])
      BY <1>14, <2>3, <3>1 DEF Says
    <3>3. QED BY <1>6, <2>3, <3>1, <3>2
  <2>4. QED BY <1>4, <2>2, <2>3
<1>16. Typed'
  BY <1>1, <1>4, <1>6, <1>7, <1>8, <1>9, <1>12 DEF Core, Typed
<1>17. Counters'
  BY <1>1, <1>15 DEF Counters
<1>18. OnWire'
  <2>1. ASSUME NEW w \in W \union U
        PROVE  /\ w.from \in 1..n /\ w.msg \in Message
               /\ w.msg.kind = "DT" => Carries(stream'[w.from], announced'[w.from], w.msg)
    <3>1. w.from \in 1..n /\ w.msg \in Message
      BY <1>4, <1>10, <1>11
    <3>2. w.msg \in Of(W \union U, w.from)
      BY DEF Of
    <3>3. QED BY <1>15, <3>1, <3>2 DEF Says
  <2>2. QED BY <1>1, <1>12, <2>1 DEF OnWire
<1>19. OneRunningPerPair'
  <2>1. ASSUME NEW i \in 1..born, ~Finished(ns[i]) PROVE i \in Running /\ pair[i] # p
    <3>1. ~Finished(stream[i])
      BY <2>1 DEF Effect
    <3>2. i \in Running
      BY <3>1 DEF Core, Lists, ToldOnceAndDriven, Running
    <3>3. QED BY <2>1, <3>2 DEF MayStart
  <2>2. ASSUME NEW i \in 1..n, NEW j \in 1..n, ~Finished(stream'[i]), ~Finished(stream'[j]),
               pair'[i] = pair'[j]
        PROVE  i = j
    <3>1. CASE i \in 1..born /\ j \in 1..born
      <4>1. i \in Running /\ j \in Running /\ pair[i] = pair[j]
        BY <1>6, <1>8, <2>1, <2>2, <3>1
      <4>2. QED BY <4>1 DEF Core, Lists, OneRunningPerPair
    <3>2. CASE i \in 1..born /\ j = n
      BY <1>6, <1>8, <2>1, <2>2, <3>2
    <3>3. CASE i = n /\ j \in 1..born
      BY <1>6, <1>8, <2>1, <2>2, <3>3
    <3>4. QED BY <1>4, <3>1, <3>2, <3>3
  <2>3. InList' \subseteq 1..n
    BY <1>4, <1>5, <1>9 DEF InList
  <2>4. QED BY <2>2, <2>3 DEF OneRunningPerPair, Running
<1>20. ToldOnceAndDriven'
  <2>1. ASSUME NEW i \in 1..n PROVE told'[i] = IF Finished(stream'[i]) THEN 1 ELSE 0
    <3>1. CASE i \in 1..born
      BY <1>6, <1>7, <3>1 DEF Effect
    <3>2. CASE i = n
      BY <1>2, <1>6, <1>7, <3>2
    <3>3. QED BY <1>4, <3>1, <3>2
  <2>2. ASSUME NEW i \in 1..n, ~Finished(stream'[i]) PROVE i \in InList'
    <3>1. CASE i \in 1..born
      BY <1>6, <1>9, <2>2, <3>1 DEF Effect, InList
    <3>2. CASE i = n
      BY <1>9, <3>2 DEF InList
    <3>3. QED BY <1>4, <3>1, <3>2
  <2>3. \A k, l \in 1..Len(list') : list'[k] = list'[l] => k = l
    BY <1>9 DEF IsInjective
  <2>4. QED BY <1>1, <2>1, <2>2, <2>3 DEF ToldOnceAndDriven
<1>21. QED BY <1>16, <1>17, <1>18, <1>19, <1>20 DEF Core, Lists

\* One stream was handled; it may leave the list when it has ended.
LEMMA OneHandled ==
  ASSUME Core, NEW i \in 1..born, ~Finished(stream[i]), NEW new, NEW ms,
         Handled(stream[i], announced[i], new, Range(ms)),
         NEW q, q \in Seq(1..born), IsInjective(q),
         \A j \in InList : j \in Range(q) \/ (j = i /\ Finished(new))
  PROVE  Effect([stream EXCEPT ![i] = new], TellIfEnded(i, new), q, From(i, ms))
<1> DEFINE ns == [stream EXCEPT ![i] = new]
           nt == TellIfEnded(i, new)
           W == From(i, ms)
           M == Range(ms)
<1>1. new \in Stream /\ M \subseteq Message
  BY DEF Handled
<1>2. /\ stream \in Seq(Stream) /\ Len(stream) = born /\ told \in Seq(Nat) /\ Len(told) = born
      /\ born \in Nat
  BY ScenarioIs DEF Core, Typed
<1>3. /\ ns \in Seq(Stream) /\ Len(ns) = born /\ ns[i] = new
      /\ \A j \in 1..born : j # i => ns[j] = stream[j]
  BY <1>1, <1>2
<1>4. told[i] = 0 /\ \A j \in 1..born : told[j] = IF Finished(stream[j]) THEN 1 ELSE 0
  BY DEF Core, Lists, ToldOnceAndDriven
<1>5. /\ nt \in Seq(Nat) /\ Len(nt) = born
      /\ \A j \in 1..born : nt[j] = IF Finished(ns[j]) THEN 1 ELSE 0
  <2> DEFINE x == IF EndsNow(stream[i], new) THEN told[i] + 1 ELSE told[i]
  <2>1. nt = [told EXCEPT ![i] = x]
    BY DEF TellIfEnded
  <2>2. x \in Nat /\ x = IF Finished(new) THEN 1 ELSE 0
    BY <1>4 DEF EndsNow
  <2> HIDE DEF x
  <2>3. /\ nt \in Seq(Nat) /\ Len(nt) = born /\ nt[i] = x
        /\ \A j \in 1..born : j # i => nt[j] = told[j]
    BY <1>2, <2>1, <2>2
  <2> HIDE DEF nt, ns
  <2>4. QED BY <1>3, <1>4, <2>2, <2>3
<1>6. \A w \in W : w.from = i /\ w.msg \in M
  BY DEF From
<1>7. Of(W, i) = M /\ \A j \in 1..born : j # i => Of(W, j) = {}
  <2>1. W = {[from |-> i, msg |-> m] : m \in M}
    BY DEF From
  <2> HIDE DEF W, M
  <2>2. ASSUME NEW m \in M PROVE m \in Of(W, i)
    <3>1. [from |-> i, msg |-> m] \in W
      BY <2>1
    <3>2. [from |-> i, msg |-> m].from = i /\ [from |-> i, msg |-> m].msg = m
      OBVIOUS
    <3>3. QED BY <3>1, <3>2 DEF Of
  <2>3. \A w \in W : w.from = i /\ w.msg \in M
    BY <2>1
  <2>4. QED BY <2>2, <2>3 DEF Of
<1> HIDE DEF ns, nt, W, M
<1>8. ASSUME NEW j \in 1..born, NEW b \in Nat, NewOffset(b, announced[j], Of(W, j))
      PROVE  (Finished(ns[j]) \/ Sound(ns[j], b)) /\ Says(Of(W, j), ns[j], b)
  <2>1. CASE j = i
    BY <1>3, <1>7, <1>8, <2>1 DEF Handled, M
  <2>2. CASE j # i
    <3>1. b = announced[j] /\ Of(W, j) = {}
      BY <1>7, <1>8, <2>2 DEF NewOffset
    <3>2. Finished(stream[j]) \/ Sound(stream[j], announced[j])
      BY DEF Core, Counters
    <3>3. QED BY <1>3, <2>2, <3>1, <3>2 DEF Says
  <2>3. QED BY <2>1, <2>2
<1>9. \A j \in 1..born : Finished(stream[j]) => Finished(ns[j])
  BY <1>3
<1>10. ASSUME NEW j \in 1..born, ~Finished(ns[j]) PROVE j \in Range(q)
  <2>1. ~Finished(stream[j]) /\ (j = i => ~Finished(new))
    BY <1>3, <1>9, <1>10
  <2>2. j \in InList
    BY <2>1 DEF Core, Lists, ToldOnceAndDriven
  <2>3. QED BY <2>1, <2>2
<1>11. \A w \in W : w.from \in 1..born /\ w.msg \in Message
  BY <1>1, <1>6
<1>12. Effect(ns, nt, q, W)
  BY <1>3, <1>5, <1>8, <1>9, <1>10, <1>11 DEF Effect
<1>13. QED BY <1>12 DEF ns, nt, W

-----------------------------------------------------------------------------
(* The operations keep Core.                                               *)

\* Nothing is done to the streams.
LEMMA NothingDone ==
  ASSUME Core
  PROVE  Effect(stream, told, list, {})
<1>1. \A i : Of({}, i) = {}
  BY DEF Of
<1>2. \A i \in 1..born : Finished(stream[i]) \/ Sound(stream[i], announced[i])
  BY DEF Core, Counters
<1>3. \A i \in 1..born : told[i] = IF Finished(stream[i]) THEN 1 ELSE 0
  BY DEF Core, Lists, ToldOnceAndDriven
<1>4. \A i \in 1..born : ~Finished(stream[i]) => i \in Range(list)
  BY DEF Core, Lists, ToldOnceAndDriven, InList
<1>5. QED BY <1>1, <1>2, <1>3, <1>4 DEF Core, Typed, Effect, NewOffset, Says

\* A silent step.
LEMMA SilentPuts ==
  ASSUME Core, Silent
  PROVE  Puts({})
<1>1. announced = [i \in Id |-> announced[i]]
  BY DEF Core, Typed
<1>2. announced' = announced /\ wire' = {}
  BY DEF Silent
<1>3. [i \in Id |-> IF \E w \in {} : w.from = i /\ w.msg.kind = "DPO"
                    THEN (CHOOSE w \in {} : w.from = i /\ w.msg.kind = "DPO").msg.at
                    ELSE announced[i]] = [i \in Id |-> announced[i]]
  OBVIOUS
<1>4. QED BY <1>1, <1>2, <1>3 DEF Puts

\* The application was told of the end of stream i and started the next one.
LEMMA StartedAgainKeeps ==
  ASSUME Core, UNCHANGED scenario, received' \in Nat, NEW ns, NEW nt, NEW q, NEW W,
         Effect(ns, nt, q, W), NEW i \in 1..born, Finished(ns[i]), StartedAgain(i, ns, nt, q, W)
  PROVE  Core'
<1>1. PICK t \in scenario.takes[pair[i]] :
        /\ MayStart(pair[i], Running \ {i})
        /\ Started(ns, nt, q, pair[i], t)
        /\ Puts(W \union From(born + 1, InitMessages(t.type, t.size)))
  BY DEF StartedAgain
<1>2. pair[i] \in Pair
  BY DEF Core, Typed
<1>3. t \in Transfer
  BY <1>2, ScenarioIs
<1>4. ASSUME NEW j \in 1..born, ~Finished(ns[j]) PROVE j \in Running \ {i}
  <2>1. ~Finished(stream[j]) /\ j # i
    BY <1>4 DEF Effect
  <2>2. QED BY <2>1 DEF Core, Lists, ToldOnceAndDriven, Running
<1>5. QED BY <1>1, <1>2, <1>3, <1>4, StartedKeeps

\* A listed stream that is not over.
LEMMA RunningIs ==
  ASSUME Core, NEW i \in InList, ~Finished(stream[i])
  PROVE  /\ i \in 1..born /\ stream[i] \in Stream /\ announced[i] \in Nat
         /\ Sound(stream[i], announced[i])
<1>1. i \in 1..born
  BY DEF Core, Typed, InList, Range
<1>2. i \in Id
  BY <1>1, ScenarioIs
<1>3. QED BY <1>1, <1>2 DEF Core, Typed, Counters

\* addSendStream() keeps the core: none runs on the pair.
LEMMA SendKeeps ==
  ASSUME Core, UNCHANGED scenario, received \in Nat, NEW p \in Pair, NEW t, Send(p, t)
  PROVE  Core'
<1>1. t \in Transfer
  BY ScenarioIs DEF Send
<1>2. \A i \in 1..born : ~Finished(stream[i]) => i \in Running
  BY DEF Core, Lists, ToldOnceAndDriven, Running
<1>3. {} \union From(born + 1, InitMessages(t.type, t.size)) = From(born + 1, InitMessages(t.type, t.size))
  OBVIOUS
<1>4. Puts({} \union From(born + 1, InitMessages(t.type, t.size)))
  BY <1>3 DEF Send
<1>5. MayStart(p, Running) /\ Started(stream, told, list, p, t) /\ received' \in Nat
  BY DEF Send
<1>6. QED BY <1>1, <1>2, <1>4, <1>5, NothingDone, StartedKeeps

\* processMsg() keeps the core.
LEMMA ReceiveKeeps ==
  ASSUME Core, UNCHANGED scenario, NEW p, NEW m, m.n \in 0..255, m.at \in Nat, NEW again,
         Receive(p, m, again)
  PROVE  Core'
<1>1. PICK i \in RunningOn(p) :
       LET new == ProcessMsg(stream[i], m)
           streams == [stream EXCEPT ![i] = new]
       IN  /\ again => EndsNow(stream[i], new)
           /\ LET W == From(i, ProcessMsgMessages(stream[i], m))
              IN  IF again
                  THEN StartedAgain(i, streams, TellIfEnded(i, new), list, W)
                  ELSE Kept(streams, TellIfEnded(i, new), list) /\ Puts(W)
  BY DEF Receive
<1> DEFINE new == ProcessMsg(stream[i], m)
           ms == ProcessMsgMessages(stream[i], m)
           ns == [stream EXCEPT ![i] = new]
<1>2. i \in InList /\ ~Finished(stream[i])
  BY DEF RunningOn, Running
<1>3. i \in 1..born /\ stream[i] \in Stream /\ announced[i] \in Nat /\ Sound(stream[i], announced[i])
  BY <1>2, RunningIs
<1>4. Handled(stream[i], announced[i], new, Range(ms))
  BY <1>2, <1>3, ProcessMsgHandled
<1>5. received' \in Nat
  BY DEF Core, Typed, Receive
<1>6. list \in Seq(1..born) /\ IsInjective(list) /\ \A j \in InList : j \in Range(list)
  BY DEF Core, Typed, InList
<1>7. stream \in Seq(Stream) /\ Len(stream) = born
  BY DEF Core, Typed
<1> HIDE DEF new, ms
<1>8. Effect(ns, TellIfEnded(i, new), list, From(i, ms))
  <2>1. \A j \in InList : j \in Range(list) \/ (j = i /\ Finished(new))
    BY <1>6
  <2>2. QED BY <1>2, <1>3, <1>4, <1>6, OneHandled, <2>1
<1>9. ns[i] = new
  BY <1>3, <1>7
<1>10. CASE again
  <2>1. EndsNow(stream[i], new) /\ StartedAgain(i, ns, TellIfEnded(i, new), list, From(i, ms))
    BY <1>1, <1>10 DEF new, ms
  <2>2. Finished(ns[i])
    BY <1>9, <2>1 DEF EndsNow
  <2> HIDE DEF ns
  <2>3. QED BY <1>3, <1>5, <1>8, <2>1, <2>2, StartedAgainKeeps
<1>11. CASE ~again
  <2>1. Kept(ns, TellIfEnded(i, new), list) /\ Puts(From(i, ms))
    BY <1>1, <1>11 DEF new, ms
  <2> HIDE DEF ns
  <2>2. QED BY <1>5, <1>8, <2>1, KeptKeeps
<1>12. QED BY <1>10, <1>11

\* What abortSend() makes of a stream.
LEMMA AbortedIs ==
  ASSUME NEW s \in Stream
  PROVE  AbortSend(s) \in Stream /\ Finished(AbortSend(s)) /\ AbortSend(s).wait = s.wait
<1>1. "SendAborted" \in SendSuccess
  BY DEF SendSuccess
<1>2. QED BY <1>1, SuccessSet DEF AbortSend, Finished

\* abortSend() of one pair keeps the core.
LEMMA AbortSendOfPairKeeps ==
  ASSUME Core, UNCHANGED scenario, received \in Nat, NEW p, AbortSendOfPair(p)
  PROVE  Core'
<1>1. PICK i \in RunningOn(p) :
        /\ Kept([stream EXCEPT ![i] = AbortSend(@)], [told EXCEPT ![i] = @ + 1], list)
        /\ Puts(From(i, AbortMessages(stream[i])))
  BY DEF AbortSendOfPair
<1> DEFINE new == AbortSend(stream[i])
           ms == AbortMessages(stream[i])
<1>2. i \in InList /\ ~Finished(stream[i])
  BY DEF RunningOn, Running
<1>3. i \in 1..born /\ stream[i] \in Stream /\ announced[i] \in Nat
  BY <1>2, RunningIs
<1>4. new \in Stream /\ Finished(new)
  BY <1>3, AbortedIs
<1>5. Handled(stream[i], announced[i], new, Range(ms))
  BY <1>3, <1>4, AbortMessagesAre, EndHandled
<1>6. list \in Seq(1..born) /\ IsInjective(list) /\ \A j \in InList : j \in Range(list)
  BY DEF Core, Typed, InList
<1>7. Kept([stream EXCEPT ![i] = new], TellIfEnded(i, new), list)
  <2>1. EndsNow(stream[i], new)
    BY <1>2, <1>4 DEF EndsNow
  <2>2. TellIfEnded(i, new) = [told EXCEPT ![i] = @ + 1]
    BY <2>1 DEF TellIfEnded
  <2>3. QED BY <1>1, <2>2
<1>8. received' \in Nat
  BY DEF AbortSendOfPair
<1>9. Puts(From(i, ms))
  BY <1>1
<1> HIDE DEF new, ms
<1>10. Effect([stream EXCEPT ![i] = new], TellIfEnded(i, new), list, From(i, ms))
  <2>1. \A j \in InList : j \in Range(list) \/ (j = i /\ Finished(new))
    BY <1>6
  <2>2. QED BY <1>2, <1>3, <1>5, <1>6, OneHandled, <2>1
<1>11. QED BY <1>7, <1>8, <1>9, <1>10, KeptKeeps

\* abortSend() of all streams of a handler keeps the core.
LEMMA AbortSendOfHandlerKeeps ==
  ASSUME Core, UNCHANGED scenario, received \in Nat, NEW h, NEW again, AbortSendOfHandler(h, again)
  PROVE  Core'
<1> DEFINE hit == Aborted(h)
           ns == [i \in DOMAIN stream |-> IF i \in hit THEN AbortSend(stream[i]) ELSE stream[i]]
           nt == [i \in DOMAIN told |-> IF i \in hit THEN told[i] + 1 ELSE told[i]]
           W == UNION {From(i, AbortMessages(stream[i])) : i \in hit}
<1>1. /\ IF again THEN \E i \in hit : StartedAgain(i, ns, nt, list, W)
         ELSE Kept(ns, nt, list) /\ Puts(W)
      /\ received' \in Nat
  BY DEF AbortSendOfHandler
<1>2. /\ stream \in Seq(Stream) /\ Len(stream) = born /\ told \in Seq(Nat) /\ Len(told) = born
      /\ born \in Nat
  BY ScenarioIs DEF Core, Typed
<1>3. \A i \in hit : i \in InList /\ ~Finished(stream[i]) /\ i \in 1..born
  BY RunningIs DEF Aborted, Running
<1> HIDE DEF hit
<1>4. \A i \in hit : AbortSend(stream[i]) \in Stream /\ Finished(AbortSend(stream[i]))
  BY <1>2, <1>3, AbortedIs
<1>5. /\ ns \in Seq(Stream) /\ Len(ns) = born
      /\ \A i \in hit : ns[i] = AbortSend(stream[i])
      /\ \A i \in 1..born : i \notin hit => ns[i] = stream[i]
  <2>1. DOMAIN stream = 1..born
    BY <1>2
  <2>2. \A i \in 1..born : stream[i] \in Stream
    BY <1>2
  <2>3. ns \in [1..born -> Stream]
    BY <1>4, <2>1, <2>2
  <2>4. QED BY <1>2, <1>3, <2>1, <2>3
<1>6. /\ nt \in Seq(Nat) /\ Len(nt) = born
      /\ \A i \in hit : nt[i] = told[i] + 1
      /\ \A i \in 1..born : i \notin hit => nt[i] = told[i]
  <2>1. DOMAIN told = 1..born
    BY <1>2
  <2>2. \A i \in 1..born : told[i] \in Nat
    BY <1>2
  <2>3. nt \in [1..born -> Nat]
    BY <2>1, <2>2
  <2>4. QED BY <1>2, <1>3, <2>1, <2>3
<1>7. \A w \in W : w.from \in hit /\ w.msg \in Message /\ w.msg.kind = "ConnAbort"
  BY AbortMessagesAre DEF From
<1> HIDE DEF ns, nt, W
<1>8. Effect(ns, nt, list, W)
  <2>1. \A i \in 1..born : told[i] = IF Finished(stream[i]) THEN 1 ELSE 0
    BY DEF Core, Lists, ToldOnceAndDriven
  <2>2. ASSUME NEW i \in 1..born PROVE nt[i] = IF Finished(ns[i]) THEN 1 ELSE 0
    <3>1. CASE i \in hit
      <4>1. told[i] = 0
        BY <1>3, <2>1, <3>1
      <4>2. QED BY <1>4, <1>5, <1>6, <3>1, <4>1
    <3>2. CASE i \notin hit
      BY <1>5, <1>6, <2>1, <3>2
    <3>3. QED BY <3>1, <3>2
  <2>3. ASSUME NEW i \in 1..born, Finished(stream[i]) PROVE Finished(ns[i])
    BY <1>3, <1>5, <2>3
  <2>4. ASSUME NEW i \in 1..born, ~Finished(ns[i]) PROVE i \in Range(list)
    <3>1. ~Finished(stream[i])
      BY <2>3, <2>4
    <3>2. QED BY <3>1 DEF Core, Lists, ToldOnceAndDriven, InList
  <2>5. \A w \in W : w.from \in 1..born /\ w.msg \in Message
    BY <1>3, <1>7
  <2>6. ASSUME NEW i \in 1..born, NEW b \in Nat, NewOffset(b, announced[i], Of(W, i))
        PROVE  (Finished(ns[i]) \/ Sound(ns[i], b)) /\ Says(Of(W, i), ns[i], b)
    <3>1. \A m \in Of(W, i) : m \in Message /\ m.kind = "ConnAbort"
      BY <1>7 DEF Of
    <3>2. b = announced[i]
      BY <2>6, <3>1 DEF NewOffset
    <3>3. Says(Of(W, i), ns[i], b)
      BY <3>1 DEF Says
    <3>4. Finished(ns[i]) \/ Sound(ns[i], b)
      <4>1. CASE i \in hit
        BY <1>4, <1>5, <4>1
      <4>2. CASE i \notin hit
        BY <1>5, <3>2, <4>2 DEF Core, Counters
      <4>3. QED BY <4>1, <4>2
    <3>5. QED BY <3>3, <3>4
  <2>7. list \in Seq(1..born) /\ IsInjective(list)
    BY DEF Core, Typed
  <2>8. QED BY <1>5, <1>6, <2>2, <2>3, <2>4, <2>5, <2>6, <2>7 DEF Effect
<1>9. CASE again
  <2>1. PICK i \in hit : StartedAgain(i, ns, nt, list, W)
    BY <1>1, <1>9
  <2>2. i \in 1..born /\ Finished(ns[i])
    BY <1>3, <1>4, <1>5
  <2>3. QED BY <1>1, <1>8, <2>1, <2>2, StartedAgainKeeps
<1>10. CASE ~again
  BY <1>1, <1>8, <1>10, KeptKeeps
<1>11. QED BY <1>9, <1>10

\* A step that leaves the list alone keeps the core.
LEMMA QuietKeeps ==
  ASSUME Core, UNCHANGED scenario, UNCHANGED listVars, UNCHANGED received, Silent
  PROVE  Core'
<1>1. Kept(stream, told, list) /\ received' \in Nat
  BY DEF Kept, listVars, Core, Typed
<1>2. QED BY <1>1, NothingDone, SilentPuts, KeptKeeps

\* Erasing a stream that is over keeps the core.
LEMMA EraseFinishedKeeps ==
  ASSUME Core, UNCHANGED scenario, EraseFinished
  PROVE  Core'
<1> DEFINE q == RemoveAt(list, loop)
<1>1. /\ loop \in 1..Len(list) /\ Finished(stream[list[loop]]) /\ list' = q /\ Silent
      /\ UNCHANGED <<stream, pair, born, told, received>>
  BY DEF EraseFinished
<1>2. list \in Seq(1..born) /\ IsInjective(list)
  BY DEF Core, Typed
<1>3. q \in Seq(1..born) /\ IsInjective(q) /\ Range(q) = Range(list) \ {list[loop]}
  BY <1>1, <1>2, RemovedAt, RemovedAtIs
<1> HIDE DEF q
<1>4. Effect(stream, told, list, {})
  BY NothingDone
<1>5. Effect(stream, told, q, {})
  BY <1>1, <1>3, <1>4 DEF Effect
<1>6. Kept(stream, told, q) /\ received' \in Nat
  BY <1>1 DEF Kept, Core, Typed
<1>7. QED BY <1>1, <1>5, <1>6, SilentPuts, KeptKeeps

\* The visit of a stream whose time has come keeps the core.
LEMMA VisitStreamKeeps ==
  ASSUME Core, Timing, UNCHANGED scenario, NEW again, VisitStream(again)
  PROVE  Core'
<1> DEFINE i == list[loop]
           new == TimeEvent(stream[i], pkgCnt)
           ms == TimeEventMessages(stream[i], pkgCnt)
           ns == [stream EXCEPT ![i] = new]
           nt == TellIfEnded(i, new)
           q == AfterVisit(Finished(new))
           W == From(i, ms)
<1>1. /\ loop \in 1..Len(list) /\ ~Finished(stream[i]) /\ (again => Finished(new))
      /\ again => StartedAgain(i, ns, nt, q, W)
      /\ ~again => Kept(ns, nt, q) /\ Puts(W)
      /\ received' = received
  BY DEF VisitStream
<1>2. list \in Seq(1..born) /\ IsInjective(list)
  BY DEF Core, Typed
<1>3. i \in InList
  BY <1>1, <1>2 DEF InList, Range
<1>4. i \in 1..born /\ stream[i] \in Stream /\ announced[i] \in Nat /\ Sound(stream[i], announced[i])
  BY <1>1, <1>3, RunningIs
<1>5. Handled(stream[i], announced[i], new, Range(ms))
  BY <1>4, TimeEventHandled DEF Timing
<1>6. q \in Seq(1..born) /\ IsInjective(q) /\ \A j \in InList : j \in Range(q) \/ (j = i /\ Finished(new))
  <2> HIDE DEF new
  <2>1. CASE Finished(new)
    <3>1. q = RemoveAt(list, loop)
      BY <2>1 DEF AfterVisit
    <3>2. q \in Seq(1..born) /\ IsInjective(q) /\ Range(q) = Range(list) \ {i}
      BY <1>1, <1>2, <3>1, RemovedAt, RemovedAtIs
    <3> HIDE DEF q
    <3>3. QED BY <2>1, <3>2 DEF InList
  <2>2. CASE ~Finished(new)
    <3>1. q = list
      BY <2>2 DEF AfterVisit
    <3> HIDE DEF q
    <3>2. \A j \in InList : j \in Range(q)
      BY <3>1 DEF InList
    <3> HIDE DEF i
    <3>3. QED BY <1>2, <3>1, <3>2
  <2>3. QED BY <2>1, <2>2
<1>7. stream \in Seq(Stream) /\ Len(stream) = born /\ received' \in Nat
  BY <1>1 DEF Core, Typed
<1> HIDE DEF i, new, ms, q
<1>8. Effect(ns, nt, q, W)
  BY <1>1, <1>4, <1>5, <1>6, OneHandled
<1>9. ns[i] = new
  BY <1>4, <1>7
<1> HIDE DEF ns, nt, W
<1>10. CASE again
  <2>1. Finished(ns[i]) /\ StartedAgain(i, ns, nt, q, W)
    BY <1>1, <1>9, <1>10
  <2>2. QED BY <1>4, <1>7, <1>8, <2>1, StartedAgainKeeps
<1>11. CASE ~again
  BY <1>1, <1>7, <1>8, <1>11, KeptKeeps
<1>12. QED BY <1>10, <1>11

\* Time passing keeps the core.
LEMMA TickKeeps ==
  ASSUME Core, UNCHANGED scenario, Tick
  PROVE  /\ Core' /\ Len(stream') = Len(stream)
         /\ \A i \in InList : stream'[i].wait = IF stream[i].wait > 0 THEN stream[i].wait - 1 ELSE 0
<1> DEFINE ns == [i \in DOMAIN stream |-> IF i \in InList THEN Elapse(stream[i]) ELSE stream[i]]
<1>1. stream' = ns /\ Silent /\ UNCHANGED <<list, pair, born, told, received>>
  BY DEF Tick
<1>2. stream \in Seq(Stream) /\ Len(stream) = born /\ born \in Nat
  BY ScenarioIs DEF Core, Typed
<1>3. InList \subseteq 1..born
  BY DEF Core, Typed, InList, Range
<1>4. ASSUME NEW s \in Stream
      PROVE  LET t == Elapse(s)
             IN  /\ t \in Stream /\ SameTransfer(t, s) /\ SameCounters(t, s)
                 /\ t.state = s.state /\ t.success = s.success
                 /\ t.wait = IF s.wait > 0 THEN s.wait - 1 ELSE 0
  <2> DEFINE w == IF s.wait > 0 THEN s.wait - 1 ELSE 0
             t == [s EXCEPT !.wait = w]
  <2>1. w \in Nat
    BY StreamFields
  <2>2. Elapse(s) = t
    BY DEF Elapse
  <2> HIDE DEF w
  <2>3. /\ t \in Stream /\ SameTransfer(t, s) /\ SameCounters(t, s)
        /\ t.state = s.state /\ t.success = s.success /\ t.wait = w
    BY <2>1, WaitSet
  <2> HIDE DEF t
  <2>4. QED BY <2>2, <2>3 DEF w
<1>5. DOMAIN stream = 1..born /\ \A i \in 1..born : stream[i] \in Stream
  BY <1>2
<1>6. \A i \in 1..born : ns[i] = IF i \in InList THEN Elapse(stream[i]) ELSE stream[i]
  BY <1>5
<1>7. ns \in Seq(Stream) /\ Len(ns) = born
  <2>1. \A i \in 1..born : Elapse(stream[i]) \in Stream
    BY <1>4, <1>5
  <2>2. ns \in [1..born -> Stream]
    BY <1>5, <2>1
  <2>3. QED BY <1>2, <2>2
<1> HIDE DEF ns
<1>8. ASSUME NEW i \in 1..born
      PROVE  /\ Finished(ns[i]) <=> Finished(stream[i])
             /\ Finished(ns[i]) \/ Sound(ns[i], announced[i])
  <2>1. Finished(stream[i]) \/ Sound(stream[i], announced[i])
    BY DEF Core, Counters
  <2>2. CASE i \in InList
    <3>1. /\ SameTransfer(ns[i], stream[i]) /\ SameCounters(ns[i], stream[i])
          /\ ns[i].state = stream[i].state /\ ns[i].success = stream[i].success
      BY <1>4, <1>5, <1>6, <2>2
    <3>2. QED BY <2>1, <3>1, SoundMoves DEF Finished
  <2>3. CASE i \notin InList
    BY <1>6, <2>1, <2>3
  <2>4. QED BY <2>2, <2>3
<1>9. Effect(ns, told, list, {})
  <2>1. \A i : Of({}, i) = {}
    BY DEF Of
  <2>2. \A i \in 1..born : told[i] = IF Finished(ns[i]) THEN 1 ELSE 0
    BY <1>8 DEF Core, Lists, ToldOnceAndDriven
  <2>3. \A i \in 1..born : ~Finished(ns[i]) => i \in Range(list)
    BY <1>8 DEF Core, Lists, ToldOnceAndDriven, InList
  <2>4. QED BY <1>7, <1>8, <2>1, <2>2, <2>3 DEF Core, Typed, Effect, NewOffset, Says
<1>10. Kept(ns, told, list) /\ received' \in Nat
  BY <1>1 DEF Kept, Core, Typed
<1>11. Core'
  BY <1>1, <1>9, <1>10, SilentPuts, KeptKeeps
<1>12. QED BY <1>1, <1>2, <1>3, <1>4, <1>5, <1>6, <1>7, <1>11

-----------------------------------------------------------------------------
(* The task wakes up in time.                                              *)

\* calcAndSetNextTriggerTime(): no listed stream needs the task earlier.
LEMMA EarliestWaitIs ==
  ASSUME NEW ss \in Seq(Stream), NEW q \in Seq(1..Len(ss))
  PROVE  /\ EarliestWait(q, ss) \in Nat
         /\ \A i \in Range(q) : EarliestWait(q, ss) <= ss[i].wait
<1>1. CASE q = <<>>
  <2>1. Range(q) = {}
    BY <1>1 DEF Range
  <2>2. QED BY <1>1, <2>1, MultiSendAssumption DEF EarliestWait
<1>2. CASE q # <<>>
  <2> DEFINE S == {ss[q[k]].wait : k \in 1..Len(q)}
  <2>1. S \subseteq Nat
    <3>1. ASSUME NEW k \in 1..Len(q) PROVE ss[q[k]].wait \in Nat
      <4>1. ss[q[k]] \in Stream
        OBVIOUS
      <4>2. QED BY <4>1, StreamFields
    <3>2. QED BY <3>1
  <2>2. S # {} /\ \A i \in Range(q) : ss[i].wait \in S
    <3>1. 1 \in 1..Len(q)
      BY <1>2
    <3>2. \A i \in Range(q) : \E k \in 1..Len(q) : i = q[k]
      BY DEF Range
    <3>3. QED BY <3>1, <3>2
  <2>3. EarliestWait(q, ss) = Min(S)
    BY <1>2 DEF EarliestWait
  <2> HIDE DEF S
  <2>4. Min(S) \in S /\ \A y \in S : Min(S) <= y
    BY <2>1, <2>2, MinOf
  <2>5. QED BY <2>1, <2>2, <2>3, <2>4
<1>3. QED BY <1>1, <1>2

\* The trigger time after the list of the streams was looked at.
LEMMA EarliestWaitOfList ==
  ASSUME Core', taskWait' = EarliestWait(list', stream')
  PROVE  taskWait' \in Nat /\ \A i \in InList' : taskWait' <= stream'[i].wait
<1>1. stream' \in Seq(Stream) /\ list' \in Seq(1..Len(stream')) /\ InList' = Range(list')
  BY DEF Core, Typed, InList
<1>2. QED BY <1>1, EarliestWaitIs

\* A call outside timeEvent() after which the trigger time is computed anew.
LEMMA RescheduledTiming ==
  ASSUME Core', Timing, loop = 0, UNCHANGED loopVars, taskWait' = EarliestWait(list', stream')
  PROVE  Timing'
<1>1. taskWait' \in Nat /\ \A i \in InList' : taskWait' <= stream'[i].wait
  BY EarliestWaitOfList
<1>2. loop' = 0 /\ pkgCnt' = pkgCnt /\ nextWait' = nextWait
  BY DEF loopVars
<1>3. TaskWakesInTime'
  BY <1>1 DEF TaskWakesInTime
<1>4. QED BY <1>1, <1>2, <1>3 DEF Timing

\* A call outside timeEvent() that changes no trigger time.
LEMMA UnchangedTiming ==
  ASSUME Timing, loop = 0, UNCHANGED loopVars, UNCHANGED taskWait, list' = list,
         \A i \in InList : stream'[i].wait = stream[i].wait
  PROVE  Timing'
<1>1. loop' = 0 /\ pkgCnt' = pkgCnt /\ nextWait' = nextWait /\ InList' = InList
  BY DEF loopVars, InList
<1>2. TaskWakesInTime'
  BY <1>1 DEF TaskWakesInTime, Timing
<1>3. QED BY <1>1, <1>2 DEF Timing

\* The aborts leave the trigger times alone.
LEMMA AbortTiming ==
  ASSUME Core, Core', Timing, NEW p, NEW h, NEW again,
         AbortSendOfPair(p) \/ AbortSendOfHandler(h, again)
  PROVE  Timing'
<1>1. stream \in Seq(Stream) /\ Len(stream) = born /\ InList \subseteq 1..born
  BY DEF Core, Typed, InList, Range
<1>2. CASE AbortSendOfPair(p)
  <2>1. PICK i \in RunningOn(p) : stream' = [stream EXCEPT ![i] = AbortSend(@)] /\ list' = list
    BY <1>2 DEF AbortSendOfPair, Kept
  <2>2. i \in 1..born
    BY <1>1 DEF RunningOn, Running
  <2>3. ASSUME NEW j \in InList PROVE stream'[j].wait = stream[j].wait
    <3>1. j \in 1..born /\ stream[j] \in Stream
      BY <1>1
    <3>2. stream'[j] = IF j = i THEN AbortSend(stream[j]) ELSE stream[j]
      BY <1>1, <2>1, <2>2, <3>1
    <3>3. QED BY <3>1, <3>2, AbortedIs
  <2>4. QED BY <1>2, <2>1, <2>3, UnchangedTiming DEF AbortSendOfPair
<1>3. CASE AbortSendOfHandler(h, again) /\ again
  BY <1>3, RescheduledTiming DEF AbortSendOfHandler, loopVars
<1>4. CASE AbortSendOfHandler(h, again) /\ ~again
  <2>1. /\ list' = list
        /\ stream' = [i \in DOMAIN stream |-> IF i \in Aborted(h) THEN AbortSend(stream[i]) ELSE stream[i]]
    BY <1>4 DEF AbortSendOfHandler, Kept
  <2>2. ASSUME NEW j \in InList PROVE stream'[j].wait = stream[j].wait
    <3>1. j \in 1..born /\ stream[j] \in Stream
      BY <1>1
    <3>2. stream'[j] = IF j \in Aborted(h) THEN AbortSend(stream[j]) ELSE stream[j]
      BY <1>1, <2>1, <3>1
    <3>3. QED BY <3>1, <3>2, AbortedIs
  <2>3. QED BY <1>4, <2>1, <2>2, UnchangedTiming DEF AbortSendOfHandler
<1>5. QED BY <1>2, <1>3, <1>4

\* timeEvent() begins.
LEMMA EnterTiming ==
  ASSUME Core, Timing, NEW free \in PkgCount, EnterTimeEvent(free)
  PROVE  Timing'
<1>1. /\ loop = 0 /\ list' = list /\ stream' = stream /\ InList' = InList
      /\ nextWait \in Nat \union {-1} /\ pkgCnt \in Nat /\ taskWait \in Nat
  BY DEF EnterTimeEvent, listVars, InList, Timing
<1>2. CASE list = <<>>
  <2>1. taskWait' = Idle /\ loop' = 0 /\ pkgCnt' = pkgCnt /\ nextWait' = nextWait
    BY <1>1, <1>2 DEF EnterTimeEvent, loopVars
  <2>2. InList' = {} /\ Idle \in Nat
    BY <1>1, <1>2, MultiSendAssumption DEF InList, Range
  <2>3. QED BY <1>1, <2>1, <2>2 DEF Timing, TaskWakesInTime
<1>3. CASE list # <<>> /\ free < 0
  <2>1. taskWait' = BufferRetry /\ loop' = 0 /\ pkgCnt' = pkgCnt /\ nextWait' = nextWait
    BY <1>1, <1>3 DEF EnterTimeEvent, loopVars
  <2>2. BufferRetry \in Nat
    BY MultiSendAssumption
  <2>3. QED BY <1>1, <2>1, <2>2 DEF Timing, TaskWakesInTime
<1>4. CASE list # <<>> /\ ~(free < 0)
  <2>1. loop' = 1 /\ pkgCnt' = Share(free) /\ nextWait' = -1 /\ taskWait' = taskWait
    BY <1>4 DEF EnterTimeEvent
  <2>2. Share(free) \in Nat
    <3> DEFINE n == Cardinality(BurstStreams)
    <3>1. n \in Nat
      <4>1. BurstStreams \subseteq 1..Len(list) /\ Len(list) \in Nat
        BY DEF BurstStreams, Core, Typed
      <4>2. IsFiniteSet(BurstStreams)
        <5>1. IsFiniteSet(1..Len(list))
          BY <4>1, FS_Interval
        <5>2. QED BY <4>1, <5>1, FS_Subset
      <4>3. QED BY <4>2, FS_CardinalityType
    <3>2. free \in Nat
      BY <1>4, MultiSendAssumption
    <3>3. Share(free) = IF n = 0 \/ free \div n = 0 THEN 1 ELSE free \div n
      BY DEF Share
    <3> HIDE DEF n
    <3>4. CASE n = 0
      BY <3>3, <3>4
    <3>5. CASE n # 0
      <4>1. free \div n \in Nat
        BY <3>1, <3>2, <3>5
      <4>2. QED BY <3>3, <4>1
    <3>6. QED BY <3>4, <3>5
  <2>3. \A k \in 1..Len(list') : ~(k < 1)
    BY <1>1 DEF Core, Typed
  <2>4. QED BY <1>1, <2>1, <2>2, <2>3 DEF Timing, TaskWakesInTime
<1>5. QED BY <1>2, <1>3, <1>4

\* timeEvent() goes on without a visit, or ends.
LEMMA PassTiming ==
  ASSUME Core, Timing, PassStream \/ LeaveTimeEvent
  PROVE  Timing'
<1>1. /\ list' = list /\ stream' = stream /\ InList' = InList
      /\ nextWait \in Nat \union {-1} /\ pkgCnt \in Nat /\ taskWait \in Nat /\ loop \in Nat
  BY DEF PassStream, LeaveTimeEvent, listVars, InList, Timing
<1>2. list \in Seq(1..born) /\ \A k \in 1..Len(list) : stream[list[k]].wait \in Nat /\ list[k] \in InList
  <2>1. list \in Seq(1..born) /\ stream \in Seq(Stream) /\ Len(stream) = born
    BY DEF Core, Typed
  <2>2. ASSUME NEW k \in 1..Len(list) PROVE stream[list[k]].wait \in Nat /\ list[k] \in InList
    <3>1. list[k] \in 1..born
      BY <2>1
    <3>2. stream[list[k]] \in Stream
      BY <2>1, <3>1
    <3>3. QED BY <2>1, <3>2, StreamFields DEF InList, Range
  <2>3. QED BY <2>1, <2>2
<1>3. CASE PassStream
  <2> DEFINE w == stream[list[loop]].wait
  <2>1. /\ loop \in 1..Len(list) /\ loop' = loop + 1 /\ taskWait' = taskWait /\ pkgCnt' = pkgCnt
        /\ nextWait' = IF nextWait = -1 \/ w < nextWait THEN w ELSE nextWait
    BY <1>3 DEF PassStream
  <2>2. w \in Nat /\ Len(list) \in Nat
    BY <1>2, <2>1
  <2> HIDE DEF w
  <2>3. nextWait' \in Nat /\ nextWait' <= w /\ (nextWait # -1 => nextWait' <= nextWait)
    BY <1>1, <2>1, <2>2
  <2>4. ASSUME NEW k \in 1..Len(list), k < loop + 1
        PROVE  nextWait' # -1 /\ nextWait' <= stream[list[k]].wait
    <3>1. CASE k < loop
      <4>1. nextWait # -1 /\ nextWait <= stream[list[k]].wait
        BY <2>1, <2>2, <3>1 DEF Timing
      <4>2. QED BY <1>1, <1>2, <2>3, <4>1
    <3>2. CASE k = loop
      BY <2>3, <3>2 DEF w
    <3>3. QED BY <1>1, <2>2, <2>4, <3>1, <3>2
  <2>5. QED BY <1>1, <2>1, <2>2, <2>3, <2>4 DEF Timing, TaskWakesInTime
<1>4. CASE LeaveTimeEvent
  <2>1. /\ loop > Len(list) /\ loop' = 0 /\ nextWait' = -1 /\ pkgCnt' = 0
        /\ taskWait' = IF nextWait > -1 THEN nextWait ELSE Idle
    BY <1>4 DEF LeaveTimeEvent
  <2>2. Idle \in Nat /\ Len(list) \in Nat
    BY <1>2, MultiSendAssumption
  <2>3. taskWait' \in Nat
    BY <1>1, <2>1, <2>2
  <2>4. ASSUME NEW i \in InList PROVE taskWait' <= stream[i].wait
    <3>1. PICK k \in 1..Len(list) : i = list[k]
      BY <1>2 DEF InList, Range
    <3>2. nextWait # -1 /\ nextWait <= stream[list[k]].wait
      <4>1. k < loop /\ loop > 0
        BY <1>1, <2>1, <2>2
      <4>2. QED BY <4>1 DEF Timing
    <3>3. taskWait' = nextWait
      BY <1>1, <2>1, <3>2
    <3>4. QED BY <3>1, <3>2, <3>3
  <2>5. QED BY <1>1, <2>1, <2>3, <2>4 DEF Timing, TaskWakesInTime
<1>5. QED BY <1>3, <1>4

\* The streams before the iterator keep their time, and their place in the list.
LEMMA PassedTiming ==
  ASSUME Core, Timing, loop \in 1..Len(list), loop' = loop, nextWait' = nextWait, pkgCnt' = pkgCnt,
         taskWait' \in Nat, Len(list') \in Nat,
         \A k \in 1..Len(list') : k < loop =>
           /\ k \in 1..Len(list) /\ list'[k] = list[k]
           /\ stream'[list[k]].wait = stream[list[k]].wait
  PROVE  Timing'
<1>1. loop \in Nat /\ loop > 0 /\ pkgCnt \in Nat /\ nextWait \in Nat \union {-1}
  BY DEF Timing
<1>2. \A k \in 1..Len(list') : k < loop => nextWait # -1 /\ nextWait <= stream'[list'[k]].wait
  BY <1>1 DEF Timing
<1>3. QED BY <1>1, <1>2 DEF Timing, TaskWakesInTime

\* Erasing a stream moves none that the iterator has passed.
LEMMA EraseTiming ==
  ASSUME Core, Timing, EraseFinished
  PROVE  Timing'
<1>1. /\ loop \in 1..Len(list) /\ list' = RemoveAt(list, loop) /\ stream' = stream
      /\ loop' = loop /\ nextWait' = nextWait /\ pkgCnt' = pkgCnt /\ taskWait' \in Nat
  BY DEF EraseFinished, loopVars, Timing
<1>2. list \in Seq(1..born)
  BY DEF Core, Typed
<1>3. /\ Len(list') = Len(list) - 1 /\ Len(list) \in Nat
      /\ \A k \in 1..(Len(list) - 1) : list'[k] = IF k < loop THEN list[k] ELSE list[k + 1]
  <2> DEFINE q == RemoveAt(list, loop)
  <2>1. /\ Len(q) = Len(list) - 1
        /\ \A k \in 1..(Len(list) - 1) : q[k] = IF k < loop THEN list[k] ELSE list[k + 1]
    BY <1>1, <1>2, RemovedAt
  <2>2. list' = q
    BY <1>1
  <2>3. Len(list) \in Nat
    BY <1>2
  <2> HIDE DEF q
  <2>4. QED BY <2>1, <2>2, <2>3, Zenon
<1>4. ASSUME NEW k \in 1..Len(list'), k < loop
      PROVE  /\ k \in 1..Len(list) /\ list'[k] = list[k]
             /\ stream'[list[k]].wait = stream[list[k]].wait
  BY <1>1, <1>3, <1>4
<1>5. Len(list') \in Nat
  BY <1>1, <1>3
<1>6. QED BY <1>1, <1>4, <1>5, PassedTiming

\* A visit: the stream goes on and counts for the next trigger time, or it ends.
LEMMA VisitTiming ==
  ASSUME Core, Core', Timing, NEW again, VisitStream(again)
  PROVE  Timing'
<1> DEFINE i == list[loop]
           new == TimeEvent(stream[i], pkgCnt)
           ns == [stream EXCEPT ![i] = new]
           nt == TellIfEnded(i, new)
           q == AfterVisit(Finished(new))
           W == From(i, TimeEventMessages(stream[i], pkgCnt))
<1>1. /\ loop \in 1..Len(list) /\ ~Finished(stream[i]) /\ (again => Finished(new))
      /\ again => StartedAgain(i, ns, nt, q, W) /\ taskWait' = EarliestWait(list', stream')
      /\ ~again => Kept(ns, nt, q) /\ taskWait' = taskWait
      /\ Finished(new) => loop' = loop /\ nextWait' = nextWait
      /\ ~Finished(new) =>
           /\ loop' = loop + 1
           /\ nextWait' = IF nextWait = -1 \/ new.wait < nextWait THEN new.wait ELSE nextWait
      /\ pkgCnt' = pkgCnt
  BY DEF VisitStream
<1>2. /\ list \in Seq(1..born) /\ IsInjective(list) /\ born \in Nat
      /\ stream \in Seq(Stream) /\ Len(stream) = born /\ Len(list) \in Nat
  BY ScenarioIs DEF Core, Typed
<1>3. i \in 1..born /\ i \in InList
  BY <1>1, <1>2 DEF InList, Range
<1>4. \A k \in 1..Len(list) : list[k] \in 1..born /\ (k # loop => list[k] # i)
  BY <1>1, <1>2 DEF IsInjective
<1>5. new \in Stream
  <2>1. stream[i] \in Stream /\ announced[i] \in Nat /\ Sound(stream[i], announced[i])
    BY <1>1, <1>3, RunningIs
  <2>2. QED BY <2>1, TimeEventHandled DEF Handled, Timing
<1>6. /\ ns \in Seq(Stream) /\ Len(ns) = born /\ ns[i] = new
      /\ \A j \in 1..born : j # i => ns[j] = stream[j]
  <2> HIDE DEF i, new
  <2>1. QED BY <1>2, <1>3, <1>5
<1>7. /\ pkgCnt \in Nat /\ taskWait \in Nat /\ loop \in Nat /\ nextWait \in Nat \union {-1}
      /\ \A k \in 1..Len(list) : k < loop => nextWait # -1 /\ nextWait <= stream[list[k]].wait
  BY <1>1, <1>2 DEF Timing
<1>8. taskWait' \in Nat
  BY <1>1, <1>7, EarliestWaitOfList
<1>9. Len(list') \in Nat
  BY DEF Core, Typed
<1> HIDE DEF i, new, ns, nt, W
<1>10. CASE ~Finished(new)
  <2>1. ~again /\ list' = list /\ stream' = ns
    BY <1>1, <1>10 DEF Kept, AfterVisit
  <2>2. new.wait \in Nat
    BY <1>5, StreamFields
  <2>3. /\ nextWait' \in Nat /\ nextWait' <= new.wait /\ (nextWait # -1 => nextWait' <= nextWait)
        /\ loop' = loop + 1
    BY <1>1, <1>7, <1>10, <2>2
  <2>4. ASSUME NEW k \in 1..Len(list), k < loop + 1
        PROVE  nextWait' # -1 /\ nextWait' <= stream'[list[k]].wait
    <3>1. CASE k < loop
      <4>1. stream'[list[k]] = stream[list[k]]
        <5>1. list[k] \in 1..born /\ list[k] # i
          BY <1>4, <1>7, <3>1
        <5>2. QED BY <1>6, <2>1, <5>1
      <4>2. nextWait # -1 /\ nextWait <= stream[list[k]].wait
        BY <1>7, <3>1
      <4>3. stream[list[k]].wait \in Nat
        <5>1. stream[list[k]] \in Stream
          BY <1>2, <1>4
        <5>2. QED BY <5>1, StreamFields
      <4>4. QED BY <1>7, <2>3, <4>1, <4>2, <4>3
    <3>2. CASE k = loop
      BY <1>6, <2>1, <2>3, <3>2 DEF i
    <3>3. QED BY <1>2, <1>7, <2>4, <3>1, <3>2
  <2>5. loop' \in Nat /\ loop' # 0
    BY <1>7, <2>3
  <2>6. QED BY <1>1, <1>7, <1>8, <2>1, <2>3, <2>4, <2>5 DEF Timing, TaskWakesInTime
<1>11. CASE Finished(new)
  <2>1. /\ q \in Seq(1..born) /\ Len(q) = Len(list) - 1
        /\ \A k \in 1..(Len(list) - 1) : q[k] = IF k < loop THEN list[k] ELSE list[k + 1]
    <3>1. q = RemoveAt(list, loop)
      BY <1>11 DEF AfterVisit
    <3> HIDE DEF q
    <3>2. QED BY <1>1, <1>2, <3>1, RemovedAt
  <2> HIDE DEF q
  <2>2. ASSUME NEW k \in 1..Len(list), k < loop
        PROVE  /\ k \in 1..Len(q) /\ q[k] = list[k] /\ list[k] \in 1..born
               /\ ns[list[k]] = stream[list[k]]
    <3>1. k \in 1..(Len(list) - 1)
      BY <1>1, <1>2, <2>2
    <3>2. list[k] \in 1..born /\ list[k] # i
      BY <1>4, <1>7, <2>2
    <3>3. QED BY <1>6, <2>1, <2>2, <3>1, <3>2
  <2>3. ASSUME NEW k \in 1..Len(list'), k < loop
        PROVE  /\ k \in 1..Len(list) /\ list'[k] = list[k]
               /\ stream'[list[k]].wait = stream[list[k]].wait
    <3>1. k \in 1..Len(list)
      BY <1>1, <1>2, <1>9, <2>3
    <3>2. k \in 1..Len(q) /\ q[k] = list[k] /\ list[k] \in 1..born /\ ns[list[k]] = stream[list[k]]
      BY <2>2, <2>3, <3>1
    <3>3. CASE ~again
      <4>1. list' = q /\ stream' = ns
        BY <1>1, <3>3 DEF Kept
      <4>2. QED BY <3>1, <3>2, <4>1
    <3>4. CASE again
      <4>1. PICK t : list' = Append(q, born + 1) /\ stream' = Append(ns, NewStream(t.type, t.size, t.streamer))
        BY <1>1, <3>4 DEF StartedAgain, Started
      <4>2. list'[k] = q[k]
        BY <1>2, <2>1, <3>2, <4>1
      <4>3. stream'[list[k]] = ns[list[k]]
        BY <1>6, <3>2, <4>1
      <4>4. QED BY <3>1, <3>2, <4>2, <4>3
    <3>5. QED BY <3>3, <3>4
  <2>4. loop' = loop /\ nextWait' = nextWait
    BY <1>1, <1>11
  <2>5. QED BY <1>1, <1>8, <1>9, <2>3, <2>4, PassedTiming
<1>12. QED BY <1>10, <1>11

\* The clock: the task and the streams come closer to their time together.
LEMMA TickTiming ==
  ASSUME Core, UNCHANGED scenario, Timing, Tick
  PROVE  Timing'
<1>1. /\ loop = 0 /\ loop' = 0 /\ pkgCnt' = pkgCnt /\ nextWait' = nextWait
      /\ taskWait' = IF taskWait > 0 THEN taskWait - 1 ELSE 0
      /\ InList' = InList
  BY DEF Tick, loopVars, InList
<1>2. taskWait \in Nat /\ BufferRetry \in Nat
  BY MultiSendAssumption DEF Timing
<1>3. taskWait' \in Nat /\ taskWait' <= taskWait
  BY <1>1, <1>2
<1>4. ASSUME NEW i \in InList PROVE taskWait' <= stream'[i].wait \/ taskWait' <= BufferRetry
  <2>1. stream'[i].wait = IF stream[i].wait > 0 THEN stream[i].wait - 1 ELSE 0
    BY TickKeeps
  <2>2. stream[i].wait \in Nat
    <3>1. stream[i] \in Stream
      BY DEF Core, Typed, InList, Range
    <3>2. QED BY <3>1, StreamFields
  <2>3. taskWait <= stream[i].wait \/ taskWait <= BufferRetry
    BY <1>1 DEF Timing, TaskWakesInTime
  <2>4. CASE taskWait <= stream[i].wait
    BY <1>1, <1>2, <2>1, <2>2, <2>4
  <2>5. CASE taskWait <= BufferRetry
    BY <1>2, <1>3, <2>5
  <2>6. QED BY <2>3, <2>4, <2>5
<1>5. TaskWakesInTime'
  BY <1>1, <1>4 DEF TaskWakesInTime
<1>6. QED BY <1>1, <1>3, <1>5 DEF Timing

-----------------------------------------------------------------------------
(* Every step keeps the invariant.                                         *)

\* The calls that start a stream, and the messages of the peers.
LEMMA CallKeeps ==
  ASSUME IInv, UNCHANGED scenario,
         \/ \E p \in Pair, t \in Transfer : Send(p, t)
         \/ \E p \in Pair, left \in scenario.left, nr \in scenario.nr, again \in BOOLEAN :
              ReceiveCts(p, left, nr, again)
         \/ \E p \in Pair, again \in BOOLEAN : ReceiveEndofMsgACK(p, again)
         \/ \E p \in Pair, again \in BOOLEAN : ReceiveConnAbort(p, again)
  PROVE  IInv'
<1>1. Core /\ Timing /\ received \in Nat
  BY DEF IInv, Core, Typed
<1>2. ASSUME NEW p \in Pair, NEW t, Send(p, t) PROVE IInv'
  <2>1. Core'
    BY <1>1, <1>2, SendKeeps
  <2>2. Timing'
    BY <1>1, <1>2, <2>1, RescheduledTiming DEF Send
  <2>3. QED BY <2>1, <2>2 DEF IInv, Core
<1>3. ASSUME NEW p, NEW m, m.n \in 0..255, m.at \in Nat, NEW again, Receive(p, m, again) PROVE IInv'
  <2>1. Core'
    BY <1>1, <1>3, ReceiveKeeps
  <2>2. Timing'
    BY <1>1, <1>3, <2>1, RescheduledTiming DEF Receive
  <2>3. QED BY <2>1, <2>2 DEF IInv, Core
<1>4. ASSUME NEW p, NEW left \in scenario.left, NEW nr \in scenario.nr, NEW again,
             ReceiveCts(p, left, nr, again)
      PROVE  IInv'
  <2>1. left \in 0..255 /\ nr \in Nat
    BY <1>1, ScenarioIs
  <2> DEFINE m == Msg("CTS", left, nr)
  <2>2. m.n \in 0..255 /\ m.at \in Nat
    BY <2>1 DEF Msg
  <2>3. Receive(p, m, again)
    BY <1>4 DEF ReceiveCts
  <2> HIDE DEF m
  <2>4. QED BY <1>3, <2>2, <2>3
<1>5. ASSUME NEW p, NEW again, ReceiveEndofMsgACK(p, again) \/ ReceiveConnAbort(p, again) PROVE IInv'
  <2> DEFINE m == Msg("EndofMsgACK", 0, 0)
             c == Msg("ConnAbort", 0, 0)
  <2>1. m.n \in 0..255 /\ m.at \in Nat /\ c.n \in 0..255 /\ c.at \in Nat
    BY DEF Msg
  <2>2. Receive(p, m, again) \/ Receive(p, c, again)
    BY <1>5 DEF ReceiveEndofMsgACK, ReceiveConnAbort
  <2> HIDE DEF m, c
  <2>3. QED BY <1>3, <2>1, <2>2
<1>6. QED BY <1>2, <1>4, <1>5

\* The aborts, the clock and timeEvent().
LEMMA TaskKeeps ==
  ASSUME IInv, UNCHANGED scenario,
         \/ \E p \in Pair : AbortSendOfPair(p)
         \/ \E h \in {HandlerOf[p] : p \in Pair}, again \in BOOLEAN : AbortSendOfHandler(h, again)
         \/ TimeEventStep
         \/ Tick
  PROVE  IInv'
<1>1. Core /\ Timing /\ received \in Nat
  BY DEF IInv, Core, Typed
<1>2. Core' /\ Timing' => IInv'
  BY DEF IInv, Core
<1>3. ASSUME NEW p, AbortSendOfPair(p) PROVE IInv'
  <2>1. Core'
    BY <1>1, <1>3, AbortSendOfPairKeeps
  <2>2. Timing'
    BY <1>1, <1>3, <2>1, AbortTiming
  <2>3. QED BY <1>2, <2>1, <2>2
<1>4. ASSUME NEW h, NEW again, AbortSendOfHandler(h, again) PROVE IInv'
  <2>1. Core'
    BY <1>1, <1>4, AbortSendOfHandlerKeeps
  <2>2. Timing'
    BY <1>1, <1>4, <2>1, AbortTiming
  <2>3. QED BY <1>2, <2>1, <2>2
<1>5. ASSUME NEW free \in PkgCount, EnterTimeEvent(free) PROVE IInv'
  <2>1. Core'
    BY <1>1, <1>5, QuietKeeps DEF EnterTimeEvent
  <2>2. QED BY <1>1, <1>2, <1>5, <2>1, EnterTiming
<1>6. ASSUME PassStream \/ LeaveTimeEvent PROVE IInv'
  <2>1. Core'
    BY <1>1, <1>6, QuietKeeps DEF PassStream, LeaveTimeEvent
  <2>2. QED BY <1>1, <1>2, <1>6, <2>1, PassTiming
<1>7. CASE EraseFinished
  BY <1>1, <1>2, <1>7, EraseFinishedKeeps, EraseTiming
<1>8. ASSUME NEW again, VisitStream(again) PROVE IInv'
  <2>1. Core'
    BY <1>1, <1>8, VisitStreamKeeps
  <2>2. QED BY <1>1, <1>2, <1>8, <2>1, VisitTiming
<1>9. CASE Tick
  BY <1>1, <1>2, <1>9, TickKeeps, TickTiming
<1>10. QED BY <1>3, <1>4, <1>5, <1>6, <1>7, <1>8, <1>9 DEF TimeEventStep, TimeEventGoesOn

\* Every step keeps the invariant.
LEMMA StepKeeps ==
  ASSUME IInv, [Next]_vars
  PROVE  IInv'
<1>1. CASE Next
  <2>1. Step /\ UNCHANGED scenario
    BY <1>1 DEF Next
  <2>2. QED BY <2>1, CallKeeps, TaskKeeps DEF Step
<1>2. CASE UNCHANGED vars
  <2>1. UNCHANGED <<scenario, list, stream, pair, born, told, loop, pkgCnt, nextWait, taskWait, wire,
                    announced, received>>
    BY <1>2 DEF vars, listVars, loopVars
  <2>2. InList' = InList /\ Running' = Running
    BY <2>1 DEF InList, Running
  <2>3. QED BY <2>1, <2>2 DEF IInv, Typed, Counters, OnWire, Lists, OneRunningPerPair,
                              ToldOnceAndDriven, Timing, TaskWakesInTime
<1>3. QED BY <1>1, <1>2

\* The initial states satisfy the invariant.
LEMMA InitKeeps ==
  ASSUME Init
  PROVE  IInv
<1>1. /\ scenario \in Scenario /\ list = <<>> /\ stream = <<>> /\ pair = <<>> /\ born = 0
      /\ told = <<>> /\ loop = 0 /\ pkgCnt = 0 /\ nextWait = -1 /\ taskWait = 0 /\ wire = {}
      /\ announced = [i \in Id |-> 0] /\ received = 0
  BY DEF Init
<1>2. scenario.streams \in Nat
  BY <1>1, MultiSendAssumption DEF Scenarios
<1>3. InList = {} /\ IsInjective(list) /\ 1..born = {}
  BY <1>1 DEF InList, Range, IsInjective
<1>4. Typed
  <2>1. announced \in [Id -> Nat]
    BY <1>1
  <2>2. QED BY <1>1, <1>2, <1>3, <2>1 DEF Typed
<1>5. Counters /\ OnWire
  BY <1>1, <1>3 DEF Counters, OnWire
<1>6. Lists
  BY <1>1, <1>3 DEF Lists, OneRunningPerPair, Running, ToldOnceAndDriven
<1>7. Timing
  BY <1>1, <1>3 DEF Timing, TaskWakesInTime
<1>8. QED BY <1>4, <1>5, <1>6, <1>7 DEF IInv

\* The invariant holds in every reachable state.
LEMMA AlwaysIInv == Spec => []IInv
<1>1. Init => IInv
  BY InitKeeps
<1>2. IInv /\ [Next]_vars => IInv'
  BY StepKeeps
<1>3. QED BY <1>1, <1>2, PTL DEF Spec

-----------------------------------------------------------------------------
(* prepareSendMsg, timeEvent and the CTS part of processMsg: whatever packets  *)
(* the peer asks for, again or anew, every data packet carries the piece of    *)
(* data that its number, and the data page offset before it, stand for.        *)
THEOREM PacketsAlwaysCarryTheirData == Spec => []PacketsCarryTheirData
<1>1. IInv => PacketsCarryTheirData
  BY DEF IInv, OnWire, Carries, PacketsCarryTheirData
<1>2. QED BY <1>1, AlwaysIInv, PTL

(* addSendStream, notifySender and abortSend: the streams keep their type, no  *)
(* two run on one pair, every handler is told the end once, and every stream   *)
(* that is not over is in the list, also when handlers start streams in the    *)
(* middle of an iteration.                                                     *)
THEOREM StreamsStayConsistent == Spec => []StreamsConsistent
<1>1. IInv => StreamsConsistent
  <2> SUFFICES ASSUME IInv PROVE StreamsConsistent
    OBVIOUS
  <2>1. Core
    BY DEF IInv, Core
  <2>2. born \in 0..MaxStreams
    BY <2>1, ScenarioIs
  <2>3. stream \in [1..born -> Stream] /\ pair \in [1..born -> Pair] /\ told \in [1..born -> Nat]
    BY DEF IInv, Typed
  <2>4. TypeOK
    BY <2>2, <2>3 DEF IInv, Typed, Timing, OnWire, TypeOK
  <2>5. QED BY <2>4 DEF IInv, Lists, StreamsConsistent
<1>2. QED BY <1>1, AlwaysIInv, PTL

(* calcAndSetNextTriggerTime and timeEvent: outside timeEvent() the task wakes *)
(* up no later than its earliest stream needs, or soon to look for room in the *)
(* send buffer.                                                                *)
THEOREM TaskAlwaysWakesInTime == Spec => []TaskWakesInTime
<1>1. IInv => TaskWakesInTime
  BY DEF IInv, Timing
<1>2. QED BY <1>1, AlwaysIInv, PTL
=============================================================================
