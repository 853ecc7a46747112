------------------------- MODULE MultiReceive_proofs -------------------------
(***************************************************************************)
(* Proofs about MultiReceive for any clients, names, addresses, messages   *)
(* and bounds.  The inductive invariant IInv says of every stream in the   *)
(* list that it waits for a part of its message which is still missing     *)
(* (StreamOk), and that its addresses are those the monitor list has now   *)
(* for the names it was opened with.  That is why a stream is sought by    *)
(* addresses, which change, and OneStreamPerPeer holds all the same: the   *)
(* names behind them are what differs (OneStreamPerNames).  This ends when *)
(* a name leaves the monitor list with its address cached; the rest of the *)
(* invariant goes on.                                                      *)
(***************************************************************************)
EXTENDS MultiReceive, SequenceLemmas, FiniteSetTheorems

\* One identifier of a stream: ReceiveStreamIdentifier_c with the names behind.
IdentRec ==
  [type : StreamType, pgn : Pgn, sa : Address \union {Lost}, da : Address \union {Lost, Global},
   saName : Name, daName : Name \union {Global}]
WrapperRec ==
  [client : Client, name : Name, pgns : SUBSET Pgn, sender : Name \union {Global},
   broadcast : BOOLEAN, fastPacket : BOOLEAN, cached : Address \union {Lost}]
StreamRec == RecvStreamOf(0..255)

Typed ==
  /\ scenario \in Scenario
  /\ stream \in Seq(StreamRec) /\ Len(stream) <= scenario.streams
  /\ ident \in Seq(IdentRec) /\ Len(ident) = Len(stream)
  /\ holder \in Seq(Client \union {NoClient}) /\ Len(holder) = Len(stream)
  /\ list \in Seq(Created) /\ IsInjective(list)
  /\ clients \in Seq(WrapperRec)
  /\ address \in [Name -> Address \union {Lost}]
  /\ over \subseteq Created
  /\ stale \in BOOLEAN

AddressesDistinct == \A m, n \in Name : address[m] = address[n] => m = n \/ address[m] = Lost

IdentFits(s, id) ==
  /\ id.type = s.type
  /\ s.broadcast <=> id.da = Global
  /\ id.daName = Global <=> id.da = Global

FollowsNames(id) ==
  /\ id.sa = address[id.saName]
  /\ id.da = IF id.daName = Global THEN Global ELSE address[id.daName]

StreamOk(s) ==
  /\ Announced(s) /\ Filled(s)
  /\ s.total >= 2 /\ s.wait >= -1
  /\ s.type # "StreamETP" => s.total <= 255
  /\ s.type = "StreamTP" => s.maxBurst >= 1
  /\ s.state # "StreamFinished"
  /\ Kept(s) <=> s.await = "AwaitNothing"
  /\ s.type = "StreamFastPacket" =>
       /\ s.await # "AwaitCtsSend" /\ s.await # "AwaitDpo"
       /\ s.await = "AwaitData" => s.next + s.remaining - 1 = LastPacket(s)

OneStreamPerNames ==
  \A i, j \in InList :
    /\ ~Kept(stream[i]) /\ ~Kept(stream[j])
    /\ ident[i].type = ident[j].type /\ ident[i].type # "StreamFastPacket"
    /\ ident[i].saName = ident[j].saName
    /\ ident[i].daName = ident[j].daName
    => i = j

NamesFollowed == OneStreamPerNames /\ \A i \in InList : FollowsNames(ident[i])

Core ==
  /\ Typed
  /\ AddressesDistinct
  /\ \A i \in Created : IdentFits(stream[i], ident[i])
  /\ \A i \in InList : StreamOk(stream[i])
  /\ \A i \in InList : i \in over <=> Kept(stream[i])
  /\ stale \/ NamesFollowed

Timing == taskWait \in Nat /\ loop \in Nat /\ TaskWakesInTime

IInv == Core /\ Timing

\* What EndToldOnce says of a step.
EndsTold == (\A c \in calls' : c.id \notin over) /\ InList \ Range(list') \subseteq over'

-----------------------------------------------------------------------------
(* A stream's record, and the ways its operations change it.               *)

\* The fields of a stream and what they hold.
LEMMA StreamFields ==
  ASSUME NEW s \in StreamRec
  PROVE  /\ s.type \in StreamType /\ s.broadcast \in BOOLEAN /\ s.state \in StreamingState
         /\ s.await \in NextComing /\ s.total \in Nat /\ s.next \in Nat /\ s.remaining \in 0..255
         /\ s.burst \in Nat /\ s.page \in Nat /\ s.maxBurst \in 0..255 /\ s.wait \in Int
         /\ s.data \in Seq(0..255)
BY DEF StreamRec, RecvStreamOf

\* t is a later record of the message of s.
SameMessage(t, s) ==
  t.type = s.type /\ t.broadcast = s.broadcast /\ t.total = s.total /\ t.maxBurst = s.maxBurst

\* awaitNextStep() changes what is waited for and until when, nothing else.
LEMMA AwaitNextStepIs ==
  ASSUME NEW s \in StreamRec, NEW step \in NextComing, NEW time \in Int
  PROVE  LET t == AwaitNextStep(s, step, time)
         IN  /\ t \in StreamRec /\ SameMessage(t, s)
             /\ t.state = s.state /\ t.next = s.next /\ t.remaining = s.remaining /\ t.data = s.data
             /\ t.await = step
             /\ step = "AwaitCtsSend" => t.wait = time
             /\ step # "AwaitCtsSend" => t.wait = time + RecvSlack
<1> DEFINE w == IF step = "AwaitCtsSend" THEN time ELSE time + RecvSlack
           t == [s EXCEPT !.await = step, !.wait = w]
<1>1. w \in Int
  BY RecvStreamAssumption
<1> HIDE DEF w
<1>2. t \in StreamRec
  BY <1>1 DEF StreamRec, RecvStreamOf
<1>3. /\ SameMessage(t, s)
      /\ t.state = s.state /\ t.next = s.next /\ t.remaining = s.remaining /\ t.data = s.data
      /\ t.await = step /\ t.wait = w
  BY <1>1 DEF StreamRec, RecvStreamOf, SameMessage
<1>4. QED BY <1>2, <1>3 DEF AwaitNextStep, w

\* A new burst changes the burst number and what remains, nothing else.
LEMMA BurstBegun ==
  ASSUME NEW s \in StreamRec, NEW n \in 0..255
  PROVE  LET t == [[s EXCEPT !.burst = @ + 1] EXCEPT !.remaining = n]
         IN  /\ t \in StreamRec /\ SameMessage(t, s)
             /\ t.state = s.state /\ t.next = s.next /\ t.remaining = n /\ t.data = s.data
<1>1. ASSUME NEW b \in Nat
      PROVE  LET t == [[s EXCEPT !.burst = b] EXCEPT !.remaining = n]
             IN  /\ t \in StreamRec /\ SameMessage(t, s)
                 /\ t.state = s.state /\ t.next = s.next /\ t.remaining = n /\ t.data = s.data
  <2>1. [[s EXCEPT !.burst = b] EXCEPT !.remaining = n] \in StreamRec
    BY DEF StreamRec, RecvStreamOf
  <2>2. QED BY <2>1 DEF StreamRec, RecvStreamOf, SameMessage
<1>2. s.burst + 1 \in Nat
  BY StreamFields
<1>3. QED BY <1>1, <1>2

Written(s, d, next, n) == [s EXCEPT !.data = d, !.next = next, !.remaining = n]
IsWritten(t, s, d, next, n) ==
  /\ t \in StreamRec /\ SameMessage(t, s)
  /\ t.state = s.state /\ t.next = next /\ t.remaining = n /\ t.data = d

\* A packet changes the data and the two counters, nothing else.
LEMMA PacketWritten ==
  ASSUME NEW s \in StreamRec, NEW d \in Seq(0..255), NEW next \in Nat, NEW n \in 0..255
  PROVE  IsWritten(Written(s, d, next, n), s, d, next, n)
<1>1. Written(s, d, next, n) \in StreamRec
  BY DEF Written, StreamRec, RecvStreamOf
<1>2. QED BY <1>1 DEF Written, IsWritten, StreamRec, RecvStreamOf, SameMessage

\* Setting the streaming state changes nothing else.
LEMMA StateSet ==
  ASSUME NEW s \in StreamRec, NEW state \in StreamingState
  PROVE  LET t == [s EXCEPT !.state = state]
         IN  /\ t \in StreamRec /\ SameMessage(t, s)
             /\ t.state = state /\ t.await = s.await /\ t.wait = s.wait
             /\ t.next = s.next /\ t.remaining = s.remaining /\ t.data = s.data
<1>1. [s EXCEPT !.state = state] \in StreamRec
  BY DEF StreamRec, RecvStreamOf
<1>2. QED BY <1>1 DEF StreamRec, RecvStreamOf, SameMessage

-----------------------------------------------------------------------------
(* The operations of a stream keep StreamOk.                               *)

(* expectBurst announces at least one packet and no more than are missing. *)
LEMMA ExpectBurstOk ==
  ASSUME NEW s \in StreamRec, StreamOk(s), s.await = "AwaitCtsSend", NEW wish \in 1..255
  PROVE  LET t == ExpectBurst(s, wish)
         IN  t \in StreamRec /\ StreamOk(t) /\ ~Kept(t) /\ SameMessage(t, s)
<1> USE RecvStreamAssumption
<1>1. /\ s.type \in {"StreamTP", "StreamETP"} /\ s.state = "StreamRunning" /\ s.next <= s.total
      /\ s.total >= 2 /\ s.total \in Nat /\ s.next \in Nat /\ s.maxBurst \in 0..255
      /\ s.type # "StreamETP" => s.total <= 255
      /\ s.type = "StreamTP" => s.maxBurst >= 1
  BY StreamFields DEF StreamOk, Kept, Announced, StreamType, StreamingState, LastPacket, FirstPacket
<1> DEFINE missing == Least(s.total - (s.next - 1), wish)
<1>2. missing \in 1..255 /\ missing \in 0..255 /\ missing <= s.total - (s.next - 1)
  BY <1>1 DEF Least
<1>f. ASSUME NEW t, SameMessage(t, s), t.next = s.next, t.data = s.data PROVE Filled(t)
  BY <1>f DEF StreamOk, Filled, SameMessage
<1>3. CASE s.type = "StreamETP"
  <2> DEFINE u == [[s EXCEPT !.burst = @ + 1] EXCEPT !.remaining = missing]
             t == AwaitNextStep(u, "AwaitDpo", T2)
  <2>1. ExpectBurst(s, wish) = t
    BY <1>3 DEF ExpectBurst
  <2> HIDE DEF missing
  <2>2. /\ u \in StreamRec /\ SameMessage(u, s)
        /\ u.state = s.state /\ u.next = s.next /\ u.remaining = missing /\ u.data = s.data
    BY <1>2, BurstBegun
  <2> HIDE DEF u
  <2>3. /\ t \in StreamRec /\ SameMessage(t, u)
        /\ t.state = u.state /\ t.next = u.next /\ t.remaining = u.remaining /\ t.data = u.data
        /\ t.await = "AwaitDpo" /\ t.wait = T2 + RecvSlack
    <3>1. "AwaitDpo" \in NextComing /\ T2 \in Int /\ "AwaitDpo" # "AwaitCtsSend"
      BY DEF NextComing
    <3>2. QED BY <2>2, <3>1, AwaitNextStepIs
  <2> HIDE DEF t
  <2>4. SameMessage(t, s) /\ Filled(t)
    BY <1>f, <2>2, <2>3 DEF SameMessage
  <2>a. StreamOk(t) /\ ~Kept(t)
    BY <1>1, <1>2, <1>3, <2>2, <2>3, <2>4 DEF SameMessage, StreamOk, Kept, Announced, LastPacket, FirstPacket
  <2>5. QED BY <2>1, <2>3, <2>4, <2>a
<1>4. CASE s.type = "StreamTP"
  <2> DEFINE n == Least(s.maxBurst, missing)
             time == IF s.broadcast THEN T1 ELSE T2
             u == [[s EXCEPT !.burst = @ + 1] EXCEPT !.remaining = n]
             t == AwaitNextStep(u, "AwaitData", time)
  <2>1. ExpectBurst(s, wish) = t
    BY <1>4 DEF ExpectBurst
  <2>2. n \in 1..255 /\ n \in 0..255 /\ n <= s.total - (s.next - 1) /\ time \in Nat
    BY <1>1, <1>2, <1>4 DEF Least
  <2> HIDE DEF n, time
  <2>3. /\ u \in StreamRec /\ SameMessage(u, s)
        /\ u.state = s.state /\ u.next = s.next /\ u.remaining = n /\ u.data = s.data
    BY <2>2, BurstBegun
  <2> HIDE DEF u
  <2>4. /\ t \in StreamRec /\ SameMessage(t, u)
        /\ t.state = u.state /\ t.next = u.next /\ t.remaining = u.remaining /\ t.data = u.data
        /\ t.await = "AwaitData" /\ t.wait = time + RecvSlack
    <3>1. "AwaitData" \in NextComing /\ time \in Int /\ "AwaitData" # "AwaitCtsSend"
      BY <2>2 DEF NextComing
    <3>2. QED BY <2>3, <3>1, AwaitNextStepIs
  <2> HIDE DEF t
  <2>5. SameMessage(t, s) /\ Filled(t)
    BY <1>f, <2>3, <2>4 DEF SameMessage
  <2>a. StreamOk(t) /\ ~Kept(t)
    BY <1>1, <2>2, <1>4, <2>3, <2>4, <2>5 DEF SameMessage, StreamOk, Kept, Announced, LastPacket, FirstPacket
  <2>6. QED BY <2>1, <2>4, <2>5, <2>a
<1>5. QED BY <1>1, <1>3, <1>4

(* setDataPageOffset only shortens the burst that was asked for.           *)
LEMMA WithDpoOk ==
  ASSUME NEW s \in StreamRec, StreamOk(s), NEW n, NEW offset \in Nat, AcceptsDpo(s, n)
  PROVE  LET t == WithDpo(s, n, offset)
         IN  t \in StreamRec /\ StreamOk(t) /\ ~Kept(t) /\ SameMessage(t, s)
<1> USE RecvStreamAssumption
<1> DEFINE u == [s EXCEPT !.remaining = n, !.page = offset]
           t == AwaitNextStep(u, "AwaitData", T1)
<1>1. /\ n \in 1..255 /\ n <= s.remaining /\ s.await = "AwaitDpo" /\ s.type # "StreamFastPacket"
      /\ s.next + s.remaining - 1 <= LastPacket(s) /\ s.state = "StreamRunning"
      /\ s.remaining \in 0..255 /\ s.next \in Nat /\ s.total \in Nat /\ LastPacket(s) = s.total
      /\ s.total >= 2
  <2>1. s.remaining \in 0..255 /\ s.next \in Nat /\ s.total \in Nat /\ s.state \in StreamingState
    BY StreamFields
  <2>2. s.await = "AwaitDpo" /\ n \in 1..s.remaining
    BY DEF AcceptsDpo
  <2>3. s.type # "StreamFastPacket" /\ LastPacket(s) = s.total
    BY <2>1, <2>2 DEF StreamOk, LastPacket, FirstPacket
  <2>4. s.next + s.remaining - 1 <= LastPacket(s) /\ s.state = "StreamRunning" /\ s.total >= 2
    BY <2>1, <2>2 DEF StreamOk, Announced, Kept, StreamingState
  <2>5. QED BY <2>1, <2>2, <2>3, <2>4
<1>2. n \in 0..255
  BY <1>1
<1>3. u \in StreamRec
  BY <1>2 DEF StreamRec, RecvStreamOf
<1>4. SameMessage(u, s) /\ u.state = s.state /\ u.next = s.next /\ u.remaining = n /\ u.data = s.data
  BY <1>2 DEF StreamRec, RecvStreamOf, SameMessage
<1>5. WithDpo(s, n, offset) = t
  BY DEF WithDpo
<1> HIDE DEF u
<1>6. /\ t \in StreamRec /\ SameMessage(t, u)
      /\ t.state = u.state /\ t.next = u.next /\ t.remaining = u.remaining /\ t.data = u.data
      /\ t.await = "AwaitData" /\ t.wait = T1 + RecvSlack
  <2>1. "AwaitData" \in NextComing /\ T1 \in Int /\ "AwaitData" # "AwaitCtsSend"
    BY DEF NextComing
  <2>2. QED BY <1>3, <2>1, AwaitNextStepIs
<1> HIDE DEF t
<1>7. s.type # "StreamETP" => s.total <= 255
  BY DEF StreamOk
<1>8. s.type = "StreamTP" => s.maxBurst >= 1
  BY DEF StreamOk
<1>9. SameMessage(t, s) /\ Filled(t)
  BY <1>4, <1>6 DEF SameMessage, StreamOk, Filled
<1>10. /\ t.type = s.type /\ t.total = s.total /\ t.maxBurst = s.maxBurst /\ t.await = "AwaitData"
       /\ t.state = "StreamRunning" /\ t.next = s.next /\ t.remaining = n /\ LastPacket(t) = s.total
       /\ t.wait >= -1
  BY <1>1, <1>4, <1>6, <1>9 DEF SameMessage, LastPacket
<1>11. StreamOk(t) /\ ~Kept(t)
  <2>1. ~Kept(t) /\ t.state # "StreamFinished"
    BY <1>10 DEF Kept
  <2>2. Announced(t)
    <3>1. n > 0 /\ s.next + n - 1 <= s.total /\ s.next # s.total + 1
      <4>1. /\ n \in Nat /\ n > 0 /\ s.remaining \in Nat /\ s.next \in Nat /\ s.total \in Nat
            /\ n <= s.remaining /\ s.next + s.remaining - 1 <= s.total
        BY <1>1
      <4>2. QED BY <4>1
    <3>2. /\ t.await = "AwaitData" /\ t.remaining = n /\ t.next = s.next
          /\ LastPacket(t) = s.total
      BY <1>10
    <3>3. QED BY <3>1, <3>2 DEF Announced
  <2>3. /\ t.total >= 2 /\ t.wait >= -1
        /\ t.type # "StreamETP" => t.total <= 255
        /\ t.type = "StreamTP" => t.maxBurst >= 1
    BY <1>1, <1>7, <1>8, <1>10
  <2>4. t.await # "AwaitNothing" /\ t.type # "StreamFastPacket"
    BY <1>1, <1>10
  <2>5. QED BY <1>9, <2>1, <2>2, <2>3, <2>4 DEF StreamOk
<1>12. QED BY <1>5, <1>6, <1>9, <1>11

(* handleDataPacket finishes a stream with its last packet, or goes on with   *)
(* the burst, or asks for the next one; a finished stream may be kept.        *)
LEMMA WithDataOk ==
  ASSUME NEW s \in StreamRec, StreamOk(s), NEW seq \in 0..255, s.await = "AwaitData"
  PROVE  LET t == WithData(s, seq)
         IN  /\ t \in StreamRec /\ SameMessage(t, s)
             /\ t.state # "StreamFinished" => StreamOk(t) /\ ~Kept(t)
             /\ t.state = "StreamFinished" =>
                  /\ JustKept(t) \in StreamRec /\ StreamOk(JustKept(t)) /\ Kept(JustKept(t))
                  /\ SameMessage(JustKept(t), s)
<1> USE RecvStreamAssumption
<1> DEFINE last == LastPacket(s)
           first == FirstPacket(s.type)
<1>1. /\ s.remaining \in 1..255 /\ s.next + s.remaining - 1 <= last
      /\ s.state = "StreamRunning" /\ s.total >= 2
      /\ s.type = "StreamFastPacket" => s.next + s.remaining - 1 = last
      /\ s.type # "StreamETP" => s.total <= 255
      /\ s.type = "StreamTP" => s.maxBurst >= 1
      /\ s.next \in Nat /\ s.total \in Nat /\ s.type \in StreamType
  BY StreamFields DEF StreamOk, Kept, Announced, StreamingState
<1>2. last \in Nat /\ first \in 0..1 /\ last = s.total - (1 - first)
  BY <1>1 DEF LastPacket, FirstPacket
<1> DEFINE d == Append(s.data, seq)
           next == s.next + 1
           n == (s.remaining - 1) % 256
           t == Written(s, d, next, n)
<1>3. /\ next \in Nat /\ next = s.next + 1
      /\ n \in 0..255 /\ n = s.remaining - 1
  BY <1>1
<1>a. d \in Seq(0..255) /\ Len(d) = next - first
  <2>1. s.data \in Seq(0..255) /\ Len(s.data) = s.next - first
    BY StreamFields DEF StreamOk, Filled
  <2>2. Len(d) = Len(s.data) + 1 /\ d \in Seq(0..255)
    BY <2>1
  <2>3. QED BY <1>1, <1>2, <2>1, <2>2
<1>4. WithData(s, seq) = CASE t.remaining > 0 -> AwaitNextStep(t, "AwaitData", T1)
        [] t.remaining = 0 /\ (t.type = "StreamFastPacket" \/ t.next > t.total) ->
             [AwaitNextStep(t, "AwaitNothing", -1) EXCEPT !.state = "StreamFinished"]
        [] OTHER -> AwaitNextStep(t, "AwaitCtsSend", CtsDelay)
  BY DEF WithData, Written
<1> HIDE DEF d, next, n
<1>5. /\ t \in StreamRec /\ SameMessage(t, s)
      /\ t.state = s.state /\ t.next = next /\ t.remaining = n /\ t.data = d
  <2>1. d \in Seq(0..255) /\ next \in Nat /\ n \in 0..255
    BY <1>3, <1>a
  <2>2. IsWritten(t, s, d, next, n)
    BY <2>1, PacketWritten
  <2>3. QED BY <2>2 DEF IsWritten
<1> HIDE DEF t, last, first
<1>6. ASSUME NEW u \in StreamRec, SameMessage(u, t)
      PROVE  /\ u.type = s.type /\ u.total = s.total /\ u.maxBurst = s.maxBurst /\ SameMessage(u, s)
             /\ LastPacket(u) = last
             /\ u.next = next /\ u.data = d => Filled(u)
  <2>1. u.type = s.type /\ u.total = s.total /\ u.maxBurst = s.maxBurst /\ SameMessage(u, s)
    BY <1>5, <1>6 DEF SameMessage
  <2>2. LastPacket(u) = last
    BY <2>1 DEF LastPacket, last
  <2>3. u.next = next /\ u.data = d => Filled(u)
    BY <2>1, <1>a DEF Filled, first
  <2>4. QED BY <2>1, <2>2, <2>3
<1>7. ASSUME NEW step \in NextComing, NEW time \in Int
      PROVE  LET u == AwaitNextStep(t, step, time)
             IN  /\ u \in StreamRec /\ SameMessage(u, t) /\ u.state = "StreamRunning"
                 /\ u.next = next /\ u.remaining = n /\ u.data = d
                 /\ u.await = step
                 /\ step = "AwaitCtsSend" => u.wait = time
                 /\ step # "AwaitCtsSend" => u.wait = time + RecvSlack
  <2>1. t.state = "StreamRunning"
    BY <1>1, <1>5
  <2>2. QED BY <2>1, <1>5, AwaitNextStepIs
<1>8. CASE n > 0
  <2> DEFINE u == AwaitNextStep(t, "AwaitData", T1)
  <2>1. WithData(s, seq) = u
    BY <1>4, <1>5, <1>8
  <2>2. "AwaitData" \in NextComing /\ T1 \in Int
    BY DEF NextComing
  <2>3. /\ u \in StreamRec /\ SameMessage(u, t) /\ u.state = "StreamRunning"
        /\ u.next = next /\ u.remaining = n /\ u.data = d
        /\ u.await = "AwaitData" /\ u.wait = T1 + RecvSlack
    BY <2>2, <1>7
  <2> HIDE DEF u
  <2>4. /\ u.type = s.type /\ u.total = s.total /\ u.maxBurst = s.maxBurst /\ SameMessage(u, s)
        /\ LastPacket(u) = last /\ Filled(u)
    BY <2>3, <1>6
  <2>5. StreamOk(u) /\ ~Kept(u)
    BY <1>1, <1>2, <1>3, <1>8, <2>3, <2>4 DEF StreamOk, Kept, Announced
  <2>6. QED BY <2>1, <2>3, <2>4, <2>5
<1>9. CASE n = 0 /\ (s.type = "StreamFastPacket" \/ next > s.total)
  <2> DEFINE v == AwaitNextStep(t, "AwaitNothing", -1)
             u == [v EXCEPT !.state = "StreamFinished"]
             x == AwaitNextStep(u, "AwaitNothing", -1)
             k == [x EXCEPT !.state = "StreamFinishedJustKept"]
  <2>1. WithData(s, seq) = u
    BY <1>4, <1>5, <1>9 DEF SameMessage
  <2>2. /\ "AwaitNothing" \in NextComing /\ -1 \in Int
        /\ "StreamFinished" \in StreamingState /\ "StreamFinishedJustKept" \in StreamingState
    BY DEF NextComing, StreamingState
  <2>3. JustKept(u) = k
    BY DEF JustKept
  <2>4. /\ v \in StreamRec /\ SameMessage(v, t)
        /\ v.next = next /\ v.remaining = n /\ v.data = d
    BY <2>2, <1>7
  <2> HIDE DEF v
  <2>5. /\ u \in StreamRec /\ SameMessage(u, v) /\ u.state = "StreamFinished"
        /\ u.next = next /\ u.remaining = n /\ u.data = d
    BY <2>2, <2>4, StateSet
  <2> HIDE DEF u
  <2>6. /\ x \in StreamRec /\ SameMessage(x, u)
        /\ x.next = next /\ x.remaining = n /\ x.data = d
        /\ x.await = "AwaitNothing" /\ x.wait = -1 + RecvSlack
    <3>1. "AwaitNothing" # "AwaitCtsSend" /\ u \in StreamRec
      BY <2>5
    <3>2. /\ x \in StreamRec /\ SameMessage(x, u)
          /\ x.next = u.next /\ x.remaining = u.remaining /\ x.data = u.data
          /\ x.await = "AwaitNothing"
      BY <3>1, <2>2, AwaitNextStepIs
    <3>3. x.wait = -1 + RecvSlack
      BY <3>1, <2>2, AwaitNextStepIs
    <3>4. QED BY <3>2, <3>3, <2>5
  <2> HIDE DEF x
  <2>7. /\ k \in StreamRec /\ SameMessage(k, x) /\ k.state = "StreamFinishedJustKept"
        /\ k.next = next /\ k.remaining = n /\ k.data = d
        /\ k.await = "AwaitNothing" /\ k.wait = -1 + RecvSlack
    BY <2>2, <2>6, StateSet
  <2> HIDE DEF k
  <2>8. SameMessage(u, t) /\ SameMessage(k, t)
    BY <2>4, <2>5, <2>6, <2>7 DEF SameMessage
  <2>9. /\ k.type = s.type /\ k.total = s.total /\ k.maxBurst = s.maxBurst /\ SameMessage(k, s)
        /\ LastPacket(k) = last /\ Filled(k) /\ SameMessage(u, s)
    BY <2>5, <2>7, <2>8, <1>6
  <2>10. s.next = last
    BY <1>1, <1>2, <1>3, <1>9 DEF first, FirstPacket
  <2>11. StreamOk(k) /\ Kept(k)
    BY <1>1, <1>2, <1>3, <2>7, <2>9, <2>10 DEF StreamOk, Kept, Announced
  <2>12. QED BY <2>1, <2>3, <2>5, <2>7, <2>9, <2>11
<1>10. CASE n = 0 /\ ~(s.type = "StreamFastPacket" \/ next > s.total)
  <2> DEFINE u == AwaitNextStep(t, "AwaitCtsSend", CtsDelay)
  <2>1. WithData(s, seq) = u
    BY <1>4, <1>5, <1>10 DEF SameMessage
  <2>2. "AwaitCtsSend" \in NextComing /\ CtsDelay \in Int
    BY DEF NextComing
  <2>3. /\ u \in StreamRec /\ SameMessage(u, t) /\ u.state = "StreamRunning"
        /\ u.next = next /\ u.remaining = n /\ u.data = d
        /\ u.await = "AwaitCtsSend" /\ u.wait = CtsDelay
    BY <2>2, <1>7
  <2> HIDE DEF u
  <2>4. /\ u.type = s.type /\ u.total = s.total /\ u.maxBurst = s.maxBurst /\ SameMessage(u, s)
        /\ LastPacket(u) = last /\ Filled(u)
    BY <2>3, <1>6
  <2>5. first = 1
    BY <1>10 DEF first, FirstPacket
  <2>6. StreamOk(u) /\ ~Kept(u)
    BY <1>1, <1>2, <1>3, <1>10, <2>3, <2>4, <2>5 DEF StreamOk, Kept, Announced
  <2>7. QED BY <2>1, <2>3, <2>4, <2>6
<1>11. QED
  <2>1. n > 0 \/ n = 0
    BY <1>3
  <2>2. QED BY <2>1, <1>8, <1>9, <1>10

(* The constructor, for a stream that starts with an RTS, a BAM or a frame 0.  *)
\* What the constructor assigns before a broadcast stream expects its burst.
Constructed(type, bc, total, maxBurst) ==
  [type |-> type, broadcast |-> bc, state |-> "StreamRunning",
   await |-> "AwaitCtsSend", total |-> total, next |-> FirstPacket(type),
   remaining |-> 0, burst |-> 0, page |-> 0, maxBurst |-> maxBurst,
   wait |-> -1, data |-> <<>>]

\* What the constructor of a stream leaves in its fields.
LEMMA NewStreamIs ==
  ASSUME NEW type \in StreamType, NEW bc \in BOOLEAN, NEW total \in Nat, total >= 2,
         NEW maxBurst \in 1..255, type # "StreamETP" => total <= 255
  PROVE  LET s == Constructed(type, bc, total, maxBurst)
         IN  s \in StreamRec /\ (type # "StreamFastPacket" => StreamOk(s))
<1>1. <<>> \in Seq(0..255) /\ Len(<<>>) = 0
  OBVIOUS
<1>2. FirstPacket(type) \in 0..1
  BY DEF FirstPacket
<1> DEFINE s == Constructed(type, bc, total, maxBurst)
<1>3. s \in StreamRec
  <2>1. /\ "StreamRunning" \in StreamingState /\ "AwaitCtsSend" \in NextComing
        /\ FirstPacket(type) \in Nat /\ 0 \in 0..255 /\ 0 \in Nat /\ maxBurst \in 0..255 /\ -1 \in Int
    BY <1>2 DEF StreamingState, NextComing
  <2>2. QED BY <1>1, <2>1, Zenon DEF Constructed, StreamRec, RecvStreamOf
<1>4. /\ s.type = type /\ s.state = "StreamRunning" /\ s.await = "AwaitCtsSend" /\ s.total = total
      /\ s.next = FirstPacket(type) /\ s.wait = -1 /\ s.maxBurst = maxBurst /\ s.data = <<>>
  BY DEF Constructed
<1> HIDE DEF s
<1>5. ASSUME type # "StreamFastPacket" PROVE StreamOk(s)
  <2>1. Filled(s)
    BY <1>1, <1>2, <1>4 DEF Filled
  <2>2. QED BY <2>1, <1>4, <1>5 DEF StreamOk, Kept, Announced, LastPacket, FirstPacket
<1>6. QED BY <1>3, <1>5 DEF s

\* t is a stream that has just been created.
IsNew(t, type, broadcast) ==
  t \in StreamRec /\ StreamOk(t) /\ ~Kept(t) /\ t.type = type /\ t.broadcast = broadcast

\* A stream opened by an RTS that was accepted is in order.
LEMMA NewDirectedOk ==
  ASSUME NEW type \in {"StreamTP", "StreamETP"}, NEW total \in Nat, total >= 2,
         NEW maxBurst \in 1..255, type # "StreamETP" => total <= 255, NEW wish \in 1..255
  PROVE  IsNew(ExpectBurst(NewRecvStream(type, FALSE, total, maxBurst), wish), type, FALSE)
<1> DEFINE s == Constructed(type, FALSE, total, maxBurst)
<1>1. type \in StreamType /\ type # "StreamFastPacket" /\ FALSE \in BOOLEAN
  BY DEF StreamType
<1>2. s \in StreamRec /\ StreamOk(s)
  BY <1>1, NewStreamIs
<1>3. s.await = "AwaitCtsSend" /\ s.type = type /\ s.broadcast = FALSE
  BY DEF Constructed
<1>b. NewRecvStream(type, FALSE, total, maxBurst) = s
  BY DEF NewRecvStream, Constructed
<1> HIDE DEF s
<1> DEFINE t == ExpectBurst(s, wish)
<1>4. t \in StreamRec /\ StreamOk(t) /\ ~Kept(t) /\ SameMessage(t, s)
  BY <1>2, <1>3, ExpectBurstOk
<1>5. IsNew(t, type, FALSE)
  BY <1>3, <1>4 DEF SameMessage, IsNew
<1>6. QED BY <1>5, <1>b

\* A stream opened by a BAM is in order.
LEMMA NewBroadcastOk ==
  ASSUME NEW type \in {"StreamTP", "StreamFastPacket"}, NEW total \in 2..255
  PROVE  LET t == NewRecvStream(type, TRUE, total, 255)
         IN  IsNew(t, type, TRUE) /\ t.await = "AwaitData"
<1> USE RecvStreamAssumption
<1> DEFINE s == Constructed(type, TRUE, total, 255)
<1>1. /\ type \in StreamType /\ type # "StreamETP" /\ TRUE \in BOOLEAN
      /\ total \in Nat /\ total >= 2 /\ total <= 255 /\ 255 \in 1..255
  BY DEF StreamType
<1>2. s \in StreamRec /\ (type # "StreamFastPacket" => StreamOk(s))
  BY <1>1, NewStreamIs, ZenonT(40)
<1>3. /\ s.type = type /\ s.state = "StreamRunning" /\ s.await = "AwaitCtsSend" /\ s.total = total
      /\ s.next = FirstPacket(type) /\ s.data = <<>> /\ s.broadcast = TRUE
  BY DEF Constructed
<1>4. NewRecvStream(type, TRUE, total, 255) = ExpectBurst(s, 255)
  BY DEF NewRecvStream, Constructed
<1> HIDE DEF s
<1>5. CASE type = "StreamTP"
  <2> DEFINE t == ExpectBurst(s, 255)
  <2>1. t \in StreamRec /\ StreamOk(t) /\ ~Kept(t) /\ SameMessage(t, s)
    BY <1>1, <1>2, <1>3, <1>5, ExpectBurstOk
  <2>2. t.await = "AwaitData"
    <3> DEFINE n == Least(s.maxBurst, Least(s.total - (s.next - 1), 255))
               u == [[s EXCEPT !.burst = @ + 1] EXCEPT !.remaining = n]
               time == IF s.broadcast THEN T1 ELSE T2
    <3>1. t = AwaitNextStep(u, "AwaitData", time)
      BY <1>3, <1>5 DEF ExpectBurst
    <3>2. n \in 0..255 /\ time \in Int
      BY <1>2, <1>1, <1>3, <1>5, StreamFields DEF Least, FirstPacket
    <3> HIDE DEF n, time, t
    <3>3. u \in StreamRec
      BY <3>2, <1>2, BurstBegun
    <3>4. "AwaitData" \in NextComing
      BY DEF NextComing
    <3> HIDE DEF u
    <3>5. QED BY <3>1, <3>2, <3>3, <3>4, AwaitNextStepIs
  <2>3. NewRecvStream(type, TRUE, total, 255) = t
    BY <1>4
  <2> HIDE DEF t
  <2>4. t.type = type /\ t.broadcast = TRUE
    BY <2>1, <1>3 DEF SameMessage
  <2>5. QED BY <2>1, <2>2, <2>3, <2>4, ZenonT(40) DEF IsNew
<1>6. CASE type = "StreamFastPacket"
  <2> DEFINE u == [[s EXCEPT !.burst = @ + 1] EXCEPT !.remaining = s.total]
             t == AwaitNextStep(u, "AwaitData", TFp)
  <2>1. NewRecvStream(type, TRUE, total, 255) = t
    BY <1>3, <1>4, <1>6 DEF ExpectBurst
  <2>2. s.total \in 0..255
    BY <1>1, <1>3
  <2>3. /\ u \in StreamRec /\ SameMessage(u, s)
        /\ u.state = s.state /\ u.next = s.next /\ u.remaining = s.total /\ u.data = s.data
    BY <2>2, <1>2, BurstBegun
  <2> HIDE DEF u
  <2>4. /\ t \in StreamRec /\ SameMessage(t, u)
        /\ t.state = u.state /\ t.next = u.next /\ t.remaining = u.remaining /\ t.data = u.data
        /\ t.await = "AwaitData" /\ t.wait = TFp + RecvSlack
    <3>1. "AwaitData" \in NextComing /\ TFp \in Int /\ "AwaitData" # "AwaitCtsSend"
      BY DEF NextComing
    <3>2. QED BY <2>3, <3>1, AwaitNextStepIs
  <2> HIDE DEF t
  <2>5. s.next = 0 /\ Filled(t)
    <3>1. s.data = <<>> /\ s.next = 0 /\ FirstPacket(t.type) = 0
      BY <1>3, <1>6, <2>3, <2>4 DEF FirstPacket, SameMessage
    <3>2. Len(t.data) = 0 /\ t.next = 0
      BY <3>1, <2>3, <2>4
    <3>3. QED BY <3>1, <3>2 DEF Filled
  <2>6. StreamOk(t) /\ ~Kept(t)
    BY <1>1, <1>3, <1>6, <2>3, <2>4, <2>5 DEF SameMessage, StreamOk, Kept, Announced, LastPacket, FirstPacket
  <2>7. t.type = type /\ t.broadcast = TRUE
    BY <1>3, <2>3, <2>4 DEF SameMessage
  <2>8. QED BY <2>1, <2>4, <2>6, <2>7, ZenonT(40) DEF IsNew
<1>7. QED BY <1>5, <1>6

(* A stream that time passes for.                                            *)
LEMMA RecvElapseOk ==
  ASSUME NEW s \in StreamRec, StreamOk(s)
  PROVE  LET t == RecvElapse(s)
         IN  /\ t \in StreamRec /\ StreamOk(t) /\ Kept(t) = Kept(s) /\ SameMessage(t, s)
             /\ t.wait = IF s.wait >= 0 THEN s.wait - 1 ELSE -1
<1> DEFINE w == IF s.wait >= 0 THEN s.wait - 1 ELSE -1
           t == [s EXCEPT !.wait = w]
<1>1. w \in Int /\ w >= -1
  BY StreamFields
<1>2. RecvElapse(s) = t
  BY DEF RecvElapse
<1> HIDE DEF w
<1>3. t \in StreamRec
  BY <1>1 DEF StreamRec, RecvStreamOf
<1>4. /\ SameMessage(t, s) /\ t.wait = w
      /\ t.state = s.state /\ t.await = s.await
      /\ t.next = s.next /\ t.remaining = s.remaining /\ t.data = s.data
  BY <1>1 DEF StreamRec, RecvStreamOf, SameMessage
<1> HIDE DEF t
<1>5. StreamOk(t) /\ Kept(t) = Kept(s)
  <2>1. Filled(t)
    BY <1>4 DEF StreamOk, Filled, SameMessage
  <2>2. QED BY <2>1, <1>1, <1>4 DEF StreamOk, Announced, Kept, LastPacket, SameMessage
<1>6. QED BY <1>2, <1>3, <1>4, <1>5 DEF w

-----------------------------------------------------------------------------
(* Look-ups.                                                               *)

\* Smallest answers a member, and none is smaller.
LEMMA SmallestIs ==
  ASSUME NEW S, S \subseteq Int, S # {}, NEW b \in Int, \A x \in S : x >= b
  PROVE  Smallest(S) \in S /\ \A y \in S : Smallest(S) <= y
<1> DEFINE T == {x - b : x \in S}
<1>1. T \subseteq Nat /\ T # {}
  <2>1. \A x \in S : x - b \in Nat
    OBVIOUS
  <2>2. PICK x \in S : TRUE
    OBVIOUS
  <2>3. x - b \in T
    OBVIOUS
  <2>4. QED BY <2>1, <2>3
<1>2. PICK m \in T : \A y \in T : m <= y
  <2> HIDE DEF T
  <2>1. QED BY <1>1, LeastNatural
<1>3. PICK x \in S : m = x - b
  OBVIOUS
<1>4. ASSUME NEW y \in S PROVE x <= y
  <2>1. x - b <= y - b
    BY <1>2, <1>3
  <2>2. QED BY <2>1
<1>5. QED BY <1>4 DEF Smallest

(* getStreamInternal answers one of the streams that match.                *)
LEMMA FirstFound ==
  ASSUME list \in Seq(Created), NEW S \in SUBSET InList, S # {}
  PROVE  FirstOf(S) \in S
<1> DEFINE place(i) == CHOOSE k \in 1..Len(list) : list[k] = i
           P == {place(i) : i \in S}
<1>1. \A i \in S : \E k \in 1..Len(list) : list[k] = i
  BY DEF InList, Range
<1>2. \A i \in S : place(i) \in 1..Len(list)
  BY <1>1
<1> HIDE DEF place
<1>3. P \subseteq Nat /\ P # {}
  BY <1>2
<1>4. PICK m \in P : \A y \in P : m <= y
  <2> HIDE DEF P
  <2>1. QED BY <1>3, LeastNatural
<1>5. PICK i \in S : m = place(i)
  OBVIOUS
<1>6. \A j \in S : place(i) <= place(j)
  BY <1>4, <1>5
<1>7. \E x \in S : \A j \in S : place(x) <= place(j)
  BY <1>6
<1>8. FirstOf(S) = CHOOSE x \in S : \A j \in S : place(x) <= place(j)
  BY DEF FirstOf, place
<1>9. QED BY <1>7, <1>8

\* An address in use has an item behind it; the broadcast address has none.
LEMMA NameOfAddress ==
  ASSUME Core
  PROVE  /\ \A a \in Held : a \in Address /\ NameAt(a) \in Name /\ address[NameAt(a)] = a
         /\ NameAt(Global) = Global /\ Global \notin Held /\ Global \notin Name
<1>1. address \in [Name -> Address \union {Lost}]
  BY DEF Core, Typed
<1>2. Held \subseteq Address
  BY <1>1 DEF Held
<1>3. Global \notin Address /\ Global \notin Name
  BY MultiReceiveAssumption
<1>4. ASSUME NEW a \in Held PROVE NameAt(a) \in Name /\ address[NameAt(a)] = a
  <2>1. a # Global
    BY <1>2, <1>3
  <2>2. \E n \in Name : address[n] = a
    BY DEF Held
  <2>3. QED BY <2>1, <2>2 DEF NameAt
<1>5. QED BY <1>2, <1>3, <1>4 DEF NameAt

\* The number of streams of a client is a natural number.
LEMMA CountIsNatural ==
  ASSUME Core
  PROVE  StreamCount(list) \in Nat
<1> DEFINE S == {i \in Range(list) : ~Kept(stream[i])}
<1>1. list \in Seq(Created) /\ Len(stream) \in Nat
  BY DEF Core, Typed
<1>2. S \subseteq 1..Len(stream)
  BY <1>1 DEF Range, Created
<1>3. IsFiniteSet(1..Len(stream))
  BY <1>1, FS_Interval
<1>4. IsFiniteSet(S)
  <2> HIDE DEF S
  <2>1. QED BY <1>2, <1>3, FS_Subset
<1>5. QED BY <1>4, FS_CardinalityType DEF StreamCount

(* Everybody may send at least one packet, and no more than a byte counts. *)
LEMMA ShareIsByte ==
  ASSUME NEW count \in Nat
  PROVE  AllowedPackets(count) \in 1..255
<1>1. MaxOverall \in 1..255 /\ MaxPerClient \in 1..255
  BY MultiReceiveAssumption
<1>2. ASSUME count > 0 PROVE MaxOverall \div count \in Nat
  BY <1>1, <1>2
<1> DEFINE share == IF count > 0 THEN MaxOverall \div count ELSE 1
           least == IF share = 0 THEN 1 ELSE share
<1>3. share \in Nat
  BY <1>2
<1> HIDE DEF share
<1>4. least \in Nat /\ least >= 1
  BY <1>3
<1>5. AllowedPackets(count) = Least(least, MaxPerClient)
  BY DEF AllowedPackets, share
<1> HIDE DEF least
<1>6. QED BY <1>1, <1>4, <1>5 DEF Least

(* The period nextTimeEvent() computes: no stream needs the task earlier.   *)
LEMMA NextTimeEventIs ==
  ASSUME NEW q, NEW streams, \A i \in Range(q) : streams[i] \in StreamRec /\ StreamOk(streams[i])
  PROVE  /\ NextTimeEvent(q, streams) \in Int
         /\ \A i \in Range(q) : Kept(streams[i]) \/ NextTimeEvent(q, streams) <= streams[i].wait
<1> DEFINE waits == {streams[i].wait : i \in {j \in Range(q) : streams[j].await # "AwaitNothing"}}
           S == {IdleWait} \union waits
<1>1. \A i \in Range(q) : streams[i].wait \in Int /\ streams[i].wait >= -1
  BY StreamFields DEF StreamOk
<1>2. IdleWait \in Nat
  BY MultiReceiveAssumption
<1>3. S \subseteq Int /\ S # {} /\ \A x \in S : x >= -1
  <2>1. \A x \in waits : x \in Int /\ x >= -1
    BY <1>1
  <2> HIDE DEF waits
  <2>2. QED BY <2>1, <1>2
<1>4. NextTimeEvent(q, streams) = Smallest(S)
  BY DEF NextTimeEvent
<1>5. Smallest(S) \in S /\ \A y \in S : Smallest(S) <= y
  <2> HIDE DEF S
  <2>1. -1 \in Int
    OBVIOUS
  <2>2. QED BY <1>3, <2>1, SmallestIs
<1>6. ASSUME NEW i \in Range(q), ~Kept(streams[i]) PROVE streams[i].wait \in S
  <2>1. streams[i].await # "AwaitNothing"
    BY <1>6 DEF StreamOk
  <2>2. QED BY <2>1
<1> HIDE DEF S
<1>7. QED BY <1>3, <1>4, <1>5, <1>6

-----------------------------------------------------------------------------
(* What the steps do to the list and the streams, and that each effect      *)
(* keeps Core.                                                              *)

\* q is the list without the streams in gone.
Remains(q, gone) == q \in Seq(Created) /\ IsInjective(q) /\ Range(q) = InList \ gone

\* What is left of a list without some of its elements.
LEMMA SelectedRemains ==
  ASSUME Core, NEW gone
  PROVE  Remains(Selected(list, InList \ gone), gone) /\ Remains(list, {})
<1>1. list \in Seq(Created) /\ IsInjective(list)
  BY DEF Core, Typed
<1>2. /\ Selected(list, InList \ gone) \in Seq(Created)
      /\ Range(Selected(list, InList \ gone)) = Range(list) \intersect (InList \ gone)
      /\ IsInjective(list) => IsInjective(Selected(list, InList \ gone))
  BY <1>1, SelectedIs, Zenon
<1> DEFINE q == Selected(list, InList \ gone)
<1> HIDE DEF q
<1>3. Range(q) = InList \ gone
  BY <1>2 DEF InList, q
<1>4. QED BY <1>1, <1>2, <1>3 DEF Remains, InList, q

(* Any change that adds no stream: those that stay keep their message, wait *)
(* for what is missing, and are kept only after their end was told.         *)
Evolves ==
  /\ UNCHANGED <<scenario, stale, address, ident, holder>>
  /\ clients' \in Seq(WrapperRec)
  /\ list' \in Seq(Created) /\ IsInjective(list') /\ Range(list') \subseteq InList
  /\ stream' \in Seq(StreamRec) /\ Len(stream') = Len(stream)
  /\ \A i \in Created : SameMessage(stream'[i], stream[i])
  /\ \A i \in Range(list') : StreamOk(stream'[i]) /\ (Kept(stream[i]) => Kept(stream'[i]))
  /\ over' \subseteq Created
  /\ \A i \in Range(list') : i \in over' <=> Kept(stream'[i])

\* Streams that change without a new one, or leave, keep the core of the invariant.
LEMMA EvolvesKeeps ==
  ASSUME Core, Evolves
  PROVE  Core'
<1>1. Created' = Created
  BY DEF Evolves, Created
<1>2. /\ InList' = Range(list') /\ InList' \subseteq InList /\ InList' \subseteq Created
  <2>1. InList \subseteq Created
    BY DEF Core, Typed, InList, Range
  <2>2. QED BY <2>1 DEF Evolves, InList
<1>3. Typed'
  BY <1>1 DEF Core, Typed, Evolves
<1>4. AddressesDistinct'
  BY DEF Core, Evolves, AddressesDistinct
<1>5. \A i \in Created' : IdentFits(stream'[i], ident'[i])
  <2> SUFFICES ASSUME NEW i \in Created PROVE IdentFits(stream'[i], ident'[i])
    BY <1>1
  <2>1. IdentFits(stream[i], ident[i]) /\ SameMessage(stream'[i], stream[i]) /\ ident' = ident
    BY DEF Core, Evolves
  <2>2. QED BY <2>1 DEF IdentFits, SameMessage
<1>6. ASSUME NamesFollowed, NEW i \in InList' PROVE FollowsNames(ident[i])'
  <2>1. FollowsNames(ident[i]) /\ ident' = ident /\ address' = address
    BY <1>2, <1>6 DEF NamesFollowed, Evolves
  <2>2. QED BY <2>1 DEF FollowsNames
<1>7. \A i \in InList' : StreamOk(stream'[i])
  BY <1>2 DEF Evolves
<1>8. \A i \in InList' : i \in over' <=> Kept(stream'[i])
  BY <1>2 DEF Evolves
<1>9. ASSUME NamesFollowed PROVE OneStreamPerNames'
  <2> SUFFICES ASSUME NEW i \in InList', NEW j \in InList',
                      ~Kept(stream'[i]), ~Kept(stream'[j]),
                      ident'[i].type = ident'[j].type, ident'[i].type # "StreamFastPacket",
                      ident'[i].saName = ident'[j].saName, ident'[i].daName = ident'[j].daName
               PROVE  i = j
    BY DEF OneStreamPerNames
  <2>1. ident' = ident /\ i \in InList /\ j \in InList
    BY <1>2 DEF Evolves
  <2>2. ~Kept(stream[i]) /\ ~Kept(stream[j])
    BY <1>2 DEF Evolves
  <2>3. QED BY <1>9, <2>1, <2>2 DEF NamesFollowed, OneStreamPerNames
<1>10. stale' \/ NamesFollowed'
  <2>1. (stale \/ NamesFollowed) /\ stale' = stale
    BY DEF Core, Evolves
  <2>2. NamesFollowed => NamesFollowed'
    BY <1>6, <1>9 DEF NamesFollowed
  <2>3. QED BY <2>1, <2>2
<1>11. QED BY <1>3, <1>4, <1>5, <1>7, <1>8, <1>10 DEF Core

(* Streams leave the list: tellClientRemoveStream, removeKeptStream and the *)
(* deregistration of clients.                                               *)
LEMMA RemovesKeep ==
  ASSUME Core, NEW gone, NEW told,
         UNCHANGED <<scenario, stale, address, stream, ident, holder>>,
         clients' \in Seq(WrapperRec),
         Remains(list', gone), over' = over \union told,
         gone \subseteq InList, told \subseteq gone, gone \subseteq over \union told,
         \A c \in calls' : c.id \notin over
  PROVE  Core' /\ EndsTold
<1>1. InList \subseteq Created
  BY DEF Core, Typed, InList, Range
<1>2. \A i \in Range(list') : i \in InList /\ i \notin gone
  BY DEF Remains
<1>3. Evolves
  <2>1. \A i \in Created : SameMessage(stream'[i], stream[i])
    BY DEF SameMessage
  <2>2. \A i \in Range(list') : StreamOk(stream'[i]) /\ (Kept(stream[i]) => Kept(stream'[i]))
    BY <1>2 DEF Core
  <2>3. \A i \in Range(list') : i \in over' <=> Kept(stream'[i])
    BY <1>2 DEF Core
  <2>4. over' \subseteq Created
    BY <1>1 DEF Core, Typed
  <2>5. stream' \in Seq(StreamRec)
    BY DEF Core, Typed
  <2>6. QED BY <1>2, <2>1, <2>2, <2>3, <2>4, <2>5 DEF Evolves, Remains
<1>4. InList \ Range(list') \subseteq over'
  BY DEF Remains
<1>5. QED BY <1>3, <1>4, EvolvesKeeps DEF EndsTold

(* A stream in work gets its next record, which may be that of a kept one.  *)
LEMMA UpdateKeeps ==
  ASSUME Core, NEW i \in InList, ~Kept(stream[i]),
         NEW s \in StreamRec, StreamOk(s), SameMessage(s, stream[i]),
         UNCHANGED <<scenario, stale, clients, list, address, ident, holder>>,
         stream' = [stream EXCEPT ![i] = s],
         over' = over \union {j \in {i} : Kept(s)},
         \A c \in calls' : c.id = i
  PROVE  Core' /\ EndsTold
<1>1. i \in Created /\ InList \subseteq Created /\ stream \in Seq(StreamRec) /\ Created = 1..Len(stream)
  BY DEF Core, Typed, InList, Range, Created
<1>2. /\ stream' \in Seq(StreamRec) /\ Len(stream') = Len(stream)
      /\ stream'[i] = s /\ \A j \in Created : j # i => stream'[j] = stream[j]
  BY <1>1
<1>3. Range(list') = InList
  BY DEF InList
<1>4. Evolves
  <2>1. \A j \in Created : SameMessage(stream'[j], stream[j])
    BY <1>2 DEF SameMessage
  <2>2. ASSUME NEW j \in InList
        PROVE  /\ StreamOk(stream'[j]) /\ (Kept(stream[j]) => Kept(stream'[j]))
               /\ j \in over' <=> Kept(stream'[j])
    <3>1. j \in Created /\ StreamOk(stream[j]) /\ (j \in over <=> Kept(stream[j]))
      BY <1>1 DEF Core
    <3>2. CASE j = i
      BY <3>1, <3>2, <1>2
    <3>3. CASE j # i
      BY <3>1, <3>3, <1>2
    <3>4. QED BY <3>2, <3>3
  <2>3. over' \subseteq Created
    BY <1>1 DEF Core, Typed
  <2>4. clients' \in Seq(WrapperRec) /\ list' \in Seq(Created) /\ IsInjective(list')
    BY DEF Core, Typed
  <2>5. QED BY <1>2, <1>3, <2>1, <2>2, <2>3, <2>4 DEF Evolves
<1>5. \A c \in calls' : c.id \notin over
  BY DEF Core
<1>6. QED BY <1>3, <1>4, <1>5, EvolvesKeeps DEF EndsTold

(* The last packet of a message that nobody keeps.                          *)
LEMMA FinishKeeps ==
  ASSUME Core, NEW i \in InList, ~Kept(stream[i]),
         NEW s \in StreamRec, SameMessage(s, stream[i]),
         UNCHANGED <<scenario, stale, clients, address, ident, holder>>,
         stream' = [stream EXCEPT ![i] = s], list' = Removed(i),
         over' = over \union {i},
         \A c \in calls' : c.id = i
  PROVE  Core' /\ EndsTold
<1>1. i \in Created /\ InList \subseteq Created /\ stream \in Seq(StreamRec) /\ Created = 1..Len(stream)
  BY DEF Core, Typed, InList, Range, Created
<1>2. /\ stream' \in Seq(StreamRec) /\ Len(stream') = Len(stream)
      /\ stream'[i] = s /\ \A j \in Created : j # i => stream'[j] = stream[j]
  BY <1>1
<1>3. Remains(list', {i})
  BY SelectedRemains DEF Removed
<1>4. \A j \in Range(list') : j \in InList /\ j # i
  BY <1>3 DEF Remains
<1>5. Evolves
  <2>1. \A j \in Created : SameMessage(stream'[j], stream[j])
    BY <1>2 DEF SameMessage
  <2>2. ASSUME NEW j \in Range(list')
        PROVE  /\ StreamOk(stream'[j]) /\ (Kept(stream[j]) => Kept(stream'[j]))
               /\ j \in over' <=> Kept(stream'[j])
    <3>1. j \in InList /\ j \in Created /\ j # i
      BY <1>1, <1>4
    <3>2. StreamOk(stream[j]) /\ (j \in over <=> Kept(stream[j]))
      BY <3>1 DEF Core
    <3>3. QED BY <3>1, <3>2, <1>2
  <2>3. over' \subseteq Created
    BY <1>1 DEF Core, Typed
  <2>4. clients' \in Seq(WrapperRec)
    BY DEF Core, Typed
  <2>5. QED BY <1>2, <1>3, <1>4, <2>1, <2>2, <2>3, <2>4 DEF Evolves, Remains
<1>6. InList \ Range(list') \subseteq over'
  BY <1>3 DEF Remains
<1>7. \A c \in calls' : c.id \notin over
  BY DEF Core
<1>8. QED BY <1>5, <1>6, <1>7, EvolvesKeeps DEF EndsTold

(* createStream, perhaps after an older stream of the same sender is gone.  *)
LEMMA CreatesKeep ==
  ASSUME Core, NEW q, NEW gone \in SUBSET InList, Remains(q, gone),
         NEW s \in StreamRec, StreamOk(s), ~Kept(s),
         NEW id \in IdentRec, IdentFits(s, id), FollowsNames(id),
         NEW client \in Client \union {NoClient},
         CreateStream(q, s, id, client),
         NamesFollowed => \A i \in Range(q) :
                             /\ ~Kept(stream[i])
                             /\ ident[i].type = id.type /\ id.type # "StreamFastPacket"
                             /\ ident[i].saName = id.saName /\ ident[i].daName = id.daName
                             => FALSE,
         UNCHANGED <<scenario, stale, clients, address>>,
         over' = over \union gone,
         \A c \in calls' : c.id = Len(stream) + 1
  PROVE  Core' /\ EndsTold
<1> DEFINE new == Len(stream) + 1
<1>1. /\ stream \in Seq(StreamRec) /\ ident \in Seq(IdentRec) /\ holder \in Seq(Client \union {NoClient})
      /\ Len(ident) = Len(stream) /\ Len(holder) = Len(stream) /\ Created = 1..Len(stream)
      /\ Len(stream) \in Nat /\ list \in Seq(Created) /\ InList \subseteq Created /\ over \subseteq Created
  BY DEF Core, Typed, InList, Range, Created
<1>2. /\ stream' \in Seq(StreamRec) /\ Len(stream') = new
      /\ stream'[new] = s /\ \A i \in Created : stream'[i] = stream[i]
  BY <1>1 DEF CreateStream
<1>3. /\ ident' \in Seq(IdentRec) /\ Len(ident') = new
      /\ ident'[new] = id /\ \A i \in Created : ident'[i] = ident[i]
  BY <1>1 DEF CreateStream
<1>4. holder' \in Seq(Client \union {NoClient}) /\ Len(holder') = new
  BY <1>1 DEF CreateStream
<1>5. Created' = Created \union {new} /\ new \notin Created
  BY <1>1, <1>2 DEF Created
<1>6. /\ q \in Seq(Created) /\ IsInjective(q) /\ Range(q) = InList \ gone
      /\ list' = Append(q, new)
  BY DEF Remains, CreateStream
<1> HIDE DEF new
<1>7. list' \in Seq(Created') /\ IsInjective(list') /\ Range(list') = Range(q) \union {new}
  <2>1. /\ DOMAIN list' = 1..(Len(q) + 1) /\ DOMAIN q = 1..Len(q) /\ Len(q) \in Nat
        /\ list'[Len(q) + 1] = new /\ \A k \in 1..Len(q) : list'[k] = q[k] /\ q[k] \in Created
    BY <1>6
  <2>2. 1..(Len(q) + 1) = (1..Len(q)) \union {Len(q) + 1}
    BY <2>1
  <2>3. IsInjective(list')
    <3>1. \A k \in 1..Len(q) : list'[k] # new
      BY <2>1, <1>5
    <3>2. \A k, l \in 1..Len(q) : q[k] = q[l] => k = l
      BY <1>6, <2>1 DEF IsInjective
    <3>3. QED BY <2>1, <2>2, <3>1, <3>2 DEF IsInjective
  <2>4. Range(list') = Range(q) \union {new}
    BY <2>1, <2>2 DEF Range
  <2>5. list' \in Seq(Created')
    <3>1. q \in Seq(Created') /\ new \in Created'
      BY <1>5, <1>6
    <3>2. QED BY <1>6, <3>1
  <2>6. QED BY <2>3, <2>4, <2>5
<1>8. InList' = (InList \ gone) \union {new}
  BY <1>6, <1>7 DEF InList
<1>9. \A i \in InList \ gone : i \in Created /\ i # new
  BY <1>1, <1>5
<1>10. Typed'
  <2>1. Len(stream') <= scenario'.streams
    <3>1. Len(stream) < scenario.streams /\ scenario.streams \in Nat
      <4>1. scenario \in Scenario
        BY DEF Core, Typed
      <4>2. scenario.streams \in 0..MaxStreams /\ MaxStreams \in Nat
        BY <4>1, MultiReceiveAssumption DEF IsScenario
      <4>3. QED BY <4>2 DEF CreateStream
    <3>2. QED BY <1>1, <1>2, <3>1 DEF new
  <2>2. over' \subseteq Created'
    BY <1>1, <1>5
  <2>3. QED BY <1>2, <1>3, <1>4, <1>7, <2>1, <2>2 DEF Core, Typed
<1>11. AddressesDistinct'
  BY DEF Core, AddressesDistinct
<1>12. \A i \in Created' : IdentFits(stream'[i], ident'[i])
  BY <1>2, <1>3, <1>5 DEF Core
<1>13. ASSUME NamesFollowed, NEW i \in InList' PROVE FollowsNames(ident[i])'
  <2>1. FollowsNames(ident'[i])
    BY <1>3, <1>8, <1>9, <1>13 DEF NamesFollowed
  <2>2. QED BY <2>1 DEF FollowsNames
<1>14. \A i \in InList' : StreamOk(stream'[i])
  BY <1>2, <1>8, <1>9 DEF Core
<1>15. \A i \in InList' : i \in over' <=> Kept(stream'[i])
  <2>1. new \notin over'
    BY <1>1, <1>5
  <2>2. \A i \in InList \ gone : i \in over' <=> Kept(stream'[i])
    BY <1>2, <1>9 DEF Core
  <2>3. QED BY <1>2, <1>8, <2>1, <2>2
<1>16. ASSUME NamesFollowed PROVE OneStreamPerNames'
  <2> SUFFICES ASSUME NEW i \in InList', NEW j \in InList',
                      ~Kept(stream'[i]), ~Kept(stream'[j]),
                      ident'[i].type = ident'[j].type, ident'[i].type # "StreamFastPacket",
                      ident'[i].saName = ident'[j].saName, ident'[i].daName = ident'[j].daName
               PROVE  i = j
    BY DEF OneStreamPerNames
  <2>1. ASSUME NEW k \in InList \ gone, ~Kept(stream'[k]),
               ident'[k].type = id.type, id.type # "StreamFastPacket",
               ident'[k].saName = id.saName, ident'[k].daName = id.daName
        PROVE  FALSE
    BY <2>1, <1>2, <1>3, <1>6, <1>9, <1>16
  <2>2. CASE i = new /\ j # new
    BY <2>1, <2>2, <1>3, <1>8
  <2>3. CASE j = new /\ i # new
    BY <2>1, <2>3, <1>3, <1>8
  <2>4. CASE i # new /\ j # new
    BY <2>4, <1>2, <1>3, <1>8, <1>9, <1>16 DEF NamesFollowed, OneStreamPerNames
  <2>5. QED BY <2>2, <2>3, <2>4
<1>17. Core'
  <2>1. stale \/ NamesFollowed
    BY DEF Core
  <2>2. NamesFollowed => NamesFollowed'
    BY <1>13, <1>16 DEF NamesFollowed
  <2>3. QED BY <1>10, <1>11, <1>12, <1>14, <1>15, <2>1, <2>2 DEF Core
<1>18. EndsTold
  <2>1. InList \ Range(list') \subseteq over'
    BY <1>6, <1>7
  <2>2. \A c \in calls' : c.id \notin over
    BY <1>1, <1>5 DEF new
  <2>3. QED BY <2>1, <2>2 DEF EndsTold
<1>19. QED BY <1>17, <1>18

(* Nothing happens to the streams.                                          *)
LEMMA IgnoredKeeps ==
  ASSUME Core, UNCHANGED <<scenario, stale, clients, address, streamVars, over>>, calls' = {}
  PROVE  Core' /\ EndsTold
<1>1. /\ scenario' = scenario /\ stale' = stale /\ address' = address /\ stream' = stream /\ ident' = ident
      /\ holder' = holder /\ clients' = clients /\ list' = list /\ over' = over \union {}
  BY DEF streamVars
<1>2. clients' \in Seq(WrapperRec)
  BY <1>1 DEF Core, Typed
<1> DEFINE none == {}
<1>3. /\ Remains(list', none) /\ over' = over \union none
      /\ none \subseteq InList /\ none \subseteq none /\ none \subseteq over \union none
  BY <1>1, SelectedRemains
<1>4. UNCHANGED <<scenario, stale, address, stream, ident, holder>>
  BY <1>1
<1>5. \A c \in calls' : c.id \notin over
  OBVIOUS
<1> HIDE DEF none
<1>6. QED BY <1>2, <1>3, <1>4, <1>5, RemovesKeep

(* tellClientRemoveStream of a stream in work, which no client was told of. *)
LEMMA TellClientRemoveStreamKeeps ==
  ASSUME Core, NEW i \in InList, ~Kept(stream[i]), TellClientRemoveStream(i),
         UNCHANGED <<scenario, stale, clients, address>>
  PROVE  Core' /\ EndsTold
<1>1. Remains(list', {i})
  BY SelectedRemains DEF TellClientRemoveStream, Removed
<1>2. /\ stream' = stream /\ ident' = ident /\ holder' = holder /\ over' = over \union {i}
      /\ clients' \in Seq(WrapperRec)
  BY DEF TellClientRemoveStream, Core, Typed
<1>3. i \notin over
  BY DEF Core
<1>4. \A c \in calls' : c.id \notin over
  BY <1>3 DEF TellClientRemoveStream, AbortCall, Call
<1>5. QED BY <1>1, <1>2, <1>4, RemovesKeep

-----------------------------------------------------------------------------
(* Messages.                                                               *)

(* A data packet finds at most one stream: the one with the names whose     *)
(* addresses it carries.                                                    *)
LEMMA OneFound ==
  ASSUME Core, NamesFollowed,
         NEW i \in InList, NEW j \in InList, ~Kept(stream[i]), ~Kept(stream[j]),
         ident[i].type = ident[j].type, ident[i].type # "StreamFastPacket",
         ident[i].sa = ident[j].sa, ident[i].sa # Lost,
         ident[i].da = ident[j].da, ident[i].da # Lost
  PROVE  i = j
<1>1. InList \subseteq 1..Len(ident) /\ ident \in Seq(IdentRec)
  BY DEF Core, Typed, InList, Range, Created
<1>2. ident[i] \in IdentRec /\ ident[j] \in IdentRec
  BY <1>1
<1>3. /\ ident[i].saName \in Name /\ ident[j].saName \in Name
      /\ ident[i].daName \in Name \union {Global} /\ ident[j].daName \in Name \union {Global}
  BY <1>2 DEF IdentRec
<1>4. FollowsNames(ident[i]) /\ FollowsNames(ident[j]) /\ OneStreamPerNames
  BY DEF NamesFollowed
<1>5. IdentFits(stream[i], ident[i]) /\ IdentFits(stream[j], ident[j])
  BY <1>1 DEF Core, Typed, Created
<1>6. AddressesDistinct
  BY DEF Core
<1>7. ident[i].saName = ident[j].saName
  BY <1>3, <1>4, <1>6 DEF FollowsNames, AddressesDistinct
<1>8. ident[i].daName = ident[j].daName
  <2>1. CASE ident[i].da = Global
    BY <2>1, <1>5 DEF IdentFits
  <2>2. CASE ident[i].da # Global
    <3>1. ident[i].daName \in Name /\ ident[j].daName \in Name
      BY <2>2, <1>3, <1>5 DEF IdentFits
    <3>2. Global \notin Name
      BY MultiReceiveAssumption
    <3>3. QED BY <3>1, <3>2, <1>4, <1>6 DEF FollowsNames, AddressesDistinct
  <2>3. QED BY <2>1, <2>2
<1>9. QED BY <1>4, <1>7, <1>8 DEF OneStreamPerNames

\* Found answers a listed stream with the identifier, or none.
LEMMA FoundIs ==
  ASSUME Core, NEW type, NEW pgns, NEW sa, NEW da
  PROVE  /\ Found(type, pgns, sa, da) \in SUBSET InList
         /\ \A i \in Found(type, pgns, sa, da) :
              /\ ~Kept(stream[i]) /\ ident[i].type = type
              /\ ident[i].sa = sa /\ ident[i].da = da
         /\ Found(type, pgns, sa, da) # {} =>
              FirstOf(Found(type, pgns, sa, da)) \in Found(type, pgns, sa, da)
<1>1. Found(type, pgns, sa, da) \in SUBSET InList
  BY DEF Found
<1>2. list \in Seq(Created)
  BY DEF Core, Typed
<1>3. QED BY <1>1, <1>2, FirstFound DEF Found

\* The first stream found is a listed one.
LEMMA FirstFoundIs ==
  ASSUME Core, NEW type, NEW pgns, NEW sa, NEW da, Found(type, pgns, sa, da) # {}
  PROVE  LET i == FirstOf(Found(type, pgns, sa, da)) IN i \in InList /\ ~Kept(stream[i])
BY FoundIs

(* The look-up before a stream is created finds every stream in work with   *)
(* the names of the new one.                                                *)
LEMMA OthersFound ==
  ASSUME Core, NEW type, NEW sa \in Held, NEW da \in Held \union {Global},
         NamesFollowed, NEW i \in InList, ~Kept(stream[i]), ident[i].type = type,
         ident[i].saName = NameAt(sa), ident[i].daName = NameAt(da)
  PROVE  i \in Found(type, Pgn, sa, da)
<1>1. InList \subseteq 1..Len(ident) /\ ident \in Seq(IdentRec)
  BY DEF Core, Typed, InList, Range, Created
<1>2. ident[i].pgn \in Pgn
  <2>1. ident[i] \in IdentRec
    BY <1>1
  <2>2. QED BY <2>1 DEF IdentRec
<1>3. FollowsNames(ident[i])
  BY DEF NamesFollowed
<1>4. ident[i].sa = sa /\ ident[i].da = da
  BY <1>3, NameOfAddress DEF FollowsNames
<1>5. QED BY <1>2, <1>4 DEF Found

\* An identifier made of addresses in use has the names behind them.
LEMMA IdentOfIs ==
  ASSUME Core, NEW type \in StreamType, NEW pgn \in Pgn,
         NEW sa \in Held, NEW da \in Held \union {Global}
  PROVE  LET id == IdentOf(type, pgn, sa, da)
         IN  /\ id \in IdentRec /\ FollowsNames(id)
             /\ id.type = type /\ id.saName = NameAt(sa) /\ id.daName = NameAt(da)
             /\ \A s : s.type = type /\ (s.broadcast <=> da = Global) => IdentFits(s, id)
<1> DEFINE id == IdentOf(type, pgn, sa, da)
<1>1. /\ sa \in Address /\ NameAt(sa) \in Name /\ address[NameAt(sa)] = sa
      /\ da \in Address \union {Global} /\ NameAt(da) \in Name \union {Global}
      /\ NameAt(da) = Global <=> da = Global
      /\ da # Global => address[NameAt(da)] = da
  BY NameOfAddress
<1>2. id \in IdentRec
  BY <1>1 DEF IdentOf, IdentRec
<1>3. /\ id.type = type /\ id.sa = sa /\ id.da = da
      /\ id.saName = NameAt(sa) /\ id.daName = NameAt(da)
  BY DEF IdentOf
<1> HIDE DEF id
<1>4. FollowsNames(id)
  BY <1>1, <1>3 DEF FollowsNames
<1>5. \A s : s.type = type /\ (s.broadcast <=> da = Global) => IdentFits(s, id)
  BY <1>1, <1>3 DEF IdentFits
<1>6. QED BY <1>2, <1>3, <1>4, <1>5 DEF id

\* The client that serves an identifier, when there is one.
LEMMA ClientOfIs ==
  ASSUME Core, NEW id
  PROVE  ClientOf(clients, id) \in Client \union {NoClient}
<1> DEFINE S == Accepting(clients, id)
<1>1. S \subseteq Int /\ \A x \in S : x >= 1 /\ x \in 1..Len(clients)
  BY DEF Accepting
<1>2. ASSUME S # {} PROVE Smallest(S) \in 1..Len(clients)
  <2> HIDE DEF S
  <2>1. 1 \in Int
    OBVIOUS
  <2>2. QED BY <1>1, <1>2, <2>1, SmallestIs
<1>3. \A k \in 1..Len(clients) : clients[k] \in WrapperRec
  BY DEF Core, Typed
<1>4. \A k \in 1..Len(clients) : clients[k].client \in Client
  BY <1>3 DEF WrapperRec
<1>5. QED BY <1>2, <1>4 DEF ClientOf

\* What the start messages of a scenario hold.
LEMMA StartIs ==
  ASSUME Core, NEW t \in scenario.starts
  PROVE  /\ t.type \in StreamType /\ t.pgn \in Pgn /\ t.maxBurst \in 0..255
         /\ t.total \in Nat /\ t.total >= 2
         /\ t.type # "StreamETP" => t.total <= 255
<1>1. IsScenario(scenario)
  BY MultiReceiveAssumption DEF Core, Typed
<1>2. t \in Announcement
  BY <1>1 DEF IsScenario
<1>3. t.total \in 2..(IF t.type = "StreamETP" THEN 16777215 ELSE 255)
  BY <1>1 DEF IsScenario
<1>4. t.type \in StreamType /\ t.pgn \in Pgn /\ t.maxBurst \in 0..255 /\ t.total \in Nat
  BY <1>2 DEF Announcement
<1>5. QED BY <1>3, <1>4

\* A request to send keeps the core: an open stream of the pair is ended first.
LEMMA ReceiveRtsKeeps ==
  ASSUME Core, UNCHANGED <<scenario, stale>>,
         NEW t \in scenario.starts, NEW sa \in Held, NEW da \in Held,
         NEW wellFormed, NEW accept, ReceiveRts(t, sa, da, wellFormed, accept)
  PROVE  Core' /\ EndsTold
<1> DEFINE running == Found(t.type, Pgn, sa, da)
           id == IdentOf(t.type, t.pgn, sa, da)
           client == ClientOf(clients, id)
           maxBurst == IF t.type = "StreamETP" THEN 255 ELSE t.maxBurst
           wish == AllowedPackets(StreamCount(list) + 1)
           first == ExpectBurst(NewRecvStream(t.type, FALSE, t.total, maxBurst), wish)
<1>1. t.type # "StreamFastPacket" /\ da # Global /\ UNCHANGED <<scenario, stale, clients, address>>
  BY DEF ReceiveRts, Hears
<1>2. CASE running # {}
  <2>1. TellClientRemoveStream(FirstOf(running))
    BY <1>2 DEF ReceiveRts
  <2>2. FirstOf(running) \in InList /\ ~Kept(stream[FirstOf(running)])
    BY <1>2, FoundIs
  <2> HIDE DEF running
  <2>3. QED BY <1>1, <2>1, <2>2, TellClientRemoveStreamKeeps
<1>3. CASE running = {} /\ (~wellFormed \/ t.maxBurst = 0 \/ client = NoClient \/ ~accept)
  <2>1. Ignored
    BY <1>3 DEF ReceiveRts
  <2>2. QED BY <1>1, <2>1, IgnoredKeeps DEF Ignored
<1>4. CASE running = {} /\ ~(~wellFormed \/ t.maxBurst = 0 \/ client = NoClient \/ ~accept)
  <2>1. /\ CreateStream(list, first, id, client)
        /\ calls' = {Call(client, Len(stream) + 1, "start")}
        /\ over' = over
    BY <1>4 DEF ReceiveRts
  <2>2. /\ t.type \in {"StreamTP", "StreamETP"} /\ t.type \in StreamType /\ t.pgn \in Pgn
        /\ t.maxBurst \in 1..255 /\ t.total \in Nat /\ t.total >= 2
        /\ t.type # "StreamETP" => t.total <= 255
    BY <1>1, <1>4, StartIs DEF StreamType
  <2>3. wish \in 1..255
    BY CountIsNatural, ShareIsByte
  <2>4. maxBurst \in 1..255
    BY <2>2
  <2> HIDE DEF wish, maxBurst
  <2>5. IsNew(first, t.type, FALSE)
    BY <2>2, <2>3, <2>4, NewDirectedOk
  <2> HIDE DEF first
  <2>6. /\ id \in IdentRec /\ FollowsNames(id)
        /\ id.type = t.type /\ id.saName = NameAt(sa) /\ id.daName = NameAt(da)
        /\ IdentFits(first, id)
    BY <2>2, <2>5, <1>1, IdentOfIs DEF IsNew
  <2>7. client \in Client \union {NoClient}
    BY ClientOfIs
  <2>8. Remains(list, {}) /\ {} \in SUBSET InList
    BY SelectedRemains
  <2>9. ASSUME NamesFollowed,
               NEW i \in Range(list), ~Kept(stream[i]), ident[i].type = id.type,
               ident[i].saName = id.saName, ident[i].daName = id.daName
        PROVE  FALSE
    <3>1. i \in Found(t.type, Pgn, sa, da)
      BY <2>6, <2>9, OthersFound DEF InList
    <3>2. QED BY <3>1, <1>4
  <2>10. over' = over \union {} /\ \A c \in calls' : c.id = Len(stream) + 1
    BY <2>1 DEF Call
  <2> HIDE DEF id, client, running
  <2>11. QED BY <1>1, <2>1, <2>5, <2>6, <2>7, <2>8, <2>9, <2>10, CreatesKeep DEF IsNew
<1>5. QED BY <1>2, <1>3, <1>4

\* A BAM keeps the core: an open stream of the sender is ended first.
LEMMA ReceiveBamKeeps ==
  ASSUME Core, UNCHANGED <<scenario, stale>>,
         NEW t \in scenario.starts, NEW sa \in Held, NEW wellFormed, ReceiveBam(t, sa, wellFormed)
  PROVE  Core' /\ EndsTold
<1> DEFINE running == Found("StreamTP", Pgn, sa, Global)
           gone == IF running = {} THEN {} ELSE {FirstOf(running)}
           rest == IF running = {} THEN list ELSE Removed(FirstOf(running))
           id == IdentOf("StreamTP", t.pgn, sa, Global)
           s == NewRecvStream("StreamTP", TRUE, t.total, 255)
<1>1. /\ t.type = "StreamTP" /\ UNCHANGED <<scenario, stale, clients, address>> /\ calls' = {}
      /\ over' = over \union gone
  BY DEF ReceiveBam, Hears
<1>2. IF wellFormed THEN CreateStream(rest, s, id, NoClient)
      ELSE list' = rest /\ UNCHANGED <<stream, ident, holder>>
  BY DEF ReceiveBam
<1>3. /\ running \in SUBSET InList
      /\ \A i \in running : ~Kept(stream[i]) /\ ident[i].type = "StreamTP"
                            /\ ident[i].sa = sa /\ ident[i].da = Global
      /\ running # {} => FirstOf(running) \in running
  BY FoundIs
<1>4. gone \in SUBSET InList /\ Remains(rest, gone)
  BY <1>3, SelectedRemains DEF Removed
<1>5. ASSUME NamesFollowed, NEW i \in running PROVE i \in gone
  <2>1. FirstOf(running) \in running
    BY <1>3
  <2>2. sa # Lost /\ Global # Lost
    BY NameOfAddress, MultiReceiveAssumption
  <2>3. i = FirstOf(running)
    BY <1>3, <1>5, <2>1, <2>2, OneFound
  <2>4. QED BY <2>3
<1> HIDE DEF gone, rest
<1>6. CASE ~wellFormed
  <2>1. clients' \in Seq(WrapperRec)
    BY <1>1 DEF Core, Typed
  <2>2. QED BY <1>1, <1>2, <1>4, <1>6, <2>1, RemovesKeep
<1>7. CASE wellFormed
  <2>1. CreateStream(rest, s, id, NoClient)
    BY <1>2, <1>7
  <2>2. t.pgn \in Pgn /\ t.total \in 2..255 /\ "StreamTP" \in StreamType
    BY <1>1, StartIs DEF StreamType
  <2>3. IsNew(s, "StreamTP", TRUE)
    BY <2>2, NewBroadcastOk
  <2> HIDE DEF s
  <2>4. /\ id \in IdentRec /\ FollowsNames(id)
        /\ id.type = "StreamTP" /\ id.saName = NameAt(sa) /\ id.daName = NameAt(Global)
        /\ IdentFits(s, id)
    BY <2>2, <2>3, IdentOfIs DEF IsNew
  <2>5. ASSUME NamesFollowed,
               NEW i \in Range(rest), ~Kept(stream[i]), ident[i].type = id.type,
               ident[i].saName = id.saName, ident[i].daName = id.daName
        PROVE  FALSE
    <3>1. i \in InList /\ i \notin gone
      BY <1>4 DEF Remains
    <3>2. i \in running
      BY <3>1, <2>4, <2>5, OthersFound
    <3>3. QED BY <2>5, <3>1, <3>2, <1>5
  <2> HIDE DEF id, running
  <2>6. \A c \in calls' : c.id = Len(stream) + 1
    BY <1>1
  <2>7. QED BY <1>1, <1>4, <2>1, <2>3, <2>4, <2>5, <2>6, CreatesKeep DEF IsNew
<1>8. QED BY <1>6, <1>7

\* A listed stream is a created one.
LEMMA ListedIs ==
  ASSUME Core, NEW i \in InList
  PROVE  /\ i \in Created /\ stream[i] \in StreamRec /\ StreamOk(stream[i])
         /\ i \in over <=> Kept(stream[i])
<1>1. InList \subseteq 1..Len(stream) /\ stream \in Seq(StreamRec) /\ Created = 1..Len(stream)
  BY DEF Core, Typed, InList, Range, Created
<1>2. stream[i] \in StreamRec
  BY <1>1
<1>3. QED BY <1>1, <1>2 DEF Core

\* The sequence number of a packet is a byte.
LEMMA SeqIsByte ==
  ASSUME Core, NEW seq \in scenario.seqs
  PROVE  seq \in 0..255
<1>1. IsScenario(scenario)
  BY MultiReceiveAssumption DEF Core, Typed
<1>2. QED BY <1>1 DEF IsScenario

(* A fast packet stream after its constructor, and after its frame 0.       *)
LEMMA NewFastPacketIs ==
  ASSUME NEW total \in 2..255
  PROVE  LET t == NewRecvStream("StreamFastPacket", TRUE, total, 255)
         IN  t.next = 0 /\ t.remaining = total /\ t.total = total
<1> DEFINE t == NewRecvStream("StreamFastPacket", TRUE, total, 255)
           s == Constructed("StreamFastPacket", TRUE, total, 255)
           u == [[s EXCEPT !.burst = @ + 1] EXCEPT !.remaining = s.total]
<1>1. "StreamFastPacket" \in StreamType /\ FirstPacket("StreamFastPacket") = 0
  BY DEF StreamType, FirstPacket
<1>2. s \in StreamRec
  <2>1. TRUE \in BOOLEAN /\ total \in Nat /\ total >= 2 /\ total <= 255 /\ 255 \in 1..255
    OBVIOUS
  <2>2. ASSUME NEW type \in StreamType, type # "StreamETP"
        PROVE  LET c == Constructed(type, TRUE, total, 255)
               IN  c \in StreamRec /\ (type # "StreamFastPacket" => StreamOk(c))
    BY <2>1, <2>2, NewStreamIs, ZenonT(40)
  <2>3. QED BY <1>1, <2>2
<1>3. s.total = total /\ s.next = 0 /\ s.type = "StreamFastPacket"
  BY <1>1 DEF Constructed
<1>4. t = AwaitNextStep(u, "AwaitData", TFp)
  BY DEF NewRecvStream, ExpectBurst, Constructed
<1> HIDE DEF s, t
<1>5. u \in StreamRec /\ SameMessage(u, s) /\ u.next = 0 /\ u.remaining = total
  <2>1. s.total \in 0..255
    BY <1>3
  <2>2. u \in StreamRec /\ SameMessage(u, s) /\ u.next = s.next /\ u.remaining = s.total
    BY <1>2, <2>1, BurstBegun
  <2>3. QED BY <1>3, <2>2
<1> HIDE DEF u
<1>6. "AwaitData" \in NextComing /\ TFp \in Int
  BY RecvStreamAssumption DEF NextComing
<1>7. SameMessage(t, u) /\ t.next = u.next /\ t.remaining = u.remaining
  BY <1>4, <1>5, <1>6, AwaitNextStepIs
<1>8. QED BY <1>3, <1>5, <1>7 DEF SameMessage, t

\* The first frame of a fast packet leaves its stream running.
LEMMA FirstFrameRuns ==
  ASSUME NEW s \in StreamRec, s.state = "StreamRunning", s.remaining \in 2..255, NEW seq \in 0..255
  PROVE  WithData(s, seq).state = "StreamRunning"
<1> DEFINE d == Append(s.data, seq)
           next == s.next + 1
           n == (s.remaining - 1) % 256
           t == Written(s, d, next, n)
<1>1. d \in Seq(0..255) /\ next \in Nat
  BY StreamFields
<1>2. n \in 0..255 /\ n > 0
  OBVIOUS
<1>3. WithData(s, seq) = CASE t.remaining > 0 -> AwaitNextStep(t, "AwaitData", T1)
        [] t.remaining = 0 /\ (t.type = "StreamFastPacket" \/ t.next > t.total) ->
             [AwaitNextStep(t, "AwaitNothing", -1) EXCEPT !.state = "StreamFinished"]
        [] OTHER -> AwaitNextStep(t, "AwaitCtsSend", CtsDelay)
  BY DEF WithData, Written
<1> HIDE DEF d, next, n
<1>4. IsWritten(t, s, d, next, n)
  BY <1>1, <1>2, PacketWritten
<1> HIDE DEF t
<1>5. t \in StreamRec /\ t.state = "StreamRunning" /\ t.remaining = n
  BY <1>4 DEF IsWritten
<1>6. WithData(s, seq) = AwaitNextStep(t, "AwaitData", T1)
  BY <1>2, <1>3, <1>5
<1>7. "AwaitData" \in NextComing /\ T1 \in Int
  BY RecvStreamAssumption DEF NextComing
<1>8. AwaitNextStep(t, "AwaitData", T1).state = t.state
  BY <1>5, <1>7, AwaitNextStepIs
<1>9. QED BY <1>5, <1>6, <1>8

\* A data page offset keeps the core.
LEMMA ReceiveDpoKeeps ==
  ASSUME Core, UNCHANGED <<scenario, stale>>, NEW type, NEW pgn, NEW sa, NEW da, NEW n,
         NEW offset \in scenario.pages, ReceiveDpo(type, pgn, sa, da, n, offset)
  PROVE  Core' /\ EndsTold
<1> DEFINE hit == Found(type, {pgn}, sa, da)
           i == FirstOf(hit)
<1>1. UNCHANGED <<scenario, stale, clients, address>>
  BY DEF ReceiveDpo, Hears
<1>2. CASE hit = {}
  <2>1. Ignored
    BY <1>2 DEF ReceiveDpo
  <2>2. QED BY <1>1, <2>1, IgnoredKeeps DEF Ignored
<1>3. CASE hit # {}
  <2>1. i \in InList /\ ~Kept(stream[i])
    BY <1>3, FirstFoundIs
  <2>2. CASE type # "StreamETP" \/ ~AcceptsDpo(stream[i], n)
    <3>1. TellClientRemoveStream(i)
      BY <1>3, <2>2 DEF ReceiveDpo
    <3> HIDE DEF i
    <3>2. QED BY <1>1, <2>1, <3>1, TellClientRemoveStreamKeeps
  <2>3. CASE ~(type # "StreamETP" \/ ~AcceptsDpo(stream[i], n))
    <3> DEFINE s == WithDpo(stream[i], n, offset)
    <3>1. /\ stream' = [stream EXCEPT ![i] = s] /\ calls' = {}
          /\ UNCHANGED <<list, ident, holder, over>>
      BY <1>3, <2>3 DEF ReceiveDpo
    <3> HIDE DEF i
    <3>2. stream[i] \in StreamRec /\ StreamOk(stream[i])
      BY <2>1, ListedIs
    <3>3. offset \in Nat
      <4>1. IsScenario(scenario)
        BY MultiReceiveAssumption DEF Core, Typed
      <4>2. QED BY <4>1 DEF IsScenario
    <3>4. AcceptsDpo(stream[i], n)
      BY <2>3
    <3>5. s \in StreamRec /\ StreamOk(s) /\ ~Kept(s) /\ SameMessage(s, stream[i])
      BY <3>2, <3>3, <3>4, WithDpoOk
    <3> HIDE DEF s
    <3>6. over' = over \union {j \in {i} : Kept(s)}
      BY <3>1, <3>5
    <3>7. QED BY <1>1, <2>1, <3>1, <3>5, <3>6, UpdateKeeps
  <2>4. QED BY <2>2, <2>3
<1>4. QED BY <1>2, <1>3

\* An abort keeps the core: the stream leaves the list and its client is told.
LEMMA ReceiveConnAbortKeeps ==
  ASSUME Core, UNCHANGED <<scenario, stale>>, NEW type, NEW pgn, NEW sa, NEW da,
         ReceiveConnAbort(type, pgn, sa, da)
  PROVE  Core' /\ EndsTold
<1> DEFINE hit == Found(type, {pgn}, sa, da)
           i == FirstOf(hit)
<1>1. UNCHANGED <<scenario, stale, clients, address>>
  BY DEF ReceiveConnAbort, Hears
<1>2. CASE hit = {}
  <2>1. Ignored
    BY <1>2 DEF ReceiveConnAbort
  <2>2. QED BY <1>1, <2>1, IgnoredKeeps DEF Ignored
<1>3. CASE hit # {}
  <2>1. i \in InList /\ ~Kept(stream[i])
    BY <1>3, FirstFoundIs
  <2>2. TellClientRemoveStream(i)
    BY <1>3 DEF ReceiveConnAbort
  <2> HIDE DEF i
  <2>3. QED BY <1>1, <2>1, <2>2, TellClientRemoveStreamKeeps
<1>4. QED BY <1>2, <1>3

(* A data packet for a stream in work.                                      *)
LEMMA DataKeeps ==
  ASSUME Core, UNCHANGED <<scenario, stale, clients, address>>,
         NEW i \in InList, ~Kept(stream[i]), NEW seq \in 0..255, NEW keep, Data(i, seq, keep)
  PROVE  Core' /\ EndsTold
<1> DEFINE s == WithData(stream[i], seq)
<1>1. CASE ~AcceptsData(stream[i], seq)
  <2>1. TellClientRemoveStream(i)
    BY <1>1 DEF Data
  <2>2. QED BY <2>1, TellClientRemoveStreamKeeps
<1>2. CASE AcceptsData(stream[i], seq)
  <2>1. stream[i] \in StreamRec /\ StreamOk(stream[i])
    BY ListedIs
  <2>2. stream[i].await = "AwaitData"
    BY <1>2 DEF AcceptsData
  <2>3. /\ s \in StreamRec /\ SameMessage(s, stream[i])
        /\ s.state # "StreamFinished" => StreamOk(s) /\ ~Kept(s)
        /\ s.state = "StreamFinished" =>
             /\ JustKept(s) \in StreamRec /\ StreamOk(JustKept(s)) /\ Kept(JustKept(s))
             /\ SameMessage(JustKept(s), stream[i])
    BY <2>1, <2>2, WithDataOk
  <2>4. CASE s.state # "StreamFinished"
    <3>1. /\ stream' = [stream EXCEPT ![i] = s] /\ calls' = {}
          /\ UNCHANGED <<list, ident, holder, over>>
      BY <1>2, <2>4 DEF Data
    <3> HIDE DEF s
    <3>2. over' = over \union {j \in {i} : Kept(s)}
      BY <3>1, <2>3, <2>4
    <3>3. QED BY <2>3, <2>4, <3>1, <3>2, UpdateKeeps
  <2>5. CASE s.state = "StreamFinished"
    <3> DEFINE keeps == keep /\ ident[i].da # Global
    <3>1. FinishStream(i, s, keep)
      BY <1>2, <2>5 DEF Data
    <3> HIDE DEF s
    <3>2. /\ stream' = [stream EXCEPT ![i] = IF keeps THEN JustKept(s) ELSE s]
          /\ list' = IF keeps THEN list ELSE Removed(i)
          /\ over' = over \union {i} /\ UNCHANGED <<ident, holder>>
      BY <3>1 DEF FinishStream
    <3>3. \A c \in calls' : c.id = i
      BY <3>1 DEF FinishStream, Call
    <3>4. CASE keeps
      <4> DEFINE k == JustKept(s)
      <4>1. stream' = [stream EXCEPT ![i] = k] /\ list' = list
        BY <3>2, <3>4
      <4>2. k \in StreamRec /\ StreamOk(k) /\ Kept(k) /\ SameMessage(k, stream[i])
        BY <2>3, <2>5
      <4> HIDE DEF k, keeps
      <4>3. over' = over \union {j \in {i} : Kept(k)}
        BY <3>2, <4>2
      <4>4. QED BY <3>2, <3>3, <4>1, <4>2, <4>3, UpdateKeeps
    <3>5. CASE ~keeps
      <4>1. stream' = [stream EXCEPT ![i] = s] /\ list' = Removed(i)
        BY <3>2, <3>5
      <4> HIDE DEF keeps
      <4>2. QED BY <2>3, <3>2, <3>3, <4>1, FinishKeeps
    <3>6. QED BY <3>4, <3>5
  <2>6. QED BY <2>4, <2>5
<1>3. QED BY <1>1, <1>2

\* A data packet keeps the core.
LEMMA ReceiveDataKeeps ==
  ASSUME Core, UNCHANGED <<scenario, stale>>, NEW type, NEW sa, NEW da, NEW seq \in scenario.seqs,
         NEW keep, ReceiveData(type, sa, da, seq, keep)
  PROVE  Core' /\ EndsTold
<1> DEFINE hit == Found(type, Pgn, sa, da)
           i == FirstOf(hit)
<1>1. UNCHANGED <<scenario, stale, clients, address>>
  BY DEF ReceiveData, Hears
<1>2. CASE hit = {}
  <2>1. Ignored
    BY <1>2 DEF ReceiveData
  <2>2. QED BY <1>1, <2>1, IgnoredKeeps DEF Ignored
<1>3. CASE hit # {}
  <2>1. i \in InList /\ ~Kept(stream[i])
    BY <1>3, FirstFoundIs
  <2>2. Data(i, seq, keep)
    BY <1>3 DEF ReceiveData
  <2>3. seq \in 0..255
    BY SeqIsByte
  <2> HIDE DEF i
  <2>4. QED BY <1>1, <2>1, <2>2, <2>3, DataKeeps
<1>4. QED BY <1>2, <1>3

\* A frame of a fast packet keeps the core.
LEMMA ReceiveFrameKeeps ==
  ASSUME Core, UNCHANGED <<scenario, stale>>, NEW t \in scenario.starts, NEW sa \in Held,
         NEW frame \in scenario.seqs, NEW keep, ReceiveFrame(t, sa, frame, keep)
  PROVE  Core' /\ EndsTold
<1> DEFINE hit == Found("StreamFastPacket", {t.pgn}, sa, Global)
           i == FirstOf(hit)
           wanted == \E k \in 1..Len(clients) : clients[k].fastPacket /\ t.pgn \in clients[k].pgns
           new == NewRecvStream("StreamFastPacket", TRUE, t.total, 255)
           s == WithData(new, frame)
           id == IdentOf("StreamFastPacket", t.pgn, sa, Global)
<1>1. UNCHANGED <<scenario, stale, clients, address>> /\ t.type = "StreamFastPacket"
  BY DEF ReceiveFrame, Hears
<1>2. frame \in 0..255
  BY SeqIsByte
<1>3. CASE hit # {}
  <2>1. i \in InList /\ ~Kept(stream[i])
    BY <1>3, FirstFoundIs
  <2>2. Data(i, frame, keep)
    BY <1>3 DEF ReceiveFrame
  <2> HIDE DEF i
  <2>3. QED BY <1>1, <1>2, <2>1, <2>2, DataKeeps
<1>4. CASE hit = {} /\ (frame # 0 \/ ~wanted)
  <2>1. Ignored
    BY <1>4 DEF ReceiveFrame
  <2>2. QED BY <1>1, <2>1, IgnoredKeeps DEF Ignored
<1>5. CASE hit = {} /\ ~(frame # 0 \/ ~wanted)
  <2>1. CreateStream(list, s, id, NoClient) /\ calls' = {} /\ over' = over
    BY <1>5 DEF ReceiveFrame
  <2>2. /\ t.pgn \in Pgn /\ t.total \in 2..255
        /\ "StreamFastPacket" \in StreamType
    BY <1>1, StartIs DEF StreamType
  <2>3. IsNew(new, "StreamFastPacket", TRUE) /\ new.await = "AwaitData"
    BY <2>2, NewBroadcastOk
  <2>4. new.next = 0 /\ new.remaining = t.total /\ new.total = t.total
    BY <2>2, NewFastPacketIs, ZenonT(40)
  <2> HIDE DEF new
  <2>5. s.state # "StreamFinished"
    <3>1. new.state = "StreamRunning"
      BY <2>3, StreamFields DEF IsNew, StreamOk, Kept, StreamingState
    <3>2. s.state = "StreamRunning"
      BY <1>2, <2>2, <2>3, <2>4, <3>1, FirstFrameRuns DEF IsNew
    <3>3. QED BY <3>2
  <2>6. /\ s \in StreamRec /\ SameMessage(s, new) /\ StreamOk(s) /\ ~Kept(s)
    BY <1>2, <2>3, <2>5, WithDataOk DEF IsNew
  <2>7. s.type = "StreamFastPacket" /\ s.broadcast = TRUE
    BY <2>3, <2>6 DEF IsNew, SameMessage
  <2> HIDE DEF s
  <2>8. /\ id \in IdentRec /\ FollowsNames(id) /\ id.type = "StreamFastPacket"
        /\ IdentFits(s, id)
    BY <2>2, <2>7, IdentOfIs
  <2>9. Remains(list, {}) /\ {} \in SUBSET InList
    BY SelectedRemains
  <2>10. over' = over \union {} /\ \A c \in calls' : c.id = Len(stream) + 1
    BY <2>1
  <2> HIDE DEF id
  <2>11. QED BY <1>1, <2>1, <2>6, <2>8, <2>9, <2>10, CreatesKeep
<1>6. QED BY <1>3, <1>4, <1>5

-----------------------------------------------------------------------------
(* The task and the clock.                                                 *)

\* Asking for the next burst keeps the core.
LEMMA SendNextCtsKeeps ==
  ASSUME Core, UNCHANGED <<scenario, stale>>, SendNextCts
  PROVE  Core' /\ EndsTold
<1> DEFINE wish == AllowedPackets(StreamCount(list))
<1>1. PICK i \in InList :
        /\ ~Kept(stream[i]) /\ ReadyToSendCts(stream[i])
        /\ calls' = {Call(ClientOf(clients, ident[i]), i, "chunk")}
        /\ stream' = [stream EXCEPT ![i] = ExpectBurst(@, wish)]
  BY DEF SendNextCts
<1>2. UNCHANGED <<scenario, stale, clients, list, address, ident, holder>> /\ over' = over
  BY DEF SendNextCts
<1>3. wish \in 1..255
  BY CountIsNatural, ShareIsByte
<1> HIDE DEF wish
<1> DEFINE s == ExpectBurst(stream[i], wish)
<1>4. stream' = [stream EXCEPT ![i] = s]
  BY <1>1
<1>5. stream[i] \in StreamRec /\ StreamOk(stream[i]) /\ stream[i].await = "AwaitCtsSend"
  BY <1>1, ListedIs DEF ReadyToSendCts
<1>6. s \in StreamRec /\ StreamOk(s) /\ ~Kept(s) /\ SameMessage(s, stream[i])
  BY <1>3, <1>5, ExpectBurstOk
<1> HIDE DEF s
<1>7. over' = over \union {j \in {i} : Kept(s)}
  BY <1>2, <1>6
<1>8. \A c \in calls' : c.id = i
  BY <1>1 DEF Call
<1>9. QED BY <1>1, <1>2, <1>4, <1>6, <1>7, <1>8, UpdateKeeps

\* Removing the streams that timed out keeps the core.
LEMMA RemoveTimedOutKeeps ==
  ASSUME Core, UNCHANGED <<scenario, stale>>, RemoveTimedOut
  PROVE  Core' /\ EndsTold
<1>1. PICK i \in InList : ~Kept(stream[i]) /\ TellClientRemoveStream(i)
  BY DEF RemoveTimedOut
<1>2. UNCHANGED <<scenario, stale, clients, address>>
  BY DEF RemoveTimedOut
<1>3. QED BY <1>1, <1>2, TellClientRemoveStreamKeeps

\* One pass of time over a stream's timer.
LEMMA TickedIs ==
  ASSUME Core, Tick
  PROVE  /\ stream' \in Seq(StreamRec) /\ Len(stream') = Len(stream)
         /\ \A i \in Created : SameMessage(stream'[i], stream[i])
         /\ \A i \in InList : /\ StreamOk(stream'[i]) /\ Kept(stream'[i]) = Kept(stream[i])
                              /\ stream'[i].wait = IF stream[i].wait >= 0 THEN stream[i].wait - 1 ELSE -1
<1>1. /\ stream \in Seq(StreamRec) /\ Created = 1..Len(stream) /\ Len(stream) \in Nat
      /\ \A i \in Created : stream[i] \in StreamRec
  BY DEF Core, Typed, Created
<1>2. stream' = [i \in Created |-> IF i \in InList THEN RecvElapse(stream[i]) ELSE stream[i]]
  BY DEF Tick
<1>3. ASSUME NEW i \in InList
      PROVE  LET t == RecvElapse(stream[i])
             IN  /\ i \in Created
                 /\ t \in StreamRec /\ StreamOk(t) /\ Kept(t) = Kept(stream[i]) /\ SameMessage(t, stream[i])
                 /\ t.wait = IF stream[i].wait >= 0 THEN stream[i].wait - 1 ELSE -1
  BY ListedIs, RecvElapseOk
<1>4. \A i \in Created : stream'[i] \in StreamRec
  BY <1>1, <1>2, <1>3
<1>5. stream' \in Seq(StreamRec) /\ Len(stream') = Len(stream)
  <2>1. DOMAIN stream' = 1..Len(stream)
    BY <1>1, <1>2
  <2>2. stream' = [i \in 1..Len(stream) |-> stream'[i]]
    BY <1>1, <1>2
  <2>3. stream' \in [1..Len(stream) -> StreamRec]
    BY <1>1, <1>4, <2>2
  <2>4. stream' \in Seq(StreamRec)
    BY <1>1, <2>3
  <2>5. QED BY <1>1, <2>1, <2>4
<1>6. \A i \in Created : SameMessage(stream'[i], stream[i])
  BY <1>2, <1>3 DEF SameMessage
<1>7. \A i \in InList : stream'[i] = RecvElapse(stream[i])
  BY <1>2, <1>3
<1>8. QED BY <1>3, <1>5, <1>6, <1>7

\* Time passing keeps the core.
LEMMA TickKeeps ==
  ASSUME Core, UNCHANGED <<scenario, stale>>, Tick
  PROVE  Core' /\ EndsTold
<1>1. /\ UNCHANGED <<scenario, stale, clients, list, address, ident, holder>>
      /\ over' = over /\ calls' = {}
  BY DEF Tick
<1>2. Range(list') = InList
  BY <1>1 DEF InList
<1>3. clients' \in Seq(WrapperRec) /\ list' \in Seq(Created) /\ IsInjective(list') /\ over' \subseteq Created
  BY <1>1 DEF Core, Typed
<1>4. \A i \in InList : i \in over' <=> Kept(stream'[i])
  BY <1>1, TickedIs, ListedIs
<1>5. \A i \in Range(list') : StreamOk(stream'[i]) /\ (Kept(stream[i]) => Kept(stream'[i]))
  BY <1>2, TickedIs
<1>6. Evolves
  BY <1>1, <1>2, <1>3, <1>4, <1>5, TickedIs DEF Evolves
<1>7. QED BY <1>1, <1>2, <1>6, EvolvesKeeps DEF EndsTold

-----------------------------------------------------------------------------
(* Clients and addresses.                                                  *)

\* A change of the list of clients keeps the core.
LEMMA ClientsChangedKeeps ==
  ASSUME Core, UNCHANGED <<scenario, stale, address, streamVars, over>>, calls' = {},
         clients' \in Seq(WrapperRec)
  PROVE  Core' /\ EndsTold
<1>1. /\ scenario' = scenario /\ stale' = stale /\ address' = address /\ stream' = stream /\ ident' = ident
      /\ holder' = holder /\ list' = list /\ over' = over \union {}
  BY DEF streamVars
<1>2. Remains(list', {})
  BY <1>1, SelectedRemains
<1>3. QED BY <1>1, <1>2, RemovesKeep

\* Registering a client keeps the core.
LEMMA RegisterClientKeeps ==
  ASSUME Core, UNCHANGED <<scenario, stale>>, NEW r \in scenario.registrations, RegisterClient(r)
  PROVE  Core' /\ EndsTold
<1>1. IsScenario(scenario)
  BY MultiReceiveAssumption DEF Core, Typed
<1>2. r \in Registration
  BY <1>1 DEF IsScenario
<1>3. address \in [Name -> Address \union {Lost}] /\ clients \in Seq(WrapperRec)
  BY DEF Core, Typed
<1>4. address[r.name] \in Address \union {Lost}
  BY <1>2, <1>3 DEF Registration
<1>5. Wrapper(r) \in WrapperRec
  BY <1>2, <1>4 DEF Wrapper, Registration, WrapperRec
<1>6. clients' \in Seq(WrapperRec)
  BY <1>3, <1>5 DEF RegisterClient
<1>7. QED BY <1>6, ClientsChangedKeeps DEF RegisterClient

\* Deregistering a client keeps the core: its streams leave the list.
LEMMA DeregisterKeeps ==
  ASSUME Core, UNCHANGED <<scenario, stale>>, NEW leaving, NEW serving, Deregister(leaving, serving)
  PROVE  Core' /\ EndsTold
<1> DEFINE gone == StreamsOf(serving)
<1>1. /\ UNCHANGED <<scenario, stale, address, stream, ident, holder>>
      /\ over' = over \union gone /\ calls' = {}
      /\ list' = Selected(list, InList \ gone)
      /\ clients' = Selected(clients, Range(clients) \ leaving)
  BY DEF Deregister
<1>2. clients' \in Seq(WrapperRec)
  <2>1. clients \in Seq(WrapperRec)
    BY DEF Core, Typed
  <2>2. QED BY <1>1, <2>1, SelectedIs
<1>3. gone \subseteq InList
  BY DEF StreamsOf
<1> HIDE DEF gone
<1>4. Remains(list', gone)
  BY <1>1, SelectedRemains
<1>5. QED BY <1>1, <1>2, <1>3, <1>4, RemovesKeep

\* A client that lets go of a kept stream keeps the core.
LEMMA RemoveKeptStreamKeeps ==
  ASSUME Core, UNCHANGED <<scenario, stale>>, NEW i, RemoveKeptStream(i)
  PROVE  Core' /\ EndsTold
<1>1. /\ i \in InList /\ Kept(stream[i])
      /\ UNCHANGED <<scenario, stale, address, stream, ident, holder>>
      /\ over' = over \union {} /\ calls' = {} /\ list' = Removed(i) /\ clients' = clients
  BY DEF RemoveKeptStream
<1>2. clients' \in Seq(WrapperRec)
  BY <1>1 DEF Core, Typed
<1> DEFINE gone == {i}
<1>3. Remains(list', gone)
  BY <1>1, SelectedRemains DEF Removed
<1>4. i \in over
  BY <1>1, ListedIs
<1>5. gone \subseteq InList /\ gone \subseteq over \union {} /\ {} \subseteq gone
  BY <1>1, <1>4
<1> HIDE DEF gone
<1>6. \A c \in calls' : c.id \notin over
  BY <1>1
<1>7. UNCHANGED <<scenario, stale, address, stream, ident, holder>> /\ over' = over \union {}
  BY <1>1
<1>8. QED BY <1>2, <1>3, <1>5, <1>6, <1>7, RemovesKeep

\* The identifier id with other addresses.
Moved(id, x, y) == [id EXCEPT !.sa = x, !.da = y]
IsMoved(t, id, x, y) ==
  /\ t \in IdentRec /\ t.type = id.type
  /\ t.saName = id.saName /\ t.daName = id.daName /\ t.sa = x /\ t.da = y

(* reactOnIsoItemModification: the streams in the list follow their names,   *)
(* so that what differs by names goes on to do so.                          *)
LEMMA ChangeAddressKeeps ==
  ASSUME Core, UNCHANGED <<scenario, stale>>, NEW n \in Name, NEW a \in Address \union {Lost},
         ChangeAddress(n, a)
  PROVE  Core' /\ EndsTold
<1> DEFINE saOf(i) == IF ident[i].saName = n /\ i \in InList THEN a ELSE ident[i].sa
           daOf(i) == IF ident[i].daName = n /\ i \in InList THEN a ELSE ident[i].da
           cachedOf(k) == IF clients[k].name = n THEN a ELSE clients[k].cached
<1>1. /\ UNCHANGED <<scenario, stale, list, stream, holder, over>> /\ calls' = {}
      /\ a # Lost => \A m \in Name \ {n} : address[m] # a
      /\ address' = [address EXCEPT ![n] = a]
      /\ clients' = [k \in 1..Len(clients) |-> [clients[k] EXCEPT !.cached = cachedOf(k)]]
      /\ ident' = [i \in DOMAIN ident |-> [ident[i] EXCEPT !.sa = saOf(i), !.da = daOf(i)]]
  BY DEF ChangeAddress
<1>2. /\ ident \in Seq(IdentRec) /\ Len(ident) = Len(stream) /\ Created = 1..Len(stream)
      /\ DOMAIN ident = Created /\ Len(ident) \in Nat
      /\ \A i \in Created : ident[i] \in IdentRec
      /\ clients \in Seq(WrapperRec) /\ address \in [Name -> Address \union {Lost}]
      /\ InList \subseteq Created
  BY DEF Core, Typed, Created, InList, Range
<1>3. n # Global /\ a # Global /\ Global \notin Name
  BY MultiReceiveAssumption
<1>4. ASSUME NEW i \in Created
      PROVE  /\ saOf(i) \in Address \union {Lost} /\ daOf(i) \in Address \union {Lost, Global}
             /\ daOf(i) = Global <=> ident[i].da = Global
  <2>1. ident[i] \in IdentRec
    BY <1>2
  <2>2. ident[i].sa \in Address \union {Lost} /\ ident[i].da \in Address \union {Lost, Global}
    BY <2>1 DEF IdentRec
  <2>3. ident[i].daName = Global <=> ident[i].da = Global
    BY DEF Core, IdentFits
  <2>4. QED BY <2>2, <2>3, <1>3
<1> HIDE DEF saOf, daOf
<1>5. ASSUME NEW i \in Created
      PROVE  /\ ident'[i] \in IdentRec
             /\ ident'[i].type = ident[i].type
             /\ ident'[i].saName = ident[i].saName /\ ident'[i].daName = ident[i].daName
             /\ ident'[i].sa = saOf(i) /\ ident'[i].da = daOf(i)
  <2>1. ident[i] \in IdentRec /\ ident'[i] = Moved(ident[i], saOf(i), daOf(i))
    BY <1>1, <1>2 DEF Moved
  <2>2. ASSUME NEW id \in IdentRec, NEW x \in Address \union {Lost}, NEW y \in Address \union {Lost, Global}
        PROVE  IsMoved(Moved(id, x, y), id, x, y)
    BY DEF IdentRec, IsMoved, Moved
  <2>3. IsMoved(ident'[i], ident[i], saOf(i), daOf(i))
    BY <2>1, <2>2, <1>4
  <2>4. QED BY <2>3 DEF IsMoved
<1>6. ident' \in Seq(IdentRec) /\ Len(ident') = Len(ident)
  <2>1. ident' = [i \in 1..Len(ident) |-> ident'[i]]
    BY <1>1, <1>2
  <2>2. ident' \in [1..Len(ident) -> IdentRec]
    BY <1>2, <1>5, <2>1
  <2>3. ident' \in Seq(IdentRec)
    BY <1>2, <2>2
  <2>4. QED BY <1>2, <2>2, <2>3
<1>7. clients' \in Seq(WrapperRec)
  <2>1. \A k \in 1..Len(clients) : clients[k] \in WrapperRec
    BY <1>2
  <2>2. ASSUME NEW k \in 1..Len(clients)
        PROVE  [clients[k] EXCEPT !.cached = cachedOf(k)] \in WrapperRec
    <3>1. clients[k] \in WrapperRec
      BY <2>1
    <3>2. cachedOf(k) \in Address \union {Lost}
      BY <3>1 DEF WrapperRec
    <3> HIDE DEF cachedOf
    <3>3. QED BY <3>1, <3>2 DEF WrapperRec
  <2> HIDE DEF cachedOf
  <2>3. clients' = [k \in 1..Len(clients) |-> [clients[k] EXCEPT !.cached = cachedOf(k)]]
    BY <1>1
  <2>4. clients' \in [1..Len(clients) -> WrapperRec]
    BY <2>2, <2>3, Zenon
  <2>5. Len(clients) \in Nat
    BY <1>2
  <2>6. QED BY <2>4, <2>5
<1>8. Created' = Created /\ InList' = InList
  BY <1>1 DEF Created, InList
<1>9. address' \in [Name -> Address \union {Lost}]
  BY <1>1, <1>2
<1>10. Typed'
  <2>1. stream' = stream /\ Len(ident') = Len(stream') /\ holder' = holder /\ list' = list
    BY <1>1, <1>2, <1>6
  <2>2. QED BY <1>1, <1>6, <1>7, <1>8, <1>9, <2>1 DEF Core, Typed
<1>11. AddressesDistinct'
  <2>1. AddressesDistinct
    BY DEF Core
  <2>2. \A m \in Name : address'[m] = IF m = n THEN a ELSE address[m]
    BY <1>1, <1>2
  <2>3. a # Lost => \A m \in Name : m # n => address[m] # a
    BY <1>1
  <2>4. ASSUME NEW k \in Name, NEW m \in Name, address'[k] = address'[m], address'[k] # Lost
        PROVE  k = m
    <3>1. CASE k = n \/ m = n
      BY <2>2, <2>3, <2>4, <3>1
    <3>2. CASE k # n /\ m # n
      BY <2>1, <2>2, <2>4, <3>2 DEF AddressesDistinct
    <3>3. QED BY <3>1, <3>2
  <2>5. QED BY <2>4 DEF AddressesDistinct
<1>12. \A i \in Created' : IdentFits(stream'[i], ident'[i])
  <2> SUFFICES ASSUME NEW i \in Created PROVE IdentFits(stream[i], ident'[i])
    BY <1>1, <1>8
  <2>1. IdentFits(stream[i], ident[i])
    BY DEF Core
  <2>2. QED BY <1>4, <1>5, <2>1 DEF IdentFits
<1>13. ASSUME NamesFollowed, NEW i \in InList PROVE FollowsNames(ident[i])'
  <2>1. /\ FollowsNames(ident[i]) /\ ident[i] \in IdentRec /\ i \in Created
        /\ ident[i].daName = Global <=> ident[i].da = Global
    BY <1>2, <1>13 DEF Core, NamesFollowed, IdentFits
  <2>2. ident[i].saName \in Name /\ ident[i].daName \in Name \union {Global}
    BY <2>1 DEF IdentRec
  <2>3. \A m \in Name : address'[m] = IF m = n THEN a ELSE address[m]
    BY <1>1, <1>2
  <2>4. ident'[i].sa = address'[ident'[i].saName]
    BY <1>5, <2>1, <2>2, <2>3 DEF FollowsNames, saOf
  <2>5. ident'[i].da = IF ident'[i].daName = Global THEN Global ELSE address'[ident'[i].daName]
    BY <1>3, <1>5, <2>1, <2>2, <2>3 DEF FollowsNames, daOf
  <2>6. QED BY <2>4, <2>5 DEF FollowsNames
<1>14. \A i \in InList' : StreamOk(stream'[i]) /\ (i \in over' <=> Kept(stream'[i]))
  BY <1>1, <1>8 DEF Core
<1>15. ASSUME NamesFollowed PROVE OneStreamPerNames'
  <2>1. \A i \in InList : /\ ident'[i].type = ident[i].type
                          /\ ident'[i].saName = ident[i].saName /\ ident'[i].daName = ident[i].daName
    BY <1>2, <1>5
  <2>2. OneStreamPerNames /\ stream' = stream
    BY <1>1, <1>15 DEF NamesFollowed
  <2>3. QED BY <1>8, <2>1, <2>2 DEF OneStreamPerNames
<1>16. Core'
  <2>1. (stale \/ NamesFollowed) /\ stale' = stale
    BY DEF Core
  <2>2. NamesFollowed => NamesFollowed'
    BY <1>8, <1>13, <1>15 DEF NamesFollowed
  <2>3. QED BY <1>10, <1>11, <1>12, <1>14, <2>1, <2>2 DEF Core
<1>17. QED BY <1>1, <1>16 DEF EndsTold, InList

(* A name leaves the monitor list.  The streams stay as they are; that they  *)
(* follow their names goes on only if none of them had this one.            *)
LEMMA RemoveItemKeeps ==
  ASSUME Core, Timing, UNCHANGED scenario, NEW n \in Name, RemoveItem(n)
  PROVE  Core' /\ EndsTold /\ Timing'
<1>1. /\ UNCHANGED <<scenario, list, stream, ident, holder, clients, over, taskWait, loop>>
      /\ address' = [address EXCEPT ![n] = Lost] /\ calls' = {}
      /\ Created' = Created /\ InList' = InList
  BY DEF RemoveItem, streamVars, Created, InList
<1>2. /\ address \in [Name -> Address \union {Lost}]
      /\ \A m \in Name : address'[m] = IF m = n THEN Lost ELSE address[m]
  BY <1>1 DEF Core, Typed
<1>3. stale' \in BOOLEAN /\ (stale => stale')
      /\ (~stale' => \A i \in InList : ident[i].saName # n /\ ident[i].daName # n)
  <2> DEFINE cached == \E w \in Range(clients) : w.name = n
             open == \E i \in InList : n \in {ident[i].saName, ident[i].daName}
  <2>1. stale' = (stale \/ cached \/ open)
    BY DEF RemoveItem
  <2>2. ~open => \A i \in InList : ident[i].saName # n /\ ident[i].daName # n
    OBVIOUS
  <2>3. stale \in BOOLEAN
    BY DEF Core, Typed
  <2> HIDE DEF cached, open
  <2>4. QED BY <2>1, <2>2, <2>3
<1>4. Typed'
  BY <1>1, <1>2, <1>3 DEF Core, Typed
<1>5. AddressesDistinct'
  <2>1. AddressesDistinct
    BY DEF Core
  <2>2. QED BY <1>2, <2>1, ZenonT(40) DEF AddressesDistinct
<1>6. ASSUME ~stale' PROVE NamesFollowed'
  <2>1. NamesFollowed
    BY <1>3, <1>6 DEF Core
  <2>2. ASSUME NEW i \in InList PROVE FollowsNames(ident[i])'
    <3>1. i \in 1..Len(ident) /\ ident \in Seq(IdentRec) /\ IdentFits(stream[i], ident[i])
      BY DEF Core, Typed, InList, Range, Created
    <3>2. ident[i] \in IdentRec
      BY <3>1
    <3>3. ident[i].saName \in Name \ {n} /\ ident[i].daName \in (Name \ {n}) \union {Global}
      BY <1>3, <1>6, <3>2 DEF IdentRec
    <3>4. FollowsNames(ident[i])
      BY <2>1 DEF NamesFollowed
    <3>5. ident'[i].sa = address'[ident'[i].saName]
      BY <1>1, <1>2, <3>3, <3>4 DEF FollowsNames
    <3>6. ident'[i].da = IF ident'[i].daName = Global THEN Global ELSE address'[ident'[i].daName]
      BY <1>1, <1>2, <3>3, <3>4 DEF FollowsNames
    <3>7. QED BY <3>5, <3>6 DEF FollowsNames
  <2>3. OneStreamPerNames'
    BY <1>1, <2>1 DEF NamesFollowed, OneStreamPerNames
  <2>4. QED BY <1>1, <2>2, <2>3 DEF NamesFollowed
<1>7. /\ \A i \in Created' : IdentFits(stream'[i], ident'[i])
      /\ \A i \in InList' : StreamOk(stream'[i])
      /\ \A i \in InList' : i \in over' <=> Kept(stream'[i])
  BY <1>1 DEF Core
<1>8. Core'
  BY <1>3, <1>4, <1>5, <1>6, <1>7 DEF Core
<1>9. Timing'
  BY <1>1 DEF Timing, TaskWakesInTime
<1>10. QED BY <1>1, <1>8, <1>9 DEF EndsTold, InList

-----------------------------------------------------------------------------
(* The task wakes up in time: processMsg and timeEvent set the trigger by     *)
(* nextTimeEvent(), and nothing else makes a stream wait for less.           *)

\* The period the task is given is no longer than any open stream waits.
LEMMA PeriodIs ==
  ASSUME Core
  PROVE  /\ NextTimeEvent(list, stream) \in Int
         /\ \A i \in InList : Kept(stream[i]) \/ NextTimeEvent(list, stream) <= stream[i].wait
<1>1. \A i \in Range(list) : stream[i] \in StreamRec /\ StreamOk(stream[i])
  BY ListedIs DEF InList
<1>2. QED BY <1>1, NextTimeEventIs DEF InList

\* A retriggered task wakes no later than a stream needs.
LEMMA RetriggeredTiming ==
  ASSUME Core', Retriggered, loop' \in Nat
  PROVE  Timing'
<1>1. \A i \in Range(list') : stream'[i] \in StreamRec /\ StreamOk(stream'[i])
  <2>1. /\ stream' \in Seq(StreamRec) /\ Created' = 1..Len(stream') /\ InList' \subseteq Created'
        /\ \A i \in InList' : StreamOk(stream'[i])
    BY DEF Core, Typed, Created, InList, Range
  <2>2. \A i \in Created' : stream'[i] \in StreamRec
    BY <2>1
  <2>3. QED BY <2>1, <2>2 DEF InList
<1> DEFINE period == NextTimeEvent(list', stream')
<1>2. period \in Int /\ \A i \in Range(list') : Kept(stream'[i]) \/ period <= stream'[i].wait
  BY <1>1, NextTimeEventIs
<1>3. taskWait' = NotBeforeNow(period)
  BY DEF Retriggered
<1>4. \A i \in Range(list') : stream'[i].wait \in Int
  BY <1>1, StreamFields
<1> HIDE DEF period
<1>5. taskWait' \in Nat /\ (taskWait' = period \/ taskWait' = 0)
  BY <1>2, <1>3 DEF NotBeforeNow
<1>6. TaskWakesInTime'
  <2> SUFFICES ASSUME NEW i \in Range(list'), ~Kept(stream'[i])
               PROVE  taskWait' <= (IF stream'[i].wait < 1 THEN 1 ELSE stream'[i].wait)
    BY DEF TaskWakesInTime, InList
  <2>1. stream'[i].wait \in Int /\ period <= stream'[i].wait
    BY <1>2, <1>4
  <2>2. QED BY <2>1, <1>2, <1>5
<1>7. QED BY <1>5, <1>6 DEF Timing

(* Steps that add no stream and leave the clock and the task alone.          *)
LEMMA QuietTiming ==
  ASSUME Timing, UNCHANGED <<taskWait, loop, stream>>, Range(list') \subseteq InList
  PROVE  Timing'
BY DEF Timing, TaskWakesInTime, InList

\* timeEvent() leaves with a wake-up no later than a stream needs.
LEMMA LeaveTimeEventTiming ==
  ASSUME Core, Timing, LeaveTimeEvent
  PROVE  Timing'
<1> DEFINE period == NextTimeEvent(list, stream)
<1>1. period \in Int /\ \A i \in InList : Kept(stream[i]) \/ period <= stream[i].wait
  BY PeriodIs
<1>2. /\ taskWait' \in 0..(IF period < 1 THEN 1 ELSE period)
      /\ loop' = 0 /\ list' = list /\ stream' = stream
  BY DEF LeaveTimeEvent, streamVars
<1>3. \A i \in InList : stream[i].wait \in Int
  BY ListedIs, StreamFields
<1> HIDE DEF period
<1>4. TaskWakesInTime'
  <2> SUFFICES ASSUME NEW i \in InList, ~Kept(stream[i])
               PROVE  taskWait' <= (IF stream[i].wait < 1 THEN 1 ELSE stream[i].wait)
    BY <1>2 DEF TaskWakesInTime, InList
  <2>1. stream[i].wait \in Int /\ period <= stream[i].wait
    BY <1>1, <1>3
  <2>2. QED BY <2>1, <1>1, <1>2
<1>5. taskWait' \in Nat
  BY <1>1, <1>2
<1>6. QED BY <1>2, <1>4, <1>5 DEF Timing

\* Time passing keeps the wake-up in step with the timers.
LEMMA TickTiming ==
  ASSUME Core, Timing, Tick
  PROVE  Timing'
<1>1. /\ loop = 0 /\ loop' = 0 /\ list' = list /\ taskWait \in Nat
      /\ taskWait' = IF taskWait > 0 THEN taskWait - 1 ELSE 0
  BY DEF Tick, Timing
<1>2. TaskWakesInTime'
  <2> SUFFICES ASSUME NEW i \in InList, ~Kept(stream'[i])
               PROVE  taskWait' <= (IF stream'[i].wait < 1 THEN 1 ELSE stream'[i].wait)
    BY <1>1 DEF TaskWakesInTime, InList
  <2> DEFINE wait == stream[i].wait
             after == stream'[i].wait
  <2>1. wait \in Int
    BY ListedIs, StreamFields
  <2>2. ~Kept(stream[i]) /\ after = IF wait >= 0 THEN wait - 1 ELSE -1
    BY TickedIs
  <2>3. taskWait <= (IF wait < 1 THEN 1 ELSE wait)
    BY <1>1, <2>2 DEF Timing, TaskWakesInTime
  <2> HIDE DEF wait, after
  <2>4. taskWait' <= (IF after < 1 THEN 1 ELSE after)
    BY <1>1, <2>1, <2>2, <2>3
  <2>5. QED BY <2>4 DEF after
<1>3. taskWait' \in Nat
  BY <1>1
<1>4. QED BY <1>1, <1>2, <1>3 DEF Timing

-----------------------------------------------------------------------------
(* Every step.                                                             *)

\* The start messages keep the invariant.
LEMMA ReceiveStartKeeps ==
  ASSUME Core, Timing, UNCHANGED <<scenario, stale>>, ReceiveStart
  PROVE  Core' /\ EndsTold /\ Timing'
<1>1. PICK t \in scenario.starts, sa \in Held, wellFormed \in BOOLEAN :
        \/ \E da \in Held, accept \in BOOLEAN : ReceiveRts(t, sa, da, wellFormed, accept)
        \/ ReceiveBam(t, sa, wellFormed)
        \/ \E frame \in scenario.seqs, keep \in BOOLEAN : wellFormed /\ ReceiveFrame(t, sa, frame, keep)
  BY DEF ReceiveStart
<1>2. Core' /\ EndsTold
  <2>1. ASSUME NEW da \in Held, NEW accept \in BOOLEAN, ReceiveRts(t, sa, da, wellFormed, accept)
        PROVE  Core' /\ EndsTold
    BY <2>1, ReceiveRtsKeeps
  <2>2. ASSUME ReceiveBam(t, sa, wellFormed) PROVE Core' /\ EndsTold
    BY <2>2, ReceiveBamKeeps
  <2>3. ASSUME NEW frame \in scenario.seqs, NEW keep \in BOOLEAN, ReceiveFrame(t, sa, frame, keep)
        PROVE  Core' /\ EndsTold
    BY <2>3, ReceiveFrameKeeps
  <2>4. QED BY <1>1, <2>1, <2>2, <2>3
<1>3. loop' = loop /\ Retriggered
  BY <1>1 DEF ReceiveRts, ReceiveBam, ReceiveFrame, Hears
<1>4. QED BY <1>2, <1>3, RetriggeredTiming DEF Timing

\* The messages that continue a stream keep the invariant.
LEMMA ReceiveMoreKeeps ==
  ASSUME Core, Timing, UNCHANGED <<scenario, stale>>, ReceiveMore
  PROVE  Core' /\ EndsTold /\ Timing'
<1>1. PICK type \in {t.type : t \in scenario.starts}, sa \in Held, da \in Held \union {Global} :
        \/ \E pgn \in Pgn, n \in 0..MaxPerClient, offset \in scenario.pages :
             ReceiveDpo(type, pgn, sa, da, n, offset)
        \/ \E pgn \in Pgn : ReceiveConnAbort(type, pgn, sa, da)
        \/ \E seq \in scenario.seqs, keep \in BOOLEAN : ReceiveData(type, sa, da, seq, keep)
  BY DEF ReceiveMore
<1>2. Core' /\ EndsTold
  <2>1. ASSUME NEW pgn \in Pgn, NEW n \in 0..MaxPerClient, NEW offset \in scenario.pages,
               ReceiveDpo(type, pgn, sa, da, n, offset)
        PROVE  Core' /\ EndsTold
    BY <2>1, ReceiveDpoKeeps
  <2>2. ASSUME NEW pgn \in Pgn, ReceiveConnAbort(type, pgn, sa, da) PROVE Core' /\ EndsTold
    BY <2>2, ReceiveConnAbortKeeps
  <2>3. ASSUME NEW seq \in scenario.seqs, NEW keep \in BOOLEAN, ReceiveData(type, sa, da, seq, keep)
        PROVE  Core' /\ EndsTold
    BY <2>3, ReceiveDataKeeps
  <2>4. QED BY <1>1, <2>1, <2>2, <2>3
<1>3. loop' = loop /\ Retriggered
  BY <1>1 DEF ReceiveDpo, ReceiveConnAbort, ReceiveData, Hears
<1>4. QED BY <1>2, <1>3, RetriggeredTiming DEF Timing

\* The scheduled steps keep the invariant.
LEMMA TaskKeeps ==
  ASSUME Core, Timing, UNCHANGED <<scenario, stale>>, EnterTimeEvent \/ TimeEventStep
  PROVE  Core' /\ EndsTold /\ Timing'
<1>1. ASSUME EnterTimeEvent PROVE Core' /\ EndsTold /\ Timing'
  <2>1. Core' /\ EndsTold
    BY <1>1, IgnoredKeeps DEF EnterTimeEvent
  <2>2. loop' = 1 /\ taskWait' \in Nat
    BY <1>1 DEF EnterTimeEvent, Timing
  <2>3. QED BY <2>1, <2>2 DEF Timing, TaskWakesInTime
<1>2. ASSUME PassStream PROVE Core' /\ EndsTold /\ Timing'
  <2>1. Core' /\ EndsTold
    BY <1>2, IgnoredKeeps DEF PassStream
  <2>2. loop' \in Nat /\ loop' # 0 /\ taskWait' \in Nat
    BY <1>2 DEF PassStream, Timing
  <2>3. QED BY <2>1, <2>2 DEF Timing, TaskWakesInTime
<1>3. ASSUME SendNextCts PROVE Core' /\ EndsTold /\ Timing'
  <2>1. Core' /\ EndsTold
    BY <1>3, SendNextCtsKeeps
  <2>2. loop' \in Nat /\ loop' # 0 /\ taskWait' \in Nat
    BY <1>3 DEF SendNextCts, Timing
  <2>3. QED BY <2>1, <2>2 DEF Timing, TaskWakesInTime
<1>4. ASSUME RemoveTimedOut PROVE Core' /\ EndsTold /\ Timing'
  <2>1. Core' /\ EndsTold
    BY <1>4, RemoveTimedOutKeeps
  <2>2. loop' \in Nat /\ loop' # 0 /\ taskWait' \in Nat
    BY <1>4 DEF RemoveTimedOut, Visits, Timing
  <2>3. QED BY <2>1, <2>2 DEF Timing, TaskWakesInTime
<1>5. ASSUME LeaveTimeEvent PROVE Core' /\ EndsTold /\ Timing'
  <2>1. Core' /\ EndsTold
    BY <1>5, IgnoredKeeps DEF LeaveTimeEvent
  <2>2. QED BY <1>5, <2>1, LeaveTimeEventTiming
<1>6. QED BY <1>1, <1>2, <1>3, <1>4, <1>5 DEF TimeEventStep

\* The calls of clients and the address changes keep the invariant.
LEMMA CallKeeps ==
  ASSUME Core, Timing, UNCHANGED <<scenario, stale>>,
         \/ \E r \in scenario.registrations : RegisterClient(r)
         \/ \E c \in Client : DeregisterClient(c)
         \/ \E r \in scenario.registrations : DeregisterClientFor(r)
         \/ \E i \in Id : RemoveKeptStream(i)
         \/ \E move \in scenario.moves : ChangeAddress(move[1], move[2])
  PROVE  Core' /\ EndsTold /\ Timing'
<1>1. ASSUME NEW r \in scenario.registrations, RegisterClient(r) PROVE Core' /\ EndsTold /\ Timing'
  <2>1. Core' /\ EndsTold
    BY <1>1, RegisterClientKeeps
  <2>2. UNCHANGED <<taskWait, loop, stream>> /\ Range(list') \subseteq InList
    BY <1>1 DEF RegisterClient, streamVars, InList
  <2>3. QED BY <2>1, <2>2, QuietTiming
<1>2. ASSUME NEW leaving, NEW serving, Deregister(leaving, serving)
      PROVE  Core' /\ EndsTold /\ Timing'
  <2>1. Core' /\ EndsTold
    BY <1>2, DeregisterKeeps
  <2>2. UNCHANGED <<taskWait, loop, stream>>
    BY <1>2 DEF Deregister
  <2>3. Range(list') \subseteq InList
    BY <1>2, SelectedRemains DEF Deregister, Remains
  <2>4. QED BY <2>1, <2>2, <2>3, QuietTiming
<1>3. ASSUME NEW i, RemoveKeptStream(i) PROVE Core' /\ EndsTold /\ Timing'
  <2>1. Core' /\ EndsTold
    BY <1>3, RemoveKeptStreamKeeps
  <2>2. UNCHANGED <<taskWait, loop, stream>> /\ list' = Selected(list, InList \ {i})
    BY <1>3 DEF RemoveKeptStream, Removed
  <2>3. Range(list') \subseteq InList
    BY <2>2, SelectedRemains DEF Remains
  <2>4. QED BY <2>1, <2>2, <2>3, QuietTiming
<1>4. ASSUME NEW move \in scenario.moves, ChangeAddress(move[1], move[2])
      PROVE  Core' /\ EndsTold /\ Timing'
  <2>1. move[1] \in Name /\ move[2] \in Address \union {Lost}
    <3>1. IsScenario(scenario)
      BY MultiReceiveAssumption DEF Core, Typed
    <3>2. move \in Name \X (Address \union {Lost})
      BY <3>1 DEF IsScenario
    <3>3. QED BY <3>2
  <2>2. Core' /\ EndsTold
    BY <1>4, <2>1, ChangeAddressKeeps
  <2>3. UNCHANGED <<taskWait, loop, stream>> /\ Range(list') \subseteq InList
    BY <1>4 DEF ChangeAddress, InList
  <2>4. QED BY <2>2, <2>3, QuietTiming
<1>5. QED BY <1>1, <1>2, <1>3, <1>4 DEF DeregisterClient, DeregisterClientFor

\* Every step keeps the invariant.
LEMMA StepKeeps ==
  ASSUME IInv, [Next]_vars
  PROVE  IInv' /\ [EndsTold]_vars
<1>1. Core /\ Timing
  BY DEF IInv
<1>2. CASE Next
  <2>1. \/ Step /\ UNCHANGED <<scenario, stale>>
        \/ UNCHANGED scenario /\ \E n \in scenario.leaves : RemoveItem(n)
    BY <1>2 DEF Next
  <2>2. CASE Step /\ UNCHANGED <<scenario, stale>>
    <3>1. CASE ReceiveStart
      BY <1>1, <2>2, <3>1, ReceiveStartKeeps DEF IInv
    <3>2. CASE ReceiveMore
      BY <1>1, <2>2, <3>2, ReceiveMoreKeeps DEF IInv
    <3>3. CASE EnterTimeEvent \/ TimeEventStep
      BY <1>1, <2>2, <3>3, TaskKeeps DEF IInv
    <3>4. CASE Tick
      BY <1>1, <2>2, <3>4, TickKeeps, TickTiming DEF IInv
    <3>5. CASE \/ \E r \in scenario.registrations : RegisterClient(r)
               \/ \E c \in Client : DeregisterClient(c)
               \/ \E r \in scenario.registrations : DeregisterClientFor(r)
               \/ \E i \in Id : RemoveKeptStream(i)
               \/ \E move \in scenario.moves : ChangeAddress(move[1], move[2])
      BY <1>1, <2>2, <3>5, CallKeeps DEF IInv
    <3>6. QED BY <2>2, <3>1, <3>2, <3>3, <3>4, <3>5 DEF Step
  <2>3. ASSUME NEW n \in scenario.leaves, RemoveItem(n), UNCHANGED scenario
        PROVE  IInv' /\ EndsTold
    <3>1. IsScenario(scenario)
      BY <1>1, MultiReceiveAssumption DEF Core, Typed
    <3>2. n \in Name
      BY <3>1 DEF IsScenario
    <3>3. QED BY <1>1, <2>3, <3>2, RemoveItemKeeps DEF IInv
  <2>4. QED BY <2>1, <2>2, <2>3
<1>3. CASE UNCHANGED vars
  <2>1. /\ UNCHANGED <<scenario, stale, clients, list, stream, ident, holder, address, taskWait, loop, over>>
        /\ Created' = Created /\ InList' = InList
    BY <1>3 DEF vars, streamVars, Created, InList
  <2>2. Core'
    BY <1>1, <2>1 DEF Core, Typed, AddressesDistinct, NamesFollowed, FollowsNames, OneStreamPerNames
  <2>3. Timing'
    BY <1>1, <2>1 DEF Timing, TaskWakesInTime
  <2>4. QED BY <1>3, <2>2, <2>3 DEF IInv
<1>4. QED BY <1>2, <1>3

\* The initial states satisfy the invariant.
LEMMA InitKeeps ==
  ASSUME Init PROVE IInv
<1>1. /\ scenario \in Scenario /\ clients = <<>> /\ list = <<>> /\ stream = <<>> /\ ident = <<>>
      /\ holder = <<>> /\ address = scenario.address /\ taskWait = IdleWait /\ loop = 0 /\ over = {}
      /\ stale = FALSE
  BY DEF Init
<1>2. IsScenario(scenario) /\ IdleWait \in Nat
  BY <1>1, MultiReceiveAssumption
<1>3. /\ address \in [Name -> Address \union {Lost}]
      /\ \A m, n \in Name : address[m] = address[n] => m = n \/ address[m] = Lost
      /\ 0 <= scenario.streams
  <2>1. scenario.streams \in 0..MaxStreams /\ MaxStreams \in Nat
    BY <1>2, MultiReceiveAssumption DEF IsScenario
  <2>2. QED BY <1>1, <1>2, <2>1 DEF IsScenario
<1>4. Created = {} /\ InList = {} /\ IsInjective(list) /\ Len(stream) = 0
  BY <1>1 DEF Created, InList, Range, IsInjective
<1>5. Typed
  <2>1. stale \in BOOLEAN
    BY <1>1, Zenon
  <2>2. QED BY <1>1, <1>3, <1>4, <2>1 DEF Typed
<1>6. Core
  BY <1>3, <1>4, <1>5 DEF Core, AddressesDistinct, NamesFollowed, OneStreamPerNames
<1>7. Timing
  BY <1>1, <1>2, <1>4 DEF Timing, TaskWakesInTime
<1>8. QED BY <1>6, <1>7 DEF IInv

\* The invariant holds in every reachable state.
LEMMA AlwaysIInv == Spec => []IInv
<1>1. Init => IInv
  BY InitKeeps
<1>2. IInv /\ [Next]_vars => IInv'
  BY StepKeeps
<1>3. QED BY <1>1, <1>2, PTL DEF Spec

-----------------------------------------------------------------------------
(* expectBurst, setDataPageOffset and handleDataPacket: whatever a sender says *)
(* in its RTS, data page offsets and sequence numbers, what a stream waits for *)
(* is missing in its message, and nothing is written past its announced size.  *)
THEOREM BurstsAlwaysFit == Spec => []BurstsFit
<1>1. IInv => BurstsFit
  BY DEF IInv, Core, BurstsFit, BurstFits, StreamOk
<1>2. QED BY <1>1, AlwaysIInv, PTL

(* MultiReceive_c keeps its types, has one stream per peer although streams     *)
(* are sought by addresses that change, and its task wakes up in time.          *)
THEOREM StreamsStayConsistent == Spec => []StreamsConsistent
<1>1. IInv => StreamsConsistent
  <2> SUFFICES ASSUME IInv PROVE StreamsConsistent
    OBVIOUS
  <2>1. Core /\ TaskWakesInTime /\ taskWait \in Nat /\ loop \in Nat
    BY DEF IInv, Timing
  <2>2. OneStreamPerPeer
    BY <2>1, OneFound DEF Core, OneStreamPerPeer
  <2>3. ASSUME NEW i \in Created
        PROVE  /\ ident[i].type = stream[i].type /\ ident[i].pgn \in Pgn
               /\ ident[i].sa \in Address \union {Lost}
               /\ ident[i].da \in Address \union {Lost, Global}
               /\ stream[i].broadcast <=> ident[i].da = Global
               /\ holder[i] \in Client \union {NoClient}
    <3>1. /\ i \in 1..Len(ident) /\ i \in 1..Len(holder) /\ ident \in Seq(IdentRec)
          /\ holder \in Seq(Client \union {NoClient})
      BY <2>1 DEF Core, Typed, Created
    <3>2. ident[i] \in IdentRec /\ holder[i] \in Client \union {NoClient}
      BY <3>1
    <3>3. IdentFits(stream[i], ident[i])
      BY <2>1 DEF Core
    <3>4. QED BY <3>2, <3>3 DEF IdentFits, IdentRec
  <2>4. TypeOK
    BY <2>1, <2>3 DEF TypeOK, Core, Typed, StreamRec
  <2>5. QED BY <2>1, <2>2, <2>4 DEF StreamsConsistent
<1>2. QED BY <1>1, AlwaysIInv, PTL

(* The client of a stream is told its end once: nothing is said of a stream    *)
(* whose end was told, and no stream leaves the list before.                   *)
THEOREM EndIsToldOnce == Spec => EndToldOnce
<1>1. IInv /\ [Next]_vars => [EndsTold]_vars
  BY StepKeeps
<1>2. [EndsTold]_vars => [/\ \A c \in calls' : c.id \notin over
                          /\ InList \ Range(list') \subseteq over']_vars
  BY DEF EndsTold
<1>3. QED BY <1>1, <1>2, AlwaysIInv, PTL DEF Spec, EndToldOnce
=============================================================================
