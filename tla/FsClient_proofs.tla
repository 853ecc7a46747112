--------------------------- MODULE FsClient_proofs ---------------------------
(***************************************************************************)
(* Proofs about FsCommand and FsClient for any clients, commands, answers, *)
(* losses and times.  A command object is Sound alone: what it may still   *)
(* send is a request it filled.  The handlers of the clients and the       *)
(* initializing commands are sound in their own ways, and the server's     *)
(* state says which of them there can be.                                  *)
(***************************************************************************)
EXTENDS FsClient, SequenceLemmas

AnyBuffer == Request \union {EmptyBuffer}

Command ==
  [id : Nat \union {-1}, client : Client, initializing : BOOLEAN,
   lastCommand : Kind \union {NoCommand}, tan : 0..TanRange-1, receivedResponse : BOOLEAN,
   age : -1..RepeatBusy+1, requestAttempts : 0..Attempts+1, buffer : AnyBuffer,
   positionMode : Nat, sendSuccess : {"Running", "SendSuccess", "SendAborted"},
   wait : BOOLEAN, retry : BOOLEAN, queryStarted : BOOLEAN, filter : BOOLEAN,
   of : Nat, waitFor : Nat, due : BOOLEAN]

Transfers == [head : AnyBuffer, try : 0..Attempts+1, owed : Nat]
Worlds == [command : Command, queue : Seq(Request), transfer : Transfers]

\* What a command may send (again), or go on sending, is a request.
Sound(c) == c \in Command /\ (IsBusy(c) \/ c.wait => c.buffer \in Request)

SoundTransfer(t) == t \in Transfers /\ (t # NoTransfer => t.head \in Request)
SoundQueue(q) == q \in Seq(Request) /\ Len(q) <= ServerQueue

SoundWorld(w) ==
  w \in Worlds /\ Sound(w.command) /\ SoundTransfer(w.transfer) /\ SoundQueue(w.queue)

\* The transfer of a world reports to its command.
Listened(w) ==
  w.transfer # NoTransfer => w.command.wait /\ w.command.sendSuccess = "Running"

RunsIfAny(w) == w.transfer # NoTransfer => w.command.sendSuccess = "Running"

\* What sending does not change.
SameObject(c, d) ==
  c.id = d.id /\ c.client = d.client /\ (c.initializing <=> d.initializing)
Continues(c, d) ==
  /\ SameObject(c, d)
  /\ c.lastCommand = d.lastCommand /\ c.of = d.of /\ (c.queryStarted <=> d.queryStarted)

-----------------------------------------------------------------------------
(* Sending.                                                                *)

(* A request that reaches the server's queue.                              *)
LEMMA ReachedQueue ==
  ASSUME NEW q, SoundQueue(q), NEW r \in Request
  PROVE  SoundQueue(Reaches(q, r))
BY FsCommandAssumption DEF SoundQueue, Reaches

(* A request leaves it.                                                    *)
LEMMA TakenFromQueue ==
  ASSUME NEW q, SoundQueue(q), q # <<>>
  PROVE  SoundQueue(Tail(q)) /\ Head(q) \in Request
<1>1. q \in Seq(Request) /\ Len(q) \in Nat /\ Len(q) # 0 /\ Len(q) <= ServerQueue
  BY DEF SoundQueue
<1>2. Tail(q) \in Seq(Request) /\ Len(Tail(q)) = Len(q) - 1 /\ Head(q) \in Request
  BY <1>1
<1>3. ServerQueue \in Nat
  BY FsCommandAssumption
<1> DEFINE t == Tail(q)
           n == Len(t)
<1> HIDE DEF n
<1>4. n <= ServerQueue
  BY <1>1, <1>2, <1>3 DEF n
<1>5. QED BY <1>2, <1>4 DEF SoundQueue, n

(* A transfer is started, or the command remembers to try again.           *)
LEMMA TriedToSend ==
  ASSUME NEW w, SoundWorld(w), w.command.buffer \in Request
  PROVE  LET r == SendMultiPacketTry(w) IN
         /\ SoundWorld(r)
         /\ Listened(w) /\ w.command.wait => Listened(r)
         /\ Listened(w) => RunsIfAny(r)
         /\ Continues(r.command, w.command)
         /\ r.command.requestAttempts = w.command.requestAttempts
         /\ IsBusy(r.command) <=> IsBusy(w.command)
         /\ r.command.buffer = w.command.buffer
         /\ r.command.wait <=> w.command.wait
<1> DEFINE c == w.command
           r == SendMultiPacketTry(w)
<1>1. w \in Worlds /\ c \in Command /\ c.buffer \in Request
  BY DEF SoundWorld, Sound
<1>2. CASE w.transfer = NoTransfer
  <2> DEFINE t == [head |-> c.buffer, try |-> c.requestAttempts, owed |-> c.waitFor]
             d == [c EXCEPT !.sendSuccess = "Running", !.retry = FALSE]
  <2>1. r = [w EXCEPT !.transfer = t, !.command = d]
    BY <1>1, <1>2 DEF SendMultiPacketTry, Worlds
  <2>2. t \in Transfers /\ t.head \in Request
    BY <1>1 DEF Transfers, Command, AnyBuffer
  <2>3. /\ d \in Command /\ d.sendSuccess = "Running" /\ d.buffer = c.buffer
        /\ d.requestAttempts = c.requestAttempts
        /\ (d.wait <=> c.wait) /\ (IsBusy(d) <=> IsBusy(c)) /\ Continues(d, c)
    BY <1>1, ZenonT(40) DEF Command, Continues, SameObject, IsBusy
  <2> HIDE DEF t, d, r
  <2>4. r.transfer = t /\ r.command = d /\ r.queue = w.queue /\ r \in Worlds
    BY <2>1, <2>2, <2>3, <1>1 DEF Worlds
  <2>5. Sound(d)
    BY <2>3, <1>1 DEF Sound
  <2>6. SoundWorld(r)
    BY <2>2, <2>4, <2>5 DEF SoundWorld, SoundTransfer
  <2>7. (c.wait => Listened(r)) /\ RunsIfAny(r)
    BY <2>3, <2>4 DEF Listened, RunsIfAny
  <2>8. QED BY <2>3, <2>4, <2>6, <2>7 DEF r
<1>3. CASE w.transfer # NoTransfer
  <2> DEFINE d == [c EXCEPT !.retry = TRUE]
  <2>1. r = [w EXCEPT !.command = d]
    BY <1>1, <1>3 DEF SendMultiPacketTry, Worlds
  <2>3. /\ d \in Command /\ d.sendSuccess = c.sendSuccess /\ d.buffer = c.buffer
        /\ d.requestAttempts = c.requestAttempts
        /\ (d.wait <=> c.wait) /\ (IsBusy(d) <=> IsBusy(c)) /\ Continues(d, c)
    BY <1>1 DEF Command, Continues, SameObject, IsBusy
  <2> HIDE DEF d, r
  <2>4. r.transfer = w.transfer /\ r.command = d /\ r.queue = w.queue /\ r \in Worlds
    BY <2>1, <2>3, <1>1 DEF Worlds
  <2>5. Sound(d)
    BY <2>3, <1>1 DEF Sound
  <2>6. SoundWorld(r)
    BY <2>4, <2>5 DEF SoundWorld
  <2>7. (Listened(w) /\ c.wait => Listened(r)) /\ (Listened(w) => RunsIfAny(r))
    BY <2>3, <2>4, <1>3 DEF Listened, RunsIfAny
  <2>8. QED BY <2>3, <2>4, <2>6, <2>7 DEF r
<1>4. QED BY <1>2, <1>3

(* A request is sent in one frame or starts its transfer; the command waits for an *)
(* answer, whatever it did before.                                         *)
LEMMA Sent ==
  ASSUME NEW w, w \in Worlds, w.command.buffer \in Request,
         SoundTransfer(w.transfer), SoundQueue(w.queue)
  PROVE  LET r == SendRequest(w) IN
         /\ SoundWorld(r)
         /\ Listened(w) => Listened(r)
         /\ Continues(r.command, w.command)
         /\ r.command.requestAttempts = w.command.requestAttempts
         /\ IsBusy(r.command)
<1> DEFINE c == w.command
           r == SendRequest(w)
<1>1. c \in Command
  BY DEF Worlds
<1>2. CASE ~c.buffer.long
  <2> DEFINE v == SendSinglePacket(w)
             q == Reaches(w.queue, c.buffer)
             d == [c EXCEPT !.age = 0, !.receivedResponse = FALSE]
  <2>1. SoundQueue(q)
    BY ReachedQueue
  <2>2. /\ d \in Command /\ d.sendSuccess = c.sendSuccess /\ d.buffer = c.buffer
        /\ d.requestAttempts = c.requestAttempts
        /\ (d.wait <=> c.wait) /\ IsBusy(d) /\ Continues(d, c)
    <3>1. 0 \in -1..RepeatBusy+1
      BY FsCommandAssumption
    <3>2. QED BY <1>1, <3>1 DEF Command, Continues, SameObject, IsBusy
  <2>3. v = [w EXCEPT !.queue = q] /\ r = [v EXCEPT !.command = d]
    BY <1>2 DEF SendRequest, SendSinglePacket, Worlds
  <2> HIDE DEF v, q, d, r
  <2>4. r.transfer = w.transfer /\ r.command = d /\ r.queue = q /\ r \in Worlds
    BY <2>1, <2>2, <2>3 DEF Worlds, SoundQueue
  <2>5. SoundWorld(r)
    BY <2>1, <2>2, <2>4 DEF SoundWorld, Sound
  <2>6. Listened(w) => Listened(r)
    BY <2>2, <2>4 DEF Listened
  <2>7. QED BY <2>2, <2>4, <2>5, <2>6 DEF r
<1>3. CASE c.buffer.long
  <2> DEFINE b == [c EXCEPT !.waitFor = c.of]
             v == [w EXCEPT !.command = b]
             u == SendMultiPacketTry(v)
             d == [u.command EXCEPT !.wait = TRUE, !.age = Unset, !.receivedResponse = FALSE]
  <2>1. -1 \in -1..RepeatBusy+1
    BY FsCommandAssumption
  <2>2. /\ b \in Command /\ b.sendSuccess = c.sendSuccess /\ b.buffer = c.buffer
        /\ b.requestAttempts = c.requestAttempts /\ (b.wait <=> c.wait) /\ Continues(b, c)
    BY <1>1 DEF Command, Continues, SameObject
  <2>3. r = [u EXCEPT !.command = d]
    <3>1. v = [w EXCEPT !.command.waitFor = c.of]
      BY DEF Worlds
    <3>2. r = [u EXCEPT !.command.wait = TRUE, !.command.age = Unset,
                        !.command.receivedResponse = FALSE]
      BY <1>3, <3>1 DEF SendRequest
    <3>3. u \in Worlds
      <4>1. SoundWorld(v) /\ v.command.buffer \in Request
        BY <2>2 DEF SoundWorld, Sound, Worlds
      <4>2. QED BY <4>1, TriedToSend DEF SoundWorld
    <3> HIDE DEF u, r, v
    <3>4. QED BY <3>2, <3>3 DEF Worlds
  <2> HIDE DEF b, r
  <2>4. v.command = b /\ v.transfer = w.transfer /\ v.queue = w.queue /\ v \in Worlds
    BY <2>2 DEF Worlds
  <2> HIDE DEF v, u
  <2>5. SoundWorld(v) /\ (Listened(w) => Listened(v))
    BY <2>2, <2>4 DEF SoundWorld, Sound, Listened
  <2>6. /\ SoundWorld(u)
        /\ Listened(v) => RunsIfAny(u)
        /\ Continues(u.command, v.command)
        /\ u.command.requestAttempts = v.command.requestAttempts
        /\ u.command.buffer = v.command.buffer
    BY <2>2, <2>4, <2>5, TriedToSend DEF u
  <2>7. u.command \in Command /\ u \in Worlds
    BY <2>6 DEF SoundWorld, Sound
  <2>8. /\ d \in Command /\ d.sendSuccess = u.command.sendSuccess
        /\ d.buffer = u.command.buffer
        /\ d.requestAttempts = u.command.requestAttempts
        /\ d.wait /\ IsBusy(d) /\ Continues(d, u.command)
    BY <2>1, <2>7 DEF Command, Continues, SameObject, IsBusy, Unset
  <2> HIDE DEF d
  <2>9. r.command = d /\ r.transfer = u.transfer /\ r.queue = u.queue /\ r \in Worlds
    BY <2>3, <2>7, <2>8 DEF Worlds
  <2>10. SoundWorld(r)
    BY <2>2, <2>4, <2>6, <2>8, <2>9 DEF SoundWorld, Sound
  <2>11. Listened(w) => Listened(r)
    BY <2>5, <2>6, <2>8, <2>9 DEF Listened, RunsIfAny
  <2>12. Continues(d, c)
    BY <2>2, <2>4, <2>6, <2>8 DEF Continues, SameObject
  <2>13. QED BY <2>2, <2>4, <2>6, <2>8, <2>9, <2>10, <2>11, <2>12 DEF r
<1>4. QED BY <1>2, <1>3

(* A repetition.                                                           *)
LEMMA SentAgain ==
  ASSUME NEW w, SoundWorld(w), w.command.buffer \in Request
  PROVE  LET r == SendRetry(w) IN
         /\ SoundWorld(r)
         /\ Listened(w) => Listened(r)
         /\ Continues(r.command, w.command)
         /\ w.command.requestAttempts < Attempts => r.command.requestAttempts <= Attempts
         /\ IsBusy(r.command)
<1> DEFINE c == w.command
           n == IF c.requestAttempts <= Attempts THEN c.requestAttempts + 1 ELSE c.requestAttempts
           d == [c EXCEPT !.requestAttempts = n]
           v == [w EXCEPT !.command = d]
           r == SendRetry(w)
<1>1. c \in Command /\ w \in Worlds /\ SoundTransfer(w.transfer) /\ SoundQueue(w.queue)
  BY DEF SoundWorld, Sound
<1>2. n \in 0..Attempts+1 /\ (c.requestAttempts < Attempts => n <= Attempts)
  <2>1. c.requestAttempts \in 0..Attempts+1
    BY <1>1 DEF Command
  <2>2. QED BY <2>1, FsCommandAssumption
<1>3. r = SendRequest(v)
  BY DEF SendRetry
<1> HIDE DEF n
<1>4. /\ d \in Command /\ d.requestAttempts = n /\ d.buffer = c.buffer
      /\ Continues(d, c) /\ d.sendSuccess = c.sendSuccess /\ (d.wait <=> c.wait)
  BY <1>1, <1>2 DEF Command, Continues, SameObject
<1> HIDE DEF d, r
<1>5. v.command = d /\ v.transfer = w.transfer /\ v.queue = w.queue /\ v \in Worlds
  BY <1>1, <1>4 DEF Worlds
<1> HIDE DEF v
<1>6. /\ SoundWorld(r) /\ (Listened(v) => Listened(r))
      /\ Continues(r.command, v.command) /\ IsBusy(r.command)
      /\ r.command.requestAttempts = v.command.requestAttempts
  BY <1>1, <1>3, <1>4, <1>5, Sent
<1>7. Listened(w) => Listened(v)
  BY <1>4, <1>5 DEF Listened
<1>8. Continues(r.command, c)
  BY <1>4, <1>5, <1>6 DEF Continues, SameObject
<1>9. QED BY <1>2, <1>4, <1>5, <1>6, <1>7, <1>8 DEF r

(* A new command fills the buffer and is sent for the first time.          *)
LEMMA Begun ==
  ASSUME NEW w, w \in Worlds, SoundTransfer(w.transfer), SoundQueue(w.queue),
         w.command.id \in Nat, NEW kind \in Kind, NEW long \in BOOLEAN
  PROVE  LET r == Begin(w, kind, long) IN
         /\ SoundWorld(r)
         /\ Listened(w) => Listened(r)
         /\ SameObject(r.command, w.command)
         /\ r.command.lastCommand = kind /\ r.command.of = w.command.of + 1
         /\ r.command.queryStarted <=> w.command.queryStarted
         /\ r.command.requestAttempts = 1
         /\ IsBusy(r.command)
<1> DEFINE c == w.command
           b == [kind |-> kind, tan |-> c.tan, long |-> long, of |-> c.of + 1, by |-> c.id]
           d == [c EXCEPT !.lastCommand = kind, !.of = c.of + 1, !.requestAttempts = 1,
                          !.buffer = b]
           v == [w EXCEPT !.command = d]
           r == Begin(w, kind, long)
<1>1. c \in Command /\ 1 \in 0..Attempts+1
  BY FsCommandAssumption DEF Worlds
<1>2. b \in Request
  BY <1>1 DEF Request, Command
<1>3. r = SendRequest(v)
  BY <1>1 DEF Begin, Worlds, Command
<1> HIDE DEF b
<1>4. /\ d \in Command /\ d.requestAttempts = 1 /\ d.buffer = b /\ d.lastCommand = kind
      /\ d.of = c.of + 1 /\ (d.queryStarted <=> c.queryStarted)
      /\ SameObject(d, c) /\ d.sendSuccess = c.sendSuccess /\ (d.wait <=> c.wait)
  <2>1. c.of + 1 \in Nat /\ b \in AnyBuffer
    BY <1>1, <1>2 DEF Command, AnyBuffer
  <2>2. QED BY <1>1, <2>1 DEF Command, SameObject
<1> HIDE DEF d, r
<1>5. v.command = d /\ v.transfer = w.transfer /\ v.queue = w.queue /\ v \in Worlds
  BY <1>4 DEF Worlds
<1> HIDE DEF v
<1>6. /\ SoundWorld(r) /\ (Listened(v) => Listened(r))
      /\ Continues(r.command, v.command) /\ IsBusy(r.command)
      /\ r.command.requestAttempts = v.command.requestAttempts
  BY <1>2, <1>3, <1>4, <1>5, Sent
<1>7. Listened(w) => Listened(v)
  BY <1>4, <1>5 DEF Listened
<1>8. /\ SameObject(r.command, c) /\ r.command.lastCommand = kind
      /\ r.command.of = c.of + 1 /\ (r.command.queryStarted <=> c.queryStarted)
  BY <1>4, <1>5, <1>6 DEF Continues, SameObject
<1>9. QED BY <1>4, <1>5, <1>6, <1>7, <1>8 DEF r

(* A command ends: the object is free for the next one.                    *)
LEMMA CommandEnded ==
  ASSUME NEW w, SoundWorld(w)
  PROVE  LET r == FinishCommand(w) IN
         /\ SoundWorld(r)
         /\ Listened(w) => Listened(r)
         /\ SameObject(r.command, w.command)
         /\ r.command.lastCommand = NoCommand /\ ~IsBusy(r.command)
         /\ r.command.of = w.command.of
         /\ r.command.requestAttempts = w.command.requestAttempts
         /\ r.command.queryStarted <=> w.command.queryStarted
         /\ r.transfer = w.transfer /\ r.queue = w.queue
<1> DEFINE c == w.command
           n == (c.tan + 1) % TanRange
           d == [c EXCEPT !.lastCommand = NoCommand, !.receivedResponse = TRUE, !.tan = n]
           r == FinishCommand(w)
<1>1. c \in Command /\ w \in Worlds
  BY DEF SoundWorld, Sound
<1>2. n \in 0..TanRange-1
  BY <1>1 DEF Command, TanRange
<1>3. r = [w EXCEPT !.command = d]
  BY <1>1 DEF FinishCommand, Worlds, Command
<1> HIDE DEF n
<1>4. /\ d \in Command /\ d.lastCommand = NoCommand /\ ~IsBusy(d) /\ d.buffer = c.buffer
      /\ d.of = c.of /\ d.requestAttempts = c.requestAttempts
      /\ (d.queryStarted <=> c.queryStarted)
      /\ SameObject(d, c) /\ d.sendSuccess = c.sendSuccess /\ (d.wait <=> c.wait)
  BY <1>1, <1>2 DEF Command, SameObject, IsBusy
<1> HIDE DEF d, r
<1>5. r.command = d /\ r.transfer = w.transfer /\ r.queue = w.queue /\ r \in Worlds
  BY <1>1, <1>3, <1>4 DEF Worlds
<1>6. SoundWorld(r)
  BY <1>4, <1>5 DEF SoundWorld, Sound
<1>7. Listened(w) => Listened(r)
  BY <1>4, <1>5 DEF Listened
<1>8. QED BY <1>4, <1>5, <1>6, <1>7 DEF r

-----------------------------------------------------------------------------
(* The time event.                                                         *)

\* What the first steps of a time event keep.
Goes(r, w) ==
  /\ SoundWorld(r) /\ (Listened(w) => Listened(r))
  /\ Continues(r.command, w.command)
  /\ r.command.requestAttempts = w.command.requestAttempts
  /\ IsBusy(r.command) <=> IsBusy(w.command)

(* A continued step keeps what an earlier one kept.                        *)
LEMMA GoesOn ==
  ASSUME NEW u, NEW v, NEW w, Goes(v, w), Goes(u, v)
  PROVE  Goes(u, w)
BY DEF Goes, Continues, SameObject

\* The filter of the answers.
LEMMA FilterCreated ==
  ASSUME NEW w, SoundWorld(w)
  PROVE  Goes(CreateFilter(w), w)
<1> DEFINE c == w.command
           d == [c EXCEPT !.filter = TRUE]
           r == CreateFilter(w)
<1>1. c \in Command /\ w \in Worlds
  BY DEF SoundWorld, Sound
<1>2. r = [w EXCEPT !.command = d]
  BY <1>1 DEF CreateFilter, Worlds
<1>3. /\ d \in Command /\ d.buffer = c.buffer /\ d.requestAttempts = c.requestAttempts
      /\ d.sendSuccess = c.sendSuccess /\ (d.wait <=> c.wait)
      /\ (IsBusy(d) <=> IsBusy(c)) /\ Continues(d, c)
  BY <1>1, ZenonT(40) DEF Command, Continues, SameObject, IsBusy
<1> HIDE DEF d, r
<1>4. r.command = d /\ r.transfer = w.transfer /\ r.queue = w.queue /\ r \in Worlds
  BY <1>1, <1>2, <1>3 DEF Worlds
<1>5. SoundWorld(r)
  BY <1>3, <1>4 DEF SoundWorld, Sound
<1>6. Listened(w) => Listened(r)
  BY <1>3, <1>4 DEF Listened
<1>7. QED BY <1>3, <1>4, <1>5, <1>6 DEF Goes, r

(* The transfer is started again, or its end is noticed.                   *)
LEMMA TransferWatched ==
  ASSUME NEW w, SoundWorld(w)
  PROVE  Goes(WatchTransfer(w), w)
<1> DEFINE c == w.command
           r == WatchTransfer(w)
           again == c.wait /\ (c.retry \/ c.sendSuccess = "SendAborted")
           done == c.wait /\ ~c.retry /\ c.sendSuccess = "SendSuccess"
<1>1. c \in Command /\ w \in Worlds
  BY DEF SoundWorld, Sound
<1>2. CASE again
  <2>1. r = SendMultiPacketTry(w)
    BY <1>2 DEF WatchTransfer
  <2>2. c.wait /\ c.buffer \in Request
    BY <1>2 DEF SoundWorld, Sound
  <2> HIDE DEF r
  <2>3. /\ SoundWorld(r) /\ (Listened(w) => Listened(r)) /\ Continues(r.command, c)
        /\ r.command.requestAttempts = c.requestAttempts /\ (IsBusy(r.command) <=> IsBusy(c))
    BY <2>1, <2>2, TriedToSend
  <2>4. QED BY <2>3 DEF Goes, r
<1>3. CASE ~again /\ done
  <2> DEFINE d == [c EXCEPT !.wait = FALSE, !.age = 0]
  <2>1. 0 \in -1..RepeatBusy+1
    BY FsCommandAssumption
  <2>2. r = [w EXCEPT !.command = d]
    BY <1>1, <1>3 DEF WatchTransfer, Worlds
  <2>3. /\ d \in Command /\ d.buffer = c.buffer /\ d.requestAttempts = c.requestAttempts
        /\ ~d.wait /\ (IsBusy(d) <=> IsBusy(c)) /\ Continues(d, c)
    BY <1>1, <2>1 DEF Command, Continues, SameObject, IsBusy
  <2> HIDE DEF d, r
  <2>4. r.command = d /\ r.transfer = w.transfer /\ r.queue = w.queue /\ r \in Worlds
    BY <1>1, <2>2, <2>3 DEF Worlds
  <2>5. SoundWorld(r)
    BY <2>3, <2>4 DEF SoundWorld, Sound
  <2>6. Listened(w) => Listened(r)
    BY <1>3, <2>3, <2>4 DEF Listened
  <2>7. QED BY <2>3, <2>4, <2>5, <2>6 DEF Goes, r
<1>4. CASE ~again /\ ~done
  <2>1. r = w
    BY <1>4 DEF WatchTransfer
  <2> HIDE DEF r
  <2>2. QED BY <2>1 DEF Goes, Continues, SameObject, r
<1>5. QED BY <1>2, <1>3, <1>4

(* A handler's object has nothing to ask for itself: it comes to its time-out as it *)
(* was.                                                                    *)
LEMMA HandlerBeforeTimeOut ==
  ASSUME NEW w, SoundWorld(w), ~w.command.initializing
  PROVE  Goes(BeforeTimeOut(w), w)
<1> DEFINE f == CreateFilter(w)
           v == WatchTransfer(f)
<1>1. Goes(f, w)
  BY FilterCreated
<1>2. SoundWorld(f)
  BY <1>1 DEF Goes
<1> HIDE DEF f
<1>3. Goes(v, f)
  BY <1>2, TransferWatched
<1> HIDE DEF v
<1>4. Goes(v, w)
  BY <1>1, <1>3, GoesOn
<1>5. ~v.command.initializing
  BY <1>4 DEF Goes, Continues, SameObject
<1>6. BeforeTimeOut(w) = v
  BY <1>5 DEF BeforeTimeOut, InitialQuery, v, f
<1>7. QED BY <1>4, <1>6

(* An initializing object asks for the properties, once.                   *)
LEMMA QueryBeforeTimeOut ==
  ASSUME NEW w, SoundWorld(w), w.command.initializing, w.command.id \in Nat
  PROVE  LET r == BeforeTimeOut(w) IN
         /\ SoundWorld(r) /\ SameObject(r.command, w.command)
         /\ r.command.queryStarted
         /\ w.command.queryStarted =>
              /\ r.command.lastCommand = w.command.lastCommand
              /\ IsBusy(r.command) <=> IsBusy(w.command)
         /\ ~w.command.queryStarted =>
              r.command.lastCommand = "requestProperties" /\ IsBusy(r.command)
<1> DEFINE f == CreateFilter(w)
           v == WatchTransfer(f)
           r == BeforeTimeOut(w)
<1>1. Goes(f, w)
  BY FilterCreated
<1>2. SoundWorld(f)
  BY <1>1 DEF Goes
<1>3. r = InitialQuery(v)
  BY DEF BeforeTimeOut
<1> HIDE DEF f, r
<1>4. Goes(v, f)
  BY <1>2, TransferWatched
<1> HIDE DEF v
<1>5. Goes(v, w)
  BY <1>1, <1>4, GoesOn
<1>6. /\ v.command.initializing /\ SoundWorld(v) /\ v.command.id \in Nat
      /\ SameObject(v.command, w.command)
      /\ v.command.lastCommand = w.command.lastCommand
      /\ (v.command.queryStarted <=> w.command.queryStarted)
      /\ (IsBusy(v.command) <=> IsBusy(w.command))
  BY <1>5 DEF Goes, Continues, SameObject
<1>7. CASE v.command.queryStarted
  <2>1. r = v
    BY <1>3, <1>7 DEF InitialQuery
  <2>2. QED BY <1>6, <1>7, <2>1 DEF r
<1>8. CASE ~v.command.queryStarted
  <2> DEFINE d == [v.command EXCEPT !.queryStarted = TRUE]
             u == [v EXCEPT !.command = d]
  <2>1. v.command \in Command /\ v \in Worlds
    BY <1>6 DEF SoundWorld, Sound
  <2>2. d \in Command /\ d.id = v.command.id /\ SameObject(d, v.command) /\ d.queryStarted
    BY <2>1 DEF Command, SameObject
  <2>3. r = Begin(u, "requestProperties", FALSE)
    BY <1>3, <1>6, <1>8, <2>1 DEF InitialQuery, Worlds
  <2> HIDE DEF d
  <2>4. u.command = d /\ u.transfer = v.transfer /\ u.queue = v.queue /\ u \in Worlds
    BY <2>1, <2>2 DEF Worlds
  <2> HIDE DEF u
  <2>5. SoundTransfer(u.transfer) /\ SoundQueue(u.queue) /\ u.command.id \in Nat
    BY <1>6, <2>2, <2>4 DEF SoundWorld
  <2>6. "requestProperties" \in Kind /\ FALSE \in BOOLEAN
    BY DEF Kind
  <2>7. /\ SoundWorld(r) /\ SameObject(r.command, u.command)
        /\ r.command.lastCommand = "requestProperties" /\ IsBusy(r.command)
        /\ (r.command.queryStarted <=> u.command.queryStarted)
    BY <2>3, <2>4, <2>5, <2>6, Begun
  <2>8. SameObject(r.command, w.command)
    BY <1>6, <2>2, <2>4, <2>7 DEF SameObject
  <2>9. QED BY <1>6, <1>8, <2>2, <2>4, <2>7, <2>8 DEF r
<1>9. QED BY <1>7, <1>8

(* The last assignment of a time event.                                    *)
LEMMA TaskDone ==
  ASSUME NEW w, SoundWorld(w)
  PROVE  Goes([w EXCEPT !.command.due = FALSE], w)
<1> DEFINE c == w.command
           d == [c EXCEPT !.due = FALSE]
           r == [w EXCEPT !.command = d]
<1>1. c \in Command /\ w \in Worlds
  BY DEF SoundWorld, Sound
<1>2. r = [w EXCEPT !.command.due = FALSE]
  BY <1>1 DEF Worlds
<1>3. /\ d \in Command /\ d.buffer = c.buffer /\ d.requestAttempts = c.requestAttempts
      /\ d.sendSuccess = c.sendSuccess /\ (d.wait <=> c.wait)
      /\ (IsBusy(d) <=> IsBusy(c)) /\ Continues(d, c)
  BY <1>1, ZenonT(40) DEF Command, Continues, SameObject, IsBusy
<1> HIDE DEF d
<1>4. r.command = d /\ r.transfer = w.transfer /\ r.queue = w.queue /\ r \in Worlds
  BY <1>1, <1>3 DEF Worlds
<1> HIDE DEF r
<1>5. SoundWorld(r)
  BY <1>3, <1>4 DEF SoundWorld, Sound
<1>6. Listened(w) => Listened(r)
  BY <1>3, <1>4 DEF Listened
<1>7. Goes(r, w)
  BY <1>3, <1>4, <1>5, <1>6 DEF Goes
<1>8. QED BY <1>2, <1>7

(* The time event of a client's command: it waits on, repeats or gives up. *)
LEMMA HandlerTimed ==
  ASSUME NEW w, SoundWorld(w), Listened(w), ~w.command.initializing,
         w.command.requestAttempts <= Attempts, NEW busy
  PROVE  LET r == TimeEvent(w, busy)
             up == GivesUp(BeforeTimeOut(w).command, busy) IN
         /\ SoundWorld(r) /\ Listened(r)
         /\ SameObject(r.command, w.command) /\ r.command.of = w.command.of
         /\ r.command.requestAttempts <= Attempts
         /\ up => IsBusy(w.command) /\ ~IsBusy(r.command) /\ r.command.lastCommand = NoCommand
         /\ ~up => /\ IsBusy(r.command) <=> IsBusy(w.command)
                   /\ r.command.lastCommand = w.command.lastCommand
<1> DEFINE b == BeforeTimeOut(w)
           v == RepeatOrGiveUp(b, busy)
           r == TimeEvent(w, busy)
           up == GivesUp(b.command, busy)
<1>1. Goes(b, w)
  BY HandlerBeforeTimeOut
<1> HIDE DEF b
<1>2. /\ SoundWorld(b) /\ Listened(b) /\ Continues(b.command, w.command)
      /\ (IsBusy(b.command) <=> IsBusy(w.command))
      /\ b.command.requestAttempts = w.command.requestAttempts
  BY <1>1 DEF Goes
<1>3. /\ SameObject(b.command, w.command) /\ b.command.of = w.command.of
      /\ b.command.lastCommand = w.command.lastCommand /\ ~b.command.initializing
  BY <1>2 DEF Continues, SameObject
<1>4. /\ SoundWorld(v) /\ Listened(v)
      /\ SameObject(v.command, w.command) /\ v.command.of = w.command.of
      /\ v.command.requestAttempts <= Attempts
      /\ up => IsBusy(w.command) /\ ~IsBusy(v.command) /\ v.command.lastCommand = NoCommand
      /\ ~up => /\ IsBusy(v.command) <=> IsBusy(w.command)
                /\ v.command.lastCommand = w.command.lastCommand
  <2>1. CASE up
    <3>1. v = FinishCommand(b) /\ IsBusy(b.command)
      BY <2>1 DEF RepeatOrGiveUp, GivesUp, TimedOut
    <3> HIDE DEF v, up
    <3>2. /\ SoundWorld(v) /\ Listened(v) /\ SameObject(v.command, b.command)
          /\ v.command.lastCommand = NoCommand /\ ~IsBusy(v.command)
          /\ v.command.of = b.command.of
          /\ v.command.requestAttempts = b.command.requestAttempts
      BY <1>2, <3>1, CommandEnded
    <3>3. SameObject(v.command, w.command)
      BY <1>3, <3>2 DEF SameObject
    <3>4. QED BY <1>2, <1>3, <2>1, <3>1, <3>2, <3>3
  <2>2. CASE ~up /\ TimedOut(b.command, busy)
    <3>1. v = SendRetry(b) /\ IsBusy(b.command)
      BY <2>2 DEF RepeatOrGiveUp, TimedOut
    <3>2. b.command.buffer \in Request /\ b.command.requestAttempts \in Int
      BY <1>2, <3>1 DEF SoundWorld, Sound, Command
    <3>3. b.command.requestAttempts < Attempts
      BY <1>3, <2>2, <3>2, FsCommandAssumption DEF GivesUp
    <3> HIDE DEF v, up
    <3>4. /\ SoundWorld(v) /\ Listened(v) /\ Continues(v.command, b.command)
          /\ v.command.requestAttempts <= Attempts /\ IsBusy(v.command)
      BY <1>2, <3>1, <3>2, <3>3, SentAgain
    <3>5. /\ SameObject(v.command, w.command) /\ v.command.of = b.command.of
          /\ v.command.lastCommand = b.command.lastCommand
      BY <1>3, <3>4 DEF Continues, SameObject
    <3>6. QED BY <1>2, <1>3, <2>2, <3>1, <3>4, <3>5
  <2>3. CASE ~up /\ ~TimedOut(b.command, busy)
    <3>1. v = b
      BY <2>3 DEF RepeatOrGiveUp
    <3> HIDE DEF v, up
    <3>2. QED BY <1>2, <1>3, <2>3, <3>1
  <2>4. QED BY <2>1, <2>2, <2>3
<1>5. r = [v EXCEPT !.command.due = FALSE]
  BY DEF TimeEvent, b
<1> HIDE DEF v, up, r
<1>6. Goes(r, v)
  BY <1>4, <1>5, TaskDone
<1>7. /\ SoundWorld(r) /\ Listened(r) /\ (IsBusy(r.command) <=> IsBusy(v.command))
      /\ r.command.requestAttempts = v.command.requestAttempts
      /\ Continues(r.command, v.command)
  BY <1>4, <1>6 DEF Goes
<1>8. /\ SameObject(r.command, w.command) /\ r.command.of = v.command.of
      /\ r.command.lastCommand = v.command.lastCommand
  BY <1>4, <1>7 DEF Continues, SameObject
<1>9. QED BY <1>4, <1>7, <1>8 DEF r, up, b

(* The time event of an initializing command: it never gives up.           *)
LEMMA QueryTimed ==
  ASSUME NEW w, SoundWorld(w), w.command.initializing, w.command.id \in Nat, NEW busy
  PROVE  LET r == TimeEvent(w, busy) IN
         /\ SoundWorld(r) /\ SameObject(r.command, w.command)
         /\ r.command.queryStarted
         /\ w.command.queryStarted =>
              /\ r.command.lastCommand = w.command.lastCommand
              /\ IsBusy(r.command) <=> IsBusy(w.command)
         /\ ~w.command.queryStarted =>
              r.command.lastCommand = "requestProperties" /\ IsBusy(r.command)
<1> DEFINE b == BeforeTimeOut(w)
           v == RepeatOrGiveUp(b, busy)
           r == TimeEvent(w, busy)
<1>1. /\ SoundWorld(b) /\ SameObject(b.command, w.command)
      /\ b.command.queryStarted
      /\ w.command.queryStarted =>
           /\ b.command.lastCommand = w.command.lastCommand
           /\ IsBusy(b.command) <=> IsBusy(w.command)
      /\ ~w.command.queryStarted =>
           b.command.lastCommand = "requestProperties" /\ IsBusy(b.command)
  BY QueryBeforeTimeOut
<1>2. r = [v EXCEPT !.command.due = FALSE]
  BY DEF TimeEvent
<1> HIDE DEF b
<1>3. ~GivesUp(b.command, busy)
  BY <1>1 DEF GivesUp, SameObject
<1>4. /\ SoundWorld(v) /\ Continues(v.command, b.command)
      /\ IsBusy(v.command) <=> IsBusy(b.command)
  <2>1. CASE TimedOut(b.command, busy)
    <3>1. v = SendRetry(b) /\ IsBusy(b.command)
      BY <1>3, <2>1 DEF RepeatOrGiveUp, TimedOut
    <3>2. b.command.buffer \in Request
      BY <1>1, <3>1 DEF SoundWorld, Sound
    <3> HIDE DEF v
    <3>3. SoundWorld(v) /\ Continues(v.command, b.command) /\ IsBusy(v.command)
      BY <1>1, <3>1, <3>2, SentAgain
    <3>4. QED BY <3>1, <3>3
  <2>2. CASE ~TimedOut(b.command, busy)
    <3>1. v = b
      BY <1>3, <2>2 DEF RepeatOrGiveUp
    <3> HIDE DEF v
    <3>2. QED BY <1>1, <3>1 DEF Continues, SameObject
  <2>3. QED BY <2>1, <2>2
<1> HIDE DEF v, r
<1>5. Goes(r, v)
  BY <1>2, <1>4, TaskDone
<1>6. /\ SoundWorld(r) /\ Continues(r.command, v.command)
      /\ IsBusy(r.command) <=> IsBusy(v.command)
  BY <1>5 DEF Goes
<1>7. /\ SameObject(r.command, w.command) /\ r.command.queryStarted
      /\ r.command.lastCommand = b.command.lastCommand
  BY <1>1, <1>4, <1>6 DEF Continues, SameObject
<1>8. QED BY <1>1, <1>4, <1>6, <1>7 DEF r

-----------------------------------------------------------------------------
(* Answers.                                                                *)

QueryKind == {"requestProperties", "openFile", "seekFile", "readFile", "closeFile"}

(* An answer ends the command of a client's object.                        *)
LEMMA HandlerAnswered ==
  ASSUME NEW w, SoundWorld(w), Listened(w), ~w.command.initializing, NEW answer
  PROVE  LET r == Answered(w, answer) IN
         /\ SoundWorld(r) /\ Listened(r)
         /\ SameObject(r.command, w.command) /\ r.command.of = w.command.of
         /\ r.command.requestAttempts = w.command.requestAttempts
         /\ r.command.lastCommand = NoCommand /\ ~IsBusy(r.command)
<1>1. Answered(w, answer) = FinishCommand(w)
  BY DEF Answered
<1>2. QED BY <1>1, CommandEnded

(* An initializing object goes on with its next request; its sequence ends with the *)
(* answer to closeFile, or with an answer in parts it does not expect.     *)
LEMMA QueryAnswered ==
  ASSUME NEW w, SoundWorld(w), w.command.initializing, w.command.id \in Nat,
         NEW answer
  PROVE  LET r == Answered(w, answer) IN
         /\ SoundWorld(r) /\ SameObject(r.command, w.command)
         /\ r.command.queryStarted <=> w.command.queryStarted
         /\ r.command.lastCommand \in QueryKind \union {NoCommand}
         /\ IsBusy(r.command)
              \/ (answer.parts /\ answer.kind # "readFile")
              \/ answer.kind \notin QueryKind \ {"closeFile"}
<1> DEFINE c == w.command
           f == FinishCommand(w)
           r == Answered(w, answer)
           Asks(v) ==
             /\ SoundWorld(v) /\ SameObject(v.command, c)
             /\ v.command.queryStarted <=> c.queryStarted
             /\ v.command.lastCommand \in QueryKind /\ IsBusy(v.command)
<1>1. /\ SoundWorld(f) /\ SameObject(f.command, c)
      /\ f.command.lastCommand = NoCommand /\ ~IsBusy(f.command)
      /\ f.command.queryStarted <=> c.queryStarted
  BY CommandEnded
<1> HIDE DEF f
<1>2. /\ f \in Worlds /\ SoundTransfer(f.transfer) /\ SoundQueue(f.queue)
      /\ f.command.id \in Nat
  BY <1>1 DEF SoundWorld, SameObject
<1>3. ASSUME NEW kind \in QueryKind PROVE Asks(Begin(f, kind, FALSE))
  <2>1. kind \in Kind /\ FALSE \in BOOLEAN
    BY <1>3 DEF Kind, QueryKind
  <2> DEFINE v == Begin(f, kind, FALSE)
  <2>2. /\ SoundWorld(v) /\ SameObject(v.command, f.command) /\ IsBusy(v.command)
        /\ v.command.lastCommand = kind
        /\ v.command.queryStarted <=> f.command.queryStarted
    BY <1>2, <2>1, Begun
  <2> HIDE DEF v
  <2>3. SameObject(v.command, c)
    BY <1>1, <2>2 DEF SameObject
  <2>4. Asks(v)
    BY <1>1, <1>3, <2>2, <2>3
  <2>5. QED BY <2>4 DEF v
<1>4. ASSUME NEW mode \in {0, 2} PROVE Asks(SeekFile(f, mode))
  <2> DEFINE d == [f.command EXCEPT !.positionMode = mode]
             u == [f EXCEPT !.command = d]
             v == Begin(u, "seekFile", FALSE)
  <2>1. f.command \in Command
    BY <1>1 DEF SoundWorld, Sound
  <2>2. SeekFile(f, mode) = v
    BY <1>2 DEF SeekFile, Worlds
  <2>3. /\ d \in Command /\ SameObject(d, f.command) /\ d.id = f.command.id
        /\ d.queryStarted <=> f.command.queryStarted
    BY <2>1 DEF Command, SameObject
  <2> HIDE DEF d
  <2>4. u.command = d /\ u.transfer = f.transfer /\ u.queue = f.queue /\ u \in Worlds
    BY <1>2, <2>3 DEF Worlds
  <2> HIDE DEF u
  <2>5. "seekFile" \in Kind /\ FALSE \in BOOLEAN /\ u.command.id \in Nat
    BY <1>2, <2>3, <2>4 DEF Kind
  <2>6. SoundTransfer(u.transfer) /\ SoundQueue(u.queue)
    BY <1>2, <2>4
  <2>7. /\ SoundWorld(v) /\ SameObject(v.command, u.command) /\ IsBusy(v.command)
        /\ v.command.lastCommand = "seekFile"
        /\ v.command.queryStarted <=> u.command.queryStarted
    BY <2>4, <2>5, <2>6, Begun
  <2> HIDE DEF v
  <2>8. SameObject(v.command, c)
    BY <1>1, <2>3, <2>4, <2>7 DEF SameObject
  <2>9. Asks(v)
    BY <1>1, <2>3, <2>4, <2>7, <2>8 DEF QueryKind
  <2>10. QED BY <2>2, <2>9
<1>5. CASE answer.parts /\ answer.kind # "readFile"
  <2>1. r = f
    BY <1>5 DEF Answered, f
  <2> HIDE DEF r
  <2>2. QED BY <1>1, <1>5, <2>1 DEF r
<1>6. CASE ~(answer.parts /\ answer.kind # "readFile")
  <2>1. r = NextOfInitialization(f, answer.kind)
    BY <1>6 DEF Answered, f
  <2>2. CASE answer.kind \in QueryKind \ {"closeFile"}
    <3>1. r = Begin(f, "openFile", FALSE) \/ r = Begin(f, "readFile", FALSE)
            \/ r = Begin(f, "closeFile", FALSE) \/ r = SeekFile(f, 2) \/ r = SeekFile(f, 0)
      BY <2>1, <2>2 DEF NextOfInitialization, QueryKind
    <3>2. "openFile" \in QueryKind /\ "readFile" \in QueryKind /\ "closeFile" \in QueryKind
      BY DEF QueryKind
    <3> HIDE DEF r, Asks
    <3>3. Asks(r)
      BY <1>3, <1>4, <3>1, <3>2
    <3>4. QED BY <3>3 DEF Asks, r
  <2>3. CASE answer.kind \notin QueryKind \ {"closeFile"}
    <3>1. r = f
      BY <2>1, <2>3 DEF NextOfInitialization, QueryKind
    <3> HIDE DEF r
    <3>2. QED BY <1>1, <2>3, <3>1 DEF r
  <2>4. QED BY <2>2, <2>3
<1>7. QED BY <1>5, <1>6

-----------------------------------------------------------------------------
(* The invariant.                                                          *)

Receptions == [answer : AnyBuffer, to : Nat \union {-1}, valid : BOOLEAN]

\* What the code's initialization sequence expects in parts.
Expected(parts) == parts \subseteq {"getCurrentDirectory", "readFile"}

\* A command of a client.
IsHandler(h, c) ==
  /\ Sound(h) /\ h.id = HandlerId /\ h.client = c /\ ~h.initializing
  /\ h.lastCommand \in Kind <=> IsBusy(h)
  /\ h.requestAttempts <= Attempts

\* What belongs to one client fits together.
GoodClient(c, parts, told, h, t, q, rec, o) ==
  /\ h \in Command /\ SoundTransfer(t) /\ SoundQueue(q)
  /\ h = NoHandler => t = NoTransfer /\ o = "none"
  /\ h # NoHandler => IsHandler(h, c)
  /\ t # NoTransfer => h.wait /\ h.sendSuccess = "Running"
  /\ o \in {"none", "asked", "told", "unheard"}
  /\ o = "asked" <=> IsBusy(h)
  /\ h.lastCommand = "getCurrentDirectory" => h.of = 1 /\ c \notin told
  /\ o = "unheard" => (h.of = 1 /\ c \notin told) \/ ~Expected(parts)
  /\ rec \in Receptions
  /\ rec # NoReception => rec.answer \in Request /\ rec.answer.kind \in parts

\* An initializing command.
GoodQuery(i, parts) ==
  /\ Sound(i) /\ i.initializing /\ i.id \in 1..2
  /\ i.queryStarted => i.lastCommand \in QueryKind \union {NoCommand}
  /\ i.queryStarted => IsBusy(i) \/ ~Expected(parts)

Links ==
  /\ handler \in [Client -> Command] /\ transfer \in [Client -> Transfers]
  /\ queue \in [Client -> Seq(Request)] /\ reception \in [Client -> Receptions]
  /\ outcome \in [Client -> {"none", "asked", "told", "unheard"}]
  /\ \A c \in Client : GoodClient(c, scenario.parts, ready, handler[c], transfer[c],
                                  queue[c], reception[c], outcome[c])

GoodQueries(q, parts) ==
  /\ q \in Seq(Command) /\ Len(q) <= 2
  /\ \A n \in 1..Len(q) : GoodQuery(q[n], parts)

ServerState == {"offline", "online", "usablePending", "usable", "unusable"}
Servers == [listed : BOOLEAN, busy : BOOLEAN, due : BOOLEAN, age : 0..StatusLost+1,
            state : ServerState]

\* The commands of q ask on behalf of client x.
OwnedBy(q, x) == \A n \in 1..Len(q) : q[n].client = x

\* The server's state, its initialization and what the clients know of it.
GoodServer(s, cs, q, kn, la, tw, orph) ==
  /\ s \in Servers /\ cs \in Seq(Client)
  /\ kn \subseteq Range(cs) /\ la \subseteq Client
  /\ s.state = "usable" => kn = Range(cs) \ la
  /\ s.state = "offline" => q = <<>>
  /\ s.state # "offline" => s.listed
  /\ s.state = "online" /\ cs # <<>> => (q = <<>> <=> orph)
  /\ q # <<>> => cs # <<>>
  /\ OwnedBy(q, Head(cs))
  /\ ~tw => Len(q) <= 1 /\ (q # <<>> => s.state = "online")

\* The server is usable, or a second initialization took it back from there.
Served(tw, s) ==
  s.state = "usable" \/ (tw /\ (s.listed => s.state \in {"usablePending", "unusable"}))

\* Who is connected is registered, to a usable server.
Connections ==
  \A c \in Client : Connected(c) => c \in Range(clients) /\ Served(twice, server)

Chosen == scenario \in Scenario /\ ready \subseteq Client
Queries == GoodQueries(initializing, scenario.parts)
Knowledge == GoodServer(server, clients, initializing, knows, late, twice, orphaned)

IInv == Chosen /\ Links /\ Queries /\ Knowledge /\ Connections

(* The absent handler is a command that never sent anything.              *)
LEMMA NoHandlerIs ==
  ASSUME NEW c \in Client
  PROVE  /\ NoHandler \in Command /\ ~IsBusy(NoHandler) /\ ~NoHandler.wait
         /\ NoHandler.lastCommand = NoCommand /\ NoHandler.of = 0 /\ NoHandler.id = -1
         /\ NoHandler.requestAttempts = 0 /\ NoHandler.buffer = EmptyBuffer
<1>1. (CHOOSE x \in Client : TRUE) \in Client
  OBVIOUS
<1> DEFINE x == CHOOSE d \in Client : TRUE
<1>2. x \in Client
  BY <1>1
<1> HIDE DEF x
<1>3. NoHandler = NewCommand(-1, x, FALSE, NoCommand)
  BY DEF NoHandler, x
<1>4. /\ -1 \in -1..RepeatBusy+1 /\ 0 \in 0..Attempts+1 /\ 0 \in 0..TanRange-1
      /\ -1 \in Nat \union {-1}
  BY FsCommandAssumption DEF TanRange
<1>5. NewCommand(-1, x, FALSE, NoCommand) \in Command
  BY <1>2, <1>4 DEF NewCommand, Command, Unset, AnyBuffer
<1>6. QED BY <1>3, <1>5 DEF NewCommand, IsBusy

(* No transfer is a sound one.                                             *)
LEMMA NoTransferIs ==
  NoTransfer \in Transfers /\ SoundTransfer(NoTransfer)
<1>1. 0 \in 0..Attempts+1
  BY FsCommandAssumption
<1>2. QED BY <1>1 DEF NoTransfer, Transfers, SoundTransfer, AnyBuffer

(* No reception is one.                                                    *)
LEMMA NoReceptionIs ==
  NoReception \in Receptions
BY DEF NoReception, Receptions, AnyBuffer

(* A new initializing command.                                             *)
LEMMA NewQueryIs ==
  ASSUME NEW id \in 1..2, NEW c \in Client, NEW garbage \in Kind \union {NoCommand}, NEW parts
  PROVE  GoodQuery(NewCommand(id, c, TRUE, garbage), parts)
<1> DEFINE n == NewCommand(id, c, TRUE, garbage)
<1>1. -1 \in -1..RepeatBusy+1 /\ 0 \in 0..Attempts+1 /\ 0 \in 0..TanRange-1
  BY FsCommandAssumption DEF TanRange
<1>2. /\ n \in Command /\ ~IsBusy(n) /\ ~n.wait /\ ~n.queryStarted
      /\ n.id = id /\ n.initializing
  BY <1>1 DEF NewCommand, Command, Unset, AnyBuffer, IsBusy
<1> HIDE DEF n
<1>3. GoodQuery(n, parts)
  BY <1>2 DEF GoodQuery, Sound
<1>4. QED BY <1>3 DEF n

(* The invariant says what the properties ask for.                         *)
LEMMA InvariantImplies ==
  ASSUME IInv
  PROVE  CommandsConsistent /\ ServerKnowledge
<1>1. Chosen /\ Links /\ Queries /\ Knowledge /\ Connections
  BY DEF IInv
<1>2. ASSUME NEW c \in Client
      PROVE  GoodClient(c, scenario.parts, ready, handler[c], transfer[c],
                        queue[c], reception[c], outcome[c])
  BY <1>1 DEF Links
<1>3. ASSUME NEW n \in 1..Len(initializing)
      PROVE  GoodQuery(initializing[n], scenario.parts)
  BY <1>1 DEF Queries, GoodQueries
<1>4. /\ initializing \in Seq(Command) /\ Len(initializing) <= 2
      /\ Range(initializing) = {initializing[n] : n \in 1..Len(initializing)}
  BY <1>1 DEF Queries, GoodQueries, Range
<1>5. ASSUME NEW i \in Commanders
      PROVE  /\ i \in Command
             /\ i.requestAttempts \in 0..Attempts \/ i.initializing
  <2>1. CASE i \in Range(initializing)
    <3>1. PICK n \in 1..Len(initializing) : i = initializing[n]
      BY <1>4, <2>1
    <3>2. QED BY <1>3, <3>1 DEF GoodQuery, Sound
  <2>2. CASE i \in {handler[c] : c \in Client}
    <3>1. PICK c \in Client : i = handler[c]
      BY <2>2
    <3>2. CASE i = NoHandler
      BY <3>2, NoHandlerIs, FsCommandAssumption
    <3>3. CASE i # NoHandler
      <4>1. IsHandler(i, c)
        BY <1>2, <3>1, <3>3 DEF GoodClient
      <4>2. i \in Command /\ i.requestAttempts <= Attempts
        BY <4>1 DEF IsHandler, Sound
      <4>3. i.requestAttempts \in 0..Attempts+1
        BY <4>2 DEF Command
      <4>4. QED BY <4>2, <4>3, FsCommandAssumption
    <3>4. QED BY <3>2, <3>3
  <2>3. QED BY <2>1, <2>2 DEF Commanders
<1>6. TypeOK
  <2>1. scenario \in Scenario /\ ready \subseteq Client
    BY <1>1 DEF Chosen
  <2>2. /\ server \in Servers /\ clients \in Seq(Client)
        /\ knows \subseteq Range(clients) /\ late \subseteq Client
    BY <1>1 DEF Knowledge, GoodServer
  <2>3. Range(clients) \subseteq Client
    BY <2>2 DEF Range
  <2>4. server \in [listed : BOOLEAN, busy : BOOLEAN, due : BOOLEAN, age : 0..StatusLost+1,
          state : {"offline", "online", "usablePending", "usable", "unusable"}]
    BY <2>2 DEF Servers, ServerState
  <2>5. ASSUME NEW i \in Commanders
        PROVE /\ i.client \in Client
              /\ i.lastCommand \in Kind \union {NoCommand}
              /\ i.tan \in 0..TanRange-1
              /\ i.age \in -1..RepeatBusy+1
              /\ i.requestAttempts \in 0..Attempts \/ i.initializing
              /\ i.buffer \in Request \union {EmptyBuffer}
              /\ i.sendSuccess \in {"Running", "SendSuccess", "SendAborted"}
    BY <1>5 DEF Command, AnyBuffer
  <2>6. ASSUME NEW c \in Client
        PROVE /\ Len(queue[c]) <= ServerQueue
              /\ \A n \in DOMAIN queue[c] : queue[c][n] \in Request
              /\ transfer[c].head \in Request \union {EmptyBuffer}
              /\ outcome[c] \in {"none", "asked", "told", "toldTwice", "unheard", "overrun"}
    <3>1. /\ SoundTransfer(transfer[c]) /\ SoundQueue(queue[c])
          /\ outcome[c] \in {"none", "asked", "told", "unheard"}
      BY <1>2 DEF GoodClient
    <3>2. QED BY <3>1 DEF SoundTransfer, SoundQueue, Transfers, AnyBuffer
  <2>7. knows \union late \union ready \subseteq Client
    BY <2>1, <2>2, <2>3
  <2>8. QED BY <1>4, <2>1, <2>2, <2>4, <2>5, <2>6, <2>7 DEF TypeOK
<1>7. TransferHasListener
  <2>1. ASSUME NEW c \in Client, transfer[c] # NoTransfer
        PROVE  Connected(c) /\ handler[c].wait
    BY <1>2, <2>1 DEF GoodClient, Connected
  <2>2. QED BY <2>1 DEF TransferHasListener
<1>8. EndsOnce
  <2>1. ASSUME NEW c \in Client
        PROVE  /\ outcome[c] \notin {"toldTwice", "overrun"}
               /\ Connected(c) => (outcome[c] = "asked" <=> IsBusy(handler[c]))
               /\ outcome[c] = "unheard" =>
                    \/ handler[c].of = 1 /\ c \notin ready
                    \/ ~(scenario.parts \subseteq {"getCurrentDirectory", "readFile"})
    BY <1>2 DEF GoodClient, Expected
  <2>2. QED BY <2>1 DEF EndsOnce
<1>9. ConnectedToUsable
  BY <1>1 DEF ConnectedToUsable, Connections, Served, Knowledge, GoodServer
<1>10. UsableIsKnown
  BY <1>1 DEF UsableIsKnown, Knowledge, GoodServer
<1>11. InitializationRuns
  <2>1. server.state = "online" /\ clients # <<>> => (initializing = <<>> <=> orphaned)
    BY <1>1 DEF Knowledge, GoodServer
  <2>2. ASSUME NEW i \in Range(initializing), i.queryStarted
        PROVE  IsBusy(i) \/ ~(scenario.parts \subseteq {"getCurrentDirectory", "readFile"})
    <3>1. PICK n \in 1..Len(initializing) : i = initializing[n]
      BY <1>4
    <3>2. QED BY <1>3, <2>2, <3>1 DEF GoodQuery, Expected
  <2>3. ASSUME NEW i \in Range(initializing)
        PROVE  clients # <<>> /\ i.client = Head(clients)
    <3>1. PICK n \in 1..Len(initializing) : i = initializing[n]
      BY <1>4
    <3>2. initializing # <<>>
      BY <1>4, <3>1
    <3>3. QED BY <1>1, <3>1, <3>2 DEF Knowledge, GoodServer, OwnedBy
  <2>4. QED BY <2>1, <2>2, <2>3 DEF InitializationRuns
<1>12. QED BY <1>6, <1>7, <1>8, <1>9, <1>10, <1>11 DEF CommandsConsistent, ServerKnowledge

(* The initial states satisfy the invariant.                               *)
LEMMA Initially ==
  ASSUME Init
  PROVE  IInv
<1>1. scenario \in Scenario /\ clients = scenario.first /\ initializing = <<>>
  BY DEF Init
<1>2. clients \in Seq(Client)
  BY <1>1, FsClientAssumption DEF IsScenario
<1>3. Chosen
  BY DEF Init, Chosen
<1>4. Links
  <2>1. ASSUME NEW c \in Client
        PROVE  /\ handler[c] = NoHandler /\ transfer[c] = NoTransfer /\ queue[c] = <<>>
               /\ reception[c] = NoReception /\ outcome[c] = "none"
    BY DEF Init
  <2>2. ASSUME NEW c \in Client
        PROVE  GoodClient(c, scenario.parts, ready, NoHandler, NoTransfer, <<>>,
                          NoReception, "none")
    <3>1. SoundQueue(<<>>)
      BY FsCommandAssumption DEF SoundQueue
    <3>2. QED BY <3>1, NoHandlerIs, NoTransferIs, NoReceptionIs DEF GoodClient, NoCommand
  <2>3. ASSUME NEW c \in Client
        PROVE  GoodClient(c, scenario.parts, ready, handler[c], transfer[c], queue[c],
                          reception[c], outcome[c])
    BY <2>1, <2>2
  <2>4. /\ handler \in [Client -> Command] /\ transfer \in [Client -> Transfers]
        /\ queue \in [Client -> Seq(Request)] /\ reception \in [Client -> Receptions]
        /\ outcome \in [Client -> {"none", "asked", "told", "unheard"}]
    BY NoHandlerIs, NoTransferIs, NoReceptionIs DEF Init
  <2>5. QED BY <2>3, <2>4 DEF Links
<1>5. Queries
  BY <1>1 DEF Queries, GoodQueries
<1>6. Knowledge
  <2>1. server \in Servers /\ server.state = "offline"
    BY FsClientAssumption DEF Init, Servers, ServerState
  <2>2. knows = {} /\ late = {} /\ ~twice
    BY DEF Init
  <2>3. Len(initializing) = 0 /\ OwnedBy(initializing, Head(clients))
    BY <1>1 DEF OwnedBy
  <2>4. QED BY <1>1, <1>2, <2>1, <2>2, <2>3 DEF Knowledge, GoodServer
<1>7. Connections
  BY DEF Connections, Init, Connected
<1>8. QED BY <1>3, <1>4, <1>5, <1>6, <1>7 DEF IInv

-----------------------------------------------------------------------------
(* An answer in one frame, offered to the initializing commands.           *)

Offers == [commands : Seq(Command), queue : Seq(Request), state : ServerState, gone : SUBSET Nat]

\* After the answer was offered to k commands of client x and a server in state s.
Offered(acc, k, s, parts, x) ==
  /\ acc \in Offers /\ SoundQueue(acc.queue) /\ OwnedBy(acc.commands, x)
  /\ \A n \in 1..Len(acc.commands) : GoodQuery(acc.commands[n], parts)
  /\ acc.gone = {} => Len(acc.commands) = k /\ acc.state = s
  /\ acc.gone # {} => Len(acc.commands) < k /\ acc.state \in {"usablePending", "unusable"}

(* One more initializing command hears of the answer.                      *)
LEMMA OfferKept ==
  ASSUME NEW acc, NEW k \in Nat, NEW s \in ServerState, NEW parts, NEW x,
         Offered(acc, k, s, parts, x),
         NEW r \in Request, NEW c, NEW i, GoodQuery(i, parts), i.client = x
  PROVE  Offered(Offer(r, c, acc, i), k + 1, s, parts, x)
<1> DEFINE a == Offer(r, c, acc, i)
           p == Single(r)
           passes == i.client # c \/ ~TakesAnswer(i, p)
           ends == Finished(i, p, scenario.supported)
<1>1. /\ i \in Command /\ acc \in Offers /\ acc.commands \in Seq(Command)
      /\ acc.queue \in Seq(Request) /\ SoundQueue(acc.queue)
  BY DEF GoodQuery, Sound, Offered, Offers
<1>2. ASSUME NEW d, GoodQuery(d, parts), d.client = x
      PROVE  LET q == Append(acc.commands, d) IN
             /\ q \in Seq(Command) /\ Len(q) = Len(acc.commands) + 1
             /\ \A n \in 1..Len(q) : GoodQuery(q[n], parts)
             /\ OwnedBy(q, x)
  <2>1. d \in Command
    BY <1>2 DEF GoodQuery, Sound
  <2> DEFINE q == Append(acc.commands, d)
  <2>2. /\ q \in Seq(Command) /\ Len(q) = Len(acc.commands) + 1 /\ q[Len(q)] = d
        /\ \A n \in 1..Len(acc.commands) : q[n] = acc.commands[n]
    BY <1>1, <2>1
  <2> HIDE DEF q
  <2>3. ASSUME NEW n \in 1..Len(q) PROVE GoodQuery(q[n], parts) /\ q[n].client = x
    <3>1. CASE n = Len(q)
      BY <1>2, <2>2, <3>1
    <3>2. CASE n # Len(q)
      <4>1. n \in 1..Len(acc.commands)
        BY <1>1, <2>2, <3>2
      <4>2. QED BY <2>2, <4>1 DEF Offered, OwnedBy
    <3>3. QED BY <3>1, <3>2
  <2>4. OwnedBy(q, x) /\ \A n \in 1..Len(q) : GoodQuery(q[n], parts)
    BY <2>3 DEF OwnedBy
  <2>5. QED BY <2>2, <2>4 DEF q
<1>3. Len(acc.commands) \in Nat
  BY <1>1
<1>4. CASE passes
  <2> DEFINE q == Append(acc.commands, i)
  <2>1. a = [acc EXCEPT !.commands = q]
    BY <1>4 DEF Offer
  <2>2. /\ q \in Seq(Command) /\ Len(q) = Len(acc.commands) + 1
        /\ \A n \in 1..Len(q) : GoodQuery(q[n], parts)
        /\ OwnedBy(q, x)
    BY <1>2
  <2> HIDE DEF q, a
  <2>3. /\ a \in Offers /\ a.commands = q /\ a.queue = acc.queue
        /\ a.state = acc.state /\ a.gone = acc.gone
    BY <1>1, <2>1, <2>2 DEF Offers
  <2>4. Offered(a, k + 1, s, parts, x)
    BY <1>1, <1>3, <2>2, <2>3 DEF Offered
  <2>5. QED BY <2>4 DEF a
<1>5. CASE ~passes /\ ends
  <2> DEFINE st == ServerAfter(i, p, scenario.supported)
  <2>1. a = [acc EXCEPT !.state = st, !.gone = acc.gone \union {i.id}]
    BY <1>1, <1>5 DEF Offer, Offers
  <2>2. st \in {"usablePending", "unusable"}
    BY <1>5 DEF Finished, ServerAfter
  <2>3. i.id \in Nat /\ acc.gone \subseteq Nat
    BY <1>1 DEF GoodQuery, Offers
  <2> HIDE DEF st, a
  <2>4. /\ a \in Offers /\ a.commands = acc.commands /\ a.queue = acc.queue
        /\ a.state = st /\ a.gone # {}
    BY <1>1, <2>1, <2>2, <2>3 DEF Offers, ServerState
  <2>5. Len(acc.commands) <= k
    BY <1>3 DEF Offered
  <2>6. Offered(a, k + 1, s, parts, x)
    BY <1>1, <1>3, <2>2, <2>4, <2>5 DEF Offered
  <2>7. QED BY <2>6 DEF a
<1>6. CASE ~passes /\ ~ends
  <2> DEFINE v == World(i, acc.queue, NoTransfer)
             w == Answered(v, p)
             d == w.command
             q == Append(acc.commands, d)
  <2>1. a = [acc EXCEPT !.commands = q, !.queue = w.queue]
    BY <1>1, <1>6 DEF Offer, Offers
  <2>2. v.command = i /\ SoundWorld(v)
    BY <1>1, NoTransferIs DEF World, SoundWorld, Worlds, GoodQuery
  <2>3. i.initializing /\ i.id \in Nat
    BY DEF GoodQuery
  <2> HIDE DEF v
  <2>4. /\ SoundWorld(w) /\ SameObject(d, i)
        /\ d.queryStarted <=> i.queryStarted
        /\ d.lastCommand \in QueryKind \union {NoCommand}
        /\ IsBusy(d) \/ (p.parts /\ p.kind # "readFile") \/ p.kind \notin QueryKind \ {"closeFile"}
    BY <2>2, <2>3, QueryAnswered
  <2>5. /\ ~p.parts /\ p.kind = r.kind /\ r.kind \in Kind
        /\ r.kind = i.lastCommand /\ r.kind # "closeFile"
    <3>1. r.kind \in Kind
      BY DEF Request
    <3>2. p.kind = i.lastCommand
      BY <1>6 DEF TakesAnswer
    <3>3. p.kind # "closeFile"
      BY <1>6, <2>3 DEF Finished, ServerAfter
    <3>4. QED BY <3>1, <3>2, <3>3 DEF Single
  <2> HIDE DEF w, d, p
  <2>6. d.queryStarted => IsBusy(d)
    <3>1. i.queryStarted => i.lastCommand \in QueryKind
      BY <2>5 DEF GoodQuery, Kind, NoCommand
    <3>2. QED BY <2>4, <2>5, <3>1
  <2>7. GoodQuery(d, parts)
    <3>1. d.initializing /\ d.id \in 1..2
      BY <2>4 DEF SameObject, GoodQuery
    <3>2. Sound(d)
      BY <2>4 DEF SoundWorld, d
    <3>3. QED BY <2>4, <2>6, <3>1, <3>2 DEF GoodQuery
  <2>8. /\ q \in Seq(Command) /\ Len(q) = Len(acc.commands) + 1
        /\ \A n \in 1..Len(q) : GoodQuery(q[n], parts)
        /\ OwnedBy(q, x)
    <3>1. d.client = x
      BY <2>4 DEF SameObject
    <3>2. QED BY <1>2, <2>7, <3>1
  <2>9. SoundQueue(w.queue) /\ w.queue \in Seq(Request)
    BY <2>4 DEF SoundWorld, SoundQueue
  <2> HIDE DEF q, a
  <2>10. /\ a \in Offers /\ a.commands = q /\ a.queue = w.queue
         /\ a.state = acc.state /\ a.gone = acc.gone
    BY <1>1, <2>1, <2>8, <2>9 DEF Offers
  <2>11. Offered(a, k + 1, s, parts, x)
    BY <1>3, <2>8, <2>9, <2>10 DEF Offered
  <2>12. QED BY <2>11 DEF a
<1>7. QED BY <1>4, <1>5, <1>6

(* What comes of an answer that was offered to all.                        *)
LEMMA OfferedToAllIs ==
  ASSUME GoodQueries(initializing, scenario.parts), server.state \in ServerState,
         NEW c \in Client, NEW r \in Request, queue[c] # <<>>, SoundQueue(queue[c]),
         NEW x, OwnedBy(initializing, x)
  PROVE  Offered(OfferedToAll(r, c), Len(initializing), server.state, scenario.parts, x)
<1> DEFINE N == Len(initializing)
           s == server.state
           parts == scenario.parts
           none == [commands |-> <<>>, queue |-> Tail(queue[c]), state |-> s, gone |-> {}]
           step(g, k) == IF k = 0 THEN none ELSE Offer(r, c, g[k - 1], initializing[k])
           acc == CHOOSE g : g = [k \in 0..N |-> step(g, k)]
<1>1. N \in Nat /\ initializing \in Seq(Command) /\ s \in ServerState
      /\ \A k \in 1..N : GoodQuery(initializing[k], parts) /\ initializing[k].client = x
  BY DEF GoodQueries, OwnedBy
<1>2. OfferedToAll(r, c) = acc[N]
  BY DEF OfferedToAll
<1> HIDE DEF none
<1>3. \E g : g = [k \in 0..N |-> step(g, k)]
  <2> DEFINE T == {b \in Nat : \E g : g = [k \in 0..b |-> step(g, k)]}
  <2>1. 0 \in T
    <3> DEFINE g == [k \in 0..0 |-> none]
    <3>1. \A k \in 0..0 : step(g, k) = none
      OBVIOUS
    <3>2. g = [k \in 0..0 |-> step(g, k)]
      BY <3>1
    <3>3. QED BY <3>2
  <2>2. ASSUME NEW b \in 0..(N - 1), b \in T PROVE b + 1 \in T
    <3>1. PICK g : g = [k \in 0..b |-> step(g, k)]
      BY <2>2
    <3> HIDE DEF step
    <3> DEFINE h == [k \in 0..(b + 1) |-> IF k = b + 1 THEN step(g, k) ELSE g[k]]
    <3>2. \A k \in 0..b : h[k] = g[k]
      BY <1>1
    <3>3. \A k \in 0..(b + 1) : step(h, k) = step(g, k)
      <4> HIDE DEF h
      <4>1. QED BY <3>2, <1>1 DEF step
    <3>4. \A k \in 0..(b + 1) : h[k] = step(h, k)
      <4>1. \A k \in 0..b : g[k] = step(g, k)
        BY <3>1
      <4>2. QED BY <3>3, <4>1, <1>1
    <3>5. h = [k \in 0..(b + 1) |-> step(h, k)]
      BY <3>4
    <3>6. b + 1 \in Nat
      BY <1>1
    <3>7. QED BY <3>5, <3>6
  <2> HIDE DEF T
  <2>3. 0..N \subseteq T
    BY <2>1, <2>2, <1>1, UpTo
  <2>4. N \in T
    BY <2>3, <1>1
  <2>5. QED BY <2>4 DEF T
<1>4. acc = [k \in 0..N |-> step(acc, k)]
  <2> HIDE DEF step, N
  <2>1. QED BY <1>3, Zenon
<1>5. /\ acc[0] = none
      /\ \A k \in 1..N : acc[k] = Offer(r, c, acc[k - 1], initializing[k])
  <2> HIDE DEF acc
  <2>1. \A k \in 0..N : acc[k] = step(acc, k)
    BY <1>4
  <2>2. QED BY <2>1, <1>1
<1> DEFINE Done == {k \in 0..N : Offered(acc[k], k, s, parts, x)}
<1> HIDE DEF step, acc, N, s, parts
<1>6. 0 \in Done
  <2> DEFINE q == Tail(queue[c])
  <2>1. SoundQueue(q) /\ q \in Seq(Request)
    <3>1. SoundQueue(q)
      BY TakenFromQueue
    <3>2. QED BY <3>1 DEF SoundQueue
  <2> HIDE DEF q
  <2>2. none = [commands |-> <<>>, queue |-> q, state |-> s, gone |-> {}]
    BY DEF none, q
  <2>3. none \in Offers
    BY <1>1, <2>1, <2>2 DEF Offers
  <2>4. /\ none.commands = <<>> /\ none.queue = q /\ none.state = s /\ none.gone = {}
    BY <2>2
  <2>5. Offered(none, 0, s, parts, x)
    <3>1. Len(none.commands) = 0
      BY <2>4
    <3>2. QED BY <2>1, <2>3, <2>4, <3>1 DEF Offered, OwnedBy
  <2>6. QED BY <1>1, <1>5, <2>5
<1>7. ASSUME NEW k \in 0..(N - 1), k \in Done PROVE k + 1 \in Done
  <2>1. k + 1 \in 1..N /\ k \in Nat /\ (k + 1) - 1 = k
    BY <1>1
  <2>2. acc[k + 1] = Offer(r, c, acc[k], initializing[k + 1])
    BY <1>5, <2>1
  <2>3. /\ Offered(acc[k], k, s, parts, x)
        /\ GoodQuery(initializing[k + 1], parts) /\ initializing[k + 1].client = x
    BY <1>1, <1>7, <2>1
  <2> HIDE DEF Done
  <2>4. Offered(Offer(r, c, acc[k], initializing[k + 1]), k + 1, s, parts, x)
    BY <1>1, <2>1, <2>3, OfferKept
  <2>5. QED BY <2>1, <2>2, <2>4, <1>1 DEF Done
<1>8. N \in Done
  <2> HIDE DEF Done
  <2>1. 0..N \subseteq Done
    BY <1>6, <1>7, <1>1, UpTo
  <2>2. QED BY <2>1, <1>1
<1>9. Offered(acc[N], N, s, parts, x)
  BY <1>8
<1>10. QED BY <1>2, <1>9 DEF N, s, parts

-----------------------------------------------------------------------------
(* Steps of one client's link.                                             *)

Same(f, c) == [f EXCEPT ![c] = f[c]]

(* Nothing changed at c.                                                   *)
LEMMA SameIs ==
  ASSUME NEW S, NEW f \in [Client -> S], NEW c \in Client
  PROVE  Same(f, c) = f
BY DEF Same

(* A step of one client's link, with all else unchanged, keeps the invariant if what *)
(* belongs to the client still fits together.                              *)
LEMMA OneClient ==
  ASSUME IInv, NEW c \in Client, NEW h, NEW t, NEW q, NEW rec, NEW o,
         UNCHANGED <<scenario, serverVars, clientVars>>,
         handler' = [handler EXCEPT ![c] = h], transfer' = [transfer EXCEPT ![c] = t],
         queue' = [queue EXCEPT ![c] = q], reception' = [reception EXCEPT ![c] = rec],
         outcome' = [outcome EXCEPT ![c] = o],
         ready' \subseteq Client, \A d \in Client \ {c} : d \in ready' => d \in ready,
         GoodClient(c, scenario.parts, ready', h, t, q, rec, o),
         h # NoHandler => Connected(c) \/ (c \in Range(clients) /\ server.state = "usable")
  PROVE  IInv'
<1>1. Chosen /\ Links /\ Queries /\ Knowledge /\ Connections
  BY DEF IInv
<1>2. /\ scenario' = scenario /\ server' = server /\ clients' = clients
      /\ initializing' = initializing /\ knows' = knows /\ late' = late
      /\ twice' = twice /\ orphaned' = orphaned
  BY DEF serverVars, clientVars
<1>3. /\ handler \in [Client -> Command] /\ transfer \in [Client -> Transfers]
      /\ queue \in [Client -> Seq(Request)] /\ reception \in [Client -> Receptions]
      /\ outcome \in [Client -> {"none", "asked", "told", "unheard"}]
  BY <1>1 DEF Links
<1>4. /\ handler'[c] = h /\ transfer'[c] = t /\ queue'[c] = q /\ reception'[c] = rec
      /\ outcome'[c] = o
  BY <1>3
<1>5. ASSUME NEW d \in Client \ {c}
      PROVE  /\ handler'[d] = handler[d] /\ transfer'[d] = transfer[d]
             /\ queue'[d] = queue[d] /\ reception'[d] = reception[d]
             /\ outcome'[d] = outcome[d]
  BY <1>3
<1>6. Links'
  <2>1. /\ h \in Command /\ t \in Transfers /\ q \in Seq(Request) /\ rec \in Receptions
        /\ o \in {"none", "asked", "told", "unheard"}
    BY DEF GoodClient, SoundTransfer, SoundQueue
  <2>2. /\ handler' \in [Client -> Command] /\ transfer' \in [Client -> Transfers]
        /\ queue' \in [Client -> Seq(Request)] /\ reception' \in [Client -> Receptions]
        /\ outcome' \in [Client -> {"none", "asked", "told", "unheard"}]
    BY <1>3, <2>1
  <2>3. ASSUME NEW d \in Client
        PROVE  GoodClient(d, scenario'.parts, ready', handler'[d], transfer'[d], queue'[d],
                          reception'[d], outcome'[d])
    <3>1. CASE d = c
      BY <1>2, <1>4, <3>1
    <3>2. CASE d # c
      <4>1. GoodClient(d, scenario.parts, ready, handler[d], transfer[d], queue[d],
                       reception[d], outcome[d])
        BY <1>1 DEF Links
      <4>2. GoodClient(d, scenario.parts, ready', handler[d], transfer[d], queue[d],
                       reception[d], outcome[d])
        BY <3>2, <4>1 DEF GoodClient
      <4>3. QED BY <1>2, <1>5, <3>2, <4>2
    <3>3. QED BY <3>1, <3>2
  <2>4. QED BY <2>2, <2>3 DEF Links
<1>7. Connections'
  <2>1. ASSUME NEW d \in Client, handler'[d] # NoHandler
        PROVE  d \in Range(clients) /\ Served(twice, server)
    <3>1. CASE d = c
      BY <1>1, <1>4, <2>1, <3>1 DEF Connections, Connected, Served
    <3>2. CASE d # c
      BY <1>1, <1>5, <2>1, <3>2 DEF Connections, Connected
    <3>3. QED BY <3>1, <3>2
  <2>2. QED BY <1>2, <2>1 DEF Connections, Connected
<1>8. Chosen'
  BY <1>1, <1>2 DEF Chosen
<1>9. Queries'
  BY <1>1, <1>2 DEF Queries
<1>10. Knowledge'
  BY <1>1, <1>2 DEF Knowledge
<1>11. QED BY <1>6, <1>7, <1>8, <1>9, <1>10 DEF IInv

(* What the invariant says of a client.                                    *)
LEMMA ClientIs ==
  ASSUME IInv, NEW c \in Client
  PROVE  /\ GoodClient(c, scenario.parts, ready, handler[c], transfer[c], queue[c],
                       reception[c], outcome[c])
         /\ Same(handler, c) = handler /\ Same(transfer, c) = transfer
         /\ Same(queue, c) = queue /\ Same(reception, c) = reception
         /\ Same(outcome, c) = outcome /\ ready \subseteq Client
<1>1. Links /\ Chosen
  BY DEF IInv
<1>2. QED BY <1>1, SameIs DEF Links, Chosen

(* The world of a connected client.                                        *)
LEMMA HandlerWorldIs ==
  ASSUME IInv, NEW c \in Client, Connected(c)
  PROVE  LET w == HandlerWorld(c) IN
         /\ w.command = handler[c] /\ w.transfer = transfer[c] /\ w.queue = queue[c]
         /\ SoundWorld(w) /\ Listened(w) /\ IsHandler(handler[c], c)
<1> DEFINE w == HandlerWorld(c)
<1>1. GoodClient(c, scenario.parts, ready, handler[c], transfer[c], queue[c],
                 reception[c], outcome[c])
  BY ClientIs
<1>2. /\ IsHandler(handler[c], c) /\ SoundTransfer(transfer[c]) /\ SoundQueue(queue[c])
      /\ transfer[c] # NoTransfer => handler[c].wait /\ handler[c].sendSuccess = "Running"
  BY <1>1 DEF GoodClient, Connected
<1>3. Sound(handler[c]) /\ handler[c] \in Command
  BY <1>2 DEF IsHandler, Sound
<1>4. transfer[c] \in Transfers /\ queue[c] \in Seq(Request)
  BY <1>2 DEF SoundTransfer, SoundQueue
<1>5. w = [command |-> handler[c], queue |-> queue[c], transfer |-> transfer[c]]
  BY DEF HandlerWorld, World
<1>6. w.command = handler[c] /\ w.transfer = transfer[c] /\ w.queue = queue[c] /\ w \in Worlds
  BY <1>3, <1>4, <1>5 DEF Worlds
<1> HIDE DEF w
<1>7. SoundWorld(w) /\ Listened(w)
  BY <1>2, <1>3, <1>6 DEF SoundWorld, Listened
<1>8. QED BY <1>2, <1>6, <1>7 DEF w

(* A sound world with the command of client c.                             *)
LEMMA HandlerGood ==
  ASSUME NEW w, SoundWorld(w), Listened(w), NEW c, NEW parts, NEW told, NEW rec, NEW o,
         w.command # NoHandler, IsHandler(w.command, c),
         o \in {"none", "asked", "told", "unheard"},
         o = "asked" <=> IsBusy(w.command),
         w.command.lastCommand = "getCurrentDirectory" => w.command.of = 1 /\ c \notin told,
         o = "unheard" => (w.command.of = 1 /\ c \notin told) \/ ~Expected(parts),
         rec \in Receptions,
         rec # NoReception => rec.answer \in Request /\ rec.answer.kind \in parts
  PROVE  GoodClient(c, parts, told, w.command, w.transfer, w.queue, rec, o)
BY DEF GoodClient, SoundWorld, Sound, Listened

(* A command of a client is not the absent one.                            *)
LEMMA HandlerIsThere ==
  ASSUME NEW h, NEW c \in Client, IsHandler(h, c)
  PROVE  h # NoHandler
BY NoHandlerIs DEF IsHandler, HandlerId

-----------------------------------------------------------------------------

(* A new connection, whose first command is begun at once, keeps the invariant. *)
LEMMA ConnectKeeps ==
  ASSUME IInv, NEW c \in Client, UNCHANGED scenario, Connect(c)
  PROVE  IInv'
<1> DEFINE n == NewCommand(HandlerId, c, FALSE, NoCommand)
           w == World(n, queue[c], transfer[c])
           v == Begin(w, "getCurrentDirectory", FALSE)
<1>1. /\ c \in knows /\ ~Connected(c) /\ server.state = "usable"
      /\ handler' = [handler EXCEPT ![c] = v.command]
      /\ queue' = [queue EXCEPT ![c] = v.queue]
      /\ transfer' = [transfer EXCEPT ![c] = v.transfer]
      /\ ready' = ready \ {c}
      /\ outcome' = [outcome EXCEPT ![c] = "asked"]
      /\ UNCHANGED <<serverVars, clientVars, reception>>
  BY DEF Connect, HandlerBecomes
<1>2. /\ GoodClient(c, scenario.parts, ready, handler[c], transfer[c], queue[c],
                    reception[c], outcome[c])
      /\ Same(reception, c) = reception /\ ready \subseteq Client
  BY ClientIs
<1>3. /\ transfer[c] = NoTransfer /\ SoundQueue(queue[c]) /\ reception[c] \in Receptions
      /\ reception[c] # NoReception =>
           reception[c].answer \in Request /\ reception[c].answer.kind \in scenario.parts
  BY <1>1, <1>2 DEF GoodClient, Connected
<1>4. /\ n \in Command /\ n.id = HandlerId /\ n.client = c /\ ~n.initializing /\ n.of = 0
  <2>1. -1 \in -1..RepeatBusy+1 /\ 0 \in 0..Attempts+1 /\ 0 \in 0..TanRange-1
    BY FsCommandAssumption DEF TanRange
  <2>2. QED BY <2>1 DEF NewCommand, Command, Unset, AnyBuffer, HandlerId
<1> HIDE DEF n
<1>5. /\ w \in Worlds /\ w.command = n /\ SoundTransfer(w.transfer) /\ SoundQueue(w.queue)
      /\ Listened(w)
  BY <1>3, <1>4, NoTransferIs DEF World, Worlds, SoundQueue, Listened
<1> HIDE DEF w
<1>6. "getCurrentDirectory" \in Kind /\ FALSE \in BOOLEAN /\ w.command.id \in Nat
  BY <1>4, <1>5 DEF Kind, HandlerId
<1>7. /\ SoundWorld(v) /\ (Listened(w) => Listened(v)) /\ SameObject(v.command, w.command)
      /\ v.command.lastCommand = "getCurrentDirectory" /\ v.command.of = w.command.of + 1
      /\ v.command.requestAttempts = 1 /\ IsBusy(v.command)
  BY <1>5, <1>6, Begun
<1> HIDE DEF v
<1>8. /\ IsHandler(v.command, c) /\ Listened(v)
      /\ v.command.lastCommand = "getCurrentDirectory" /\ v.command.of = 1 /\ IsBusy(v.command)
  <2>1. Sound(v.command)
    BY <1>7 DEF SoundWorld
  <2>2. v.command.id = HandlerId /\ v.command.client = c /\ ~v.command.initializing
    BY <1>4, <1>5, <1>7 DEF SameObject
  <2>3. QED BY <1>4, <1>5, <1>6, <1>7, <2>1, <2>2, FsCommandAssumption DEF IsHandler
<1>9. v.command # NoHandler
  BY <1>8, HandlerIsThere
<1>10. GoodClient(c, scenario.parts, ready', v.command, v.transfer, v.queue, reception[c], "asked")
  BY <1>1, <1>3, <1>7, <1>8, <1>9, HandlerGood
<1>11. c \in Range(clients)
  BY <1>1 DEF IInv, Knowledge, GoodServer
<1>12. reception' = [reception EXCEPT ![c] = reception[c]]
  BY <1>1, <1>2 DEF Same
<1>13. ready' \subseteq Client /\ \A d \in Client \ {c} : d \in ready' => d \in ready
  BY <1>1, <1>2
<1>14. QED BY <1>1, <1>10, <1>11, <1>12, <1>13, OneClient

(* An application's command keeps the invariant.                           *)
LEMMA AskKeeps ==
  ASSUME IInv, NEW c \in Client, NEW kind, NEW long, UNCHANGED scenario, Ask(c, kind, long)
  PROVE  IInv'
<1> DEFINE w == HandlerWorld(c)
           v == Begin(w, kind, long)
           o == IF outcome[c] = "asked" THEN "overrun" ELSE "asked"
<1>1. /\ Connected(c) /\ ~IsBusy(handler[c])
      /\ [kind |-> kind, long |-> long] \in scenario.asks
      /\ handler' = [handler EXCEPT ![c] = v.command]
      /\ queue' = [queue EXCEPT ![c] = v.queue]
      /\ transfer' = [transfer EXCEPT ![c] = v.transfer]
      /\ outcome' = [outcome EXCEPT ![c] = o]
      /\ UNCHANGED <<serverVars, clientVars, reception, ready>>
  BY DEF Ask, MayAsk, HandlerBecomes
<1>2. /\ GoodClient(c, scenario.parts, ready, handler[c], transfer[c], queue[c],
                    reception[c], outcome[c])
      /\ Same(reception, c) = reception /\ ready \subseteq Client
  BY ClientIs
<1>3. /\ o = "asked" /\ reception[c] \in Receptions
      /\ reception[c] # NoReception =>
           reception[c].answer \in Request /\ reception[c].answer.kind \in scenario.parts
  BY <1>1, <1>2 DEF GoodClient
<1>4. kind \in Kind /\ kind # "getCurrentDirectory" /\ long \in BOOLEAN
  <2>1. scenario.asks \subseteq [kind : Asked, long : BOOLEAN]
    BY FsClientAssumption DEF IInv, Chosen, IsScenario
  <2>2. [kind |-> kind, long |-> long] \in [kind : Asked, long : BOOLEAN]
    BY <1>1, <2>1
  <2>3. kind \in Asked /\ long \in BOOLEAN
    BY <2>2
  <2>4. QED BY <2>3 DEF Asked, Kind
<1>5. /\ SoundWorld(w) /\ Listened(w) /\ w.command = handler[c] /\ IsHandler(handler[c], c)
  BY <1>1, HandlerWorldIs
<1> HIDE DEF w, o
<1>6. w \in Worlds /\ SoundTransfer(w.transfer) /\ SoundQueue(w.queue) /\ w.command.id \in Nat
  BY <1>5 DEF SoundWorld, IsHandler, HandlerId
<1>7. /\ SoundWorld(v) /\ (Listened(w) => Listened(v)) /\ SameObject(v.command, w.command)
      /\ v.command.lastCommand = kind /\ v.command.requestAttempts = 1 /\ IsBusy(v.command)
  BY <1>4, <1>6, Begun
<1> HIDE DEF v
<1>8. IsHandler(v.command, c) /\ Listened(v)
  <2>1. Sound(v.command)
    BY <1>7 DEF SoundWorld
  <2>2. v.command.id = HandlerId /\ v.command.client = c /\ ~v.command.initializing
    BY <1>5, <1>7 DEF SameObject, IsHandler
  <2>3. QED BY <1>4, <1>5, <1>7, <2>1, <2>2, FsCommandAssumption DEF IsHandler
<1>9. v.command # NoHandler
  BY <1>8, HandlerIsThere
<1>10. GoodClient(c, scenario.parts, ready', v.command, v.transfer, v.queue, reception[c], o)
  BY <1>1, <1>3, <1>4, <1>7, <1>8, <1>9, HandlerGood
<1>11. reception' = [reception EXCEPT ![c] = reception[c]]
  BY <1>1, <1>2 DEF Same
<1>12. ready' \subseteq Client /\ \A d \in Client \ {c} : d \in ready' => d \in ready
  BY <1>1, <1>2
<1>13. QED BY <1>1, <1>10, <1>11, <1>12, OneClient

(* A period of a client's handler keeps the invariant: a command given up is told. *)
LEMMA HandlerTimeEventKeeps ==
  ASSUME IInv, NEW c \in Client, UNCHANGED scenario, HandlerTimeEvent(c)
  PROVE  IInv'
<1> DEFINE w == HandlerWorld(c)
           v == TimeEvent(w, server.busy)
           up == GivesUp(BeforeTimeOut(w).command, server.busy)
           o == IF up THEN IF handler[c].lastCommand = "getCurrentDirectory" THEN "unheard"
                           ELSE IF outcome[c] = "asked" THEN "told" ELSE "toldTwice"
                ELSE outcome[c]
<1>1. /\ Connected(c)
      /\ handler' = [handler EXCEPT ![c] = v.command]
      /\ queue' = [queue EXCEPT ![c] = v.queue]
      /\ transfer' = [transfer EXCEPT ![c] = v.transfer]
      /\ UNCHANGED <<serverVars, clientVars, reception, ready>>
  BY DEF HandlerTimeEvent, HandlerBecomes
<1>2. /\ GoodClient(c, scenario.parts, ready, handler[c], transfer[c], queue[c],
                    reception[c], outcome[c])
      /\ Same(reception, c) = reception /\ ready \subseteq Client
      /\ Same(outcome, c) = outcome
  BY ClientIs
<1>3. outcome' = [outcome EXCEPT ![c] = o]
  BY <1>2 DEF HandlerTimeEvent, Tell, Same
<1>4. /\ SoundWorld(w) /\ Listened(w) /\ w.command = handler[c] /\ IsHandler(handler[c], c)
  BY <1>1, HandlerWorldIs
<1> HIDE DEF w
<1>5. ~w.command.initializing /\ w.command.requestAttempts <= Attempts
  BY <1>4 DEF IsHandler
<1>6. /\ SoundWorld(v) /\ Listened(v) /\ SameObject(v.command, w.command)
      /\ v.command.of = w.command.of /\ v.command.requestAttempts <= Attempts
      /\ up => IsBusy(w.command) /\ ~IsBusy(v.command) /\ v.command.lastCommand = NoCommand
      /\ ~up => /\ IsBusy(v.command) <=> IsBusy(w.command)
                /\ v.command.lastCommand = w.command.lastCommand
  BY <1>4, <1>5, HandlerTimed
<1> HIDE DEF v, up
<1>7. IsHandler(v.command, c)
  <2>1. Sound(v.command)
    BY <1>6 DEF SoundWorld
  <2>2. v.command.id = HandlerId /\ v.command.client = c /\ ~v.command.initializing
    BY <1>4, <1>6 DEF SameObject, IsHandler
  <2>3. v.command.lastCommand \in Kind <=> IsBusy(v.command)
    BY <1>4, <1>6 DEF IsHandler, Kind, NoCommand
  <2>4. QED BY <1>6, <2>1, <2>2, <2>3 DEF IsHandler
<1>8. v.command # NoHandler
  BY <1>7, HandlerIsThere
<1>9. /\ reception[c] \in Receptions
      /\ reception[c] # NoReception =>
           reception[c].answer \in Request /\ reception[c].answer.kind \in scenario.parts
      /\ outcome[c] \in {"none", "asked", "told", "unheard"}
      /\ outcome[c] = "asked" <=> IsBusy(handler[c])
      /\ handler[c].lastCommand = "getCurrentDirectory" => handler[c].of = 1 /\ c \notin ready
      /\ outcome[c] = "unheard" =>
           (handler[c].of = 1 /\ c \notin ready) \/ ~Expected(scenario.parts)
  BY <1>2 DEF GoodClient
<1>10. /\ o \in {"none", "asked", "told", "unheard"}
       /\ o = "asked" <=> IsBusy(v.command)
       /\ v.command.lastCommand = "getCurrentDirectory" => v.command.of = 1 /\ c \notin ready
       /\ o = "unheard" =>
            (v.command.of = 1 /\ c \notin ready) \/ ~Expected(scenario.parts)
  <2>1. CASE up
    <3>1. outcome[c] = "asked" /\ v.command.lastCommand # "getCurrentDirectory"
      BY <1>4, <1>6, <1>9, <2>1 DEF NoCommand
    <3>2. CASE handler[c].lastCommand = "getCurrentDirectory"
      BY <1>4, <1>6, <1>9, <2>1, <3>1, <3>2
    <3>3. CASE handler[c].lastCommand # "getCurrentDirectory"
      BY <1>4, <1>6, <1>9, <2>1, <3>1, <3>3
    <3>4. QED BY <3>2, <3>3
  <2>2. CASE ~up
    BY <1>4, <1>6, <1>9, <2>2
  <2>3. QED BY <2>1, <2>2
<1> HIDE DEF o
<1>11. ready' = ready
  BY <1>1
<1>12. GoodClient(c, scenario.parts, ready', v.command, v.transfer, v.queue, reception[c], o)
  BY <1>6, <1>7, <1>8, <1>9, <1>10, <1>11, HandlerGood
<1>13. reception' = [reception EXCEPT ![c] = reception[c]]
  BY <1>1, <1>2 DEF Same
<1>14. ready' \subseteq Client /\ \A d \in Client \ {c} : d \in ready' => d \in ready
  BY <1>2, <1>11
<1>15. QED BY <1>1, <1>3, <1>12, <1>13, <1>14, OneClient

(* The first part of an answer keeps the invariant.                        *)
LEMMA AnswerPartsBeginKeeps ==
  ASSUME IInv, NEW c \in Client, UNCHANGED scenario, AnswerPartsBegin(c)
  PROVE  IInv'
<1> DEFINE mine == Selected(initializing, {i \in Range(initializing) : i.client = c /\ i.filter})
           rs == Receivers(c)
           q == Tail(queue[c])
           r == Head(queue[c])
           rec == IF rs = <<>> THEN NoReception
                  ELSE [answer |-> r, to |-> Head(rs).id, valid |-> r.tan = Head(rs).tan]
<1>1. /\ queue[c] # <<>> /\ r.kind \in scenario.parts
      /\ queue' = [queue EXCEPT ![c] = q]
      /\ reception' = [reception EXCEPT ![c] = rec]
      /\ UNCHANGED <<serverVars, clientVars, handler, transfer, ready, outcome>>
  BY DEF AnswerPartsBegin
<1>2. /\ GoodClient(c, scenario.parts, ready, handler[c], transfer[c], queue[c],
                    reception[c], outcome[c])
      /\ Same(handler, c) = handler /\ Same(transfer, c) = transfer
      /\ Same(outcome, c) = outcome /\ ready \subseteq Client
  BY ClientIs
<1>3. SoundQueue(q) /\ r \in Request
  BY <1>1, <1>2, TakenFromQueue DEF GoodClient
<1>4. rs \in Seq(Command)
  <2>1. initializing \in Seq(Command)
    BY DEF IInv, Queries, GoodQueries
  <2>2. mine \in Seq(Command)
    BY <2>1, SelectedIs
  <2>3. handler[c] \in Command
    BY <1>2 DEF GoodClient
  <2>4. rs = mine \o (IF Connected(c) /\ handler[c].filter THEN <<handler[c]>> ELSE <<>>)
    BY DEF Receivers
  <2> HIDE DEF mine
  <2>5. QED BY <2>2, <2>3, <2>4
<1> HIDE DEF rs, q, r
<1>5. rec \in Receptions /\ (rec # NoReception => rec.answer = r)
  <2>1. CASE rs = <<>>
    BY <2>1, NoReceptionIs
  <2>2. CASE rs # <<>>
    <3> DEFINE d == Head(rs)
    <3>1. d \in Command
      BY <1>4, <2>2
    <3> DEFINE fits == r.tan = d.tan
    <3>2. fits \in BOOLEAN
      OBVIOUS
    <3>3. rec = [answer |-> r, to |-> d.id, valid |-> fits]
      BY <2>2, Zenon
    <3> HIDE DEF d, fits
    <3>4. d.id \in Nat \union {-1}
      BY <3>1 DEF Command
    <3> HIDE DEF rec
    <3>5. QED BY <1>3, <3>2, <3>3, <3>4 DEF Receptions, AnyBuffer
  <2>3. QED BY <2>1, <2>2
<1> HIDE DEF rec
<1>6. ready' = ready /\ ready' \subseteq Client
  BY <1>1, <1>2
<1>7. GoodClient(c, scenario.parts, ready', handler[c], transfer[c], q, rec, outcome[c])
  BY <1>1, <1>2, <1>3, <1>5, <1>6 DEF GoodClient
<1>8. /\ handler' = [handler EXCEPT ![c] = handler[c]]
      /\ transfer' = [transfer EXCEPT ![c] = transfer[c]]
      /\ outcome' = [outcome EXCEPT ![c] = outcome[c]]
  BY <1>1, <1>2 DEF Same
<1>9. handler[c] # NoHandler => Connected(c)
  BY DEF Connected
<1>10. \A d \in Client \ {c} : d \in ready' => d \in ready
  BY <1>6
<1>11. /\ UNCHANGED <<serverVars, clientVars>>
       /\ queue' = [queue EXCEPT ![c] = q] /\ reception' = [reception EXCEPT ![c] = rec]
  BY <1>1
<1>12. QED BY <1>6, <1>7, <1>8, <1>9, <1>10, <1>11, OneClient

(* A lost request or answer keeps the invariant.                           *)
LEMMA LoseKeeps ==
  ASSUME IInv, NEW c \in Client, UNCHANGED scenario, Lose(c)
  PROVE  IInv'
<1>1. /\ UNCHANGED <<serverVars, clientVars, handler, transfer, ready, outcome>>
      /\ \/ /\ queue[c] # <<>> /\ queue' = [queue EXCEPT ![c] = Tail(queue[c])]
            /\ reception' = reception
         \/ queue' = queue /\ reception' = [reception EXCEPT ![c] = NoReception]
  BY DEF Lose
<1>2. /\ GoodClient(c, scenario.parts, ready, handler[c], transfer[c], queue[c],
                    reception[c], outcome[c])
      /\ Same(handler, c) = handler /\ Same(transfer, c) = transfer
      /\ Same(queue, c) = queue /\ Same(reception, c) = reception
      /\ Same(outcome, c) = outcome /\ ready \subseteq Client
  BY ClientIs
<1>3. ready' = ready /\ ready' \subseteq Client
  BY <1>1, <1>2
<1>4. /\ handler' = [handler EXCEPT ![c] = handler[c]]
      /\ transfer' = [transfer EXCEPT ![c] = transfer[c]]
      /\ outcome' = [outcome EXCEPT ![c] = outcome[c]]
  BY <1>1, <1>2 DEF Same
<1>5. handler[c] # NoHandler => Connected(c)
  BY DEF Connected
<1>6. /\ UNCHANGED <<serverVars, clientVars>> /\ ready' \subseteq Client
      /\ \A d \in Client \ {c} : d \in ready' => d \in ready
  BY <1>1, <1>3
<1>7. CASE /\ queue[c] # <<>> /\ queue' = [queue EXCEPT ![c] = Tail(queue[c])]
           /\ reception' = reception
  <2>1. SoundQueue(Tail(queue[c]))
    BY <1>2, <1>7, TakenFromQueue DEF GoodClient
  <2>2. GoodClient(c, scenario.parts, ready', handler[c], transfer[c], Tail(queue[c]),
                   reception[c], outcome[c])
    BY <1>2, <1>3, <2>1 DEF GoodClient
  <2>3. reception' = [reception EXCEPT ![c] = reception[c]]
    BY <1>2, <1>7 DEF Same
  <2>4. queue' = [queue EXCEPT ![c] = Tail(queue[c])]
    BY <1>7
  <2>5. QED BY <1>4, <1>5, <1>6, <2>2, <2>3, <2>4, OneClient
<1>8. CASE queue' = queue /\ reception' = [reception EXCEPT ![c] = NoReception]
  <2>1. GoodClient(c, scenario.parts, ready', handler[c], transfer[c], queue[c],
                   NoReception, outcome[c])
    BY <1>2, <1>3, NoReceptionIs DEF GoodClient
  <2>2. queue' = [queue EXCEPT ![c] = queue[c]]
    BY <1>2, <1>8 DEF Same
  <2>3. reception' = [reception EXCEPT ![c] = NoReception]
    BY <1>8
  <2>4. QED BY <1>4, <1>5, <1>6, <2>1, <2>2, <2>3, OneClient
<1>9. QED BY <1>1, <1>7, <1>8

(* The end of a transfer, with what reaches the server.                    *)
LEMMA TransferEndsKeeps ==
  ASSUME IInv, NEW c \in Client, UNCHANGED scenario,
         NEW success \in {"SendSuccess", "SendAborted"}, TransferEnds(c, success),
         NEW q, SoundQueue(q), queue' = [queue EXCEPT ![c] = q]
  PROVE  IInv'
<1> DEFINE h == [handler[c] EXCEPT !.sendSuccess = success]
<1>1. /\ transfer[c] # NoTransfer
      /\ transfer' = [transfer EXCEPT ![c] = NoTransfer]
      /\ UNCHANGED <<serverVars, clientVars, reception, ready, outcome>>
  BY DEF TransferEnds
<1>2. handler' = [handler EXCEPT ![c] = h]
  <2>1. handler \in [Client -> Command]
    BY DEF IInv, Links
  <2>2. QED BY <2>1 DEF TransferEnds
<1>3. /\ GoodClient(c, scenario.parts, ready, handler[c], transfer[c], queue[c],
                    reception[c], outcome[c])
      /\ Same(reception, c) = reception
      /\ Same(outcome, c) = outcome /\ ready \subseteq Client
  BY ClientIs
<1>4. handler[c] \in Command /\ IsHandler(handler[c], c) /\ handler[c] # NoHandler
  BY <1>1, <1>3 DEF GoodClient
<1>5. /\ h \in Command /\ h.id = handler[c].id /\ h.client = handler[c].client
      /\ h.lastCommand = handler[c].lastCommand /\ h.of = handler[c].of
      /\ h.requestAttempts = handler[c].requestAttempts /\ h.buffer = handler[c].buffer
      /\ (h.initializing <=> handler[c].initializing) /\ (IsBusy(h) <=> IsBusy(handler[c]))
      /\ (h.wait <=> handler[c].wait)
  BY <1>4 DEF Command, IsBusy
<1> HIDE DEF h
<1>6. Sound(h) /\ IsHandler(h, c)
  BY <1>4, <1>5 DEF IsHandler, Sound
<1>7. h # NoHandler
  BY <1>6, HandlerIsThere
<1>8. ready' = ready /\ ready' \subseteq Client
  BY <1>1, <1>3
<1>9. GoodClient(c, scenario.parts, ready', h, NoTransfer, q, reception[c], outcome[c])
  BY <1>3, <1>5, <1>6, <1>7, <1>8, NoTransferIs DEF GoodClient
<1>10. /\ reception' = [reception EXCEPT ![c] = reception[c]]
       /\ outcome' = [outcome EXCEPT ![c] = outcome[c]]
  BY <1>1, <1>3 DEF Same
<1>11. Connected(c) /\ \A d \in Client \ {c} : d \in ready' => d \in ready
  BY <1>4, <1>8 DEF Connected
<1>12. UNCHANGED <<serverVars, clientVars>> /\ transfer' = [transfer EXCEPT ![c] = NoTransfer]
  BY <1>1
<1>13. QED BY <1>2, <1>8, <1>9, <1>10, <1>11, <1>12, OneClient

(* A transfer that ends, well or not, keeps the invariant.                 *)
LEMMA TransferStepKeeps ==
  ASSUME IInv, NEW c \in Client, UNCHANGED scenario, TransferDone(c) \/ TransferAborted(c)
  PROVE  IInv'
<1>1. /\ GoodClient(c, scenario.parts, ready, handler[c], transfer[c], queue[c],
                    reception[c], outcome[c])
      /\ Same(queue, c) = queue
  BY ClientIs
<1>2. SoundQueue(queue[c]) /\ SoundTransfer(transfer[c])
  BY <1>1 DEF GoodClient
<1>3. CASE TransferDone(c)
  <2>1. /\ TransferEnds(c, "SendSuccess") /\ transfer[c] # NoTransfer
        /\ queue' = [queue EXCEPT ![c] = Reaches(queue[c], transfer[c].head)]
    BY <1>3 DEF TransferDone, TransferEnds
  <2>2. SoundQueue(Reaches(queue[c], transfer[c].head))
    BY <1>2, <2>1, ReachedQueue DEF SoundTransfer
  <2>3. QED BY <2>1, <2>2, TransferEndsKeeps
<1>4. CASE TransferAborted(c)
  <2>1. TransferEnds(c, "SendAborted") /\ queue' = queue
    BY <1>4 DEF TransferAborted
  <2>2. queue' = [queue EXCEPT ![c] = queue[c]]
    BY <1>1, <2>1 DEF Same
  <2>3. QED BY <1>2, <2>1, <2>2, TransferEndsKeeps
<1>5. QED BY <1>3, <1>4

(* What an answer that ends the command of client c leaves.                *)
LEMMA CommandEndedKeeps ==
  ASSUME IInv, NEW c \in Client, Connected(c), NEW r \in Request, NEW inParts \in BOOLEAN,
         r.kind = handler[c].lastCommand,
         inParts => r.kind \in scenario.parts,
         EndBy(c, r, inParts),
         NEW v, SoundWorld(v), Listened(v), SameObject(v.command, handler[c]),
         v.command.of = handler[c].of,
         v.command.requestAttempts = handler[c].requestAttempts,
         v.command.lastCommand = NoCommand, ~IsBusy(v.command),
         NEW rec \in Receptions,
         rec # NoReception => rec.answer \in Request /\ rec.answer.kind \in scenario.parts
  PROVE  \E o : /\ outcome' = [outcome EXCEPT ![c] = o]
                /\ ready' \subseteq Client
                /\ \A d \in Client \ {c} : d \in ready' => d \in ready
                /\ GoodClient(c, scenario.parts, ready', v.command, v.transfer, v.queue, rec, o)
<1>1. /\ GoodClient(c, scenario.parts, ready, handler[c], transfer[c], queue[c],
                    reception[c], outcome[c])
      /\ ready \subseteq Client
  BY ClientIs
<1>2. r.kind \in Kind
  BY DEF Request
<1>3. /\ IsHandler(handler[c], c) /\ IsBusy(handler[c]) /\ outcome[c] = "asked"
      /\ handler[c].lastCommand = "getCurrentDirectory" => handler[c].of = 1 /\ c \notin ready
  BY <1>1, <1>2 DEF GoodClient, Connected, IsHandler
<1>4. IsHandler(v.command, c)
  <2>1. Sound(v.command)
    BY DEF SoundWorld
  <2>2. v.command.id = HandlerId /\ v.command.client = c /\ ~v.command.initializing
    BY <1>3 DEF SameObject, IsHandler
  <2>3. v.command.lastCommand \notin Kind
    BY DEF Kind, NoCommand
  <2>4. v.command.requestAttempts <= Attempts
    BY <1>3 DEF IsHandler
  <2>5. QED BY <2>1, <2>2, <2>3, <2>4 DEF IsHandler
<1>5. v.command # NoHandler
  BY <1>4, HandlerIsThere
<1>6. v.command.lastCommand # "getCurrentDirectory"
  BY DEF NoCommand
<1>7. CASE Reported(r.kind, inParts)
  <2>1. outcome' = [outcome EXCEPT ![c] = "told"]
    BY <1>3, <1>7 DEF EndBy, Tell
  <2>2. ready' \subseteq Client /\ \A d \in Client \ {c} : d \in ready' => d \in ready
    BY <1>1, <1>7 DEF EndBy
  <2>3. GoodClient(c, scenario.parts, ready', v.command, v.transfer, v.queue, rec, "told")
    BY <1>4, <1>5, <1>6, HandlerGood
  <2>4. QED BY <2>1, <2>2, <2>3
<1>8. CASE ~Reported(r.kind, inParts)
  <2>1. outcome' = [outcome EXCEPT ![c] = "unheard"] /\ ready' = ready
    BY <1>8 DEF EndBy
  <2>2. (v.command.of = 1 /\ c \notin ready') \/ ~Expected(scenario.parts)
    <3>1. CASE inParts
      BY <1>8, <3>1 DEF Reported, Expected
    <3>2. CASE ~inParts
      BY <1>3, <1>8, <2>1, <3>2 DEF Reported
    <3>3. QED BY <3>1, <3>2
  <2>3. GoodClient(c, scenario.parts, ready', v.command, v.transfer, v.queue, rec, "unheard")
    BY <1>4, <1>5, <1>6, <2>2, HandlerGood
  <2>4. QED BY <1>1, <2>1, <2>3
<1>9. QED BY <1>7, <1>8

(* The end of an answer in parts to a client's handler keeps the invariant. *)
LEMMA AnswerPartsEndForHandlerKeeps ==
  ASSUME IInv, NEW c \in Client, UNCHANGED scenario, AnswerPartsEndForHandler(c)
  PROVE  IInv'
<1> DEFINE rec == reception[c]
           w == HandlerWorld(c)
           v == Answered(w, InParts(rec.answer))
<1>1. /\ rec.to = HandlerId
      /\ reception' = [reception EXCEPT ![c] = NoReception]
      /\ UNCHANGED <<serverVars, clientVars>>
  BY DEF AnswerPartsEndForHandler
<1>2. /\ GoodClient(c, scenario.parts, ready, handler[c], transfer[c], queue[c],
                    reception[c], outcome[c])
      /\ Same(handler, c) = handler /\ Same(transfer, c) = transfer
      /\ Same(queue, c) = queue /\ Same(outcome, c) = outcome /\ ready \subseteq Client
  BY ClientIs
<1>3. rec.answer \in Request /\ rec.answer.kind \in scenario.parts
  <2>1. rec # NoReception
    BY <1>1 DEF NoReception, HandlerId
  <2>2. QED BY <1>2, <2>1 DEF GoodClient
<1>4. CASE EndsCommand(handler[c], rec)
  <2>1. /\ handler' = [handler EXCEPT ![c] = v.command]
        /\ queue' = [queue EXCEPT ![c] = v.queue]
        /\ transfer' = [transfer EXCEPT ![c] = v.transfer]
        /\ EndBy(c, rec.answer, TRUE)
    BY <1>4 DEF AnswerPartsEndForHandler, HandlerBecomes
  <2>2. rec.answer.kind = handler[c].lastCommand /\ rec.answer.kind \in Kind
    BY <1>3, <1>4 DEF EndsCommand, Request
  <2>3. Connected(c)
    BY <2>2, NoHandlerIs DEF Connected, Kind, NoCommand
  <2>4. SoundWorld(w) /\ Listened(w) /\ w.command = handler[c] /\ IsHandler(handler[c], c)
    BY <2>3, HandlerWorldIs
  <2> HIDE DEF w
  <2>5. ~w.command.initializing
    BY <2>4 DEF IsHandler
  <2>6. /\ SoundWorld(v) /\ Listened(v)
        /\ SameObject(v.command, w.command) /\ v.command.of = w.command.of
        /\ v.command.requestAttempts = w.command.requestAttempts
        /\ v.command.lastCommand = NoCommand /\ ~IsBusy(v.command)
    BY <2>4, <2>5, HandlerAnswered
  <2> HIDE DEF v, rec
  <2>7. NoReception \in Receptions
    BY NoReceptionIs
  <2>8. PICK o : /\ outcome' = [outcome EXCEPT ![c] = o]
                 /\ ready' \subseteq Client
                 /\ \A d \in Client \ {c} : d \in ready' => d \in ready
                 /\ GoodClient(c, scenario.parts, ready', v.command, v.transfer, v.queue,
                               NoReception, o)
    BY <1>3, <2>1, <2>2, <2>3, <2>4, <2>6, <2>7, CommandEndedKeeps
  <2>9. QED BY <1>1, <2>1, <2>3, <2>8, OneClient
<1>5. CASE ~EndsCommand(handler[c], rec)
  <2>1. UNCHANGED <<handler, queue, transfer, outcome, ready>>
    BY <1>5 DEF AnswerPartsEndForHandler
  <2>2. ready' = ready /\ ready' \subseteq Client
    BY <1>2, <2>1
  <2>3. GoodClient(c, scenario.parts, ready', handler[c], transfer[c], queue[c],
                   NoReception, outcome[c])
    BY <1>2, <2>2, NoReceptionIs DEF GoodClient
  <2>4. /\ handler' = [handler EXCEPT ![c] = handler[c]]
        /\ transfer' = [transfer EXCEPT ![c] = transfer[c]]
        /\ queue' = [queue EXCEPT ![c] = queue[c]]
        /\ outcome' = [outcome EXCEPT ![c] = outcome[c]]
    BY <1>2, <2>1 DEF Same
  <2>5. QED BY <1>1, <2>2, <2>3, <2>4, OneClient DEF Connected
<1>6. QED BY <1>4, <1>5

-----------------------------------------------------------------------------
(* Steps of an initializing command.                                       *)

(* A queue and a reception of one client, changed by somebody else.        *)
LEMMA LinkKept ==
  ASSUME Links, NEW c \in Client, NEW q, SoundQueue(q), NEW rec \in Receptions,
         rec # NoReception => rec.answer \in Request /\ rec.answer.kind \in scenario.parts,
         UNCHANGED <<scenario, handler, transfer, outcome, ready>>,
         queue' = [queue EXCEPT ![c] = q], reception' = [reception EXCEPT ![c] = rec]
  PROVE  Links'
<1>1. /\ handler \in [Client -> Command] /\ transfer \in [Client -> Transfers]
      /\ queue \in [Client -> Seq(Request)] /\ reception \in [Client -> Receptions]
      /\ outcome \in [Client -> {"none", "asked", "told", "unheard"}]
  BY DEF Links
<1>2. queue' \in [Client -> Seq(Request)] /\ reception' \in [Client -> Receptions]
  BY <1>1 DEF SoundQueue
<1>3. ASSUME NEW d \in Client
      PROVE  GoodClient(d, scenario.parts, ready, handler[d], transfer[d], queue'[d],
                        reception'[d], outcome[d])
  <2>1. GoodClient(d, scenario.parts, ready, handler[d], transfer[d], queue[d],
                   reception[d], outcome[d])
    BY DEF Links
  <2>2. CASE d = c
    <3>1. queue'[d] = q /\ reception'[d] = rec
      BY <1>1, <2>2
    <3>2. QED BY <2>1, <3>1 DEF GoodClient
  <2>3. CASE d # c
    <3>1. queue'[d] = queue[d] /\ reception'[d] = reception[d]
      BY <1>1, <2>3
    <3>2. QED BY <2>1, <3>1 DEF GoodClient
  <2>4. QED BY <2>2, <2>3
<1>4. /\ scenario' = scenario /\ handler' = handler /\ transfer' = transfer
      /\ outcome' = outcome /\ ready' = ready
  OBVIOUS
<1>5. ASSUME NEW d \in Client
      PROVE  GoodClient(d, scenario'.parts, ready', handler'[d], transfer'[d], queue'[d],
                        reception'[d], outcome'[d])
  BY <1>3, <1>4
<1>6. /\ handler' \in [Client -> Command] /\ transfer' \in [Client -> Transfers]
      /\ outcome' \in [Client -> {"none", "asked", "told", "unheard"}]
  BY <1>1, <1>4
<1>7. QED BY <1>2, <1>5, <1>6 DEF Links

(* One initializing command goes on.                                       *)
LEMMA QueryKept ==
  ASSUME Queries, Knowledge, NEW n \in DOMAIN initializing, NEW d,
         GoodQuery(d, scenario.parts), d.client = initializing[n].client,
         UNCHANGED scenario, initializing' = [initializing EXCEPT ![n] = d],
         UNCHANGED <<server, twice, orphaned, clientVars>>
  PROVE  Queries' /\ Knowledge'
<1> DEFINE q == initializing'
<1>1. /\ initializing \in Seq(Command) /\ Len(initializing) <= 2
      /\ \A k \in 1..Len(initializing) : GoodQuery(initializing[k], scenario.parts)
  BY DEF Queries, GoodQueries
<1>2. n \in 1..Len(initializing) /\ d \in Command
  BY <1>1 DEF GoodQuery, Sound
<1>3. /\ q \in Seq(Command) /\ Len(q) = Len(initializing) /\ q[n] = d
      /\ \A k \in 1..Len(q) : k # n => q[k] = initializing[k]
  BY <1>1, <1>2
<1> HIDE DEF q
<1>4. \A k \in 1..Len(q) : GoodQuery(q[k], scenario.parts)
  BY <1>1, <1>3
<1>5. GoodQueries(q, scenario.parts)
  BY <1>1, <1>3, <1>4 DEF GoodQueries
<1>6. Len(q) # 0 /\ q # <<>> /\ initializing # <<>>
  BY <1>1, <1>2, <1>3
<1>7. /\ server' = server /\ clients' = clients /\ knows' = knows /\ late' = late
      /\ twice' = twice /\ orphaned' = orphaned /\ scenario' = scenario
  BY DEF clientVars
<1>8. GoodServer(server, clients, initializing, knows, late, twice, orphaned)
  BY DEF Knowledge
<1>11. OwnedBy(q, Head(clients))
  <2>1. ASSUME NEW k \in 1..Len(q) PROVE q[k].client = initializing[k].client
    BY <1>3
  <2>2. QED BY <1>3, <1>8, <2>1 DEF GoodServer, OwnedBy
<1>9. GoodServer(server, clients, q, knows, late, twice, orphaned)
  BY <1>3, <1>6, <1>8, <1>11 DEF GoodServer
<1>10. QED BY <1>5, <1>7, <1>9 DEF Queries, Knowledge, q

(* The world of an initializing command, with any transfer.                *)
LEMMA QueryWorldIs ==
  ASSUME NEW i, NEW parts, GoodQuery(i, parts), NEW q, SoundQueue(q),
         NEW t, SoundTransfer(t)
  PROVE  LET w == World(i, q, t) IN
         /\ SoundWorld(w) /\ w.command = i /\ w.command.initializing /\ w.command.id \in Nat
<1>1. i \in Command /\ q \in Seq(Request) /\ t \in Transfers
  BY DEF GoodQuery, Sound, SoundQueue, SoundTransfer
<1>2. QED BY <1>1 DEF World, SoundWorld, Worlds, GoodQuery

(* A period of an initializing command keeps the invariant.                *)
LEMMA InitializingTimeEventKeeps ==
  ASSUME IInv, NEW n \in DOMAIN initializing, UNCHANGED scenario, InitializingTimeEvent(n)
  PROVE  IInv'
<1> DEFINE i == initializing[n]
           c == i.client
           v == World(i, queue[c], transfer[c])
           w == TimeEvent(v, server.busy)
           d == w.command
<1>1. /\ initializing' = [initializing EXCEPT ![n] = d]
      /\ queue' = [queue EXCEPT ![c] = w.queue]
      /\ UNCHANGED <<server, twice, orphaned, clientVars>>
      /\ UNCHANGED <<handler, transfer, reception, ready, outcome>>
  BY DEF InitializingTimeEvent
<1>2. Chosen /\ Links /\ Queries /\ Knowledge /\ Connections
  BY DEF IInv
<1>3. GoodQuery(i, scenario.parts)
  BY <1>2 DEF Queries, GoodQueries
<1>4. c \in Client
  BY <1>3 DEF GoodQuery, Sound, Command
<1>5. /\ GoodClient(c, scenario.parts, ready, handler[c], transfer[c], queue[c],
                    reception[c], outcome[c])
      /\ Same(reception, c) = reception
  BY <1>4, ClientIs
<1>6. SoundQueue(queue[c]) /\ SoundTransfer(transfer[c])
  BY <1>5 DEF GoodClient
<1> HIDE DEF i
<1>7. SoundWorld(v) /\ v.command = i /\ v.command.initializing /\ v.command.id \in Nat
  BY <1>3, <1>6, QueryWorldIs
<1> HIDE DEF v
<1>8. /\ SoundWorld(w) /\ SameObject(d, i)
      /\ d.queryStarted
      /\ i.queryStarted => d.lastCommand = i.lastCommand /\ (IsBusy(d) <=> IsBusy(i))
      /\ ~i.queryStarted => d.lastCommand = "requestProperties" /\ IsBusy(d)
  BY <1>7, QueryTimed
<1> HIDE DEF w
<1>9. GoodQuery(d, scenario.parts)
  <2>1. Sound(d)
    BY <1>8 DEF SoundWorld
  <2>2. d.initializing /\ d.id \in 1..2
    BY <1>3, <1>8 DEF SameObject, GoodQuery
  <2>3. /\ d.lastCommand \in QueryKind \union {NoCommand}
        /\ IsBusy(d) \/ ~Expected(scenario.parts)
    BY <1>3, <1>8 DEF GoodQuery, QueryKind
  <2>4. QED BY <2>1, <2>2, <2>3 DEF GoodQuery
<1>10. Queries' /\ Knowledge'
  <2>1. d.client = i.client
    BY <1>8 DEF SameObject
  <2>2. QED BY <1>1, <1>2, <1>9, <2>1, QueryKept DEF i
<1>11. Links'
  <2>1. SoundQueue(w.queue)
    BY <1>8 DEF SoundWorld
  <2>2. /\ reception[c] \in Receptions
        /\ reception[c] # NoReception =>
             reception[c].answer \in Request /\ reception[c].answer.kind \in scenario.parts
    BY <1>5 DEF GoodClient
  <2>3. reception' = [reception EXCEPT ![c] = reception[c]]
    BY <1>1, <1>5 DEF Same
  <2>4. UNCHANGED <<scenario, handler, transfer, outcome, ready>>
    BY <1>1
  <2>5. queue' = [queue EXCEPT ![c] = w.queue]
    BY <1>1
  <2> HIDE DEF c, d
  <2>6. QED BY <1>2, <1>4, <2>1, <2>2, <2>3, <2>4, <2>5, LinkKept
<1>12. Connections' /\ Chosen'
  BY <1>1, <1>2 DEF Connections, Connected, Chosen, clientVars
<1>13. QED BY <1>10, <1>11, <1>12 DEF IInv

(* The end of an answer in parts to an initializing command keeps the invariant. *)
LEMMA AnswerPartsEndForInitializingKeeps ==
  ASSUME IInv, NEW c \in Client, NEW n \in DOMAIN initializing, UNCHANGED scenario,
         AnswerPartsEndForInitializing(c, n)
  PROVE  IInv'
<1> DEFINE rec == reception[c]
           i == initializing[n]
           v == World(i, queue[c], NoTransfer)
           p == InParts(rec.answer)
           w == Answered(v, p)
           d == w.command
<1>1. /\ i.id = rec.to
      /\ reception' = [reception EXCEPT ![c] = NoReception]
      /\ UNCHANGED <<server, twice, orphaned, clientVars>>
      /\ UNCHANGED <<handler, transfer, ready, outcome>>
  BY DEF AnswerPartsEndForInitializing
<1>2. Chosen /\ Links /\ Queries /\ Knowledge /\ Connections
  BY DEF IInv
<1>3. GoodQuery(i, scenario.parts)
  BY <1>2 DEF Queries, GoodQueries
<1>4. /\ GoodClient(c, scenario.parts, ready, handler[c], transfer[c], queue[c],
                    reception[c], outcome[c])
      /\ Same(queue, c) = queue
  BY ClientIs
<1>5. SoundQueue(queue[c]) /\ rec.answer \in Request /\ rec.answer.kind \in scenario.parts
  <2>1. rec # NoReception
    BY <1>1, <1>3 DEF NoReception, GoodQuery
  <2>2. QED BY <1>4, <2>1 DEF GoodClient
<1>6. Connections' /\ Chosen'
  BY <1>1, <1>2 DEF Connections, Connected, Chosen, clientVars
<1>7. UNCHANGED <<scenario, handler, transfer, outcome, ready>>
  BY <1>1
<1>8. CASE EndsCommand(i, rec)
  <2>1. initializing' = [initializing EXCEPT ![n] = d] /\ queue' = [queue EXCEPT ![c] = w.queue]
    BY <1>8 DEF AnswerPartsEndForInitializing
  <2>2. /\ p.parts /\ p.kind = rec.answer.kind /\ p.kind = i.lastCommand /\ p.kind \in Kind
    BY <1>5, <1>8 DEF EndsCommand, InParts, Request
  <2> HIDE DEF i, p, rec
  <2>3. SoundWorld(v) /\ v.command = i /\ v.command.initializing /\ v.command.id \in Nat
    BY <1>3, <1>5, NoTransferIs, QueryWorldIs
  <2> HIDE DEF v
  <2>4. /\ SoundWorld(w) /\ SameObject(d, i)
        /\ d.queryStarted <=> i.queryStarted
        /\ d.lastCommand \in QueryKind \union {NoCommand}
        /\ IsBusy(d) \/ (p.parts /\ p.kind # "readFile") \/ p.kind \notin QueryKind \ {"closeFile"}
    BY <2>3, QueryAnswered
  <2> HIDE DEF w
  <2>5. d.queryStarted => IsBusy(d) \/ ~Expected(scenario.parts)
    <3>1. i.queryStarted => p.kind \in QueryKind
      BY <1>3, <2>2 DEF GoodQuery, Kind, NoCommand
    <3>2. CASE p.kind = "readFile"
      BY <2>4, <3>1, <3>2 DEF QueryKind
    <3>3. CASE p.kind # "readFile"
      <4>1. i.queryStarted => p.kind # "getCurrentDirectory"
        BY <3>1 DEF QueryKind
      <4>2. QED BY <1>5, <2>2, <2>4, <3>3, <4>1 DEF Expected
    <3>4. QED BY <3>2, <3>3
  <2>6. GoodQuery(d, scenario.parts)
    <3>1. Sound(d)
      BY <2>4 DEF SoundWorld
    <3>2. d.initializing /\ d.id \in 1..2
      BY <1>3, <2>4 DEF SameObject, GoodQuery
    <3>3. QED BY <2>4, <2>5, <3>1, <3>2 DEF GoodQuery
  <2>7. Queries' /\ Knowledge'
    <3>1. d.client = i.client
      BY <2>4 DEF SameObject
    <3>2. QED BY <1>1, <1>2, <2>1, <2>6, <3>1, QueryKept DEF i
  <2>8. SoundQueue(w.queue)
    BY <2>4 DEF SoundWorld
  <2>9. Links'
    BY <1>1, <1>2, <1>7, <2>1, <2>8, NoReceptionIs, LinkKept
  <2>10. QED BY <1>6, <2>7, <2>9 DEF IInv
<1>9. CASE ~EndsCommand(i, rec)
  <2>1. initializing' = initializing /\ queue' = queue
    BY <1>9 DEF AnswerPartsEndForInitializing
  <2>2. queue' = [queue EXCEPT ![c] = queue[c]]
    BY <1>4, <2>1 DEF Same
  <2>3. reception' = [reception EXCEPT ![c] = NoReception]
    BY <1>1
  <2> HIDE DEF i, p, rec, v, w, d
  <2>4. Links'
    BY <1>2, <1>5, <1>7, <2>2, <2>3, NoReceptionIs, LinkKept
  <2>5. Queries' /\ Knowledge'
    BY <1>1, <1>2, <1>7, <2>1 DEF Queries, Knowledge, clientVars
  <2>6. QED BY <1>6, <2>4, <2>5 DEF IInv
<1>10. QED BY <1>8, <1>9

-----------------------------------------------------------------------------
(* An answer in one frame.                                                 *)

(* An answer in one frame, offered to everybody it may be for, keeps the invariant. *)
LEMMA AnswerInOneFrameKeeps ==
  ASSUME IInv, NEW c \in Client, UNCHANGED scenario, AnswerInOneFrame(c)
  PROVE  IInv'
<1> DEFINE r == Head(queue[c])
           all == OfferedToAll(r, c)
           h == handler[c]
           taken == Connected(c) /\ TakesAnswer(h, Single(r))
           v == Answered(HandlerWorld(c), Single(r))
           cut(d) == IF reception[d].to \in all.gone THEN NoReception ELSE reception[d]
<1>1. /\ queue[c] # <<>> /\ server.listed
      /\ initializing' = all.commands /\ server' = [server EXCEPT !.state = all.state]
      /\ queue' = [queue EXCEPT ![c] = all.queue]
      /\ reception' = [d \in Client |-> cut(d)]
      /\ handler' = [handler EXCEPT ![c] = IF taken THEN v.command ELSE handler[c]]
      /\ IF taken THEN EndBy(c, r, FALSE) ELSE UNCHANGED <<outcome, stranger, ready>>
      /\ UNCHANGED <<twice, orphaned, clientVars, transfer>>
  BY DEF AnswerInOneFrame
<1>2. Chosen /\ Links /\ Queries /\ Knowledge /\ Connections
  BY DEF IInv
<1>3. /\ GoodClient(c, scenario.parts, ready, handler[c], transfer[c], queue[c],
                    reception[c], outcome[c])
      /\ Same(outcome, c) = outcome /\ ready \subseteq Client
  BY ClientIs
<1>4. SoundQueue(queue[c]) /\ r \in Request
  BY <1>1, <1>3, TakenFromQueue DEF GoodClient
<1>5. Offered(all, Len(initializing), server.state, scenario.parts, Head(clients))
  <2>1. /\ server.state \in ServerState /\ GoodQueries(initializing, scenario.parts)
        /\ OwnedBy(initializing, Head(clients))
    BY <1>2 DEF Knowledge, GoodServer, Servers, Queries
  <2>2. QED BY <1>1, <1>4, <2>1, OfferedToAllIs
<1> HIDE DEF r, all
<1>6. /\ all.commands \in Seq(Command) /\ SoundQueue(all.queue) /\ all.state \in ServerState
      /\ \A n \in 1..Len(all.commands) : GoodQuery(all.commands[n], scenario.parts)
      /\ OwnedBy(all.commands, Head(clients))
      /\ all.gone = {} => Len(all.commands) = Len(initializing) /\ all.state = server.state
      /\ all.gone # {} => /\ Len(all.commands) < Len(initializing)
                          /\ all.state \in {"usablePending", "unusable"}
  BY <1>5 DEF Offered, Offers
<1>7. Queries'
  <2>1. Len(initializing) <= 2 /\ initializing \in Seq(Command)
    BY <1>2 DEF Queries, GoodQueries
  <2>2. Len(all.commands) <= 2
    BY <1>6, <2>1
  <2>3. GoodQueries(all.commands, scenario.parts)
    BY <1>6, <2>2 DEF GoodQueries
  <2>4. QED BY <1>1, <2>3 DEF Queries
<1>8. Knowledge'
  <2> DEFINE s == [server EXCEPT !.state = all.state]
             q == all.commands
  <2>1. /\ GoodServer(server, clients, initializing, knows, late, twice, orphaned)
        /\ initializing \in Seq(Command)
    BY <1>2 DEF Knowledge, Queries, GoodQueries
  <2>2. s \in Servers /\ s.state = all.state /\ (s.listed <=> server.listed)
    BY <1>6, <2>1 DEF GoodServer, Servers
  <2> HIDE DEF s
  <2>3. /\ q \in Seq(Command) /\ Len(q) \in Nat /\ Len(initializing) \in Nat
        /\ (q = <<>> <=> Len(q) = 0) /\ (initializing = <<>> <=> Len(initializing) = 0)
    BY <1>6, <2>1
  <2>4. CASE all.gone = {}
    <3>1. s.state = server.state /\ Len(q) = Len(initializing) /\ OwnedBy(q, Head(clients))
      BY <1>6, <2>2, <2>4
    <3> HIDE DEF q
    <3>4. q = <<>> <=> initializing = <<>>
      BY <2>3, <3>1
    <3>2. GoodServer(s, clients, q, knows, late, twice, orphaned)
      BY <2>1, <2>2, <2>3, <3>1, <3>4 DEF GoodServer
    <3>3. QED BY <1>1, <3>2 DEF Knowledge, clientVars, s, q
  <2>5. CASE all.gone # {}
    <3>1. /\ s.state \in {"usablePending", "unusable"} /\ Len(q) < Len(initializing)
          /\ OwnedBy(q, Head(clients))
      BY <1>6, <2>2, <2>5
    <3> HIDE DEF q
    <3>2. initializing # <<>> /\ clients # <<>> /\ server.state # "offline"
      BY <2>1, <2>3, <3>1 DEF GoodServer
    <3>3. s.listed
      BY <2>1, <2>2, <3>2 DEF GoodServer
    <3>4. ~twice => Len(q) = 0
      BY <2>1, <2>3, <3>1 DEF GoodServer
    <3>5. GoodServer(s, clients, q, knows, late, twice, orphaned)
      BY <2>1, <2>2, <2>3, <3>1, <3>2, <3>3, <3>4 DEF GoodServer
    <3>6. QED BY <1>1, <3>5 DEF Knowledge, clientVars, s, q
  <2>6. QED BY <2>4, <2>5
<1>9. Connections'
  <2>1. ASSUME NEW d \in Client, handler'[d] # NoHandler PROVE Connected(d)
    <3>1. CASE d = c /\ taken
      BY <3>1
    <3>2. CASE ~(d = c /\ taken)
      <4>1. handler'[d] = handler[d]
        BY <1>1, <1>2, <3>2 DEF Links
      <4>2. QED BY <2>1, <4>1 DEF Connected
    <3>3. QED BY <3>1, <3>2
  <2>2. ASSUME NEW d \in Client, Connected(d)
        PROVE  all.state = "usable" \/ (twice /\ all.state \in {"usablePending", "unusable"})
    <3>1. CASE all.gone = {}
      BY <1>1, <1>2, <1>6, <2>2, <3>1 DEF Connections, Served
    <3>2. CASE all.gone # {} /\ ~twice
      <4>1. server.state = "usable"
        BY <1>2, <2>2, <3>2 DEF Connections, Served
      <4>2. initializing = <<>>
        BY <1>2, <3>2, <4>1 DEF Knowledge, GoodServer
      <4>3. all.gone = {}
        BY <1>6, <4>2
      <4>4. QED BY <3>2, <4>3
    <3>3. CASE all.gone # {} /\ twice
      BY <1>6, <3>3
    <3>4. QED BY <3>1, <3>2, <3>3
  <2>3. server'.state = all.state
    BY <1>1, <1>2 DEF Knowledge, GoodServer, Servers
  <2>4. clients' = clients /\ twice' = twice
    BY <1>1 DEF clientVars
  <2>5. ASSUME NEW d \in Client, handler'[d] # NoHandler
        PROVE  d \in Range(clients) /\ Served(twice, server')
    BY <1>2, <2>1, <2>2, <2>3, <2>5 DEF Connections, Served
  <2>6. QED BY <2>4, <2>5 DEF Connections, Connected
<1>10. \E o : /\ outcome' = [outcome EXCEPT ![c] = o]
              /\ ready' \subseteq Client
              /\ \A d \in Client \ {c} : d \in ready' => d \in ready
              /\ GoodClient(c, scenario.parts, ready', handler'[c], transfer[c], all.queue,
                            reception'[c], o)
  <2>1. /\ reception'[c] \in Receptions
        /\ reception'[c] # NoReception =>
             reception'[c].answer \in Request /\ reception'[c].answer.kind \in scenario.parts
    <3>1. /\ reception[c] \in Receptions
          /\ reception[c] # NoReception =>
               reception[c].answer \in Request /\ reception[c].answer.kind \in scenario.parts
      BY <1>3 DEF GoodClient
    <3>2. reception'[c] = NoReception \/ reception'[c] = reception[c]
      BY <1>1
    <3>3. QED BY <3>1, <3>2, NoReceptionIs
  <2>2. CASE taken
    <3> DEFINE w == HandlerWorld(c)
               u == [v EXCEPT !.queue = all.queue]
    <3>1. Connected(c) /\ r.kind = h.lastCommand
      BY <2>2 DEF TakesAnswer, Single
    <3>2. SoundWorld(w) /\ Listened(w) /\ w.command = handler[c] /\ IsHandler(handler[c], c)
          /\ w.transfer = transfer[c]
      BY <3>1, HandlerWorldIs
    <3>3. ~w.command.initializing
      BY <3>2 DEF IsHandler
    <3> HIDE DEF w
    <3>4. v = Answered(w, Single(r)) /\ v = FinishCommand(w)
      BY <3>3 DEF w, Answered
    <3>5. /\ SoundWorld(v) /\ Listened(v)
          /\ SameObject(v.command, w.command) /\ v.command.of = w.command.of
          /\ v.command.requestAttempts = w.command.requestAttempts
          /\ v.command.lastCommand = NoCommand /\ ~IsBusy(v.command)
          /\ v.transfer = w.transfer
      BY <3>2, <3>4, CommandEnded
    <3> HIDE DEF v, h
    <3>6. /\ u.command = v.command /\ u.transfer = v.transfer /\ u.queue = all.queue
          /\ u \in Worlds
      BY <1>6, <3>5 DEF SoundWorld, Worlds, SoundQueue
    <3> HIDE DEF u
    <3>7. SoundWorld(u) /\ Listened(u)
      BY <1>6, <3>5, <3>6 DEF SoundWorld, Listened
    <3>8. EndBy(c, r, FALSE) /\ handler'[c] = u.command /\ transfer[c] = u.transfer
      BY <1>1, <1>2, <2>2, <3>2, <3>5, <3>6 DEF Links
    <3>9. r.kind = handler[c].lastCommand
      BY <3>1 DEF h
    <3>10. /\ SameObject(u.command, handler[c]) /\ u.command.of = handler[c].of
           /\ u.command.requestAttempts = handler[c].requestAttempts
           /\ u.command.lastCommand = NoCommand /\ ~IsBusy(u.command)
      BY <3>2, <3>5, <3>6
    <3> DEFINE rec == reception'[c]
    <3> HIDE DEF rec
    <3>11. rec \in Receptions /\ (rec # NoReception => rec.answer \in Request /\ rec.answer.kind \in scenario.parts)
      BY <2>1 DEF rec
    <3>12. \E o : /\ outcome' = [outcome EXCEPT ![c] = o]
                  /\ ready' \subseteq Client
                  /\ \A d \in Client \ {c} : d \in ready' => d \in ready
                  /\ GoodClient(c, scenario.parts, ready', u.command, u.transfer, u.queue, rec, o)
      BY <1>4, <3>1, <3>7, <3>8, <3>9, <3>10, <3>11, CommandEndedKeeps
    <3>13. QED BY <3>6, <3>8, <3>12 DEF rec
  <2>3. CASE ~taken
    <3>1. handler'[c] = handler[c] /\ outcome' = outcome /\ ready' = ready
      BY <1>1, <1>2, <2>3 DEF Links
    <3>2. outcome' = [outcome EXCEPT ![c] = outcome[c]]
      BY <1>3, <3>1 DEF Same
    <3>3. GoodClient(c, scenario.parts, ready', handler'[c], transfer[c], all.queue,
                     reception'[c], outcome[c])
      BY <1>3, <1>6, <2>1, <3>1 DEF GoodClient
    <3>4. ready' \subseteq Client /\ \A d \in Client \ {c} : d \in ready' => d \in ready
      BY <1>3, <3>1
    <3>5. QED BY <3>2, <3>3, <3>4
  <2>4. QED BY <2>2, <2>3
<1>11. Links'
  <2>1. /\ handler \in [Client -> Command] /\ transfer \in [Client -> Transfers]
        /\ queue \in [Client -> Seq(Request)] /\ reception \in [Client -> Receptions]
        /\ outcome \in [Client -> {"none", "asked", "told", "unheard"}]
    BY <1>2 DEF Links
  <2> HIDE DEF taken, v, h
  <2>2. PICK o : /\ outcome' = [outcome EXCEPT ![c] = o]
                 /\ ready' \subseteq Client
                 /\ \A d \in Client \ {c} : d \in ready' => d \in ready
                 /\ GoodClient(c, scenario.parts, ready', handler'[c], transfer[c], all.queue,
                               reception'[c], o)
    BY <1>10
  <2>3. /\ handler'[c] \in Command /\ o \in {"none", "asked", "told", "unheard"}
        /\ all.queue \in Seq(Request)
    BY <2>2 DEF GoodClient, SoundQueue
  <2>4. ASSUME NEW d \in Client \ {c}
        PROVE  /\ handler'[d] = handler[d] /\ transfer'[d] = transfer[d]
               /\ queue'[d] = queue[d] /\ outcome'[d] = outcome[d]
    BY <1>1, <2>1, <2>2
  <2>5. ASSUME NEW d \in Client PROVE reception'[d] = NoReception \/ reception'[d] = reception[d]
    BY <1>1
  <2>6. /\ handler' \in [Client -> Command] /\ transfer' \in [Client -> Transfers]
        /\ queue' \in [Client -> Seq(Request)]
        /\ outcome' \in [Client -> {"none", "asked", "told", "unheard"}]
    BY <1>1, <2>1, <2>2, <2>3
  <2>7. reception' \in [Client -> Receptions]
    BY <1>1, <2>1, NoReceptionIs
  <2>8. ASSUME NEW d \in Client
        PROVE  GoodClient(d, scenario'.parts, ready', handler'[d], transfer'[d], queue'[d],
                          reception'[d], outcome'[d])
    <3>1. CASE d = c
      <4>1. queue'[d] = all.queue /\ transfer'[d] = transfer[c] /\ outcome'[d] = o
        BY <1>1, <2>1, <2>2, <3>1
      <4>2. QED BY <2>2, <3>1, <4>1
    <3>2. CASE d # c
      <4>1. GoodClient(d, scenario.parts, ready, handler[d], transfer[d], queue[d],
                       reception[d], outcome[d])
        BY <1>2 DEF Links
      <4>2. d \in ready' => d \in ready
        BY <2>2, <3>2
      <4>3. GoodClient(d, scenario.parts, ready', handler[d], transfer[d], queue[d],
                       reception'[d], outcome[d])
        BY <2>5, <4>1, <4>2, NoReceptionIs DEF GoodClient
      <4>4. QED BY <2>4, <3>2, <4>3
    <3>3. QED BY <3>1, <3>2
  <2>9. QED BY <2>6, <2>7, <2>8 DEF Links
<1>12. Chosen'
  BY <1>2, <1>10 DEF Chosen
<1>13. QED BY <1>7, <1>8, <1>9, <1>11, <1>12 DEF IInv

-----------------------------------------------------------------------------
(* Connections that end.                                                   *)

(* The links of the clients in S are cut, those of the others stay as they were. *)
LEMMA DisconnectedKeeps ==
  ASSUME Chosen, Links, NEW S, NEW gone, Disconnected(S, gone), UNCHANGED scenario,
         queue' \in [Client -> Seq(Request)], \A d \in Client : SoundQueue(queue'[d])
  PROVE  /\ Chosen' /\ Links'
         /\ \A d \in Client : handler'[d] = IF d \in S THEN NoHandler ELSE handler[d]
<1>1. /\ handler \in [Client -> Command] /\ transfer \in [Client -> Transfers]
      /\ reception \in [Client -> Receptions]
      /\ outcome \in [Client -> {"none", "asked", "told", "unheard"}]
  BY DEF Links
<1>2. /\ handler' = [d \in Client |-> IF d \in S THEN NoHandler ELSE handler[d]]
      /\ transfer' = [d \in Client |-> IF d \in S THEN NoTransfer ELSE transfer[d]]
      /\ reception' = [d \in Client |->
           IF reception[d].to \in gone \/ (d \in S /\ reception[d].to = HandlerId)
           THEN NoReception ELSE reception[d]]
      /\ ready' = ready \ S
      /\ outcome' = [d \in Client |-> IF d \in S THEN "none" ELSE outcome[d]]
  BY DEF Disconnected
<1>3. ASSUME NEW d \in Client
      PROVE  /\ handler'[d] = IF d \in S THEN NoHandler ELSE handler[d]
             /\ transfer'[d] = IF d \in S THEN NoTransfer ELSE transfer[d]
             /\ outcome'[d] = IF d \in S THEN "none" ELSE outcome[d]
             /\ reception'[d] = NoReception \/ reception'[d] = reception[d]
  BY <1>2
<1>4. /\ handler' \in [Client -> Command] /\ transfer' \in [Client -> Transfers]
      /\ reception' \in [Client -> Receptions]
      /\ outcome' \in [Client -> {"none", "asked", "told", "unheard"}]
  BY <1>1, <1>2, NoHandlerIs, NoTransferIs, NoReceptionIs
<1>5. ASSUME NEW d \in Client
      PROVE  GoodClient(d, scenario'.parts, ready', handler'[d], transfer'[d], queue'[d],
                        reception'[d], outcome'[d])
  <2>1. /\ GoodClient(d, scenario.parts, ready, handler[d], transfer[d], queue[d],
                      reception[d], outcome[d])
        /\ SoundQueue(queue'[d])
    BY DEF Links
  <2> DEFINE rec == reception'[d]
  <2>2. /\ rec \in Receptions
        /\ rec # NoReception => rec.answer \in Request /\ rec.answer.kind \in scenario.parts
    <3>1. /\ reception[d] \in Receptions
          /\ reception[d] # NoReception =>
               reception[d].answer \in Request /\ reception[d].answer.kind \in scenario.parts
      BY <2>1 DEF GoodClient
    <3>2. QED BY <1>3, <3>1, NoReceptionIs
  <2> HIDE DEF rec
  <2>3. CASE d \in S
    <3>1. GoodClient(d, scenario.parts, ready', NoHandler, NoTransfer, queue'[d], rec, "none")
      BY <2>1, <2>2, NoHandlerIs, NoTransferIs DEF GoodClient, NoCommand
    <3>2. QED BY <1>3, <2>3, <3>1 DEF rec
  <2>4. CASE d \notin S
    <3>1. d \in ready' => d \in ready
      BY <1>2
    <3>2. GoodClient(d, scenario.parts, ready', handler[d], transfer[d], queue'[d], rec,
                     outcome[d])
      BY <2>1, <2>2, <3>1 DEF GoodClient
    <3>3. QED BY <1>3, <2>4, <3>2 DEF rec
  <2>5. QED BY <2>3, <2>4
<1>6. Chosen'
  BY <1>2 DEF Chosen
<1>7. QED BY <1>3, <1>4, <1>5, <1>6 DEF Links

(* A lost server keeps the invariant: nobody stays connected to a usable one. *)
LEMMA GoOfflineKeeps ==
  ASSUME IInv, UNCHANGED scenario, NEW listed \in BOOLEAN, GoOffline(listed),
         listed => server.listed /\ server.state \in {"online", "usable"}
  PROVE  IInv'
<1> DEFINE S == ToldOffline(server.state)
<1>1. /\ server' = [server EXCEPT !.state = "offline", !.listed = listed, !.due = FALSE, !.age = 0]
      /\ initializing' = <<>> /\ Disconnected(S, InitIds)
      /\ queue' = [c \in Client |-> <<>>]
      /\ knows' = {} /\ late' = {}
      /\ twice' = (twice /\ \E c \in Client : handler'[c] # NoHandler)
      /\ UNCHANGED <<clients, registered>>
  BY DEF GoOffline
<1>2. Chosen /\ Links /\ Queries /\ Knowledge /\ Connections
  BY DEF IInv
<1>3. /\ queue' \in [Client -> Seq(Request)] /\ \A d \in Client : SoundQueue(queue'[d])
  BY <1>1, FsCommandAssumption DEF SoundQueue
<1> HIDE DEF S
<1>4. /\ Chosen' /\ Links'
      /\ \A d \in Client : handler'[d] = IF d \in S THEN NoHandler ELSE handler[d]
  BY <1>1, <1>2, <1>3, DisconnectedKeeps
<1>5. Queries'
  BY <1>1 DEF Queries, GoodQueries
<1>6. server' \in Servers /\ server'.state = "offline" /\ server'.listed = listed
  <2>1. server \in Servers
    BY <1>2 DEF Knowledge, GoodServer
  <2>2. 0 \in 0..StatusLost+1 /\ "offline" \in ServerState
    BY FsClientAssumption DEF ServerState
  <2>3. server' = [server EXCEPT !.state = "offline", !.listed = listed, !.due = FALSE, !.age = 0]
    BY <1>1
  <2>4. QED BY <2>1, <2>2, <2>3 DEF Servers
<1>7. Knowledge'
  <2>1. Len(initializing') = 0
    BY <1>1
  <2>2. QED BY <1>1, <1>2, <1>6, <2>1 DEF Knowledge, GoodServer, OwnedBy
<1>8. Connections'
  <2>1. ASSUME NEW d \in Client, handler'[d] # NoHandler
        PROVE  d \in Range(clients) /\ Served(twice', server')
    <3>1. Connected(d) /\ d \notin S
      BY <1>4, <2>1 DEF Connected
    <3>2. d \in Range(clients) /\ Served(twice, server)
      BY <1>2, <3>1 DEF Connections
    <3>3. server.state # "usable"
      BY <3>1, <3>2 DEF S, ToldOffline
    <3>4. \E c \in Client : handler'[c] # NoHandler
      BY <2>1
    <3>5. ~listed
      BY <3>2, <3>3 DEF Served
    <3>6. QED BY <1>1, <1>6, <3>2, <3>3, <3>4, <3>5 DEF Served
  <2>2. clients' = clients
    BY <1>1
  <2>3. QED BY <2>1, <2>2 DEF Connections, Connected
<1>9. QED BY <1>4, <1>5, <1>7, <1>8 DEF IInv

(* What is picked in order from two is two at most, and from one is one.  *)
LEMMA NoMoreThanTwo ==
  ASSUME NEW m \in 0..2, NEW n \in Nat, NEW f \in [1..n -> 1..m],
         \A k, l \in 1..n : k < l => f[k] < f[l]
  PROVE  n <= m
<1>1. CASE n = 0
  BY <1>1
<1>2. CASE n = 1
  <2>1. 1 \in 1..n
    BY <1>2
  <2>2. f[1] \in 1..m
    BY <2>1
  <2>3. QED BY <1>2, <2>2
<1>3. CASE n = 2
  <2>1. 1 \in 1..n /\ 2 \in 1..n
    BY <1>3
  <2>2. f[1] \in 1..m /\ f[2] \in 1..m /\ f[1] < f[2]
    BY <2>1
  <2>3. QED BY <1>3, <2>2
<1>4. CASE n > 2
  <2>1. 1 \in 1..n /\ 2 \in 1..n /\ 3 \in 1..n
    BY <1>4
  <2>2. f[1] \in 1..m /\ f[2] \in 1..m /\ f[3] \in 1..m /\ f[1] < f[2] /\ f[2] < f[3]
    BY <2>1
  <2>3. QED BY <2>2
<1>5. QED BY <1>1, <1>2, <1>3, <1>4

(* The first of a list stays the first if it is kept.                      *)
LEMMA HeadKept ==
  ASSUME NEW S, NEW q \in Seq(S), q # <<>>, NEW keep, Head(q) \in keep
  PROVE  Selected(q, keep) # <<>> /\ Head(Selected(q, keep)) = Head(q)
<1> DEFINE r == Selected(q, keep)
<1>1. r \in Seq(S) /\ \E f : Picks(f, q, keep, r)
  BY SelectedPicks
<1> HIDE DEF r
<1>2. PICK f : Picks(f, q, keep, r)
  BY <1>1
<1>3. /\ f \in [1..Len(r) -> 1..Len(q)]
      /\ \A k \in 1..Len(r) : r[k] = q[f[k]]
      /\ \A k, l \in 1..Len(r) : k < l => f[k] < f[l]
      /\ \A k \in 1..Len(q) : q[k] \in keep => \E l \in 1..Len(r) : f[l] = k
  BY <1>2 DEF Picks
<1>4. 1 \in 1..Len(q) /\ q[1] = Head(q)
  OBVIOUS
<1>5. PICK l \in 1..Len(r) : f[l] = 1
  BY <1>3, <1>4
<1>6. Len(r) \in Nat /\ 1 \in 1..Len(r)
  BY <1>1, <1>5
<1>7. f[1] = 1
  <2>1. CASE l = 1
    BY <1>5, <2>1
  <2>2. CASE l # 1
    <3>1. 1 < l
      BY <1>6, <2>2
    <3>2. f[1] < f[l] /\ f[1] \in 1..Len(q)
      BY <1>3, <1>6, <3>1
    <3>3. QED BY <1>5, <3>2
  <2>3. QED BY <2>1, <2>2
<1>8. r # <<>> /\ r[1] = q[1]
  BY <1>1, <1>3, <1>6, <1>7
<1>9. QED BY <1>1, <1>4, <1>8 DEF r

(* A client that leaves keeps the invariant.                               *)
LEMMA DeregisterKeeps ==
  ASSUME IInv, NEW c \in Client, UNCHANGED scenario, Deregister(c)
  PROVE  IInv'
<1> DEFINE mine == {i.id : i \in {j \in Range(initializing) : j.client = c}}
           keep == {i \in Range(initializing) : i.id \in InitIds \ mine}
           q == Selected(initializing, keep)
           cs == Selected(clients, Client \ {c})
<1>1. /\ initializing' = KeepInitializing(InitIds \ mine) /\ Disconnected({c}, mine)
      /\ orphaned' = (orphaned \/ mine # {})
      /\ clients' = cs
      /\ knows' = knows \ {c} /\ late' = late \ {c}
      /\ UNCHANGED <<server, twice, registered, queue>>
  BY DEF Deregister
<1>2. initializing' = q
  BY <1>1 DEF KeepInitializing
<1>3. Chosen /\ Links /\ Queries /\ Knowledge /\ Connections
  BY DEF IInv
<1>4. /\ queue' \in [Client -> Seq(Request)] /\ \A d \in Client : SoundQueue(queue'[d])
  BY <1>1, <1>3 DEF Links, GoodClient
<1> HIDE DEF mine
<1>5. /\ Chosen' /\ Links'
      /\ \A d \in Client : handler'[d] = IF d \in {c} THEN NoHandler ELSE handler[d]
  BY <1>1, <1>3, <1>4, DisconnectedKeeps
<1>6. /\ GoodQueries(initializing, scenario.parts)
      /\ GoodServer(server, clients, initializing, knows, late, twice, orphaned)
  BY <1>3 DEF Queries, Knowledge
<1>7. /\ initializing \in Seq(Command) /\ Len(initializing) <= 2 /\ clients \in Seq(Client)
      /\ \A n \in 1..Len(initializing) : GoodQuery(initializing[n], scenario.parts)
  BY <1>6 DEF GoodQueries, GoodServer
<1>8. q \in Seq(Command) /\ \E f : Picks(f, initializing, keep, q)
  BY <1>7, SelectedPicks
<1>9. /\ cs \in Seq(Client) /\ Range(cs) = Range(clients) \intersect (Client \ {c})
  BY <1>7, SelectedIs
<1>20. clients # <<>> /\ Head(clients) # c => cs # <<>> /\ Head(cs) = Head(clients)
  <2>1. SUFFICES ASSUME clients # <<>>, Head(clients) # c
                 PROVE  cs # <<>> /\ Head(cs) = Head(clients)
    OBVIOUS
  <2>2. Head(clients) \in Client \ {c}
    BY <1>7, <2>1
  <2>3. QED BY <1>7, <2>1, <2>2, HeadKept
<1> HIDE DEF cs, q, keep
<1>10. PICK f : Picks(f, initializing, keep, q)
  BY <1>8
<1>11. /\ f \in [1..Len(q) -> 1..Len(initializing)]
       /\ \A k \in 1..Len(q) : q[k] = initializing[f[k]]
       /\ \A k, l \in 1..Len(q) : k < l => f[k] < f[l]
       /\ \A k \in 1..Len(initializing) :
            initializing[k] \in keep => \E l \in 1..Len(q) : f[l] = k
  BY <1>10 DEF Picks
<1>12. Len(q) \in Nat /\ Len(initializing) \in Nat
  BY <1>7, <1>8
<1>13. Len(q) <= Len(initializing)
  <2> DEFINE m == Len(initializing)
             n == Len(q)
  <2>1. /\ f \in [1..n -> 1..m]
        /\ \A k, l \in 1..n : k < l => f[k] < f[l]
    BY <1>11
  <2>2. m \in Nat /\ m <= 2 /\ n \in Nat
    BY <1>7, <1>12
  <2> HIDE DEF m, n
  <2>5. m \in 0..2
    BY <2>2
  <2>3. n <= m
    BY <2>1, <2>2, <2>5, NoMoreThanTwo
  <2>4. QED BY <2>3 DEF m, n
<1>14. Queries'
  <2>1. ASSUME NEW k \in 1..Len(q) PROVE GoodQuery(q[k], scenario.parts)
    BY <1>7, <1>11
  <2>2. Len(q) <= 2
    BY <1>7, <1>12, <1>13
  <2>3. GoodQueries(q, scenario.parts)
    BY <1>8, <2>1, <2>2 DEF GoodQueries
  <2>4. QED BY <1>2, <2>3 DEF Queries
<1>15. initializing # <<>> => q # <<>> \/ mine # {}
  <2>1. SUFFICES ASSUME initializing # <<>>, mine = {} PROVE q # <<>>
    OBVIOUS
  <2>2. 1 \in 1..Len(initializing) /\ initializing[1] \in Range(initializing)
    BY <1>7, <1>12, <2>1 DEF Range
  <2>3. initializing[1].id \in InitIds
    BY <1>7, <2>2 DEF InitIds
  <2>4. initializing[1] \in keep
    BY <2>1, <2>2, <2>3 DEF keep
  <2>5. \E l \in 1..Len(q) : f[l] = 1
    BY <1>11, <2>2, <2>4
  <2>6. QED BY <1>8, <2>5
<1>16. initializing = <<>> => q = <<>>
  <2>1. initializing = <<>> => Len(q) = 0
    BY <1>12, <1>13
  <2>2. QED BY <1>8, <2>1
<1>21. Head(clients) = c => q = <<>> /\ (mine = {} => initializing = <<>>)
  <2>1. SUFFICES ASSUME Head(clients) = c
                 PROVE  q = <<>> /\ (mine = {} => initializing = <<>>)
    OBVIOUS
  <2>2. ASSUME NEW n \in 1..Len(initializing)
        PROVE  initializing[n] \in Range(initializing) /\ initializing[n].id \in mine
    <3>1. initializing[n] \in Range(initializing)
      BY <1>7 DEF Range
    <3>2. initializing[n].client = c
      BY <1>6, <2>1 DEF GoodServer, OwnedBy
    <3>3. QED BY <3>1, <3>2 DEF mine
  <2>3. ASSUME NEW k \in 1..Len(q) PROVE FALSE
    <3>1. f[k] \in 1..Len(initializing) /\ q[k] = initializing[f[k]]
      BY <1>11
    <3>2. q[k].id \in mine
      BY <2>2, <3>1
    <3>3. q[k] \in keep
      BY <1>10, <2>3 DEF Picks
    <3>4. QED BY <3>2, <3>3 DEF keep
  <2>4. Len(q) = 0
    BY <1>12, <2>3
  <2>5. q = <<>>
    BY <1>8, <2>4
  <2>6. mine = {} => Len(initializing) = 0
    BY <1>12, <2>2
  <2>7. QED BY <1>7, <2>5, <2>6
<1>22. Head(clients) # c => mine = {}
  <2>1. SUFFICES ASSUME Head(clients) # c, mine # {} PROVE FALSE
    OBVIOUS
  <2>2. PICK i \in Range(initializing) : i.client = c
    BY <2>1 DEF mine
  <2>3. PICK n \in 1..Len(initializing) : i = initializing[n]
    BY <1>7, <2>2 DEF Range
  <2>4. QED BY <1>6, <2>1, <2>2, <2>3 DEF GoodServer, OwnedBy
<1>17. Knowledge'
  <2> DEFINE orph == orphaned \/ mine # {}
             kn == knows \ {c}
             la == late \ {c}
  <2>1. kn \subseteq Range(cs) /\ la \subseteq Client
    <3>1. Range(clients) \subseteq Client
      BY <1>7 DEF Range
    <3>2. QED BY <1>6, <1>9, <3>1 DEF GoodServer
  <2>2. server.state = "usable" => kn = Range(cs) \ la
    <3>1. Range(cs) = Range(clients) \ {c}
      <4>1. Range(clients) \subseteq Client
        BY <1>7 DEF Range
      <4>2. QED BY <1>9, <4>1
    <3>2. QED BY <1>6, <3>1 DEF GoodServer
  <2>3. server.state = "online" /\ cs # <<>> => (q = <<>> <=> orph)
    <3>1. SUFFICES ASSUME server.state = "online", cs # <<>> PROVE q = <<>> <=> orph
      OBVIOUS
    <3>2. clients # <<>>
      <4>1. SUFFICES ASSUME clients = <<>> PROVE FALSE
        OBVIOUS
      <4>2. Range(clients) = {}
        BY <4>1 DEF Range
      <4>3. Range(cs) = {}
        BY <1>9, <4>2
      <4>4. 1 \in DOMAIN cs
        BY <1>9, <3>1
      <4>5. QED BY <4>3, <4>4 DEF Range
    <3>3. initializing = <<>> <=> orphaned
      BY <1>6, <3>1, <3>2 DEF GoodServer
    <3>4. CASE Head(clients) = c
      BY <1>21, <3>3, <3>4
    <3>5. CASE Head(clients) # c
      BY <1>15, <1>16, <1>22, <3>3, <3>5
    <3>6. QED BY <3>4, <3>5
  <2>4. ~twice => Len(q) <= 1 /\ (q # <<>> => server.state = "online")
    BY <1>6, <1>12, <1>13, <1>16 DEF GoodServer
  <2>10. (q # <<>> => cs # <<>>) /\ OwnedBy(q, Head(cs))
    <3>1. CASE Head(clients) = c
      <4>1. Len(q) = 0
        BY <1>21, <3>1
      <4>2. QED BY <1>21, <3>1, <4>1 DEF OwnedBy
    <3>2. CASE Head(clients) # c
      <4>1. q # <<>> => clients # <<>>
        BY <1>6, <1>16 DEF GoodServer
      <4>2. ASSUME NEW k \in 1..Len(q) PROVE q[k].client = Head(cs)
        <5>1. q # <<>>
          BY <1>8, <4>2
        <5>2. f[k] \in 1..Len(initializing) /\ q[k] = initializing[f[k]]
          BY <1>11
        <5>3. q[k].client = Head(clients)
          BY <1>6, <5>2 DEF GoodServer, OwnedBy
        <5>4. QED BY <1>20, <3>2, <4>1, <5>1, <5>3
      <4>3. QED BY <1>20, <3>2, <4>1, <4>2 DEF OwnedBy
    <3>3. QED BY <3>1, <3>2
  <2> HIDE DEF orph, kn, la
  <2>5. GoodServer(server, cs, q, kn, la, twice, orph)
    BY <1>6, <1>9, <1>16, <2>1, <2>2, <2>3, <2>4, <2>10 DEF GoodServer
  <2>6. /\ server' = server /\ clients' = cs /\ initializing' = q /\ knows' = kn
        /\ late' = la /\ twice' = twice
    BY <1>1, <1>2 DEF kn, la
  <2>7. orphaned' <=> orph
    BY <1>1 DEF orph
  <2>8. GoodServer(server, cs, q, kn, la, twice, orphaned')
    BY <2>5, <2>7 DEF GoodServer
  <2>9. QED BY <2>6, <2>8 DEF Knowledge
<1>18. Connections'
  <2>1. ASSUME NEW d \in Client, handler'[d] # NoHandler
        PROVE  d \in Range(cs) /\ Served(twice, server)
    <3>1. d # c /\ Connected(d)
      BY <1>5, <2>1 DEF Connected
    <3>2. QED BY <1>3, <1>9, <3>1 DEF Connections
  <2>2. clients' = cs /\ twice' = twice /\ server' = server
    BY <1>1
  <2>3. QED BY <2>1, <2>2 DEF Connections, Connected
<1>19. QED BY <1>5, <1>14, <1>17, <1>18 DEF IInv

-----------------------------------------------------------------------------
(* Initializations.                                                        *)

(* An identity for the new command is free.                                *)
LEMMA FreeIdentity ==
  ASSUME NEW q \in Seq(Command), Len(q) <= 1
  PROVE  LET ids == {q[i].id : i \in DOMAIN q} IN
         (CHOOSE n \in 1..2 : n \notin ids) \in 1..2
<1> DEFINE ids == {q[i].id : i \in DOMAIN q}
<1>1. \E n \in 1..2 : n \notin ids
  <2> DEFINE m == Len(q)
  <2>5. m \in Nat /\ m <= 1
    OBVIOUS
  <2> HIDE DEF m
  <2>6. m = 0 \/ m = 1
    BY <2>5
  <2>1. Len(q) = 0 \/ Len(q) = 1
    BY <2>6 DEF m
  <2>2. CASE Len(q) = 0
    <3>1. DOMAIN q = {}
      BY <2>2
    <3>2. 1 \in 1..2 /\ 1 \notin ids
      BY <3>1
    <3>3. QED BY <3>2
  <2>3. CASE Len(q) = 1
    <3>1. DOMAIN q = {1}
      BY <2>3
    <3>2. ids = {q[1].id}
      BY <3>1
    <3>3. 1 \in 1..2 /\ 2 \in 1..2 /\ (1 \notin ids \/ 2 \notin ids)
      BY <3>2
    <3>4. QED BY <3>3
  <2>4. QED BY <2>1, <2>2, <2>3
<1> HIDE DEF ids
<1>2. (CHOOSE n \in 1..2 : n \notin ids) \in 1..2
  BY <1>1
<1>3. QED BY <1>2 DEF ids

(* Initialize() adds an initializing command.                              *)
LEMMA InitializeIs ==
  ASSUME Queries, Len(initializing) <= 1, NEW c \in Client, Initialize(c), UNCHANGED scenario
  PROVE  /\ Queries' /\ initializing' # <<>> /\ Len(initializing') = Len(initializing) + 1
         /\ twice' <=> (twice \/ initializing # <<>>)
         /\ ~orphaned'
         /\ OwnedBy(initializing, c) => OwnedBy(initializing', c)
<1>1. initializing \in Seq(Command)
  BY DEF Queries, GoodQueries
<1> DEFINE id == CHOOSE n \in 1..2 : n \notin InitIds
<1>2. id \in 1..2
  BY <1>1, FreeIdentity DEF InitIds
<1> HIDE DEF id
<1>3. PICK garbage \in Kind \union {NoCommand} :
        /\ initializing' = Append(initializing, NewCommand(id, c, TRUE, garbage))
        /\ twice' = (twice \/ initializing # <<>>)
        /\ orphaned' = FALSE
  BY DEF Initialize, id
<1> DEFINE new == NewCommand(id, c, TRUE, garbage)
           q == initializing'
<1>4. GoodQuery(new, scenario.parts) /\ new.client = c
  <2>1. new.client = c
    BY DEF NewCommand
  <2>2. QED BY <1>2, <2>1, NewQueryIs
<1>5. new \in Command
  BY <1>4 DEF GoodQuery, Sound
<1>6. q = Append(initializing, new)
  BY <1>3
<1> HIDE DEF new, q
<1>7. /\ q \in Seq(Command) /\ Len(q) = Len(initializing) + 1 /\ Len(q) \in Nat
      /\ q[Len(q)] = new /\ \A k \in 1..Len(initializing) : q[k] = initializing[k]
  BY <1>1, <1>5, <1>6
<1>8. \A k \in 1..Len(q) : GoodQuery(q[k], scenario.parts)
  <2>1. \A k \in 1..Len(initializing) : GoodQuery(initializing[k], scenario.parts)
    BY DEF Queries, GoodQueries
  <2>2. \A k \in 1..Len(q) : k = Len(q) \/ k \in 1..Len(initializing)
    BY <1>1, <1>7
  <2>3. QED BY <1>4, <1>7, <2>1, <2>2
<1>9. GoodQueries(q, scenario.parts)
  BY <1>1, <1>7, <1>8 DEF GoodQueries
<1>10. Queries'
  BY <1>9 DEF Queries, q
<1>11. q # <<>>
  BY <1>1, <1>7
<1>13. OwnedBy(initializing, c) => OwnedBy(q, c)
  <2>1. SUFFICES ASSUME OwnedBy(initializing, c), NEW k \in 1..Len(q) PROVE q[k].client = c
    BY DEF OwnedBy
  <2>2. k = Len(q) \/ k \in 1..Len(initializing)
    BY <1>1, <1>7
  <2>3. QED BY <1>4, <1>7, <2>1, <2>2 DEF OwnedBy
<1>12. QED BY <1>3, <1>7, <1>10, <1>11, <1>13 DEF q

(* A status message keeps the invariant.                                   *)
LEMMA StatusKeeps ==
  ASSUME IInv, NEW busy \in BOOLEAN, UNCHANGED scenario, Status(busy)
  PROVE  IInv'
<1> DEFINE now == IF server.state = "offline" THEN "online" ELSE server.state
<1>1. /\ server.listed
      /\ server' = [server EXCEPT !.state = now, !.busy = busy, !.age = 0]
      /\ UNCHANGED <<clients, registered, knows, late, handler, transfer, queue, reception,
                     ready, outcome>>
  BY DEF Status, clientVars, linkVars
<1>2. Chosen /\ Links /\ Queries /\ Knowledge /\ Connections
  BY DEF IInv
<1>3. GoodServer(server, clients, initializing, knows, late, twice, orphaned)
  BY <1>2 DEF Knowledge
<1>4. server \in Servers /\ clients \in Seq(Client)
  BY <1>3 DEF GoodServer
<1>5. now \in ServerState /\ now # "offline" /\ (server.state # "offline" => now = server.state)
      /\ (server.state = "offline" => now = "online")
  BY <1>4 DEF Servers, ServerState
<1>6. now = "usable" => server.state = "usable"
  BY <1>5
<1> HIDE DEF now
<1>7. server' \in Servers /\ server'.state = now /\ server'.listed
  <2>1. 0 \in 0..StatusLost+1
    BY FsClientAssumption
  <2>2. QED BY <1>1, <1>4, <1>5, <2>1 DEF Servers
<1>8. Chosen' /\ Links'
  BY <1>1, <1>2 DEF Chosen, Links
<1>9. Queries' /\ Knowledge' /\ (twice => twice')
  <2>1. CASE server.state = "offline" /\ clients # <<>>
    <3>1. Initialize(Head(clients))
      BY <2>1 DEF Status
    <3>2. Head(clients) \in Client
      BY <1>4, <2>1
    <3>3. initializing = <<>>
      BY <1>3, <2>1 DEF GoodServer
    <3>4. Len(initializing) = 0
      BY <3>3
    <3>5. /\ Queries' /\ initializing' # <<>> /\ Len(initializing') = 1
          /\ twice' <=> (twice \/ initializing # <<>>)
          /\ ~orphaned' /\ OwnedBy(initializing', Head(clients))
      <4>1. OwnedBy(initializing, Head(clients))
        BY <3>4 DEF OwnedBy
      <4>2. QED BY <1>2, <3>1, <3>2, <3>4, <4>1, InitializeIs
    <3>6. twice' <=> twice
      BY <3>3, <3>5
    <3>7. GoodServer(server', clients, initializing', knows, late, twice', orphaned')
      BY <1>3, <1>5, <1>7, <2>1, <3>5 DEF GoodServer
    <3>8. QED BY <1>1, <3>5, <3>6, <3>7 DEF Knowledge
  <2>2. CASE ~(server.state = "offline" /\ clients # <<>>)
    <3>1. UNCHANGED <<initializing, twice, orphaned>>
      BY <2>2 DEF Status
    <3>2. GoodServer(server', clients, initializing, knows, late, twice, orphaned)
      BY <1>3, <1>5, <1>7, <2>2 DEF GoodServer
    <3>3. QED BY <1>1, <1>2, <3>1, <3>2 DEF Knowledge, Queries
  <2>3. QED BY <2>1, <2>2
<1>10. Connections'
  <2>1. ASSUME NEW d \in Client, handler'[d] # NoHandler
        PROVE  d \in Range(clients) /\ Served(twice', server')
    <3>1. Connected(d)
      BY <1>1, <2>1 DEF Connected
    <3>2. d \in Range(clients) /\ Served(twice, server)
      BY <1>2, <3>1 DEF Connections
    <3>3. server.state # "offline"
      BY <1>1, <3>2 DEF Served
    <3>4. QED BY <1>1, <1>5, <1>7, <1>9, <3>2, <3>3 DEF Served
  <2>2. clients' = clients
    BY <1>1
  <2>3. QED BY <1>7, <2>1, <2>2 DEF Connections, Connected
<1>11. QED BY <1>8, <1>9, <1>10 DEF IInv

(* A registration keeps the invariant.                                     *)
LEMMA RegisterKeeps ==
  ASSUME IInv, NEW c \in Client, UNCHANGED scenario, Register(c)
  PROVE  IInv'
<1> DEFINE cs == Append(clients, c)
           la == IF server.state = "usable" THEN late \union {c} ELSE late
<1>1. /\ clients' = cs /\ late' = la
      /\ UNCHANGED <<server, knows, handler, transfer, queue, reception, ready, outcome>>
  BY DEF Register, linkVars
<1>2. Chosen /\ Links /\ Queries /\ Knowledge /\ Connections
  BY DEF IInv
<1>3. GoodServer(server, clients, initializing, knows, late, twice, orphaned)
  BY <1>2 DEF Knowledge
<1>4. clients \in Seq(Client)
  BY <1>3 DEF GoodServer
<1>5. cs \in Seq(Client) /\ Range(cs) = Range(clients) \union {c} /\ Head(cs) \in Client
  <2>1. /\ cs \in Seq(Client) /\ Len(cs) = Len(clients) + 1 /\ cs[Len(cs)] = c
        /\ \A k \in 1..Len(clients) : cs[k] = clients[k]
    BY <1>4
  <2>2. DOMAIN cs = 1..Len(cs) /\ DOMAIN clients = 1..Len(clients) /\ Len(clients) \in Nat
    BY <1>4, <2>1
  <2> HIDE DEF cs
  <2>3. \A k \in 1..Len(cs) : k = Len(cs) \/ k \in 1..Len(clients)
    BY <2>1, <2>2
  <2>4. Len(cs) \in 1..Len(cs) /\ \A k \in 1..Len(clients) : k \in 1..Len(cs)
    BY <2>1, <2>2
  <2>5. Range(cs) = Range(clients) \union {c}
    BY <2>1, <2>2, <2>3, <2>4 DEF Range
  <2>6. cs # <<>>
    BY <2>1, <2>2
  <2>7. QED BY <2>1, <2>5, <2>6
<1>12. cs # <<>>
  <2>1. Len(cs) = Len(clients) + 1 /\ Len(clients) \in Nat
    BY <1>4
  <2>2. cs = <<>> => Len(cs) = 0
    OBVIOUS
  <2> HIDE DEF cs
  <2>3. QED BY <2>1, <2>2
<1> HIDE DEF cs
<1>6. la \subseteq Client /\ (server.state = "usable" => knows = Range(cs) \ la)
  <2>1. c \notin Range(clients)
    BY DEF Register
  <2>2. QED BY <1>3, <1>5, <2>1 DEF GoodServer
<1> HIDE DEF la
<1>11. OwnedBy(initializing, Head(cs))
  <2>1. CASE clients = <<>>
    <3>1. Len(initializing) = 0
      BY <1>3, <2>1 DEF GoodServer
    <3>2. QED BY <3>1 DEF OwnedBy
  <2>2. CASE clients # <<>>
    <3>1. Head(cs) = Head(clients)
      BY <1>4, <2>2 DEF cs
    <3>2. QED BY <1>3, <3>1 DEF GoodServer
  <2>3. QED BY <2>1, <2>2
<1>7. Chosen' /\ Links'
  BY <1>1, <1>2 DEF Chosen, Links
<1>8. Queries' /\ Knowledge' /\ (twice => twice')
  <2>1. CASE server.listed /\ server.state = "online"
    <3>1. Len(initializing) < 2 /\ Initialize(Head(cs))
      BY <1>1, <2>1 DEF Register
    <3>2. Len(initializing) <= 1 /\ Len(initializing) \in Nat /\ initializing \in Seq(Command)
      BY <1>2, <3>1 DEF Queries, GoodQueries
    <3>3. /\ Queries' /\ initializing' # <<>> /\ Len(initializing') = Len(initializing) + 1
          /\ twice' <=> (twice \/ initializing # <<>>)
          /\ ~orphaned' /\ OwnedBy(initializing', Head(cs))
      BY <1>2, <1>5, <1>11, <3>1, <3>2, InitializeIs
    <3>4. ~twice' => Len(initializing) = 0
      BY <3>2, <3>3
    <3>5. GoodServer(server, cs, initializing', knows, la, twice', orphaned')
      BY <1>3, <1>5, <1>6, <1>12, <2>1, <3>3, <3>4 DEF GoodServer
    <3>6. QED BY <1>1, <3>3, <3>5 DEF Knowledge
  <2>2. CASE ~(server.listed /\ server.state = "online")
    <3>1. UNCHANGED <<initializing, twice, orphaned>>
      BY <2>2 DEF Register
    <3>2. server.state # "online"
      BY <1>3, <2>2 DEF GoodServer
    <3>3. GoodServer(server, cs, initializing, knows, la, twice, orphaned)
      BY <1>3, <1>5, <1>6, <1>11, <1>12, <3>2 DEF GoodServer
    <3>4. QED BY <1>1, <1>2, <3>1, <3>3 DEF Knowledge, Queries
  <2>3. QED BY <2>1, <2>2
<1>9. Connections'
  <2>1. ASSUME NEW d \in Client, handler'[d] # NoHandler
        PROVE  d \in Range(cs) /\ Served(twice', server)
    <3>1. Connected(d)
      BY <1>1, <2>1 DEF Connected
    <3>2. d \in Range(clients) /\ Served(twice, server)
      BY <1>2, <3>1 DEF Connections
    <3>3. QED BY <1>5, <1>8, <3>2 DEF Served
  <2>2. clients' = cs /\ server' = server
    BY <1>1
  <2>3. QED BY <2>1, <2>2 DEF Connections, Connected
<1>10. QED BY <1>7, <1>8, <1>9 DEF IInv

(* The manager's timeEvent keeps the invariant.                            *)
LEMMA ManagerTimeEventKeeps ==
  ASSUME IInv, UNCHANGED scenario, ManagerTimeEvent
  PROVE  IInv'
<1>1. Chosen /\ Links /\ Queries /\ Knowledge /\ Connections
  BY DEF IInv
<1>2. /\ GoodServer(server, clients, initializing, knows, late, twice, orphaned)
      /\ server \in Servers
  BY <1>1 DEF Knowledge, GoodServer
<1>3. CASE server.state = "usablePending" /\ server' = [server EXCEPT !.state = "usable", !.due = FALSE]
           /\ knows' = ToldUsable /\ late' = {}
           /\ UNCHANGED <<initializing, twice, orphaned, clients, registered, linkVars>>
  <2>1. server' \in Servers /\ server'.state = "usable" /\ (server'.listed <=> server.listed)
    BY <1>2, <1>3 DEF Servers, ServerState
  <2>2. server.listed
    BY <1>2, <1>3 DEF GoodServer
  <2>3. ~twice => Len(initializing) <= 1 /\ initializing = <<>>
    BY <1>2, <1>3 DEF GoodServer
  <2>4. knows' = Range(clients) \ {} /\ late' = {}
    BY <1>3 DEF ToldUsable
  <2>5. GoodServer(server', clients, initializing, knows', {}, twice, orphaned)
    BY <1>2, <2>1, <2>2, <2>3, <2>4 DEF GoodServer
  <2>6. Knowledge'
    BY <1>3, <2>4, <2>5 DEF Knowledge
  <2>7. Chosen' /\ Links' /\ Queries'
    BY <1>1, <1>3 DEF Chosen, Links, Queries, linkVars
  <2>8. Connections'
    BY <1>1, <1>3, <2>1 DEF Connections, Connected, Served, linkVars
  <2>9. QED BY <2>6, <2>7, <2>8 DEF IInv
<1>4. CASE server.listed /\ ServerTimedOut /\ GoOffline(TRUE)
  BY <1>4, GoOfflineKeeps DEF ServerTimedOut
<1>5. CASE server' = [server EXCEPT !.due = FALSE]
           /\ UNCHANGED <<initializing, twice, orphaned, clientVars, linkVars>>
  <2>1. /\ server' \in Servers /\ server'.state = server.state
        /\ (server'.listed <=> server.listed)
    BY <1>2, <1>5 DEF Servers
  <2>2. GoodServer(server', clients, initializing, knows, late, twice, orphaned)
    BY <1>2, <2>1 DEF GoodServer
  <2>3. Knowledge'
    BY <1>5, <2>2 DEF Knowledge, clientVars
  <2>4. Chosen' /\ Links' /\ Queries'
    BY <1>1, <1>5 DEF Chosen, Links, Queries, linkVars
  <2>5. Connections'
    BY <1>1, <1>5, <2>1 DEF Connections, Connected, Served, linkVars, clientVars
  <2>6. QED BY <2>3, <2>4, <2>5 DEF IInv
<1>6. QED BY <1>3, <1>4, <1>5 DEF ManagerTimeEvent

(* The server's entry that comes back keeps the invariant.                 *)
LEMMA AddItemKeeps ==
  ASSUME IInv, UNCHANGED scenario, AddItem
  PROVE  IInv'
<1>1. Chosen /\ Links /\ Queries /\ Knowledge /\ Connections
  BY DEF IInv
<1>2. /\ GoodServer(server, clients, initializing, knows, late, twice, orphaned)
      /\ server \in Servers
  BY <1>1 DEF Knowledge, GoodServer
<1>3. /\ \A c \in Client : ~Connected(c)
      /\ server' = [server EXCEPT !.listed = TRUE, !.due = TRUE, !.busy = FALSE]
      /\ UNCHANGED <<initializing, twice, orphaned, clientVars, linkVars>>
  BY DEF AddItem
<1>4. server' \in Servers /\ server'.state = server.state /\ server'.listed
  BY <1>2, <1>3 DEF Servers
<1>5. GoodServer(server', clients, initializing, knows, late, twice, orphaned)
  BY <1>2, <1>4 DEF GoodServer
<1>6. Knowledge'
  BY <1>3, <1>5 DEF Knowledge, clientVars
<1>7. Chosen' /\ Links' /\ Queries'
  BY <1>1, <1>3 DEF Chosen, Links, Queries, linkVars
<1>8. Connections'
  BY <1>1, <1>3, <1>4 DEF Connections, Connected, linkVars, clientVars
<1>9. QED BY <1>6, <1>7, <1>8 DEF IInv

-----------------------------------------------------------------------------
(* The clock.                                                              *)

(* A command that gets older.                                              *)
LEMMA OlderIs ==
  ASSUME NEW c \in Command
  PROVE  LET o == Older(c) IN
         /\ o \in Command /\ SameObject(o, c)
         /\ o.lastCommand = c.lastCommand /\ o.of = c.of /\ o.buffer = c.buffer
         /\ (IsBusy(o) <=> IsBusy(c)) /\ (o.wait <=> c.wait)
         /\ o.sendSuccess = c.sendSuccess /\ o.requestAttempts = c.requestAttempts
         /\ (o.queryStarted <=> c.queryStarted)
<1> DEFINE age == IF c.age \in 0..Longest THEN c.age + 1 ELSE c.age
<1>1. Longest \in Nat /\ Longest <= RepeatBusy /\ RepeatBusy \in Nat
  <2>1. CASE TRUE \in scenario.busy
    BY <2>1, FsCommandAssumption DEF Longest
  <2>2. CASE TRUE \notin scenario.busy
    BY <2>2, FsCommandAssumption DEF Longest
  <2>3. QED BY <2>1, <2>2
<1>2. c.age \in -1..RepeatBusy+1
  BY DEF Command
<1>3. age \in -1..RepeatBusy+1
  BY <1>1, <1>2
<1> HIDE DEF age
<1>4. Older(c) = [c EXCEPT !.due = TRUE, !.age = age]
  BY DEF Older, age
<1> DEFINE o == [c EXCEPT !.due = TRUE, !.age = age]
<1>5. /\ o \in Command /\ o.id = c.id /\ o.client = c.client
      /\ (o.initializing <=> c.initializing)
      /\ o.lastCommand = c.lastCommand /\ o.of = c.of /\ o.buffer = c.buffer
      /\ (o.receivedResponse <=> c.receivedResponse) /\ (o.wait <=> c.wait)
      /\ o.sendSuccess = c.sendSuccess /\ o.requestAttempts = c.requestAttempts
      /\ (o.queryStarted <=> c.queryStarted)
  BY <1>3, ZenonT(40) DEF Command
<1> HIDE DEF o
<1>6. Older(c) = o
  BY <1>4 DEF o
<1>7. QED BY <1>5, <1>6 DEF SameObject, IsBusy

(* A period of the clock keeps the invariant.                              *)
LEMMA TickKeeps ==
  ASSUME IInv, UNCHANGED scenario, Tick
  PROVE  IInv'
<1>1. Chosen /\ Links /\ Queries /\ Knowledge /\ Connections
  BY DEF IInv
<1> DEFINE due == server.due \/ server.listed
           age == IF /\ scenario.dies /\ server.age <= StatusLost
                     /\ server.state \in {"online", "usablePending", "usable"}
                  THEN server.age + 1 ELSE server.age
           q == [n \in DOMAIN initializing |-> Older(initializing[n])]
<1>2. /\ server' = [server EXCEPT !.due = due, !.age = age]
      /\ initializing' = q
      /\ handler' = [c \in Client |-> IF Connected(c) THEN Older(handler[c]) ELSE handler[c]]
      /\ UNCHANGED <<twice, orphaned, clients, knows, late>>
      /\ UNCHANGED <<transfer, queue, reception, ready, outcome>>
  BY DEF Tick, clientVars
<1>3. /\ GoodServer(server, clients, initializing, knows, late, twice, orphaned)
      /\ server \in Servers
  BY <1>1 DEF Knowledge, GoodServer
<1>4. server.age \in 0..StatusLost+1 /\ server.due \in BOOLEAN /\ server.listed \in BOOLEAN
  BY <1>3 DEF Servers
<1>5. age \in 0..StatusLost+1 /\ due \in BOOLEAN
  BY <1>4, FsClientAssumption
<1> HIDE DEF age, due
<1>6. /\ server' \in Servers /\ server'.state = server.state
      /\ (server'.listed <=> server.listed)
  BY <1>2, <1>3, <1>5 DEF Servers
<1>7. /\ initializing \in Seq(Command) /\ Len(initializing) \in Nat /\ Len(initializing) <= 2
      /\ DOMAIN initializing = 1..Len(initializing)
      /\ \A n \in 1..Len(initializing) :
           initializing[n] \in Command /\ GoodQuery(initializing[n], scenario.parts)
  BY <1>1 DEF Queries, GoodQueries
<1>8. ASSUME NEW n \in 1..Len(initializing)
      PROVE  GoodQuery(Older(initializing[n]), scenario.parts)
  <2> DEFINE i == initializing[n]
             o == Older(i)
  <2>1. GoodQuery(i, scenario.parts) /\ i \in Command
    BY <1>7
  <2> HIDE DEF i
  <2>2. /\ o \in Command /\ SameObject(o, i)
        /\ o.lastCommand = i.lastCommand /\ o.buffer = i.buffer
        /\ (IsBusy(o) <=> IsBusy(i)) /\ (o.wait <=> i.wait)
        /\ (o.queryStarted <=> i.queryStarted)
    BY <2>1, OlderIs
  <2> HIDE DEF o
  <2>3. GoodQuery(o, scenario.parts)
    BY <2>1, <2>2 DEF GoodQuery, Sound, SameObject
  <2>4. QED BY <2>3 DEF o, i
<1>9. /\ q \in Seq(Command) /\ Len(q) = Len(initializing)
      /\ \A n \in 1..Len(q) : q[n] = Older(initializing[n])
  <2>1. \A n \in 1..Len(initializing) : Older(initializing[n]) \in Command
    BY <1>8 DEF GoodQuery, Sound
  <2>2. QED BY <1>7, <2>1
<1> HIDE DEF q
<1>10. Queries'
  <2>1. GoodQueries(q, scenario.parts)
    BY <1>7, <1>8, <1>9 DEF GoodQueries
  <2>2. QED BY <1>2, <2>1 DEF Queries
<1>11. Knowledge'
  <2>1. q = <<>> <=> initializing = <<>>
    BY <1>7, <1>9
  <2>4. OwnedBy(q, Head(clients))
    <3>1. ASSUME NEW n \in 1..Len(q) PROVE q[n].client = Head(clients)
      <4>1. n \in 1..Len(initializing) /\ initializing[n] \in Command
        BY <1>7, <1>9
      <4>2. q[n].client = initializing[n].client
        BY <1>9, <4>1, OlderIs DEF SameObject
      <4>3. QED BY <1>3, <4>1, <4>2 DEF GoodServer, OwnedBy
    <3>2. QED BY <3>1 DEF OwnedBy
  <2>2. GoodServer(server', clients, q, knows, late, twice, orphaned)
    BY <1>3, <1>6, <1>7, <1>9, <2>1, <2>4 DEF GoodServer
  <2>3. QED BY <1>2, <2>2 DEF Knowledge
<1>12. ASSUME NEW c \in Client
       PROVE  /\ handler'[c] # NoHandler => Connected(c)
              /\ GoodClient(c, scenario.parts, ready, handler'[c], transfer[c], queue[c],
                            reception[c], outcome[c])
  <2>1. GoodClient(c, scenario.parts, ready, handler[c], transfer[c], queue[c],
                   reception[c], outcome[c])
    BY <1>1 DEF Links
  <2>2. handler'[c] = IF Connected(c) THEN Older(handler[c]) ELSE handler[c]
    BY <1>2
  <2>3. CASE ~Connected(c)
    BY <2>1, <2>2, <2>3 DEF Connected
  <2>4. CASE Connected(c)
    <3> DEFINE h == handler[c]
               o == Older(h)
    <3>1. h # NoHandler /\ IsHandler(h, c) /\ h \in Command
      BY <2>1, <2>4 DEF GoodClient, Connected
    <3>2. GoodClient(c, scenario.parts, ready, h, transfer[c], queue[c], reception[c], outcome[c])
      BY <2>1
    <3> HIDE DEF h
    <3>3. /\ o \in Command /\ SameObject(o, h)
          /\ o.lastCommand = h.lastCommand /\ o.of = h.of /\ o.buffer = h.buffer
          /\ (IsBusy(o) <=> IsBusy(h)) /\ (o.wait <=> h.wait)
          /\ o.sendSuccess = h.sendSuccess /\ o.requestAttempts = h.requestAttempts
      BY <3>1, OlderIs
    <3> HIDE DEF o
    <3>4. IsHandler(o, c)
      BY <3>1, <3>3 DEF IsHandler, Sound, SameObject
    <3>5. o # NoHandler
      BY <3>4, HandlerIsThere
    <3>6. GoodClient(c, scenario.parts, ready, o, transfer[c], queue[c], reception[c], outcome[c])
      BY <3>1, <3>2, <3>3, <3>4, <3>5 DEF GoodClient
    <3>7. QED BY <2>2, <2>4, <3>6 DEF o, h
  <2>5. QED BY <2>3, <2>4
<1>13. Links'
  <2>1. handler' \in [Client -> Command]
    <3>1. \A c \in Client : handler'[c] \in Command
      BY <1>12 DEF GoodClient
    <3>2. QED BY <1>2, <3>1
  <2>2. QED BY <1>1, <1>2, <1>12, <2>1 DEF Links
<1>14. Connections'
  BY <1>1, <1>2, <1>6, <1>12 DEF Connections, Connected, Served
<1>15. Chosen'
  BY <1>1, <1>2 DEF Chosen
<1>16. QED BY <1>10, <1>11, <1>13, <1>14, <1>15 DEF IInv

-----------------------------------------------------------------------------
(* Every step.                                                             *)

(* The invariant is kept by every step.                                    *)
LEMMA StepKeeps ==
  ASSUME IInv, [Next]_vars
  PROVE  IInv'
<1>1. CASE UNCHANGED vars
  BY <1>1 DEF IInv, Chosen, Links, Queries, Knowledge, Connections, Connected, vars,
              serverVars, clientVars, linkVars
<1>2. CASE Next
  <2>1. UNCHANGED scenario
    BY <1>2 DEF Next
  <2>2. Applications \/ Server \/ Library \/ Tick \/ Answers
    BY <1>2 DEF Next
  <2>3. ASSUME NEW c \in Client, Register(c) PROVE IInv'
    BY <2>1, <2>3, RegisterKeeps
  <2>4. ASSUME NEW c \in Client, Deregister(c) PROVE IInv'
    BY <2>1, <2>4, DeregisterKeeps
  <2>5. ASSUME NEW c \in Client, Connect(c) PROVE IInv'
    BY <2>1, <2>5, ConnectKeeps
  <2>6. ASSUME NEW c \in Client, NEW ask \in scenario.asks, Ask(c, ask.kind, ask.long) PROVE IInv'
    BY <2>1, <2>6, AskKeeps
  <2>7. ASSUME NEW busy \in BOOLEAN, Status(busy) PROVE IInv'
    BY <2>1, <2>7, StatusKeeps
  <2>8. ASSUME RemoveItem PROVE IInv'
    <3>1. GoOffline(FALSE) /\ ~FALSE
      BY <2>8 DEF RemoveItem
    <3>2. QED BY <2>1, <3>1, GoOfflineKeeps
  <2>9. ASSUME AddItem PROVE IInv'
    BY <2>1, <2>9, AddItemKeeps
  <2>10. ASSUME NEW c \in Client, Lose(c) PROVE IInv'
    BY <2>1, <2>10, LoseKeeps
  <2>11. ASSUME ManagerTimeEvent PROVE IInv'
    BY <2>1, <2>11, ManagerTimeEventKeeps
  <2>12. ASSUME NEW n \in DOMAIN initializing, InitializingTimeEvent(n) PROVE IInv'
    BY <2>1, <2>12, InitializingTimeEventKeeps
  <2>13. ASSUME NEW c \in Client, HandlerTimeEvent(c) PROVE IInv'
    BY <2>1, <2>13, HandlerTimeEventKeeps
  <2>14. ASSUME NEW c \in Client, TransferDone(c) \/ TransferAborted(c) PROVE IInv'
    BY <2>1, <2>14, TransferStepKeeps
  <2>15. ASSUME Tick PROVE IInv'
    BY <2>1, <2>15, TickKeeps
  <2>16. ASSUME NEW c \in Client, AnswerInOneFrame(c) PROVE IInv'
    BY <2>1, <2>16, AnswerInOneFrameKeeps
  <2>17. ASSUME NEW c \in Client, AnswerPartsBegin(c) PROVE IInv'
    BY <2>1, <2>17, AnswerPartsBeginKeeps
  <2>18. ASSUME NEW c \in Client, AnswerPartsEnd(c) PROVE IInv'
    <3>1. CASE AnswerPartsEndForHandler(c)
      BY <2>1, <3>1, AnswerPartsEndForHandlerKeeps
    <3>2. ASSUME NEW n \in DOMAIN initializing, AnswerPartsEndForInitializing(c, n) PROVE IInv'
      BY <2>1, <3>2, AnswerPartsEndForInitializingKeeps
    <3>3. QED BY <2>18, <3>1, <3>2 DEF AnswerPartsEnd
  <2>19. CASE Applications
    BY <2>3, <2>4, <2>5, <2>6, <2>19 DEF Applications
  <2>20. CASE Server
    BY <2>7, <2>8, <2>9, <2>10, <2>20 DEF Server
  <2>21. CASE Library
    BY <2>11, <2>12, <2>13, <2>14, <2>21 DEF Library
  <2>22. CASE Answers
    BY <2>16, <2>17, <2>18, <2>22 DEF Answers
  <2>23. QED BY <2>2, <2>15, <2>19, <2>20, <2>21, <2>22
<1>3. QED BY <1>1, <1>2

(* The inductive invariant holds in every reachable state.                 *)
THEOREM InvariantHolds == Spec => []IInv
<1>1. Init => IInv
  BY Initially
<1>2. IInv /\ [Next]_vars => IInv'
  BY StepKeeps
<1>3. QED BY <1>1, <1>2, PTL DEF Spec

(* For any clients, applications, losses and times: a transfer always has a command  *)
(* that waits for it, and every command of an application is busy until its end is   *)
(* told, and ends once.                                                              *)
THEOREM CommandsStayConsistent == Spec => []CommandsConsistent
<1>1. IInv => CommandsConsistent
  BY InvariantImplies
<1>2. QED BY <1>1, InvariantHolds, PTL

(* For any clients and any course of the server: who is connected is registered and, *)
(* unless two initializations ran at once, connected to a usable server; exactly     *)
(* those clients know of a usable server that did not come after it; and a server    *)
(* that is only online is being initialized, on behalf of the first client, unless   *)
(* that one left.                                                                    *)
THEOREM ServerStaysKnown == Spec => []ServerKnowledge
<1>1. IInv => ServerKnowledge
  BY InvariantImplies
<1>2. QED BY <1>1, InvariantHolds, PTL

=============================================================================
