------------------------------ MODULE FsCommand ------------------------------
(***************************************************************************)
(* FsCommand_c: one object that sends a file server the requests of one    *)
(* client, one at a time, repeats what is not answered, and takes the      *)
(* answers.  The same class asks for a new server's properties and volumes *)
(* before any application may use it.                                      *)
(*                                                                         *)
(* A handler is an operator on the record `world': the command, the queue  *)
(* of requests that reached the server, and the transfer of a long request *)
(* that runs between the two addresses (a SendStream).  The transfer reads *)
(* m_sendMsgBuf while it runs: head is the request whose first bytes it    *)
(* took, the rest is what the buffer holds when it ends.                   *)
(***************************************************************************)
EXTENDS Integers, Sequences

CONSTANTS
  Attempts,     \* 5, NR_REQUEST_ATTEMPTS
  Repeat,       \* 600 ms without an answer
  RepeatBusy,   \* 5000 ms, the same when the server says it is busy
  ServerQueue   \* bound: requests a server holds, what is sent beyond is lost

ASSUME FsCommandAssumption ==
  /\ Attempts \in Nat \ {0}
  /\ Repeat \in Nat /\ RepeatBusy \in Nat /\ Repeat <= RepeatBusy
  /\ ServerQueue \in Nat \ {0}

\* commandtype_en; writeFile stands for the commands whose answer is only reported.
Kind == {"requestProperties", "getCurrentDirectory", "openFile", "seekFile",
         "readFile", "closeFile", "writeFile"}
NoCommand == "noCommand"
Unset == -1
TanRange == 256

\* The buffer: of is the command's serial number within its FsCommand_c, by the
\* FsCommand_c that filled it.
Request == [kind : Kind, tan : 0..TanRange-1, long : BOOLEAN, of : Nat, by : Nat]
EmptyBuffer == [kind |-> NoCommand, tan |-> 0, long |-> FALSE, of |-> 0, by |-> 0]

NoTransfer == [head |-> EmptyBuffer, try |-> 0, owed |-> 0]

\* A new object for client; garbage is what the memory of en_lastCommand held.
NewCommand(id, client, initializing, garbage) ==
  [id |-> id, client |-> client, initializing |-> initializing,
   lastCommand |-> garbage, tan |-> 0, receivedResponse |-> TRUE,
   age |-> Unset,                 \* time since m_lastrequestAttemptTime
   requestAttempts |-> 0, buffer |-> EmptyBuffer, positionMode |-> 0,
   sendSuccess |-> "SendSuccess", wait |-> FALSE, retry |-> FALSE,
   queryStarted |-> FALSE, filter |-> FALSE,
   of |-> 0,                      \* commands begun by this object
   waitFor |-> 0,                 \* the command m_waitForMultiSendFinish was set for
   due |-> TRUE]                  \* its task is due

IsBusy(c) == ~c.receivedResponse

-----------------------------------------------------------------------------
(* Sending.                                                                *)

Reaches(queue, r) == IF Len(queue) < ServerQueue THEN Append(queue, r) ELSE queue

SendSinglePacket(world) ==
  [world EXCEPT !.queue = Reaches(@, world.command.buffer)]

\* sendIsoTarget() starts no second transfer between the same addresses.
SendMultiPacketTry(world) ==
  LET c == world.command IN
  IF world.transfer = NoTransfer
  THEN [world EXCEPT
          !.transfer = [head |-> c.buffer, try |-> c.requestAttempts, owed |-> c.waitFor],
          !.command.sendSuccess = "Running",
          !.command.retry = FALSE]
  ELSE [world EXCEPT !.command.retry = TRUE]

\* sendRequest() after the number of the attempt is set.
SendRequest(world) ==
  IF world.command.buffer.long
  THEN [SendMultiPacketTry([world EXCEPT !.command.waitFor = world.command.of])
          EXCEPT !.command.wait = TRUE,
                 !.command.age = Unset, !.command.receivedResponse = FALSE]
  ELSE [SendSinglePacket(world)
          EXCEPT !.command.age = 0, !.command.receivedResponse = FALSE]

\* Attempts beyond the limit are all the same.
SendRetry(world) ==
  SendRequest([world EXCEPT !.command.requestAttempts =
                 IF @ <= Attempts THEN @ + 1 ELSE @])

\* A command of any kind: the buffer is filled and sent for the first time.
Begin(world, kind, long) ==
  LET c == world.command IN
  SendRequest([world EXCEPT
    !.command.lastCommand = kind,
    !.command.of = c.of + 1,
    !.command.requestAttempts = 1,
    !.command.buffer = [kind |-> kind, tan |-> c.tan, long |-> long,
                        of |-> c.of + 1, by |-> c.id]])

SeekFile(world, mode) == Begin([world EXCEPT !.command.positionMode = mode], "seekFile", FALSE)

\* A defect of finishCommand: it forgets the transfer of a long request that still runs.
FinishCommand_StopsWaiting(world) ==
  [world EXCEPT !.command.lastCommand = NoCommand,
                !.command.receivedResponse = TRUE,
                !.command.wait = FALSE,
                !.command.tan = (@ + 1) % TanRange]

FinishCommand(world) ==
  [world EXCEPT !.command.lastCommand = NoCommand,
                !.command.receivedResponse = TRUE,
                !.command.tan = (@ + 1) % TanRange]

-----------------------------------------------------------------------------
(* timeEvent().                                                            *)

\* A defect: the receive filter is never registered.
CreateFilter_Never(world) == world

CreateFilter(world) == [world EXCEPT !.command.filter = TRUE]

\* A defect: after an abort the transfer is not started again.
WatchTransfer_NoRestart(world) ==
  LET c == world.command IN
  CASE c.wait /\ c.retry -> SendMultiPacketTry(world)
    [] c.wait /\ ~c.retry /\ c.sendSuccess = "SendSuccess" ->
         [world EXCEPT !.command.wait = FALSE, !.command.age = 0]
    [] OTHER -> world

\* The transfer of a long request: not started yet, running, done or aborted.
WatchTransfer(world) ==
  LET c == world.command IN
  CASE c.wait /\ (c.retry \/ c.sendSuccess = "SendAborted") -> SendMultiPacketTry(world)
    [] c.wait /\ ~c.retry /\ c.sendSuccess = "SendSuccess" ->
         [world EXCEPT !.command.wait = FALSE, !.command.age = 0]
    [] OTHER -> world

InitialQuery(world) ==
  IF world.command.initializing /\ ~world.command.queryStarted
  THEN Begin([world EXCEPT !.command.queryStarted = TRUE], "requestProperties", FALSE)
  ELSE world

TimedOut(c, busy) ==
  /\ IsBusy(c)
  /\ c.age > (IF busy THEN RepeatBusy ELSE Repeat)

GivesUp(c, busy) ==
  TimedOut(c, busy) /\ ~c.initializing /\ c.requestAttempts >= Attempts

RepeatOrGiveUp(world, busy) ==
  CASE GivesUp(world.command, busy) -> FinishCommand(world)
    [] TimedOut(world.command, busy) /\ ~GivesUp(world.command, busy) -> SendRetry(world)
    [] OTHER -> world

\* The world a time event finds when it comes to the time-out.
BeforeTimeOut(world) == InitialQuery(WatchTransfer(CreateFilter(world)))

TimeEvent(world, busy) ==
  [RepeatOrGiveUp(BeforeTimeOut(world), busy) EXCEPT !.command.due = FALSE]

-----------------------------------------------------------------------------
(* Answers.                                                                *)

\* A defect of processMsgIso: the transaction number is not compared.
TakesAnswer_AnyTan(c, answer) == answer.kind = c.lastCommand

\* The checks of processMsgIso; the answer to requestProperties has no number.
TakesAnswer(c, answer) ==
  /\ answer.tan = c.tan \/ answer.kind = "requestProperties"
  /\ answer.kind = c.lastCommand

\* After an answer the initialization goes on with its next request; an answered
\* closeFile is its end.
NextOfInitialization(world, kind) ==
  CASE kind = "requestProperties" -> Begin(world, "openFile", FALSE)
    [] kind = "openFile" -> SeekFile(world, 2)
    [] kind = "seekFile" /\ world.command.positionMode = 2 -> SeekFile(world, 0)
    [] kind = "seekFile" /\ world.command.positionMode # 2 -> Begin(world, "readFile", FALSE)
    [] kind = "readFile" -> Begin(world, "closeFile", FALSE)
    [] OTHER -> world

\* processMsgIso for an answer in one frame, and processPartStreamDataChunk for the
\* last part of a longer one, once the answer is taken.
Answered(world, answer) ==
  LET c == world.command
      done == FinishCommand(world) IN
  IF ~c.initializing \/ (answer.parts /\ answer.kind # "readFile")
  THEN done
  ELSE NextOfInitialization(done, answer.kind)

\* What the server becomes through an answer in one frame: "same" if it does not.
ServerAfter(c, answer, supported) ==
  CASE ~c.initializing -> "same"
    [] c.initializing /\ answer.kind = "closeFile" -> "usablePending"
    [] c.initializing /\ answer.kind = "requestProperties" /\ ~supported -> "unusable"
    [] OTHER -> "same"

\* CommandFinished: the owner deletes the object.
Finished(c, answer, supported) == ServerAfter(c, answer, supported) # "same"

\* Whether the application hears of the end: a longer answer is reported only for
\* the commands that expect one, a single frame for all but getCurrentDirectory.
Reported(kind, parts) ==
  IF parts THEN kind \in {"getCurrentDirectory", "readFile"}
           ELSE kind # "getCurrentDirectory"
=============================================================================
