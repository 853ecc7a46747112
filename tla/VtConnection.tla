---------------------------- MODULE VtConnection ----------------------------
(***************************************************************************)
(* VtClientConnection_c: one client's connection to a virtual terminal,    *)
(* with its CommandHandler_c (the queues of commands, one in progress),    *)
(* its UploadPoolState_c (the upload of the object pool), MultipleVt_c     *)
(* (moving on to the next terminal), and the terminals as their            *)
(* VtServerInstance_c know them.                                           *)
(*                                                                         *)
(* A handler is an operator on the record `w', which holds all of this.    *)
(* A pool has a part in no language and, if it has several languages, one  *)
(* part for each; a terminal handles what it is sent in its order.  Values *)
(* and strings stand for all commands: those of one kind are about one     *)
(* object, and strings go in several packets.                              *)
(***************************************************************************)
EXTENDS Integers, Sequences, FiniteSets, SequencesExt

CONSTANTS
  Vt,
  NoVt,
  Properties,          \* how many properties are asked for before an upload, in order
  Priorities,          \* CONFIG_VT_CLIENT_NUM_SEND_PRIORITIES
  Retries,             \* CONFIG_VT_CLIENT_ANNEX_F_COMMAND_RETRIES
  StatusLost,          \* 3000 ms without a status message
  RepeatAfter,         \* 1000 ms: a property is asked for again (the language: 2000)
  GetVersionsTimeout,  \* 6000 ms
  CommandTimeout,      \* CONFIG_VT_CLIENT_ANNEX_F_COMMAND_TIMEOUT
  PoolReadyTimeout,    \* 60000 ms
  FakeOff              \* 6000 ms without the terminal when the retries failed

ASSUME VtConnectionAssumption ==
  /\ NoVt \notin Vt
  /\ {Properties, Priorities, StatusLost, FakeOff} \subseteq Nat \ {0}
  /\ {Retries, RepeatAfter, GetVersionsTimeout, CommandTimeout, PoolReadyTimeout} \subseteq Nat

PoolState ==
  {"Init", "WaitingForVtVersion", "WaitingForGetVersions", "WaitingForLoadVersion",
   "WaitingForMemory", "Uploading", "WaitingForEOO", "WaitingForStoreVersion",
   "EndFailed", "EndSuccess"}

UploadType == {"UploadIdle", "UploadPool", "UploadCommand"}

Priority == 1..Priorities
Unset == -1
Unsupported == -1    \* a language the pool does not have
Unknown == -2        \* no language
NoTransfer == [owner |-> "none", part |-> "none", content |-> 0]
NoCommand == [st |-> "Idle", kind |-> "none", age |-> Unset]

NewInstance ==
  [age |-> Unset,        \* of the last status message
   known |-> {},         \* the properties that were received
   asked |-> [n \in 1..Properties |-> Unset],  \* how long ago each was asked for
   settings |-> Unknown, \* the language
   wanted |-> Unset]     \* how long ago it was asked for

\* own: any (every terminal will do), labelled, multi (several languages).
NewConnection(own, list) ==
  [own |-> own, server |-> NoVt, alive |-> FALSE, type |-> "UploadIdle", retry |-> 0, off |-> 0,
   reconnect |-> TRUE, shutdown |-> FALSE,
   switching |-> FALSE, last |-> NoVt,
   pool |-> "Init", poolType |-> "initial", phase |-> 0, timer |-> 0,
   language |-> Unknown, uploading |-> 0, uploaded |-> 0, rejected |-> {},
   command |-> NoCommand, queue |-> [p \in Priority |-> <<>>],
   prio |-> 1,          \* of the command in progress
   sendPriority |-> 1,  \* of the next one
   transfer |-> [s \in Vt |-> NoTransfer],
   sent |-> [s \in Vt |-> <<>>],   \* what a terminal has not handled
   list |-> list, inst |-> [s \in Vt |-> NewInstance],
   due |-> TRUE,
   \* What happened in this connection:
   commanded |-> Unset, \* the last value that was commanded
   retried |-> FALSE,   \* a command was sent again
   mixed |-> FALSE,     \* an answer was taken for another command's
   deleting |-> FALSE,  \* the deletion of the pool was commanded
   stalled |-> "no",    \* why what it waits for will not come (see Hangs)
   strayed |-> FALSE]   \* an earlier connection's transfer reported to this one

-----------------------------------------------------------------------------
(* Terminals and what is sent to them.                                     *)

IsActive(w, s) == w.inst[s].age # Unset /\ w.inst[s].age <= StatusLost

\* isVtActive()
Active(w) == w.server # NoVt /\ w.off = 0 /\ IsActive(w, w.server)

\* ... which makes a terminal that is overdue be asked for its properties again.
ResetCapabilities(w, S) ==
  [w EXCEPT !.inst = [s \in Vt |->
     IF s \in S /\ ~IsActive(w, s)
     THEN [@[s] EXCEPT !.known = {}, !.asked = [n \in 1..Properties |-> Unset]] ELSE @[s]]]

\* The list from the terminal behind `from' on; it goes round.
Round(w, from) ==
  LET here == {n \in DOMAIN w.list : w.list[n] = from}
      start == IF here = {} THEN 0 ELSE CHOOSE n \in here : TRUE
  IN SubSeq(w.list, start + 1, Len(w.list)) \o SubSeq(w.list, 1, start)

ActiveCount(w) == Cardinality({s \in Range(w.list) : IsActive(w, s)})

\* isWsAnnounced()
Announced(w) == \A n \in DOMAIN w.sent[w.server] : w.sent[w.server][n].kind # "Announce"

SendMessage(w, kind, what) ==
  [w EXCEPT !.sent[w.server] = Append(@, [kind |-> kind, what |-> what, old |-> FALSE])]

\* What is not answered by now belongs to another command.
Outdate(w) ==
  [w EXCEPT !.sent = [s \in Vt |-> [n \in DOMAIN @[s] |-> [@[s][n] EXCEPT !.old = TRUE]]]]

\* Why the connection waits without a time-out: the transfer was refused, the report of
\* its end was dropped, an update had no part, or a request that the state of the upload
\* waits for was lost.
Cause == {"no", "refused", "missed", "partless"} \union PoolState

\* It waits for the report of a transfer.
AwaitsReport(w) ==
  \/ w.pool = "Uploading" \/ w.command.st = "Partial"
  \/ w.command.st = "Awaiting" /\ w.command.kind = "String" /\ w.command.age = Unset

\* It still waits for what will not come.
Hangs(w) ==
  \/ w.stalled \in {"refused", "missed"} /\ AwaitsReport(w)
  \/ w.stalled = "partless" /\ w.command.st = "Partial"
  \/ w.stalled = w.pool

\* sendIsoTarget() starts no second transfer to the same terminal, and nobody looks at
\* what it returns.
SendIsoTarget(w, owner, part, content) ==
  IF w.transfer[w.server] = NoTransfer
  THEN [w EXCEPT !.transfer[w.server] = [owner |-> owner, part |-> part, content |-> content]]
  ELSE [w EXCEPT !.stalled = "refused"]

-----------------------------------------------------------------------------
(* Languages.                                                              *)

LanguageIndex(w, l) == IF w.own.multi THEN l ELSE Unsupported

\* The first language stands for one that is unsupported or unknown.
Real(l) == IF l < 0 THEN 0 ELSE l

\* The language whose objects are uploaded: the first one stands for one that a terminal
\* rejected.
Content(w, l) == IF l \in w.rejected THEN 0 ELSE Real(l)

\* A label that marks a language as rejected is in capitals.
RejectedLabel(l) == -1 - l

VersionLabel(w) ==
  LET l == Real(w.uploading) IN
  IF w.own.multi /\ l \in w.rejected THEN RejectedLabel(l)
  ELSE IF w.own.multi THEN l ELSE 0

-----------------------------------------------------------------------------
(* The queues of commands.                                                 *)

Filled(w) == {p \in Priority : w.queue[p] # <<>>}

InProgress(w, p, n) == w.command.st # "Idle" /\ w.prio = p /\ n = 1

Places(w) == UNION {{<<p, n>> : n \in DOMAIN w.queue[p]} : p \in Priority}

\* A defect: the command in progress may be replaced.
Replaceable_InProgress(w, from, new) ==
  {pn \in Places(w) : pn[1] >= from /\ w.queue[pn[1]][pn[2]].kind = new.kind}

\* Where commands wait that are about the same.  The search for a transfer (0x11) or its
\* end (0x12) would stop at the first of its kind; these are queued without a search.
Replaceable(w, from, new) ==
  {pn \in Places(w) : /\ pn[1] >= from /\ w.queue[pn[1]][pn[2]].kind = new.kind
                      /\ ~InProgress(w, pn[1], pn[2])}

\* The first of them is overwritten, the others are taken out.
Replaced(w, from, new) ==
  LET all == Replaceable(w, from, new)
      first == CHOOSE pn \in all : \A qm \in all : pn[1] < qm[1] \/ (pn[1] = qm[1] /\ pn[2] <= qm[2])
      Kept(p) == SetToSortSeq({n \in DOMAIN w.queue[p] : <<p, n>> = first \/ <<p, n>> \notin all}, <)
  IN [w EXCEPT !.queue = [p \in Priority |->
        [k \in DOMAIN Kept(p) |->
           IF <<p, Kept(p)[k]>> = first THEN new ELSE w.queue[p][Kept(p)[k]]]]]

\* queueOrReplace(): nothing is queued before the pool is uploaded.
QueueOrReplace(w, kind, what, replace) ==
  LET new == [kind |-> kind, what |-> what] IN
  CASE w.pool # "EndSuccess" -> w
    [] w.pool = "EndSuccess" /\ replace /\ Replaceable(w, w.sendPriority, new) # {} ->
         Replaced(w, w.sendPriority, new)
    [] OTHER -> [w EXCEPT !.queue[w.sendPriority] = Append(@, new), !.due = @ \/ Filled(w) = {}]

\* Everything that waits is superfluous when the pool is deleted.
DeleteObjectPool(w) ==
  LET emptied == [w EXCEPT !.queue = [q \in Priority |->
        IF InProgress(w, q, 1) THEN <<Head(@[q])>> ELSE <<>>]]
  IN [QueueOrReplace(emptied, "DeletePool", 0, FALSE)
        EXCEPT !.deleting = @ \/ w.pool = "EndSuccess"]

UpdatePool(w, what) ==
  QueueOrReplace(QueueOrReplace(w, "UpdatePool", what, FALSE), "PoolReady", 0, FALSE)

FinishUploadCommand(w) ==
  LET popped == Outdate([w EXCEPT !.queue[w.prio] = Tail(@)])
  IN [popped EXCEPT !.command = [@ EXCEPT !.st = "Idle", !.age = Unset], !.type = "UploadIdle",
                    !.due = @ \/ Filled(popped) # {}]

-----------------------------------------------------------------------------
(* The parts of the pool.                                                  *)

InitPhases(w, type) ==
  [w EXCEPT !.poolType = type,
            !.phase = CASE type = "initial" -> 0 [] type = "language" -> 1 [] OTHER -> @]

LanguagePart == 1

\* All phases are through; an update is a command, which has none but its own answers.
IndicateUploadCompletion(w) ==
  IF w.pool = "EndSuccess" THEN FinishUploadCommand(w)
  ELSE [SendMessage(w, "PoolReady", 0) EXCEPT !.pool = "WaitingForEOO"]

StartCurrentPhase(w) ==
  CASE w.poolType = "user" -> SendIsoTarget(w, "pool", "user", 0)
    [] w.poolType # "user" /\ w.phase = 0 -> SendIsoTarget(w, "pool", "fix", 0)
    [] w.poolType # "user" /\ w.phase = LanguagePart /\ w.own.multi ->
         SendIsoTarget(w, "pool", "language", Content(w, w.uploading))
    [] OTHER -> IndicateUploadCompletion(w)

PhaseCompleted(w) ==
  IF w.poolType = "user" THEN IndicateUploadCompletion(w)
  ELSE StartCurrentPhase([w EXCEPT !.phase = @ + (IF w.poolType = "language" THEN 2 ELSE 1)])

-----------------------------------------------------------------------------
(* Commands.                                                               *)

\* tryToStart(): the first command of the most urgent queue.  An update without a part
\* is over before its command begins, and nothing ends the command.
TryToStart(w) ==
  IF Filled(w) = {} THEN w
  ELSE LET p == CHOOSE q \in Filled(w) : \A r \in Filled(w) : q <= r
           cmd == Head(w.queue[p])
           other == IF p = w.prio THEN w ELSE Outdate(w)
           begun == [other EXCEPT !.prio = p,
                       !.command = [st |-> "Awaiting", kind |-> cmd.kind, age |-> 0]]
       IN CASE cmd.kind = "UpdatePool" ->
                 LET type == IF cmd.what = 0 THEN "language" ELSE "user"
                     begins == StartCurrentPhase(InitPhases(begun, type))
                 IN [begins EXCEPT !.command = [st |-> "Partial", kind |-> w.command.kind, age |-> Unset],
                                   !.stalled = IF begins.command.st = "Idle" THEN "partless" ELSE @]
            [] cmd.kind = "String" ->
                 [SendIsoTarget(begun, "command", "string", cmd.what) EXCEPT !.command.age = Unset]
            [] OTHER -> SendMessage(begun, cmd.kind, cmd.what)

CommandTimedOut(w) ==
  w.command.age > (IF w.command.kind = "PoolReady" THEN PoolReadyTimeout ELSE CommandTimeout)

-----------------------------------------------------------------------------
(* Connections begin and end.                                              *)

DoStart(w) ==
  [SendMessage(w, "Announce", 0) EXCEPT
     !.type = "UploadPool", !.language = Unknown, !.commanded = Unset,
     !.retried = FALSE, !.mixed = FALSE, !.deleting = FALSE]

ClearQueues(w) == [w EXCEPT !.queue = [p \in Priority |-> <<>>], !.command.st = "Idle"]

DoStop(w) ==
  LET stopped == [Outdate(ClearQueues(w)) EXCEPT !.pool = "Init", !.type = "UploadPool", !.stalled = "no"]
  IN IF w.server = NoVt THEN stopped
     ELSE [stopped EXCEPT !.transfer[w.server] = NoTransfer]

NotifyOnDisconnect(w) == [w EXCEPT !.shutdown = @ \/ ~w.reconnect]

CheckAndHandle(w) ==
  LET seen == [ResetCapabilities(w, {w.server}) EXCEPT !.alive = Active(w)]
  IN CASE ~w.alive /\ Active(w) -> DoStart(seen)
       [] w.alive /\ ~Active(w) /\ w.reconnect -> DoStop(seen)
       [] w.alive /\ ~Active(w) /\ ~w.reconnect -> NotifyOnDisconnect(seen)
       [] OTHER -> seen

\* restart(): the terminal is taken for lost for a moment.
Restart(w) == [CheckAndHandle([w EXCEPT !.off = 1]) EXCEPT !.off = 0]

TrySwitching(w) == [ResetCapabilities(w, Range(w.list)) EXCEPT !.switching = ActiveCount(w) > 1]

RestartWithNextVt(w) ==
  IF w.switching /\ w.reconnect
  THEN [Restart(w) EXCEPT !.last = w.server, !.server = NoVt]
  ELSE w

UploadFailed(w) == [w EXCEPT !.pool = "EndFailed"]

\* finalizeUploading()
FinalizeUploading(w) ==
  LET over == [w EXCEPT !.uploaded = w.uploading, !.uploading = Unknown,
                        !.switching = FALSE, !.last = NoVt]
  IN CASE w.poolType = "user" -> w
       [] w.poolType = "language" -> over
       [] OTHER -> [over EXCEPT !.pool = "EndSuccess", !.type = "UploadIdle"]

-----------------------------------------------------------------------------
(* The upload of the pool.                                                 *)

StartUploadVersion(w) ==
  [SendMessage(InitPhases(w, "initial"), "Memory", 1) EXCEPT !.pool = "WaitingForMemory"]

\* The properties are asked for one after the other.
RequestProperties(w) ==
  LET inst == w.inst[w.server]
      next == CHOOSE n \in 1..Properties : n \notin inst.known /\ \A m \in 1..n-1 : m \in inst.known
  IN IF inst.asked[next] = Unset \/ inst.asked[next] > RepeatAfter
     THEN [SendMessage(w, "Property", next) EXCEPT !.inst[w.server].asked[next] = 0]
     ELSE w

UploadTimeEvent(w) ==
  CASE w.inst[w.server].known # 1..Properties -> RequestProperties(w)
    [] w.inst[w.server].known = 1..Properties /\ w.pool = "Init" ->
         [SendMessage(w, "Memory", 0) EXCEPT !.pool = "WaitingForVtVersion"]
    [] /\ w.inst[w.server].known = 1..Properties
       /\ w.pool = "WaitingForGetVersions" /\ w.timer > GetVersionsTimeout -> StartUploadVersion(w)
    [] OTHER -> w

\* Answers during the upload, each only in its state; `versions' is what the terminal has
\* stored of this pool, and an answer to LoadVersion says "unknown" of another label.
VersionReceived(w) ==
  LET chosen == [w EXCEPT !.uploading = w.language]
  IN IF w.own.labelled
     THEN [SendMessage(chosen, "GetVersions", 0) EXCEPT !.pool = "WaitingForGetVersions", !.timer = 0]
     ELSE StartUploadVersion(chosen)

VersionsReceived(w, versions) ==
  LET marked == [w EXCEPT !.rejected = @ \union {l \in 0..1 : w.own.multi /\ RejectedLabel(l) \in versions}]
  IN IF versions = {} THEN StartUploadVersion(w)
     ELSE [SendMessage(marked, "LoadVersion", VersionLabel(marked))
             EXCEPT !.pool = "WaitingForLoadVersion", !.poolType = "initial"]

PoolRejected(w) ==
  LET l == Real(w.uploading) IN
  IF w.own.multi /\ l \notin w.rejected
  THEN Restart([w EXCEPT !.rejected = @ \union {l}])
  ELSE UploadFailed(w)

UploadAnswered(w, kind, what, ok, versions) ==
  CASE kind = "Property" -> [w EXCEPT !.inst[w.server].known = @ \union {what}]
    [] kind = "Memory" /\ w.pool = "WaitingForVtVersion" -> VersionReceived(w)
    [] kind = "Memory" /\ w.pool = "WaitingForMemory" ->
         IF ok THEN StartCurrentPhase([w EXCEPT !.pool = "Uploading"]) ELSE UploadFailed(w)
    [] kind = "GetVersions" /\ w.pool = "WaitingForGetVersions" -> VersionsReceived(w, versions)
    [] kind = "LoadVersion" /\ w.pool = "WaitingForLoadVersion" ->
         CASE ok -> FinalizeUploading(w)
           [] ~ok /\ what \in versions -> UploadFailed(w)
           [] OTHER -> StartUploadVersion(w)
    [] kind = "PoolReady" /\ w.pool = "WaitingForEOO" ->
         CASE ok /\ w.own.labelled ->
                [SendMessage(w, "StoreVersion", VersionLabel(w)) EXCEPT !.pool = "WaitingForStoreVersion"]
           [] ok /\ ~w.own.labelled -> FinalizeUploading(w)
           [] OTHER -> PoolRejected(w)
    [] kind = "StoreVersion" /\ w.pool = "WaitingForStoreVersion" -> FinalizeUploading(w)
    [] OTHER -> w

-----------------------------------------------------------------------------
(* Answers to commands.                                                    *)

\* finalizeCommand(): an answer is matched by its command byte alone.
CompletesCommand(w, kind) == w.command.age # Unset /\ w.command.kind = kind

FinalizeCommand(w, kind, old) ==
  IF CompletesCommand(w, kind)
  THEN FinishUploadCommand([w EXCEPT !.mixed = @ \/ old \/ w.command.kind # kind]) ELSE w

\* handleEndOfObjectPoolResponseOnLanguageUpdate(), whichever command is in progress.
UpdateAnswered(w, ok) ==
  CASE ok -> FinalizeUploading(w)
    [] ~ok /\ w.poolType = "language" -> [w EXCEPT !.rejected = @ \union {Real(w.uploading)}]
    [] OTHER -> w

\* processMsgVtToEcuResponses()
CommandAnswered(w, kind, old, ok) ==
  CASE kind = "PoolReady" ->
         LET known == [w EXCEPT !.mixed = @ \/ old \/ w.command.kind # "PoolReady"]
             done == FinalizeCommand(UpdateAnswered(known, ok), kind, old)
         IN IF ok THEN done ELSE Restart(done)
    [] kind = "DeletePool" ->
         RestartWithNextVt(FinalizeCommand(NotifyOnDisconnect(w), kind, old))
    [] kind \in {"Value", "String"} -> FinalizeCommand(w, kind, old)
    [] OTHER -> w

\* processMsgVtToEcu()
Answered(w, r, ok, versions) ==
  CASE w.type = "UploadPool" /\ Active(w) -> UploadAnswered(w, r.kind, r.what, ok, versions)
    [] w.type = "UploadCommand" /\ Active(w) -> CommandAnswered(w, r.kind, r.old, ok)
    [] OTHER -> ResetCapabilities(w, {w.server})

\* setLocalSettings() and notifyOnVtsLanguagePgn()
LanguageReceived(w, s, l) ==
  [w EXCEPT !.inst[s].settings = l, !.language = IF w.server = s THEN Unknown ELSE @]

-----------------------------------------------------------------------------
(* The end of a transfer: reactOnStateChange() of its owner.               *)

\* A defect: the time of a command in several packets does not begin.
CommandSent_Unnoticed(w) == w

CommandSent(w) == [w EXCEPT !.command.age = 0]

\* A report that comes while the terminal is overdue is dropped.
TransferReported(w, owner, success) ==
  LET heard == [w EXCEPT !.stalled = "no"] IN
  CASE ~Active(w) -> [w EXCEPT !.stalled = IF w.server # NoVt THEN "missed" ELSE @]
    [] Active(w) /\ owner = "pool" -> IF success THEN PhaseCompleted(heard) ELSE StartCurrentPhase(heard)
    [] Active(w) /\ owner = "command" /\ success -> CommandSent(heard)
    [] Active(w) /\ owner = "command" /\ ~success -> [TryToStart(heard) EXCEPT !.retried = TRUE]

-----------------------------------------------------------------------------
(* timeEvent()                                                             *)

\* timeEventSearchForNewVt(): the next terminal that is active and that fits.
SearchForNewVt(w, fits) ==
  LET round == Round(w, IF w.own.any /\ w.switching THEN w.last ELSE NoVt)
      passed == {n \in DOMAIN round :
                   \A m \in 1..n : ~(IsActive(w, round[m]) /\ round[m] \in fits)}
      next == Cardinality(passed) + 1
  IN [ResetCapabilities(w, {round[n] : n \in passed})
        EXCEPT !.server = IF next \in DOMAIN round THEN round[next] ELSE NoVt]

\* timeEventCalculateLanguage()
CalculateLanguage(w) ==
  LET inst == w.inst[w.server] IN
  CASE w.language # Unknown -> w
    [] w.language = Unknown /\ inst.settings # Unknown ->
         [w EXCEPT !.language = LanguageIndex(w, inst.settings)]
    [] OTHER -> IF inst.wanted = Unset \/ inst.wanted > RepeatAfter
                THEN [SendMessage(w, "Language", 0) EXCEPT !.inst[w.server].wanted = 0]
                ELSE w

\* timeEventLanguageUpdate()
UpdateLanguage(w) ==
  IF w.pool = "EndSuccess" /\ w.uploading = Unknown /\ w.language # w.uploaded
  THEN UpdatePool([w EXCEPT !.uploading = w.language], 0)
  ELSE w

\* The retries failed: the terminal is taken for lost.
CommandTimeEvent(w) ==
  CASE ~CommandTimedOut(w) -> w
    [] CommandTimedOut(w) /\ w.retry < Retries ->
         [TryToStart(w) EXCEPT !.retry = w.retry + 1, !.retried = TRUE]
    [] OTHER -> [w EXCEPT !.off = FakeOff]

TimeEventByType(w) ==
  CASE w.type = "UploadPool" -> UploadTimeEvent(w)
    [] w.type = "UploadIdle" ->
         IF Filled(w) = {} THEN w
         ELSE [TryToStart(w) EXCEPT !.type = "UploadCommand", !.retry = 0]
    [] w.type = "UploadCommand" -> CommandTimeEvent(w)

\* checkAndHandleVtStateChange() and MultipleVt_c::timeEvent(): after an upload that
\* failed, the next terminal.
Checked(w) ==
  LET seen == CheckAndHandle(w) IN
  CASE w.own.any /\ seen.pool = "EndFailed" -> RestartWithNextVt(TrySwitching(seen))
    [] w.own.any /\ seen.pool = "EndSuccess" -> ResetCapabilities(seen, Range(seen.list))
    [] OTHER -> seen

TimeEvent(w, fits) ==
  LET seen == [Checked([w EXCEPT !.due = FALSE]) EXCEPT !.due = FALSE]
      spoken == CalculateLanguage(seen)
  IN CASE ~Active(seen) -> IF seen.reconnect THEN SearchForNewVt(seen, fits) ELSE seen
       [] Active(seen) /\ ~Announced(seen) -> seen
       [] Active(seen) /\ Announced(seen) /\ spoken.language = Unknown -> spoken
       [] OTHER -> TimeEventByType(UpdateLanguage(spoken))
=============================================================================
