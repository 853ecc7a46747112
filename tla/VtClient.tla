------------------------------ MODULE VtClient ------------------------------
(***************************************************************************)
(* VtClient_c with one connection and the terminals on the bus: what each  *)
(* of them holds of the client's pool, the order in which it handles what  *)
(* it is sent, the transfers to it, and the application's commands.        *)
(*                                                                         *)
(* Once the transfer of an earlier connection reported to the next one     *)
(* nothing further is followed.                                            *)
(***************************************************************************)
EXTENDS VtConnection

CONSTANTS
  Scenario,
  ServerQueue,   \* how much a terminal is sent before it handles the first of it
  CommandQueue   \* how many commands the application lets wait

IsScenario(s) ==
  /\ s.vts \subseteq Vt              \* on the bus from the start
  /\ s.fits \subseteq Vt             \* terminals the client may connect to
  /\ {s.any, s.labelled, s.multi} \subseteq BOOLEAN
  /\ s.stored \subseteq SUBSET Int   \* labels of what they may hold at first
  /\ s.languages \subseteq Int       \* of the terminals
  /\ s.prompt \in BOOLEAN            \* everything is answered before the time passes
  /\ s.loses \in BOOLEAN             \* requests and answers are lost, transfers aborted
  /\ s.refuses \in BOOLEAN           \* terminals refuse a pool or are full
  /\ s.nacks \in BOOLEAN             \* they do not know the client any more
  /\ s.silent \in BOOLEAN            \* terminals stop sending their status
  /\ s.off \in BOOLEAN               \* they are switched off and on
  /\ s.leaves \in BOOLEAN            \* they leave the bus and return
  /\ s.others \in BOOLEAN            \* other long messages go to them
  /\ s.kinds \subseteq {"Value", "String", "Update"}  \* what the application commands
  /\ s.moves \in BOOLEAN             \* it moves to the next terminal
  /\ s.disconnects \in BOOLEAN       \* it disconnects
  /\ s.replaces \in BOOLEAN         \* a command replaces one that waits for its object
  /\ s.priorities \subseteq Priority

ASSUME VtClientAssumption ==
  /\ \A s \in Scenario : IsScenario(s)
  /\ {ServerQueue, CommandQueue} \subseteq Nat \ {0}

VARIABLES
  scenario,
  w,          \* the connection
  vt,         \* the terminals
  turn        \* flips when the time passes

vars == <<scenario, w, vt, turn>>

NoPool == [fix |-> FALSE, language |-> Unknown]

\* What a label stands for is its pool.
Terminal(on, stored, language) ==
  [on |-> on,
   pool |-> NoPool, incoming |-> NoPool,
   stored |-> stored, language |-> language,
   value |-> Unset]

Pool(labels, multi) ==
  {[label |-> l, language |-> IF multi THEN Real(l) ELSE Unknown] : l \in labels}

Init ==
  /\ scenario \in Scenario
  /\ w = NewConnection([any |-> scenario.any, labelled |-> scenario.labelled,
                        multi |-> scenario.multi],
                       SetToSeq(scenario.vts))
  /\ \E labels \in scenario.stored, language \in scenario.languages :
       vt = [s \in Vt |-> Terminal(s \in scenario.vts, Pool(labels, scenario.multi), language)]
  /\ turn = FALSE

Listed(s) == s \in Range(w.list)
Labels(s) == {version.label : version \in vt[s].stored}

Complete(pool) == pool.fix /\ (w.own.multi => pool.language # Unknown)

\* The pool with what arrived since.
Joined(s) ==
  [fix |-> vt[s].pool.fix \/ vt[s].incoming.fix,
   language |-> IF vt[s].incoming.language # Unknown THEN vt[s].incoming.language
                ELSE vt[s].pool.language]

-----------------------------------------------------------------------------
(* Terminals.                                                              *)

\* A new master starts without a pool.
Emptied(t) == [t EXCEPT !.pool = NoPool, !.incoming = NoPool, !.value = Unset]

\* Whether terminal s agrees to request r, if it does not refuse.
Agrees(s, r, ok) ==
  /\ ok
  /\ r.kind = "LoadVersion" => r.what \in Labels(s)
  /\ r.kind = "PoolReady" => Complete(Joined(s))

\* What it holds after it handled r.
Handled(s, r, ok) ==
  LET t == vt[s] IN
  CASE r.kind \in {"Announce", "DeletePool"} -> Emptied(t)
    [] r.kind = "LoadVersion" /\ ok ->
         LET version == CHOOSE v \in t.stored : v.label = r.what
         IN [Emptied(t) EXCEPT !.pool = [fix |-> TRUE, language |-> version.language]]
    [] r.kind = "PoolReady" ->
         [t EXCEPT !.pool = IF ok THEN Joined(s) ELSE @, !.incoming = NoPool]
    [] r.kind = "StoreVersion" ->
         [t EXCEPT !.stored = {v \in @ : v.label # r.what}
                                \union {[label |-> r.what, language |-> t.pool.language]}]
    [] r.kind = "Value" -> [t EXCEPT !.value = r.what]
    [] OTHER -> t

\* The terminal handles the first of what it was sent; only the terminal in use is heard.
Answer(s, ok) ==
  LET r == Head(w.sent[s])
      agrees == Agrees(s, r, ok)
      rest == [w EXCEPT !.sent[s] = Tail(@)]
  IN /\ vt[s].on /\ w.sent[s] # <<>>
     /\ ok \/ (scenario.refuses /\ r.kind \in {"Memory", "LoadVersion", "PoolReady"})
     /\ vt' = [vt EXCEPT ![s] = Handled(s, r, agrees)]
     /\ w' = CASE r.kind = "Announce" -> rest
               [] r.kind = "Language" -> LanguageReceived(rest, s, vt[s].language)
               [] r.kind \notin {"Announce", "Language"} /\ s = w.server ->
                    Answered(rest, r, agrees, Labels(s))
               [] OTHER -> rest

\* Requests of an upload have no time-out but GetVersions.
WithoutTimeout(s, r) ==
  /\ s = w.server /\ ~r.old
  /\ \/ r.kind = "Memory" /\ w.pool \in {"WaitingForVtVersion", "WaitingForMemory"}
     \/ r.kind = "LoadVersion" /\ w.pool = "WaitingForLoadVersion"
     \/ r.kind = "StoreVersion" /\ w.pool = "WaitingForStoreVersion"
     \/ r.kind = "PoolReady" /\ w.pool = "WaitingForEOO"

\* A request or the answer to it is lost.
Lose(s, handled) ==
  LET r == Head(w.sent[s]) IN
  /\ scenario.loses
  /\ w.sent[s] # <<>> /\ r.kind # "Announce"
  /\ w' = [w EXCEPT !.sent[s] = Tail(@), !.stalled = IF WithoutTimeout(s, r) THEN w.pool ELSE @]
  /\ IF handled
     THEN vt[s].on /\ vt' = [vt EXCEPT ![s] = Handled(s, r, Agrees(s, r, TRUE))]
     ELSE UNCHANGED vt

\* processMsgAck(): the terminal does not know this client.
Nack(s) ==
  /\ scenario.nacks
  /\ vt[s].on /\ s = w.server /\ w.sent[s] # <<>>
  /\ Head(w.sent[s]).kind # "Announce"
  /\ w' = Restart([w EXCEPT !.sent[s] = Tail(@)])
  /\ UNCHANGED vt

Status(s) ==
  /\ vt[s].on /\ Listed(s)
  /\ w.inst[s].age # 0
  /\ w' = [w EXCEPT !.inst[s].age = 0]
  /\ UNCHANGED vt

\* Its user chooses another language, which it broadcasts.
ChangeLanguage(s, l) ==
  /\ vt[s].on /\ Listed(s)
  /\ l \in scenario.languages \ {vt[s].language}
  /\ vt' = [vt EXCEPT ![s].language = l]
  /\ w' = LanguageReceived(w, s, l)

\* What it is sent while it is off is lost.
TurnOff(s) ==
  /\ scenario.off
  /\ vt[s].on
  /\ vt' = [vt EXCEPT ![s] = [Emptied(@) EXCEPT !.on = FALSE]]
  /\ UNCHANGED w

\* Starting takes a terminal longer than it takes the client to miss it.
TurnOn(s) ==
  /\ ~vt[s].on /\ Listed(s)
  /\ w.server = s => ~w.alive
  /\ vt' = [vt EXCEPT ![s].on = TRUE]
  /\ w' = [w EXCEPT !.sent[s] = <<>>]

\* The monitor list drops the terminal; a transfer to it goes on.
RemoveVt(s) ==
  /\ scenario.leaves
  /\ Listed(s)
  /\ vt' = [vt EXCEPT ![s] = [Emptied(@) EXCEPT !.on = FALSE]]
  /\ w' = [w EXCEPT !.list = Remove(@, s), !.inst[s] = NewInstance, !.sent[s] = <<>>,
                    !.server = IF @ = s THEN NoVt ELSE @,
                    !.last = IF @ = s THEN NoVt ELSE @,
                    !.transfer[s].owner = IF @ \in {"pool", "command"} THEN "earlier" ELSE @]

AddVt(s) ==
  /\ scenario.leaves
  /\ ~Listed(s)
  /\ vt' = [vt EXCEPT ![s].on = TRUE]
  /\ w' = [w EXCEPT !.list = Append(@, s)]

-----------------------------------------------------------------------------
(* Transfers.                                                              *)

\* A part of the pool or a command arrives.
Arrives(s, t) ==
  CASE t.part = "fix" -> [vt EXCEPT ![s].incoming.fix = TRUE]
    [] t.part = "language" -> [vt EXCEPT ![s].incoming.language = t.content]
    [] OTHER -> vt

Begun(s) ==
  IF w.transfer[s].part = "string"
  THEN [w EXCEPT !.sent[s] = Append(@, [kind |-> "String", what |-> w.transfer[s].content, old |-> FALSE])]
  ELSE w

\* A transfer ends; aborted, it may have arrived nevertheless.
TransferEnds(s, success, arrives) ==
  LET t == w.transfer[s]
      ended == [(IF arrives THEN Begun(s) ELSE w) EXCEPT !.transfer[s] = NoTransfer]
  IN /\ t # NoTransfer
     /\ success => arrives
     /\ arrives => vt[s].on /\ Len(w.sent[s]) < ServerQueue
     /\ success \/ scenario.loses \/ ~vt[s].on
     /\ vt' = IF arrives THEN Arrives(s, t) ELSE vt
     /\ w' = CASE t.owner \in {"pool", "command"} -> TransferReported(ended, t.owner, success)
               [] t.owner = "earlier" -> [ended EXCEPT !.strayed = Active(w)]
               [] t.owner = "other" -> ended

\* Another part of the program sends the terminal a long message.
OtherTransfer(s) ==
  /\ scenario.others
  /\ Listed(s) /\ w.transfer[s] = NoTransfer
  /\ w' = [w EXCEPT !.transfer[s] = [owner |-> "other", part |-> "none", content |-> 0]]
  /\ UNCHANGED vt

-----------------------------------------------------------------------------
(* The application.                                                        *)

Waiting == FoldFunction(LAMBDA q, n : Len(q) + n, 0, w.queue)

\* A command is queued for its object, in place of what waits for the same one.
Command(kind, what, p, replace) ==
  LET queued == QueueOrReplace([w EXCEPT !.sendPriority = p], kind, what, replace) IN
  /\ kind \in scenario.kinds /\ p \in scenario.priorities
  /\ Waiting < CommandQueue
  /\ w' = IF kind = "Value" /\ w.pool = "EndSuccess"
          THEN [queued EXCEPT !.commanded = what] ELSE queued
  /\ UNCHANGED vt

UserUpdate(p) ==
  /\ "Update" \in scenario.kinds /\ p \in scenario.priorities
  /\ Waiting < CommandQueue
  /\ w' = UpdatePool([w EXCEPT !.sendPriority = p], 1)
  /\ UNCHANGED vt

MoveToNextVt ==
  LET queued == DeleteObjectPool(w) IN
  /\ scenario.moves
  /\ w' = IF w.pool = "EndSuccess" THEN TrySwitching(queued) ELSE queued
  /\ UNCHANGED vt

DisconnectFromVt ==
  LET queued == DeleteObjectPool(w) IN
  /\ scenario.disconnects
  /\ w' = [queued EXCEPT !.reconnect = @ /\ w.pool # "EndSuccess"]
  /\ UNCHANGED vt

ClientTimeEvent ==
  /\ ~w.shutdown
  /\ w' = TimeEvent(w, scenario.fits)
  /\ UNCHANGED vt

-----------------------------------------------------------------------------
(* The clock: what is due is done before it advances, a terminal that is   *)
(* not silent sends its status in time and is not behind too much.         *)

AllDone == ~w.due \/ w.shutdown

Older(n, longest) == IF n \in 0..longest THEN n + 1 ELSE n

\* What was answered is not asked for again.
AgedInstance(inst) ==
  [inst EXCEPT !.age = Older(@, StatusLost),
               !.asked = [n \in 1..Properties |->
                            IF n \in inst.known THEN @[n] ELSE Older(@[n], RepeatAfter)],
               !.wanted = IF inst.settings = Unknown THEN Older(@, RepeatAfter) ELSE @]

Aged ==
  [w EXCEPT !.due = TRUE,
            !.off = IF @ > 0 THEN @ - 1 ELSE @,
            !.timer = IF w.pool = "WaitingForGetVersions" THEN Older(@, GetVersionsTimeout) ELSE @,
            !.command.age = Older(@, IF w.command.kind = "PoolReady" THEN PoolReadyTimeout ELSE CommandTimeout),
            !.inst = [s \in Vt |-> IF Listed(s) THEN AgedInstance(@[s]) ELSE @[s]]]

Tick ==
  /\ AllDone
  /\ \A s \in Vt : vt[s].on /\ Listed(s) =>
       /\ scenario.silent \/ w.inst[s].age < StatusLost
       /\ Len(w.sent[s]) < ServerQueue
       /\ scenario.prompt => w.sent[s] = <<>> /\ w.transfer[s] = NoTransfer
  /\ w' = Aged
  /\ UNCHANGED vt

Terminals ==
  \E s \in Vt :
    \/ \E ok \in BOOLEAN : Answer(s, ok) \/ Lose(s, ok)
    \/ Nack(s)
    \/ Status(s)
    \/ \E l \in scenario.languages : ChangeLanguage(s, l)
    \/ TurnOff(s)
    \/ TurnOn(s)
    \/ RemoveVt(s)
    \/ AddVt(s)

Library ==
  \/ ClientTimeEvent
  \/ \E s \in Vt, success, arrives \in BOOLEAN : TransferEnds(s, success, arrives)
  \/ \E s \in Vt : OtherTransfer(s)

Application ==
  \/ \E p \in Priority :
       \/ \E value \in 0..1 : Command("Value", value, p, scenario.replaces)
       \/ Command("String", 0, p, scenario.replaces)
       \/ UserUpdate(p)
  \/ MoveToNextVt
  \/ DisconnectFromVt

Next ==
  /\ UNCHANGED scenario
  /\ \/ ~w.strayed /\ (Terminals \/ Library \/ Application) /\ UNCHANGED turn
     \/ w.strayed /\ UNCHANGED <<w, vt, turn>>
     \/ ~w.strayed /\ Tick /\ turn' = ~turn

Spec == Init /\ [][Next]_vars

\* The scheduler calls the connection when it is due and the time passes.
ClockRuns == []<>AllDone /\ []<>turn /\ []<>~turn

\* What a terminal is sent it answers, or it is lost.
ServersAnswer == \A s \in Vt : []<>(~vt[s].on \/ w.sent[s] = <<>>)

\* A transfer ends, and one that is started again and again succeeds.
TransfersSucceed == \A s \in Vt : []<>(w.transfer[s] = NoTransfer)

\* What is asked for again and again is answered once.
RepeatsSucceed ==
  \A s \in Vt :
    []<>(\E n \in DOMAIN w.sent[s] : w.sent[s][n].kind \in {"Property", "Language"})
      => []<>(w.inst[s].known = 1..Properties /\ w.inst[s].settings # Unknown)

FairSpec == Spec /\ ClockRuns /\ ServersAnswer /\ TransfersSucceed /\ RepeatsSucceed

-----------------------------------------------------------------------------
(* Correctness.                                                            *)

\* Every variable has its type.
TypeOK ==
  /\ scenario \in Scenario /\ turn \in BOOLEAN
  /\ w.server \in Vt \union {NoVt} /\ w.last \in Vt \union {NoVt}
  /\ w.type \in UploadType /\ w.pool \in PoolState
  /\ w.poolType \in {"initial", "language", "user"} /\ w.phase \in 0..3
  /\ w.retry \in 0..Retries /\ w.off \in 0..FakeOff /\ w.prio \in Priority
  /\ w.command.st \in {"Idle", "Awaiting", "Partial"}
  /\ {w.alive, w.reconnect, w.shutdown, w.switching, w.due} \subseteq BOOLEAN
  /\ w.stalled \in Cause
  /\ IsInjective(w.list) /\ Range(w.list) \subseteq Vt
  /\ \A s \in Vt :
       /\ w.transfer[s].owner \in {"none", "pool", "command", "earlier", "other"}
       /\ w.inst[s].known \subseteq 1..Properties
       /\ vt[s].pool.fix \in BOOLEAN /\ vt[s].on \in BOOLEAN

\* A command is in progress exactly while the connection waits for one, and it is the
\* first of its queue, but for an update without a part, which is over when it begins;
\* commands wait only for a pool that is uploaded.
CommandIsQueued ==
  /\ ~(w.stalled = "partless" /\ w.command.st = "Partial") =>
       /\ w.type = "UploadCommand" <=> w.command.st # "Idle"
       /\ w.command.st # "Idle" => w.queue[w.prio] # <<>>
  /\ Filled(w) # {} => w.pool = "EndSuccess"

\* A transfer to the terminal in use belongs to what the connection is doing.
TransferBelongs ==
  w.server # NoVt =>
    LET owner == w.transfer[w.server].owner IN
    /\ owner = "pool" => w.pool = "Uploading" \/ w.command.st = "Partial"
    /\ owner = "command" => w.command.st = "Awaiting" /\ w.command.kind = "String"
                            /\ w.command.age = Unset

\* Answers go astray only after a command was sent again.
MixedByRetry == w.mixed => w.retried

Undisturbed == w.pool = "EndSuccess" /\ Active(w) /\ ~(w.mixed \/ w.deleting \/ w.strayed)

\* A terminal whose client takes its pool for uploaded holds it in the language that
\* was uploaded, whatever was loaded, rejected or updated.
UploadedIsHeld ==
  Undisturbed /\ w.alive /\ vt[w.server].on =>
    /\ vt[w.server].pool.fix
    /\ w.own.multi /\ w.uploading = Unknown =>
         vt[w.server].pool.language = Content(w, w.uploaded)

\* When nothing waits the terminal shows the value that was commanded last, unless a
\* retry let an older one of less priority come last.
LastValueWins ==
  /\ Undisturbed /\ w.alive /\ vt[w.server].on /\ w.commanded # Unset
  /\ \A p \in Priority : \A n \in DOMAIN w.queue[p] : w.queue[p][n].kind # "Value"
  /\ w.retried => Cardinality(scenario.priorities) = 1
  => vt[w.server].value = w.commanded

\* The connection, its commands, its transfers and the terminal fit together.
ConnectionConsistent ==
  TypeOK /\ CommandIsQueued /\ TransferBelongs /\ MixedByRetry /\ UploadedIsHeld /\ LastValueWins

\* The connection is gone, the client told that it may be switched off, or it waits for
\* what one of the four causes in Hangs took from it.
Excused == ~w.alive \/ ~Active(w) \/ w.shutdown \/ Hangs(w) \/ w.strayed

\* An upload and a command come to their end, and so does a change of the language,
\* unless the terminal goes or the connection still waits for what will not come: the
\* answer to a request without a time-out that was lost; a transfer that was refused
\* because another one ran; the report of a transfer that was dropped because the
\* terminal was overdue; or, with nothing lost, an update for which the upload had
\* chosen no language (uploadpoolstate_c.cpp:289, against the comment at :700).  A
\* connection that any other order of events stops violates this.
UploadsEnd ==
  /\ []<>(Excused \/ w.pool = "EndFailed" \/ (w.pool = "EndSuccess" /\ w.type = "UploadIdle"))
  /\ []<>(Excused \/ w.uploading = Unknown \/ w.pool # "EndSuccess")

\* A client that disconnects is told when it may be switched off, unless it hangs for good.
DisconnectEnds == (~w.reconnect ~> w.shutdown \/ w.strayed) \/ <>[]Hangs(w)

\* A terminal that keeps sending its status is found, or another one.
TerminalFound ==
  \A s \in Vt :
    <>[](Listed(s) /\ s \in scenario.fits /\ IsActive(w, s))
      => []<>(w.alive \/ ~w.reconnect \/ w.strayed)

\* Whatever the client is waiting for ends.
ConnectionProgresses == UploadsEnd /\ DisconnectEnds /\ TerminalFound
=============================================================================
