----------------------------- MODULE AddressClaim -----------------------------
(***************************************************************************)
(* ECUs that run IsoMonitor_c on one bus, and foreign nodes that claim     *)
(* what they like. The bus delivers every message to all others in one     *)
(* order, to each when it gets round to it. Identities are switched on and *)
(* off in any order.                                                       *)
(***************************************************************************)
EXTENDS IsoMonitor

CONSTANTS
  Ecu,
  Scenario      \* who is on the bus, and the bounds: see IsScenario

IsMessage(msg) ==
  /\ msg.kind \in {"claim", "request"}
  /\ msg.kind = "claim" => msg.name \in Name
  /\ msg.sa \in Address \union {NoAddress} /\ msg.to \in Address \union {NoAddress, Global}

\* RangeHigher is nobody's wish: the search from there may not end.
IsScenario(c) ==
  /\ DOMAIN c.own \subseteq Ecu /\ Range(c.own) \subseteq SUBSET Name
  /\ \A e, f \in DOMAIN c.own : c.own[e] \intersect c.own[f] # {} => e = f
  /\ c.wish \in [Name -> (Address \union {NoAddress}) \ {RangeHigher}]
  /\ \A msg \in c.foreign : IsMessage(msg)     \* what foreign nodes send
  /\ c.calls \subseteq {"deregister", "restart"}   \* what applications do
  /\ c.early \in BOOLEAN      \* also while the identity waits to claim
  /\ c.changes \in Nat       \* bound: registrations and calls
  /\ c.sent \in Nat          \* bound: foreign messages
  /\ c.late \in Nat          \* messages an ECU has not processed as time passes

ASSUME AddressClaimAssumption == \A c \in Scenario : IsScenario(c)

VARIABLES
  scenario,   \* that of this behaviour
  ecu,        \* the monitors
  bus,        \* messages not yet processed, by ECU
  ran,        \* the ECUs whose time event ran since time passed
  changes,    \* registrations and calls so far
  sent        \* foreign messages so far

vars == <<scenario, ecu, bus, ran, changes, sent>>

OnBus == DOMAIN scenario.own
Own == UNION Range(scenario.own)
Home(n) == CHOOSE e \in OnBus : n \in scenario.own[e]
ItemOf(n) == IF n \in Own THEN Item(ecu[Home(n)], ecu[Home(n)].ident[n].item) ELSE NoItem
IdentOf(n) == ecu[Home(n)].ident[n]

\* What applications listen for: the messages of each other node to an own identity,
\* as the connections of process data do, or to all where there is no identity.
Listening(names) ==
  LET receivers == IF names = {} THEN {AnyName} ELSE names
      partners == {p \in receivers \X Name : p[1] # p[2]}
  IN SetToSeq({IsoFilterOf("partners", p[1], p[2]) : p \in partners})

\* IsoMonitor_c::init
NewMonitor(names) ==
  [filters |-> [NoFilters EXCEPT !.boxes = [k \in DOMAIN Listening(names) |->
                                              NewBox(Listening(names)[k])]],
   items |-> <<>>, table |-> [a \in Address |-> NoId], asked |-> Never, clients |-> <<>>,
   ident |-> [n \in names |-> [state |-> "OffExplicitly", item |-> NoId,
                               sa |-> scenario.wish[n], asked |-> Never]],
   known |-> [n \in Name |-> NotListed], out |-> <<>>]

Init ==
  /\ scenario \in Scenario
  /\ ecu = [e \in OnBus |-> NewMonitor(scenario.own[e])]
  /\ bus = [e \in OnBus |-> <<>>]
  /\ ran = {} /\ changes = 0 /\ sent = 0

-----------------------------------------------------------------------------
\* The monitor of e becomes m, and what it sends is under way to the others.
Becomes(e, m) ==
  /\ ecu' = [ecu EXCEPT ![e] = [m EXCEPT !.out = <<>>]]
  /\ bus' = [f \in OnBus |-> IF f = e THEN bus[f] ELSE bus[f] \o m.out]

Changes(e, m) ==
  /\ changes < scenario.changes /\ changes' = changes + 1
  /\ Becomes(e, m) /\ UNCHANGED <<ran, sent>>

Register(e, n) ==
  /\ \A k \in DOMAIN ecu[e].clients : ecu[e].clients[k] # n
  /\ Changes(e, RegisterIdentItem(ecu[e], n))

\* The application may make the call on its identity.
MayCall(call, e, n) ==
  /\ call \in scenario.calls
  /\ \E k \in DOMAIN ecu[e].clients : ecu[e].clients[k] = n
  /\ scenario.early \/ ItemOf(n).state # "PreAddressClaim"

Deregister(e, n) ==
  /\ MayCall("deregister", e, n)
  /\ Changes(e, DeregisterIdentItem(ecu[e], n))

RestartWithPreAddressClaim(e, n) ==
  /\ MayCall("restart", e, n)
  /\ Changes(e, Restart(ecu[e], n))

RunTimeEvent(e) ==
  /\ Becomes(e, TimeEvent(ecu[e]))
  /\ ran' = ran \union {e} /\ UNCHANGED <<changes, sent>>

ProcessMsg(e) ==
  /\ bus[e] # <<>>
  /\ \E m \in Processed(ecu[e], Head(bus[e])) :
       /\ ecu' = [ecu EXCEPT ![e] = [m EXCEPT !.out = <<>>]]
       /\ bus' = [f \in OnBus |-> IF f = e THEN Tail(bus[f]) ELSE bus[f] \o m.out]
  /\ UNCHANGED <<ran, changes, sent>>

ForeignMessage ==
  /\ sent < scenario.sent /\ sent' = sent + 1
  /\ \E msg \in scenario.foreign : bus' = [e \in OnBus |-> Append(bus[e], msg)]
  /\ UNCHANGED <<ecu, ran, changes>>

TimePasses ==
  /\ ran = OnBus /\ \A e \in OnBus : Len(bus[e]) <= scenario.late
  /\ ecu' = [e \in OnBus |-> Tick(ecu[e])]
  /\ ran' = {} /\ UNCHANGED <<bus, changes, sent>>

Step ==
  \/ \E e \in OnBus :
       \/ \E n \in scenario.own[e] :
            Register(e, n) \/ Deregister(e, n) \/ RestartWithPreAddressClaim(e, n)
       \/ RunTimeEvent(e)
       \/ ProcessMsg(e)
  \/ ForeignMessage
  \/ TimePasses

Next == Step /\ UNCHANGED scenario
Spec == Init /\ [][Next]_vars

\* The scheduler goes round its tasks and messages are processed, as time passes.
FairSpec ==
  /\ Spec
  /\ []<>(ran = OnBus) /\ []<>(ran = {})
  /\ \A e \in Ecu : []<>(e \in OnBus => bus[e] = <<>>)

-----------------------------------------------------------------------------
(* Properties                                                              *)

Quiet == \A e \in OnBus : bus[e] = <<>>
InUse(i) == i.state \in {"AddressClaim", "ClaimedAddress"} /\ i.nr < NoAddress

IsItem(i) ==
  /\ i.name \in Name /\ i.nr \in Address \union {NoAddress}
  /\ i.state \in ItemState /\ {i.local, i.off, i.doubted} \subseteq BOOLEAN
  /\ i.since \in 0..ClaimWait /\ i.asked \in Never..MaxAge

TypeOK ==
  /\ DOMAIN ecu = OnBus /\ DOMAIN bus = OnBus /\ ran \subseteq OnBus
  /\ changes \in 0..scenario.changes /\ sent \in 0..scenario.sent
  /\ \A e \in OnBus : LET m == ecu[e] IN
       /\ \A i \in Range(m.items) : IsItem(i)
       /\ \A a \in Address : m.table[a] \in Nat
       /\ m.asked \in Never..(RequestPeriod + 1)
       /\ Range(m.clients) \subseteq DOMAIN m.ident /\ DOMAIN m.ident = scenario.own[e]
       /\ \A n \in DOMAIN m.ident : m.ident[n].state \in IdentState
       /\ m.out = <<>>
       /\ \A msg \in Range(bus[e]) : IsMessage(msg)

(* As soon as all have processed what was sent, no two of the identities   *)
(* use one address: in whatever order the claims crossed on the bus, and   *)
(* whoever came, went or claimed before, IsoMonitor_c::processMsg leaves   *)
(* the address to the stronger NAME.                                       *)
QuietMeansUnique ==
  Quiet => \A n, k \in Own : n # k /\ InUse(ItemOf(n)) /\ InUse(ItemOf(k))
                               => ItemOf(n).nr # ItemOf(k).nr

(* At no time does an ECU hold a claimed item of another node at an        *)
(* address that an own identity uses: every branch of processMsg takes it  *)
(* from one of the two before it gives it to the other.                    *)
OwnAddressIsOwn ==
  \A n \in Own : InUse(ItemOf(n)) =>
    \A i \in Range(ecu[Home(n)].items) :
      InUse(i) /\ i.nr = ItemOf(n).nr => i.id = ItemOf(n).id

ForeignNames == {msg.name : msg \in {f \in scenario.foreign : f.kind = "claim"}}
\* Nobody outside uses the NAME of an own identity.
NoImpostor == ForeignNames \intersect Own = {}

(* The broadcasts to the ControlFunctionStateHandlers are complete: who    *)
(* follows them knows the address of every item but an own one that is not *)
(* announced yet, and nothing of a node that is not listed. Clients keep   *)
(* no other track of a partner.                                            *)
HandlersKnow ==
  NoImpostor => \A e \in OnBus : LET m == ecu[e] IN
    /\ \A i \in Range(m.items) :
         \/ i.local /\ i.state \in {"PreAddressClaim", "AddressClaim", "Off"}
         \/ m.known[i.name] = i.nr
    /\ \A n \in Name : m.known[n] # NotListed => ItemOfName(m, n) # NoItem

(* IdentItem_c's pointer to its item never dangles (the fear of the todo   *)
(* in internalIsoItemErase), and an identity has an item while it claims   *)
(* or has claimed, and only then: timeEventActive goes through it.         *)
IdentListed ==
  \A n \in Own :
    IF IdentOf(n).state \in {"AddressClaim", "ClaimedAddress"}
    THEN ItemOf(n).local /\ ItemOf(n).name = n
    ELSE IdentOf(n).item = NoId

(* Once all have processed what was sent, every other ECU lists an         *)
(* identity that uses an address, with that address: no claim is           *)
(* overlooked, no conflict is resolved differently on the two sides, and   *)
(* no node that answers is aged out. For identities that are not           *)
(* switched off while they wait to claim: that clears the table's entry    *)
(* of another node, whose requests then go unanswered.                     *)
QuietListsAgree ==
  Quiet /\ scenario.late = 0 /\ ~scenario.early =>
    \A n \in Own : \A e \in OnBus \ {Home(n)} : InUse(ItemOf(n)) =>
      LET i == ItemOfName(ecu[e], n)
      IN i.state = "ClaimedAddress" /\ i.nr = ItemOf(n).nr

(* The filters given by NAMEs are those of the addresses the NAMEs have     *)
(* claimed by now: none is missing, and none is left at an address that     *)
(* its node has lost. Filters that coincide are one at CanIo_c, and a box   *)
(* takes it from the other: so not with an impostor, nor where an identity  *)
(* that waits hides one foreign node from another, as in the shadow below.  *)
FiltersFollow ==
  NoImpostor /\ Cardinality(ForeignNames) <= 1 => \A e \in OnBus :
    LET m == ecu[e]
        at == ClaimedAddresses(m)
        filters == {m.filters.boxes[k].filter : k \in DOMAIN m.filters.boxes}
        complete == {f \in filters : \A n \in Named(f) : at[n] # NoAddress}
    IN m.filters.can = {Adapted(f, at) : f \in complete}

(* The identity with the strongest NAME on the bus defends its address and *)
(* never moves from it in use.                                             *)
StrongestNeverMoves ==
  [][\A n \in Own :
       /\ \A k \in Own \union ForeignNames : n <= k
       /\ InUse(ItemOf(n)) /\ InUse(ItemOf(n)')
       => ItemOf(n)'.nr = ItemOf(n).nr]_vars

(* An identity does not claim for ever: it gets an address, or goes        *)
(* OffUnable, or is switched off. With an impostor it may: it waits for    *)
(* the listed node of its NAME to go and never asks whether it is there.   *)
Claiming(n) ==
  NoImpostor /\ n \in Own /\ IdentOf(n).state \in {"PreAddressClaim", "AddressClaim"}
ClaimsEnd == \A n \in Name : Claiming(n) ~> ~Claiming(n)

(* A node that went away is not kept: an ECU with an identity of its own   *)
(* to ask with forgets it, as timeEvent asks again and again, a second     *)
(* time for itself, and erases who does not answer.                        *)
Remembered(n, e) ==
  /\ n \in Own /\ ~InUse(ItemOf(n)) /\ e \in OnBus /\ n \notin scenario.own[e]
  /\ ItemOfName(ecu[e], n) # NoItem /\ AnyActiveLocalItem(ecu[e]) # NoItem
SilentForgotten == \A n \in Name, e \in Ecu : Remembered(n, e) ~> ~Remembered(n, e)

(* Identities and items fit together after every call and message.         *)
IdentitiesConsistent == TypeOK /\ IdentListed

(* What the claims lead to once all are processed: one user for an         *)
(* address, and the same list of them everywhere.                          *)
QuietAgreement == QuietMeansUnique /\ QuietListsAgree

(* Neither an identity nor the memory of a node stays undecided.           *)
AddressesSettle == ClaimsEnd /\ SilentForgotten
=============================================================================
