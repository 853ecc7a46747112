------------------------------ MODULE IsoMonitor ------------------------------
(***************************************************************************)
(* IsoMonitor_c, IsoItem_c and IdentItem_c of one ECU: the list of the     *)
(* control functions on the bus, the table that finds one by its address,  *)
(* and the claiming of addresses for the ECU's own identities.             *)
(*                                                                         *)
(* A monitor is a record; every operation maps it to the monitor           *)
(* afterwards, with the messages it sends appended to out. Items are       *)
(* pointed at by an id, which is free for use again once the item is       *)
(* erased, as memory is. A NAME is a number: the smaller one has priority. *)
(*                                                                         *)
(* Times are ages in ticks that stop counting once nothing depends on      *)
(* them. Of m_timestampLastRequestForAddressClaimed and lastTime of a      *)
(* remote item only the age of a request it did not answer yet is kept.    *)
(* calc_randomWait is left out: time events come late by any number of     *)
(* ticks anyway.                                                           *)
(***************************************************************************)
EXTENDS IsoFilter, Lists

CONSTANTS
  Name,           \* the NAMEs, smaller is stronger
  SelfConf,       \* those that may choose an address
  Address,        \* addresses below 0xFE
  RangeLower, RangeHigher,   \* 0x80 and 0xEE
  PreWait,        \* 1250 ms after the request
  ClaimWait,      \* 250 ms after the claim
  MaxAge,         \* CONFIG_ISO_ITEM_MAX_AGE, 300 ms
  RequestPeriod   \* SA_REQUEST_PERIOD_MSEC, 60 s

Global == 255
Never == -1
NotListed == -1
NoId == 0

ASSUME IsoMonitorAssumption ==
  /\ Name \subseteq Nat /\ SelfConf \subseteq Name
  /\ Address \subseteq 0..253
  /\ RangeLower \in Nat /\ RangeHigher \in Nat /\ RangeLower < RangeHigher
  /\ RangeLower..(RangeHigher - 1) \subseteq Address
  /\ {PreWait, ClaimWait, MaxAge, RequestPeriod} \subseteq Nat

ItemState == {"PreAddressClaim", "AddressClaim", "ClaimedAddress", "AddressLost", "Off"}
IdentState == {"PreAddressClaim", "AddressClaim", "ClaimedAddress", "OffExplicitly", "OffUnable"}

\* IsoItem_c. off: OffUnable; doubted: PossiblyOffline; since: age of the last
\* claim sent, of own items; asked: age of an unanswered request, of others.
NewItem(name, nr, state, local) ==
  [id |-> NoId, name |-> name, nr |-> nr, state |-> state, local |-> local,
   off |-> FALSE, doubted |-> FALSE, since |-> 0, asked |-> Never]
NoItem == NewItem(0, NoAddress, "Off", FALSE)

-----------------------------------------------------------------------------
(* The list and the table                                                  *)

\* The first of the items found at the places, or none.
FirstOf(m, places) == IF places = {} THEN NoItem ELSE m.items[Min(places)]
Item(m, id) == FirstOf(m, {k \in DOMAIN m.items : m.items[k].id = id})
ItemOfName(m, name) == FirstOf(m, {k \in DOMAIN m.items : m.items[k].name = name})
ItemAt(m, sa) == FirstOf(m, {k \in DOMAIN m.items : m.items[k].nr = sa})
ClaimedOfName(m, name) ==
  FirstOf(m, {k \in DOMAIN m.items : m.items[k].name = name /\ m.items[k].state = "ClaimedAddress"})
Listed(m, id) == \E k \in DOMAIN m.items : m.items[k].id = id

\* The item with the same id becomes i.
With(m, i) ==
  [m EXCEPT !.items = [k \in DOMAIN @ |-> IF @[k].id = i.id THEN i ELSE @[k]]]

ClaimedAddresses(m) == [n \in Name |-> ClaimedOfName(m, n).nr]

\* MultiReceive_c::reactOnIsoItemModification listens for the ECU's own nodes. It
\* hears of them after the filter manager, which was there first.
OwnFilter(i) == IsoFilterOf("MultiReceive", i.name, AnyName)
TransportFilters(fs, action, i, at) ==
  CASE action = "AddToMonitorList" /\ i.local -> InsertIsoFilter(fs, OwnFilter(i), at)
    [] action = "RemoveFromMonitorList" /\ i.local -> RemoveIsoFilter(fs, OwnFilter(i))
    [] OTHER -> fs

\* broadcastIsoItemModification2Clients: what a handler knows of the NAME, and the
\* handlers that keep filters.
Announce(m, action, i) ==
  LET at == ClaimedAddresses(m)
      updated == ReactOnModification(m.filters, action, i.name, at)
  IN [m EXCEPT !.known[i.name] = IF action = "RemoveFromMonitorList" THEN NotListed ELSE i.nr,
               !.filters = TransportFilters(updated, action, i, at)]

InTable(m, i) == IF i.nr < NoAddress THEN [m EXCEPT !.table[i.nr] = i.id] ELSE m
OutOfTable(m, i) == IF i.nr < NoAddress THEN [m EXCEPT !.table[i.nr] = NoId] ELSE m

\* A dangling pointer in the table is never taken for a new item.
FreeId(m) ==
  LET used == {m.items[k].id : k \in DOMAIN m.items} \union {m.table[a] : a \in Address}
  IN CHOOSE n \in 1..(Cardinality(used) + 1) : n \notin used /\ \A k \in 1..(n - 1) : k \in used

InsertIsoMember(m, i, announce) ==
  LET new == [i EXCEPT !.id = FreeId(m)]
      listed == [m EXCEPT !.items = <<new>> \o @]
      found == IF new.state \in {"AddressClaim", "ClaimedAddress"}
               THEN InTable(listed, new) ELSE listed
  IN IF announce THEN Announce(found, "AddToMonitorList", new) ELSE found

\* internalIsoItemErase
Erase(m, i) ==
  OutOfTable([Announce(m, "RemoveFromMonitorList", i) EXCEPT
                !.items = Selected(@, {k \in Range(@) : k.id # i.id})], i)

\* The item's own address never counts.
IsAddressFree_Own(m, i, sa, resolveConflict) ==
  \A k \in DOMAIN m.items : m.items[k].nr = sa => m.items[k].id = i.id
\* isAddressFree: when a conflict is resolved the item's own address counts.
IsAddressFree(m, i, sa, resolveConflict) ==
  \A k \in DOMAIN m.items :
    m.items[k].nr = sa => ~resolveConflict /\ m.items[k].id = i.id

\* unifyIsoSa. The search wraps round before it tries RangeHigher; from a busy
\* RangeHigher it would not end when all others are busy, see Scenario.
UnifyIsoSa(m, i, resolveConflict) ==
  LET free(sa) == IsAddressFree(m, i, sa, resolveConflict)
      size == RangeHigher - RangeLower
      start == IF i.nr \in RangeLower..(RangeHigher - 1) THEN i.nr - RangeLower ELSE 0
      tried(k) == RangeLower + ((start + k) % size)
      hits == {k \in 0..(size - 1) : free(tried(k))}
  IN IF i.nr < NoAddress /\ free(i.nr) THEN i.nr
     ELSE IF i.name \notin SelfConf \/ hits = {} THEN NoAddress
     ELSE tried(CHOOSE k \in hits : \A h \in hits : k <= h)

-----------------------------------------------------------------------------
(* Messages                                                                *)

Claim(i) == [kind |-> "claim", name |-> i.name, sa |-> i.nr, to |-> Global]
Request(sa, to) == [kind |-> "request", name |-> 0, sa |-> sa, to |-> to]
Sent(m, msgs) == [m EXCEPT !.out = @ \o msgs]

\* IsoItem_c::sendSaClaim of those of the items that are past PreAddressClaim.
SendSaClaims(m, items) ==
  LET claiming == Selected(items, {i \in Range(items) : i.state # "PreAddressClaim"})
  IN Sent(m, [k \in DOMAIN claiming |-> Claim(claiming[k])])

\* setLastIsoSaRequest
SetLastIsoSaRequest(m) ==
  [m EXCEPT !.asked = 0,
            !.items = [k \in DOMAIN @ |-> IF @[k].local THEN @[k] ELSE [@[k] EXCEPT !.asked = 0]]]

\* sendRequestForClaimedAddress. Sender and receiver may be NoItem; a message
\* that cannot be resolved is not sent, and counts as sent.
SendRequest(m, sender, receiver) ==
  LET resolved == /\ sender = NoItem \/ sender.state = "ClaimedAddress"
                  /\ receiver = NoItem \/ receiver.state = "ClaimedAddress"
      request == Request(sender.nr, IF receiver = NoItem THEN Global ELSE receiver.nr)
      sent == Sent(m, IF resolved THEN <<request>> ELSE <<>>)
      own(n) == Item(m, m.ident[n].item)
      clients == Selected(m.clients, {n \in DOMAIN m.ident : own(n) # NoItem})
  IN IF receiver # NoItem THEN With(sent, [receiver EXCEPT !.asked = 0])
     ELSE SendSaClaims(SetLastIsoSaRequest(sent), [k \in DOMAIN clients |-> own(clients[k])])

\* IsoItem_c::sendAddressClaim
SendAddressClaim(m, id, fromConflict) ==
  LET i == Item(m, id)
      state == IF i.nr = NoAddress THEN (IF i.state = "PreAddressClaim" THEN "Off" ELSE i.state)
               ELSE IF fromConflict THEN "ClaimedAddress" ELSE "AddressClaim"
      new == [i EXCEPT !.state = state, !.off = (i.nr = NoAddress), !.since = 0]
  IN Sent(With(m, new), <<Claim(new)>>)

ChangeOfAddress(before, after) ==
  CASE before /\ ~after -> "LostAddress"
    [] ~before /\ after -> "ReclaimedAddress"
    [] OTHER -> "ChangedAddress"

WithAddress(i, nr) ==
  LET change == ChangeOfAddress(i.nr < NoAddress, nr < NoAddress)
      turned == change # "ChangedAddress"
      state == CASE change = "LostAddress" -> "AddressLost"
                 [] change = "ReclaimedAddress" -> "ClaimedAddress"
                 [] OTHER -> i.state
  IN [i EXCEPT !.nr = nr, !.state = state, !.off = @ /\ ~turned, !.doubted = @ /\ ~turned]

\* The loss of an address is not broadcast.
ChangeAddress_LossUntold(m, i, nr) ==
  LET new == WithAddress(i, nr)
      moved == With(m, new)
  IN IF nr \in {i.nr, NoAddress} THEN moved
     ELSE Announce(moved, ChangeOfAddress(i.nr < NoAddress, TRUE), new)
\* changeAddressAndBroadcast: silent when the address stays.
ChangeAddress(m, i, nr) ==
  LET new == WithAddress(i, nr)
      moved == With(m, new)
  IN IF nr = i.nr THEN moved
     ELSE Announce(moved, ChangeOfAddress(i.nr < NoAddress, nr < NoAddress), new)

GiveUpAddress(m, i) == ChangeAddress(m, i, NoAddress)

\* The time of the claim is not kept.
ProcessAddressClaimed_Timeless(m, i, sa) ==
  IF i.local THEN Sent(With(m, [i EXCEPT !.since = 0]), <<Claim(i)>>)
  ELSE ChangeAddress(m, i, sa)
\* processAddressClaimed: an own item defends its address, another one has it.
ProcessAddressClaimed(m, i, sa) ==
  IF i.local THEN Sent(With(m, [i EXCEPT !.since = 0]), <<Claim(i)>>)
  ELSE ChangeAddress(m, [i EXCEPT !.doubted = FALSE, !.asked = Never], sa)

-----------------------------------------------------------------------------
(* The own identities                                                      *)

\* The pointer to the item stays.
GoOffline_Dangling(m, n, state) ==
  LET i == Item(m, m.ident[n].item)
  IN [(IF i = NoItem THEN m ELSE Erase(m, i)) EXCEPT !.ident[n].state = state]
\* IdentItem_c::goOffline
GoOffline(m, n, state) ==
  LET i == Item(m, m.ident[n].item)
      gone == IF i = NoItem THEN m ELSE Erase(m, i)
  IN [gone EXCEPT !.ident[n].item = NoId, !.ident[n].state = state]

\* restartWithPreAddressClaim
Restart(m, n) == GoOffline(m, n, "PreAddressClaim")

\* IsoItem_c::timeEvent
ItemTimeEvent(m, n) ==
  LET i == Item(m, m.ident[n].item)
      chosen == With(m, [i EXCEPT !.nr = UnifyIsoSa(m, i, FALSE)])
      claiming == SendAddressClaim(chosen, i.id, FALSE)
  IN CASE i.state = "PreAddressClaim" /\ m.ident[n].asked = Never ->
            [SendRequest(m, NoItem, NoItem) EXCEPT !.ident[n].asked = 0]
       [] i.state = "PreAddressClaim" /\ m.ident[n].asked > PreWait ->
            InTable(claiming, Item(claiming, i.id))
       [] i.state = "AddressClaim" /\ i.since >= ClaimWait ->
            Announce(With(m, [i EXCEPT !.state = "ClaimedAddress"]), "AddToMonitorList", i)
       [] OTHER -> m

\* timeEventPreAddressClaim, while no other node claimed the same NAME. The state is
\* set last in the code; nothing called in between looks at it.
TimeEventPreAddressClaim(m, n) ==
  LET listed == InsertIsoMember(m, NewItem(n, m.ident[n].sa, "PreAddressClaim", TRUE), FALSE)
      known == [listed EXCEPT !.ident[n].item = Head(listed.items).id, !.ident[n].state = "AddressClaim"]
      asked == IF m.asked = Never
               THEN [SendRequest(known, NoItem, NoItem) EXCEPT !.ident[n].asked = 0] ELSE known
  IN IF ClaimedOfName(m, n) # NoItem THEN m ELSE ItemTimeEvent(asked, n)

\* The identity does not get the new state.
TimeEventActive_StateKept(m, n) ==
  LET done == ItemTimeEvent(m, n)
      i == Item(done, m.ident[n].item)
  IN IF i.state = "ClaimedAddress" THEN [done EXCEPT !.ident[n].sa = i.nr] ELSE done
\* timeEventActive: the address is stored for the next start.
TimeEventActive(m, n) ==
  LET before == Item(m, m.ident[n].item)
      done == ItemTimeEvent(m, n)
      i == Item(done, before.id)
      stored == [done EXCEPT !.ident[n].sa = i.nr]
  IN IF i.state # "ClaimedAddress" THEN done
     ELSE IF before.state = "ClaimedAddress" THEN stored
     ELSE [stored EXCEPT !.ident[n].state = "ClaimedAddress"]

\* IdentItem_c::timeEvent
IdentTimeEvent(m, n) ==
  LET i == Item(m, m.ident[n].item)
      seen == IF i # NoItem /\ i.off THEN GoOffline(m, n, "OffUnable") ELSE m
  IN CASE seen.ident[n].state \in {"OffExplicitly", "OffUnable"} -> seen
       [] seen.ident[n].state = "PreAddressClaim" -> TimeEventPreAddressClaim(seen, n)
       [] OTHER -> TimeEventActive(seen, n)

\* IdentItem_c::activate by registerIdentItem
RegisterIdentItem(m, n) ==
  [m EXCEPT !.ident[n].state = "PreAddressClaim", !.clients = Append(@, n)]
DeregisterIdentItem(m, n) ==
  [GoOffline(m, n, "OffExplicitly") EXCEPT !.clients = Selected(@, Range(@) \ {n})]

-----------------------------------------------------------------------------
(* Handlers                                                                *)

\* The comparison of NAMEs the wrong way round.
Stronger_Swapped(name, i) == name > i.name
Stronger(name, i) == name < i.name

\* A local item loses its address to a stronger node. The caller gives the old
\* entry of the table to that node.
Evict(m, i) ==
  LET nr == UnifyIsoSa(m, i, TRUE)
      moved == IF i.state = "AddressClaim"
               THEN SendAddressClaim(With(m, [i EXCEPT !.nr = nr]), i.id, FALSE)
               ELSE SendAddressClaim(ChangeAddress(m, i, nr), i.id, TRUE)
  IN IF nr = NoAddress THEN GoOffline(moved, i.name, "OffUnable")
     ELSE InTable(moved, Item(moved, i.id))

\* processMsg of an address claim. same and there are the items of the same
\* NAME and at the same address, as far as they count.
ProcessAddressClaim(m, name, sa) ==
  LET same == LET i == ItemOfName(m, name)
              IN IF i.state = "PreAddressClaim" THEN NoItem ELSE i
      there == LET i == ItemAt(m, sa)
               IN IF i.state \in {"PreAddressClaim", "AddressLost"} THEN NoItem ELSE i
      new(nr, state) == NewItem(name, nr, state, FALSE)
      Claims(k) == InsertIsoMember(k, new(sa, "ClaimedAddress"), TRUE)
      Takes(k) == ProcessAddressClaimed(k, same, sa)
      TakesTable(k) == InTable(Takes(k), Item(Takes(k), same.id))
  IN CASE same = NoItem /\ there = NoItem -> Claims(m)
       [] same = NoItem /\ there # NoItem /\ ~there.local -> Claims(GiveUpAddress(m, there))
       [] same = NoItem /\ there.local /\ Stronger(name, there) -> Claims(Evict(m, there))
       [] same = NoItem /\ there.local /\ ~Stronger(name, there) ->
            InsertIsoMember(ProcessAddressClaimed(m, there, sa),
                            new(NoAddress, "AddressLost"), TRUE)
       [] same.local -> Claims(GoOffline(m, name, "OffUnable"))
       [] same # NoItem /\ ~same.local /\ there = NoItem -> TakesTable(OutOfTable(m, same))
       [] same # NoItem /\ ~same.local /\ there = same -> Takes(m)
       [] same # NoItem /\ ~same.local /\ there.local /\ Stronger(name, there) ->
            TakesTable(Evict(m, there))
       [] same # NoItem /\ ~same.local /\ there.local /\ ~Stronger(name, there) ->
            GiveUpAddress(OutOfTable(ProcessAddressClaimed(m, there, sa), same), same)
       [] same # NoItem /\ ~same.local /\ there # NoItem /\ ~there.local /\ there # same ->
            TakesTable(GiveUpAddress(m, there))

\* resolveAddress: the item the table has for the address, if it has claimed.
\* What a dangling pointer resolves to is anything.
Resolved(m, sa) ==
  IF sa \notin Address \/ m.table[sa] = NoId THEN {NoItem}
  ELSE IF Listed(m, m.table[sa])
       THEN {IF i.state = "ClaimedAddress" THEN i ELSE NoItem : i \in {Item(m, m.table[sa])}}
       ELSE {NoItem, [NoItem EXCEPT !.id = m.table[sa], !.nr = sa]}

\* IsoRequestPgn_c::processMsg and processMsgRequestPGN: a request is dropped
\* unless its sender is a known remote node or has no address, and its receiver
\* is an own node or everybody.
ProcessRequest(m, sender, receiver, msg) ==
  CASE msg.sa # NoAddress /\ (sender = NoItem \/ sender.local) -> m
    [] msg.to = Global -> SendSaClaims(SetLastIsoSaRequest(m), Selected(m.items, {i \in Range(m.items) : i.local}))
    [] receiver.local -> SendSaClaims(m, <<receiver>>)
    [] OTHER -> m

\* What the monitor may be after the message.
Processed(m, msg) ==
  IF msg.kind = "claim" THEN {ProcessAddressClaim(m, msg.name, msg.sa)}
  ELSE {ProcessRequest(m, sender, receiver, msg) :
          sender \in Resolved(m, msg.sa), receiver \in Resolved(m, msg.to)}

\* anyActiveLocalItem
AnyActiveLocalItem(m) ==
  LET Active(n) == m.ident[n].state = "ClaimedAddress" /\ m.ident[n].item # NoId
      active == {k \in DOMAIN m.clients : Active(m.clients[k])}
  IN IF active = {} THEN NoItem ELSE Item(m, m.ident[m.clients[Min(active)]].item)

\* The second half of timeEvent: a node that left a request unanswered for
\* MaxAge gets a second chance, if someone here can ask it, and is erased then.
CheckItem(m, active, i) ==
  LET doubted == [i EXCEPT !.doubted = TRUE]
  IN IF i.local \/ i.asked < MaxAge THEN m
     ELSE IF active = NoItem \/ i.doubted THEN Erase(m, i)
     ELSE SendRequest(With(m, doubted), active, doubted)

CheckItems(m, active) ==
  LET upTo[k \in 0..Len(m.items)] ==
        IF k = 0 THEN m ELSE CheckItem(upTo[k - 1], active, m.items[k])
  IN upTo[Len(m.items)]

Aged(m) ==
  LET active == AnyActiveLocalItem(m)
      asks == m.asked > RequestPeriod /\ active # NoItem
  IN IF m.asked = Never THEN m
     ELSE CheckItems(IF asks THEN SendRequest(m, active, NoItem) ELSE m, active)

\* The time events of the registered identities.
IdentTimeEvents(m) ==
  LET upTo[k \in 0..Len(m.clients)] ==
        IF k = 0 THEN m ELSE IdentTimeEvent(upTo[k - 1], m.clients[k])
  IN upTo[Len(m.clients)]

\* IsoMonitor_c::timeEvent
TimeEvent(m) == Aged(IdentTimeEvents(m))

\* A tick passes. Ages stop where nothing depends on them any more.
Older(age, limit) == IF age = Never \/ age = limit THEN age ELSE age + 1
OlderIdent(x) == [x EXCEPT !.asked = Older(@, PreWait + 1)]
OlderItem(i) ==
  [i EXCEPT !.asked = Older(@, MaxAge),
            !.since = IF i.state = "AddressClaim" THEN Older(@, ClaimWait) ELSE 0]
Tick(m) ==
  [m EXCEPT !.asked = Older(@, RequestPeriod + 1),
            !.ident = [n \in DOMAIN @ |-> OlderIdent(@[n])],
            !.items = [k \in DOMAIN @ |-> OlderItem(@[k])]]
=============================================================================
