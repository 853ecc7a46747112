--------------------------- MODULE AddressClaim_proofs ---------------------------
(***************************************************************************)
(* Proofs about IsoMonitor and AddressClaim for any ECUs, NAMEs, addresses *)
(* and messages, delivered in any order and at any time.  Good says of one *)
(* monitor how its list, its identities and what its handlers know fit     *)
(* together; every operation keeps it, and so does every step of every     *)
(* ECU, whatever the others send.                                          *)
(***************************************************************************)
EXTENDS AddressClaim, SequenceLemmas, FiniteSetTheorems

AnyAddr == Address \union {NoAddress}
ItemRec ==
  [id : Nat \ {NoId}, name : Name, nr : AnyAddr, state : ItemState, local : BOOLEAN,
   off : BOOLEAN, doubted : BOOLEAN, since : 0..ClaimWait, asked : Never..MaxAge]
IdentRec == [state : IdentState, item : Nat, sa : AnyAddr, asked : Never..(PreWait + 1)]

\* A monitor is a record with these fields.
Fields == {"filters", "items", "table", "asked", "clients", "ident", "known", "out"}
IsMonitor(m) == m = [f \in Fields |-> m[f]]

\* What an ECU with the identities own sends, and all that may be on the bus.
OwnMessage(own) ==
  [kind : {"claim"}, name : own, sa : AnyAddr, to : {Global}]
    \union [kind : {"request"}, name : {0}, sa : AnyAddr, to : AnyAddr \union {Global}]
OnWire == OwnMessage(Name) \union UNION {c.foreign : c \in Scenario}

\* The fields of the monitor of an ECU with the identities own.
Typed(m, own) ==
  /\ IsMonitor(m)
  /\ m.items \in Seq(ItemRec)
  /\ m.table \in [Address -> Nat]
  /\ m.asked \in Never..(RequestPeriod + 1)
  /\ m.clients \in Seq(own)
  /\ m.ident \in [own -> IdentRec]
  /\ m.known \in [Name -> AnyAddr \union {NotListed}]
  /\ m.out \in Seq(OwnMessage(own))

Running(m, n) == m.ident[n].state \in {"AddressClaim", "ClaimedAddress"}

\* Items differ by their ids, and the local ones are those of the identities that claim
\* or have claimed.
Items(m, own) ==
  /\ \A k, l \in DOMAIN m.items : m.items[k].id = m.items[l].id => k = l
  /\ \A i \in Range(m.items) :
       IF i.local THEN i.name \in own /\ m.ident[i.name].item = i.id
       ELSE i.state \in {"ClaimedAddress", "AddressLost"}
  /\ \A n \in own :
       IF Running(m, n) THEN \E i \in Range(m.items) : i.local /\ i.name = n
       ELSE m.ident[n].item = NoId
  /\ \A n \in own : Running(m, n) => n \in Range(m.clients)

\* An own item that is not announced yet.
Waiting(i) == i.local /\ i.state \in {"PreAddressClaim", "AddressClaim", "Off"}

\* Where nobody else has the NAME of an own identity, an item is found by its NAME, and
\* the handlers know its address.
Known(m, own) ==
  /\ \A i \in Range(m.items) : ~i.local => i.name \notin own
  /\ \A i, j \in Range(m.items) : i.name = j.name => i = j
  /\ \A i \in Range(m.items) : Waiting(i) \/ m.known[i.name] = i.nr
  /\ \A n \in Name : m.known[n] # NotListed => \E i \in Range(m.items) : i.name = n

Good(m, own, alone) == Typed(m, own) /\ Items(m, own) /\ (alone => Known(m, own))

IInv ==
  /\ scenario \in Scenario
  /\ DOMAIN ecu = OnBus /\ ran \subseteq OnBus
  /\ changes \in 0..scenario.changes /\ sent \in 0..scenario.sent
  /\ bus \in [OnBus -> Seq(OnWire)]
  /\ \A e \in OnBus :
       /\ Good(ecu[e], scenario.own[e], NoImpostor)
       /\ ecu[e].out = <<>>
       /\ \A msg \in Range(bus[e]) : msg.kind = "claim" =>
            msg.name \in (Own \ scenario.own[e]) \union ForeignNames

-----------------------------------------------------------------------------
(* A monitor's fields and items.                                           *)

\* What the list is, and what is found in it.
KeepsList(m, r) ==
  r.items = m.items /\ r.ident = m.ident /\ r.known = m.known /\ r.clients = m.clients

\* The constants.
LEMMA ConstantsAre ==
  /\ Name \subseteq Nat /\ Address \subseteq Nat /\ NoAddress \notin Address
  /\ PreWait \in Nat /\ ClaimWait \in Nat /\ MaxAge \in Nat /\ RequestPeriod \in Nat
  /\ Never = -1 /\ NotListed = -1 /\ NoId = 0 /\ Global = 255
  /\ \A a \in AnyAddr : a \in Nat /\ (a < NoAddress <=> a \in Address)
  /\ RangeLower..(RangeHigher - 1) \subseteq Address
<1>1. \A a \in Address : a \in Nat /\ a < NoAddress
  BY IsoMonitorAssumption DEF NoAddress
<1>2. NoAddress \in Nat /\ ~(NoAddress < NoAddress)
  BY DEF NoAddress
<1>3. \A a \in AnyAddr : a \in Nat /\ (a < NoAddress <=> a \in Address)
  BY <1>1, <1>2 DEF AnyAddr
<1>4. QED BY <1>1, <1>2, <1>3, IsoMonitorAssumption DEF Never, NotListed, NoId, Global

\* The fields of an item and what they hold.
LEMMA ItemFields ==
  ASSUME NEW i \in ItemRec
  PROVE  /\ i.id \in Nat /\ i.id # NoId /\ i.name \in Name /\ i.nr \in AnyAddr
         /\ i.state \in ItemState /\ i.local \in BOOLEAN /\ i.off \in BOOLEAN
         /\ i.doubted \in BOOLEAN /\ i.since \in 0..ClaimWait /\ i.asked \in Never..MaxAge
         /\ i # NoItem
<1>1. /\ i.id \in Nat /\ i.id # NoId /\ i.name \in Name /\ i.nr \in AnyAddr
      /\ i.state \in ItemState /\ i.local \in BOOLEAN /\ i.off \in BOOLEAN
      /\ i.doubted \in BOOLEAN /\ i.since \in 0..ClaimWait /\ i.asked \in Never..MaxAge
  BY DEF ItemRec
<1>2. NoItem.id = NoId
  BY DEF NoItem, NewItem
<1>3. QED BY <1>1, <1>2

\* The fields of no item.
LEMMA NoItemFields ==
  /\ NoItem.id = NoId /\ NoItem.nr = NoAddress /\ NoItem.state = "Off" /\ NoItem.local = FALSE
  /\ NoItem.off = FALSE
BY DEF NoItem, NewItem

\* The elements of a list of items.
LEMMA ItemsAre ==
  ASSUME NEW own, NEW m, Typed(m, own)
  PROVE  /\ DOMAIN m.items = 1..Len(m.items) /\ Len(m.items) \in Nat
         /\ \A k \in DOMAIN m.items : m.items[k] \in ItemRec /\ m.items[k] \in Range(m.items)
         /\ \A i \in Range(m.items) : i \in ItemRec /\ \E k \in DOMAIN m.items : m.items[k] = i
BY DEF Typed, Range

\* The first of the items at the places.
LEMMA FirstOfIs ==
  ASSUME NEW own, NEW m, Typed(m, own), NEW P, P \subseteq DOMAIN m.items
  PROVE  /\ P = {} => FirstOf(m, P) = NoItem
         /\ P # {} => \E k \in P : FirstOf(m, P) = m.items[k]
<1>1. P \subseteq Nat
  BY ItemsAre
<1>2. P # {} => Min(P) \in P
  BY <1>1, MinOf
<1>3. QED BY <1>2 DEF FirstOf

\* An item found by its id.
LEMMA ItemIs ==
  ASSUME NEW own, NEW m, Typed(m, own), Items(m, own), NEW id
  PROVE  /\ \/ Item(m, id) = NoItem /\ \A i \in Range(m.items) : i.id # id
            \/ Item(m, id) \in Range(m.items) /\ Item(m, id).id = id
         /\ \A i \in Range(m.items) : i.id = id => Item(m, id) = i
<1> DEFINE P == {k \in DOMAIN m.items : m.items[k].id = id}
<1>1. /\ P = {} => FirstOf(m, P) = NoItem
      /\ P # {} => \E k \in P : FirstOf(m, P) = m.items[k]
  <2>1. P \subseteq DOMAIN m.items
    OBVIOUS
  <2> HIDE DEF P
  <2>2. QED BY <2>1, FirstOfIs
<1>2. Item(m, id) = FirstOf(m, P)
  BY DEF Item
<1>3. /\ \A k \in DOMAIN m.items : m.items[k] \in Range(m.items)
      /\ \A i \in Range(m.items) : \E k \in DOMAIN m.items : m.items[k] = i
  BY ItemsAre
<1>4. \A k, l \in DOMAIN m.items : m.items[k].id = m.items[l].id => k = l
  BY DEF Items
<1>5. CASE P = {}
  BY <1>1, <1>2, <1>3, <1>5
<1>6. CASE P # {}
  BY <1>1, <1>2, <1>3, <1>4, <1>6
<1>7. QED BY <1>5, <1>6

\* An item found by its NAME.
LEMMA ItemOfNameIs ==
  ASSUME NEW own, NEW m, Typed(m, own), NEW name
  PROVE  \/ ItemOfName(m, name) = NoItem /\ \A i \in Range(m.items) : i.name # name
         \/ ItemOfName(m, name) \in Range(m.items) /\ ItemOfName(m, name).name = name
<1> DEFINE P == {k \in DOMAIN m.items : m.items[k].name = name}
<1>1. /\ P = {} => FirstOf(m, P) = NoItem
      /\ P # {} => \E k \in P : FirstOf(m, P) = m.items[k]
  <2>1. P \subseteq DOMAIN m.items
    OBVIOUS
  <2> HIDE DEF P
  <2>2. QED BY <2>1, FirstOfIs
<1>2. ItemOfName(m, name) = FirstOf(m, P)
  BY DEF ItemOfName
<1>3. /\ \A k \in DOMAIN m.items : m.items[k] \in Range(m.items)
      /\ \A i \in Range(m.items) : \E k \in DOMAIN m.items : m.items[k] = i
  BY ItemsAre
<1>4. QED BY <1>1, <1>2, <1>3

\* An item found by its address.
LEMMA ItemAtIs ==
  ASSUME NEW own, NEW m, Typed(m, own), NEW sa
  PROVE  \/ ItemAt(m, sa) = NoItem
         \/ ItemAt(m, sa) \in Range(m.items) /\ ItemAt(m, sa).nr = sa
<1> DEFINE P == {k \in DOMAIN m.items : m.items[k].nr = sa}
<1>1. /\ P = {} => FirstOf(m, P) = NoItem
      /\ P # {} => \E k \in P : FirstOf(m, P) = m.items[k]
  <2>1. P \subseteq DOMAIN m.items
    OBVIOUS
  <2> HIDE DEF P
  <2>2. QED BY <2>1, FirstOfIs
<1>2. ItemAt(m, sa) = FirstOf(m, P)
  BY DEF ItemAt
<1>3. \A k \in DOMAIN m.items : m.items[k] \in Range(m.items)
  BY ItemsAre
<1>4. QED BY <1>1, <1>2, <1>3

\* The local item of an identity.
LEMMA OwnItem ==
  ASSUME NEW own, NEW m, Typed(m, own), Items(m, own), NEW n \in own
  PROVE  LET i == Item(m, m.ident[n].item)
         IN  /\ Running(m, n) => i \in Range(m.items) /\ i.local /\ i.name = n
             /\ ~Running(m, n) => i = NoItem /\ m.ident[n].item = NoId
             /\ \A j \in Range(m.items) : j.local /\ j.name = n => j = i /\ Running(m, n)
<1> DEFINE i == Item(m, m.ident[n].item)
<1>1. \A j \in Range(m.items) : j.local /\ j.name = n => m.ident[n].item = j.id /\ j = i
  <2>1. \A j \in Range(m.items) : j.local /\ j.name = n => m.ident[n].item = j.id
    BY DEF Items
  <2>2. \A j \in Range(m.items) : j.id = m.ident[n].item => i = j
    BY ItemIs
  <2>3. QED BY <2>1, <2>2
<1>2. Running(m, n) => \E j \in Range(m.items) : j.local /\ j.name = n
  BY DEF Items
<1>3. ~Running(m, n) => m.ident[n].item = NoId
  BY DEF Items
<1>4. \A j \in Range(m.items) : j.id # NoId
  BY ItemsAre, ItemFields
<1>5. ~Running(m, n) => i = NoItem
  BY <1>3, <1>4, ItemIs
<1> HIDE DEF i
<1>6. \A j \in Range(m.items) : j.local /\ j.name = n => Running(m, n)
  BY <1>1, <1>3, <1>4
<1>7. QED BY <1>1, <1>2, <1>3, <1>5, <1>6 DEF i

-----------------------------------------------------------------------------
(* What the basic operations change.                                       *)

\* The list is replaced.
LEMMA ItemsSet ==
  ASSUME NEW m, IsMonitor(m), NEW x
  PROVE  LET r == [m EXCEPT !.items = x]
         IN  /\ IsMonitor(r) /\ r.items = x /\ r.table = m.table /\ r.asked = m.asked
             /\ r.clients = m.clients /\ r.ident = m.ident /\ r.known = m.known /\ r.out = m.out
BY DEF IsMonitor, Fields

\* The table is replaced.
LEMMA EntriesSet ==
  ASSUME NEW m, IsMonitor(m), NEW x
  PROVE  LET r == [m EXCEPT !.table = x]
         IN  /\ IsMonitor(r) /\ r.items = m.items /\ r.table = x /\ r.asked = m.asked
             /\ r.clients = m.clients /\ r.ident = m.ident /\ r.known = m.known /\ r.out = m.out
BY DEF IsMonitor, Fields

\* The messages are replaced.
LEMMA OutSet ==
  ASSUME NEW m, IsMonitor(m), NEW x
  PROVE  LET r == [m EXCEPT !.out = x]
         IN  /\ IsMonitor(r) /\ r.items = m.items /\ r.table = m.table /\ r.asked = m.asked
             /\ r.clients = m.clients /\ r.ident = m.ident /\ r.known = m.known /\ r.out = x
BY DEF IsMonitor, Fields

\* The identities are replaced.
LEMMA IdentSet ==
  ASSUME NEW m, IsMonitor(m), NEW x
  PROVE  LET r == [m EXCEPT !.ident = x]
         IN  /\ IsMonitor(r) /\ r.items = m.items /\ r.table = m.table /\ r.asked = m.asked
             /\ r.clients = m.clients /\ r.ident = x /\ r.known = m.known /\ r.out = m.out
BY DEF IsMonitor, Fields

\* The time of the last request and the list are replaced.
LEMMA AskedSet ==
  ASSUME NEW m, IsMonitor(m), NEW x, NEW y
  PROVE  LET r == [m EXCEPT !.asked = x, !.items = y]
         IN  /\ IsMonitor(r) /\ r.items = y /\ r.table = m.table /\ r.asked = x
             /\ r.clients = m.clients /\ r.ident = m.ident /\ r.known = m.known /\ r.out = m.out
BY DEF IsMonitor, Fields

\* Messages are appended.
LEMMA SentIs ==
  ASSUME NEW own, NEW alone, NEW m, Good(m, own, alone), NEW msgs \in Seq(OwnMessage(own))
  PROVE  LET r == Sent(m, msgs)
         IN  Good(r, own, alone) /\ KeepsList(m, r) /\ r.asked = m.asked /\ r.table = m.table
<1> DEFINE o == m.out \o msgs
           r == [m EXCEPT !.out = o]
<1>1. Sent(m, msgs) = r
  BY DEF Sent
<1>2. Typed(m, own) /\ IsMonitor(m)
  BY DEF Good, Typed
<1>3. o \in Seq(OwnMessage(own))
  <2>1. m.out \in Seq(OwnMessage(own))
    BY <1>2 DEF Typed
  <2>2. QED BY <2>1
<1> HIDE DEF o
<1>4. /\ IsMonitor(r) /\ KeepsList(m, r) /\ r.asked = m.asked /\ r.table = m.table /\ r.out = o
  BY <1>2, OutSet, ZenonT(40) DEF KeepsList
<1> HIDE DEF r
<1>5. Typed(r, own)
  BY <1>2, <1>3, <1>4 DEF Typed, KeepsList
<1>6. Items(r, own) /\ (alone => Known(r, own))
  BY <1>4 DEF Good, Items, Known, KeepsList, Running
<1>7. QED BY <1>1, <1>4, <1>5, <1>6 DEF Good

\* Where list, identities and handlers stay, what is said of them stays.
LEMMA KeptGood ==
  ASSUME NEW own, NEW alone, NEW m, Good(m, own, alone), NEW r, Typed(r, own), KeepsList(m, r)
  PROVE  Good(r, own, alone)
BY DEF Good, Items, Known, KeepsList, Running

\* The table changes.
LEMMA TableSet ==
  ASSUME NEW own, NEW m, Typed(m, own), NEW nr \in AnyAddr, NEW id \in Nat
  PROVE  LET r == IF nr < NoAddress THEN [m EXCEPT !.table[nr] = id] ELSE m
         IN  Typed(r, own) /\ KeepsList(m, r) /\ r.asked = m.asked /\ r.out = m.out
<1>1. CASE nr < NoAddress
  <2> DEFINE t == [m.table EXCEPT ![nr] = id]
             r == [m EXCEPT !.table = t]
  <2>1. IsMonitor(m)
    BY DEF Typed
  <2>2. t \in [Address -> Nat]
    BY DEF Typed
  <2>3. [m EXCEPT !.table[nr] = id] = r
    OBVIOUS
  <2> HIDE DEF t
  <2>4. /\ IsMonitor(r) /\ KeepsList(m, r) /\ r.asked = m.asked /\ r.table = t /\ r.out = m.out
    BY <2>1, EntriesSet DEF KeepsList
  <2> HIDE DEF r
  <2>5. Typed(r, own)
    BY <2>1, <2>2, <2>4 DEF Typed, KeepsList
  <2>6. QED BY <1>1, <2>3, <2>4, <2>5
<1>2. CASE ~(nr < NoAddress)
  BY <1>2 DEF KeepsList
<1>3. QED BY <1>1, <1>2

\* An item gets its entry in the table, or gives it up.
LEMMA TableTyped ==
  ASSUME NEW own, NEW m, Typed(m, own), NEW i, i.nr \in AnyAddr, i.id \in Nat
  PROVE  LET r == InTable(m, i)  s == OutOfTable(m, i)
         IN  /\ Typed(r, own) /\ KeepsList(m, r) /\ r.asked = m.asked /\ r.out = m.out
             /\ Typed(s, own) /\ KeepsList(m, s) /\ s.asked = m.asked /\ s.out = m.out
<1>1. NoId \in Nat
  BY ConstantsAre
<1>2. QED BY <1>1, TableSet DEF InTable, OutOfTable

\* The table says nothing of the list.
LEMMA TableIs ==
  ASSUME NEW own, NEW alone, NEW m, Good(m, own, alone), NEW i, i.nr \in AnyAddr, i.id \in Nat
  PROVE  LET r == InTable(m, i)  s == OutOfTable(m, i)
         IN  /\ Good(r, own, alone) /\ KeepsList(m, r) /\ r.asked = m.asked /\ r.out = m.out
             /\ Good(s, own, alone) /\ KeepsList(m, s) /\ s.asked = m.asked /\ s.out = m.out
<1>1. Typed(m, own)
  BY DEF Good
<1>2. QED BY <1>1, TableTyped, KeptGood

\* Items that are not the one with the id id stay.
OthersStay(m, r, id) == \A j \in Range(m.items) : j.id # id => j \in Range(r.items)

\* i may stand for the item of its id.
Fits(m, i) == \A j \in Range(m.items) : j.id = i.id => j.name = i.name /\ j.local = i.local

\* r is m after what concerns no identity but n, or none at all.
OthersKept(own, m, r, n) ==
  /\ \A j \in Range(m.items) : j.local /\ j.name # n => j \in Range(r.items)
  /\ \A k \in own \ {n} : r.ident[k] = m.ident[k]
LocalsKept(m, r) ==
  r.ident = m.ident /\ \A j \in Range(m.items) : j.local => j \in Range(r.items)

\* An item is replaced.
LEMMA WithItems ==
  ASSUME NEW own, NEW m, Typed(m, own), NEW i \in ItemRec
  PROVE  LET r == With(m, i)
         IN  /\ Typed(r, own) /\ r.ident = m.ident /\ r.known = m.known /\ r.clients = m.clients
             /\ r.asked = m.asked /\ r.out = m.out /\ r.table = m.table
             /\ DOMAIN r.items = DOMAIN m.items
             /\ \A k \in DOMAIN m.items : r.items[k] = IF m.items[k].id = i.id THEN i ELSE m.items[k]
<1> DEFINE q == [k \in DOMAIN m.items |-> IF m.items[k].id = i.id THEN i ELSE m.items[k]]
           r == [m EXCEPT !.items = q]
<1>1. With(m, i) = r
  BY DEF With
<1>2. /\ DOMAIN m.items = 1..Len(m.items) /\ Len(m.items) \in Nat
      /\ \A k \in DOMAIN m.items : m.items[k] \in ItemRec
  BY ItemsAre
<1>3. q \in Seq(ItemRec)
  BY <1>2
<1>4. IsMonitor(m)
  BY DEF Typed
<1>5. DOMAIN q = DOMAIN m.items
      /\ \A k \in DOMAIN m.items : q[k] = IF m.items[k].id = i.id THEN i ELSE m.items[k]
  OBVIOUS
<1> HIDE DEF q
<1>6. /\ IsMonitor(r) /\ r.items = q /\ r.ident = m.ident /\ r.known = m.known
      /\ r.clients = m.clients /\ r.asked = m.asked /\ r.out = m.out /\ r.table = m.table
  BY <1>4, ItemsSet
<1> HIDE DEF r
<1>7. Typed(r, own)
  BY <1>3, <1>6 DEF Typed
<1>8. QED BY <1>1, <1>5, <1>6, <1>7

\* Replacing an item keeps what is said of ids and identities.
LEMMA WithKeeps ==
  ASSUME NEW own, NEW m, Typed(m, own), Items(m, own), NEW i \in ItemRec, Fits(m, i),
         ~i.local => i.state \in {"ClaimedAddress", "AddressLost"}
  PROVE  LET r == With(m, i)
         IN  /\ Items(r, own) /\ OthersStay(m, r, i.id)
             /\ \A j \in Range(r.items) : j = i \/ (j \in Range(m.items) /\ j.id # i.id)
             /\ \A j \in Range(m.items) : j.id = i.id => i \in Range(r.items)
             /\ \A j \in Range(r.items) : \E h \in Range(m.items) :
                  h.id = j.id /\ h.name = j.name /\ h.local = j.local
<1> DEFINE r == With(m, i)
<1>1. /\ Typed(r, own) /\ r.ident = m.ident /\ r.clients = m.clients
      /\ DOMAIN r.items = DOMAIN m.items
      /\ \A k \in DOMAIN m.items : r.items[k] = IF m.items[k].id = i.id THEN i ELSE m.items[k]
  BY WithItems
<1> HIDE DEF r
<1>2. /\ \A k \in DOMAIN m.items : m.items[k] \in Range(m.items) /\ r.items[k] \in Range(r.items)
      /\ \A j \in Range(m.items) : \E k \in DOMAIN m.items : m.items[k] = j
      /\ \A j \in Range(r.items) : \E k \in DOMAIN m.items : r.items[k] = j
  <2>1. /\ \A k \in DOMAIN m.items : m.items[k] \in Range(m.items)
        /\ \A j \in Range(m.items) : \E k \in DOMAIN m.items : m.items[k] = j
    BY ItemsAre
  <2>2. /\ \A k \in DOMAIN r.items : r.items[k] \in Range(r.items)
        /\ \A j \in Range(r.items) : \E k \in DOMAIN r.items : r.items[k] = j
    <3>1. Typed(r, own)
      BY <1>1
    <3>2. QED BY <3>1, ItemsAre
  <2>3. QED BY <1>1, <2>1, <2>2
<1>3. OthersStay(m, r, i.id)
  BY <1>1, <1>2 DEF OthersStay
<1>4. /\ \A j \in Range(r.items) : j = i \/ (j \in Range(m.items) /\ j.id # i.id)
      /\ \A j \in Range(m.items) : j.id = i.id => i \in Range(r.items)
  BY <1>1, <1>2
<1>5. \A k \in DOMAIN m.items : r.items[k].id = m.items[k].id
       /\ r.items[k].name = m.items[k].name /\ r.items[k].local = m.items[k].local
  BY <1>1, <1>2 DEF Fits
<1>6. \A k, l \in DOMAIN r.items : r.items[k].id = r.items[l].id => k = l
  BY <1>1, <1>5 DEF Items
<1>7. \A j \in Range(r.items) :
        IF j.local THEN j.name \in own /\ r.ident[j.name].item = j.id
        ELSE j.state \in {"ClaimedAddress", "AddressLost"}
  <2> SUFFICES ASSUME NEW j \in Range(r.items)
               PROVE  IF j.local THEN j.name \in own /\ r.ident[j.name].item = j.id
                      ELSE j.state \in {"ClaimedAddress", "AddressLost"}
    OBVIOUS
  <2>1. PICK k \in DOMAIN m.items : r.items[k] = j
    BY <1>2
  <2>2. m.items[k].id = j.id /\ m.items[k].name = j.name /\ m.items[k].local = j.local
        /\ m.items[k] \in Range(m.items)
    BY <1>2, <1>5, <2>1
  <2>3. IF m.items[k].local THEN m.items[k].name \in own /\ m.ident[m.items[k].name].item = m.items[k].id
        ELSE m.items[k].state \in {"ClaimedAddress", "AddressLost"}
    BY <2>2 DEF Items
  <2>4. j.local => j.name \in own /\ r.ident[j.name].item = j.id
    BY <1>1, <2>2, <2>3
  <2>5. ~j.local => j.state \in {"ClaimedAddress", "AddressLost"}
    BY <1>4, <2>2, <2>3 DEF Items
  <2>6. QED BY <2>4, <2>5
<1>8. \A n \in own : IF Running(r, n) THEN \E j \in Range(r.items) : j.local /\ j.name = n
                     ELSE r.ident[n].item = NoId
  <2> SUFFICES ASSUME NEW n \in own
               PROVE  /\ Running(r, n) => \E j \in Range(r.items) : j.local /\ j.name = n
                      /\ ~Running(r, n) => r.ident[n].item = NoId
    OBVIOUS
  <2>1. Running(r, n) <=> Running(m, n)
    BY <1>1 DEF Running
  <2>2. ASSUME Running(m, n) PROVE \E j \in Range(r.items) : j.local /\ j.name = n
    <3>1. PICK h \in Range(m.items) : h.local /\ h.name = n
      BY <2>2 DEF Items
    <3>2. PICK k \in DOMAIN m.items : m.items[k] = h
      BY <1>2
    <3>3. QED BY <1>2, <1>5, <3>1, <3>2
  <2>3. ~Running(m, n) => m.ident[n].item = NoId
    BY DEF Items
  <2>4. QED BY <1>1, <2>1, <2>2, <2>3
<1>9. \A n \in own : Running(r, n) => n \in Range(r.clients)
  BY <1>1 DEF Items, Running
<1>10. Items(r, own)
  BY <1>6, <1>7, <1>8, <1>9 DEF Items
<1>11. \A j \in Range(r.items) : \E h \in Range(m.items) :
         h.id = j.id /\ h.name = j.name /\ h.local = j.local
  <2> SUFFICES ASSUME NEW j \in Range(r.items)
               PROVE  \E h \in Range(m.items) : h.id = j.id /\ h.name = j.name /\ h.local = j.local
    OBVIOUS
  <2>1. PICK k \in DOMAIN m.items : r.items[k] = j
    BY <1>2
  <2>2. QED BY <1>2, <1>5, <2>1
<1>12. QED BY <1>3, <1>4, <1>10, <1>11 DEF r

\* No two items have one id.
LEMMA IdsDiffer ==
  ASSUME NEW own, NEW m, Typed(m, own), Items(m, own)
  PROVE  \A i, j \in Range(m.items) : i.id = j.id => i = j
<1>1. \A i \in Range(m.items) : \E k \in DOMAIN m.items : m.items[k] = i
  BY ItemsAre
<1>2. \A k, l \in DOMAIN m.items : m.items[k].id = m.items[l].id => k = l
  BY DEF Items
<1>3. QED BY <1>1, <1>2, Zenon

\* Where the items have the NAMEs they had, those that changed announced or waiting, the
\* handlers know what they need.
LEMMA KnownAgain ==
  ASSUME NEW own, NEW m, Typed(m, own), Items(m, own), Known(m, own),
         NEW r, Typed(r, own), Items(r, own),
         \A j \in Range(r.items) : \E h \in Range(m.items) :
           h.id = j.id /\ h.name = j.name /\ h.local = j.local,
         \A h \in Range(m.items) : \E j \in Range(r.items) : h.id = j.id,
         \A j \in Range(r.items) : Waiting(j) \/ r.known[j.name] = j.nr,
         \A n \in Name : r.known[n] # NotListed =>
           m.known[n] # NotListed \/ \E j \in Range(m.items) : j.name = n
  PROVE  Known(r, own)
<1>1. \A j \in Range(r.items) : ~j.local => j.name \notin own
  BY DEF Known
<1>2. ASSUME NEW i \in Range(r.items), NEW j \in Range(r.items), i.name = j.name PROVE i = j
  <2>1. PICK h \in Range(m.items) : h.id = i.id /\ h.name = i.name
    OBVIOUS
  <2>2. PICK g \in Range(m.items) : g.id = j.id /\ g.name = j.name
    OBVIOUS
  <2>3. h = g
    BY <1>2, <2>1, <2>2 DEF Known
  <2>4. QED BY <2>1, <2>2, <2>3, IdsDiffer
<1>3. ASSUME NEW n \in Name, r.known[n] # NotListed PROVE \E j \in Range(r.items) : j.name = n
  <2>1. PICK h \in Range(m.items) : h.name = n
    BY <1>3 DEF Known
  <2>2. PICK j \in Range(r.items) : h.id = j.id
    OBVIOUS
  <2>3. PICK g \in Range(m.items) : g.id = j.id /\ g.name = j.name
    OBVIOUS
  <2>4. g = h
    BY <2>2, <2>3, IdsDiffer
  <2>5. QED BY <2>1, <2>3, <2>4
<1>4. QED BY <1>1, <1>2, <1>3 DEF Known

\* A broadcast changes what the handlers know of one NAME.
LEMMA AnnounceIs ==
  ASSUME NEW own, NEW m, Typed(m, own), NEW action, NEW i, i.name \in Name, i.nr \in AnyAddr
  PROVE  LET r == Announce(m, action, i)
         IN  /\ Typed(r, own) /\ r.items = m.items /\ r.ident = m.ident /\ r.clients = m.clients
             /\ r.asked = m.asked /\ r.out = m.out /\ r.table = m.table
             /\ r.known[i.name] = IF action = "RemoveFromMonitorList" THEN NotListed ELSE i.nr
             /\ \A n \in Name \ {i.name} : r.known[n] = m.known[n]
<1> DEFINE x == [m.known EXCEPT ![i.name] = IF action = "RemoveFromMonitorList" THEN NotListed ELSE i.nr]
           y == TransportFilters(ReactOnModification(m.filters, action, i.name, ClaimedAddresses(m)),
                                 action, i, ClaimedAddresses(m))
           r == [m EXCEPT !.known = x, !.filters = y]
<1>1. Announce(m, action, i) = r
  BY DEF Announce
<1>2. /\ x \in [Name -> AnyAddr \union {NotListed}]
      /\ x[i.name] = IF action = "RemoveFromMonitorList" THEN NotListed ELSE i.nr
      /\ \A n \in Name \ {i.name} : x[n] = m.known[n]
  BY DEF Typed
<1>3. IsMonitor(m)
  BY DEF Typed
<1> HIDE DEF x, y
<1>4. /\ IsMonitor(r) /\ r.items = m.items /\ r.ident = m.ident /\ r.clients = m.clients
      /\ r.asked = m.asked /\ r.out = m.out /\ r.table = m.table /\ r.known = x
  BY <1>3 DEF IsMonitor, Fields
<1> HIDE DEF r
<1>5. Typed(r, own)
  BY <1>2, <1>4 DEF Typed
<1>6. QED BY <1>1, <1>2, <1>4, <1>5

\* An item is replaced, silently.
LEMMA WithGood ==
  ASSUME NEW own, NEW alone, NEW m, Good(m, own, alone), NEW i \in ItemRec, Fits(m, i),
         ~i.local => i.state \in {"ClaimedAddress", "AddressLost"},
         alone => Waiting(i) \/ m.known[i.name] = i.nr
  PROVE  LET r == With(m, i)
         IN  /\ Good(r, own, alone) /\ r.ident = m.ident /\ r.known = m.known /\ r.clients = m.clients
             /\ r.asked = m.asked /\ r.out = m.out /\ r.table = m.table
             /\ OthersStay(m, r, i.id)
             /\ \A j \in Range(r.items) : j = i \/ (j \in Range(m.items) /\ j.id # i.id)
             /\ \A j \in Range(m.items) : j.id = i.id => i \in Range(r.items)
<1> DEFINE r == With(m, i)
<1>1. Typed(m, own) /\ Items(m, own) /\ (alone => Known(m, own))
  BY DEF Good
<1>2. /\ Typed(r, own) /\ r.ident = m.ident /\ r.known = m.known /\ r.clients = m.clients
      /\ r.asked = m.asked /\ r.out = m.out /\ r.table = m.table
  BY <1>1, WithItems
<1>3. /\ Items(r, own) /\ OthersStay(m, r, i.id)
      /\ \A j \in Range(r.items) : j = i \/ (j \in Range(m.items) /\ j.id # i.id)
      /\ \A j \in Range(m.items) : j.id = i.id => i \in Range(r.items)
      /\ \A j \in Range(r.items) : \E h \in Range(m.items) :
           h.id = j.id /\ h.name = j.name /\ h.local = j.local
  BY <1>1, WithKeeps
<1> HIDE DEF r
<1>4. ASSUME alone PROVE Known(r, own)
  <2>1. \A h \in Range(m.items) : \E j \in Range(r.items) : h.id = j.id
    BY <1>3 DEF OthersStay
  <2>2. \A j \in Range(r.items) : Waiting(j) \/ r.known[j.name] = j.nr
    BY <1>1, <1>2, <1>3, <1>4 DEF Known
  <2>3. \A n \in Name : r.known[n] # NotListed =>
          m.known[n] # NotListed \/ \E j \in Range(m.items) : j.name = n
    BY <1>2
  <2>4. Known(m, own)
    BY <1>1, <1>4
  <2> HIDE DEF Good, Waiting, Known
  <2>5. QED BY <1>1, <1>2, <1>3, <2>1, <2>2, <2>3, <2>4, KnownAgain
<1>5. QED BY <1>2, <1>3, <1>4 DEF Good, r

\* An item is replaced and its address broadcast.
LEMMA AnnouncedGood ==
  ASSUME NEW own, NEW alone, NEW m, Good(m, own, alone), NEW i \in ItemRec, Fits(m, i),
         ~i.local => i.state \in {"ClaimedAddress", "AddressLost"},
         \E j \in Range(m.items) : j.id = i.id,
         NEW action, action # "RemoveFromMonitorList", NEW told, told.name = i.name, told.nr = i.nr
  PROVE  LET r == Announce(With(m, i), action, told)
         IN  /\ Good(r, own, alone) /\ r.ident = m.ident /\ r.clients = m.clients
             /\ r.asked = m.asked /\ r.out = m.out /\ r.table = m.table
             /\ OthersStay(m, r, i.id) /\ i \in Range(r.items) /\ r.known[i.name] = i.nr
             /\ \A j \in Range(r.items) : j = i \/ (j \in Range(m.items) /\ j.id # i.id)
<1> DEFINE w == With(m, i)
           r == Announce(w, action, told)
<1>1. Typed(m, own) /\ Items(m, own) /\ (alone => Known(m, own))
  BY DEF Good
<1>2. /\ Typed(w, own) /\ w.ident = m.ident /\ w.known = m.known /\ w.clients = m.clients
      /\ w.asked = m.asked /\ w.out = m.out /\ w.table = m.table
  BY <1>1, WithItems
<1>3. /\ Items(w, own) /\ OthersStay(m, w, i.id)
      /\ \A j \in Range(w.items) : j = i \/ (j \in Range(m.items) /\ j.id # i.id)
      /\ \A j \in Range(m.items) : j.id = i.id => i \in Range(w.items)
      /\ \A j \in Range(w.items) : \E h \in Range(m.items) :
           h.id = j.id /\ h.name = j.name /\ h.local = j.local
  BY <1>1, WithKeeps
<1>4. told.name \in Name /\ told.nr \in AnyAddr /\ i.name \in Name
  BY ItemFields
<1> HIDE DEF w
<1>5. /\ Typed(r, own) /\ r.items = w.items /\ r.ident = w.ident /\ r.clients = w.clients
      /\ r.asked = w.asked /\ r.out = w.out /\ r.table = w.table
      /\ r.known[i.name] = i.nr
      /\ \A n \in Name \ {i.name} : r.known[n] = w.known[n]
  BY <1>2, <1>4, AnnounceIs
<1> HIDE DEF r
<1>6. Items(r, own) /\ OthersStay(m, r, i.id) /\ i \in Range(r.items)
  BY <1>3, <1>5 DEF Items, Running, OthersStay
<1>7. ASSUME alone PROVE Known(r, own)
  <2>0. Known(m, own)
    BY <1>1, <1>7
  <2>1. \A h \in Range(m.items) : \E j \in Range(r.items) : h.id = j.id
    BY <1>3, <1>6 DEF OthersStay
  <2>2. PICK g \in Range(m.items) : g.id = i.id /\ g.name = i.name
    BY DEF Fits
  <2>3. ASSUME NEW j \in Range(r.items) PROVE Waiting(j) \/ r.known[j.name] = j.nr
    <3>1. CASE j = i
      BY <1>5, <3>1
    <3>2. CASE j # i
      <4>1. j \in Range(m.items) /\ j.id # g.id
        BY <1>3, <1>5, <2>2, <2>3, <3>2
      <4>2. j.name # g.name
        BY <2>0, <4>1 DEF Known
      <4>3. j.name \in Name
        BY <1>1, <4>1, ItemsAre, ItemFields
      <4>4. r.known[j.name] = m.known[j.name]
        BY <1>2, <1>5, <2>2, <4>2, <4>3
      <4>5. QED BY <2>0, <4>1, <4>4 DEF Known
    <3>3. QED BY <3>1, <3>2
  <2>4. \A n \in Name : r.known[n] # NotListed =>
          m.known[n] # NotListed \/ \E j \in Range(m.items) : j.name = n
    BY <1>2, <1>5, <2>2
  <2>5. \A j \in Range(r.items) : \E h \in Range(m.items) :
           h.id = j.id /\ h.name = j.name /\ h.local = j.local
    BY <1>3, <1>5
  <2>6. \A j \in Range(r.items) : Waiting(j) \/ r.known[j.name] = j.nr
    BY <2>3
  <2> HIDE DEF Good
  <2>7. QED BY <1>1, <1>5, <1>6, <2>0, <2>1, <2>4, <2>5, <2>6, KnownAgain
<1>8. QED BY <1>1, <1>2, <1>3, <1>5, <1>6, <1>7 DEF Good, r, w

-----------------------------------------------------------------------------
(* Items come and go.                                                      *)

\* What an erased item leaves.
LEMMA EraseIs ==
  ASSUME NEW own, NEW m, Typed(m, own), NEW i, i.name \in Name, i.nr \in AnyAddr, i.id \in Nat
  PROVE  LET r == Erase(m, i)
         IN  /\ Typed(r, own) /\ r.ident = m.ident /\ r.clients = m.clients /\ r.asked = m.asked
             /\ r.out = m.out
             /\ Range(r.items) = {j \in Range(m.items) : j.id # i.id}
             /\ IsInjective(m.items) => IsInjective(r.items)
             /\ r.known[i.name] = NotListed /\ \A n \in Name \ {i.name} : r.known[n] = m.known[n]
<1> DEFINE a == Announce(m, "RemoveFromMonitorList", i)
           keep == {k \in Range(m.items) : k.id # i.id}
           q == Selected(m.items, keep)
           g == [a EXCEPT !.items = q]
           r == Erase(m, i)
<1>1. /\ Typed(a, own) /\ a.items = m.items /\ a.ident = m.ident /\ a.clients = m.clients
      /\ a.asked = m.asked /\ a.out = m.out /\ a.known[i.name] = NotListed
      /\ \A n \in Name \ {i.name} : a.known[n] = m.known[n]
  BY AnnounceIs
<1> HIDE DEF a
<1>2. r = OutOfTable([a EXCEPT !.items = Selected(@, {k \in Range(@) : k.id # i.id})], i)
  BY DEF Erase, a
<1>3. r = OutOfTable(g, i)
  BY <1>1, <1>2
<1>4. /\ q \in Seq(ItemRec) /\ Range(q) = Range(m.items) \intersect keep
      /\ IsInjective(m.items) => IsInjective(q)
  <2>1. m.items \in Seq(ItemRec)
    BY DEF Typed
  <2> HIDE DEF keep
  <2>2. QED BY <2>1, SelectedIs
<1>5. Range(m.items) \intersect keep = keep
  OBVIOUS
<1>6. IsMonitor(a)
  BY <1>1 DEF Typed
<1> HIDE DEF q, keep, r
<1>7. /\ IsMonitor(g) /\ g.items = q /\ g.table = a.table /\ g.asked = a.asked
      /\ g.clients = a.clients /\ g.ident = a.ident /\ g.known = a.known /\ g.out = a.out
  BY <1>6, ItemsSet
<1> HIDE DEF g
<1>8. Typed(g, own)
  BY <1>1, <1>4, <1>7 DEF Typed
<1>9. Typed(r, own) /\ KeepsList(g, r) /\ r.asked = g.asked /\ r.out = g.out
  BY <1>3, <1>8, TableTyped
<1>10. QED BY <1>1, <1>4, <1>5, <1>7, <1>9 DEF KeepsList, r, keep

\* Without an item the others are as different as before.
LEMMA FewerItems ==
  ASSUME NEW own, NEW m, Typed(m, own), Items(m, own), NEW r, Typed(r, own),
         Range(r.items) \subseteq Range(m.items), IsInjective(m.items) => IsInjective(r.items)
  PROVE  \A k, l \in DOMAIN r.items : r.items[k].id = r.items[l].id => k = l
<1>1. \A k, l \in DOMAIN m.items : m.items[k].id = m.items[l].id => k = l
  BY DEF Items
<1>2. IsInjective(m.items)
  BY <1>1 DEF IsInjective
<1>3. \A k, l \in DOMAIN r.items : r.items[k] = r.items[l] => k = l
  BY <1>2 DEF IsInjective
<1>4. \A k \in DOMAIN r.items : r.items[k] \in Range(m.items)
  BY ItemsAre
<1>5. \A i, j \in Range(m.items) : i.id = j.id => i = j
  BY IdsDiffer
<1>6. QED BY <1>3, <1>4, <1>5

\* What the handlers know once the item g is gone.
LEMMA FewerKnown ==
  ASSUME NEW own, NEW m, Typed(m, own), Items(m, own), Known(m, own), NEW g \in Range(m.items),
         NEW r, Typed(r, own), Range(r.items) = {j \in Range(m.items) : j.id # g.id},
         r.known[g.name] = NotListed, \A n \in Name \ {g.name} : r.known[n] = m.known[n]
  PROVE  Known(r, own)
<1>1. \A j \in Range(r.items) : j \in Range(m.items) /\ j # g /\ j.name # g.name /\ j.name \in Name
  <2>1. \A j \in Range(r.items) : j \in Range(m.items) /\ j # g /\ j.name # g.name
    BY DEF Known
  <2>2. \A j \in Range(m.items) : j.name \in Name
    BY ItemsAre, ItemFields
  <2>3. QED BY <2>1, <2>2
<1>2. \A j \in Range(r.items) : ~j.local => j.name \notin own
  BY <1>1 DEF Known
<1>3. \A i, j \in Range(r.items) : i.name = j.name => i = j
  BY <1>1 DEF Known
<1>4. \A j \in Range(r.items) : Waiting(j) \/ r.known[j.name] = j.nr
  BY <1>1 DEF Known
<1>5. ASSUME NEW n \in Name, r.known[n] # NotListed PROVE \E j \in Range(r.items) : j.name = n
  <2>1. n # g.name /\ m.known[n] # NotListed
    BY <1>5
  <2>2. PICK h \in Range(m.items) : h.name = n
    BY <2>1 DEF Known
  <2>3. h.id # g.id
    BY <2>1, <2>2, IdsDiffer
  <2>4. QED BY <2>2, <2>3
<1>6. QED BY <1>2, <1>3, <1>4, <1>5 DEF Known

\* A node of another ECU is erased.
LEMMA EraseForeignGood ==
  ASSUME NEW own, NEW alone, NEW m, Good(m, own, alone), NEW i \in ItemRec, ~i.local, Fits(m, i),
         \E j \in Range(m.items) : j.id = i.id
  PROVE  LET r == Erase(m, i)
         IN  /\ Good(r, own, alone) /\ r.ident = m.ident /\ r.clients = m.clients
             /\ r.asked = m.asked /\ r.out = m.out
             /\ Range(r.items) = {j \in Range(m.items) : j.id # i.id}
<1> DEFINE r == Erase(m, i)
<1>1. Typed(m, own) /\ Items(m, own) /\ (alone => Known(m, own))
  BY DEF Good
<1>2. i.name \in Name /\ i.nr \in AnyAddr /\ i.id \in Nat
  BY ItemFields
<1>3. /\ Typed(r, own) /\ r.ident = m.ident /\ r.clients = m.clients /\ r.asked = m.asked
      /\ r.out = m.out
      /\ Range(r.items) = {j \in Range(m.items) : j.id # i.id}
      /\ IsInjective(m.items) => IsInjective(r.items)
      /\ r.known[i.name] = NotListed /\ \A n \in Name \ {i.name} : r.known[n] = m.known[n]
  BY <1>1, <1>2, EraseIs
<1> HIDE DEF r
<1>4. PICK g \in Range(m.items) : g.id = i.id /\ g.name = i.name /\ ~g.local
  BY DEF Fits
<1>5. Items(r, own)
  <2>1. \A k, l \in DOMAIN r.items : r.items[k].id = r.items[l].id => k = l
    BY <1>1, <1>3, FewerItems
  <2>2. \A j \in Range(r.items) :
          IF j.local THEN j.name \in own /\ r.ident[j.name].item = j.id
          ELSE j.state \in {"ClaimedAddress", "AddressLost"}
    BY <1>1, <1>3 DEF Items
  <2>3. ASSUME NEW n \in own
        PROVE  IF Running(r, n) THEN \E j \in Range(r.items) : j.local /\ j.name = n
               ELSE r.ident[n].item = NoId
    <3>1. Running(r, n) <=> Running(m, n)
      BY <1>3 DEF Running
    <3>2. ASSUME Running(m, n) PROVE \E j \in Range(r.items) : j.local /\ j.name = n
      <4>1. PICK h \in Range(m.items) : h.local /\ h.name = n
        BY <1>1, <3>2 DEF Items
      <4>2. h.id # g.id
        BY <1>1, <1>4, <4>1, IdsDiffer
      <4>3. QED BY <1>3, <1>4, <4>1, <4>2
    <3>3. ~Running(m, n) => m.ident[n].item = NoId
      BY <1>1 DEF Items
    <3>4. QED BY <1>3, <3>1, <3>2, <3>3
  <2>4. \A n \in own : Running(r, n) => n \in Range(r.clients)
    BY <1>1, <1>3 DEF Items, Running
  <2>5. QED BY <2>1, <2>2, <2>3, <2>4 DEF Items
<1>6. ASSUME alone PROVE Known(r, own)
  BY <1>1, <1>3, <1>4, <1>6, FewerKnown
<1>7. QED BY <1>3, <1>5, <1>6 DEF Good, r

\* An identity goes offline, with its item if it has one.
LEMMA GoOfflineGood ==
  ASSUME NEW own, NEW alone, NEW m, Good(m, own, alone), NEW n \in own,
         NEW state \in IdentState \ {"AddressClaim", "ClaimedAddress"}
  PROVE  LET r == GoOffline(m, n, state)
         IN  /\ Good(r, own, alone) /\ r.clients = m.clients /\ r.asked = m.asked /\ r.out = m.out
             /\ Range(r.items) = {j \in Range(m.items) : ~(j.local /\ j.name = n)}
             /\ r.ident[n].state = state
             /\ \A k \in own \ {n} : r.ident[k] = m.ident[k]
<1> DEFINE i == Item(m, m.ident[n].item)
           g == IF i = NoItem THEN m ELSE Erase(m, i)
           x == [g.ident EXCEPT ![n].item = NoId, ![n].state = state]
           r == [g EXCEPT !.ident = x]
<1>1. Typed(m, own) /\ Items(m, own) /\ (alone => Known(m, own))
  BY DEF Good
<1>2. GoOffline(m, n, state) = r
  BY DEF GoOffline
<1>3. /\ Running(m, n) => i \in Range(m.items) /\ i.local /\ i.name = n
      /\ ~Running(m, n) => i = NoItem
      /\ \A j \in Range(m.items) : j.local /\ j.name = n => j = i /\ Running(m, n)
  BY <1>1, OwnItem
<1> HIDE DEF i
<1>4. i \in Range(m.items) => /\ i \in ItemRec /\ i # NoItem
                              /\ i.name \in Name /\ i.nr \in AnyAddr /\ i.id \in Nat
  BY <1>1, ItemsAre, ItemFields
<1>5. /\ Typed(g, own) /\ g.ident = m.ident /\ g.clients = m.clients /\ g.asked = m.asked
      /\ g.out = m.out
      /\ Range(g.items) = {j \in Range(m.items) : ~(j.local /\ j.name = n)}
      /\ IsInjective(m.items) => IsInjective(g.items)
  <2>1. CASE Running(m, n)
    <3>1. g = Erase(m, i)
      BY <1>3, <1>4, <2>1
    <3>2. /\ Typed(g, own) /\ g.ident = m.ident /\ g.clients = m.clients /\ g.asked = m.asked
          /\ g.out = m.out
          /\ Range(g.items) = {j \in Range(m.items) : j.id # i.id}
          /\ IsInjective(m.items) => IsInjective(g.items)
      BY <1>1, <1>3, <1>4, <2>1, <3>1, EraseIs
    <3>3. \A j \in Range(m.items) : j.id # i.id <=> ~(j.local /\ j.name = n)
      BY <1>1, <1>3, <2>1, IdsDiffer
    <3>4. QED BY <3>2, <3>3
  <2>2. CASE ~Running(m, n)
    BY <1>1, <1>3, <2>2
  <2>3. QED BY <2>1, <2>2
<1>6. ASSUME alone PROVE Known(g, own)
  <2>1. CASE Running(m, n)
    <3>1. g = Erase(m, i)
      BY <1>3, <1>4, <2>1
    <3>2. /\ Range(g.items) = {j \in Range(m.items) : j.id # i.id}
          /\ g.known[i.name] = NotListed /\ \A k \in Name \ {i.name} : g.known[k] = m.known[k]
      BY <1>1, <1>3, <1>4, <2>1, <3>1, EraseIs
    <3> HIDE DEF g
    <3>3. QED BY <1>1, <1>3, <1>5, <1>6, <2>1, <3>2, FewerKnown
  <2>2. CASE ~Running(m, n)
    BY <1>1, <1>3, <1>6, <2>2
  <2>3. QED BY <2>1, <2>2
<1> HIDE DEF g
<1>7. /\ x \in [own -> IdentRec] /\ x[n].item = NoId /\ x[n].state = state
      /\ \A k \in own \ {n} : x[k] = m.ident[k]
  <2>1. g.ident \in [own -> IdentRec] /\ g.ident = m.ident
    BY <1>1, <1>5 DEF Typed
  <2>2. NoId \in Nat
    BY ConstantsAre
  <2>3. [g.ident[n] EXCEPT !.item = NoId, !.state = state] \in IdentRec
    BY <2>1, <2>2 DEF IdentRec
  <2>4. x = [g.ident EXCEPT ![n] = [g.ident[n] EXCEPT !.item = NoId, !.state = state]]
    BY <2>1
  <2>5. x[n].item = NoId /\ x[n].state = state
    BY <2>1 DEF IdentRec
  <2>6. QED BY <2>1, <2>3, <2>4, <2>5
<1>8. IsMonitor(g)
  BY <1>5 DEF Typed
<1> HIDE DEF x
<1>9. /\ IsMonitor(r) /\ r.items = g.items /\ r.table = g.table /\ r.asked = g.asked
      /\ r.clients = g.clients /\ r.ident = x /\ r.known = g.known /\ r.out = g.out
  BY <1>8, IdentSet
<1> HIDE DEF r
<1>10. Typed(r, own)
  BY <1>5, <1>7, <1>9 DEF Typed
<1>11. Items(r, own)
  <2>1. \A k, l \in DOMAIN r.items : r.items[k].id = r.items[l].id => k = l
    <3>1. Range(r.items) \subseteq Range(m.items) /\ (IsInjective(m.items) => IsInjective(r.items))
      BY <1>5, <1>9
    <3>2. QED BY <1>1, <1>10, <3>1, FewerItems
  <2>2. \A j \in Range(r.items) : j \in Range(m.items) /\ ~(j.local /\ j.name = n)
    BY <1>5, <1>9
  <2>3. \A j \in Range(r.items) :
          IF j.local THEN j.name \in own /\ r.ident[j.name].item = j.id
          ELSE j.state \in {"ClaimedAddress", "AddressLost"}
    BY <1>1, <1>7, <1>9, <2>2 DEF Items
  <2>4. ASSUME NEW k \in own
        PROVE  /\ Running(r, k) => \E j \in Range(r.items) : j.local /\ j.name = k
               /\ ~Running(r, k) => r.ident[k].item = NoId
               /\ Running(r, k) => k \in Range(r.clients)
    <3>1. CASE k = n
      BY <1>7, <1>9, <3>1 DEF Running
    <3>2. CASE k # n
      <4>1. Running(r, k) <=> Running(m, k)
        BY <1>7, <1>9, <3>2 DEF Running
      <4>2. ASSUME Running(m, k) PROVE \E j \in Range(r.items) : j.local /\ j.name = k
        <5>1. PICK h \in Range(m.items) : h.local /\ h.name = k
          BY <1>1, <4>2 DEF Items
        <5>2. QED BY <1>5, <1>9, <3>2, <5>1
      <4>3. /\ ~Running(m, k) => m.ident[k].item = NoId
            /\ Running(m, k) => k \in Range(m.clients)
        BY <1>1 DEF Items
      <4>4. QED BY <1>5, <1>7, <1>9, <3>2, <4>1, <4>2, <4>3
    <3>3. QED BY <3>1, <3>2
  <2>5. QED BY <2>1, <2>3, <2>4 DEF Items
<1>12. ASSUME alone PROVE Known(r, own)
  BY <1>6, <1>9, <1>12 DEF Known
<1>13. QED BY <1>2, <1>5, <1>7, <1>9, <1>10, <1>11, <1>12 DEF Good

\* The set of what a sequence holds is finite.
LEMMA RangeFinite ==
  ASSUME NEW S, IsFiniteSet(S), NEW f, f = [s \in S |-> f[s]]
  PROVE  IsFiniteSet({f[s] : s \in S})
<1> DEFINE T == {f[s] : s \in S}
<1>1. f \in Surjection(S, T)
  BY DEF Surjection
<1>2. QED BY <1>1, FS_Surjection

\* There is a free id, and it is no item's.
LEMMA FreeIdIs ==
  ASSUME NEW own, NEW m, Typed(m, own)
  PROVE  /\ FreeId(m) \in Nat \ {NoId}
         /\ \A i \in Range(m.items) : i.id # FreeId(m)
<1> DEFINE f == [k \in DOMAIN m.items |-> m.items[k].id]
           I == {f[k] : k \in DOMAIN m.items}
           T == {m.table[a] : a \in Address}
           used == I \union T
           n == FreeId(m)
<1>1. DOMAIN m.items = 1..Len(m.items) /\ Len(m.items) \in Nat
  BY ItemsAre
<1>2. IsFiniteSet(I)
  <2>1. IsFiniteSet(DOMAIN m.items)
    BY <1>1, FS_Interval
  <2>2. f = [k \in DOMAIN m.items |-> f[k]]
    OBVIOUS
  <2> HIDE DEF f
  <2>3. QED BY <2>1, <2>2, RangeFinite
<1>3. IsFiniteSet(T)
  <2>1. IsFiniteSet(0..253)
    <3> DEFINE top == 253
    <3>1. 0 \in Int /\ top \in Int
      OBVIOUS
    <3> HIDE DEF top
    <3>2. IsFiniteSet(0..top)
      BY <3>1, FS_Interval
    <3>3. QED BY <3>2 DEF top
  <2>2. IsFiniteSet(Address)
    BY <2>1, FS_Subset, IsoMonitorAssumption
  <2>3. m.table = [a \in Address |-> m.table[a]]
    BY DEF Typed
  <2>4. QED BY <2>2, <2>3, RangeFinite
<1>4. IsFiniteSet(used) /\ Cardinality(used) \in Nat
  <2> HIDE DEF I, T
  <2>1. IsFiniteSet(used)
    BY <1>2, <1>3, FS_Union
  <2>2. QED BY <2>1, FS_CardinalityType
<1>5. n = CHOOSE x \in 1..(Cardinality(used) + 1) : x \notin used /\ \A k \in 1..(x - 1) : k \in used
  <2>1. I = {m.items[k].id : k \in DOMAIN m.items}
    OBVIOUS
  <2>2. QED BY <2>1 DEF FreeId
<1> HIDE DEF I, T, used, n
<1>6. \E x \in 1..(Cardinality(used) + 1) : x \notin used /\ \A k \in 1..(x - 1) : k \in used
  <2> DEFINE c == Cardinality(used)
             F == {x \in 1..(c + 1) : x \notin used}
  <2>1. c \in Nat
    BY <1>4
  <2> HIDE DEF c
  <2>2. F # {}
    <3> SUFFICES ASSUME 1..(c + 1) \subseteq used PROVE FALSE
      OBVIOUS
    <3>1. Cardinality(1..(c + 1)) <= Cardinality(used)
      BY <1>4, FS_Subset
    <3>2. Cardinality(1..(c + 1)) = c + 1
      BY <2>1, FS_Interval
    <3>3. QED BY <2>1, <3>1, <3>2 DEF c
  <2>3. F \subseteq Nat
    BY <2>1
  <2>4. PICK x \in F : \A y \in F : x <= y
    <3> HIDE DEF F
    <3>1. QED BY <2>2, <2>3, LeastNatural
  <2>5. \A k \in 1..(x - 1) : k \in 1..(c + 1) /\ ~(x <= k)
    BY <2>1, <2>4
  <2>6. \A k \in 1..(x - 1) : k \in used
    BY <2>4, <2>5
  <2>7. QED BY <2>4, <2>6 DEF c
<1>7. n \in 1..(Cardinality(used) + 1) /\ n \notin used
  BY <1>5, <1>6
<1>8. n \in Nat \ {NoId}
  BY <1>4, <1>7 DEF NoId
<1>9. \A i \in Range(m.items) : i.id \in used
  BY ItemsAre DEF used, I
<1>10. QED BY <1>7, <1>8, <1>9 DEF n

\* A new item, which has no id yet.
NewRec ==
  [id : Nat, name : Name, nr : AnyAddr, state : ItemState, local : BOOLEAN,
   off : BOOLEAN, doubted : BOOLEAN, since : 0..ClaimWait, asked : Never..MaxAge]

\* The fields of a new item, of another node.
LEMMA NewItemIs ==
  ASSUME NEW name \in Name, NEW nr \in AnyAddr, NEW state \in ItemState
  PROVE  LET i == NewItem(name, nr, state, FALSE)
         IN  i \in NewRec /\ i.name = name /\ i.nr = nr /\ i.state = state /\ i.local = FALSE
<1>1. NoId \in Nat /\ 0 \in 0..ClaimWait /\ Never \in Never..MaxAge
  BY ConstantsAre
<1>2. QED BY <1>1 DEF NewItem, NewRec

\* The same for an own one.
LEMMA NewOwnIs ==
  ASSUME NEW name \in Name, NEW nr \in AnyAddr, NEW state \in ItemState
  PROVE  LET i == NewItem(name, nr, state, TRUE)
         IN  i \in NewRec /\ i.name = name /\ i.nr = nr /\ i.state = state /\ i.local = TRUE
<1>1. NoId \in Nat /\ 0 \in 0..ClaimWait /\ Never \in Never..MaxAge
  BY ConstantsAre
<1>2. QED BY <1>1 DEF NewItem, NewRec

\* r is m with the item new, made of fresh, in the list.
Inserted(own, m, fresh, r, new) ==
  /\ Typed(r, own) /\ r.ident = m.ident /\ r.clients = m.clients /\ r.known = m.known
  /\ new \in ItemRec /\ new.name = fresh.name /\ new.nr = fresh.nr /\ new.state = fresh.state
  /\ new.local = fresh.local
  /\ \A j \in Range(m.items) : j.id # new.id
  /\ Range(r.items) = {new} \union Range(m.items)
  /\ Items(m, own) => \A k, l \in DOMAIN r.items : r.items[k].id = r.items[l].id => k = l

\* A new item is the first of the list.
LEMMA InsertIs ==
  ASSUME NEW own, NEW m, Typed(m, own), NEW i \in NewRec
  PROVE  LET r == InsertIsoMember(m, i, FALSE)
             new == Head(r.items)
         IN  /\ Inserted(own, m, i, r, new)
             /\ InsertIsoMember(m, i, TRUE) = Announce(r, "AddToMonitorList", new)
<1> DEFINE id == FreeId(m)
           new == [i EXCEPT !.id = id]
           q == <<new>> \o m.items
           listed == [m EXCEPT !.items = q]
           found == IF new.state \in {"AddressClaim", "ClaimedAddress"} THEN InTable(listed, new) ELSE listed
<1>1. /\ InsertIsoMember(m, i, FALSE) = found
      /\ InsertIsoMember(m, i, TRUE) = Announce(found, "AddToMonitorList", new)
  BY DEF InsertIsoMember
<1>2. id \in Nat \ {NoId} /\ \A j \in Range(m.items) : j.id # id
  BY FreeIdIs
<1> HIDE DEF id
<1>3. /\ new \in ItemRec /\ new.id = id /\ new.name = i.name /\ new.nr = i.nr /\ new.state = i.state
      /\ new.local = i.local
  BY <1>2 DEF ItemRec, NewRec
<1> HIDE DEF new
<1>4. /\ q \in Seq(ItemRec) /\ Len(q) = Len(m.items) + 1 /\ q[1] = new /\ Head(q) = new
      /\ \A k \in 1..Len(m.items) : q[k + 1] = m.items[k]
  BY <1>3 DEF Typed
<1>5. Range(q) = {new} \union Range(m.items)
  <2>1. DOMAIN q = 1..(Len(m.items) + 1) /\ DOMAIN m.items = 1..Len(m.items) /\ Len(m.items) \in Nat
    BY <1>4, ItemsAre
  <2> HIDE DEF q
  <2>2. \A k \in DOMAIN q : k = 1 \/ (k - 1 \in 1..Len(m.items) /\ (k - 1) + 1 = k)
    BY <2>1
  <2>3. ASSUME NEW k \in DOMAIN q PROVE q[k] = new \/ q[k] \in Range(m.items)
    <3>1. CASE k = 1
      BY <1>4, <3>1
    <3>2. CASE k - 1 \in 1..Len(m.items) /\ (k - 1) + 1 = k
      <4>1. q[k] = m.items[k - 1]
        BY <1>4, <3>2
      <4>2. m.items[k - 1] \in Range(m.items)
        BY <2>1, <3>2, ItemsAre
      <4>3. QED BY <4>1, <4>2
    <3>3. QED BY <2>2, <3>1, <3>2
  <2>4. 1 \in DOMAIN q /\ \A k \in 1..Len(m.items) : k + 1 \in DOMAIN q
    BY <2>1
  <2>5. new \in Range(q) /\ \A k \in DOMAIN m.items : m.items[k] \in Range(q)
    BY <1>4, <2>1, <2>4 DEF Range
  <2>6. QED BY <2>3, <2>5 DEF Range
<1>6. ASSUME Items(m, own), NEW k \in DOMAIN q, NEW l \in DOMAIN q, q[k].id = q[l].id PROVE k = l
  <2>1. DOMAIN q = 1..(Len(m.items) + 1) /\ DOMAIN m.items = 1..Len(m.items) /\ Len(m.items) \in Nat
    BY <1>4, ItemsAre
  <2> HIDE DEF q
  <2>2. \A x \in DOMAIN q : x = 1 \/ (x - 1 \in DOMAIN m.items /\ q[x] = m.items[x - 1] /\ q[x].id # id)
    <3>1. \A x \in DOMAIN q : x = 1 \/ (x - 1 \in DOMAIN m.items /\ (x - 1) + 1 = x)
      BY <2>1
    <3>2. \A x \in DOMAIN m.items : m.items[x].id # id
      BY <1>2, ItemsAre
    <3>3. QED BY <1>4, <2>1, <3>1, <3>2
  <2>3. q[1].id = id
    BY <1>3, <1>4
  <2>4. \A x, y \in DOMAIN m.items : m.items[x].id = m.items[y].id => x = y
    BY <1>6 DEF Items
  <2>5. k - 1 = l - 1 => k = l
    BY <2>1
  <2>6. QED BY <1>6, <2>2, <2>3, <2>4, <2>5
<1>7. IsMonitor(m)
  BY DEF Typed
<1> HIDE DEF q
<1>8. /\ IsMonitor(listed) /\ listed.items = q /\ listed.table = m.table /\ listed.asked = m.asked
      /\ listed.clients = m.clients /\ listed.ident = m.ident /\ listed.known = m.known
      /\ listed.out = m.out
  BY <1>7, ItemsSet
<1> HIDE DEF listed
<1>9. Typed(listed, own)
  BY <1>4, <1>8 DEF Typed
<1>10. Typed(found, own) /\ KeepsList(listed, found) /\ found.asked = listed.asked /\ found.out = listed.out
  <2>1. new.nr \in AnyAddr /\ new.id \in Nat
    BY <1>3, ItemFields
  <2>2. LET t == InTable(listed, new)
        IN  Typed(t, own) /\ KeepsList(listed, t) /\ t.asked = listed.asked /\ t.out = listed.out
    BY <1>9, <2>1, TableTyped
  <2>3. KeepsList(listed, listed)
    BY DEF KeepsList
  <2>4. QED BY <1>9, <2>2, <2>3
<1> HIDE DEF found
<1>11. found.items = q /\ found.ident = m.ident /\ found.clients = m.clients /\ found.known = m.known
  BY <1>8, <1>10 DEF KeepsList
<1>12. Head(found.items) = new
  BY <1>4, <1>11
<1>13. Items(m, own) => \A k, l \in DOMAIN found.items : found.items[k].id = found.items[l].id => k = l
  BY <1>6, <1>11
<1>14. Range(found.items) = {new} \union Range(m.items)
  BY <1>5, <1>11
<1> HIDE DEF Items, Typed
<1>15. Inserted(own, m, i, found, new)
  BY <1>2, <1>3, <1>10, <1>11, <1>13, <1>14 DEF Inserted
<1>16. QED BY <1>1, <1>12, <1>15

\* Every item of r stands for one of m with its id and NAME.
SameNames(m, r) ==
  \A j \in Range(r.items) : \E h \in Range(m.items) :
    h.id = j.id /\ h.name = j.name /\ h.local = j.local

\* The states of a node of another ECU as it enters the list.
HeardStates == {"ClaimedAddress", "AddressLost"}

\* A node of another ECU enters the list.
LEMMA InsertForeignGood ==
  ASSUME NEW own, NEW alone, NEW m, Good(m, own, alone), NEW name \in Name, NEW nr \in AnyAddr,
         NEW state \in HeardStates,
         alone => name \notin own /\ \A i \in Range(m.items) : i.name # name
  PROVE  LET r == InsertIsoMember(m, NewItem(name, nr, state, FALSE), TRUE)
         IN  Good(r, own, alone) /\ r.clients = m.clients
<1> DEFINE fresh == NewItem(name, nr, state, FALSE)
           q == InsertIsoMember(m, fresh, FALSE)
           new == Head(q.items)
           r == InsertIsoMember(m, fresh, TRUE)
<1>1. Typed(m, own) /\ Items(m, own) /\ (alone => Known(m, own))
  BY DEF Good
<1>2. fresh \in NewRec /\ fresh.name = name /\ fresh.nr = nr /\ fresh.state = state /\ fresh.local = FALSE
  <2>1. state \in ItemState
    BY DEF HeardStates, ItemState
  <2>2. fresh \in NewRec
    BY <2>1, NewItemIs
  <2>3. fresh.name = name /\ fresh.nr = nr
    BY <2>1, NewItemIs
  <2>4. fresh.state = state
    BY <2>1, NewItemIs
  <2>5. fresh.local = FALSE
    BY DEF NewItem
  <2> HIDE DEF fresh
  <2>6. QED BY <2>2, <2>3, <2>4, <2>5
<1> HIDE DEF fresh
<1>7. /\ Typed(q, own) /\ q.ident = m.ident /\ q.clients = m.clients /\ q.known = m.known
      /\ new \in ItemRec /\ new.name = name /\ new.nr = nr /\ new.state = state /\ ~new.local
      /\ \A j \in Range(m.items) : j.id # new.id
      /\ Range(q.items) = {new} \union Range(m.items)
      /\ \A k, l \in DOMAIN q.items : q.items[k].id = q.items[l].id => k = l
      /\ r = Announce(q, "AddToMonitorList", new)
  <2>1. Inserted(own, m, fresh, q, new)
        /\ InsertIsoMember(m, fresh, TRUE) = Announce(q, "AddToMonitorList", new)
    BY <1>1, <1>2, InsertIs
  <2> HIDE DEF q, new, Items, Typed
  <2>2. QED BY <1>1, <1>2, <2>1 DEF Inserted
<1> HIDE DEF q, new, r
<1>8. /\ Typed(r, own) /\ r.items = q.items /\ r.ident = q.ident /\ r.clients = q.clients
      /\ r.known[name] = nr /\ \A n \in Name \ {name} : r.known[n] = q.known[n]
  BY <1>7, AnnounceIs
<1>3. /\ Typed(r, own) /\ r.ident = m.ident /\ r.clients = m.clients
      /\ Range(r.items) = {new} \union Range(m.items)
      /\ \A k, l \in DOMAIN r.items : r.items[k].id = r.items[l].id => k = l
      /\ r.known[name] = nr /\ \A n \in Name \ {name} : r.known[n] = m.known[n]
  BY <1>7, <1>8
<1>4. Items(r, own)
  <2>1. \A n \in own : Running(r, n) <=> Running(m, n)
    BY <1>3 DEF Running
  <2>2. \A j \in Range(m.items) : IF j.local THEN j.name \in own /\ m.ident[j.name].item = j.id
                                  ELSE j.state \in {"ClaimedAddress", "AddressLost"}
    BY <1>1 DEF Items
  <2>3. \A j \in Range(r.items) : IF j.local THEN j.name \in own /\ r.ident[j.name].item = j.id
                                  ELSE j.state \in {"ClaimedAddress", "AddressLost"}
    BY <1>3, <1>7, <2>2 DEF HeardStates
  <2>4. \A n \in own : IF Running(r, n) THEN \E j \in Range(r.items) : j.local /\ j.name = n
                       ELSE r.ident[n].item = NoId
    BY <1>1, <1>3, <2>1 DEF Items
  <2>5. \A n \in own : Running(r, n) => n \in Range(r.clients)
    BY <1>1, <1>3, <2>1 DEF Items
  <2>6. QED BY <1>3, <2>3, <2>4, <2>5 DEF Items
<1>5. ASSUME alone PROVE Known(r, own)
  <2>1. Known(m, own) /\ name \notin own /\ \A i \in Range(m.items) : i.name # name
    BY <1>1, <1>5
  <2>2. \A j \in Range(m.items) : j.name \in Name
    BY <1>1, ItemsAre, ItemFields
  <2>3. \A j \in Range(r.items) : ~j.local => j.name \notin own
    BY <1>3, <1>7, <2>1 DEF Known
  <2>4. \A i, j \in Range(r.items) : i.name = j.name => i = j
    BY <1>3, <1>7, <2>1 DEF Known
  <2>5. \A j \in Range(r.items) : Waiting(j) \/ r.known[j.name] = j.nr
    BY <1>3, <1>7, <2>1, <2>2 DEF Known
  <2>6. \A n \in Name : r.known[n] # NotListed => \E j \in Range(r.items) : j.name = n
    BY <1>3, <1>7, <2>1 DEF Known
  <2>7. QED BY <2>3, <2>4, <2>5, <2>6 DEF Known
<1>6. QED BY <1>3, <1>4, <1>5 DEF Good, r, fresh

\* The entry of an identity is replaced.
LEMMA IdentEntry ==
  ASSUME NEW own, NEW m, Typed(m, own), NEW n \in own, NEW x \in IdentRec
  PROVE  LET r == [m EXCEPT !.ident = [@ EXCEPT ![n] = x]]
         IN  /\ Typed(r, own) /\ r.items = m.items /\ r.table = m.table /\ r.asked = m.asked
             /\ r.clients = m.clients /\ r.known = m.known /\ r.out = m.out
             /\ r.ident[n] = x /\ \A k \in own \ {n} : r.ident[k] = m.ident[k]
<1> DEFINE y == [m.ident EXCEPT ![n] = x]
           r == [m EXCEPT !.ident = y]
<1>1. IsMonitor(m) /\ y \in [own -> IdentRec] /\ y[n] = x /\ \A k \in own \ {n} : y[k] = m.ident[k]
  BY DEF Typed
<1> HIDE DEF y
<1>2. /\ IsMonitor(r) /\ r.items = m.items /\ r.table = m.table /\ r.asked = m.asked
      /\ r.clients = m.clients /\ r.ident = y /\ r.known = m.known /\ r.out = m.out
  BY <1>1, IdentSet
<1> HIDE DEF r
<1>3. Typed(r, own)
  BY <1>1, <1>2 DEF Typed
<1>4. QED BY <1>1, <1>2, <1>3 DEF r, y

\* The entry of an identity changes, but not what Good says of it.
LEMMA IdentGood ==
  ASSUME NEW own, NEW alone, NEW m, Good(m, own, alone), NEW n \in own, NEW x \in IdentRec,
         x.item = m.ident[n].item,
         x.state \in {"AddressClaim", "ClaimedAddress"} <=> Running(m, n)
  PROVE  LET r == [m EXCEPT !.ident = [@ EXCEPT ![n] = x]]
         IN  /\ Good(r, own, alone) /\ r.items = m.items /\ r.clients = m.clients /\ r.ident[n] = x
             /\ r.asked = m.asked
<1> DEFINE r == [m EXCEPT !.ident = [@ EXCEPT ![n] = x]]
<1>1. Typed(m, own) /\ Items(m, own) /\ (alone => Known(m, own))
  BY DEF Good
<1>2. /\ Typed(r, own) /\ r.items = m.items /\ r.table = m.table /\ r.asked = m.asked
      /\ r.clients = m.clients /\ r.known = m.known /\ r.out = m.out
      /\ r.ident[n] = x /\ \A k \in own \ {n} : r.ident[k] = m.ident[k]
  BY <1>1, IdentEntry
<1> HIDE DEF r
<1>3. \A k \in own : (Running(r, k) <=> Running(m, k)) /\ r.ident[k].item = m.ident[k].item
  BY <1>2 DEF Running
<1>4. Items(r, own)
  BY <1>1, <1>2, <1>3 DEF Items
<1>5. alone => Known(r, own)
  BY <1>1, <1>2 DEF Known
<1>6. QED BY <1>2, <1>4, <1>5 DEF Good, r

\* An own identity gets its item, which is not announced.
LEMMA InsertOwnGood ==
  ASSUME NEW own, own \subseteq Name, NEW alone, NEW m, Good(m, own, alone), NEW n \in own,
         ~Running(m, n), n \in Range(m.clients)
  PROVE  LET listed == InsertIsoMember(m, NewItem(n, m.ident[n].sa, "PreAddressClaim", TRUE), FALSE)
             new == Head(listed.items)
             r == [listed EXCEPT !.ident[n].item = new.id, !.ident[n].state = "AddressClaim"]
         IN  Good(r, own, alone) /\ r.clients = m.clients /\ Running(r, n) /\ OthersKept(own, m, r, n)
<1> DEFINE sa == m.ident[n].sa
           fresh == NewItem(n, sa, "PreAddressClaim", TRUE)
           listed == InsertIsoMember(m, fresh, FALSE)
           new == Head(listed.items)
           x == [listed.ident[n] EXCEPT !.item = new.id, !.state = "AddressClaim"]
           r == [listed EXCEPT !.ident = [@ EXCEPT ![n] = x]]
<1>1. Typed(m, own) /\ Items(m, own) /\ (alone => Known(m, own))
  BY DEF Good
<1>2. m.ident[n] \in IdentRec
  BY <1>1 DEF Typed
<1>3. fresh \in NewRec /\ fresh.name = n /\ fresh.state = "PreAddressClaim" /\ fresh.local = TRUE
  <2>1. sa \in AnyAddr /\ n \in Name /\ "PreAddressClaim" \in ItemState
    BY <1>2 DEF IdentRec, ItemState
  <2> HIDE DEF sa
  <2>2. QED BY <2>1, NewOwnIs
<1> HIDE DEF fresh
<1>4. /\ Typed(listed, own) /\ listed.ident = m.ident /\ listed.clients = m.clients
      /\ new \in ItemRec /\ new.name = n /\ new.state = "PreAddressClaim" /\ new.local
      /\ \A j \in Range(m.items) : j.id # new.id
      /\ Range(listed.items) = {new} \union Range(m.items)
      /\ \A k, l \in DOMAIN listed.items : listed.items[k].id = listed.items[l].id => k = l
      /\ listed.known = m.known
  <2>1. Inserted(own, m, fresh, listed, new)
        /\ InsertIsoMember(m, fresh, TRUE) = Announce(listed, "AddToMonitorList", new)
    BY <1>1, <1>3, InsertIs
  <2> HIDE DEF listed, new, Items, Typed
  <2>2. QED BY <1>1, <1>3, <2>1 DEF Inserted
<1> HIDE DEF listed, new
<1>5. x \in IdentRec /\ x.item = new.id /\ x.state = "AddressClaim"
  <2>1. new.id \in Nat
    BY <1>4, ItemFields
  <2>2. listed.ident[n] \in IdentRec
    BY <1>2, <1>4
  <2>3. "AddressClaim" \in IdentState
    BY DEF IdentState
  <2>4. QED BY <2>1, <2>2, <2>3 DEF IdentRec
<1>6. r = [listed EXCEPT !.ident[n].item = new.id, !.ident[n].state = "AddressClaim"]
  <2>1. IsMonitor(listed) /\ listed.ident \in [own -> IdentRec]
    BY <1>4 DEF Typed
  <2>2. [listed.ident EXCEPT ![n].item = new.id, ![n].state = "AddressClaim"] = [listed.ident EXCEPT ![n] = x]
    BY <2>1
  <2>3. QED BY <2>1, <2>2 DEF IsMonitor, Fields
<1> HIDE DEF x
<1>7. /\ Typed(r, own) /\ r.items = listed.items /\ r.clients = listed.clients
      /\ r.known = listed.known
      /\ r.ident[n] = x /\ \A k \in own \ {n} : r.ident[k] = listed.ident[k]
  BY <1>4, <1>5, IdentEntry
<1> HIDE DEF r
<1>8. \A j \in Range(m.items) : j.local => j.name # n
  BY <1>1, OwnItem
<1>9. Running(r, n)
  BY <1>5, <1>7 DEF Running
<1>10. \A k \in own \ {n} : (Running(r, k) <=> Running(m, k)) /\ r.ident[k].item = m.ident[k].item
  BY <1>4, <1>7 DEF Running
<1>11. Items(r, own)
  <2>1. \A k, l \in DOMAIN r.items : r.items[k].id = r.items[l].id => k = l
    BY <1>4, <1>7
  <2>2. \A j \in Range(m.items) : IF j.local THEN j.name \in own \ {n} /\ r.ident[j.name].item = j.id
                                  ELSE j.state \in {"ClaimedAddress", "AddressLost"}
    BY <1>1, <1>8, <1>10 DEF Items
  <2>3. \A j \in Range(r.items) : IF j.local THEN j.name \in own /\ r.ident[j.name].item = j.id
                                  ELSE j.state \in {"ClaimedAddress", "AddressLost"}
    BY <1>4, <1>5, <1>7, <2>2
  <2>4. ASSUME NEW k \in own
        PROVE  /\ Running(r, k) => \E j \in Range(r.items) : j.local /\ j.name = k
               /\ ~Running(r, k) => r.ident[k].item = NoId
               /\ Running(r, k) => k \in Range(r.clients)
    <3>1. CASE k = n
      BY <1>4, <1>7, <1>9, <3>1
    <3>2. CASE k # n
      <4>1. /\ Running(m, k) => \E j \in Range(m.items) : j.local /\ j.name = k
            /\ ~Running(m, k) => m.ident[k].item = NoId
            /\ Running(m, k) => k \in Range(m.clients)
        BY <1>1 DEF Items
      <4>2. QED BY <1>4, <1>7, <1>10, <3>2, <4>1
    <3>3. QED BY <3>1, <3>2
  <2>5. QED BY <2>1, <2>3, <2>4 DEF Items
<1>12. ASSUME alone PROVE Known(r, own)
  <2>1. Known(m, own)
    BY <1>1, <1>12
  <2>2. \A j \in Range(m.items) : j.name # n
    BY <1>8, <2>1 DEF Known
  <2>3. \A j \in Range(r.items) : ~j.local => j.name \notin own
    BY <1>4, <1>7, <2>1 DEF Known
  <2>4. \A i, j \in Range(r.items) : i.name = j.name => i = j
    BY <1>4, <1>7, <2>1, <2>2 DEF Known
  <2>5. \A j \in Range(r.items) : Waiting(j) \/ r.known[j.name] = j.nr
    BY <1>4, <1>7, <2>1 DEF Known, Waiting
  <2>6. \A k \in Name : r.known[k] # NotListed => \E j \in Range(r.items) : j.name = k
    BY <1>4, <1>7, <2>1 DEF Known
  <2>7. QED BY <2>3, <2>4, <2>5, <2>6 DEF Known
<1>13. Good(r, own, alone) /\ r.clients = m.clients /\ Running(r, n)
  BY <1>4, <1>7, <1>9, <1>11, <1>12 DEF Good
<1>14. OthersKept(own, m, r, n)
  BY <1>4, <1>7 DEF OthersKept
<1>15. Good(r, own, alone) /\ r.clients = m.clients /\ Running(r, n) /\ OthersKept(own, m, r, n)
  BY <1>13, <1>14
<1>16. QED BY <1>6, <1>15, Zenon DEF listed, new, fresh

-----------------------------------------------------------------------------
(* The search for an address.                                              *)

\* One turn round a range of n.
LEMMA OneTurn ==
  ASSUME NEW n \in Nat \ {0}, NEW x \in 0..(2 * n - 1)
  PROVE  x % n = IF x < n THEN x ELSE x - n
OBVIOUS

\* What the search answers.
LEMMA Searched ==
  ASSUME NEW m, NEW i, NEW resolveConflict, i.nr \in Nat
  PROVE  LET sa == UnifyIsoSa(m, i, resolveConflict)
         IN  /\ sa # NoAddress => IsAddressFree(m, i, sa, resolveConflict)
             /\ sa \in {i.nr, NoAddress} \union (RangeLower..(RangeHigher - 1))
             /\ i.nr < NoAddress /\ IsAddressFree(m, i, i.nr, resolveConflict) => sa = i.nr
             /\ i.name \in SelfConf /\ sa = NoAddress =>
                  \A a \in RangeLower..(RangeHigher - 1) : ~IsAddressFree(m, i, a, resolveConflict)
<1> DEFINE free(sa) == IsAddressFree(m, i, sa, resolveConflict)
           size == RangeHigher - RangeLower
           start == IF i.nr \in RangeLower..(RangeHigher - 1) THEN i.nr - RangeLower ELSE 0
           tried(k) == RangeLower + ((start + k) % size)
           hits == {k \in 0..(size - 1) : free(tried(k))}
           sa == UnifyIsoSa(m, i, resolveConflict)
<1>1. size \in Nat \ {0} /\ start \in 0..(size - 1) /\ RangeLower \in Nat /\ RangeHigher \in Nat
  BY IsoMonitorAssumption
<1>0. \A x \in 0..(2 * size - 1) : x % size = IF x < size THEN x ELSE x - size
  <2> HIDE DEF size, start
  <2>1. QED BY <1>1, OneTurn
<1>2. \A k \in 0..(size - 1) : tried(k) \in RangeLower..(RangeHigher - 1)
  <2> SUFFICES ASSUME NEW k \in 0..(size - 1)
               PROVE  tried(k) \in RangeLower..(RangeHigher - 1)
    OBVIOUS
  <2>1. start + k \in 0..(2 * size - 1)
    BY <1>1
  <2>2. (start + k) % size \in 0..(size - 1)
    <3> HIDE DEF size, start
    <3> DEFINE x == start + k
    <3> HIDE DEF x
    <3>0. x \in 0..(2 * size - 1)
      BY <2>1 DEF x
    <3>1. x % size = IF x < size THEN x ELSE x - size
      BY <1>0, <3>0
    <3>2. x % size \in 0..(size - 1)
      BY <3>0, <3>1, <1>1
    <3>3. QED BY <3>2 DEF x
  <2>3. QED BY <1>1, <2>2
<1>3. \A a \in RangeLower..(RangeHigher - 1) : \E k \in 0..(size - 1) : tried(k) = a
  <2> SUFFICES ASSUME NEW a \in RangeLower..(RangeHigher - 1)
               PROVE  \E k \in 0..(size - 1) : tried(k) = a
    OBVIOUS
  <2> DEFINE d == a - RangeLower
             k == IF d >= start THEN d - start ELSE d - start + size
  <2>1. d \in 0..(size - 1)
    BY <1>1
  <2>2. k \in 0..(size - 1) /\ start + k \in 0..(2 * size - 1)
        /\ start + k = IF d >= start THEN d ELSE d + size
    <3> HIDE DEF size, start, d
    <3>1. QED BY <1>1, <2>1
  <2>3. (start + k) % size = d
    <3> HIDE DEF size, start, d, k
    <3> DEFINE x == start + k
    <3> HIDE DEF x
    <3>0. x \in 0..(2 * size - 1)
      BY <2>2 DEF x
    <3>1. x % size = IF x < size THEN x ELSE x - size
      BY <1>0, <3>0
    <3>2. CASE d >= start
      BY <3>1, <3>2, <1>1, <2>1, <2>2 DEF x
    <3>3. CASE ~(d >= start)
      <4>1. start + k = d + size
        BY <3>3, <2>2
      <4>2. QED BY <3>1, <4>1, <1>1, <2>1 DEF x
    <3>4. QED BY <3>2, <3>3
  <2>4. tried(k) = a
    BY <1>1, <2>3
  <2>5. QED BY <2>2, <2>4
<1>4. \A a \in RangeLower..(RangeHigher - 1) : free(a) => hits # {}
  BY <1>3
<1>5. hits # {} => /\ free(tried(CHOOSE k \in hits : \A h \in hits : k <= h))
                  /\ tried(CHOOSE k \in hits : \A h \in hits : k <= h) \in RangeLower..(RangeHigher - 1)
  <2> SUFFICES ASSUME hits # {}
               PROVE  /\ free(tried(CHOOSE k \in hits : \A h \in hits : k <= h))
                      /\ tried(CHOOSE k \in hits : \A h \in hits : k <= h) \in RangeLower..(RangeHigher - 1)
    OBVIOUS
  <2>1. hits \subseteq Nat
    BY <1>1
  <2>2. \E k \in hits : \A h \in hits : k <= h
    <3> HIDE DEF hits
    <3>1. QED BY <2>1, LeastNatural, Zenon
  <2>3. (CHOOSE k \in hits : \A h \in hits : k <= h) \in hits
    <3> HIDE DEF hits
    <3>1. QED BY <2>2
  <2>4. QED BY <1>2, <2>3
<1>6. sa = IF i.nr < NoAddress /\ free(i.nr) THEN i.nr
           ELSE IF i.name \notin SelfConf \/ hits = {} THEN NoAddress
           ELSE tried(CHOOSE k \in hits : \A h \in hits : k <= h)
  BY DEF UnifyIsoSa
<1>7. NoAddress = 254 /\ RangeHigher - 1 < NoAddress
  <2>1. RangeHigher - 1 \in RangeLower..(RangeHigher - 1)
    BY IsoMonitorAssumption
  <2>2. RangeHigher - 1 \in Address
    BY <2>1, IsoMonitorAssumption
  <2>3. RangeHigher - 1 \in 0..253
    BY <2>2, IsoMonitorAssumption
  <2>4. QED BY <2>3 DEF NoAddress
<1> HIDE DEF free, size, start, tried, hits, sa
<1>8. /\ sa # NoAddress => free(sa)
      /\ sa \in {i.nr, NoAddress} \union (RangeLower..(RangeHigher - 1))
      /\ i.nr < NoAddress /\ free(i.nr) => sa = i.nr
      /\ i.name \in SelfConf /\ sa = NoAddress =>
           \A a \in RangeLower..(RangeHigher - 1) : ~free(a)
  BY <1>1, <1>4, <1>5, <1>6, <1>7
<1>9. QED BY <1>8 DEF free, sa

(* unifyIsoSa, which decides with which address a node claims and where it   *)
(* goes when it loses one, whatever the list: it answers an address that     *)
(* isAddressFree accepts, or none; it never moves a node whose address is    *)
(* free; and a node that may choose goes without an address only when every  *)
(* address of the range is taken.                                            *)
THEOREM AddressSearch ==
  ASSUME NEW m, NEW i, NEW resolveConflict, i.nr \in Nat \ {RangeHigher}
  PROVE  LET sa == UnifyIsoSa(m, i, resolveConflict)
         IN  /\ sa # NoAddress => IsAddressFree(m, i, sa, resolveConflict)
             /\ sa \in {i.nr, NoAddress} \union (RangeLower..(RangeHigher - 1))
             /\ i.nr < NoAddress /\ IsAddressFree(m, i, i.nr, resolveConflict) => sa = i.nr
             /\ i.name \in SelfConf /\ sa = NoAddress =>
                  \A a \in RangeLower..(RangeHigher - 1) : ~IsAddressFree(m, i, a, resolveConflict)
BY Searched

\* It answers an address or none.
LEMMA SearchTyped ==
  ASSUME NEW m, NEW i, i.nr \in AnyAddr, NEW resolveConflict
  PROVE  UnifyIsoSa(m, i, resolveConflict) \in AnyAddr
<1>1. i.nr \in Nat /\ RangeLower..(RangeHigher - 1) \subseteq Address
  BY ConstantsAre
<1>2. UnifyIsoSa(m, i, resolveConflict) \in {i.nr, NoAddress} \union (RangeLower..(RangeHigher - 1))
  BY <1>1, Searched
<1>3. QED BY <1>1, <1>2 DEF AnyAddr

-----------------------------------------------------------------------------
(* Messages.                                                               *)

\* The claims of own items are sent.
LEMMA ClaimsGood ==
  ASSUME NEW own, NEW alone, NEW m, Good(m, own, alone), NEW items \in Seq(ItemRec),
         \A i \in Range(items) : i.name \in own
  PROVE  LET r == SendSaClaims(m, items)
         IN  Good(r, own, alone) /\ KeepsList(m, r) /\ r.asked = m.asked
<1> DEFINE claiming == Selected(items, {i \in Range(items) : i.state # "PreAddressClaim"})
           msgs == [k \in DOMAIN claiming |-> Claim(claiming[k])]
<1>1. SendSaClaims(m, items) = Sent(m, msgs)
  BY DEF SendSaClaims
<1>2. claiming \in Seq(ItemRec) /\ Range(claiming) \subseteq Range(items)
  <2> DEFINE keep == {i \in Range(items) : i.state # "PreAddressClaim"}
  <2> HIDE DEF keep
  <2>1. Selected(items, keep) \in Seq(ItemRec) /\ Range(Selected(items, keep)) \subseteq Range(items)
    BY SelectedIs
  <2>2. QED BY <2>1 DEF keep
<1> HIDE DEF claiming
<1>3. DOMAIN claiming = 1..Len(claiming) /\ Len(claiming) \in Nat
  BY <1>2
<1>4. ASSUME NEW k \in DOMAIN claiming PROVE Claim(claiming[k]) \in OwnMessage(own)
  <2>1. claiming[k] \in ItemRec /\ claiming[k].name \in own
    <3>1. claiming[k] \in Range(items)
      <4>1. claiming[k] \in Range(claiming)
        BY DEF Range
      <4>2. QED BY <1>2, <4>1
    <3>2. claiming[k].name \in own
      BY <3>1
    <3>3. claiming[k] \in ItemRec
      BY <1>2, <1>3
    <3>4. QED BY <3>2, <3>3
  <2>2. claiming[k].nr \in AnyAddr
    BY <2>1, ItemFields
  <2>3. QED BY <2>1, <2>2 DEF Claim, OwnMessage
<1>5. msgs \in Seq(OwnMessage(own))
  BY <1>3, <1>4
<1> HIDE DEF msgs
<1>6. QED BY <1>1, <1>5, SentIs

\* The time of the last request is kept, for every other node.
LEMMA SetLastGood ==
  ASSUME NEW own, NEW alone, NEW m, Good(m, own, alone)
  PROVE  LET r == SetLastIsoSaRequest(m)
         IN  /\ Good(r, own, alone) /\ r.clients = m.clients /\ r.ident = m.ident
             /\ \A i \in Range(m.items) : i.local => i \in Range(r.items)
             /\ SameNames(m, r)
<1> DEFINE q == [k \in DOMAIN m.items |-> IF m.items[k].local THEN m.items[k]
                                          ELSE [m.items[k] EXCEPT !.asked = 0]]
           r == [m EXCEPT !.asked = 0, !.items = q]
<1>1. Typed(m, own) /\ Items(m, own) /\ (alone => Known(m, own)) /\ IsMonitor(m)
  BY DEF Good, Typed
<1>2. SetLastIsoSaRequest(m) = r
  BY DEF SetLastIsoSaRequest
<1>3. /\ DOMAIN m.items = 1..Len(m.items) /\ Len(m.items) \in Nat
      /\ \A k \in DOMAIN m.items : m.items[k] \in ItemRec /\ m.items[k] \in Range(m.items)
      /\ \A i \in Range(m.items) : \E k \in DOMAIN m.items : m.items[k] = i
  BY <1>1, ItemsAre
<1>4. 0 \in Never..MaxAge /\ 0 \in Never..(RequestPeriod + 1)
  BY ConstantsAre
<1>5. ASSUME NEW i \in ItemRec
      PROVE  LET j == [i EXCEPT !.asked = 0]
             IN  /\ j \in ItemRec /\ j.id = i.id /\ j.name = i.name /\ j.nr = i.nr /\ j.local = i.local
                 /\ j.state = i.state
  BY <1>4 DEF ItemRec
<1>6. /\ DOMAIN q = DOMAIN m.items
      /\ \A k \in DOMAIN m.items :
           /\ q[k] \in ItemRec /\ q[k].id = m.items[k].id /\ q[k].name = m.items[k].name
           /\ q[k].nr = m.items[k].nr /\ q[k].local = m.items[k].local
           /\ q[k].state = m.items[k].state /\ (m.items[k].local => q[k] = m.items[k])
  <2>1. DOMAIN q = DOMAIN m.items
    OBVIOUS
  <2>2. ASSUME NEW k \in DOMAIN m.items
        PROVE  /\ q[k] \in ItemRec /\ q[k].id = m.items[k].id /\ q[k].name = m.items[k].name
               /\ q[k].nr = m.items[k].nr /\ q[k].local = m.items[k].local
               /\ q[k].state = m.items[k].state /\ (m.items[k].local => q[k] = m.items[k])
    <3> DEFINE i == m.items[k]
               j == [i EXCEPT !.asked = 0]
    <3>1. i \in ItemRec
      BY <1>3
    <3>2. q[k] = IF i.local THEN i ELSE j
      OBVIOUS
    <3> HIDE DEF i, q
    <3>3. /\ j \in ItemRec /\ j.id = i.id /\ j.name = i.name /\ j.nr = i.nr /\ j.local = i.local
          /\ j.state = i.state
      BY <1>5, <3>1
    <3> HIDE DEF j
    <3>4. QED BY <3>1, <3>2, <3>3 DEF i
  <2> HIDE DEF q
  <2>3. QED BY <2>1, <2>2
<1>7. q \in Seq(ItemRec)
  <2>1. q = [k \in DOMAIN m.items |-> q[k]]
    OBVIOUS
  <2>2. \A k \in DOMAIN m.items : q[k] \in ItemRec
    BY <1>6
  <2>3. DOMAIN m.items = 1..Len(m.items) /\ Len(m.items) \in Nat
    BY <1>3
  <2> HIDE DEF q
  <2>4. QED BY <2>1, <2>2, <2>3
<1> HIDE DEF q
<1>8. /\ IsMonitor(r) /\ r.items = q /\ r.table = m.table /\ r.asked = 0
      /\ r.clients = m.clients /\ r.ident = m.ident /\ r.known = m.known /\ r.out = m.out
  BY <1>1 DEF IsMonitor, Fields
<1> HIDE DEF r
<1>9. Typed(r, own)
  BY <1>1, <1>4, <1>7, <1>8 DEF Typed
<1>10. /\ \A k \in DOMAIN m.items : q[k] \in Range(r.items)
       /\ \A j \in Range(r.items) : \E k \in DOMAIN m.items : q[k] = j
  <2>1. /\ \A k \in DOMAIN r.items : r.items[k] \in Range(r.items)
        /\ \A j \in Range(r.items) : \E k \in DOMAIN r.items : r.items[k] = j
    BY <1>9, ItemsAre
  <2>2. QED BY <1>6, <1>8, <2>1
<1>11. \A j \in Range(r.items) : \E h \in Range(m.items) :
         /\ h.id = j.id /\ h.name = j.name /\ h.local = j.local /\ h.nr = j.nr /\ h.state = j.state
  <2> SUFFICES ASSUME NEW j \in Range(r.items)
               PROVE  \E h \in Range(m.items) :
                        /\ h.id = j.id /\ h.name = j.name /\ h.local = j.local /\ h.nr = j.nr
                        /\ h.state = j.state
    OBVIOUS
  <2>1. PICK k \in DOMAIN m.items : q[k] = j
    BY <1>10
  <2>2. QED BY <1>3, <1>6, <2>1
<1>12. \A i \in Range(m.items) : \E j \in Range(r.items) : j.id = i.id /\ (i.local => j = i)
  <2> SUFFICES ASSUME NEW i \in Range(m.items)
               PROVE  \E j \in Range(r.items) : j.id = i.id /\ (i.local => j = i)
    OBVIOUS
  <2>1. PICK k \in DOMAIN m.items : m.items[k] = i
    BY <1>3
  <2>2. QED BY <1>6, <1>10, <2>1
<1>13. \A i \in Range(m.items) : i.local => i \in Range(r.items)
  BY <1>12
<1>14. Items(r, own)
  <2>1. \A k, l \in DOMAIN r.items : r.items[k].id = r.items[l].id => k = l
    BY <1>1, <1>6, <1>8 DEF Items
  <2>2. \A j \in Range(r.items) : IF j.local THEN j.name \in own /\ r.ident[j.name].item = j.id
                                  ELSE j.state \in {"ClaimedAddress", "AddressLost"}
    <3> SUFFICES ASSUME NEW j \in Range(r.items)
                 PROVE  /\ j.local => j.name \in own /\ r.ident[j.name].item = j.id
                        /\ ~j.local => j.state \in {"ClaimedAddress", "AddressLost"}
      OBVIOUS
    <3>1. PICK h \in Range(m.items) :
            h.id = j.id /\ h.name = j.name /\ h.local = j.local /\ h.state = j.state
      BY <1>11
    <3>2. /\ h.local => h.name \in own /\ m.ident[h.name].item = h.id
          /\ ~h.local => h.state \in {"ClaimedAddress", "AddressLost"}
      BY <1>1 DEF Items
    <3>3. QED BY <1>8, <3>1, <3>2
  <2>3. ASSUME NEW n \in own
        PROVE  /\ Running(r, n) => \E j \in Range(r.items) : j.local /\ j.name = n
               /\ ~Running(r, n) => r.ident[n].item = NoId
               /\ Running(r, n) => n \in Range(r.clients)
    <3>1. Running(r, n) <=> Running(m, n)
      BY <1>8 DEF Running
    <3>2. /\ Running(m, n) => \E j \in Range(m.items) : j.local /\ j.name = n
          /\ ~Running(m, n) => m.ident[n].item = NoId
          /\ Running(m, n) => n \in Range(m.clients)
      BY <1>1 DEF Items
    <3>3. QED BY <1>8, <1>13, <3>1, <3>2
  <2>4. QED BY <2>1, <2>2, <2>3 DEF Items
<1>15. ASSUME alone PROVE Known(r, own)
  <2>1. Known(m, own)
    BY <1>1, <1>15
  <2>2. \A j \in Range(r.items) : Waiting(j) \/ r.known[j.name] = j.nr
    <3> SUFFICES ASSUME NEW j \in Range(r.items) PROVE Waiting(j) \/ r.known[j.name] = j.nr
      OBVIOUS
    <3>1. PICK h \in Range(m.items) :
            h.name = j.name /\ h.local = j.local /\ h.nr = j.nr /\ h.state = j.state
      BY <1>11
    <3>2. Waiting(h) \/ m.known[h.name] = h.nr
      BY <2>1 DEF Known
    <3>3. QED BY <1>8, <3>1, <3>2 DEF Waiting
  <2>3. \A j \in Range(r.items) : \E h \in Range(m.items) :
           h.id = j.id /\ h.name = j.name /\ h.local = j.local
    BY <1>11
  <2>4. \A h \in Range(m.items) : \E j \in Range(r.items) : h.id = j.id
    BY <1>12
  <2>5. \A n \in Name : r.known[n] # NotListed =>
          m.known[n] # NotListed \/ \E j \in Range(m.items) : j.name = n
    BY <1>8
  <2>6. QED BY <1>1, <1>9, <1>14, <2>1, <2>2, <2>3, <2>4, <2>5, KnownAgain
<1>16. SameNames(m, r)
  BY <1>11 DEF SameNames
<1>17. QED BY <1>2, <1>8, <1>9, <1>13, <1>14, <1>15, <1>16 DEF Good

\* A request is sent to everybody, and answered by the own nodes themselves.
LEMMA RequestAllGood ==
  ASSUME NEW own, NEW alone, NEW m, Good(m, own, alone), NEW sender,
         sender \in ItemRec \/ sender = NoItem
  PROVE  LET r == SendRequest(m, sender, NoItem)
         IN  /\ Good(r, own, alone) /\ r.clients = m.clients /\ r.ident = m.ident
             /\ \A i \in Range(m.items) : i.local => i \in Range(r.items)
             /\ SameNames(m, r)
<1> DEFINE msgs == IF sender = NoItem \/ sender.state = "ClaimedAddress"
                   THEN <<Request(sender.nr, Global)>> ELSE <<>>
           has == {n \in DOMAIN m.ident : Item(m, m.ident[n].item) # NoItem}
           clients == Selected(m.clients, has)
           items == [k \in DOMAIN clients |-> Item(m, m.ident[clients[k]].item)]
           done == Sent(m, msgs)
           last == SetLastIsoSaRequest(done)
<1>1. SendRequest(m, sender, NoItem) = SendSaClaims(last, items)
  BY DEF SendRequest
<1>2. Typed(m, own) /\ Items(m, own) /\ DOMAIN m.ident = own /\ m.clients \in Seq(own)
  BY DEF Good, Typed
<1>3. msgs \in Seq(OwnMessage(own))
  <2>1. sender.nr \in AnyAddr
    BY ItemFields, NoItemFields DEF AnyAddr
  <2>2. Request(sender.nr, Global) \in OwnMessage(own)
    BY <2>1 DEF Request, OwnMessage
  <2>3. QED BY <2>2
<1> HIDE DEF msgs
<1>4. Good(done, own, alone) /\ KeepsList(m, done)
  BY <1>3, SentIs
<1> HIDE DEF done
<1>5. /\ Good(last, own, alone) /\ last.clients = m.clients /\ last.ident = m.ident
      /\ \A i \in Range(m.items) : i.local => i \in Range(last.items)
      /\ SameNames(done, last)
  BY <1>4, SetLastGood DEF KeepsList
<1>6. SameNames(m, last)
  BY <1>4, <1>5 DEF SameNames, KeepsList
<1> HIDE DEF last
<1>7. clients \in Seq(own) /\ Range(clients) \subseteq has
  <2> HIDE DEF has
  <2>1. QED BY <1>2, SelectedIs
<1> HIDE DEF clients
<1>8. DOMAIN clients = 1..Len(clients) /\ Len(clients) \in Nat
  BY <1>7
<1>9. ASSUME NEW k \in DOMAIN clients
      PROVE  /\ Item(m, m.ident[clients[k]].item) \in ItemRec
             /\ Item(m, m.ident[clients[k]].item).name \in own
  <2> DEFINE n == clients[k]
             i == Item(m, m.ident[n].item)
  <2>1. n \in own /\ i # NoItem
    BY <1>7 DEF Range
  <2>2. i \in Range(m.items) /\ i.name = n
    <3> HIDE DEF n
    <3>1. QED BY <1>2, <2>1, OwnItem
  <2> HIDE DEF i, n
  <2>3. i \in ItemRec /\ i.name \in own
    BY <1>2, <2>1, <2>2, ItemsAre
  <2>4. QED BY <2>3 DEF i, n
<1>10. items \in Seq(ItemRec) /\ \A i \in Range(items) : i.name \in own
  <2>1. items \in Seq(ItemRec)
    BY <1>8, <1>9
  <2>2. \A i \in Range(items) : \E k \in DOMAIN clients : i = Item(m, m.ident[clients[k]].item)
    BY DEF Range
  <2> HIDE DEF items
  <2>3. QED BY <1>9, <2>1, <2>2
<1> HIDE DEF items
<1> DEFINE r == SendSaClaims(last, items)
<1>11. Good(r, own, alone) /\ KeepsList(last, r)
  BY <1>5, <1>10, ClaimsGood
<1> HIDE DEF r
<1>12. /\ r.clients = m.clients /\ r.ident = m.ident
       /\ (\A i \in Range(m.items) : i.local => i \in Range(r.items)) /\ SameNames(m, r)
  BY <1>5, <1>6, <1>11 DEF KeepsList, SameNames
<1>13. QED BY <1>1, <1>11, <1>12 DEF r

-----------------------------------------------------------------------------
(* What happens to one item.                                               *)

\* i may stand for the item of its id: as it is, or with other times and marks.
Stands(m, i, alone) ==
  /\ i \in ItemRec /\ Fits(m, i) /\ \E j \in Range(m.items) : j.id = i.id
  /\ ~i.local => i.state \in {"ClaimedAddress", "AddressLost"}
  /\ alone => Waiting(i) \/ m.known[i.name] = i.nr

\* r is m, with all that Good says, where only the item with the id id differs.
Changed(own, alone, m, r, id) ==
  Good(r, own, alone) /\ r.clients = m.clients /\ OthersStay(m, r, id) /\ SameNames(m, r)

\* An item of the list may stand for itself.
LEMMA ListedStands ==
  ASSUME NEW own, NEW alone, NEW m, Good(m, own, alone), NEW i \in Range(m.items)
  PROVE  Stands(m, i, alone) /\ (i.local => i.name \in own)
<1>1. Typed(m, own) /\ Items(m, own) /\ (alone => Known(m, own))
  BY DEF Good
<1>2. i \in ItemRec
  BY <1>1, ItemsAre
<1>3. Fits(m, i)
  BY <1>1, IdsDiffer DEF Fits
<1>4. (i.local => i.name \in own) /\ (~i.local => i.state \in {"ClaimedAddress", "AddressLost"})
  BY <1>1 DEF Items
<1>5. alone => Waiting(i) \/ m.known[i.name] = i.nr
  BY <1>1 DEF Known
<1>6. QED BY <1>2, <1>3, <1>4, <1>5 DEF Stands

\* Where the list and what the handlers know stay.
LEMMA StillStands ==
  ASSUME NEW m, NEW r, NEW alone, KeepsList(m, r), NEW i, Stands(m, i, alone)
  PROVE  Stands(r, i, alone)
BY DEF Stands, Fits, KeepsList

\* What is found by an id has an address or none.
LEMMA FoundTyped ==
  ASSUME NEW own, NEW alone, NEW m, Good(m, own, alone), NEW id
  PROVE  Item(m, id).nr \in AnyAddr /\ Item(m, id).id \in Nat
<1>1. Typed(m, own) /\ Items(m, own)
  BY DEF Good
<1>2. Item(m, id) = NoItem \/ Item(m, id) \in Range(m.items)
  BY <1>1, ItemIs
<1>3. Item(m, id) \in Range(m.items) => Item(m, id) \in ItemRec
  BY <1>1, ItemsAre
<1>4. NoAddress \in AnyAddr /\ NoId \in Nat
  BY ConstantsAre DEF AnyAddr
<1>5. QED BY <1>2, <1>3, <1>4, ItemFields, NoItemFields

\* An item is replaced by one that may stand for it.
LEMMA WithStands ==
  ASSUME NEW own, NEW alone, NEW m, Good(m, own, alone), NEW i, Stands(m, i, alone)
  PROVE  LET r == With(m, i)
         IN  /\ Changed(own, alone, m, r, i.id) /\ i \in Range(r.items)
             /\ r.ident = m.ident /\ r.known = m.known
<1> DEFINE r == With(m, i)
<1>1. /\ i \in ItemRec /\ Fits(m, i) /\ \E j \in Range(m.items) : j.id = i.id
      /\ ~i.local => i.state \in {"ClaimedAddress", "AddressLost"}
      /\ alone => Waiting(i) \/ m.known[i.name] = i.nr
  BY DEF Stands
<1>2. /\ Good(r, own, alone) /\ r.ident = m.ident /\ r.known = m.known /\ r.clients = m.clients
      /\ OthersStay(m, r, i.id)
      /\ \A j \in Range(r.items) : j = i \/ (j \in Range(m.items) /\ j.id # i.id)
      /\ \A j \in Range(m.items) : j.id = i.id => i \in Range(r.items)
  BY <1>1, WithGood
<1> HIDE DEF r
<1>3. SameNames(m, r)
  BY <1>1, <1>2 DEF SameNames, Fits
<1>4. QED BY <1>1, <1>2, <1>3 DEF Changed, r

\* A request is sent to one node.
LEMMA RequestToGood ==
  ASSUME NEW own, NEW alone, NEW m, Good(m, own, alone), NEW sender,
         sender \in ItemRec \/ sender = NoItem, NEW receiver, Stands(m, receiver, alone)
  PROVE  LET r == SendRequest(m, sender, receiver)
         IN  Changed(own, alone, m, r, receiver.id) /\ r.ident = m.ident
<1> DEFINE msgs == IF (sender = NoItem \/ sender.state = "ClaimedAddress")
                        /\ (receiver = NoItem \/ receiver.state = "ClaimedAddress")
                   THEN <<Request(sender.nr, receiver.nr)>> ELSE <<>>
           done == Sent(m, msgs)
           new == [receiver EXCEPT !.asked = 0]
           r == With(done, new)
<1>1. receiver \in ItemRec /\ receiver # NoItem
  BY ItemFields DEF Stands
<1>2. SendRequest(m, sender, receiver) = r
  BY <1>1 DEF SendRequest
<1>3. msgs \in Seq(OwnMessage(own))
  <2>1. sender.nr \in AnyAddr /\ receiver.nr \in AnyAddr
    BY <1>1, ItemFields, NoItemFields DEF AnyAddr
  <2>2. Request(sender.nr, receiver.nr) \in OwnMessage(own)
    BY <2>1 DEF Request, OwnMessage
  <2>3. QED BY <2>2
<1> HIDE DEF msgs
<1>4. Good(done, own, alone) /\ KeepsList(m, done)
  BY <1>3, SentIs
<1> HIDE DEF done
<1>5. Stands(done, receiver, alone)
  BY <1>4, StillStands
<1>6. 0 \in Never..MaxAge
  BY ConstantsAre
<1>7. /\ new \in ItemRec /\ new.id = receiver.id /\ new.name = receiver.name /\ new.nr = receiver.nr
      /\ new.local = receiver.local /\ new.state = receiver.state
  BY <1>1, <1>6 DEF ItemRec
<1> HIDE DEF new
<1>8. Stands(done, new, alone)
  BY <1>5, <1>7 DEF Stands, Fits, Waiting
<1>9. Changed(own, alone, done, r, new.id) /\ r.ident = done.ident
  BY <1>4, <1>8, WithStands
<1> HIDE DEF r
<1>10. Changed(own, alone, m, r, receiver.id) /\ r.ident = m.ident
  BY <1>4, <1>7, <1>9 DEF Changed, KeepsList, OthersStay, SameNames
<1>11. QED BY <1>2, <1>10

\* An item gets another address, which is broadcast.
LEMMA ChangeGood ==
  ASSUME NEW own, NEW alone, NEW m, Good(m, own, alone), NEW i, Stands(m, i, alone), NEW nr \in AnyAddr
  PROVE  LET r == ChangeAddress(m, i, nr)
             new == WithAddress(i, nr)
         IN  /\ Changed(own, alone, m, r, i.id) /\ r.ident = m.ident
             /\ new \in Range(r.items) /\ new.id = i.id /\ new.name = i.name /\ new.nr = nr
             /\ new.local = i.local
             /\ nr # i.nr => r.known[i.name] = nr
<1> DEFINE new == WithAddress(i, nr)
           action == ChangeOfAddress(i.nr < NoAddress, nr < NoAddress)
           moved == With(m, new)
           told == Announce(moved, action, new)
           r == ChangeAddress(m, i, nr)
<1>1. r = IF nr = i.nr THEN moved ELSE told
  BY DEF ChangeAddress
<1>2. action \in {"LostAddress", "ReclaimedAddress", "ChangedAddress"}
  BY DEF ChangeOfAddress
<1>3. nr = i.nr => action = "ChangedAddress"
  BY DEF ChangeOfAddress
<1>4. i \in ItemRec
  BY DEF Stands
<1>5. /\ new \in ItemRec /\ new.id = i.id /\ new.name = i.name /\ new.nr = nr /\ new.local = i.local
      /\ new.state = IF action = "LostAddress" THEN "AddressLost"
                     ELSE IF action = "ReclaimedAddress" THEN "ClaimedAddress" ELSE i.state
  <2> DEFINE turned == action # "ChangedAddress"
             state == IF action = "LostAddress" THEN "AddressLost"
                      ELSE IF action = "ReclaimedAddress" THEN "ClaimedAddress" ELSE i.state
  <2>1. new = [i EXCEPT !.nr = nr, !.state = state, !.off = @ /\ ~turned, !.doubted = @ /\ ~turned]
    BY DEF WithAddress
  <2>2. state \in ItemState
    BY <1>4, ItemFields DEF ItemState
  <2>3. turned \in BOOLEAN /\ i.off \in BOOLEAN /\ i.doubted \in BOOLEAN
    BY <1>4, ItemFields
  <2> HIDE DEF state, turned, action, new
  <2>4. QED BY <1>4, <2>1, <2>2, <2>3, ZenonT(40) DEF ItemRec, state
<1> HIDE DEF new, action
<1>6. Fits(m, new) /\ (\E j \in Range(m.items) : j.id = new.id)
  BY <1>5 DEF Stands, Fits
<1>7. ~new.local => new.state \in {"ClaimedAddress", "AddressLost"}
  BY <1>5 DEF Stands
<1>8. CASE nr = i.nr
  <2>1. new.state = i.state
    BY <1>3, <1>5, <1>8
  <2>2. Stands(m, new, alone)
    BY <1>5, <1>6, <1>7, <1>8, <2>1 DEF Stands, Waiting
  <2>3. Changed(own, alone, m, moved, new.id) /\ moved.ident = m.ident /\ new \in Range(moved.items)
    BY <2>2, WithStands
  <2>4. r = moved
    BY <1>1, <1>8
  <2> HIDE DEF r, moved
  <2>5. QED BY <1>5, <1>8, <2>3, <2>4 DEF r, new
<1>9. CASE nr # i.nr
  <2>1. action # "RemoveFromMonitorList"
    BY <1>2
  <2>2. /\ Good(told, own, alone) /\ told.ident = m.ident /\ told.clients = m.clients
        /\ OthersStay(m, told, new.id) /\ new \in Range(told.items) /\ told.known[new.name] = new.nr
        /\ \A j \in Range(told.items) : j = new \/ (j \in Range(m.items) /\ j.id # new.id)
    <3>1. new \in ItemRec
      BY <1>5
    <3> HIDE DEF Stands
    <3>2. Good(told, own, alone) /\ told.ident = m.ident /\ told.clients = m.clients
      BY <1>6, <1>7, <2>1, <3>1, AnnouncedGood
    <3>3. OthersStay(m, told, new.id) /\ new \in Range(told.items)
      BY <1>6, <1>7, <2>1, <3>1, AnnouncedGood
    <3>4. told.known[new.name] = new.nr
      BY <1>6, <1>7, <2>1, <3>1, AnnouncedGood
    <3>5. \A j \in Range(told.items) : j = new \/ (j \in Range(m.items) /\ j.id # new.id)
      BY <1>6, <1>7, <2>1, <3>1, AnnouncedGood
    <3> HIDE DEF told
    <3>6. QED BY <3>2, <3>3, <3>4, <3>5
  <2>3. r = told
    BY <1>1, <1>9
  <2> HIDE DEF r, told
  <2>4. SameNames(m, told)
    BY <1>5, <1>6, <2>2 DEF SameNames, Fits
  <2>5. QED BY <1>5, <2>2, <2>3, <2>4 DEF r, new, Changed
<1>10. QED BY <1>8, <1>9

\* An own item is claimed for.
LEMMA ClaimGood ==
  ASSUME NEW own, NEW alone, NEW m, Good(m, own, alone), NEW i \in Range(m.items), i.local,
         NEW conflict, alone /\ conflict /\ i.nr # NoAddress => m.known[i.name] = i.nr
  PROVE  LET r == SendAddressClaim(m, i.id, conflict)
         IN  Changed(own, alone, m, r, i.id) /\ r.ident = m.ident
<1> DEFINE state == IF i.nr = NoAddress THEN (IF i.state = "PreAddressClaim" THEN "Off" ELSE i.state)
                    ELSE IF conflict THEN "ClaimedAddress" ELSE "AddressClaim"
           new == [i EXCEPT !.state = state, !.off = (i.nr = NoAddress), !.since = 0]
           w == With(m, new)
           r == Sent(w, <<Claim(new)>>)
<1>1. Typed(m, own) /\ Items(m, own)
  BY DEF Good
<1>2. Item(m, i.id) = i
  BY <1>1, ItemIs
<1>3. SendAddressClaim(m, i.id, conflict) = r
  BY <1>2 DEF SendAddressClaim
<1>4. Stands(m, i, alone) /\ i.name \in own
  BY ListedStands
<1>5. i \in ItemRec /\ i.state \in ItemState /\ i.nr \in AnyAddr
  BY <1>4, ItemFields DEF Stands
<1>6. state \in ItemState
  BY <1>5 DEF ItemState
<1>7. alone => state \in {"PreAddressClaim", "AddressClaim", "Off"} \/ m.known[i.name] = i.nr
  BY <1>4 DEF Stands, Waiting
<1> HIDE DEF state
<1>8. 0 \in 0..ClaimWait
  BY ConstantsAre
<1>9. /\ new \in ItemRec /\ new.id = i.id /\ new.name = i.name /\ new.nr = i.nr
      /\ new.local = i.local /\ new.state = state
  BY <1>5, <1>6, <1>8 DEF ItemRec
<1> HIDE DEF new
<1>10. Stands(m, new, alone)
  BY <1>4, <1>7, <1>9 DEF Stands, Fits, Waiting
<1>11. Changed(own, alone, m, w, new.id) /\ w.ident = m.ident
  BY <1>10, WithStands
<1> HIDE DEF w
<1>12. Claim(new) \in OwnMessage(own)
  BY <1>4, <1>5, <1>9 DEF Claim, OwnMessage
<1>13. Good(w, own, alone) /\ <<Claim(new)>> \in Seq(OwnMessage(own))
  BY <1>11, <1>12 DEF Changed
<1>14. Good(r, own, alone) /\ KeepsList(w, r)
  BY <1>13, SentIs
<1> HIDE DEF r
<1>15. Changed(own, alone, m, r, i.id) /\ r.ident = m.ident
  BY <1>9, <1>11, <1>14 DEF Changed, KeepsList, OthersStay, SameNames
<1>16. QED BY <1>3, <1>15

\* An item hears the claim of its address by itself or by a weaker node.
LEMMA ClaimedGood ==
  ASSUME NEW own, NEW alone, NEW m, Good(m, own, alone), NEW i \in Range(m.items), NEW sa \in AnyAddr
  PROVE  LET r == ProcessAddressClaimed(m, i, sa)
         IN  Changed(own, alone, m, r, i.id)
<1> DEFINE r == ProcessAddressClaimed(m, i, sa)
<1>1. Stands(m, i, alone) /\ i \in ItemRec /\ (i.local => i.name \in own)
  BY ListedStands DEF Stands
<1>2. CASE i.local
  <2> DEFINE new == [i EXCEPT !.since = 0]
             w == With(m, new)
             s == Sent(w, <<Claim(i)>>)
  <2>1. r = s
    BY <1>2 DEF ProcessAddressClaimed
  <2>2. 0 \in 0..ClaimWait
    BY ConstantsAre
  <2>3. /\ new \in ItemRec /\ new.id = i.id /\ new.name = i.name /\ new.nr = i.nr
        /\ new.local = i.local /\ new.state = i.state
    BY <1>1, <2>2 DEF ItemRec
  <2> HIDE DEF new
  <2>4. Stands(m, new, alone)
    BY <1>1, <2>3 DEF Stands, Fits, Waiting
  <2>5. Changed(own, alone, m, w, new.id)
    BY <2>4, WithStands
  <2> HIDE DEF w
  <2>6. i.nr \in AnyAddr
    BY <1>1, ItemFields
  <2>7. Claim(i) \in OwnMessage(own)
    BY <1>1, <1>2, <2>6 DEF Claim, OwnMessage
  <2>8. Good(w, own, alone) /\ <<Claim(i)>> \in Seq(OwnMessage(own))
    BY <2>5, <2>7 DEF Changed
  <2>9. Good(s, own, alone) /\ KeepsList(w, s)
    BY <2>8, SentIs
  <2> HIDE DEF r, s
  <2>10. Changed(own, alone, m, s, i.id)
    BY <2>3, <2>5, <2>9 DEF Changed, KeepsList, OthersStay, SameNames
  <2>11. QED BY <2>1, <2>10 DEF r
<1>3. CASE ~i.local
  <2> DEFINE new == [i EXCEPT !.doubted = FALSE, !.asked = Never]
             s == ChangeAddress(m, new, sa)
  <2>1. r = s
    BY <1>3 DEF ProcessAddressClaimed
  <2>2. Never \in Never..MaxAge
    BY ConstantsAre
  <2>3. /\ new \in ItemRec /\ new.id = i.id /\ new.name = i.name /\ new.nr = i.nr
        /\ new.local = i.local /\ new.state = i.state
    BY <1>1, <2>2 DEF ItemRec
  <2> HIDE DEF new
  <2>4. Stands(m, new, alone)
    BY <1>1, <2>3 DEF Stands, Fits, Waiting
  <2>5. Changed(own, alone, m, s, new.id)
    BY <2>4, ChangeGood
  <2> HIDE DEF r, s
  <2>6. QED BY <2>1, <2>3, <2>5 DEF r
<1>4. QED BY <1>2, <1>3

\* An item other than the changed one may still stand for itself.
LEMMA OtherStays ==
  ASSUME NEW own, NEW alone, NEW m, NEW r, NEW id, Changed(own, alone, m, r, id),
         NEW j \in Range(m.items), j.id # id
  PROVE  j \in Range(r.items) /\ Good(r, own, alone) /\ Stands(r, j, alone)
<1>1. j \in Range(r.items) /\ Good(r, own, alone)
  BY DEF Changed, OthersStay
<1>2. QED BY <1>1, ListedStands

\* A change after another.
LEMMA ChangedTwice ==
  ASSUME NEW own, NEW alone, NEW m, NEW r, NEW s, NEW id, Changed(own, alone, m, r, id),
         Changed(own, alone, r, s, id)
  PROVE  Changed(own, alone, m, s, id)
<1>1. OthersStay(m, s, id)
  BY DEF Changed, OthersStay
<1>2. SameNames(m, s)
  BY DEF Changed, SameNames
<1>3. QED BY <1>1, <1>2 DEF Changed

\* An own item is driven from its address.
LEMMA EvictGood ==
  ASSUME NEW own, NEW alone, NEW m, Good(m, own, alone), NEW i \in Range(m.items), i.local
  PROVE  Changed(own, alone, m, Evict(m, i), i.id)
<1> DEFINE nr == UnifyIsoSa(m, i, TRUE)
           new == [i EXCEPT !.nr = nr]
           renamed == With(m, new)
           changed == ChangeAddress(m, i, nr)
           first == SendAddressClaim(renamed, i.id, FALSE)
           second == SendAddressClaim(changed, i.id, TRUE)
           moved == IF i.state = "AddressClaim" THEN first ELSE second
           away == GoOffline(moved, i.name, "OffUnable")
           there == InTable(moved, Item(moved, i.id))
           r == Evict(m, i)
<1>1. r = IF nr = NoAddress THEN away ELSE there
  BY DEF Evict
<1>2. Stands(m, i, alone) /\ i \in ItemRec /\ i.name \in own
  BY ListedStands DEF Stands
<1>3. i.nr \in AnyAddr /\ i.nr \in Nat
  BY <1>2, ItemFields, ConstantsAre
<1>4. nr \in AnyAddr
  BY <1>3, SearchTyped
<1>5. nr # NoAddress => nr # i.nr
  <2>1. nr # NoAddress => IsAddressFree(m, i, nr, TRUE)
    BY <1>3, Searched
  <2>2. \E k \in DOMAIN m.items : m.items[k] = i
    BY DEF Range
  <2> HIDE DEF nr
  <2>3. QED BY <2>1, <2>2 DEF IsAddressFree
<1> HIDE DEF nr
<1>6. ASSUME i.state = "AddressClaim" PROVE Changed(own, alone, m, first, i.id)
  <2>1. /\ new \in ItemRec /\ new.id = i.id /\ new.name = i.name
        /\ new.local = i.local /\ new.state = i.state
    BY <1>2, <1>4 DEF ItemRec
  <2> HIDE DEF new
  <2>2. Stands(m, new, alone)
    BY <1>2, <1>6, <2>1 DEF Stands, Fits, Waiting
  <2>3. Changed(own, alone, m, renamed, i.id) /\ new \in Range(renamed.items)
    BY <2>1, <2>2, WithStands
  <2> HIDE DEF renamed
  <2>4. Good(renamed, own, alone)
    BY <2>3 DEF Changed
  <2>5. new.local /\ new.id = i.id
    BY <2>1
  <2>6. Changed(own, alone, renamed, SendAddressClaim(renamed, new.id, FALSE), new.id)
    BY <2>3, <2>4, <2>5, ClaimGood
  <2>7. Changed(own, alone, renamed, first, i.id)
    BY <2>5, <2>6
  <2> HIDE DEF first
  <2>8. QED BY <2>3, <2>7, ChangedTwice
<1>7. Changed(own, alone, m, second, i.id)
  <2> DEFINE w == WithAddress(i, nr)
  <2>1. /\ Changed(own, alone, m, changed, i.id)
        /\ w \in Range(changed.items) /\ w.id = i.id /\ w.name = i.name /\ w.nr = nr
        /\ w.local = i.local
        /\ nr # i.nr => changed.known[i.name] = nr
    <3>1. Stands(m, i, alone)
      BY <1>2
    <3>2. Changed(own, alone, m, changed, i.id)
      BY <1>4, <3>1, ChangeGood
    <3>3. w \in Range(changed.items) /\ w.id = i.id /\ w.name = i.name /\ w.nr = nr
      BY <1>4, <3>1, ChangeGood
    <3>4. w.local = i.local
      BY <1>2 DEF WithAddress, ItemRec
    <3>5. nr # i.nr => changed.known[i.name] = nr
      BY <1>4, <3>1, ChangeGood
    <3> HIDE DEF changed, w
    <3>6. QED BY <3>2, <3>3, <3>4, <3>5
  <2> HIDE DEF changed, w
  <2>2. Good(changed, own, alone)
    BY <2>1 DEF Changed
  <2>3. w.local /\ (w.nr # NoAddress => changed.known[w.name] = w.nr)
    BY <1>5, <2>1
  <2>4. Changed(own, alone, changed, SendAddressClaim(changed, w.id, TRUE), w.id)
    BY <2>1, <2>2, <2>3, ClaimGood
  <2>5. Changed(own, alone, changed, second, i.id)
    BY <2>1, <2>4
  <2> HIDE DEF second
  <2>6. QED BY <2>1, <2>5, ChangedTwice
<1> HIDE DEF first, second
<1>8. Changed(own, alone, m, moved, i.id)
  BY <1>6, <1>7
<1> HIDE DEF moved
<1>9. Good(moved, own, alone)
  BY <1>8 DEF Changed
<1>10. Changed(own, alone, moved, there, i.id)
  <2> DEFINE x == Item(moved, i.id)
  <2>1. x.nr \in AnyAddr /\ x.id \in Nat
    BY <1>9, FoundTyped
  <2>2. there = InTable(moved, x)
    OBVIOUS
  <2> HIDE DEF x
  <2>3. Good(there, own, alone) /\ KeepsList(moved, there)
    BY <1>9, <2>1, <2>2, TableIs
  <2> HIDE DEF there
  <2>4. QED BY <2>3 DEF Changed, KeepsList, OthersStay, SameNames
<1>11. Changed(own, alone, moved, away, i.id)
  <2>1. /\ Good(away, own, alone) /\ away.clients = moved.clients
        /\ Range(away.items) = {j \in Range(moved.items) : ~(j.local /\ j.name = i.name)}
    <3>1. "OffUnable" \in IdentState \ {"AddressClaim", "ClaimedAddress"}
      BY DEF IdentState
    <3>2. QED BY <1>2, <1>9, <3>1, GoOfflineGood
  <2> HIDE DEF away
  <2>2. \A j \in Range(moved.items) : j.local /\ j.name = i.name => j.id = i.id
    <3> SUFFICES ASSUME NEW j \in Range(moved.items), j.local, j.name = i.name PROVE j.id = i.id
      OBVIOUS
    <3>1. PICK h \in Range(m.items) : h.id = j.id /\ h.name = j.name /\ h.local = j.local
      BY <1>8 DEF Changed, SameNames
    <3>2. Typed(m, own) /\ Items(m, own)
      BY DEF Good
    <3>3. h = i
      <4> DEFINE n == i.name
      <4>1. n \in own
        BY <1>2
      <4>2. h.local /\ h.name = n /\ i.name = n
        BY <3>1
      <4> HIDE DEF n
      <4>3. \A k \in Range(m.items) : k.local /\ k.name = n => k = Item(m, m.ident[n].item)
        BY <3>2, <4>1, OwnItem
      <4>4. QED BY <4>2, <4>3
    <3>4. QED BY <3>1, <3>3
  <2>3. OthersStay(moved, away, i.id)
    BY <2>1, <2>2 DEF OthersStay
  <2>4. SameNames(moved, away)
    BY <2>1 DEF SameNames
  <2>5. QED BY <2>1, <2>3, <2>4 DEF Changed
<1> HIDE DEF there, away, r
<1>12. Changed(own, alone, moved, r, i.id)
  BY <1>1, <1>10, <1>11
<1>13. Changed(own, alone, m, r, i.id)
  BY <1>8, <1>12, ChangedTwice
<1>14. QED BY <1>13 DEF r

-----------------------------------------------------------------------------
(* Handlers.                                                               *)

\* What InsertForeignGood needs of the NAMEs stays.
LEMMA NameStaysNew ==
  ASSUME NEW m, NEW r, SameNames(m, r), NEW name, \A i \in Range(m.items) : i.name # name
  PROVE  \A i \in Range(r.items) : i.name # name
BY DEF SameNames

\* The claim of a node, whatever it meets.
LEMMA AddressClaimGood ==
  ASSUME NEW own, NEW alone, NEW m, Good(m, own, alone), NEW name \in Name, NEW sa \in AnyAddr,
         alone => name \notin own
  PROVE  LET r == ProcessAddressClaim(m, name, sa)
         IN  Good(r, own, alone)
<1> DEFINE named == ItemOfName(m, name)
           same == IF named.state = "PreAddressClaim" THEN NoItem ELSE named
           at == ItemAt(m, sa)
           there == IF at.state \in {"PreAddressClaim", "AddressLost"} THEN NoItem ELSE at
           Claims(k) == InsertIsoMember(k, NewItem(name, sa, "ClaimedAddress", FALSE), TRUE)
           Takes(k) == ProcessAddressClaimed(k, same, sa)
           TakesTable(k) == InTable(Takes(k), Item(Takes(k), same.id))
           stronger == Stronger(name, there)
           heard == ProcessAddressClaimed(m, there, sa)
           given == GiveUpAddress(m, there)
           freed == OutOfTable(heard, same)
           e1 == Claims(m)
           e2 == Claims(given)
           e3 == Claims(Evict(m, there))
           e4 == InsertIsoMember(heard, NewItem(name, NoAddress, "AddressLost", FALSE), TRUE)
           e5 == Claims(GoOffline(m, name, "OffUnable"))
           e6 == TakesTable(OutOfTable(m, same))
           e7 == Takes(m)
           e8 == TakesTable(Evict(m, there))
           e9 == GiveUpAddress(freed, same)
           e10 == TakesTable(given)
           r == ProcessAddressClaim(m, name, sa)
<1>1. r = CASE same = NoItem /\ there = NoItem -> e1
            [] same = NoItem /\ there # NoItem /\ ~there.local -> e2
            [] same = NoItem /\ there.local /\ stronger -> e3
            [] same = NoItem /\ there.local /\ ~stronger -> e4
            [] same.local -> e5
            [] same # NoItem /\ ~same.local /\ there = NoItem -> e6
            [] same # NoItem /\ ~same.local /\ there = same -> e7
            [] same # NoItem /\ ~same.local /\ there.local /\ stronger -> e8
            [] same # NoItem /\ ~same.local /\ there.local /\ ~stronger -> e9
            [] same # NoItem /\ ~same.local /\ there # NoItem /\ ~there.local /\ there # same -> e10
  BY DEF ProcessAddressClaim
<1>2. Typed(m, own) /\ Items(m, own) /\ (alone => Known(m, own))
  BY DEF Good
<1>3. ~NoItem.local
  BY NoItemFields
<1>4. \/ named = NoItem /\ \A i \in Range(m.items) : i.name # name
      \/ named \in Range(m.items) /\ named.name = name
  BY <1>2, ItemOfNameIs
<1>5. same # NoItem => same \in Range(m.items) /\ same.name = name
  BY <1>4
<1>6. there # NoItem => there \in Range(m.items)
  <2>1. at = NoItem \/ at \in Range(m.items)
    BY <1>2, ItemAtIs
  <2>2. QED BY <2>1
<1>7. \A i \in Range(m.items) : i \in ItemRec /\ (i.local => i.name \in own)
                                /\ (~i.local => i.state # "PreAddressClaim")
  BY <1>2, ItemsAre DEF Items
<1>8. alone /\ same = NoItem => \A i \in Range(m.items) : i.name # name
  BY <1>3, <1>4, <1>7, ItemFields
<1>9. same.local => name \in own
  BY <1>3, <1>5, <1>7
<1>10. ASSUME NEW k, Good(k, own, alone), alone => \A i \in Range(k.items) : i.name # name
       PROVE  Good(Claims(k), own, alone)
  <2>1. "ClaimedAddress" \in HeardStates
    BY DEF HeardStates
  <2>2. QED BY <1>10, <2>1, InsertForeignGood
<1>11. ASSUME NEW k, Good(k, own, alone), same \in Range(k.items)
       PROVE  Good(Takes(k), own, alone) /\ Good(TakesTable(k), own, alone)
  <2>1. Good(Takes(k), own, alone)
    <3> HIDE DEF same
    <3>1. Changed(own, alone, k, Takes(k), same.id)
      BY <1>11, ClaimedGood
    <3>2. QED BY <3>1 DEF Changed
  <2> DEFINE i == Item(Takes(k), same.id)
  <2>2. TakesTable(k) = InTable(Takes(k), i)
    OBVIOUS
  <2> HIDE DEF Takes, TakesTable
  <2>3. i.nr \in AnyAddr /\ i.id \in Nat
    BY <2>1, FoundTyped
  <2> HIDE DEF i
  <2>4. QED BY <2>1, <2>2, <2>3, TableIs
<1> HIDE DEF named, same, at, there, stronger
<1>12. there \in Range(m.items) => Changed(own, alone, m, heard, there.id)
  BY ClaimedGood
<1>13. there \in Range(m.items) => Changed(own, alone, m, given, there.id)
  <2>1. NoAddress \in AnyAddr
    BY DEF AnyAddr
  <2>2. there \in Range(m.items) => Stands(m, there, alone)
    BY ListedStands
  <2>3. QED BY <2>1, <2>2, ChangeGood DEF GiveUpAddress
<1>14. there \in Range(m.items) /\ there.local => Changed(own, alone, m, Evict(m, there), there.id)
  BY EvictGood
<1>15. same \in Range(m.items) /\ there \in Range(m.items) /\ same # there => same.id # there.id
  BY <1>2, IdsDiffer
<1> HIDE DEF Claims, Takes, TakesTable, heard, given
<1>16. same = NoItem /\ there = NoItem => Good(e1, own, alone)
  BY <1>8, <1>10
<1>17. same = NoItem /\ there # NoItem => Good(e2, own, alone)
  BY <1>6, <1>8, <1>10, <1>13, NameStaysNew DEF Changed
<1>18. same = NoItem /\ there.local => Good(e3, own, alone)
  BY <1>3, <1>6, <1>8, <1>10, <1>14, NameStaysNew DEF Changed
<1>19. ASSUME same = NoItem, there.local PROVE Good(e4, own, alone)
  <2>1. "AddressLost" \in HeardStates
    BY DEF HeardStates
  <2>2. NoAddress \in AnyAddr
    BY DEF AnyAddr
  <2>3. Good(heard, own, alone) /\ SameNames(m, heard)
    BY <1>3, <1>6, <1>12, <1>19 DEF Changed
  <2>4. alone => name \notin own /\ \A i \in Range(heard.items) : i.name # name
    BY <1>8, <1>19, <2>3, NameStaysNew
  <2>5. QED BY <2>1, <2>2, <2>3, <2>4, InsertForeignGood
<1>20. ASSUME same.local PROVE Good(e5, own, alone)
  <2>1. "OffUnable" \in IdentState \ {"AddressClaim", "ClaimedAddress"}
    BY DEF IdentState
  <2>2. Good(GoOffline(m, name, "OffUnable"), own, alone)
    BY <1>9, <1>20, <2>1, GoOfflineGood
  <2>3. ~alone
    BY <1>9, <1>20
  <2>4. QED BY <1>10, <2>2, <2>3
<1>21. same # NoItem => Good(e6, own, alone)
  <2>1. same # NoItem => same \in ItemRec /\ same.nr \in AnyAddr /\ same.id \in Nat
    BY <1>5, <1>7, ItemFields
  <2> DEFINE s == OutOfTable(m, same)
  <2>2. same # NoItem => Good(s, own, alone) /\ KeepsList(m, s)
    BY <2>1, TableIs
  <2> HIDE DEF s
  <2>3. same # NoItem => same \in Range(s.items)
    BY <1>5, <2>2 DEF KeepsList
  <2>4. same # NoItem => Good(TakesTable(s), own, alone)
    BY <1>11, <2>2, <2>3
  <2>5. QED BY <2>4 DEF s
<1>22. same # NoItem => Good(e7, own, alone)
  BY <1>5, <1>11
<1>23. same # NoItem /\ ~same.local /\ there.local => Good(e8, own, alone)
  <2>1. same # NoItem /\ ~same.local /\ there.local =>
          Changed(own, alone, m, Evict(m, there), there.id) /\ same \in Range(m.items) /\ same.id # there.id
    BY <1>3, <1>5, <1>6, <1>14, <1>15
  <2>2. QED BY <1>11, <2>1, OtherStays
<1>24. ASSUME same # NoItem, ~same.local, there.local PROVE Good(e9, own, alone)
  <2>1. same \in Range(m.items) /\ there \in Range(m.items) /\ same.id # there.id
    BY <1>3, <1>5, <1>6, <1>15, <1>24
  <2>2. Good(heard, own, alone) /\ Stands(heard, same, alone)
    BY <1>12, <2>1, OtherStays
  <2>3. same.nr \in AnyAddr /\ same.id \in Nat
    BY <1>7, <2>1, ItemFields
  <2>4. Good(freed, own, alone) /\ KeepsList(heard, freed)
    BY <2>2, <2>3, TableIs
  <2> HIDE DEF freed
  <2>5. Stands(freed, same, alone)
    BY <2>2, <2>4, StillStands
  <2>6. NoAddress \in AnyAddr
    BY DEF AnyAddr
  <2>7. Changed(own, alone, freed, ChangeAddress(freed, same, NoAddress), same.id)
    BY <2>4, <2>5, <2>6, ChangeGood
  <2>8. QED BY <2>7 DEF Changed, GiveUpAddress
<1>25. same # NoItem /\ there # NoItem /\ there # same => Good(e10, own, alone)
  <2>1. same # NoItem /\ there # NoItem /\ there # same =>
          Changed(own, alone, m, given, there.id) /\ same \in Range(m.items) /\ same.id # there.id
    BY <1>5, <1>6, <1>13, <1>15
  <2>2. QED BY <1>11, <2>1, OtherStays
<1> HIDE DEF e1, e2, e3, e4, e5, e6, e7, e8, e9, e10, r
<1>26. Good(r, own, alone)
  BY <1>1, <1>3, <1>16, <1>17, <1>18, <1>19, <1>20, <1>21, <1>22, <1>23, <1>24, <1>25
<1>27. QED BY <1>26 DEF r

\* A local node that an address resolves to is in the list.
LEMMA ResolvedIs ==
  ASSUME NEW own, NEW m, Typed(m, own), Items(m, own), NEW sa, NEW i \in Resolved(m, sa), i.local
  PROVE  i \in Range(m.items)
<1> DEFINE id == m.table[sa]
           dangling == [NoItem EXCEPT !.id = id, !.nr = sa]
<1>1. ~NoItem.local /\ ~dangling.local
  BY DEF NoItem, NewItem
<1>2. i = NoItem \/ i = Item(m, id) \/ i = dangling
  BY DEF Resolved
<1> HIDE DEF id, dangling
<1>3. Item(m, id) = NoItem \/ Item(m, id) \in Range(m.items)
  BY ItemIs
<1>4. QED BY <1>1, <1>2, <1>3

\* A request is answered for the own nodes it asks.
LEMMA RequestGood ==
  ASSUME NEW own, NEW alone, NEW m, Good(m, own, alone), NEW sender, NEW sa,
         NEW receiver \in Resolved(m, sa), NEW msg
  PROVE  Good(ProcessRequest(m, sender, receiver, msg), own, alone)
<1> DEFINE last == SetLastIsoSaRequest(m)
           locals == {i \in Range(m.items) : i.local}
           all == SendSaClaims(last, Selected(m.items, locals))
           one == SendSaClaims(m, <<receiver>>)
<1>1. Typed(m, own) /\ Items(m, own)
  BY DEF Good
<1>2. Good(all, own, alone)
  <2>1. Good(last, own, alone)
    BY SetLastGood
  <2> HIDE DEF last
  <2>2. m.items \in Seq(ItemRec)
    BY <1>1 DEF Typed
  <2>3. \A i \in locals : i.name \in own
    BY <1>1 DEF Items
  <2> HIDE DEF locals
  <2>4. Selected(m.items, locals) \in Seq(ItemRec) /\ Range(Selected(m.items, locals)) \subseteq locals
    BY <2>2, SelectedIs
  <2>5. QED BY <2>1, <2>3, <2>4, ClaimsGood
<1>3. receiver.local => Good(one, own, alone)
  <2> SUFFICES ASSUME receiver.local PROVE Good(one, own, alone)
    OBVIOUS
  <2>1. receiver \in Range(m.items)
    BY <1>1, ResolvedIs
  <2>2. receiver \in ItemRec /\ receiver.name \in own
    BY <1>1, <2>1, ItemsAre DEF Items
  <2> DEFINE q == <<receiver>>
  <2>3. q \in Seq(ItemRec) /\ \A i \in Range(q) : i.name \in own
    BY <2>2 DEF Range
  <2> HIDE DEF q
  <2>4. Good(SendSaClaims(m, q), own, alone)
    BY <2>3, ClaimsGood
  <2>5. QED BY <2>4 DEF q
<1> DEFINE r == ProcessRequest(m, sender, receiver, msg)
<1>4. r = CASE msg.sa # NoAddress /\ (sender = NoItem \/ sender.local) -> m
            [] msg.to = Global -> all
            [] receiver.local -> one
            [] OTHER -> m
  BY DEF ProcessRequest
<1> HIDE DEF all, one, r
<1>5. Good(r, own, alone)
  BY <1>2, <1>3, <1>4
<1>6. QED BY <1>5 DEF r

\* Any message, whatever became of its sender and receiver.
LEMMA ProcessedGood ==
  ASSUME NEW own, NEW alone, NEW m, Good(m, own, alone), NEW msg,
         msg.kind = "claim" =>
           msg.name \in Name /\ msg.sa \in AnyAddr /\ (alone => msg.name \notin own),
         NEW r \in Processed(m, msg)
  PROVE  Good(r, own, alone)
<1>1. CASE msg.kind = "claim"
  <2>1. r = ProcessAddressClaim(m, msg.name, msg.sa)
    BY <1>1 DEF Processed
  <2>2. QED BY <1>1, <2>1, AddressClaimGood
<1>2. CASE msg.kind # "claim"
  <2>1. PICK sender \in Resolved(m, msg.sa), receiver \in Resolved(m, msg.to) :
          r = ProcessRequest(m, sender, receiver, msg)
    BY <1>2 DEF Processed
  <2>2. QED BY <2>1, RequestGood
<1>3. QED BY <1>1, <1>2

-----------------------------------------------------------------------------
(* Time.                                                                   *)

\* While n claims, its item is at the address a, which was chosen before.
Firm(m, n, a) ==
  Running(m, n) => \E i \in Range(m.items) :
    i.local /\ i.name = n /\ i.nr = a /\ i.state # "PreAddressClaim"
FirmOn(m, n, a) == Firm(m, n, a) /\ m.ident[n].state # "PreAddressClaim"

\* Another field of the entry of an identity is set.
LEMMA AskedTyped ==
  ASSUME NEW x \in IdentRec
  PROVE  LET y == [x EXCEPT !.asked = 0]
         IN  y \in IdentRec /\ y.item = x.item /\ y.state = x.state
<1>1. 0 \in Never..(PreWait + 1)
  BY ConstantsAre
<1>2. QED BY <1>1 DEF IdentRec

\* The item of an identity asks, claims and has claimed.
LEMMA ItemTimeEventGood ==
  ASSUME NEW own, NEW alone, NEW m, Good(m, own, alone), NEW n \in own, Running(m, n)
  PROVE  LET r == ItemTimeEvent(m, n)
         IN  /\ Good(r, own, alone) /\ r.clients = m.clients /\ r.ident[n].state = m.ident[n].state
             /\ OthersKept(own, m, r, n)
<1> DEFINE i == Item(m, m.ident[n].item)
           nr == UnifyIsoSa(m, i, FALSE)
           new == [i EXCEPT !.nr = nr]
           chosen == With(m, new)
           claiming == SendAddressClaim(chosen, i.id, FALSE)
           asking == SendRequest(m, NoItem, NoItem)
           e1 == [asking EXCEPT !.ident[n].asked = 0]
           e2 == InTable(claiming, Item(claiming, i.id))
           claimed == [i EXCEPT !.state = "ClaimedAddress"]
           e3 == Announce(With(m, claimed), "AddToMonitorList", i)
           r == ItemTimeEvent(m, n)
<1>1. r = CASE i.state = "PreAddressClaim" /\ m.ident[n].asked = Never -> e1
            [] i.state = "PreAddressClaim" /\ m.ident[n].asked > PreWait -> e2
            [] i.state = "AddressClaim" /\ i.since >= ClaimWait -> e3
            [] OTHER -> m
  BY DEF ItemTimeEvent
<1>2. Typed(m, own) /\ Items(m, own)
  BY DEF Good
<1>3. i \in Range(m.items) /\ i.local /\ i.name = n
  BY <1>2, OwnItem
<1> HIDE DEF i
<1>4. Stands(m, i, alone) /\ i \in ItemRec
  BY <1>3, ListedStands DEF Stands
<1>5. \A j \in Range(m.items) : j.name # n => j.id # i.id
  BY <1>2, <1>3, IdsDiffer
<1>6. /\ Good(e1, own, alone) /\ e1.clients = m.clients /\ e1.ident[n].state = m.ident[n].state
      /\ OthersKept(own, m, e1, n)
  <2>1. /\ Good(asking, own, alone) /\ asking.clients = m.clients /\ asking.ident = m.ident
        /\ \A j \in Range(m.items) : j.local => j \in Range(asking.items)
    BY RequestAllGood
  <2> HIDE DEF asking
  <2> DEFINE x == [asking.ident[n] EXCEPT !.asked = 0]
             s == [asking EXCEPT !.ident = [@ EXCEPT ![n] = x]]
  <2>2. IsMonitor(asking) /\ asking.ident \in [own -> IdentRec]
    BY <2>1 DEF Good, Typed
  <2>3. x \in IdentRec /\ x.item = asking.ident[n].item /\ x.state = asking.ident[n].state
    BY <2>2, AskedTyped
  <2>4. e1 = s
    <3>1. [asking.ident EXCEPT ![n].asked = 0] = [asking.ident EXCEPT ![n] = x]
      BY <2>2
    <3>2. QED BY <2>2, <3>1 DEF IsMonitor, Fields
  <2> HIDE DEF x
  <2>5. x.state \in {"AddressClaim", "ClaimedAddress"} <=> Running(asking, n)
    BY <2>3 DEF Running
  <2>6. Good(s, own, alone) /\ s.clients = asking.clients /\ s.ident[n] = x /\ s.items = asking.items
    BY <2>1, <2>3, <2>5, IdentGood
  <2>7. \A k \in own \ {n} : s.ident[k] = asking.ident[k]
    BY <2>1, <2>3, IdentEntry DEF Good
  <2> HIDE DEF s, e1
  <2>8. OthersKept(own, m, s, n)
    BY <2>1, <2>6, <2>7 DEF OthersKept
  <2>9. QED BY <2>1, <2>3, <2>4, <2>6, <2>8
<1>7. i.state = "PreAddressClaim" =>
        /\ Good(e2, own, alone) /\ e2.clients = m.clients /\ e2.ident[n].state = m.ident[n].state
        /\ OthersKept(own, m, e2, n)
  <2> SUFFICES ASSUME i.state = "PreAddressClaim"
               PROVE  /\ Good(e2, own, alone) /\ e2.clients = m.clients /\ e2.ident = m.ident
                      /\ \A j \in Range(m.items) : j.name # n => j \in Range(e2.items)
    BY DEF OthersKept
  <2>1. nr \in AnyAddr
    BY <1>4, ItemFields, SearchTyped
  <2> HIDE DEF nr
  <2>2. new \in ItemRec /\ new.id = i.id /\ new.name = i.name /\ new.local = i.local /\ new.state = i.state
    BY <1>4, <2>1 DEF ItemRec
  <2> HIDE DEF new
  <2>3. Stands(m, new, alone)
    BY <1>3, <1>4, <2>2 DEF Stands, Fits, Waiting
  <2>4. Changed(own, alone, m, chosen, new.id) /\ new \in Range(chosen.items) /\ chosen.ident = m.ident
    BY <2>3, WithStands
  <2> HIDE DEF chosen
  <2>5. Good(chosen, own, alone) /\ chosen.clients = m.clients
    BY <2>4 DEF Changed
  <2>6. Changed(own, alone, chosen, SendAddressClaim(chosen, new.id, FALSE), new.id)
        /\ SendAddressClaim(chosen, new.id, FALSE).ident = chosen.ident
    <3>1. new.local
      BY <1>3, <2>2
    <3>2. Changed(own, alone, chosen, SendAddressClaim(chosen, new.id, FALSE), new.id)
      BY <2>4, <2>5, <3>1, ClaimGood
    <3>3. SendAddressClaim(chosen, new.id, FALSE).ident = chosen.ident
      <4>1. IsMonitor(chosen)
        BY <2>5 DEF Good, Typed
      <4>2. QED BY <4>1 DEF SendAddressClaim, Sent, With, IsMonitor, Fields
    <3>4. QED BY <3>2, <3>3
  <2>7. Good(claiming, own, alone) /\ claiming.clients = m.clients /\ claiming.ident = m.ident
    BY <2>2, <2>4, <2>5, <2>6 DEF Changed
  <2>8. \A j \in Range(m.items) : j.name # n => j \in Range(claiming.items)
    BY <1>5, <2>2, <2>4, <2>6 DEF Changed, OthersStay
  <2> HIDE DEF claiming
  <2> DEFINE j == Item(claiming, i.id)
  <2>9. j.nr \in AnyAddr /\ j.id \in Nat
    BY <2>7, FoundTyped
  <2> HIDE DEF j
  <2>10. Good(e2, own, alone) /\ KeepsList(claiming, e2)
    <3>1. e2 = InTable(claiming, j)
      BY DEF j
    <3> HIDE DEF e2
    <3>2. QED BY <2>7, <2>9, <3>1, TableIs
  <2>11. QED BY <2>7, <2>10, <2>8 DEF KeepsList
<1>8. i.state = "AddressClaim" =>
        /\ Good(e3, own, alone) /\ e3.clients = m.clients /\ e3.ident[n].state = m.ident[n].state
        /\ OthersKept(own, m, e3, n)
  <2> DEFINE s == Announce(With(m, claimed), "AddToMonitorList", i)
  <2>1. /\ claimed \in ItemRec /\ claimed.id = i.id /\ claimed.name = i.name
        /\ claimed.nr = i.nr /\ claimed.local = i.local
    BY <1>4 DEF ItemRec, ItemState
  <2> HIDE DEF claimed
  <2>2. Fits(m, claimed) /\ (\E j \in Range(m.items) : j.id = claimed.id) /\ claimed.local
    BY <1>3, <1>4, <2>1 DEF Stands, Fits
  <2>3. i.name = claimed.name /\ i.nr = claimed.nr
    BY <2>1
  <2>4. claimed \in ItemRec
    BY <2>1
  <2>5. Good(s, own, alone)
    BY <2>2, <2>3, <2>4, AnnouncedGood
  <2>6. s.ident = m.ident /\ s.clients = m.clients
    BY <2>2, <2>3, <2>4, AnnouncedGood
  <2>7. OthersStay(m, s, claimed.id)
    BY <2>2, <2>3, <2>4, AnnouncedGood
  <2> HIDE DEF s
  <2>8. OthersKept(own, m, s, n)
    BY <1>5, <2>1, <2>6, <2>7 DEF OthersKept, OthersStay
  <2>9. e3 = s
    BY DEF s
  <2> HIDE DEF e3
  <2>10. QED BY <2>5, <2>6, <2>9, <2>8
<1> HIDE DEF e1, e2, e3, r
<1>9. Good(r, own, alone) /\ r.clients = m.clients /\ r.ident[n].state = m.ident[n].state
  BY <1>1, <1>6, <1>7, <1>8
<1>10. OthersKept(own, m, r, n)
  <2>1. OthersKept(own, m, m, n)
    BY DEF OthersKept
  <2>2. QED BY <1>1, <1>6, <1>7, <1>8, <2>1
<1>11. QED BY <1>9, <1>10 DEF r

\* The item of an identity that has chosen its address keeps it.
LEMMA ItemTimeEventFirm ==
  ASSUME NEW own, NEW alone, NEW m, Good(m, own, alone), NEW n \in own, Running(m, n),
         NEW a, Firm(m, n, a)
  PROVE  \E j \in Range(ItemTimeEvent(m, n).items) :
           j.local /\ j.name = n /\ j.nr = a /\ j.state # "PreAddressClaim"
<1> DEFINE i == Item(m, m.ident[n].item)
           claimed == [i EXCEPT !.state = "ClaimedAddress"]
           e3 == Announce(With(m, claimed), "AddToMonitorList", i)
           r == ItemTimeEvent(m, n)
<1>1. Typed(m, own) /\ Items(m, own)
  BY DEF Good
<1>2. \A j \in Range(m.items) : j.local /\ j.name = n => j = i
  BY <1>1, OwnItem
<1>3. /\ i \in Range(m.items) /\ i.local /\ i.name = n /\ i.nr = a
      /\ i.state # "PreAddressClaim"
  <2> HIDE DEF i
  <2>1. QED BY <1>2 DEF Firm
<1>4. r = IF i.state = "AddressClaim" /\ i.since >= ClaimWait THEN e3 ELSE m
  <2>1. i.state # "PreAddressClaim"
    BY <1>3
  <2>2. QED BY <2>1 DEF ItemTimeEvent
<1> HIDE DEF i
<1>5. Stands(m, i, alone) /\ i \in ItemRec
  BY <1>3, ListedStands DEF Stands
<1>6. /\ claimed \in ItemRec /\ claimed.id = i.id /\ claimed.name = i.name
      /\ claimed.nr = i.nr /\ claimed.local = i.local /\ claimed.state = "ClaimedAddress"
  BY <1>5 DEF ItemRec, ItemState
<1> HIDE DEF claimed
<1>7. Fits(m, claimed) /\ (\E j \in Range(m.items) : j.id = claimed.id) /\ claimed.local
  BY <1>3, <1>5, <1>6 DEF Stands, Fits
<1>8. i.name = claimed.name /\ i.nr = claimed.nr /\ claimed \in ItemRec
  BY <1>6
<1>9. claimed \in Range(e3.items)
  BY <1>7, <1>8, AnnouncedGood
<1> HIDE DEF e3, r
<1>10. \E j \in Range(r.items) : j.local /\ j.name = n /\ j.nr = a /\ j.state # "PreAddressClaim"
  <2>1. CASE i.state = "AddressClaim" /\ i.since >= ClaimWait
    <3>1. r = e3
      BY <1>4, <2>1
    <3>2. claimed.local /\ claimed.name = n /\ claimed.nr = a /\ claimed.state # "PreAddressClaim"
      BY <1>3, <1>6
    <3>3. QED BY <1>9, <3>1, <3>2
  <2>2. CASE ~(i.state = "AddressClaim" /\ i.since >= ClaimWait)
    <3>1. r = m
      BY <1>4, <2>2
    <3>2. QED BY <1>3, <3>1
  <2>3. QED BY <2>1, <2>2
<1>11. QED BY <1>10 DEF r

\* An identity that is switched on gets its item.
LEMMA PreAddressClaimGood ==
  ASSUME NEW own, own \subseteq Name, NEW alone, NEW m, Good(m, own, alone), NEW n \in own,
         ~Running(m, n), n \in Range(m.clients)
  PROVE  LET r == TimeEventPreAddressClaim(m, n)
         IN  Good(r, own, alone) /\ r.clients = m.clients /\ OthersKept(own, m, r, n)
<1> DEFINE listed == InsertIsoMember(m, NewItem(n, m.ident[n].sa, "PreAddressClaim", TRUE), FALSE)
           known == [listed EXCEPT !.ident[n].item = Head(listed.items).id, !.ident[n].state = "AddressClaim"]
           asking == SendRequest(known, NoItem, NoItem)
           told == [asking EXCEPT !.ident[n].asked = 0]
           asked == IF m.asked = Never THEN told ELSE known
           done == ItemTimeEvent(asked, n)
           r == TimeEventPreAddressClaim(m, n)
<1>1. r = IF ClaimedOfName(m, n) # NoItem THEN m ELSE done
  BY DEF TimeEventPreAddressClaim
<1>2. /\ Good(known, own, alone) /\ known.clients = m.clients /\ Running(known, n)
      /\ OthersKept(own, m, known, n)
  BY InsertOwnGood, Zenon
<1> HIDE DEF known
<1>3. /\ Good(told, own, alone) /\ told.clients = m.clients /\ Running(told, n)
      /\ OthersKept(own, m, told, n)
  <2>1. /\ Good(asking, own, alone) /\ asking.clients = m.clients /\ asking.ident = known.ident
        /\ \A j \in Range(known.items) : j.local => j \in Range(asking.items)
    BY <1>2, RequestAllGood
  <2> HIDE DEF asking
  <2> DEFINE x == [asking.ident[n] EXCEPT !.asked = 0]
             s == [asking EXCEPT !.ident = [@ EXCEPT ![n] = x]]
  <2>2. IsMonitor(asking) /\ asking.ident \in [own -> IdentRec]
    BY <2>1 DEF Good, Typed
  <2>3. x \in IdentRec /\ x.item = asking.ident[n].item /\ x.state = asking.ident[n].state
    BY <2>2, AskedTyped
  <2>4. told = s
    <3>1. [asking.ident EXCEPT ![n].asked = 0] = [asking.ident EXCEPT ![n] = x]
      BY <2>2
    <3>2. QED BY <2>2, <3>1 DEF IsMonitor, Fields
  <2> HIDE DEF x
  <2>5. x.state \in {"AddressClaim", "ClaimedAddress"} <=> Running(asking, n)
    BY <2>3 DEF Running
  <2>6. Good(s, own, alone) /\ s.clients = asking.clients /\ s.ident[n] = x /\ s.items = asking.items
    BY <2>1, <2>3, <2>5, IdentGood
  <2>7. \A k \in own \ {n} : s.ident[k] = asking.ident[k]
    BY <2>1, <2>3, IdentEntry DEF Good
  <2> HIDE DEF s, told
  <2>8. OthersKept(own, m, s, n)
    BY <1>2, <2>1, <2>6, <2>7 DEF OthersKept
  <2>9. QED BY <1>2, <2>1, <2>3, <2>4, <2>6, <2>8 DEF Running
<1> HIDE DEF told
<1>4. /\ Good(asked, own, alone) /\ asked.clients = m.clients /\ Running(asked, n)
      /\ OthersKept(own, m, asked, n)
  BY <1>2, <1>3
<1> HIDE DEF asked
<1>5. Good(done, own, alone) /\ done.clients = m.clients /\ OthersKept(own, asked, done, n)
  BY <1>4, ItemTimeEventGood
<1> HIDE DEF done, r
<1>6. Good(r, own, alone) /\ r.clients = m.clients /\ OthersKept(own, m, r, n)
  <2>1. OthersKept(own, m, m, n) /\ OthersKept(own, m, done, n)
    BY <1>4, <1>5 DEF OthersKept
  <2>2. QED BY <1>1, <1>5, <2>1
<1>7. QED BY <1>6 DEF r

\* What is stored of an identity as its item goes on.
LEMMA StoredTyped ==
  ASSUME NEW x \in IdentRec, NEW sa \in AnyAddr
  PROVE  LET y == [x EXCEPT !.sa = sa]
         IN  y \in IdentRec /\ y.item = x.item /\ y.state = x.state
BY DEF IdentRec, IdentState

\* An identity that claims or has claimed.
LEMMA ActiveGood ==
  ASSUME NEW own, NEW alone, NEW m, Good(m, own, alone), NEW n \in own, Running(m, n)
  PROVE  LET r == TimeEventActive(m, n)
         IN  /\ Good(r, own, alone) /\ r.clients = m.clients /\ OthersKept(own, m, r, n)
             /\ Running(r, n) /\ r.items = ItemTimeEvent(m, n).items
<1> DEFINE before == Item(m, m.ident[n].item)
           done == ItemTimeEvent(m, n)
           i == Item(done, before.id)
           x == [done.ident[n] EXCEPT !.sa = i.nr]
           y == [x EXCEPT !.state = "ClaimedAddress"]
           stored == [done EXCEPT !.ident[n].sa = i.nr]
           set == [stored EXCEPT !.ident[n].state = "ClaimedAddress"]
           s == [done EXCEPT !.ident = [@ EXCEPT ![n] = x]]
           t == [s EXCEPT !.ident = [@ EXCEPT ![n] = y]]
           r == TimeEventActive(m, n)
<1>1. r = IF i.state # "ClaimedAddress" THEN done
          ELSE IF before.state = "ClaimedAddress" THEN stored ELSE set
  BY DEF TimeEventActive
<1>2. /\ Good(done, own, alone) /\ done.clients = m.clients /\ Running(done, n)
      /\ OthersKept(own, m, done, n)
  BY ItemTimeEventGood DEF Running
<1> HIDE DEF done
<1>3. i.nr \in AnyAddr
  BY <1>2, FoundTyped
<1> HIDE DEF i, before
<1>4. IsMonitor(done) /\ done.ident \in [own -> IdentRec]
  BY <1>2 DEF Good, Typed
<1>5. done.ident[n] \in IdentRec
  BY <1>4
<1>6. /\ x \in IdentRec /\ x.item = done.ident[n].item /\ x.state = done.ident[n].state
      /\ y \in IdentRec /\ y.item = x.item /\ y.state = "ClaimedAddress"
  <2> DEFINE a == i.nr
             old == done.ident[n]
  <2>1. a \in AnyAddr /\ old \in IdentRec
    BY <1>3, <1>5
  <2>2. x = [old EXCEPT !.sa = a] /\ y = [x EXCEPT !.state = "ClaimedAddress"]
    OBVIOUS
  <2> HIDE DEF a, old, x, y
  <2>3. x \in IdentRec /\ x.item = old.item /\ x.state = old.state
    BY <2>1, <2>2, StoredTyped
  <2>4. y \in IdentRec /\ y.item = x.item /\ y.state = "ClaimedAddress"
    BY <2>2, <2>3 DEF IdentRec, IdentState
  <2>5. QED BY <2>3, <2>4 DEF old
<1>7. stored = s
  <2>1. [done.ident EXCEPT ![n].sa = i.nr] = [done.ident EXCEPT ![n] = x]
    BY <1>4
  <2>2. QED BY <1>4, <2>1 DEF IsMonitor, Fields
<1>8. y = [x EXCEPT !.state = "ClaimedAddress"]
  OBVIOUS
<1> HIDE DEF x, y
<1>9. /\ Good(s, own, alone) /\ s.clients = m.clients /\ s.ident[n] = x /\ s.items = done.items
      /\ OthersKept(own, m, s, n)
  <2>1. x.state \in {"AddressClaim", "ClaimedAddress"} <=> Running(done, n)
    BY <1>6 DEF Running
  <2>2. Good(s, own, alone) /\ s.clients = m.clients /\ s.ident[n] = x /\ s.items = done.items
    BY <1>2, <1>6, <2>1, IdentGood
  <2>3. \A k \in own \ {n} : s.ident[k] = done.ident[k]
    BY <1>2, <1>6, IdentEntry DEF Good
  <2> HIDE DEF s
  <2>4. QED BY <1>2, <2>2, <2>3 DEF OthersKept
<1> HIDE DEF s
<1>10. Running(s, n)
  BY <1>2, <1>6, <1>9 DEF Running
<1>11. set = t
  <2>1. IsMonitor(s) /\ s.ident \in [own -> IdentRec]
    BY <1>9 DEF Good, Typed
  <2>2. [s.ident EXCEPT ![n].state = "ClaimedAddress"] = [s.ident EXCEPT ![n] = y]
    BY <1>8, <1>9, <2>1
  <2>3. QED BY <1>7, <2>1, <2>2 DEF IsMonitor, Fields
<1>12. /\ Good(t, own, alone) /\ t.clients = m.clients /\ Running(t, n) /\ t.items = done.items
       /\ OthersKept(own, m, t, n)
  <2>1. y.state \in {"AddressClaim", "ClaimedAddress"} <=> Running(s, n)
    BY <1>6, <1>10
  <2>2. y.item = s.ident[n].item
    BY <1>6, <1>9
  <2>3. Good(t, own, alone) /\ t.clients = m.clients /\ t.items = done.items /\ t.ident[n] = y
    BY <1>6, <1>9, <2>1, <2>2, IdentGood
  <2>4. \A k \in own \ {n} : t.ident[k] = s.ident[k]
    BY <1>6, <1>9, IdentEntry DEF Good
  <2> HIDE DEF t
  <2>5. OthersKept(own, m, t, n)
    BY <1>9, <2>3, <2>4 DEF OthersKept
  <2>6. Running(t, n)
    BY <1>6, <2>3 DEF Running
  <2>7. QED BY <2>3, <2>5, <2>6
<1> HIDE DEF stored, set, t, r
<1>13. /\ Good(r, own, alone) /\ r.clients = m.clients /\ OthersKept(own, m, r, n)
       /\ Running(r, n) /\ r.items = done.items
  BY <1>1, <1>2, <1>7, <1>9, <1>10, <1>11, <1>12
<1>14. QED BY <1>13 DEF r, done

\* The time event of an identity.
LEMMA IdentTimeEventGood ==
  ASSUME NEW own, own \subseteq Name, NEW alone, NEW m, Good(m, own, alone), NEW n \in own,
         n \in Range(m.clients)
  PROVE  LET r == IdentTimeEvent(m, n)
         IN  Good(r, own, alone) /\ r.clients = m.clients /\ OthersKept(own, m, r, n)
<1> DEFINE i == Item(m, m.ident[n].item)
           off == GoOffline(m, n, "OffUnable")
           seen == IF i # NoItem /\ i.off THEN off ELSE m
           e1 == TimeEventPreAddressClaim(seen, n)
           e2 == TimeEventActive(seen, n)
           r == IdentTimeEvent(m, n)
<1>1. r = CASE seen.ident[n].state \in {"OffExplicitly", "OffUnable"} -> seen
            [] seen.ident[n].state = "PreAddressClaim" -> e1
            [] OTHER -> e2
  BY DEF IdentTimeEvent
<1>2. Good(off, own, alone) /\ off.clients = m.clients /\ OthersKept(own, m, off, n)
  <2>1. "OffUnable" \in IdentState \ {"AddressClaim", "ClaimedAddress"}
    BY DEF IdentState
  <2>2. /\ Good(off, own, alone) /\ off.clients = m.clients
        /\ Range(off.items) = {j \in Range(m.items) : ~(j.local /\ j.name = n)}
        /\ \A k \in own \ {n} : off.ident[k] = m.ident[k]
    BY <2>1, GoOfflineGood
  <2> HIDE DEF off
  <2>3. QED BY <2>2 DEF OthersKept
<1> HIDE DEF off
<1>3. Good(seen, own, alone) /\ seen.clients = m.clients /\ OthersKept(own, m, seen, n)
  <2>1. OthersKept(own, m, m, n)
    BY DEF OthersKept
  <2>2. QED BY <1>2, <2>1
<1> HIDE DEF seen
<1>4. seen.ident[n].state \in IdentState
  <2>1. seen.ident[n] \in IdentRec
    BY <1>3 DEF Good, Typed
  <2>2. QED BY <2>1 DEF IdentRec
<1>5. CASE seen.ident[n].state \in {"OffExplicitly", "OffUnable"}
  <2>1. r = seen
    BY <1>1, <1>5
  <2>2. QED BY <1>3, <2>1
<1>6. CASE seen.ident[n].state = "PreAddressClaim"
  <2>1. r = e1
    BY <1>1, <1>6
  <2>2. ~Running(seen, n)
    BY <1>6 DEF Running
  <2>3. Good(e1, own, alone) /\ e1.clients = seen.clients /\ OthersKept(own, seen, e1, n)
    BY <1>3, <2>2, PreAddressClaimGood
  <2> HIDE DEF e1, e2, r
  <2>4. OthersKept(own, m, r, n)
    BY <1>3, <2>1, <2>3 DEF OthersKept
  <2>5. QED BY <1>3, <2>1, <2>3, <2>4 DEF r
<1>7. CASE seen.ident[n].state \in {"AddressClaim", "ClaimedAddress"}
  <2>1. r = e2
    BY <1>1, <1>7
  <2>2. Running(seen, n)
    BY <1>7 DEF Running
  <2>3. Good(e2, own, alone) /\ e2.clients = seen.clients /\ OthersKept(own, seen, e2, n)
    BY <1>3, <2>2, ActiveGood
  <2> HIDE DEF e1, e2, r
  <2>4. OthersKept(own, m, r, n)
    BY <1>3, <2>1, <2>3 DEF OthersKept
  <2>5. QED BY <1>3, <2>1, <2>3, <2>4 DEF r
<1>8. QED BY <1>4, <1>5, <1>6, <1>7 DEF IdentState

\* A chosen address stays in the time event of any identity.
LEMMA IdentTimeEventFirm ==
  ASSUME NEW own, own \subseteq Name, NEW alone, NEW m, Good(m, own, alone), NEW k \in own,
         k \in Range(m.clients), NEW n \in own, NEW a, FirmOn(m, n, a)
  PROVE  FirmOn(IdentTimeEvent(m, k), n, a)
<1> DEFINE r == IdentTimeEvent(m, k)
<1>1. CASE k # n
  <2>1. OthersKept(own, m, r, k)
    BY IdentTimeEventGood
  <2> HIDE DEF r
  <2>2. r.ident[n] = m.ident[n]
    BY <1>1, <2>1 DEF OthersKept
  <2>3. \A i \in Range(m.items) : i.local /\ i.name = n => i \in Range(r.items)
    BY <1>1, <2>1 DEF OthersKept
  <2>4. FirmOn(r, n, a)
    BY <2>2, <2>3 DEF FirmOn, Firm, Running
  <2>5. QED BY <2>4 DEF r
<1>2. CASE k = n
  <2> DEFINE i == Item(m, m.ident[n].item)
             off == GoOffline(m, n, "OffUnable")
             seen == IF i # NoItem /\ i.off THEN off ELSE m
             e1 == TimeEventPreAddressClaim(seen, n)
             e2 == TimeEventActive(seen, n)
  <2>1. r = CASE seen.ident[n].state \in {"OffExplicitly", "OffUnable"} -> seen
              [] seen.ident[n].state = "PreAddressClaim" -> e1
              [] OTHER -> e2
    BY <1>2 DEF IdentTimeEvent
  <2>2. off.ident[n].state = "OffUnable"
    <3>1. "OffUnable" \in IdentState \ {"AddressClaim", "ClaimedAddress"}
      BY DEF IdentState
    <3>2. QED BY <3>1, GoOfflineGood
  <2>3. CASE i # NoItem /\ i.off
    <3> HIDE DEF off
    <3>1. seen = off
      BY <2>3
    <3> HIDE DEF seen, e1, e2, r
    <3>2. r = off
      BY <2>1, <2>2, <3>1
    <3>3. FirmOn(r, n, a)
      BY <2>2, <3>2 DEF FirmOn, Firm, Running
    <3>4. QED BY <1>2, <3>3 DEF r
  <2>4. CASE ~(i # NoItem /\ i.off)
    <3>1. seen = m
      BY <2>4
    <3>2. e2 = TimeEventActive(m, n)
      BY <3>1
    <3> HIDE DEF seen, e1, r
    <3>3. CASE Running(m, n)
      <4>1. r = e2
        BY <2>1, <3>1, <3>3 DEF Running
      <4> HIDE DEF e2
      <4>2. Running(e2, n) /\ e2.items = ItemTimeEvent(m, n).items
        BY <3>2, <3>3, ActiveGood
      <4>3. Firm(m, n, a)
        BY DEF FirmOn
      <4>4. \E j \in Range(e2.items) : j.local /\ j.name = n /\ j.nr = a /\ j.state # "PreAddressClaim"
        BY <3>3, <4>2, <4>3, ItemTimeEventFirm
      <4>5. FirmOn(r, n, a)
        BY <4>1, <4>2, <4>4 DEF FirmOn, Firm, Running
      <4>6. QED BY <1>2, <4>5 DEF r
    <3>4. CASE ~Running(m, n)
      <4>1. m.ident[n].state \in IdentState \ {"PreAddressClaim"}
        <5>1. m.ident[n] \in IdentRec
          BY DEF Good, Typed
        <5>2. QED BY <5>1 DEF IdentRec, FirmOn
      <4>2. r = m
        BY <2>1, <3>1, <3>4, <4>1 DEF Running, IdentState
      <4>3. QED BY <1>2, <4>2 DEF r
    <3>5. QED BY <3>3, <3>4
  <2>5. QED BY <2>3, <2>4
<1>3. QED BY <1>1, <1>2

\* The time events of all identities, each on what the one before left.
LEMMA IdentTimeEventsGood ==
  ASSUME NEW own, own \subseteq Name, NEW alone, NEW m, Good(m, own, alone)
  PROVE  LET r == IdentTimeEvents(m)
         IN  /\ Good(r, own, alone) /\ r.clients = m.clients
             /\ \A n \in own, a \in Address : FirmOn(m, n, a) => FirmOn(r, n, a)
<1> DEFINE N == Len(m.clients)
           step(g, k) == IF k = 0 THEN m ELSE IdentTimeEvent(g[k - 1], m.clients[k])
           part == CHOOSE g : g = [k \in 0..N |-> step(g, k)]
<1>1. N \in Nat /\ \A k \in 1..N : m.clients[k] \in own /\ m.clients[k] \in Range(m.clients)
  <2>1. m.clients \in Seq(own)
    BY DEF Good, Typed
  <2>2. QED BY <2>1 DEF Range
<1>2. IdentTimeEvents(m) = part[N]
  BY DEF IdentTimeEvents
<1>3. \E g : g = [k \in 0..N |-> step(g, k)]
  <2> DEFINE T == {b \in Nat : \E g : g = [k \in 0..b |-> step(g, k)]}
  <2>1. 0 \in T
    <3> DEFINE g == [k \in 0..0 |-> m]
    <3>1. \A k \in 0..0 : step(g, k) = m
      OBVIOUS
    <3>2. g = [k \in 0..0 |-> step(g, k)]
      BY <3>1
    <3>3. QED BY <3>2
  <2>2. ASSUME NEW b \in 0..(N - 1), b \in T PROVE b + 1 \in T
    <3>1. PICK g : g = [k \in 0..b |-> step(g, k)]
      BY <2>2
    <3> HIDE DEF step
    <3> DEFINE h == [k \in 0..(b + 1) |-> IF k = b + 1 THEN step(g, k) ELSE g[k]]
    <3>2. \A k \in 0..b : h[k] = g[k]
      BY <1>1
    <3>3. \A k \in 0..(b + 1) : step(h, k) = step(g, k)
      <4> HIDE DEF h
      <4>1. QED BY <3>2, <1>1 DEF step
    <3>4. \A k \in 0..(b + 1) : h[k] = step(h, k)
      <4>1. \A k \in 0..b : g[k] = step(g, k)
        BY <3>1
      <4>2. QED BY <3>3, <4>1, <1>1
    <3>5. h = [k \in 0..(b + 1) |-> step(h, k)]
      BY <3>4
    <3>6. b + 1 \in Nat
      BY <1>1
    <3>7. QED BY <3>5, <3>6
  <2> HIDE DEF T
  <2>3. 0..N \subseteq T
    BY <2>1, <2>2, <1>1, UpTo
  <2>4. N \in T
    BY <2>3, <1>1
  <2>5. QED BY <2>4 DEF T
<1>4. part = [k \in 0..N |-> step(part, k)]
  <2> HIDE DEF step, N
  <2>1. QED BY <1>3, Zenon
<1>5. /\ part[0] = m
      /\ \A k \in 1..N : part[k] = IdentTimeEvent(part[k - 1], m.clients[k])
  <2> HIDE DEF part
  <2>1. \A k \in 0..N : part[k] = step(part, k)
    BY <1>4
  <2>2. QED BY <2>1, <1>1
<1> DEFINE Kept(q) == \A n \in own, a \in Address : FirmOn(m, n, a) => FirmOn(q, n, a)
           S == {k \in 0..N : Good(part[k], own, alone) /\ part[k].clients = m.clients /\ Kept(part[k])}
<1> HIDE DEF step, part, N
<1>6. 0 \in S
  BY <1>1, <1>5
<1>7. ASSUME NEW b \in 0..(N - 1), b \in S PROVE b + 1 \in S
  <2> DEFINE k == part[b]
             n == m.clients[b + 1]
             r == IdentTimeEvent(k, n)
  <2>1. Good(k, own, alone) /\ k.clients = m.clients /\ Kept(k)
    BY <1>7
  <2>2. b + 1 \in 1..N /\ (b + 1) - 1 = b
    BY <1>1
  <2>3. n \in own /\ n \in Range(k.clients)
    BY <1>1, <2>1, <2>2
  <2>4. part[b + 1] = r
    BY <1>5, <2>2
  <2> HIDE DEF k, n
  <2>5. Good(r, own, alone) /\ r.clients = k.clients
    BY <2>1, <2>3, IdentTimeEventGood
  <2>6. Kept(r)
    BY <2>1, <2>3, IdentTimeEventFirm
  <2> HIDE DEF r, Kept
  <2>7. b + 1 \in 0..N
    BY <1>1
  <2>8. QED BY <2>1, <2>4, <2>5, <2>6, <2>7
<1> HIDE DEF S
<1>8. N \in S
  <2>1. 0..N \subseteq S
    BY <1>1, <1>6, <1>7, UpTo
  <2>2. QED BY <2>1, <1>1
<1>9. QED BY <1>2, <1>8 DEF S

\* The identity that asks for others is listed, if there is one.
LEMMA ActiveIs ==
  ASSUME NEW own, NEW alone, NEW m, Good(m, own, alone)
  PROVE  AnyActiveLocalItem(m) \in ItemRec \/ AnyActiveLocalItem(m) = NoItem
<1>1. Typed(m, own) /\ Items(m, own)
  BY DEF Good
<1>2. \A id : Item(m, id) \in ItemRec \/ Item(m, id) = NoItem
  BY <1>1, ItemIs, ItemsAre
<1>3. QED BY <1>2 DEF AnyActiveLocalItem

\* One node is looked at, which leaves the others.
LEMMA CheckItemGood ==
  ASSUME NEW own, NEW alone, NEW m, Good(m, own, alone), NEW active,
         active \in ItemRec \/ active = NoItem, NEW i \in Range(m.items)
  PROVE  Changed(own, alone, m, CheckItem(m, active, i), i.id) /\ LocalsKept(m, CheckItem(m, active, i))
<1> DEFINE new == [i EXCEPT !.doubted = TRUE]
           gone == Erase(m, i)
           w == With(m, new)
           told == SendRequest(w, active, new)
           r == CheckItem(m, active, i)
<1>1. r = IF i.local \/ i.asked < MaxAge THEN m
          ELSE IF active = NoItem \/ i.doubted THEN gone ELSE told
  BY DEF CheckItem
<1>2. Stands(m, i, alone)
  BY ListedStands
<1>3. i \in ItemRec
  BY <1>2 DEF Stands
<1>4. Changed(own, alone, m, m, i.id)
  BY DEF Changed, OthersStay, SameNames
<1>5. ~i.local => Changed(own, alone, m, gone, i.id) /\ gone.ident = m.ident
  <2> SUFFICES ASSUME ~i.local PROVE Changed(own, alone, m, gone, i.id) /\ gone.ident = m.ident
    OBVIOUS
  <2>1. Fits(m, i) /\ \E j \in Range(m.items) : j.id = i.id
    BY <1>2 DEF Stands
  <2>2. Good(gone, own, alone) /\ gone.clients = m.clients /\ gone.ident = m.ident
    BY <1>3, <2>1, EraseForeignGood
  <2>3. Range(gone.items) = {j \in Range(m.items) : j.id # i.id}
    BY <1>3, <2>1, EraseForeignGood
  <2> HIDE DEF gone
  <2>4. OthersStay(m, gone, i.id) /\ SameNames(m, gone)
    BY <2>3 DEF OthersStay, SameNames
  <2>5. QED BY <2>2, <2>4 DEF Changed
<1>6. Changed(own, alone, m, told, i.id) /\ told.ident = m.ident
  <2>1. new \in ItemRec /\ new.id = i.id /\ new.name = i.name /\ new.nr = i.nr
    BY <1>3 DEF ItemRec
  <2>2. new.local = i.local /\ new.state = i.state
    BY <1>3 DEF ItemRec
  <2> HIDE DEF new
  <2>3. Stands(m, new, alone)
    BY <1>2, <2>1, <2>2 DEF Stands, Fits, Waiting
  <2>4. Changed(own, alone, m, w, new.id) /\ new \in Range(w.items) /\ w.ident = m.ident
    BY <2>3, WithStands
  <2> HIDE DEF w
  <2>5. Good(w, own, alone)
    BY <2>4 DEF Changed
  <2>6. Stands(w, new, alone)
    BY <2>4, <2>5, ListedStands
  <2>7. Changed(own, alone, w, told, new.id) /\ told.ident = w.ident
    BY <2>5, <2>6, RequestToGood
  <2> HIDE DEF told
  <2>8. QED BY <2>1, <2>4, <2>7, ChangedTwice
<1> HIDE DEF gone, told, r
<1>7. Changed(own, alone, m, r, i.id)
  BY <1>1, <1>4, <1>5, <1>6
<1>8. LocalsKept(m, r)
  <2>1. r.ident = m.ident
    BY <1>1, <1>5, <1>6
  <2>2. CASE i.local
    BY <1>1, <2>2 DEF LocalsKept
  <2>3. CASE ~i.local
    <3>1. Typed(m, own) /\ Items(m, own)
      BY DEF Good
    <3>2. \A j \in Range(m.items) : j.local => j.id # i.id
      BY <2>3, <3>1, IdsDiffer
    <3>3. QED BY <1>7, <2>1, <3>2 DEF Changed, OthersStay, LocalsKept
  <2>4. QED BY <2>2, <2>3
<1>9. QED BY <1>7, <1>8 DEF r

\* All nodes of the list are looked at: what happens to one leaves those that are next.
LEMMA CheckItemsGood ==
  ASSUME NEW own, NEW alone, NEW m, Good(m, own, alone), NEW active,
         active \in ItemRec \/ active = NoItem
  PROVE  LET r == CheckItems(m, active)
         IN  Good(r, own, alone) /\ r.clients = m.clients /\ LocalsKept(m, r)
<1> DEFINE N == Len(m.items)
           step(g, k) == IF k = 0 THEN m ELSE CheckItem(g[k - 1], active, m.items[k])
           part == CHOOSE g : g = [k \in 0..N |-> step(g, k)]
<1>1. N \in Nat /\ \A k \in 1..N : m.items[k] \in Range(m.items)
  <2>1. Typed(m, own)
    BY DEF Good
  <2>2. QED BY <2>1, ItemsAre
<1>2. CheckItems(m, active) = part[N]
  BY DEF CheckItems
<1>3. \E g : g = [k \in 0..N |-> step(g, k)]
  <2> DEFINE T == {b \in Nat : \E g : g = [k \in 0..b |-> step(g, k)]}
  <2>1. 0 \in T
    <3> DEFINE g == [k \in 0..0 |-> m]
    <3>1. \A k \in 0..0 : step(g, k) = m
      OBVIOUS
    <3>2. g = [k \in 0..0 |-> step(g, k)]
      BY <3>1
    <3>3. QED BY <3>2
  <2>2. ASSUME NEW b \in 0..(N - 1), b \in T PROVE b + 1 \in T
    <3>1. PICK g : g = [k \in 0..b |-> step(g, k)]
      BY <2>2
    <3> HIDE DEF step
    <3> DEFINE h == [k \in 0..(b + 1) |-> IF k = b + 1 THEN step(g, k) ELSE g[k]]
    <3>2. \A k \in 0..b : h[k] = g[k]
      BY <1>1
    <3>3. \A k \in 0..(b + 1) : step(h, k) = step(g, k)
      <4> HIDE DEF h
      <4>1. QED BY <3>2, <1>1 DEF step
    <3>4. \A k \in 0..(b + 1) : h[k] = step(h, k)
      <4>1. \A k \in 0..b : g[k] = step(g, k)
        BY <3>1
      <4>2. QED BY <3>3, <4>1, <1>1
    <3>5. h = [k \in 0..(b + 1) |-> step(h, k)]
      BY <3>4
    <3>6. b + 1 \in Nat
      BY <1>1
    <3>7. QED BY <3>5, <3>6
  <2> HIDE DEF T
  <2>3. 0..N \subseteq T
    BY <2>1, <2>2, <1>1, UpTo
  <2>4. N \in T
    BY <2>3, <1>1
  <2>5. QED BY <2>4 DEF T
<1>4. part = [k \in 0..N |-> step(part, k)]
  <2> HIDE DEF step, N
  <2>1. QED BY <1>3, Zenon
<1>5. /\ part[0] = m
      /\ \A k \in 1..N : part[k] = CheckItem(part[k - 1], active, m.items[k])
  <2> HIDE DEF part
  <2>1. \A k \in 0..N : part[k] = step(part, k)
    BY <1>4
  <2>2. QED BY <2>1, <1>1
<1>6. \A k, l \in 1..N : m.items[k].id = m.items[l].id => k = l
  <2>1. Typed(m, own) /\ Items(m, own)
    BY DEF Good
  <2>2. \A k, l \in DOMAIN m.items : m.items[k].id = m.items[l].id => k = l
    BY <2>1 DEF Items
  <2>3. QED BY <2>1, <2>2, ItemsAre
<1> DEFINE Left(b) == \A l \in 1..N : l > b => m.items[l] \in Range(part[b].items)
           S == {b \in 0..N : /\ Good(part[b], own, alone) /\ part[b].clients = m.clients
                              /\ Left(b) /\ LocalsKept(m, part[b])}
<1> HIDE DEF step, part, N
<1>7. 0 \in S
  <2>1. LocalsKept(m, m)
    BY DEF LocalsKept
  <2>2. QED BY <1>1, <1>5, <2>1
<1>8. ASSUME NEW b \in 0..(N - 1), b \in S PROVE b + 1 \in S
  <2> DEFINE k == part[b]
             i == m.items[b + 1]
             r == CheckItem(k, active, i)
  <2>1. Good(k, own, alone) /\ k.clients = m.clients /\ Left(b) /\ LocalsKept(m, k)
    BY <1>8
  <2>2. b + 1 \in 1..N /\ (b + 1) - 1 = b /\ b + 1 > b
    BY <1>1
  <2>3. i \in Range(k.items)
    BY <2>1, <2>2
  <2>4. part[b + 1] = r
    BY <1>5, <2>2
  <2>5. \A l \in 1..N : l > b + 1 => m.items[l] \in Range(k.items) /\ m.items[l].id # i.id
    <3>1. \A l \in 1..N : l > b + 1 => l > b /\ l # b + 1
      BY <1>1
    <3>2. QED BY <1>6, <2>1, <2>2, <3>1
  <2> HIDE DEF k, i
  <2>6. Changed(own, alone, k, r, i.id) /\ LocalsKept(k, r)
    BY <2>1, <2>3, CheckItemGood
  <2> HIDE DEF r
  <2>7. Good(r, own, alone) /\ r.clients = k.clients /\ OthersStay(k, r, i.id)
    BY <2>6 DEF Changed
  <2>8. \A l \in 1..N : l > b + 1 => m.items[l] \in Range(r.items)
    BY <2>5, <2>7 DEF OthersStay
  <2>9. LocalsKept(m, r)
    BY <2>1, <2>6 DEF LocalsKept
  <2>10. b + 1 \in 0..N
    BY <1>1
  <2>11. QED BY <2>1, <2>4, <2>7, <2>8, <2>9, <2>10
<1> HIDE DEF S
<1>9. N \in S
  <2>1. 0..N \subseteq S
    BY <1>1, <1>7, <1>8, UpTo
  <2>2. QED BY <2>1, <1>1
<1>10. QED BY <1>2, <1>9 DEF S

\* IsoMonitor_c's time event.
LEMMA TimeEventGood ==
  ASSUME NEW own, own \subseteq Name, NEW alone, NEW m, Good(m, own, alone)
  PROVE  /\ Good(TimeEvent(m), own, alone)
         /\ \A n \in own, a \in Address : FirmOn(m, n, a) => Firm(TimeEvent(m), n, a)
<1> DEFINE k == IdentTimeEvents(m)
           active == AnyActiveLocalItem(k)
           asking == SendRequest(k, active, NoItem)
           next == IF k.asked > RequestPeriod /\ active # NoItem THEN asking ELSE k
           checked == CheckItems(next, active)
           r == TimeEvent(m)
<1>1. r = IF k.asked = Never THEN k ELSE checked
  BY DEF TimeEvent, Aged
<1>2. Good(k, own, alone) /\ \A n \in own, a \in Address : FirmOn(m, n, a) => FirmOn(k, n, a)
  BY IdentTimeEventsGood
<1> HIDE DEF k
<1>3. active \in ItemRec \/ active = NoItem
  BY <1>2, ActiveIs
<1> HIDE DEF active
<1>4. Good(asking, own, alone) /\ LocalsKept(k, asking)
  BY <1>2, <1>3, RequestAllGood DEF LocalsKept
<1> HIDE DEF asking
<1>5. Good(next, own, alone) /\ LocalsKept(k, next)
  <2>1. LocalsKept(k, k)
    BY DEF LocalsKept
  <2>2. QED BY <1>2, <1>4, <2>1
<1> HIDE DEF next
<1>6. Good(checked, own, alone) /\ LocalsKept(next, checked)
  BY <1>3, <1>5, CheckItemsGood
<1> HIDE DEF checked, r
<1>7. Good(r, own, alone)
  BY <1>1, <1>2, <1>6
<1>8. LocalsKept(k, r)
  BY <1>1, <1>5, <1>6 DEF LocalsKept
<1>9. ASSUME NEW n \in own, NEW a \in Address, FirmOn(m, n, a) PROVE Firm(r, n, a)
  <2>1. FirmOn(k, n, a)
    BY <1>2, <1>9
  <2>2. QED BY <1>8, <2>1 DEF FirmOn, Firm, Running, LocalsKept
<1>10. QED BY <1>7, <1>9 DEF r

\* Registered, an identity starts again.
LEMMA RegisterGood ==
  ASSUME NEW own, NEW alone, NEW m, Good(m, own, alone), NEW n \in own, n \notin Range(m.clients)
  PROVE  Good(RegisterIdentItem(m, n), own, alone)
<1> DEFINE x == [m.ident EXCEPT ![n].state = "PreAddressClaim"]
           y == Append(m.clients, n)
           r == [m EXCEPT !.ident = x, !.clients = y]
<1>1. Typed(m, own) /\ Items(m, own) /\ (alone => Known(m, own)) /\ IsMonitor(m)
  BY DEF Good, Typed
<1>2. RegisterIdentItem(m, n) = r
  BY DEF RegisterIdentItem
<1>3. ~Running(m, n)
  BY <1>1 DEF Items
<1>4. /\ x \in [own -> IdentRec] /\ x[n].state = "PreAddressClaim" /\ x[n].item = m.ident[n].item
      /\ \A k \in own \ {n} : x[k] = m.ident[k]
  <2>1. m.ident \in [own -> IdentRec]
    BY <1>1 DEF Typed
  <2>2. [m.ident[n] EXCEPT !.state = "PreAddressClaim"] \in IdentRec
    BY <2>1 DEF IdentRec, IdentState
  <2>3. /\ x = [m.ident EXCEPT ![n] = [m.ident[n] EXCEPT !.state = "PreAddressClaim"]]
        /\ [m.ident[n] EXCEPT !.state = "PreAddressClaim"].state = "PreAddressClaim"
        /\ [m.ident[n] EXCEPT !.state = "PreAddressClaim"].item = m.ident[n].item
    BY <2>1 DEF IdentRec
  <2>4. QED BY <2>1, <2>2, <2>3
<1>5. y \in Seq(own) /\ Range(m.clients) \subseteq Range(y)
  <2>1. m.clients \in Seq(own)
    BY <1>1 DEF Typed
  <2>2. y \in Seq(own) /\ \A k \in DOMAIN m.clients : k \in DOMAIN y /\ y[k] = m.clients[k]
    BY <2>1
  <2> HIDE DEF y
  <2>3. QED BY <2>2 DEF Range
<1> HIDE DEF x, y
<1>6. /\ IsMonitor(r) /\ r.items = m.items /\ r.table = m.table /\ r.asked = m.asked
      /\ r.clients = y /\ r.ident = x /\ r.known = m.known /\ r.out = m.out
  BY <1>1 DEF IsMonitor, Fields
<1> HIDE DEF r
<1>7. Typed(r, own)
  BY <1>1, <1>4, <1>5, <1>6 DEF Typed
<1>8. \A k \in own : r.ident[k].item = m.ident[k].item /\ (Running(r, k) <=> Running(m, k))
  BY <1>3, <1>4, <1>6 DEF Running
<1>9. Items(r, own)
  BY <1>1, <1>5, <1>6, <1>8 DEF Items
<1>10. alone => Known(r, own)
  BY <1>1, <1>6 DEF Known
<1>11. QED BY <1>2, <1>7, <1>9, <1>10 DEF Good

\* Switched off, an identity is taken from the list of those that have time events.
LEMMA DeregisterGood ==
  ASSUME NEW own, NEW alone, NEW m, Good(m, own, alone), NEW n \in own
  PROVE  Good(DeregisterIdentItem(m, n), own, alone)
<1> DEFINE off == GoOffline(m, n, "OffExplicitly")
           others == Range(off.clients) \ {n}
           y == Selected(off.clients, others)
           r == [off EXCEPT !.clients = y]
<1>1. DeregisterIdentItem(m, n) = r
  BY DEF DeregisterIdentItem
<1>2. Good(off, own, alone) /\ off.ident[n].state = "OffExplicitly"
  <2>1. "OffExplicitly" \in IdentState \ {"AddressClaim", "ClaimedAddress"}
    BY DEF IdentState
  <2>2. QED BY <2>1, GoOfflineGood
<1> HIDE DEF off
<1>3. Typed(off, own) /\ Items(off, own) /\ (alone => Known(off, own)) /\ IsMonitor(off)
  BY <1>2 DEF Good, Typed
<1>4. y \in Seq(own) /\ Range(y) = Range(off.clients) \intersect others
  <2> HIDE DEF others
  <2>1. off.clients \in Seq(own)
    BY <1>3 DEF Typed
  <2>2. QED BY <2>1, SelectedIs
<1>5. \A k \in Range(off.clients) : k # n => k \in Range(y)
  BY <1>4
<1> HIDE DEF y
<1>6. /\ IsMonitor(r) /\ r.items = off.items /\ r.table = off.table /\ r.asked = off.asked
      /\ r.clients = y /\ r.ident = off.ident /\ r.known = off.known /\ r.out = off.out
  BY <1>3 DEF IsMonitor, Fields
<1> HIDE DEF r
<1>7. Typed(r, own)
  BY <1>3, <1>4, <1>6 DEF Typed
<1>8. ~Running(r, n) /\ \A k \in own : Running(r, k) <=> Running(off, k)
  BY <1>2, <1>6 DEF Running
<1>9. Items(r, own)
  BY <1>3, <1>5, <1>6, <1>8 DEF Items
<1>10. alone => Known(r, own)
  BY <1>3, <1>6 DEF Known
<1>11. QED BY <1>1, <1>7, <1>9, <1>10 DEF Good

\* An age grows up to where nothing depends on it.
LEMMA OlderTyped ==
  ASSUME NEW limit \in Nat, NEW age \in Never..limit
  PROVE  Older(age, limit) \in Never..limit
BY DEF Older, Never

\* As time passes only ages change.
LEMMA TickGood ==
  ASSUME NEW own, NEW alone, NEW m, Good(m, own, alone)
  PROVE  /\ Good(Tick(m), own, alone) /\ Tick(m).out = m.out
         /\ \A n \in own, a \in Address : Firm(m, n, a) => Firm(Tick(m), n, a)
<1> DEFINE a == Older(m.asked, RequestPeriod + 1)
           x == [n \in DOMAIN m.ident |-> OlderIdent(m.ident[n])]
           q == [k \in DOMAIN m.items |-> OlderItem(m.items[k])]
           r == [m EXCEPT !.asked = a, !.ident = x, !.items = q]
<1>1. Typed(m, own) /\ Items(m, own) /\ (alone => Known(m, own)) /\ IsMonitor(m)
  BY DEF Good, Typed
<1>2. Tick(m) = r
  BY DEF Tick
<1>3. a \in Never..(RequestPeriod + 1)
  <2> DEFINE limit == RequestPeriod + 1
  <2>1. limit \in Nat /\ m.asked \in Never..limit
    BY <1>1, ConstantsAre DEF Typed
  <2> HIDE DEF limit
  <2>2. Older(m.asked, limit) \in Never..limit
    BY <2>1, OlderTyped
  <2>3. QED BY <2>2 DEF limit
<1>4. \A e \in IdentRec : OlderIdent(e) \in IdentRec /\ OlderIdent(e).state = e.state /\ OlderIdent(e).item = e.item
  <2> SUFFICES ASSUME NEW e \in IdentRec
               PROVE  OlderIdent(e) \in IdentRec /\ OlderIdent(e).state = e.state /\ OlderIdent(e).item = e.item
    OBVIOUS
  <2>1. Older(e.asked, PreWait + 1) \in Never..(PreWait + 1)
    BY ConstantsAre, OlderTyped DEF IdentRec
  <2>2. QED BY <2>1 DEF IdentRec, OlderIdent
<1>5. \A i \in ItemRec : /\ OlderItem(i) \in ItemRec /\ OlderItem(i).id = i.id /\ OlderItem(i).name = i.name
                         /\ OlderItem(i).nr = i.nr /\ OlderItem(i).state = i.state /\ OlderItem(i).local = i.local
  <2> SUFFICES ASSUME NEW i \in ItemRec
               PROVE  /\ OlderItem(i) \in ItemRec /\ OlderItem(i).id = i.id /\ OlderItem(i).name = i.name
                      /\ OlderItem(i).nr = i.nr /\ OlderItem(i).state = i.state /\ OlderItem(i).local = i.local
    OBVIOUS
  <2> DEFINE asked == Older(i.asked, MaxAge)
             since == IF i.state = "AddressClaim" THEN Older(i.since, ClaimWait) ELSE 0
  <2>1. asked \in Never..MaxAge
    BY ConstantsAre, OlderTyped DEF ItemRec
  <2>2. since \in 0..ClaimWait
    <3>1. i.since \in 0..ClaimWait /\ ClaimWait \in Nat
      BY ConstantsAre, ItemFields
    <3>2. QED BY <3>1 DEF Older, Never
  <2>3. OlderItem(i) = [i EXCEPT !.asked = asked, !.since = since]
    BY DEF OlderItem
  <2> HIDE DEF asked, since
  <2>4. QED BY <2>1, <2>2, <2>3 DEF ItemRec
<1>6. /\ x \in [own -> IdentRec]
      /\ \A n \in own : x[n].state = m.ident[n].state /\ x[n].item = m.ident[n].item
  <2>1. m.ident \in [own -> IdentRec]
    BY <1>1 DEF Typed
  <2>2. QED BY <2>1, <1>4
<1>7. /\ q \in Seq(ItemRec) /\ DOMAIN q = DOMAIN m.items
      /\ \A k \in DOMAIN m.items :
           /\ q[k].id = m.items[k].id /\ q[k].name = m.items[k].name /\ q[k].nr = m.items[k].nr
           /\ q[k].state = m.items[k].state /\ q[k].local = m.items[k].local
  <2>1. DOMAIN m.items = 1..Len(m.items) /\ Len(m.items) \in Nat
    BY <1>1, ItemsAre
  <2>2. \A k \in DOMAIN m.items : m.items[k] \in ItemRec
    BY <1>1, ItemsAre
  <2>3. \A k \in DOMAIN m.items :
          /\ q[k] \in ItemRec /\ q[k].id = m.items[k].id /\ q[k].name = m.items[k].name
          /\ q[k].nr = m.items[k].nr
          /\ q[k].state = m.items[k].state /\ q[k].local = m.items[k].local
    BY <2>2, <1>5
  <2>4. q \in [1..Len(m.items) -> ItemRec]
    BY <2>1, <2>3
  <2>5. q \in Seq(ItemRec)
    BY <2>1, <2>4
  <2>6. DOMAIN q = DOMAIN m.items
    OBVIOUS
  <2> HIDE DEF q
  <2>7. QED BY <2>3, <2>5, <2>6
<1> HIDE DEF a, x, q
<1>8. /\ IsMonitor(r) /\ r.items = q /\ r.table = m.table /\ r.asked = a
      /\ r.clients = m.clients /\ r.ident = x /\ r.known = m.known /\ r.out = m.out
  BY <1>1 DEF IsMonitor, Fields
<1> HIDE DEF r
<1>9. Typed(r, own)
  BY <1>1, <1>3, <1>6, <1>7, <1>8 DEF Typed
<1>10. \A j \in Range(r.items) : \E h \in Range(m.items) :
         h.id = j.id /\ h.name = j.name /\ h.nr = j.nr /\ h.state = j.state /\ h.local = j.local
  BY <1>7, <1>8 DEF Range
<1>11. \A h \in Range(m.items) : \E j \in Range(r.items) :
         h.id = j.id /\ h.name = j.name /\ h.nr = j.nr /\ h.state = j.state /\ h.local = j.local
  BY <1>7, <1>8 DEF Range
<1>12. \A n \in own : Running(r, n) <=> Running(m, n)
  BY <1>6, <1>8 DEF Running
<1>13. Items(r, own)
  <2>1. \A k, l \in DOMAIN r.items : r.items[k].id = r.items[l].id => k = l
    BY <1>1, <1>7, <1>8 DEF Items
  <2>2. \A i \in Range(r.items) :
          IF i.local THEN i.name \in own /\ r.ident[i.name].item = i.id
          ELSE i.state \in {"ClaimedAddress", "AddressLost"}
    BY <1>1, <1>6, <1>8, <1>10 DEF Items
  <2>3. \A n \in own :
          IF Running(r, n) THEN \E i \in Range(r.items) : i.local /\ i.name = n
          ELSE r.ident[n].item = NoId
    BY <1>1, <1>6, <1>8, <1>11, <1>12 DEF Items
  <2>4. \A n \in own : Running(r, n) => n \in Range(r.clients)
    BY <1>1, <1>8, <1>12 DEF Items
  <2>5. QED BY <2>1, <2>2, <2>3, <2>4 DEF Items
<1>14. alone => Known(r, own)
  <2> SUFFICES ASSUME alone PROVE Known(r, own)
    OBVIOUS
  <2>1. \A j \in Range(r.items) : \E h \in Range(m.items) :
          h.id = j.id /\ h.name = j.name /\ h.local = j.local
    BY <1>10
  <2>2. \A h \in Range(m.items) : \E j \in Range(r.items) : h.id = j.id
    BY <1>11
  <2>3. \A j \in Range(r.items) : Waiting(j) \/ r.known[j.name] = j.nr
    BY <1>1, <1>8, <1>10 DEF Known, Waiting
  <2>4. \A n \in Name : r.known[n] # NotListed =>
          m.known[n] # NotListed \/ \E j \in Range(m.items) : j.name = n
    BY <1>8
  <2>5. QED BY <1>1, <1>9, <1>13, <2>1, <2>2, <2>3, <2>4, KnownAgain
<1>15. \A n \in own, b \in Address : Firm(m, n, b) => Firm(r, n, b)
  BY <1>11, <1>12 DEF Firm
<1>16. QED BY <1>2, <1>8, <1>9, <1>13, <1>14, <1>15 DEF Good

-----------------------------------------------------------------------------
(* The strongest NAME.                                                     *)

\* A chosen address stays where the list and the identities do.
LEMMA ListFirm ==
  ASSUME NEW m, NEW r, KeepsList(m, r), NEW n, NEW a, Firm(m, n, a)
  PROVE  Firm(r, n, a)
BY DEF KeepsList, Firm, Running

\* Another node's item is not the one of n.
LEMMA NotItsItem ==
  ASSUME NEW own, NEW m, Typed(m, own), Items(m, own), NEW i \in Range(m.items), NEW n,
         ~i.local \/ i.name # n
  PROVE  \A h \in Range(m.items) : h.local /\ h.name = n => h.id # i.id
<1>1. \A h \in Range(m.items) : h.id = i.id => h = i
  BY IdsDiffer
<1>2. QED BY <1>1

\* It stays where the item of n keeps it and no other identity gets an item.
LEMMA FirmAgain ==
  ASSUME NEW own, NEW alone, NEW m, Good(m, own, alone), NEW r, Good(r, own, alone),
         SameNames(m, r), NEW n \in own, NEW a, Firm(m, n, a),
         \A i \in Range(m.items) : i.local /\ i.name = n /\ i.state # "PreAddressClaim" =>
           \E j \in Range(r.items) :
             j.local /\ j.name = n /\ j.nr = i.nr /\ j.state # "PreAddressClaim"
  PROVE  Firm(r, n, a)
<1> SUFFICES ASSUME Running(r, n)
             PROVE  \E j \in Range(r.items) :
                      j.local /\ j.name = n /\ j.nr = a /\ j.state # "PreAddressClaim"
  BY DEF Firm
<1>1. Typed(m, own) /\ Items(m, own) /\ Typed(r, own) /\ Items(r, own)
  BY DEF Good
<1>2. \E j \in Range(r.items) : j.local /\ j.name = n
  BY <1>1 DEF Items
<1>3. \E h \in Range(m.items) : h.local /\ h.name = n
  BY <1>2 DEF SameNames
<1>4. Running(m, n)
  BY <1>1, <1>3, OwnItem
<1>5. QED BY <1>4 DEF Firm

\* It stays where only another item is changed.
LEMMA ChangedFirm ==
  ASSUME NEW own, NEW alone, NEW m, Good(m, own, alone), NEW r, NEW i \in Range(m.items),
         Changed(own, alone, m, r, i.id), NEW n \in own, NEW a, Firm(m, n, a),
         ~i.local \/ i.name # n
  PROVE  Firm(r, n, a)
<1>1. \A h \in Range(m.items) : h.local /\ h.name = n => h.id # i.id
  BY NotItsItem DEF Good
<1>2. \A h \in Range(m.items) : h.local /\ h.name = n => h \in Range(r.items)
  BY <1>1 DEF Changed, OthersStay
<1>3. Good(r, own, alone) /\ SameNames(m, r)
  BY DEF Changed
<1>4. QED BY <1>2, <1>3, FirmAgain

\* Another node is listed.
LEMMA InsertFirm ==
  ASSUME NEW own, NEW alone, NEW m, Good(m, own, alone), NEW name \in Name, NEW nr \in AnyAddr,
         NEW state \in HeardStates, NEW n, NEW a, Firm(m, n, a)
  PROVE  Firm(InsertIsoMember(m, NewItem(name, nr, state, FALSE), TRUE), n, a)
<1> DEFINE fresh == NewItem(name, nr, state, FALSE)
           listed == InsertIsoMember(m, fresh, FALSE)
           new == Head(listed.items)
           told == Announce(listed, "AddToMonitorList", new)
<1>1. fresh \in NewRec
  BY NewItemIs DEF HeardStates, ItemState
<1> HIDE DEF fresh
<1>2. Inserted(own, m, fresh, listed, new) /\ InsertIsoMember(m, fresh, TRUE) = told
  BY <1>1, InsertIs DEF Good
<1> HIDE DEF listed, new
<1>3. /\ Typed(listed, own) /\ listed.ident = m.ident /\ new \in ItemRec
      /\ Range(m.items) \subseteq Range(listed.items)
  BY <1>2 DEF Inserted
<1>4. new.name \in Name /\ new.nr \in AnyAddr
  BY <1>3, ItemFields
<1>5. told.items = listed.items /\ told.ident = listed.ident
  BY <1>3, <1>4, AnnounceIs
<1> HIDE DEF told
<1>6. Firm(told, n, a)
  BY <1>3, <1>5 DEF Firm, Running
<1>7. QED BY <1>2, <1>6 DEF fresh

\* An identity is switched off: n, or another.
LEMMA OfflineFirm ==
  ASSUME NEW own, NEW alone, NEW m, Good(m, own, alone), NEW k \in own,
         NEW state \in IdentState \ {"AddressClaim", "ClaimedAddress"},
         NEW n \in own, NEW a, Firm(m, n, a)
  PROVE  Firm(GoOffline(m, k, state), n, a)
<1> DEFINE r == GoOffline(m, k, state)
<1>1. /\ Range(r.items) = {j \in Range(m.items) : ~(j.local /\ j.name = k)}
      /\ r.ident[k].state = state
      /\ \A h \in own \ {k} : r.ident[h] = m.ident[h]
  BY GoOfflineGood
<1> HIDE DEF r
<1>2. Firm(r, n, a)
  BY <1>1 DEF Firm, Running
<1>3. QED BY <1>2 DEF r

\* The item of n defends its address, or another one is claimed.
LEMMA ClaimedFirm ==
  ASSUME NEW own, NEW alone, NEW m, Good(m, own, alone), NEW i \in Range(m.items),
         NEW sa \in AnyAddr, NEW n \in own, NEW a, Firm(m, n, a)
  PROVE  Firm(ProcessAddressClaimed(m, i, sa), n, a)
<1> DEFINE r == ProcessAddressClaimed(m, i, sa)
<1>1. Changed(own, alone, m, r, i.id)
  BY ClaimedGood
<1>2. CASE ~i.local \/ i.name # n
  <2> HIDE DEF r
  <2>1. Firm(r, n, a)
    BY <1>1, <1>2, ChangedFirm
  <2>2. QED BY <2>1 DEF r
<1>3. CASE i.local /\ i.name = n
  <2> DEFINE new == [i EXCEPT !.since = 0]
             w == With(m, new)
  <2>1. r = Sent(w, <<Claim(i)>>)
    BY <1>3 DEF ProcessAddressClaimed
  <2>2. Stands(m, i, alone) /\ i \in ItemRec
    BY ListedStands DEF Stands
  <2>3. 0 \in 0..ClaimWait
    BY ConstantsAre
  <2>4. /\ new \in ItemRec /\ new.id = i.id /\ new.name = i.name /\ new.nr = i.nr
        /\ new.local = i.local /\ new.state = i.state
    BY <2>2, <2>3 DEF ItemRec
  <2> HIDE DEF new
  <2>5. Stands(m, new, alone)
    BY <2>2, <2>4 DEF Stands, Fits, Waiting
  <2>6. new \in Range(w.items) /\ Changed(own, alone, m, w, new.id)
    BY <2>5, WithStands
  <2> HIDE DEF w
  <2>7. r.items = w.items
    <3>1. IsMonitor(w)
      BY <2>6 DEF Changed, Good, Typed
    <3>2. QED BY <2>1, <3>1 DEF Sent, IsMonitor, Fields
  <2>8. Good(r, own, alone) /\ SameNames(m, r)
    BY <1>1 DEF Changed
  <2> HIDE DEF r
  <2>9. \A h \in Range(m.items) : h.local /\ h.name = n => h = i
    <3>1. Typed(m, own) /\ Items(m, own)
      BY DEF Good
    <3>2. QED BY <1>3, <3>1, OwnItem
  <2>10. \A h \in Range(m.items) : h.local /\ h.name = n /\ h.state # "PreAddressClaim" =>
           \E j \in Range(r.items) :
             j.local /\ j.name = n /\ j.nr = h.nr /\ j.state # "PreAddressClaim"
    BY <2>4, <2>6, <2>7, <2>9
  <2>11. Firm(r, n, a)
    BY <2>8, <2>10, FirmAgain
  <2>12. QED BY <2>11 DEF r
<1>4. QED BY <1>2, <1>3

\* The claim of a node whose NAME is not stronger.
LEMMA AddressClaimFirm ==
  ASSUME NEW own, own \subseteq Name, NEW alone, NEW m, Good(m, own, alone), NEW name \in Name,
         NEW sa \in AnyAddr, NEW n \in own, n <= name, NEW a, Firm(m, n, a)
  PROVE  Firm(ProcessAddressClaim(m, name, sa), n, a)
<1> DEFINE named == ItemOfName(m, name)
           same == IF named.state = "PreAddressClaim" THEN NoItem ELSE named
           at == ItemAt(m, sa)
           there == IF at.state \in {"PreAddressClaim", "AddressLost"} THEN NoItem ELSE at
           Claims(k) == InsertIsoMember(k, NewItem(name, sa, "ClaimedAddress", FALSE), TRUE)
           Takes(k) == ProcessAddressClaimed(k, same, sa)
           TakesTable(k) == InTable(Takes(k), Item(Takes(k), same.id))
           stronger == Stronger(name, there)
           heard == ProcessAddressClaimed(m, there, sa)
           given == GiveUpAddress(m, there)
           freed == OutOfTable(heard, same)
           e1 == Claims(m)
           e2 == Claims(given)
           e3 == Claims(Evict(m, there))
           e4 == InsertIsoMember(heard, NewItem(name, NoAddress, "AddressLost", FALSE), TRUE)
           e5 == Claims(GoOffline(m, name, "OffUnable"))
           e6 == TakesTable(OutOfTable(m, same))
           e7 == Takes(m)
           e8 == TakesTable(Evict(m, there))
           e9 == GiveUpAddress(freed, same)
           e10 == TakesTable(given)
           r == ProcessAddressClaim(m, name, sa)
<1>1. r = CASE same = NoItem /\ there = NoItem -> e1
            [] same = NoItem /\ there # NoItem /\ ~there.local -> e2
            [] same = NoItem /\ there.local /\ stronger -> e3
            [] same = NoItem /\ there.local /\ ~stronger -> e4
            [] same.local -> e5
            [] same # NoItem /\ ~same.local /\ there = NoItem -> e6
            [] same # NoItem /\ ~same.local /\ there = same -> e7
            [] same # NoItem /\ ~same.local /\ there.local /\ stronger -> e8
            [] same # NoItem /\ ~same.local /\ there.local /\ ~stronger -> e9
            [] same # NoItem /\ ~same.local /\ there # NoItem /\ ~there.local /\ there # same -> e10
  BY DEF ProcessAddressClaim
<1>2. Typed(m, own) /\ Items(m, own)
  BY DEF Good
<1>3. ~NoItem.local
  BY NoItemFields
<1>4. \/ named = NoItem /\ \A i \in Range(m.items) : i.name # name
      \/ named \in Range(m.items) /\ named.name = name
  BY <1>2, ItemOfNameIs
<1>5. same # NoItem => same \in Range(m.items) /\ same.name = name
  BY <1>4
<1>6. there # NoItem => there \in Range(m.items)
  <2>1. at = NoItem \/ at \in Range(m.items)
    BY <1>2, ItemAtIs
  <2>2. QED BY <2>1
<1>7. \A i \in Range(m.items) : i \in ItemRec /\ (i.local => i.name \in own)
  BY <1>2, ItemsAre DEF Items
<1>8. stronger /\ there \in Range(m.items) => there.name # n
  <2>1. stronger => name < there.name
    BY DEF Stronger
  <2>2. there \in Range(m.items) => there.name \in Name
    BY <1>7, ItemFields
  <2> HIDE DEF stronger, there
  <2>3. QED BY <2>1, <2>2, ConstantsAre
<1>9. ASSUME NEW k, Good(k, own, alone), Firm(k, n, a) PROVE Firm(Claims(k), n, a)
  <2>1. "ClaimedAddress" \in HeardStates
    BY DEF HeardStates
  <2>2. QED BY <1>9, <2>1, InsertFirm
<1>10. ASSUME NEW k, Good(k, own, alone), same \in Range(k.items), Firm(k, n, a)
       PROVE  Firm(Takes(k), n, a) /\ Firm(TakesTable(k), n, a)
  <2>1. Good(Takes(k), own, alone) /\ Firm(Takes(k), n, a)
    <3> HIDE DEF same
    <3>1. Changed(own, alone, k, Takes(k), same.id)
      BY <1>10, ClaimedGood
    <3>2. Firm(Takes(k), n, a)
      BY <1>10, ClaimedFirm
    <3>3. QED BY <3>1, <3>2 DEF Changed
  <2> DEFINE i == Item(Takes(k), same.id)
  <2>2. TakesTable(k) = InTable(Takes(k), i)
    OBVIOUS
  <2> HIDE DEF Takes, TakesTable
  <2>3. i.nr \in AnyAddr /\ i.id \in Nat
    BY <2>1, FoundTyped
  <2> HIDE DEF i
  <2>4. KeepsList(Takes(k), TakesTable(k))
    BY <2>1, <2>2, <2>3, TableIs
  <2>5. QED BY <2>1, <2>4, ListFirm
<1> HIDE DEF named, same, at, there, stronger
<1>11. there \in Range(m.items) => Changed(own, alone, m, heard, there.id) /\ Firm(heard, n, a)
  BY ClaimedGood, ClaimedFirm
<1>12. there \in Range(m.items) => Changed(own, alone, m, given, there.id)
  <2>1. NoAddress \in AnyAddr
    BY DEF AnyAddr
  <2>2. there \in Range(m.items) => Stands(m, there, alone)
    BY ListedStands
  <2>3. QED BY <2>1, <2>2, ChangeGood DEF GiveUpAddress
<1>13. there \in Range(m.items) /\ there.local => Changed(own, alone, m, Evict(m, there), there.id)
  BY EvictGood
<1> HIDE DEF Claims, Takes, TakesTable, heard, given
<1>14. there \in Range(m.items) /\ ~there.local => Good(given, own, alone) /\ Firm(given, n, a)
  BY <1>12, ChangedFirm DEF Changed
<1>15. there \in Range(m.items) /\ there.local /\ stronger =>
         Good(Evict(m, there), own, alone) /\ Firm(Evict(m, there), n, a)
  BY <1>8, <1>13, ChangedFirm DEF Changed
<1>16. Firm(e1, n, a)
  BY <1>9
<1>17. there # NoItem /\ ~there.local => Firm(e2, n, a)
  BY <1>6, <1>9, <1>14
<1>18. there.local /\ stronger => Firm(e3, n, a)
  BY <1>3, <1>6, <1>9, <1>15
<1>19. there.local => Firm(e4, n, a)
  <2>1. "AddressLost" \in HeardStates /\ NoAddress \in AnyAddr
    BY DEF HeardStates, AnyAddr
  <2>2. there.local => Good(heard, own, alone) /\ Firm(heard, n, a)
    BY <1>3, <1>6, <1>11 DEF Changed
  <2>3. QED BY <2>1, <2>2, InsertFirm
<1>20. same.local => Firm(e5, n, a)
  <2>1. "OffUnable" \in IdentState \ {"AddressClaim", "ClaimedAddress"}
    BY DEF IdentState
  <2>2. same.local => name \in own
    BY <1>3, <1>5, <1>7
  <2> DEFINE off == GoOffline(m, name, "OffUnable")
  <2>3. same.local => Good(off, own, alone)
    BY <2>1, <2>2, GoOfflineGood
  <2>4. same.local => Firm(off, n, a)
    BY <2>1, <2>2, OfflineFirm
  <2> HIDE DEF off
  <2>5. same.local => Firm(Claims(off), n, a)
    BY <1>9, <2>3, <2>4
  <2>6. QED BY <2>5 DEF off
<1>21. same # NoItem => Firm(e6, n, a)
  <2>1. same # NoItem => same \in ItemRec /\ same.nr \in AnyAddr /\ same.id \in Nat
    BY <1>5, <1>7, ItemFields
  <2> DEFINE s == OutOfTable(m, same)
  <2>2. same # NoItem => Good(s, own, alone) /\ KeepsList(m, s)
    BY <2>1, TableIs
  <2> HIDE DEF s
  <2>3. same # NoItem => same \in Range(s.items) /\ Firm(s, n, a)
    BY <1>5, <2>2, ListFirm DEF KeepsList
  <2>4. same # NoItem => Firm(TakesTable(s), n, a)
    BY <1>10, <2>2, <2>3
  <2>5. QED BY <2>4 DEF s
<1>22. same # NoItem => Firm(e7, n, a)
  BY <1>5, <1>10
<1>23. same \in Range(m.items) /\ there \in Range(m.items) /\ same # there => same.id # there.id
  BY <1>2, IdsDiffer
<1>24. same # NoItem /\ ~same.local /\ there.local /\ stronger => Firm(e8, n, a)
  <2>1. same # NoItem /\ ~same.local /\ there.local /\ stronger =>
          same \in Range(Evict(m, there).items)
    BY <1>3, <1>5, <1>6, <1>13, <1>23 DEF Changed, OthersStay
  <2>2. QED BY <1>3, <1>6, <1>10, <1>15, <2>1
<1>25. ASSUME same # NoItem, ~same.local, there.local PROVE Firm(e9, n, a)
  <2>1. same \in Range(m.items) /\ there \in Range(m.items) /\ same.id # there.id
    BY <1>3, <1>5, <1>6, <1>23, <1>25
  <2>2. /\ Good(heard, own, alone) /\ Stands(heard, same, alone) /\ same \in Range(heard.items)
        /\ Firm(heard, n, a)
    BY <1>11, <2>1, OtherStays
  <2>3. same.nr \in AnyAddr /\ same.id \in Nat
    BY <1>7, <2>1, ItemFields
  <2>4. Good(freed, own, alone) /\ KeepsList(heard, freed)
    BY <2>2, <2>3, TableIs
  <2> HIDE DEF freed
  <2>5. Stands(freed, same, alone) /\ same \in Range(freed.items) /\ Firm(freed, n, a)
    BY <2>2, <2>4, StillStands, ListFirm DEF KeepsList
  <2>6. NoAddress \in AnyAddr
    BY DEF AnyAddr
  <2>7. Changed(own, alone, freed, ChangeAddress(freed, same, NoAddress), same.id)
    BY <2>4, <2>5, <2>6, ChangeGood
  <2>8. QED BY <1>25, <2>4, <2>5, <2>7, ChangedFirm DEF GiveUpAddress
<1>26. same # NoItem /\ there # NoItem /\ ~there.local /\ there # same => Firm(e10, n, a)
  <2>1. same # NoItem /\ there # NoItem /\ there # same => same \in Range(given.items)
    BY <1>5, <1>6, <1>12, <1>23 DEF Changed, OthersStay
  <2>2. QED BY <1>6, <1>10, <1>14, <2>1
<1> HIDE DEF e1, e2, e3, e4, e5, e6, e7, e8, e9, e10, r
<1>27. Firm(r, n, a)
  BY <1>1, <1>3, <1>16, <1>17, <1>18, <1>19, <1>20, <1>21, <1>22, <1>24, <1>25, <1>26
<1>28. QED BY <1>27 DEF r

\* A request, which changes no address.
LEMMA RequestFirm ==
  ASSUME NEW own, NEW alone, NEW m, Good(m, own, alone), NEW sender, NEW sa,
         NEW receiver \in Resolved(m, sa), NEW msg, NEW n \in own, NEW a, Firm(m, n, a)
  PROVE  Firm(ProcessRequest(m, sender, receiver, msg), n, a)
<1> DEFINE last == SetLastIsoSaRequest(m)
           locals == {i \in Range(m.items) : i.local}
           all == SendSaClaims(last, Selected(m.items, locals))
           one == SendSaClaims(m, <<receiver>>)
<1>1. Typed(m, own) /\ Items(m, own)
  BY DEF Good
<1>2. \A k, items : IsMonitor(k) =>
        SendSaClaims(k, items).items = k.items /\ SendSaClaims(k, items).ident = k.ident
  BY DEF SendSaClaims, Sent, IsMonitor, Fields
<1>3. Firm(all, n, a)
  <2>1. /\ Good(last, own, alone) /\ last.ident = m.ident
        /\ \A i \in Range(m.items) : i.local => i \in Range(last.items)
    BY SetLastGood
  <2> HIDE DEF last
  <2>2. IsMonitor(last)
    BY <2>1 DEF Good, Typed
  <2>3. all.items = last.items /\ all.ident = last.ident
    BY <1>2, <2>2
  <2> HIDE DEF all
  <2>4. QED BY <2>1, <2>3 DEF Firm, Running
<1>4. Firm(one, n, a)
  <2>1. IsMonitor(m)
    BY <1>1 DEF Typed
  <2>2. one.items = m.items /\ one.ident = m.ident
    BY <1>2, <2>1
  <2> HIDE DEF one
  <2>3. QED BY <2>2 DEF Firm, Running
<1> DEFINE r == ProcessRequest(m, sender, receiver, msg)
<1>5. r \in {m, all, one}
  BY DEF ProcessRequest
<1> HIDE DEF all, one, r
<1>6. Firm(r, n, a)
  BY <1>3, <1>4, <1>5
<1>7. QED BY <1>6 DEF r

\* Any message but the claim of a stronger node.
LEMMA ProcessedFirm ==
  ASSUME NEW own, own \subseteq Name, NEW alone, NEW m, Good(m, own, alone), NEW msg, NEW n \in own,
         msg.kind = "claim" => msg.name \in Name /\ msg.sa \in AnyAddr /\ n <= msg.name,
         NEW r \in Processed(m, msg), NEW a, Firm(m, n, a)
  PROVE  Firm(r, n, a)
<1>1. CASE msg.kind = "claim"
  <2>1. r = ProcessAddressClaim(m, msg.name, msg.sa)
    BY <1>1 DEF Processed
  <2>2. QED BY <1>1, <2>1, AddressClaimFirm
<1>2. CASE msg.kind # "claim"
  <2>1. PICK sender \in Resolved(m, msg.sa), receiver \in Resolved(m, msg.to) :
          r = ProcessRequest(m, sender, receiver, msg)
    BY <1>2 DEF Processed
  <2>2. QED BY <2>1, RequestFirm
<1>3. QED BY <1>1, <1>2

-----------------------------------------------------------------------------
(* All ECUs.                                                               *)

\* A scenario.
LEMMA ScenarioIs ==
  ASSUME NEW c \in Scenario
  PROVE  /\ \A e \in DOMAIN c.own : c.own[e] \subseteq Name
         /\ \A e, f \in DOMAIN c.own : c.own[e] \intersect c.own[f] # {} => e = f
         /\ c.wish \in [Name -> AnyAddr] /\ c.changes \in Nat /\ c.sent \in Nat
         /\ \A msg \in c.foreign : IsMessage(msg)
<1>1. IsScenario(c)
  BY AddressClaimAssumption
<1>2. \A e \in DOMAIN c.own : c.own[e] \in SUBSET Name
  BY <1>1 DEF IsScenario, Range
<1>3. c.wish \in [Name -> AnyAddr]
  BY <1>1 DEF IsScenario, AnyAddr
<1>4. QED BY <1>1, <1>2, <1>3 DEF IsScenario

\* What is on the bus is a message.
LEMMA WireIs ==
  ASSUME NEW msg \in OnWire
  PROVE  IsMessage(msg) /\ (msg.kind = "claim" => msg.name \in Name /\ msg.sa \in AnyAddr)
<1>1. CASE msg \in OwnMessage(Name)
  BY <1>1 DEF OwnMessage, IsMessage, AnyAddr
<1>2. CASE msg \in UNION {c.foreign : c \in Scenario}
  <2>1. IsMessage(msg)
    BY <1>2, ScenarioIs
  <2>2. QED BY <2>1 DEF IsMessage, AnyAddr
<1>3. QED BY <1>1, <1>2 DEF OnWire

\* The messages of an ECU are those of its identities.
LEMMA OwnMessageIs ==
  ASSUME NEW own, own \subseteq Name, NEW msg \in OwnMessage(own)
  PROVE  msg \in OnWire /\ (msg.kind = "claim" => msg.name \in own)
BY DEF OwnMessage, OnWire

\* What was sent is taken out.
LEMMA TakenGood ==
  ASSUME NEW own, NEW alone, NEW m, Good(m, own, alone)
  PROVE  LET r == [m EXCEPT !.out = <<>>] IN Good(r, own, alone) /\ r.out = <<>>
<1> DEFINE nothing == <<>>
           r == [m EXCEPT !.out = nothing]
<1>1. Typed(m, own) /\ IsMonitor(m) /\ nothing \in Seq(OwnMessage(own))
  BY DEF Good, Typed
<1> HIDE DEF nothing
<1>2. /\ IsMonitor(r) /\ r.items = m.items /\ r.table = m.table /\ r.asked = m.asked
      /\ r.clients = m.clients /\ r.ident = m.ident /\ r.known = m.known /\ r.out = nothing
  BY <1>1, OutSet
<1> HIDE DEF r
<1>3. Typed(r, own)
  BY <1>1, <1>2 DEF Typed
<1>4. Good(r, own, alone)
  BY <1>2, <1>3, KeptGood DEF KeepsList
<1>5. QED BY <1>2, <1>4 DEF r, nothing

\* A monitor begins with nothing in its list and all identities off.
LEMMA NewGood ==
  ASSUME NEW c \in Scenario, scenario = c, NEW own, own \subseteq Name, NEW alone
  PROVE  Good(NewMonitor(own), own, alone) /\ NewMonitor(own).out = <<>>
<1> DEFINE fs == [NoFilters EXCEPT !.boxes = [k \in DOMAIN Listening(own) |-> NewBox(Listening(own)[k])]]
           x == [n \in own |-> [state |-> "OffExplicitly", item |-> NoId,
                                sa |-> scenario.wish[n], asked |-> Never]]
           t == [a \in Address |-> NoId]
           y == [n \in Name |-> NotListed]
           r == NewMonitor(own)
<1>1. r = [filters |-> fs, items |-> <<>>, table |-> t, asked |-> Never, clients |-> <<>>,
           ident |-> x, known |-> y, out |-> <<>>]
  BY DEF NewMonitor
<1>2. x \in [own -> IdentRec]
  <2>1. \A n \in own : scenario.wish[n] \in AnyAddr
    BY ScenarioIs
  <2>2. Never \in Never..(PreWait + 1) /\ NoId \in Nat
    BY ConstantsAre
  <2>3. QED BY <2>1, <2>2 DEF IdentRec, IdentState
<1>3. \A n \in own : x[n].state = "OffExplicitly" /\ x[n].item = NoId
  OBVIOUS
<1>4. t \in [Address -> Nat] /\ y \in [Name -> AnyAddr \union {NotListed}] /\ \A n \in Name : y[n] = NotListed
  BY ConstantsAre
<1> HIDE DEF fs, x, t, y, r
<1>5. /\ IsMonitor(r) /\ r.items = <<>> /\ r.table = t /\ r.asked = Never /\ r.clients = <<>>
      /\ r.ident = x /\ r.known = y /\ r.out = <<>>
  BY <1>1 DEF IsMonitor, Fields
<1>6. Never \in Never..(RequestPeriod + 1)
  BY ConstantsAre
<1>7. <<>> \in Seq(ItemRec) /\ <<>> \in Seq(own) /\ <<>> \in Seq(OwnMessage(own))
  OBVIOUS
<1>8. Typed(r, own)
  BY <1>2, <1>4, <1>5, <1>6, <1>7 DEF Typed
<1>9. DOMAIN r.items = {} /\ Range(r.items) = {}
  BY <1>5 DEF Range
<1>10. \A n \in own : ~Running(r, n)
  BY <1>3, <1>5 DEF Running
<1>11. Items(r, own)
  BY <1>3, <1>5, <1>9, <1>10 DEF Items
<1>12. Known(r, own)
  BY <1>4, <1>5, <1>9 DEF Known
<1>13. QED BY <1>5, <1>8, <1>11, <1>12 DEF Good, r

\* What is under way to an ECU.
Inbox(q, e) ==
  /\ q \in Seq(OnWire)
  /\ \A msg \in Range(q) : msg.kind = "claim" =>
       msg.name \in (Own \ scenario.own[e]) \union ForeignNames

\* The elements of two sequences, one after the other.
LEMMA JoinedIs ==
  ASSUME NEW S, NEW q \in Seq(S), NEW r \in Seq(S)
  PROVE  q \o r \in Seq(S) /\ Range(q \o r) = Range(q) \union Range(r)
<1> DEFINE t == q \o r
           L == Len(q)
           R == Len(r)
<1>1. /\ t \in Seq(S) /\ L \in Nat /\ R \in Nat /\ DOMAIN t = 1..(L + R)
      /\ DOMAIN q = 1..L /\ DOMAIN r = 1..R
      /\ \A k \in 1..L : t[k] = q[k]
      /\ \A k \in (L + 1)..(L + R) : t[k] = r[k - L]
  OBVIOUS
<1> HIDE DEF t, L, R
<1>2. \A k \in 1..(L + R) : k \in 1..L \/ (k \in (L + 1)..(L + R) /\ k - L \in 1..R)
  BY <1>1
<1>3. \A k \in 1..R : k + L \in (L + 1)..(L + R) /\ k + L \in 1..(L + R) /\ (k + L) - L = k
  BY <1>1
<1>4. \A k \in 1..R : t[k + L] = r[k]
  BY <1>1, <1>3
<1>5. 1..L \subseteq 1..(L + R)
  BY <1>1
<1>6. Range(t) \subseteq Range(q) \union Range(r)
  BY <1>1, <1>2 DEF Range
<1>7. Range(q) \subseteq Range(t) /\ Range(r) \subseteq Range(t)
  <2>1. \A k \in DOMAIN q : k \in DOMAIN t /\ t[k] = q[k]
    BY <1>1, <1>5
  <2>2. \A k \in DOMAIN r : k + L \in DOMAIN t /\ t[k + L] = r[k]
    BY <1>1, <1>3, <1>4
  <2>3. QED BY <2>1, <2>2, Zenon DEF Range
<1>8. QED BY <1>1, <1>6, <1>7 DEF t

\* What an ECU sends may be under way to another.
LEMMA InboxGrows ==
  ASSUME scenario \in Scenario, NEW e \in OnBus, NEW f \in OnBus, e # f, NEW q, Inbox(q, f),
         NEW msgs \in Seq(OwnMessage(scenario.own[e]))
  PROVE  Inbox(q \o msgs, f)
<1> DEFINE own == scenario.own[e]
<1>1. own \subseteq Name /\ own \subseteq Own /\ own \intersect scenario.own[f] = {}
  BY ScenarioIs DEF OnBus, Own, Range
<1>2. \A msg \in OwnMessage(own) : msg \in OnWire /\ (msg.kind = "claim" => msg.name \in own)
  BY <1>1, OwnMessageIs
<1>3. q \in Seq(OnWire) /\ msgs \in Seq(OwnMessage(own))
  BY DEF Inbox
<1> HIDE DEF own
<1>4. msgs \in Seq(OnWire) /\ \A msg \in Range(msgs) : msg \in OwnMessage(own)
  BY <1>2, <1>3 DEF Range
<1>5. q \o msgs \in Seq(OnWire) /\ Range(q \o msgs) = Range(q) \union Range(msgs)
  BY <1>3, <1>4, JoinedIs
<1>6. QED BY <1>1, <1>2, <1>4, <1>5 DEF Inbox, own

\* A message is taken from those under way.
LEMMA InboxTaken ==
  ASSUME NEW e, NEW q, Inbox(q, e), q # <<>>
  PROVE  /\ Inbox(Tail(q), e) /\ Head(q) \in OnWire
         /\ Head(q).kind = "claim" => Head(q).name \in (Own \ scenario.own[e]) \union ForeignNames
<1>1. q \in Seq(OnWire)
  BY DEF Inbox
<1>2. Head(q) \in Range(q) /\ Head(q) \in OnWire
  BY <1>1 DEF Range
<1>3. Tail(q) \in Seq(OnWire) /\ Range(Tail(q)) \subseteq Range(q)
  BY <1>1 DEF Range
<1>4. QED BY <1>2, <1>3 DEF Inbox

-----------------------------------------------------------------------------
(* The steps.                                                              *)

\* What IInv says of every ECU.
Consistent(e) ==
  Good(ecu[e], scenario.own[e], NoImpostor) /\ ecu[e].out = <<>> /\ Inbox(bus[e], e)

\* The invariant, ECU by ECU.
LEMMA IInvIs ==
  IInv <=> /\ scenario \in Scenario
           /\ DOMAIN ecu = OnBus /\ ran \subseteq OnBus
           /\ changes \in 0..scenario.changes /\ sent \in 0..scenario.sent
           /\ DOMAIN bus = OnBus /\ bus = [e \in OnBus |-> bus[e]]
           /\ \A e \in OnBus : Consistent(e)
<1>1. bus \in [OnBus -> Seq(OnWire)] <=>
        /\ DOMAIN bus = OnBus /\ bus = [e \in OnBus |-> bus[e]]
        /\ \A e \in OnBus : bus[e] \in Seq(OnWire)
  OBVIOUS
<1>2. QED BY <1>1 DEF IInv, Consistent, Inbox

\* All is consistent in the beginning.
LEMMA InitKeeps == Init => IInv
<1> SUFFICES ASSUME Init PROVE IInv
  OBVIOUS
<1>1. scenario \in Scenario /\ scenario.changes \in Nat /\ scenario.sent \in Nat
  BY ScenarioIs DEF Init
<1>2. \A e \in OnBus : scenario.own[e] \subseteq Name
  BY <1>1, ScenarioIs DEF OnBus
<1>3. \A e \in OnBus : Good(ecu[e], scenario.own[e], NoImpostor) /\ ecu[e].out = <<>>
  BY <1>1, <1>2, NewGood DEF Init
<1>4. \A e \in OnBus : bus[e] = <<>>
  BY DEF Init
<1>5. bus \in [OnBus -> Seq(OnWire)]
  BY DEF Init
<1>6. DOMAIN ecu = OnBus /\ ran \subseteq OnBus /\ changes \in 0..scenario.changes /\ sent \in 0..scenario.sent
  BY <1>1 DEF Init
<1>7. \A e \in OnBus : \A msg \in Range(bus[e]) : FALSE
  BY <1>4 DEF Range
<1>8. QED BY <1>1, <1>3, <1>5, <1>6, <1>7 DEF IInv

\* The ECU e has become m, and the others get what it sends.
LEMMA BecomesKeeps ==
  ASSUME IInv, UNCHANGED scenario, NEW e \in OnBus, NEW m,
         Good(m, scenario.own[e], NoImpostor), NEW rest, Inbox(rest, e),
         ecu' = [ecu EXCEPT ![e] = [m EXCEPT !.out = <<>>]],
         bus' = [f \in OnBus |-> IF f = e THEN rest ELSE bus[f] \o m.out]
  PROVE  /\ DOMAIN ecu' = OnBus /\ DOMAIN bus' = OnBus /\ bus' = [f \in OnBus |-> bus'[f]]
         /\ \A f \in OnBus : Good(ecu'[f], scenario.own[f], NoImpostor) /\ ecu'[f].out = <<>>
                             /\ Inbox(bus'[f], f)
<1>1. /\ scenario \in Scenario /\ DOMAIN ecu = OnBus
      /\ \A f \in OnBus : Good(ecu[f], scenario.own[f], NoImpostor) /\ ecu[f].out = <<>>
                          /\ Inbox(bus[f], f)
  BY IInvIs DEF Consistent
<1> DEFINE new == [m EXCEPT !.out = <<>>]
<1>2. Good(new, scenario.own[e], NoImpostor) /\ new.out = <<>>
  BY TakenGood
<1>3. DOMAIN ecu' = OnBus /\ ecu'[e] = new /\ \A f \in OnBus \ {e} : ecu'[f] = ecu[f]
  BY <1>1
<1> HIDE DEF new
<1>4. m.out \in Seq(OwnMessage(scenario.own[e]))
  BY DEF Good, Typed
<1>5. \A f \in OnBus \ {e} : Inbox(bus[f] \o m.out, f)
  BY <1>1, <1>4, InboxGrows
<1>6. /\ DOMAIN bus' = OnBus /\ bus' = [f \in OnBus |-> bus'[f]] /\ bus'[e] = rest
      /\ \A f \in OnBus \ {e} : bus'[f] = bus[f] \o m.out
  OBVIOUS
<1>7. ASSUME NEW f \in OnBus
      PROVE  Good(ecu'[f], scenario.own[f], NoImpostor) /\ ecu'[f].out = <<>> /\ Inbox(bus'[f], f)
  <2>1. CASE f = e
    BY <1>2, <1>3, <1>6, <2>1
  <2>2. CASE f # e
    BY <1>1, <1>3, <1>5, <1>6, <2>2
  <2>3. QED BY <2>1, <2>2
<1>8. QED BY <1>3, <1>6, <1>7

\* Every step leaves all consistent.
LEMMA StepKeeps == IInv /\ [Next]_vars => IInv'
<1> SUFFICES ASSUME IInv, [Next]_vars PROVE IInv'
  OBVIOUS
<1> DEFINE Ecus == /\ DOMAIN ecu' = OnBus /\ DOMAIN bus' = OnBus /\ bus' = [f \in OnBus |-> bus'[f]]
                   /\ \A f \in OnBus : /\ Good(ecu'[f], scenario.own[f], NoImpostor)
                                       /\ ecu'[f].out = <<>> /\ Inbox(bus'[f], f)
           Counts == /\ ran' \subseteq OnBus
                     /\ changes' \in 0..scenario.changes /\ sent' \in 0..scenario.sent
<1>1. /\ scenario \in Scenario /\ DOMAIN ecu = OnBus /\ ran \subseteq OnBus
      /\ changes \in 0..scenario.changes /\ sent \in 0..scenario.sent
      /\ \A e \in OnBus : Good(ecu[e], scenario.own[e], NoImpostor)
      /\ \A e \in OnBus : ecu[e].out = <<>> /\ Inbox(bus[e], e)
      /\ DOMAIN bus = OnBus /\ bus = [e \in OnBus |-> bus[e]]
  BY IInvIs DEF Consistent
<1>2. /\ scenario.changes \in Nat /\ scenario.sent \in Nat
      /\ \A e \in OnBus : scenario.own[e] \subseteq Name /\ scenario.own[e] \subseteq Own
      /\ \A msg \in scenario.foreign : msg \in OnWire
  <2>1. \A e \in OnBus : scenario.own[e] \subseteq Own
    BY DEF OnBus, Own, Range
  <2>2. \A msg \in scenario.foreign : msg \in OnWire
    BY <1>1 DEF OnWire
  <2>3. QED BY <1>1, <2>1, <2>2, ScenarioIs DEF OnBus
<1>3. ASSUME UNCHANGED scenario, Ecus, Counts PROVE IInv'
  <2>1. /\ OnBus' = OnBus /\ Own' = Own /\ ForeignNames' = ForeignNames /\ NoImpostor' = NoImpostor
        /\ scenario' = scenario
    BY <1>3 DEF OnBus, Own, ForeignNames, NoImpostor
  <2>2. bus' \in [OnBus -> Seq(OnWire)]
    BY <1>3 DEF Inbox
  <2>3. \A f \in OnBus : \A msg \in Range(bus'[f]) : msg.kind = "claim" =>
          msg.name \in (Own \ scenario.own[f]) \union ForeignNames
    BY <1>3 DEF Inbox
  <2>4. \A f \in OnBus : Good(ecu'[f], scenario.own[f], NoImpostor) /\ ecu'[f].out = <<>>
    BY <1>3
  <2>5. /\ DOMAIN ecu' = OnBus /\ ran' \subseteq OnBus
        /\ changes' \in 0..scenario.changes /\ sent' \in 0..scenario.sent
    BY <1>3
  <2>6. QED BY <1>1, <2>1, <2>2, <2>3, <2>4, <2>5 DEF IInv
<1>4. ASSUME UNCHANGED scenario, NEW e \in OnBus, NEW m, Good(m, scenario.own[e], NoImpostor), Becomes(e, m)
      PROVE  Ecus
  <2>1. /\ ecu' = [ecu EXCEPT ![e] = [m EXCEPT !.out = <<>>]]
        /\ bus' = [f \in OnBus |-> IF f = e THEN bus[e] ELSE bus[f] \o m.out]
    BY <1>4 DEF Becomes
  <2>2. Inbox(bus[e], e)
    BY <1>1
  <2>3. QED BY <1>4, <2>1, <2>2, BecomesKeeps
<1>5. ASSUME UNCHANGED scenario, NEW e \in OnBus, NEW m, Good(m, scenario.own[e], NoImpostor), Changes(e, m)
      PROVE  IInv'
  <2>1. Ecus
    BY <1>4, <1>5 DEF Changes
  <2>2. Counts
    BY <1>1, <1>2, <1>5 DEF Changes
  <2>3. QED BY <1>3, <1>5, <2>1, <2>2
<1> HIDE DEF Ecus, Counts
<1>6. ASSUME UNCHANGED scenario, NEW e \in OnBus, NEW n \in scenario.own[e], Register(e, n) PROVE IInv'
  <2>1. n \notin Range(ecu[e].clients)
    BY <1>6 DEF Register, Range
  <2>2. Good(RegisterIdentItem(ecu[e], n), scenario.own[e], NoImpostor)
    BY <1>1, <1>6, <2>1, RegisterGood
  <2>3. Changes(e, RegisterIdentItem(ecu[e], n))
    BY <1>6 DEF Register
  <2>4. QED BY <1>5, <1>6, <2>2, <2>3
<1>7. ASSUME UNCHANGED scenario, NEW e \in OnBus, NEW n \in scenario.own[e], Deregister(e, n) PROVE IInv'
  <2>1. Good(DeregisterIdentItem(ecu[e], n), scenario.own[e], NoImpostor)
    BY <1>1, <1>7, DeregisterGood
  <2>2. Changes(e, DeregisterIdentItem(ecu[e], n))
    BY <1>7 DEF Deregister
  <2>3. QED BY <1>5, <1>7, <2>1, <2>2
<1>8. ASSUME UNCHANGED scenario, NEW e \in OnBus, NEW n \in scenario.own[e],
             RestartWithPreAddressClaim(e, n)
      PROVE  IInv'
  <2>1. "PreAddressClaim" \in IdentState \ {"AddressClaim", "ClaimedAddress"}
    BY DEF IdentState
  <2>2. Good(Restart(ecu[e], n), scenario.own[e], NoImpostor)
    BY <1>1, <1>8, <2>1, GoOfflineGood DEF Restart
  <2>3. Changes(e, Restart(ecu[e], n))
    BY <1>8 DEF RestartWithPreAddressClaim
  <2>4. QED BY <1>5, <1>8, <2>2, <2>3
<1>9. ASSUME UNCHANGED scenario, NEW e \in OnBus, RunTimeEvent(e) PROVE IInv'
  <2>1. Good(TimeEvent(ecu[e]), scenario.own[e], NoImpostor)
    BY <1>1, <1>2, <1>9, TimeEventGood
  <2>2. Becomes(e, TimeEvent(ecu[e])) /\ ran' = ran \union {e} /\ UNCHANGED <<changes, sent>>
    BY <1>9 DEF RunTimeEvent
  <2>3. Ecus
    BY <1>4, <1>9, <2>1, <2>2
  <2>4. Counts
    BY <1>1, <1>9, <2>2 DEF Counts
  <2>5. QED BY <1>3, <1>9, <2>3, <2>4
<1>10. ASSUME UNCHANGED scenario, NEW e \in OnBus, ProcessMsg(e) PROVE IInv'
  <2> DEFINE msg == Head(bus[e])
             rest == Tail(bus[e])
  <2>1. PICK m \in Processed(ecu[e], msg) :
          /\ ecu' = [ecu EXCEPT ![e] = [m EXCEPT !.out = <<>>]]
          /\ bus' = [f \in OnBus |-> IF f = e THEN Tail(bus[f]) ELSE bus[f] \o m.out]
    BY <1>10 DEF ProcessMsg
  <2>2. bus[e] # <<>> /\ UNCHANGED <<ran, changes, sent>>
    BY <1>10 DEF ProcessMsg
  <2>3. Inbox(bus[e], e) /\ Good(ecu[e], scenario.own[e], NoImpostor)
    BY <1>1, <1>10
  <2>4. /\ Inbox(rest, e) /\ msg \in OnWire
        /\ msg.kind = "claim" => msg.name \in (Own \ scenario.own[e]) \union ForeignNames
    BY <2>2, <2>3, InboxTaken
  <2>5. bus' = [f \in OnBus |-> IF f = e THEN rest ELSE bus[f] \o m.out]
    BY <2>1
  <2> HIDE DEF msg, rest
  <2>6. msg.kind = "claim" =>
          msg.name \in Name /\ msg.sa \in AnyAddr /\ (NoImpostor => msg.name \notin scenario.own[e])
    <3>1. msg.kind = "claim" => msg.name \in Name /\ msg.sa \in AnyAddr
      BY <2>4, WireIs
    <3>2. scenario.own[e] \subseteq Own
      BY <1>2, <1>10
    <3>3. NoImpostor => ForeignNames \intersect Own = {}
      BY DEF NoImpostor
    <3>4. QED BY <2>4, <3>1, <3>2, <3>3
  <2>7. Good(m, scenario.own[e], NoImpostor)
    BY <2>1, <2>3, <2>6, ProcessedGood
  <2>8. Ecus
    BY <1>10, <2>1, <2>4, <2>5, <2>7, BecomesKeeps DEF Ecus
  <2>9. Counts
    BY <1>1, <2>2 DEF Counts
  <2>10. QED BY <1>3, <1>10, <2>8, <2>9
<1>11. ASSUME UNCHANGED scenario, ForeignMessage PROVE IInv'
  <2>1. PICK msg \in scenario.foreign : bus' = [e \in OnBus |-> Append(bus[e], msg)]
    BY <1>11 DEF ForeignMessage
  <2>2. UNCHANGED <<ecu, ran, changes>> /\ sent < scenario.sent /\ sent' = sent + 1
    BY <1>11 DEF ForeignMessage
  <2>3. msg \in OnWire /\ (msg.kind = "claim" => msg.name \in ForeignNames)
    BY <1>2, <2>1 DEF ForeignNames
  <2>4. ASSUME NEW f \in OnBus PROVE Inbox(Append(bus[f], msg), f)
    <3> DEFINE q == bus[f]
    <3>1. Inbox(q, f)
      BY <1>1
    <3>2. q \in Seq(OnWire)
      BY <3>1 DEF Inbox
    <3> HIDE DEF q
    <3>3. Append(q, msg) \in Seq(OnWire) /\ \A x \in Range(Append(q, msg)) : x = msg \/ x \in Range(q)
      BY <2>3, <3>2 DEF Range
    <3>4. Inbox(Append(q, msg), f)
      BY <2>3, <3>1, <3>3 DEF Inbox
    <3>5. QED BY <3>4 DEF q
  <2>5. Ecus
    BY <1>1, <2>1, <2>2, <2>4 DEF Ecus
  <2>6. Counts
    BY <1>1, <1>2, <2>2 DEF Counts
  <2>7. QED BY <1>3, <1>11, <2>5, <2>6
<1>12. ASSUME UNCHANGED scenario, TimePasses PROVE IInv'
  <2>1. ecu' = [e \in OnBus |-> Tick(ecu[e])] /\ ran' = {} /\ UNCHANGED <<bus, changes, sent>>
    BY <1>12 DEF TimePasses
  <2>2. \A e \in OnBus : Good(Tick(ecu[e]), scenario.own[e], NoImpostor) /\ Tick(ecu[e]).out = <<>>
    <3> SUFFICES ASSUME NEW e \in OnBus
                 PROVE  Good(Tick(ecu[e]), scenario.own[e], NoImpostor) /\ Tick(ecu[e]).out = <<>>
      OBVIOUS
    <3>1. Good(ecu[e], scenario.own[e], NoImpostor) /\ ecu[e].out = <<>>
      BY <1>1
    <3>2. Good(Tick(ecu[e]), scenario.own[e], NoImpostor)
      BY <3>1, TickGood
    <3>3. Tick(ecu[e]).out = ecu[e].out
      BY <3>1, TickGood
    <3>4. QED BY <3>1, <3>2, <3>3
  <2>3. Ecus
    BY <1>1, <2>1, <2>2 DEF Ecus
  <2>4. Counts
    BY <1>1, <2>1 DEF Counts
  <2>5. QED BY <1>3, <1>12, <2>3, <2>4
<1>13. CASE UNCHANGED vars
  <2>1. UNCHANGED <<scenario, ecu, bus, ran, changes, sent>>
    BY <1>13 DEF vars
  <2>2. Ecus /\ Counts
    BY <1>1, <2>1 DEF Ecus, Counts
  <2>3. QED BY <1>3, <2>1, <2>2
<1>14. QED BY <1>6, <1>7, <1>8, <1>9, <1>10, <1>11, <1>12, <1>13 DEF Next, Step

-----------------------------------------------------------------------------
(* What follows.                                                           *)

\* The types of what an ECU keeps, as the invariant TypeOK names them.
LEMMA MonitorTyped ==
  ASSUME NEW own, NEW m, Typed(m, own)
  PROVE  /\ \A i \in Range(m.items) : IsItem(i)
         /\ \A a \in Address : m.table[a] \in Nat
         /\ m.asked \in Never..(RequestPeriod + 1)
         /\ Range(m.clients) \subseteq DOMAIN m.ident /\ DOMAIN m.ident = own
         /\ \A n \in DOMAIN m.ident : m.ident[n].state \in IdentState
<1>1. \A i \in Range(m.items) : IsItem(i)
  <2> SUFFICES ASSUME NEW i \in Range(m.items) PROVE IsItem(i)
    OBVIOUS
  <2>1. i \in ItemRec
    BY ItemsAre
  <2>2. QED BY <2>1, ItemFields DEF IsItem, AnyAddr
<1>2. DOMAIN m.ident = own /\ \A n \in own : m.ident[n] \in IdentRec
  BY DEF Typed
<1>3. \A n \in own : m.ident[n].state \in IdentState
  BY <1>2 DEF IdentRec
<1>4. Range(m.clients) \subseteq own
  <2>1. m.clients \in Seq(own)
    BY DEF Typed
  <2>2. QED BY <2>1 DEF Range
<1>5. m.asked \in Never..(RequestPeriod + 1) /\ \A a \in Address : m.table[a] \in Nat
  BY DEF Typed
<1>6. QED BY <1>1, <1>2, <1>3, <1>4, <1>5

\* The ECU of an identity, and its item there.
LEMMA HomeIs ==
  ASSUME NEW n \in Own
  PROVE  /\ Home(n) \in OnBus /\ n \in scenario.own[Home(n)]
         /\ ItemOf(n) = Item(ecu[Home(n)], ecu[Home(n)].ident[n].item)
<1>1. \E e \in OnBus : n \in scenario.own[e]
  BY DEF Own, OnBus, Range
<1>2. Home(n) \in OnBus /\ n \in scenario.own[Home(n)]
  BY <1>1 DEF Home
<1>3. QED BY <1>2 DEF ItemOf

\* The invariant says that identities and items fit together.
LEMMA IInvConsistent == IInv => IdentitiesConsistent
<1> SUFFICES ASSUME IInv PROVE IdentitiesConsistent
  OBVIOUS
<1>1. /\ DOMAIN ecu = OnBus /\ DOMAIN bus = OnBus /\ ran \subseteq OnBus
      /\ changes \in 0..scenario.changes /\ sent \in 0..scenario.sent
      /\ \A e \in OnBus : Consistent(e)
  BY IInvIs
<1>2. ASSUME NEW e \in OnBus
      PROVE  LET m == ecu[e] IN
             /\ \A i \in Range(m.items) : IsItem(i)
             /\ \A a \in Address : m.table[a] \in Nat
             /\ m.asked \in Never..(RequestPeriod + 1)
             /\ Range(m.clients) \subseteq DOMAIN m.ident /\ DOMAIN m.ident = scenario.own[e]
             /\ \A n \in DOMAIN m.ident : m.ident[n].state \in IdentState
             /\ m.out = <<>>
             /\ \A msg \in Range(bus[e]) : IsMessage(msg)
  <2> DEFINE m == ecu[e]
             own == scenario.own[e]
             q == bus[e]
  <2>1. Typed(m, own) /\ m.out = <<>> /\ q \in Seq(OnWire)
    BY <1>1 DEF Consistent, Good, Inbox
  <2> HIDE DEF m, own, q
  <2>2. \A msg \in Range(q) : IsMessage(msg)
    <3>1. \A msg \in Range(q) : msg \in OnWire
      BY <2>1 DEF Range
    <3>2. QED BY <3>1, WireIs
  <2>3. /\ \A i \in Range(m.items) : IsItem(i)
        /\ \A a \in Address : m.table[a] \in Nat
        /\ m.asked \in Never..(RequestPeriod + 1)
        /\ Range(m.clients) \subseteq DOMAIN m.ident /\ DOMAIN m.ident = own
        /\ \A n \in DOMAIN m.ident : m.ident[n].state \in IdentState
    BY <2>1, MonitorTyped
  <2>4. QED BY <2>1, <2>2, <2>3 DEF m, own, q
<1>3. TypeOK
  BY <1>1, <1>2 DEF TypeOK
<1>4. ASSUME NEW n \in Own
      PROVE  IF IdentOf(n).state \in {"AddressClaim", "ClaimedAddress"}
             THEN ItemOf(n).local /\ ItemOf(n).name = n
             ELSE IdentOf(n).item = NoId
  <2> DEFINE m == ecu[Home(n)]
             own == scenario.own[Home(n)]
  <2>1. Home(n) \in OnBus /\ n \in own /\ ItemOf(n) = Item(m, m.ident[n].item) /\ IdentOf(n) = m.ident[n]
    BY HomeIs DEF IdentOf
  <2>2. Typed(m, own) /\ Items(m, own)
    BY <1>1, <2>1 DEF Consistent, Good
  <2> HIDE DEF m, own
  <2>3. /\ Running(m, n) => Item(m, m.ident[n].item).local /\ Item(m, m.ident[n].item).name = n
        /\ ~Running(m, n) => m.ident[n].item = NoId
    BY <2>1, <2>2, OwnItem
  <2>4. QED BY <2>1, <2>3 DEF Running
<1>5. IdentListed
  BY <1>4 DEF IdentListed
<1>6. QED BY <1>3, <1>5 DEF IdentitiesConsistent

\* The invariant says that the handlers know what they need.
LEMMA IInvKnown == IInv => HandlersKnow
<1> SUFFICES ASSUME IInv, NoImpostor, NEW e \in OnBus
             PROVE  LET m == ecu[e] IN
                    /\ \A i \in Range(m.items) :
                         \/ i.local /\ i.state \in {"PreAddressClaim", "AddressClaim", "Off"}
                         \/ m.known[i.name] = i.nr
                    /\ \A n \in Name : m.known[n] # NotListed => ItemOfName(m, n) # NoItem
  BY DEF HandlersKnow
<1> DEFINE m == ecu[e]
           own == scenario.own[e]
<1>1. Typed(m, own) /\ Known(m, own)
  BY IInvIs DEF Consistent, Good
<1> HIDE DEF m, own
<1>2. \A i \in Range(m.items) : Waiting(i) \/ m.known[i.name] = i.nr
  BY <1>1 DEF Known
<1>3. ASSUME NEW n \in Name, m.known[n] # NotListed PROVE ItemOfName(m, n) # NoItem
  <2>1. \E i \in Range(m.items) : i.name = n
    BY <1>1, <1>3 DEF Known
  <2>2. ItemOfName(m, n) \in Range(m.items)
    BY <1>1, <2>1, ItemOfNameIs
  <2>3. QED BY <1>1, <2>2, ItemsAre, ItemFields
<1>4. QED BY <1>2, <1>3 DEF Waiting, m

\* The invariant always holds.
LEMMA IInvAlways == Spec => []IInv
BY InitKeeps, StepKeeps, PTL DEF Spec

\* IdentItem_c and IsoMonitor_c: after every call, message and time event an identity
\* points at a local item of its NAME exactly while it claims or has claimed, whatever
\* the others send, an impostor with its NAME included.
THEOREM IdentitiesStayConsistent == Spec => []IdentitiesConsistent
<1>1. IInv => IdentitiesConsistent
  BY IInvConsistent
<1>2. QED BY IInvAlways, <1>1, PTL

\* broadcastIsoItemModification2Clients: where nobody else uses an own NAME, the handlers
\* that follow the broadcasts know the address of every item, and of no node that is gone.
THEOREM HandlersAlwaysKnow == Spec => []HandlersKnow
<1>1. IInv => HandlersKnow
  BY IInvKnown
<1>2. QED BY IInvAlways, <1>1, PTL

\* An address in use is that of a running identity's item, which chose it.
LEMMA InUseIs ==
  ASSUME NEW own, NEW alone, NEW m, Good(m, own, alone), NEW n \in own,
         InUse(Item(m, m.ident[n].item))
  PROVE  /\ FirmOn(m, n, Item(m, m.ident[n].item).nr) /\ n \in Range(m.clients)
         /\ Item(m, m.ident[n].item).nr \in Address
         /\ \A a : Firm(m, n, a) => Item(m, m.ident[n].item).nr = a
<1> DEFINE i == Item(m, m.ident[n].item)
<1>1. Typed(m, own) /\ Items(m, own)
  BY DEF Good
<1>2. i.state \in {"AddressClaim", "ClaimedAddress"} /\ i.nr < NoAddress
  BY DEF InUse
<1>3. i # NoItem
  BY <1>2, NoItemFields
<1>4. /\ Running(m, n) /\ i \in Range(m.items) /\ i.local /\ i.name = n
      /\ \A j \in Range(m.items) : j.local /\ j.name = n => j = i
  BY <1>1, <1>3, OwnItem
<1> HIDE DEF i
<1>5. i.nr \in Address
  <2>1. i \in ItemRec
    BY <1>1, <1>4, ItemsAre
  <2>2. QED BY <1>2, <2>1, ItemFields, ConstantsAre
<1>6. FirmOn(m, n, i.nr)
  BY <1>2, <1>4 DEF FirmOn, Firm, Running
<1>7. \A a : Firm(m, n, a) => i.nr = a
  BY <1>4 DEF Firm
<1>8. n \in Range(m.clients)
  BY <1>1, <1>4 DEF Items
<1>9. QED BY <1>5, <1>6, <1>7, <1>8 DEF i

\* The strongest identity's address in use is there after every step.
LEMMA StepIsFirm ==
  ASSUME IInv, Next, NEW n \in Own, \A k \in Own \union ForeignNames : n <= k,
         NEW a \in Address, FirmOn(ecu[Home(n)], n, a), n \in Range(ecu[Home(n)].clients)
  PROVE  Firm(ecu'[Home(n)], n, a)
<1> DEFINE h == Home(n)
           own == scenario.own[h]
<1>1. /\ scenario \in Scenario /\ DOMAIN ecu = OnBus /\ UNCHANGED scenario
      /\ h \in OnBus /\ n \in own
  BY IInvIs, HomeIs DEF Next
<1>2. Good(ecu[h], own, NoImpostor) /\ Inbox(bus[h], h)
  BY <1>1, IInvIs DEF Consistent
<1>3. own \subseteq Name /\ own \subseteq Own
  BY <1>1, ScenarioIs DEF OnBus, Own, Range
<1>4. Firm(ecu[h], n, a) /\ FirmOn(ecu[h], n, a)
  BY DEF FirmOn
<1> HIDE DEF h, own
<1>5. ASSUME NEW m, Good(m, own, NoImpostor), Firm(m, n, a),
             ecu' = [ecu EXCEPT ![h] = [m EXCEPT !.out = <<>>]]
      PROVE  Firm(ecu'[h], n, a)
  <2> DEFINE r == [m EXCEPT !.out = <<>>]
  <2>1. IsMonitor(m)
    BY <1>5 DEF Good, Typed
  <2>2. r.items = m.items /\ r.ident = m.ident
    BY <2>1 DEF IsMonitor, Fields
  <2>3. ecu'[h] = r
    BY <1>1, <1>5
  <2> HIDE DEF r
  <2>4. QED BY <1>5, <2>2, <2>3 DEF Firm, Running
<1>6. ASSUME NEW e \in OnBus, e # h, NEW m, ecu' = [ecu EXCEPT ![e] = m]
      PROVE  Firm(ecu'[h], n, a)
  <2>1. ecu'[h] = ecu[h]
    BY <1>1, <1>6
  <2>2. QED BY <1>4, <2>1
<1>7. ASSUME NEW e \in OnBus, NEW k \in scenario.own[e], Register(e, k) PROVE Firm(ecu'[h], n, a)
  <2> DEFINE m == RegisterIdentItem(ecu[e], k)
  <2>1. ecu' = [ecu EXCEPT ![e] = [m EXCEPT !.out = <<>>]] /\ k \notin Range(ecu[e].clients)
    BY <1>7 DEF Register, Changes, Becomes, Range
  <2>2. CASE e = h
    <3>1. k \in own /\ k # n
      BY <1>7, <2>1, <2>2 DEF h, own
    <3>2. Good(m, own, NoImpostor)
      BY <1>2, <2>1, <2>2, <3>1, RegisterGood
    <3>3. m.items = ecu[h].items /\ m.ident[n] = ecu[h].ident[n]
      <4>1. IsMonitor(ecu[h]) /\ ecu[h].ident \in [own -> IdentRec]
        BY <1>2 DEF Good, Typed
      <4>2. m = [ecu[h] EXCEPT !.ident = [ecu[h].ident EXCEPT ![k].state = "PreAddressClaim"],
                               !.clients = Append(ecu[h].clients, k)]
        BY <2>2 DEF RegisterIdentItem
      <4>3. [ecu[h].ident EXCEPT ![k].state = "PreAddressClaim"][n] = ecu[h].ident[n]
        BY <1>1, <3>1, <4>1
      <4> DEFINE x == [ecu[h].ident EXCEPT ![k].state = "PreAddressClaim"]
                 y == Append(ecu[h].clients, k)
      <4>4. m = [ecu[h] EXCEPT !.ident = x, !.clients = y] /\ x[n] = ecu[h].ident[n]
        BY <4>2, <4>3
      <4> HIDE DEF x, y, m
      <4>5. m.items = ecu[h].items /\ m.ident = x
        BY <4>1, <4>4 DEF IsMonitor, Fields
      <4>6. QED BY <4>4, <4>5
    <3> HIDE DEF m
    <3>4. Firm(m, n, a)
      BY <1>4, <3>3 DEF Firm, Running
    <3>5. QED BY <1>5, <2>1, <2>2, <3>2, <3>4
  <2>3. CASE e # h
    BY <1>6, <2>1, <2>3
  <2>4. QED BY <2>2, <2>3
<1>8. ASSUME NEW e \in OnBus, NEW k \in scenario.own[e], Deregister(e, k) PROVE Firm(ecu'[h], n, a)
  <2> DEFINE off == GoOffline(ecu[e], k, "OffExplicitly")
             m == DeregisterIdentItem(ecu[e], k)
  <2>1. ecu' = [ecu EXCEPT ![e] = [m EXCEPT !.out = <<>>]]
    BY <1>8 DEF Deregister, Changes, Becomes
  <2>2. CASE e = h
    <3>1. k \in own /\ "OffExplicitly" \in IdentState \ {"AddressClaim", "ClaimedAddress"}
      BY <2>2 DEF own, IdentState
    <3>2. Good(m, own, NoImpostor) /\ Good(off, own, NoImpostor)
      BY <1>2, <2>2, <3>1, DeregisterGood, GoOfflineGood
    <3>3. Firm(off, n, a)
      BY <1>1, <1>2, <1>4, <2>2, <3>1, OfflineFirm
    <3>4. m.items = off.items /\ m.ident = off.ident
      <4>1. m = [off EXCEPT !.clients = Selected(off.clients, Range(off.clients) \ {k})]
        BY DEF DeregisterIdentItem
      <4>2. IsMonitor(off)
        BY <3>2 DEF Good, Typed
      <4> HIDE DEF m, off
      <4>3. QED BY <4>1, <4>2 DEF IsMonitor, Fields
    <3> HIDE DEF m, off
    <3>5. Firm(m, n, a)
      BY <3>3, <3>4 DEF Firm, Running
    <3>6. QED BY <1>5, <2>1, <2>2, <3>2, <3>5
  <2>3. CASE e # h
    BY <1>6, <2>1, <2>3
  <2>4. QED BY <2>2, <2>3
<1>9. ASSUME NEW e \in OnBus, NEW k \in scenario.own[e], RestartWithPreAddressClaim(e, k)
      PROVE  Firm(ecu'[h], n, a)
  <2> DEFINE m == Restart(ecu[e], k)
  <2>1. ecu' = [ecu EXCEPT ![e] = [m EXCEPT !.out = <<>>]]
    BY <1>9 DEF RestartWithPreAddressClaim, Changes, Becomes
  <2>2. CASE e = h
    <3>1. k \in own /\ "PreAddressClaim" \in IdentState \ {"AddressClaim", "ClaimedAddress"}
      BY <2>2 DEF own, IdentState
    <3>2. Good(m, own, NoImpostor)
      BY <1>2, <2>2, <3>1, GoOfflineGood DEF Restart
    <3>3. Firm(m, n, a)
      BY <1>1, <1>2, <1>4, <2>2, <3>1, OfflineFirm DEF Restart
    <3>4. QED BY <1>5, <2>1, <2>2, <3>2, <3>3
  <2>3. CASE e # h
    BY <1>6, <2>1, <2>3
  <2>4. QED BY <2>2, <2>3
<1>10. ASSUME NEW e \in OnBus, RunTimeEvent(e) PROVE Firm(ecu'[h], n, a)
  <2> DEFINE m == TimeEvent(ecu[e])
  <2>1. ecu' = [ecu EXCEPT ![e] = [m EXCEPT !.out = <<>>]]
    BY <1>10 DEF RunTimeEvent, Becomes
  <2>2. CASE e = h
    <3>1. Good(m, own, NoImpostor) /\ Firm(m, n, a)
      BY <1>1, <1>2, <1>3, <1>4, <2>2, TimeEventGood
    <3>2. QED BY <1>5, <2>1, <2>2, <3>1
  <2>3. CASE e # h
    BY <1>6, <2>1, <2>3
  <2>4. QED BY <2>2, <2>3
<1>11. ASSUME NEW e \in OnBus, ProcessMsg(e) PROVE Firm(ecu'[h], n, a)
  <2> DEFINE msg == Head(bus[e])
  <2>1. PICK m \in Processed(ecu[e], msg) : ecu' = [ecu EXCEPT ![e] = [m EXCEPT !.out = <<>>]]
    BY <1>11 DEF ProcessMsg
  <2>2. CASE e = h
    <3>1. bus[h] # <<>>
      BY <1>11, <2>2 DEF ProcessMsg
    <3>2. msg \in OnWire /\ (msg.kind = "claim" => msg.name \in (Own \ scenario.own[h]) \union ForeignNames)
      BY <1>2, <2>2, <3>1, InboxTaken
    <3> HIDE DEF msg
    <3>3. msg.kind = "claim" =>
            msg.name \in Name /\ msg.sa \in AnyAddr /\ (NoImpostor => msg.name \notin own) /\ n <= msg.name
      <4>1. msg.kind = "claim" => msg.name \in Name /\ msg.sa \in AnyAddr
        BY <3>2, WireIs
      <4>2. NoImpostor => ForeignNames \intersect Own = {}
        BY DEF NoImpostor
      <4>3. QED BY <1>3, <3>2, <4>1, <4>2 DEF own
    <3>4. Good(m, own, NoImpostor)
      BY <1>2, <2>1, <2>2, <3>3, ProcessedGood
    <3>5. Firm(m, n, a)
      BY <1>1, <1>2, <1>3, <1>4, <2>1, <2>2, <3>3, ProcessedFirm
    <3>6. QED BY <1>5, <2>1, <2>2, <3>4, <3>5
  <2>3. CASE e # h
    BY <1>6, <2>1, <2>3
  <2>4. QED BY <2>2, <2>3
<1>12. ASSUME ForeignMessage PROVE Firm(ecu'[h], n, a)
  BY <1>4, <1>12 DEF ForeignMessage
<1>13. ASSUME TimePasses PROVE Firm(ecu'[h], n, a)
  <2>1. ecu'[h] = Tick(ecu[h])
    BY <1>1, <1>13 DEF TimePasses
  <2>2. Firm(Tick(ecu[h]), n, a)
    BY <1>1, <1>2, <1>4, TickGood
  <2>3. QED BY <2>1, <2>2
<1>14. Firm(ecu'[h], n, a)
  BY <1>7, <1>8, <1>9, <1>10, <1>11, <1>12, <1>13 DEF Next, Step
<1>15. QED BY <1>14 DEF h

\* IsoMonitor_c::processMsg and IsoItem_c: no step moves the identity with the strongest NAME,
\* foreign nodes included, from an address in use to another, whoever claims it and however often.
THEOREM StrongestStaysPut == Spec => StrongestNeverMoves
<1> DEFINE Stay == \A n \in Own :
                     /\ \A k \in Own \union ForeignNames : n <= k
                     /\ InUse(ItemOf(n)) /\ InUse(ItemOf(n)')
                     => ItemOf(n)'.nr = ItemOf(n).nr
<1>1. ASSUME IInv, IInv', [Next]_vars PROVE Stay \/ UNCHANGED vars
  <2>1. CASE UNCHANGED vars
    BY <2>1
  <2>2. CASE Next
    <3> SUFFICES ASSUME NEW n \in Own, \A k \in Own \union ForeignNames : n <= k,
                        InUse(ItemOf(n)), InUse(ItemOf(n)')
                 PROVE  ItemOf(n)'.nr = ItemOf(n).nr
      OBVIOUS
    <3> DEFINE h == Home(n)
               own == scenario.own[h]
               before == Item(ecu[h], ecu[h].ident[n].item)
               after == Item(ecu'[h], ecu'[h].ident[n].item)
    <3>1. h \in OnBus /\ n \in own /\ ItemOf(n) = before
      BY HomeIs
    <3>2. scenario' = scenario
      BY <2>2 DEF Next
    <3>3. Own' = Own /\ OnBus' = OnBus /\ Home(n)' = h
      BY <3>2 DEF Own, OnBus, Home
    <3>4. ItemOf(n)' = after
      BY <3>3 DEF ItemOf
    <3>5. Good(ecu[h], own, NoImpostor) /\ Good(ecu'[h], own, NoImpostor')
      BY <1>1, <3>1, <3>2, <3>3 DEF IInv
    <3>6. InUse(before) /\ InUse(after)
      BY <3>1, <3>4 DEF InUse
    <3>7. /\ FirmOn(ecu[h], n, before.nr) /\ before.nr \in Address
          /\ n \in Range(ecu[h].clients)
      BY <3>1, <3>5, <3>6, InUseIs
    <3>8. Firm(ecu'[h], n, before.nr)
      BY <1>1, <2>2, <3>7, StepIsFirm
    <3>9. after.nr = before.nr
      <4> DEFINE m == ecu'[h]
                 alone == NoImpostor'
                 a == before.nr
      <4>1. /\ Good(m, own, alone) /\ InUse(Item(m, m.ident[n].item)) /\ Firm(m, n, a)
            /\ n \in own
        BY <3>1, <3>5, <3>6, <3>8
      <4> HIDE DEF m, alone, a, own
      <4>2. Item(m, m.ident[n].item).nr = a
        BY <4>1, InUseIs
      <4>3. QED BY <4>2 DEF m, a
    <3>10. QED BY <3>1, <3>4, <3>9
  <2>3. QED BY <1>1, <2>1, <2>2
<1>2. IInv /\ IInv' /\ [Next]_vars => [Stay]_vars
  BY <1>1
<1>3. Spec => [][Stay]_vars
  BY IInvAlways, <1>2, PTL DEF Spec
<1>4. QED BY <1>3 DEF StrongestNeverMoves
=============================================================================
