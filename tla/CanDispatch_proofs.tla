-------------------------- MODULE CanDispatch_proofs --------------------------
(* Proofs about CanDispatch, for any customers, filters and messages.         *)
EXTENDS CanDispatch, SequenceLemmas

(* What CustomersOf answers of a list of boxes.                               *)
BoxIn(bs, f) == SelectInSeq(bs, LAMBDA box : box.filter = f)
Held(bs, f) == IF BoxIn(bs, f) = 0 THEN <<>> ELSE bs[BoxIn(bs, f)].customers

DistinctFilters(bs) == \A k, l \in DOMAIN bs : bs[k].filter = bs[l].filter => k = l
WellFormed(bs) ==
  /\ bs \in Seq(Box) /\ DistinctFilters(bs)
  /\ \A k \in DOMAIN bs : bs[k].customers # <<>> /\ IsInjective(bs[k].customers)

(* Between frames there is no walk. During one the box is there, with every   *)
(* place up to the size and up to the index; once it is gone the walk is over. *)
WalkConsistent ==
  /\ frame = NoFrame => walked = NoFilter
  /\ frame # NoFrame => walked # NoFilter
  /\ walked \in Filter =>
       /\ Held(boxes, walked) # <<>>
       /\ size <= Len(Held(boxes, walked)) /\ index <= Len(Held(boxes, walked))
  /\ walked = Freed => index >= size

IInv == TypeOK /\ WellFormed(boxes) /\ WalkConsistent

(* A box is found by its filter.                                              *)
LEMMA BoxFound ==
  ASSUME NEW bs, WellFormed(bs), NEW k \in DOMAIN bs
  PROVE  BoxIn(bs, bs[k].filter) = k /\ Held(bs, bs[k].filter) = bs[k].customers
<1> DEFINE f == bs[k].filter
           I == {i \in 1..Len(bs) : bs[i].filter = f}
<1>1. bs \in Seq(Box) /\ DOMAIN bs = 1..Len(bs) /\ Len(bs) \in Nat
  BY DEF WellFormed
<1>2. I = {k}
  BY <1>1 DEF WellFormed, DistinctFilters
<1>3. BoxIn(bs, f) = Min(I)
  BY <1>2 DEF BoxIn, SelectInSeq
<1>4. Min({k}) = k
  <2>1. {k} \subseteq Nat /\ {k} # {}
    BY <1>1
  <2>2. Min({k}) \in {k}
    BY <2>1, MinOf
  <2>3. QED BY <2>2
<1>5. BoxIn(bs, f) = k
  BY <1>2, <1>3, <1>4
<1>6. k # 0
  BY <1>1
<1>7. QED BY <1>5, <1>6 DEF Held

(* A filter without a box has no customers, one with a box those of the box.  *)
LEMMA NoBox ==
  ASSUME NEW bs, NEW f, bs \in Seq(Box), \A k \in DOMAIN bs : bs[k].filter # f
  PROVE  BoxIn(bs, f) = 0 /\ Held(bs, f) = <<>>
BY DEF BoxIn, SelectInSeq, Held

\* There is a filter box.
LEMMA SomeBox ==
  ASSUME NEW bs, NEW f, WellFormed(bs), BoxIn(bs, f) # 0
  PROVE  BoxIn(bs, f) \in DOMAIN bs /\ bs[BoxIn(bs, f)].filter = f
<1>1. bs \in Seq(Box)
  BY DEF WellFormed
<1>2. PICK k \in DOMAIN bs : bs[k].filter = f
  BY <1>1, NoBox
<1>3. QED BY <1>2, BoxFound

\* The customers a box holds are customers.
LEMMA HeldType ==
  ASSUME NEW bs, NEW f, WellFormed(bs)
  PROVE  Held(bs, f) \in Seq(Customer) /\ IsInjective(Held(bs, f))
<1>1. CASE BoxIn(bs, f) = 0
  <2>1. Held(bs, f) = <<>> /\ <<>> \in Seq(Customer) /\ DOMAIN <<>> = {}
    BY <1>1 DEF Held
  <2>2. QED BY <2>1 DEF IsInjective
<1>2. CASE BoxIn(bs, f) # 0
  <2>1. PICK k \in DOMAIN bs : Held(bs, f) = bs[k].customers
    BY <1>2, SomeBox DEF Held
  <2>2. bs[k] \in Box /\ IsInjective(bs[k].customers)
    BY DEF WellFormed
  <2>3. QED BY <2>1, <2>2 DEF Box
<1>3. QED BY <1>1, <1>2

----------------------------------------------------------------------------
(* Selected keeps exactly the boxes that have customers, and repeats none.    *)
WithoutEmpty(list) == Selected(list, {box \in Range(list) : box.customers # <<>>})

\* The boxes without the empty ones.
LEMMA WithoutEmptyIs ==
  ASSUME NEW list \in Seq(Box), DistinctFilters(list)
  PROVE  LET r == WithoutEmpty(list)
         IN  /\ r \in Seq(Box) /\ DistinctFilters(r)
             /\ \A i \in DOMAIN r : r[i].customers # <<>> /\ \E k \in DOMAIN list : r[i] = list[k]
             /\ \A k \in DOMAIN list : list[k].customers # <<>> => \E i \in DOMAIN r : r[i] = list[k]
<1> DEFINE keep == {box \in Range(list) : box.customers # <<>>}
           r == Selected(list, keep)
<1>1. IsInjective(list)
  BY DEF IsInjective, DistinctFilters
<1>2. r \in Seq(Box) /\ Range(r) = Range(list) \intersect keep /\ IsInjective(r)
  <2> HIDE DEF keep
  <2>1. QED BY <1>1, SelectedIs
<1> HIDE DEF r
<1>3. \A i \in DOMAIN r : r[i].customers # <<>> /\ \E k \in DOMAIN list : r[i] = list[k]
  BY <1>2 DEF Range
<1>4. \A k \in DOMAIN list : list[k].customers # <<>> => \E i \in DOMAIN r : r[i] = list[k]
  BY <1>2 DEF Range
<1>5. DistinctFilters(r)
  BY <1>2, <1>3 DEF DistinctFilters, IsInjective
<1>6. QED BY <1>2, <1>3, <1>4, <1>5 DEF r, WithoutEmpty

----------------------------------------------------------------------------
(* What the operations on the boxes do to the customers of a filter.          *)
IsHeld(bs, f, s) ==
  \/ \E k \in DOMAIN bs : bs[k].filter = f /\ bs[k].customers = s
  \/ s = <<>> /\ \A k \in DOMAIN bs : bs[k].filter # f

\* Who is held by a list of boxes.
LEMMA HeldIs ==
  ASSUME NEW bs, NEW f, NEW s, WellFormed(bs)
  PROVE  Held(bs, f) = s <=> IsHeld(bs, f, s)
<1>1. CASE \E k \in DOMAIN bs : bs[k].filter = f
  <2>1. PICK k \in DOMAIN bs : bs[k].filter = f
    BY <1>1
  <2>2. Held(bs, f) = bs[k].customers
    BY <2>1, BoxFound
  <2>3. \A l \in DOMAIN bs : bs[l].filter = f => l = k
    BY <2>1 DEF WellFormed, DistinctFilters
  <2>4. QED BY <2>1, <2>2, <2>3 DEF IsHeld
<1>2. CASE ~ \E k \in DOMAIN bs : bs[k].filter = f
  <2>1. Held(bs, f) = <<>>
    BY <1>2, NoBox DEF WellFormed
  <2>2. QED BY <2>1, <1>2 DEF IsHeld
<1>3. QED BY <1>1, <1>2

\* Removing a customer leaves boxes.
LEMMA RemovedType ==
  ASSUME NEW s \in Seq(Customer), IsInjective(s), NEW c
  PROVE  RemoveFirst(s, c) \in Seq(Customer) /\ IsInjective(RemoveFirst(s, c))
BY RemovedOne, RemovedNone

(* Without takes one customer from the filters, and touches no other filter.  *)
LEMMA WithoutIs ==
  ASSUME WellFormed(boxes), NEW c, NEW filters
  PROVE  /\ WellFormed(Without(c, filters))
         /\ \A f : Held(Without(c, filters), f) =
                    IF f \in filters THEN RemoveFirst(Held(boxes, f), c) ELSE Held(boxes, f)
<1> DEFINE one(k) == IF boxes[k].filter \in filters
                     THEN [boxes[k] EXCEPT !.customers = RemoveFirst(@, c)] ELSE boxes[k]
           less == [k \in DOMAIN boxes |-> one(k)]
           r == Without(c, filters)
<1>1. boxes \in Seq(Box) /\ DOMAIN boxes = 1..Len(boxes) /\ Len(boxes) \in Nat
  BY DEF WellFormed
<1>2. ASSUME NEW k \in DOMAIN boxes
      PROVE  /\ one(k) \in Box /\ one(k).filter = boxes[k].filter
             /\ one(k).customers = IF boxes[k].filter \in filters
                                   THEN RemoveFirst(boxes[k].customers, c) ELSE boxes[k].customers
             /\ IsInjective(one(k).customers)
  <2>1. boxes[k] \in Box /\ boxes[k].customers \in Seq(Customer) /\ IsInjective(boxes[k].customers)
    <3>1. boxes[k] \in Box /\ IsInjective(boxes[k].customers)
      BY <1>1 DEF WellFormed
    <3>2. QED BY <3>1 DEF Box
  <2>2. RemoveFirst(boxes[k].customers, c) \in Seq(Customer)
        /\ IsInjective(RemoveFirst(boxes[k].customers, c))
    BY <2>1, RemovedType
  <2>3. QED BY <2>1, <2>2 DEF Box
<1>3. r = WithoutEmpty(less)
  BY DEF Without, WithoutEmpty
<1>4. less \in Seq(Box) /\ DOMAIN less = DOMAIN boxes /\ \A k \in DOMAIN boxes : less[k] = one(k)
  BY <1>1, <1>2
<1> HIDE DEF one, less, r
<1>5. DistinctFilters(less)
  BY <1>2, <1>4 DEF DistinctFilters, WellFormed
<1>6. /\ r \in Seq(Box) /\ DistinctFilters(r)
      /\ \A i \in DOMAIN r : r[i].customers # <<>> /\ \E k \in DOMAIN boxes : r[i] = one(k)
      /\ \A k \in DOMAIN boxes : one(k).customers # <<>> => \E i \in DOMAIN r : r[i] = one(k)
  BY <1>3, <1>4, <1>5, WithoutEmptyIs
<1>7. WellFormed(r)
  BY <1>2, <1>6 DEF WellFormed
<1>8. ASSUME NEW f
      PROVE  Held(r, f) = IF f \in filters THEN RemoveFirst(Held(boxes, f), c) ELSE Held(boxes, f)
  <2>1. CASE \E k \in DOMAIN boxes : boxes[k].filter = f
    <3>1. PICK k \in DOMAIN boxes : boxes[k].filter = f
      BY <2>1
    <3>2. Held(boxes, f) = boxes[k].customers
      BY <3>1, BoxFound
    <3>3. \A l \in DOMAIN boxes : boxes[l].filter = f => l = k
      BY <3>1 DEF WellFormed, DistinctFilters
    <3>4. IsHeld(r, f, one(k).customers)
      <4>1. CASE one(k).customers = <<>>
        <5>1. \A i \in DOMAIN r : r[i].filter # f
          BY <1>2, <1>6, <3>3, <4>1
        <5>2. QED BY <4>1, <5>1 DEF IsHeld
      <4>2. CASE one(k).customers # <<>>
        <5>1. \E i \in DOMAIN r : r[i] = one(k)
          BY <1>6, <4>2
        <5>2. QED BY <5>1, <1>2, <3>1 DEF IsHeld
      <4>3. QED BY <4>1, <4>2
    <3>5. Held(r, f) = one(k).customers
      BY <3>4, <1>7, HeldIs
    <3>6. QED BY <3>1, <3>2, <3>5, <1>2
  <2>2. CASE ~ \E k \in DOMAIN boxes : boxes[k].filter = f
    <3>1. Held(boxes, f) = <<>>
      BY <2>2, NoBox, <1>1
    <3>2. \A i \in DOMAIN r : r[i].filter # f
      BY <2>2, <1>2, <1>6
    <3>3. Held(r, f) = <<>>
      BY <3>2, NoBox, <1>6
    <3>4. ~Contains(<<>>, c)
      BY DEF Contains
    <3>5. QED BY <3>1, <3>3, <3>4, RemovedNone
  <2>3. QED BY <2>1, <2>2
<1>9. QED BY <1>7, <1>8 DEF r

(* Two lists with the same filters and customers answer the same.             *)
LEMMA SameHeld ==
  ASSUME NEW bs, NEW cs, WellFormed(bs), WellFormed(cs),
         \A k \in DOMAIN bs : \E l \in DOMAIN cs :
           cs[l].filter = bs[k].filter /\ cs[l].customers = bs[k].customers,
         \A l \in DOMAIN cs : \E k \in DOMAIN bs : cs[l].filter = bs[k].filter
  PROVE  \A f : Held(cs, f) = Held(bs, f)
<1> SUFFICES ASSUME NEW f PROVE IsHeld(cs, f, Held(bs, f))
  BY HeldIs
<1>1. IsHeld(bs, f, Held(bs, f))
  BY HeldIs
<1>2. QED BY <1>1 DEF IsHeld

(* The boxes that change places keep their customers.                         *)
LEMMA ReorderedIs ==
  ASSUME WellFormed(boxes), NEW k \in DOMAIN boxes
  PROVE  WellFormed(Reordered(k)) /\ \A f : Held(Reordered(k), f) = Held(boxes, f)
<1> DEFINE reset == [boxes EXCEPT ![k].matchCnt = 0]
           swap(i) == IF k = 1 THEN i ELSE IF i = k THEN k - 1 ELSE IF i = k - 1 THEN k ELSE i
           r == Reordered(k)
<1>0. boxes \in Seq(Box) /\ DOMAIN boxes = 1..Len(boxes) /\ Len(boxes) \in Nat /\ k \in 1..Len(boxes)
  BY DEF WellFormed
<1>1. UpdateRate \in Nat
  BY CanDispatchAssumption
<1>2. CASE boxes[k].matchCnt <= UpdateRate
  BY <1>2 DEF Reordered
<1>3. CASE ~(boxes[k].matchCnt <= UpdateRate)
  <2>1. ASSUME NEW i \in DOMAIN boxes
        PROVE  /\ reset[i] \in Box
               /\ reset[i].filter = boxes[i].filter /\ reset[i].customers = boxes[i].customers
    <3>1. boxes[i] \in Box
      BY <1>0
    <3>2. QED BY <3>1, <1>1 DEF Box
  <2>2. reset \in Seq(Box) /\ DOMAIN reset = DOMAIN boxes
    BY <2>1, <1>0
  <2>3. r = IF k = 1 THEN reset ELSE [reset EXCEPT ![k - 1] = reset[k], ![k] = reset[k - 1]]
    BY <1>3 DEF Reordered
  <2> HIDE DEF reset, r
  <2>4. \A i \in DOMAIN boxes : swap(i) \in DOMAIN boxes /\ swap(swap(i)) = i
    BY <1>0
  <2>5. DOMAIN r = DOMAIN boxes /\ r \in Seq(Box) /\ \A i \in DOMAIN boxes : r[i] = reset[swap(i)]
    <3>1. CASE k = 1
      BY <2>2, <2>3, <3>1
    <3>2. CASE k # 1
      <4>1. k - 1 \in DOMAIN boxes /\ k - 1 # k
        BY <1>0, <3>2
      <4>2. r = [reset EXCEPT ![k - 1] = reset[k], ![k] = reset[k - 1]]
        BY <2>3, <3>2
      <4>3. QED BY <4>1, <4>2, <2>1, <2>2, <3>2, <1>0
    <3>3. QED BY <3>1, <3>2
  <2> HIDE DEF swap
  <2>6. \A i \in DOMAIN boxes : /\ r[i].filter = boxes[swap(i)].filter
                                 /\ r[i].customers = boxes[swap(i)].customers
    BY <2>1, <2>4, <2>5
  <2>7. WellFormed(r)
    <3>1. DistinctFilters(r)
      <4>1. \A i, j \in DOMAIN boxes : swap(i) = swap(j) => i = j
        BY <2>4
      <4>2. QED BY <4>1, <2>4, <2>5, <2>6 DEF DistinctFilters, WellFormed
    <3>2. QED BY <3>1, <2>4, <2>5, <2>6, SMTT(30) DEF WellFormed
  <2>8. \A i \in DOMAIN boxes : /\ r[swap(i)].filter = boxes[i].filter
                                 /\ r[swap(i)].customers = boxes[i].customers
    BY <2>4, <2>6
  <2>9. \A f : Held(r, f) = Held(boxes, f)
    BY <2>4, <2>5, <2>6, <2>7, <2>8, SameHeld
  <2>10. QED BY <2>7, <2>9 DEF r
<1>4. QED BY <1>2, <1>3

(* Counting a match changes no customers.                                     *)
LEMMA CountedIs ==
  ASSUME WellFormed(boxes), NEW k \in DOMAIN boxes
  PROVE  LET r == [boxes EXCEPT ![k] = Counted(@)]
         IN  WellFormed(r) /\ \A f : Held(r, f) = Held(boxes, f)
<1> DEFINE r == [boxes EXCEPT ![k] = Counted(@)]
<1>0. boxes \in Seq(Box) /\ DOMAIN boxes = 1..Len(boxes) /\ Len(boxes) \in Nat /\ k \in 1..Len(boxes)
  BY DEF WellFormed
<1>1. ASSUME NEW i \in DOMAIN boxes
      PROVE  /\ r[i] \in Box
             /\ r[i].filter = boxes[i].filter /\ r[i].customers = boxes[i].customers
  <2>1. boxes[i] \in Box /\ UpdateRate \in Nat
    BY <1>0, CanDispatchAssumption
  <2>2. QED BY <2>1 DEF Box, Counted
<1>2. r \in Seq(Box) /\ DOMAIN r = DOMAIN boxes
  BY <1>0, <1>1
<1> HIDE DEF r
<1>3. WellFormed(r)
  BY <1>1, <1>2 DEF WellFormed, DistinctFilters
<1>4. \A f : Held(r, f) = Held(boxes, f)
  BY <1>1, <1>2, <1>3, SameHeld
<1>5. QED BY <1>3, <1>4 DEF r

(* insertFilter puts the customer behind those that the filter has.           *)
Inserted(c, f) ==
  IF BoxOf(f) = 0
  THEN Append(boxes, [filter |-> f, customers |-> <<c>>, matchCnt |-> 0])
  ELSE [boxes EXCEPT ![BoxOf(f)].customers = Append(@, c)]

\* Inserting a customer leaves the boxes well formed, with it among them.
LEMMA InsertedIs ==
  ASSUME WellFormed(boxes), NEW c \in Customer, NEW f \in Filter, ~ExistFilter(c, f)
  PROVE  /\ WellFormed(Inserted(c, f))
         /\ \A g : Held(Inserted(c, f), g) =
                    IF g = f THEN Append(Held(boxes, f), c) ELSE Held(boxes, g)
         /\ \A k \in DOMAIN boxes : \E l \in DOMAIN Inserted(c, f) :
              Inserted(c, f)[l].filter = boxes[k].filter
<1> DEFINE r == Inserted(c, f)
           b == BoxIn(boxes, f)
<1>0. boxes \in Seq(Box) /\ DOMAIN boxes = 1..Len(boxes) /\ Len(boxes) \in Nat
  BY DEF WellFormed
<1>1. b = BoxOf(f)
  BY DEF BoxIn, BoxOf
<1>2. CASE b = 0
  <2> DEFINE new == [filter |-> f, customers |-> <<c>>, matchCnt |-> 0]
  <2>1. new \in Box /\ new.filter = f /\ new.customers = <<c>>
    BY CanDispatchAssumption DEF Box
  <2>2. r = Append(boxes, new)
    BY <1>1, <1>2 DEF Inserted
  <2> HIDE DEF new, r
  <2>3. /\ r \in Seq(Box) /\ DOMAIN r = DOMAIN boxes \union {Len(boxes) + 1}
        /\ \A k \in DOMAIN boxes : r[k] = boxes[k]
        /\ r[Len(boxes) + 1] = new
    BY <2>1, <2>2, <1>0
  <2>4. \A k \in DOMAIN boxes : boxes[k].filter # f
    BY <1>2, <1>0, BoxFound
  <2>5. WellFormed(r)
    <3>1. DistinctFilters(r)
      BY <2>1, <2>3, <2>4 DEF WellFormed, DistinctFilters
    <3>2. <<c>> # <<>> /\ IsInjective(<<c>>)
      BY DEF IsInjective
    <3>3. QED BY <2>1, <2>3, <3>1, <3>2 DEF WellFormed
  <2>6. Held(boxes, f) = <<>> /\ Append(<<>>, c) = <<c>>
    BY <2>4, NoBox, <1>0
  <2>7. IsHeld(r, f, <<c>>)
    BY <2>1, <2>3 DEF IsHeld
  <2>8. ASSUME NEW g, g # f PROVE IsHeld(r, g, Held(boxes, g))
    <3>1. IsHeld(boxes, g, Held(boxes, g))
      BY HeldIs
    <3>2. QED BY <3>1, <2>1, <2>3, <2>8 DEF IsHeld
  <2>9. \A g : Held(r, g) = IF g = f THEN Append(Held(boxes, f), c) ELSE Held(boxes, g)
    BY <2>5, <2>6, <2>7, <2>8, HeldIs
  <2>10. QED BY <2>3, <2>5, <2>9 DEF r
<1>3. CASE b # 0
  <2> DEFINE cs == boxes[b].customers
  <2>1. b \in DOMAIN boxes /\ boxes[b].filter = f /\ Held(boxes, f) = cs
    BY <1>3, SomeBox DEF Held
  <2>2. r = [boxes EXCEPT ![b].customers = Append(@, c)]
    BY <1>1, <1>3 DEF Inserted
  <2>3. cs \in Seq(Customer) /\ IsInjective(cs)
    BY <2>1, HeldType
  <2>4. ~Contains(cs, c)
    BY <1>1, <1>3 DEF ExistFilter, CustomersOf
  <2>5. /\ Append(cs, c) \in Seq(Customer) /\ Append(cs, c) # <<>>
        /\ IsInjective(Append(cs, c))
    <3> HIDE DEF cs
    <3>1. /\ Append(cs, c) \in Seq(Customer) /\ DOMAIN Append(cs, c) = DOMAIN cs \union {Len(cs) + 1}
          /\ DOMAIN cs = 1..Len(cs) /\ Len(cs) \in Nat
          /\ \A i \in DOMAIN cs : Append(cs, c)[i] = cs[i]
          /\ Append(cs, c)[Len(cs) + 1] = c
      BY <2>3
    <3>2. \A i \in DOMAIN cs : cs[i] # c
      BY <2>4, <3>1 DEF Contains
    <3>3. IsInjective(Append(cs, c))
      BY <2>3, <3>1, <3>2 DEF IsInjective
    <3>4. Append(cs, c) # <<>>
      <4>1. Len(cs) + 1 \in DOMAIN Append(cs, c) /\ DOMAIN <<>> = {}
        BY <3>1
      <4>2. QED BY <4>1
    <3>5. QED BY <3>1, <3>3, <3>4
  <2>6. ASSUME NEW k \in DOMAIN boxes
        PROVE  /\ r[k] \in Box /\ r[k].filter = boxes[k].filter
               /\ r[k].customers = IF k = b THEN Append(cs, c) ELSE boxes[k].customers
    <3>1. boxes[k] \in Box /\ Append(cs, c) \in Seq(Customer)
      BY <1>0, <2>5
    <3>2. QED BY <3>1, <2>2, <2>1, SMTT(30) DEF Box
  <2>7. r \in Seq(Box) /\ DOMAIN r = DOMAIN boxes
    <3>1. DOMAIN r = DOMAIN boxes
      BY <2>2
    <3>2. r = [k \in DOMAIN boxes |-> r[k]]
      BY <2>2
    <3>3. QED BY <3>1, <3>2, <2>6, <1>0
  <2> HIDE DEF r, cs
  <2>8. WellFormed(r)
    BY <2>5, <2>6, <2>7 DEF WellFormed, DistinctFilters
  <2>9. IsHeld(r, f, Append(cs, c))
    BY <2>1, <2>6, <2>7 DEF IsHeld
  <2>10. ASSUME NEW g, g # f PROVE IsHeld(r, g, Held(boxes, g))
    <3>1. IsHeld(boxes, g, Held(boxes, g))
      BY HeldIs
    <3>2. QED BY <3>1, <2>1, <2>6, <2>7, <2>10 DEF IsHeld
  <2>11. \A g : Held(r, g) = IF g = f THEN Append(Held(boxes, f), c) ELSE Held(boxes, g)
    BY <2>1, <2>8, <2>9, <2>10, HeldIs
  <2>12. QED BY <2>6, <2>7, <2>8, <2>11 DEF r
<1>4. QED BY <1>2, <1>3

----------------------------------------------------------------------------
(* The invariant.                                                             *)
LEMMA MatchFound ==
  ASSUME boxes \in Seq(Box), NEW msg, CanMsg2FilterBox(msg) # 0
  PROVE  /\ CanMsg2FilterBox(msg) \in DOMAIN boxes
         /\ boxes[CanMsg2FilterBox(msg)].filter \in Matches[msg]
<1> DEFINE I == {k \in 1..Len(boxes) : boxes[k].filter \in Matches[msg]}
<1>1. CanMsg2FilterBox(msg) = IF I # {} THEN Min(I) ELSE 0
  BY DEF CanMsg2FilterBox, SelectInSeq
<1>2. I \subseteq Nat /\ I \subseteq DOMAIN boxes
  OBVIOUS
<1>3. I # {} /\ CanMsg2FilterBox(msg) \in I
  <2> HIDE DEF I
  <2>1. QED BY <1>1, <1>2, MinOf
<1>4. QED BY <1>2, <1>3

(* What a deletion of any kind does: it is from some filters.                 *)
Leaves(c, filters) ==
  boxes' = Without(c, filters) /\ WalkAdapted(c, filters) /\ UNCHANGED <<frame, calling>>

(* The place of a customer in the box of the walk.                            *)
Place(c) == PlaceOf(CustomersOf(walked), c)

\* The place of a box in the list.
LEMMA PlaceIs ==
  ASSUME WellFormed(boxes), NEW c, Contains(Held(boxes, walked), c)
  PROVE  LET s == Held(boxes, walked)
             r == RemoveFirst(s, c)
         IN  /\ Place(c) \in 1..Len(s) /\ s[Place(c)] = c
             /\ r \in Seq(Customer) /\ Len(r) = Len(s) - 1
             /\ \A i \in 1..(Len(s) - 1) : r[i] = IF i < Place(c) THEN s[i] ELSE s[i + 1]
             /\ IsInjective(r) /\ Range(r) = Range(s) \ {c}
<1> DEFINE s == Held(boxes, walked)
           r == RemoveFirst(s, c)
<1>1. s \in Seq(Customer) /\ IsInjective(s) /\ Contains(s, c)
  BY HeldType
<1>2. CustomersOf(walked) = s
  BY DEF CustomersOf, BoxOf, Held, BoxIn
<1>3. Place(c) = PlaceOf(s, c)
  BY <1>2 DEF Place
<1> HIDE DEF s
<1>4. QED BY <1>1, <1>3, RemovedOne DEF s

(* A deletion that meets the walk: the last customer frees the box, and       *)
(* otherwise size and index stay within it.                                   *)
LEMMA LeavingIs ==
  ASSUME IInv, NEW c, NEW filters, Leaves(c, filters),
         walked \in filters, walked \in Filter, Contains(Held(boxes, walked), c)
  PROVE  LET s == Held(boxes, walked)
         IN  /\ Len(s) \in Nat \ {0} /\ Place(c) \in 1..Len(s)
             /\ walked' = IF Len(s) = 1 THEN Freed ELSE walked
             /\ index' = IF Place(c) <= index THEN index - 1 ELSE index
             /\ index' \in Nat /\ size' = size - 1 /\ index' <= Len(s) - 1
<1> DEFINE s == Held(boxes, walked)
<1>1. s \in Seq(Customer) /\ Place(c) \in 1..Len(s) /\ s[Place(c)] = c
  BY HeldType, PlaceIs DEF IInv
<1>2. CustomersOf(walked) = s
  BY DEF CustomersOf, BoxOf, Held, BoxIn
<1>3. /\ walked' = IF s = <<c>> THEN Freed ELSE walked
      /\ index' = IndexAdapted(Place(c)) /\ size' = size - 1
  BY <1>2 DEF Leaves, WalkAdapted, Place, PlaceOf
<1>4. index \in Nat /\ index <= Len(s)
  BY DEF IInv, TypeOK, WalkConsistent
<1> HIDE DEF s
<1>5. s = <<c>> <=> Len(s) = 1
  BY <1>1
<1>6. QED BY <1>1, <1>3, <1>4, <1>5 DEF IndexAdapted, s

\* A message received keeps the invariant.
LEMMA ReceiveKeeps ==
  ASSUME IInv, NEW msg \in Message, Receive(msg) PROVE IInv'
<1> DEFINE k == CanMsg2FilterBox(msg)
<1>0. TypeOK /\ WellFormed(boxes) /\ boxes \in Seq(Box)
  BY DEF IInv, WellFormed
<1>1. k # 0 /\ boxes' = Reordered(k)
      /\ walked' = boxes[k].filter /\ size' = Len(boxes[k].customers)
  BY DEF Receive
<1>2. k \in DOMAIN boxes
  BY <1>0, <1>1, MatchFound
<1> HIDE DEF k
<1>3. WellFormed(boxes') /\ Held(boxes', walked') = Held(boxes, walked')
  BY <1>0, <1>1, <1>2, ReorderedIs
<1>4. Held(boxes, walked') = boxes[k].customers
  BY <1>0, <1>1, <1>2, BoxFound
<1>5. boxes[k] \in Box /\ boxes[k].customers # <<>>
  BY <1>0, <1>2 DEF WellFormed
<1>6. walked' \in Filter /\ boxes[k].customers \in Seq(Customer) /\ Len(boxes[k].customers) \in Nat
  BY <1>1, <1>5 DEF Box
<1>7. frame' = msg /\ index' = 0 /\ calling' = calling
  BY DEF Receive
<1>8. boxes' \in Seq(Box)
  BY <1>3 DEF WellFormed
<1>9. TypeOK'
  BY <1>0, <1>1, <1>6, <1>7, <1>8 DEF TypeOK
<1>10. WalkConsistent'
  BY <1>1, <1>3, <1>4, <1>5, <1>6, <1>7, CanDispatchAssumption DEF WalkConsistent
<1>11. QED BY <1>3, <1>9, <1>10 DEF IInv

\* A turn of the walk keeps the invariant.
LEMMA TurnKeeps ==
  ASSUME IInv, Turn PROVE IInv'
<1> DEFINE s == Held(boxes, walked)
<1>1. CustomersOf(walked) = s
  BY DEF CustomersOf, BoxOf, Held, BoxIn
<1>2. /\ frame # NoFrame /\ index < size /\ index' = index + 1
      /\ calling' \in {CustomersOf(walked)[index + 1], Nobody}
      /\ UNCHANGED <<boxes, frame, walked, size>>
  BY DEF Turn
<1>3. TypeOK /\ WalkConsistent /\ WellFormed(boxes)
  BY DEF IInv
<1>4. walked \in Filter /\ index \in Nat /\ size \in Int
  BY <1>2, <1>3 DEF TypeOK, WalkConsistent
<1>5. s \in Seq(Customer) /\ size <= Len(s) /\ Len(s) \in Nat
  BY <1>3, <1>4, HeldType DEF WalkConsistent
<1>6. s[index + 1] \in Customer
  <2> HIDE DEF s
  <2>1. index + 1 \in 1..Len(s)
    BY <1>2, <1>4, <1>5
  <2>2. QED BY <2>1, <1>5
<1> HIDE DEF s
<1>7. TypeOK'
  BY <1>1, <1>2, <1>3, <1>4, <1>6 DEF TypeOK
<1>8. index' <= Len(s) /\ index' \in Nat
  BY <1>2, <1>4, <1>5
<1>9. WalkConsistent'
  BY <1>2, <1>3, <1>4, <1>8, CanDispatchAssumption DEF WalkConsistent, s
<1>10. QED BY <1>2, <1>3, <1>7, <1>9 DEF IInv

\* The end of the walk keeps the invariant.
LEMMA FinishKeeps ==
  ASSUME IInv, Finish PROVE IInv' /\ \A f : Held(boxes', f) = Held(boxes, f)
<1>1. TypeOK /\ WalkConsistent /\ WellFormed(boxes)
  BY DEF IInv
<1>2. frame' = NoFrame /\ walked' = NoFilter /\ index' = 0 /\ size' = 0 /\ calling' = Nobody
  BY DEF Finish
<1>3. WellFormed(boxes') /\ \A f : Held(boxes', f) = Held(boxes, f)
  <2>1. CASE UNCHANGED boxes
    BY <2>1, <1>1
  <2>2. CASE \E k \in DOMAIN boxes : boxes' = [boxes EXCEPT ![k] = Counted(@)]
    BY <2>2, <1>1, CountedIs
  <2>3. QED BY <2>1, <2>2 DEF Finish
<1>4. TypeOK'
  BY <1>1, <1>2, <1>3 DEF TypeOK, WellFormed
<1>5. WalkConsistent'
  BY <1>2, CanDispatchAssumption DEF WalkConsistent
<1>6. QED BY <1>3, <1>4, <1>5 DEF IInv

\* A filter inserted keeps the invariant.
LEMMA InsertKeeps ==
  ASSUME IInv, NEW c \in Customer, NEW f \in Filter, InsertFilter(c, f)
  PROVE  IInv' /\ \A g : Held(boxes', g) =
                       IF g = f THEN Append(Held(boxes, f), c) ELSE Held(boxes, g)
<1>1. TypeOK /\ WalkConsistent /\ WellFormed(boxes)
  BY DEF IInv
<1>2. ~ExistFilter(c, f) /\ boxes' = Inserted(c, f) /\ UNCHANGED <<frame, walked, index, size, calling>>
  BY DEF InsertFilter, Inserted, walk
<1>3. WellFormed(boxes') /\ \A g : Held(boxes', g) =
                               IF g = f THEN Append(Held(boxes, f), c) ELSE Held(boxes, g)
  BY <1>1, <1>2, InsertedIs
<1>4. TypeOK'
  BY <1>1, <1>2, <1>3 DEF TypeOK, WellFormed
<1>5. /\ Held(boxes, f) \in Seq(Customer)
      /\ Append(Held(boxes, f), c) # <<>> /\ Len(Append(Held(boxes, f), c)) = Len(Held(boxes, f)) + 1
      /\ Len(Held(boxes, f)) \in Nat
  <2>1. Held(boxes, f) \in Seq(Customer)
    BY <1>1, HeldType
  <2>2. \A s \in Seq(Customer) : Len(s) \in Nat /\ Len(Append(s, c)) = Len(s) + 1 /\ Len(<<>>) = 0
    OBVIOUS
  <2>3. QED BY <2>1, <2>2
<1>6. walked \in Filter => /\ Held(boxes', walked) # <<>>
                           /\ Len(Held(boxes', walked)) >= Len(Held(boxes, walked))
  <2>1. CASE walked = f
    BY <1>3, <1>5, <2>1
  <2>2. CASE walked # f
    <3>1. Held(boxes', walked) = Held(boxes, walked) /\ Len(Held(boxes, walked)) \in Nat
      BY <1>1, <1>3, <2>2, HeldType
    <3>2. QED BY <3>1, <1>1 DEF WalkConsistent
  <2>3. QED BY <2>1, <2>2
<1>7. \A g : Len(Held(boxes, g)) \in Nat /\ Len(Held(boxes', g)) \in Nat
  BY <1>1, <1>3, HeldType
<1>8. WalkConsistent'
  BY <1>1, <1>2, <1>6, <1>7 DEF WalkConsistent, TypeOK
<1>9. QED BY <1>1, <1>3, <1>4, <1>8 DEF IInv

\* A customer removed keeps the invariant.
LEMMA LeavesKeeps ==
  ASSUME IInv, NEW c, NEW filters, Leaves(c, filters), filters \subseteq Filter
  PROVE  /\ IInv'
         /\ \A g : Held(boxes', g) =
                    IF g \in filters THEN RemoveFirst(Held(boxes, g), c) ELSE Held(boxes, g)
<1> DEFINE s == Held(boxes, walked)
<1>1. TypeOK /\ WalkConsistent /\ WellFormed(boxes)
  BY DEF IInv
<1>2. boxes' = Without(c, filters) /\ UNCHANGED <<frame, calling>> /\ WalkAdapted(c, filters)
  BY DEF Leaves
<1>3. WellFormed(boxes') /\ \A g : Held(boxes', g) =
           IF g \in filters THEN RemoveFirst(Held(boxes, g), c) ELSE Held(boxes, g)
  BY <1>1, <1>2, WithoutIs
<1>4. boxes' \in Seq(Box)
  BY <1>3 DEF WellFormed
<1>5. CustomersOf(walked) = s
  BY DEF CustomersOf, BoxOf, Held, BoxIn
<1>6. CASE walked \notin filters \/ ~Contains(s, c)
  <2>1. UNCHANGED <<walked, index, size>>
    BY <1>2, <1>5, <1>6 DEF WalkAdapted
  <2>2. Held(boxes', walked) = s
    BY <1>3, <1>6, RemovedNone
  <2> HIDE DEF s
  <2>3. TypeOK'
    BY <1>1, <1>2, <1>4, <2>1 DEF TypeOK
  <2>4. WalkConsistent'
    BY <1>1, <1>2, <2>1, <2>2 DEF WalkConsistent, s
  <2>5. QED BY <1>3, <2>3, <2>4 DEF IInv
<1>7. CASE walked \in filters /\ Contains(s, c)
  <2>1. walked \in Filter
    BY <1>7
  <2>2. /\ Len(s) \in Nat \ {0} /\ Place(c) \in 1..Len(s)
        /\ walked' = IF Len(s) = 1 THEN Freed ELSE walked
        /\ index' \in Nat /\ size' = size - 1 /\ index' <= Len(s) - 1
    BY <1>7, <2>1, LeavingIs
  <2>3. /\ size \in Int /\ size <= Len(s)
    BY <1>1, <2>1 DEF TypeOK, WalkConsistent
  <2>4. Len(RemoveFirst(s, c)) = Len(s) - 1 /\ Held(boxes', walked) = RemoveFirst(s, c)
        /\ RemoveFirst(s, c) \in Seq(Customer)
    BY <1>1, <1>3, <1>7, PlaceIs
  <2>5. frame # NoFrame
    BY <1>1, <2>1, CanDispatchAssumption DEF WalkConsistent
  <2> HIDE DEF s
  <2>6. TypeOK'
    BY <1>1, <1>2, <1>4, <2>1, <2>2, <2>3 DEF TypeOK
  <2>7. CASE Len(s) = 1
    <3>1. walked' = Freed /\ index' >= size'
      BY <2>2, <2>3, <2>7
    <3>2. WalkConsistent'
      BY <1>2, <2>5, <3>1, CanDispatchAssumption DEF WalkConsistent
    <3>3. QED BY <1>3, <2>6, <3>2 DEF IInv
  <2>8. CASE Len(s) # 1
    <3>1. walked' = walked /\ size' <= Len(s) - 1
      BY <2>2, <2>3, <2>8
    <3>2. RemoveFirst(s, c) # <<>>
      <4>1. Len(RemoveFirst(s, c)) # 0 /\ Len(<<>>) = 0
        BY <2>2, <2>4, <2>8
      <4>2. QED BY <4>1
    <3>3. WalkConsistent'
      BY <1>2, <2>1, <2>2, <2>4, <2>5, <3>1, <3>2, CanDispatchAssumption DEF WalkConsistent
    <3>4. QED BY <1>3, <2>6, <3>3 DEF IInv
  <2>9. QED BY <2>7, <2>8
<1>8. QED BY <1>3, <1>6, <1>7

\* Every step keeps the invariant.
LEMMA StepKeepsIInv == IInv /\ [Next]_vars => IInv'
<1> SUFFICES ASSUME IInv, [Next]_vars PROVE IInv'
  OBVIOUS
<1>1. ASSUME NEW msg \in Message, Receive(msg) PROVE IInv'
  BY <1>1, ReceiveKeeps
<1>2. CASE Turn
  BY <1>2, TurnKeeps
<1>3. CASE Finish
  BY <1>3, FinishKeeps
<1>4. ASSUME NEW c \in Customer, NEW f \in Filter, InsertFilter(c, f) PROVE IInv'
  BY <1>4, InsertKeeps
<1>5. ASSUME NEW c \in Customer, NEW f \in Filter, DeleteFilter(c, f) PROVE IInv'
  <2>1. Leaves(c, {f}) /\ {f} \subseteq Filter
    BY <1>5 DEF DeleteFilter, Leaves
  <2>2. QED BY <2>1, LeavesKeeps
<1>6. ASSUME NEW c \in Customer, DeleteAllFiltersForCustomer(c) PROVE IInv'
  <2>1. Leaves(c, Filter)
    BY <1>6 DEF DeleteAllFiltersForCustomer, Leaves
  <2>2. QED BY <2>1, LeavesKeeps
<1>7. CASE UNCHANGED vars
  BY <1>7 DEF vars, walk, IInv, TypeOK, WalkConsistent
<1>8. QED BY <1>1, <1>2, <1>3, <1>4, <1>5, <1>6, <1>7 DEF Next

\* The initial states satisfy the invariant.
LEMMA InitIInv == Init => IInv
<1> SUFFICES ASSUME Init PROVE IInv
  OBVIOUS
<1>1. boxes \in Seq(Box) /\ DOMAIN boxes = {}
  BY DEF Init
<1>2. TypeOK
  BY <1>1 DEF Init, TypeOK
<1>3. WellFormed(boxes)
  BY <1>1 DEF WellFormed, DistinctFilters
<1>4. WalkConsistent
  BY CanDispatchAssumption DEF Init, WalkConsistent
<1>5. QED BY <1>2, <1>3, <1>4 DEF IInv

\* The invariant holds in every reachable state.
LEMMA AlwaysIInv == Spec => []IInv
BY InitIInv, StepKeepsIInv, PTL DEF Spec

(* CanIo_c and FilterBox_c: whatever filters customers insert and delete, from *)
(* within the box that calls them as well, there is one box for a filter, with *)
(* no customer twice and none empty, and the walk of FilterBox_c::processMsg   *)
(* reads only places of a box that is there.                                   *)
THEOREM BoxesStayConsistent == Spec => []BoxesConsistent
<1>1. IInv => BoxesConsistent
  <2> SUFFICES ASSUME IInv PROVE BoxesConsistent
    OBVIOUS
  <2>1. BoxesDistinct
    BY DEF IInv, WellFormed, DistinctFilters, BoxesDistinct
  <2>2. CustomersOf(walked) = Held(boxes, walked)
    BY DEF CustomersOf, BoxOf, Held, BoxIn
  <2>3. WalkInBounds
    BY <2>2 DEF IInv, WalkInBounds, WalkConsistent, TypeOK
  <2>4. QED BY <2>1, <2>3 DEF BoxesConsistent, IInv
<1>2. QED BY <1>1, AlwaysIInv, PTL

----------------------------------------------------------------------------
(* The refinement: what the variables of CanDelivery are here.                *)
Listeners == [f \in Filter |-> Range(Held(boxes, f))]
At == IF walked = Freed THEN NoFilter ELSE walked
Places(s, places) == {s[i] : i \in places \intersect DOMAIN s}
Due == Places(Held(boxes, walked), (index + 1)..size)
Passed == Places(Held(boxes, walked), 1..index)

\* The state of CanDelivery in the terms of the boxes, after a step.
LEMMA Mapping ==
  /\ [f \in Filter |-> Range(CustomersOf(f))] = Listeners
  /\ Members((index + 1)..size) = Due /\ Members(1..index) = Passed
  /\ [f \in Filter |-> Range(CustomersOf(f)')] = Listeners'
  /\ Members((index + 1)..size)' = Due' /\ Members(1..index)' = Passed'
<1>1. \A f : CustomersOf(f) = Held(boxes, f)
  BY DEF CustomersOf, BoxOf, Held, BoxIn
<1>2. \A f : CustomersOf(f)' = Held(boxes', f)
  BY DEF CustomersOf, BoxOf, Held, BoxIn, SelectInSeq
<1>3. QED BY <1>1, <1>2 DEF Listeners, Due, Passed, Members, Places

(* The walk is over: the frame is given out.                                  *)
LEMMA FinishRefines ==
  ASSUME IInv, Finish PROVE Delivery!Done
<1>1. \A f : Held(boxes', f) = Held(boxes, f)
  BY FinishKeeps
<1>2. /\ frame # NoFrame /\ index >= size
      /\ frame' = NoFrame /\ walked' = NoFilter /\ index' = 0 /\ size' = 0 /\ calling' = Nobody
  BY DEF Finish
<1>3. index \in Nat /\ size \in Int
  BY DEF IInv, TypeOK
<1>4. Due = {} /\ Due' = {} /\ Passed' = {}
  <2>1. (index + 1)..size = {} /\ (0 + 1)..0 = {} /\ 1..0 = {}
    BY <1>2, <1>3
  <2>2. QED BY <1>2, <2>1 DEF Due, Passed, Places
<1>5. Listeners' = Listeners /\ At' = NoFilter
  BY <1>1, <1>2, CanDispatchAssumption DEF Listeners, At
<1>6. QED BY <1>2, <1>4, <1>5, Mapping DEF Delivery!Done, At

(* A frame is taken for the filter of the first box that matches.             *)
LEMMA ReceiveRefines ==
  ASSUME IInv, NEW msg \in Message, Receive(msg) PROVE Delivery!Receive(msg)
<1> DEFINE k == CanMsg2FilterBox(msg)
           s == Held(boxes, walked')
<1>0. WellFormed(boxes) /\ boxes \in Seq(Box)
  BY DEF IInv, WellFormed
<1>1. /\ k # 0 /\ boxes' = Reordered(k)
      /\ walked' = boxes[k].filter /\ size' = Len(boxes[k].customers)
      /\ frame = NoFrame /\ frame' = msg /\ index' = 0 /\ calling' = calling
  BY DEF Receive
<1>2. k \in DOMAIN boxes /\ boxes[k].filter \in Matches[msg]
  BY <1>0, <1>1, MatchFound
<1> HIDE DEF k
<1>3. \A f : Held(boxes', f) = Held(boxes, f)
  BY <1>0, <1>1, <1>2, ReorderedIs
<1>4. boxes[k] \in Box /\ boxes[k].customers # <<>> /\ s = boxes[k].customers
  BY <1>0, <1>1, <1>2, BoxFound DEF WellFormed
<1>5. walked' \in Filter /\ s \in Seq(Customer) /\ s # <<>> /\ size' = Len(s)
  BY <1>1, <1>4 DEF Box
<1> HIDE DEF s
<1>6. DOMAIN s = 1..Len(s) /\ 1 \in DOMAIN s
  BY <1>5
<1>7. Due' = Range(s) /\ Passed' = {}
  <2>1. Held(boxes', walked') = s
    BY <1>3 DEF s
  <2>2. (0 + 1)..Len(s) = DOMAIN s /\ 1..0 = {}
    BY <1>6
  <2>3. QED BY <2>1, <2>2, <1>1, <1>5 DEF Due, Passed, Places, Range
<1>8. At' = walked'
  BY <1>5, CanDispatchAssumption DEF At
<1>9. Listeners' = Listeners
  BY <1>3 DEF Listeners
<1>10. Listeners[At'] = Range(s) /\ Range(s) # {}
  BY <1>5, <1>6, <1>8 DEF Listeners, s, Range
<1>11. /\ frame = NoFrame /\ frame' = msg
       /\ At' \in Matches[msg] /\ Listeners[At'] # {}
       /\ Due' = Listeners[At'] /\ Passed' = {}
       /\ Listeners' = Listeners /\ calling' = calling
  BY <1>1, <1>2, <1>7, <1>8, <1>9, <1>10
<1>12. QED BY <1>11, Mapping DEF Delivery!Receive, At

(* A customer has its turn.                                                   *)
LEMMA TurnRefines ==
  ASSUME IInv, Turn PROVE \E c \in Customer : Delivery!Turn(c)
<1> DEFINE s == Held(boxes, walked)
           c == s[index + 1]
<1>1. CustomersOf(walked) = s
  BY DEF CustomersOf, BoxOf, Held, BoxIn
<1>2. /\ frame # NoFrame /\ index < size /\ index' = index + 1
      /\ calling' = IF Suits(frame, c) THEN c ELSE Nobody
      /\ UNCHANGED <<boxes, frame, walked, size>>
  BY <1>1 DEF Turn
<1>3. TypeOK /\ WalkConsistent /\ WellFormed(boxes)
  BY DEF IInv
<1>4. walked \in Filter /\ index \in Nat /\ size \in Int
  BY <1>2, <1>3 DEF TypeOK, WalkConsistent
<1>5. s \in Seq(Customer) /\ size <= Len(s) /\ IsInjective(s)
  BY <1>3, <1>4, HeldType DEF WalkConsistent
<1> HIDE DEF s
<1>6. Len(s) \in Nat /\ DOMAIN s = 1..Len(s)
  BY <1>5
<1>7. index + 1 \in DOMAIN s /\ c \in Customer
  BY <1>2, <1>4, <1>5, <1>6
<1>8. \A i \in DOMAIN s : s[i] = c => i = index + 1
  BY <1>5, <1>7 DEF IsInjective
<1>9. Due = Places(s, (index + 1)..size) /\ Passed = Places(s, 1..index)
      /\ Due' = Places(s, (index + 2)..size) /\ Passed' = Places(s, 1..(index + 1))
  <2>1. (index + 1) + 1 = index + 2
    BY <1>4
  <2>2. QED BY <1>2, <2>1 DEF Due, Passed, s
<1>10. /\ (index + 1)..size = {index + 1} \union ((index + 2)..size)
       /\ 1..(index + 1) = (1..index) \union {index + 1}
       /\ index + 1 \notin (index + 2)..size
  BY <1>2, <1>4
<1> HIDE DEF c
<1>11. c \in Due /\ Due' = Due \ {c} /\ Passed' = Passed \union {c}
  BY <1>7, <1>8, <1>9, <1>10 DEF Places, c
<1>12. Listeners' = Listeners /\ At' = At
  BY <1>2 DEF Listeners, At
<1>13. Delivery!Turn(c)
  BY <1>2, <1>11, <1>12, Mapping DEF Delivery!Turn, Delivery!Suits, Suits, At
<1>14. QED BY <1>7, <1>13

(* An insertion registers; the places of the walk stay what they are.         *)
LEMMA InsertRefines ==
  ASSUME IInv, NEW c \in Customer, NEW f \in Filter, InsertFilter(c, f)
  PROVE  Delivery!Register(c, f)
<1>1. TypeOK /\ WalkConsistent /\ WellFormed(boxes)
  BY DEF IInv
<1>2. \A g : Held(boxes', g) = IF g = f THEN Append(Held(boxes, f), c) ELSE Held(boxes, g)
  BY InsertKeeps
<1>3. Free /\ UNCHANGED <<frame, walked, index, size, calling>>
  BY DEF InsertFilter, walk
<1>4. \A s \in Seq(Customer) :
        /\ Range(Append(s, c)) = Range(s) \union {c}
        /\ Len(s) \in Nat /\ DOMAIN s = 1..Len(s)
        /\ DOMAIN Append(s, c) = 1..(Len(s) + 1)
        /\ \A i \in 1..Len(s) : Append(s, c)[i] = s[i]
  <2> SUFFICES ASSUME NEW s \in Seq(Customer)
               PROVE  /\ Range(Append(s, c)) = Range(s) \union {c}
                      /\ Len(s) \in Nat /\ DOMAIN s = 1..Len(s)
                      /\ DOMAIN Append(s, c) = 1..(Len(s) + 1)
                      /\ \A i \in 1..Len(s) : Append(s, c)[i] = s[i]
    OBVIOUS
  <2>1. /\ Len(s) \in Nat /\ DOMAIN s = 1..Len(s)
        /\ DOMAIN Append(s, c) = 1..(Len(s) + 1)
        /\ \A i \in 1..Len(s) : Append(s, c)[i] = s[i]
        /\ Append(s, c)[Len(s) + 1] = c
    OBVIOUS
  <2>2. 1..(Len(s) + 1) = (1..Len(s)) \union {Len(s) + 1}
    BY <2>1
  <2>3. Range(Append(s, c)) = Range(s) \union {c}
    BY <2>1, <2>2 DEF Range
  <2>4. QED BY <2>1, <2>3
<1>5. Listeners' = [Listeners EXCEPT ![f] = @ \union {c}]
  <2>1. \A g : Held(boxes, g) \in Seq(Customer)
    BY <1>1, HeldType
  <2>2. QED BY <1>2, <1>4, <2>1 DEF Listeners
<1>6. Due' = Due /\ Passed' = Passed
  <2>1. CASE walked # f
    BY <2>1, <1>2, <1>3 DEF Due, Passed
  <2>2. CASE walked = f
    <3> DEFINE s == Held(boxes, f)
    <3>1. s \in Seq(Customer)
      BY <1>1, HeldType
    <3>2. size <= Len(s) /\ index <= Len(s) /\ index \in Nat /\ size \in Int
      BY <1>1, <2>2 DEF WalkConsistent, TypeOK
    <3>3. Held(boxes', walked') = Append(s, c)
      BY <1>2, <1>3, <2>2
    <3> HIDE DEF s
    <3>4. \A i \in (index + 1)..size : i \in DOMAIN s /\ i \in DOMAIN Append(s, c) /\ Append(s, c)[i] = s[i]
      BY <3>1, <3>2, <1>4
    <3>5. \A i \in 1..index : i \in DOMAIN s /\ i \in DOMAIN Append(s, c) /\ Append(s, c)[i] = s[i]
      BY <3>1, <3>2, <1>4
    <3>6. Due' = Places(Append(s, c), (index + 1)..size) /\ Due = Places(s, (index + 1)..size)
      BY <1>3, <3>3, <2>2 DEF Due, s
    <3>7. Passed' = Places(Append(s, c), 1..index) /\ Passed = Places(s, 1..index)
      BY <1>3, <3>3, <2>2 DEF Passed, s
    <3>8. QED BY <3>4, <3>5, <3>6, <3>7 DEF Places
  <2>3. QED BY <2>1, <2>2
<1>7. At' = At
  BY <1>3 DEF At
<1>8. QED BY <1>3, <1>5, <1>6, <1>7, Mapping DEF Delivery!Register, Delivery!Free, Free, At

(* What stands in a range of places when one place is taken out.              *)
OneOut(s, r, p) ==
  /\ s \in Seq(Customer) /\ IsInjective(s) /\ p \in 1..Len(s)
  /\ r \in Seq(Customer) /\ Len(r) = Len(s) - 1
  /\ \A i \in 1..(Len(s) - 1) : r[i] = IF i < p THEN s[i] ELSE s[i + 1]

\* The places of the boxes that are left when some go.
LEMMA PlacesRemoved ==
  ASSUME NEW s, NEW r, NEW p, OneOut(s, r, p),
         NEW a \in Nat \ {0}, NEW b \in Int, b <= Len(s)
  PROVE  /\ p \in a..b => Places(r, a..(b - 1)) = Places(s, a..b) \ {s[p]}
         /\ p < a /\ 1 < a => Places(r, (a - 1)..(b - 1)) = Places(s, a..b)
         /\ b < p => Places(r, a..b) = Places(s, a..b)
         /\ p < a \/ b < p => s[p] \notin Places(s, a..b)
<1>0. /\ Len(s) \in Nat /\ DOMAIN s = 1..Len(s) /\ DOMAIN r = 1..(Len(s) - 1)
      /\ p \in DOMAIN s /\ IsInjective(s)
      /\ \A i \in DOMAIN r : r[i] = IF i < p THEN s[i] ELSE s[i + 1]
  BY DEF OneOut
<1>1. ASSUME p \in a..b PROVE Places(r, a..(b - 1)) = Places(s, a..b) \ {s[p]}
  <2>1. ASSUME NEW i \in a..(b - 1), i \in DOMAIN r PROVE r[i] \in Places(s, a..b) \ {s[p]}
    <3>1. PICK j \in DOMAIN s : r[i] = s[j] /\ j \in a..b /\ j # p
      <4>1. CASE i < p
        BY <1>0, <1>1, <2>1, <4>1
      <4>2. CASE ~(i < p)
        <5>1. i + 1 \in DOMAIN s /\ r[i] = s[i + 1] /\ i + 1 \in a..b /\ i + 1 # p
          BY <1>0, <1>1, <2>1, <4>2
        <5>2. QED BY <5>1
      <4>3. QED BY <4>1, <4>2
    <3>2. s[j] # s[p]
      BY <1>0, <3>1 DEF IsInjective
    <3>3. QED BY <3>1, <3>2 DEF Places
  <2>2. ASSUME NEW j \in a..b, j \in DOMAIN s, s[j] # s[p] PROVE s[j] \in Places(r, a..(b - 1))
    <3>1. PICK i \in DOMAIN r : r[i] = s[j] /\ i \in a..(b - 1)
      <4>1. CASE j < p
        BY <1>0, <1>1, <2>2, <4>1
      <4>2. CASE j > p
        <5>1. j - 1 \in DOMAIN r /\ r[j - 1] = s[j] /\ j - 1 \in a..(b - 1)
          BY <1>0, <1>1, <2>2, <4>2
        <5>2. QED BY <5>1
      <4>3. QED BY <4>1, <4>2, <2>2, <1>0
    <3>2. QED BY <3>1 DEF Places
  <2>3. QED BY <2>1, <2>2 DEF Places
<1>2. ASSUME p < a, 1 < a PROVE Places(r, (a - 1)..(b - 1)) = Places(s, a..b)
  <2>1. ASSUME NEW i \in (a - 1)..(b - 1), i \in DOMAIN r PROVE r[i] \in Places(s, a..b)
    <3>1. i + 1 \in DOMAIN s /\ r[i] = s[i + 1] /\ i + 1 \in a..b
      BY <1>0, <1>2, <2>1
    <3>2. QED BY <3>1 DEF Places
  <2>2. ASSUME NEW j \in a..b, j \in DOMAIN s PROVE s[j] \in Places(r, (a - 1)..(b - 1))
    <3>1. j - 1 \in DOMAIN r /\ r[j - 1] = s[j] /\ j - 1 \in (a - 1)..(b - 1)
      BY <1>0, <1>2, <2>2
    <3>2. QED BY <3>1 DEF Places
  <2>3. QED BY <2>1, <2>2 DEF Places
<1>3. ASSUME b < p PROVE Places(r, a..b) = Places(s, a..b)
  <2>1. \A i \in a..b : i \in DOMAIN r /\ i \in DOMAIN s /\ r[i] = s[i]
    BY <1>0, <1>3
  <2>2. QED BY <2>1 DEF Places
<1>4. ASSUME p < a \/ b < p PROVE s[p] \notin Places(s, a..b)
  <2>1. \A i \in a..b : i \in DOMAIN s => s[i] # s[p]
    BY <1>0, <1>4 DEF IsInjective
  <2>2. QED BY <2>1 DEF Places
<1>5. QED BY <1>1, <1>2, <1>3, <1>4

(* A deletion that does not meet the walk.                                    *)
LEMMA LeavesElsewhereRefines ==
  ASSUME IInv, NEW c, NEW filters \in SUBSET Filter, Free, Leaves(c, filters),
         walked \notin filters \/ ~Contains(Held(boxes, walked), c)
  PROVE  Delivery!UnregisterElsewhere(c, filters)
<1> DEFINE s == Held(boxes, walked)
<1>1. TypeOK /\ WalkConsistent /\ WellFormed(boxes)
  BY DEF IInv
<1>2. \A g : Held(boxes', g) = IF g \in filters THEN RemoveFirst(Held(boxes, g), c) ELSE Held(boxes, g)
  BY LeavesKeeps
<1>3. CustomersOf(walked) = s
  BY DEF CustomersOf, BoxOf, Held, BoxIn
<1>4. UNCHANGED <<frame, calling, walked, index, size>>
  BY <1>3 DEF Leaves, WalkAdapted
<1>5. Held(boxes', walked) = s
  BY <1>2, RemovedNone
<1>6. Due' = Due /\ Passed' = Passed /\ At' = At
  BY <1>4, <1>5 DEF Due, Passed, At
<1>7. \A f : Held(boxes, f) \in Seq(Customer) /\ IsInjective(Held(boxes, f))
  BY <1>1, HeldType
<1>8. ASSUME NEW t \in Seq(Customer), IsInjective(t) PROVE Range(RemoveFirst(t, c)) = Range(t) \ {c}
  <2>1. CASE Contains(t, c)
    BY <2>1, <1>8, RemovedOne
  <2>2. CASE ~Contains(t, c)
    <3>1. c \notin Range(t)
      BY <2>2 DEF Contains, Range
    <3>2. QED BY <2>2, <3>1, RemovedNone
  <2>3. QED BY <2>1, <2>2
<1>9. Listeners' = [f \in Filter |-> Listeners[f] \ (IF f \in filters THEN {c} ELSE {})]
  BY <1>2, <1>7, <1>8 DEF Listeners
<1>10. At \in filters => c \notin Listeners[At]
  <2> SUFFICES ASSUME At \in filters PROVE c \notin Listeners[At]
    OBVIOUS
  <2>1. At = walked /\ walked \in Filter
    BY CanDispatchAssumption DEF At
  <2>2. c \notin Range(s)
    <3>1. s \in Seq(Customer)
      BY <1>7
    <3>2. QED BY <2>1, <3>1 DEF Contains, Range
  <2>3. QED BY <2>1, <2>2 DEF Listeners
<1>11. QED BY <1>4, <1>6, <1>9, <1>10, Mapping DEF Delivery!UnregisterElsewhere, Delivery!Free, Free, At

(* A deletion from the box of the walk.                                       *)
LEMMA LeavesRefines ==
  ASSUME IInv, NEW c, NEW filters \in SUBSET Filter, Free, Leaves(c, filters),
         walked \in filters, Contains(Held(boxes, walked), c)
  PROVE  Delivery!Unregister(c, filters)
<1> DEFINE s == Held(boxes, walked)
           r == RemoveFirst(s, c)
           p == Place(c)
<1>1. TypeOK /\ WalkConsistent /\ WellFormed(boxes) /\ walked \in Filter
  BY DEF IInv
<1>2. \A g : Held(boxes', g) = IF g \in filters THEN RemoveFirst(Held(boxes, g), c) ELSE Held(boxes, g)
  BY LeavesKeeps
<1>3. /\ Len(s) \in Nat \ {0}
      /\ walked' = IF Len(s) = 1 THEN Freed ELSE walked
      /\ index' = IF p <= index THEN index - 1 ELSE index
      /\ size' = size - 1
  BY <1>1, LeavingIs
<1>4. /\ p \in 1..Len(s) /\ s[p] = c
      /\ r \in Seq(Customer) /\ Len(r) = Len(s) - 1
      /\ \A i \in 1..(Len(s) - 1) : r[i] = IF i < p THEN s[i] ELSE s[i + 1]
      /\ Range(r) = Range(s) \ {c}
  BY <1>1, PlaceIs
<1>5. s \in Seq(Customer) /\ IsInjective(s)
  BY <1>1, HeldType
<1>6. index \in Nat /\ size \in Int /\ index <= Len(s) /\ size <= Len(s)
  BY <1>1 DEF TypeOK, WalkConsistent
<1>7. Due = Places(s, (index + 1)..size) /\ Passed = Places(s, 1..index)
  BY DEF Due, Passed
<1>8. Held(boxes', walked) = r
  BY <1>2
<1>9. Held(boxes', walked') = IF Len(s) = 1 THEN <<>> ELSE r
  <2>1. Held(boxes', Freed) = <<>>
    <3>1. boxes' \in Seq(Box) /\ \A k \in DOMAIN boxes' : boxes'[k].filter \in Filter
      <4>1. boxes' \in Seq(Box)
        BY LeavesKeeps DEF IInv, TypeOK
      <4>2. \A k \in DOMAIN boxes' : boxes'[k] \in Box
        BY <4>1
      <4>3. QED BY <4>1, <4>2 DEF Box
    <3>2. \A k \in DOMAIN boxes' : boxes'[k].filter # Freed
      BY <3>1, CanDispatchAssumption
    <3>3. QED BY <3>1, <3>2, NoBox
  <2>2. QED BY <1>3, <1>8, <2>1
<1>10. Len(s) = 1 => r = <<>>
  <2>1. Len(s) = 1 => Len(r) = 0
    BY <1>4
  <2> HIDE DEF r
  <2>2. QED BY <1>4, <2>1
<1>0. OneOut(s, r, p)
  BY <1>4, <1>5 DEF OneOut
<1> HIDE DEF s, r, p
<1>11. Due' = Places(r, (index' + 1)..(size - 1)) /\ Passed' = Places(r, 1..index')
  BY <1>3, <1>9, <1>10 DEF Due, Passed
<1>12. Passed' = Passed \ {c}
  <2>1. CASE p <= index
    <3>1. index' = index - 1 /\ p \in 1..index
      BY <1>3, <1>4, <2>1, <1>6
    <3>2. Places(r, 1..(index - 1)) = Places(s, 1..index) \ {s[p]}
      BY <3>1, <1>0, <1>6, PlacesRemoved
    <3>3. QED BY <1>4, <1>7, <1>11, <3>1, <3>2
  <2>2. CASE index < p
    <3>1. index' = index
      BY <1>3, <1>4, <2>2, <1>6
    <3>2. Places(r, 1..index) = Places(s, 1..index) /\ s[p] \notin Places(s, 1..index)
      BY <2>2, <1>0, <1>6, PlacesRemoved
    <3>3. QED BY <1>4, <1>7, <1>11, <3>1, <3>2
  <2>3. QED BY <2>1, <2>2, <1>4, <1>6
<1>13. \/ (c \in Due \union Passed \/ Due = {}) /\ Due' = Due \ {c}
       \/ c \notin Due \union Passed /\ \E d \in Due : Due' = Due \ {d}
  <2>1. CASE p <= index
    <3>1. index' = index - 1 /\ p \in 1..index /\ index + 1 \in Nat \ {0} /\ p < index + 1 /\ 1 < index + 1
      BY <1>3, <1>4, <2>1, <1>6
    <3>2. c \in Passed
      <4>1. p \in DOMAIN s
        BY <1>4, <1>5
      <4>2. QED BY <1>4, <1>7, <3>1, <4>1 DEF Places
    <3>3. Places(r, ((index + 1) - 1)..(size - 1)) = Places(s, (index + 1)..size)
          /\ s[p] \notin Places(s, (index + 1)..size)
      BY <3>1, <1>0, <1>6, PlacesRemoved
    <3>4. (index + 1) - 1 = index /\ (index - 1) + 1 = index
      BY <1>6
    <3>5. Due' = Due /\ c \notin Due
      BY <1>4, <1>7, <1>11, <3>1, <3>3, <3>4
    <3>6. QED BY <3>2, <3>5
  <2>2. CASE index < p /\ p <= size
    <3>1. index' = index /\ p \in (index + 1)..size /\ index + 1 \in Nat \ {0}
      BY <1>3, <1>4, <2>2, <1>6
    <3>2. c \in Due
      <4>1. p \in DOMAIN s
        BY <1>4, <1>5
      <4>2. QED BY <1>4, <1>7, <3>1, <4>1 DEF Places
    <3>3. Places(r, (index + 1)..(size - 1)) = Places(s, (index + 1)..size) \ {s[p]}
      BY <3>1, <1>0, <1>6, PlacesRemoved
    <3>4. QED BY <1>4, <1>7, <1>11, <3>1, <3>2, <3>3
  <2>3. CASE index < p /\ size < p
    <3>1. index' = index /\ index + 1 \in Nat \ {0} /\ size - 1 \in Int
          /\ size - 1 <= Len(s) /\ size - 1 < p
      BY <1>3, <1>4, <2>3, <1>6
    <3>2. Places(r, (index + 1)..(size - 1)) = Places(s, (index + 1)..(size - 1))
      BY <3>1, <1>0, PlacesRemoved
    <3>3. CASE size <= index
      <4>1. (index + 1)..size = {} /\ (index + 1)..(size - 1) = {}
        BY <3>3, <1>6
      <4>2. Due = {} /\ Due' = {}
        BY <4>1, <1>7, <1>11, <3>1, <3>2 DEF Places
      <4>3. QED BY <4>2
    <3>4. CASE index < size
      <4>1. size \in DOMAIN s /\ size \in (index + 1)..size
            /\ (index + 1)..size = ((index + 1)..(size - 1)) \union {size}
        BY <3>4, <1>5, <1>6
      <4>2. \A i \in (index + 1)..(size - 1) : i \in DOMAIN s => s[i] # s[size]
        BY <4>1, <1>5, <1>6 DEF IsInjective
      <4>3. s[size] \in Due /\ Due' = Due \ {s[size]}
        <5>1. Places(s, (index + 1)..size) = Places(s, (index + 1)..(size - 1)) \union {s[size]}
          BY <4>1 DEF Places
        <5>2. s[size] \notin Places(s, (index + 1)..(size - 1))
          BY <4>2 DEF Places
        <5>3. /\ Due = Places(s, (index + 1)..size)
              /\ Due' = Places(s, (index + 1)..(size - 1))
          BY <1>7, <1>11, <3>1, <3>2
        <5>4. QED BY <5>1, <5>2, <5>3
      <4>4. c \notin Due
        BY <2>3, <3>1, <1>0, <1>4, <1>6, <1>7, PlacesRemoved
      <4>5. c \notin Passed
        <5>1. 1 \in Nat \ {0} /\ index \in Int
          BY <1>6
        <5>2. QED BY <5>1, <2>3, <1>0, <1>4, <1>6, <1>7, PlacesRemoved
      <4>6. QED BY <4>3, <4>4, <4>5
    <3>5. QED BY <3>3, <3>4, <1>6
  <2>4. QED BY <2>1, <2>2, <2>3, <1>4, <1>6
<1>14. \A f : Held(boxes, f) \in Seq(Customer) /\ IsInjective(Held(boxes, f))
  BY <1>1, HeldType
<1>15. ASSUME NEW t \in Seq(Customer), IsInjective(t) PROVE Range(RemoveFirst(t, c)) = Range(t) \ {c}
  <2>1. CASE Contains(t, c)
    BY <2>1, <1>15, RemovedOne
  <2>2. CASE ~Contains(t, c)
    <3>1. c \notin Range(t)
      BY <2>2 DEF Contains, Range
    <3>2. QED BY <2>2, <3>1, RemovedNone
  <2>3. QED BY <2>1, <2>2
<1>16. Listeners' = [f \in Filter |-> Listeners[f] \ (IF f \in filters THEN {c} ELSE {})]
  BY <1>2, <1>14, <1>15 DEF Listeners
<1>17. At = walked /\ Listeners[At] = Range(s) /\ Listeners'[At] = Range(r)
  BY <1>1, <1>8, CanDispatchAssumption DEF At, Listeners, s
<1>18. c \in Listeners[At]
  <2>1. p \in DOMAIN s
    BY <1>4, <1>5
  <2>2. QED BY <2>1, <1>4, <1>17 DEF Range
<1>19. Range(r) = {} <=> Len(s) = 1
  <2>1. DOMAIN r = 1..(Len(s) - 1) /\ (Len(s) = 1 <=> 1..(Len(s) - 1) = {})
    BY <1>3, <1>4, SMTT(30)
  <2>2. QED BY <2>1 DEF Range
<1>20. At' = IF Listeners'[At] = {} THEN NoFilter ELSE At
  BY <1>3, <1>17, <1>19, CanDispatchAssumption DEF At
<1>21. UNCHANGED <<frame, calling>>
  BY DEF Leaves
<1>22. QED BY <1>12, <1>13, <1>16, <1>17, <1>18, <1>20, <1>21, Mapping
           DEF Delivery!Unregister, Delivery!Free, Free, At

\* A customer that leaves maps to a step or a stutter.
LEMMA LeavingRefines ==
  ASSUME IInv, NEW c \in Customer, NEW filters \in SUBSET Filter, Free, Leaves(c, filters)
  PROVE  Delivery!UnregisterElsewhere(c, filters) \/ Delivery!Unregister(c, filters)
<1>1. CASE walked \notin filters \/ ~Contains(Held(boxes, walked), c)
  BY <1>1, LeavesElsewhereRefines
<1>2. CASE walked \in filters /\ Contains(Held(boxes, walked), c)
  BY <1>2, LeavesRefines
<1>3. QED BY <1>1, <1>2

\* Every step maps to a step of CanDelivery or a stutter.
LEMMA StepRefines == IInv /\ [Next]_vars => [Delivery!Next]_(Delivery!vars)
<1> SUFFICES ASSUME IInv, [Next]_vars PROVE [Delivery!Next]_(Delivery!vars)
  OBVIOUS
<1>1. ASSUME NEW msg \in Message, Receive(msg) PROVE Delivery!Next
  BY <1>1, ReceiveRefines DEF Delivery!Next
<1>2. CASE Turn
  BY <1>2, TurnRefines DEF Delivery!Next
<1>3. CASE Finish
  BY <1>3, FinishRefines DEF Delivery!Next
<1>4. ASSUME NEW c \in Customer, NEW f \in Filter, InsertFilter(c, f) PROVE Delivery!Next
  BY <1>4, InsertRefines DEF Delivery!Next
<1>5. ASSUME NEW c \in Customer, NEW filters \in SUBSET Filter, Free, Leaves(c, filters)
      PROVE  Delivery!Next
  BY <1>5, LeavingRefines DEF Delivery!Next
<1>6. ASSUME NEW c \in Customer, NEW f \in Filter, DeleteFilter(c, f) PROVE Delivery!Next
  <2>1. Free /\ Leaves(c, {f}) /\ {f} \in SUBSET Filter
    BY <1>6 DEF DeleteFilter, Leaves
  <2>2. QED BY <2>1, <1>5
<1>7. ASSUME NEW c \in Customer, DeleteAllFiltersForCustomer(c) PROVE Delivery!Next
  <2>1. Free /\ Leaves(c, Filter) /\ Filter \in SUBSET Filter
    BY <1>7 DEF DeleteAllFiltersForCustomer, Leaves
  <2>2. QED BY <2>1, <1>5
<1>8. CASE UNCHANGED vars
  <2>1. UNCHANGED <<boxes, frame, walked, index, size, calling>>
    BY <1>8 DEF vars, walk
  <2>2. Listeners' = Listeners /\ At' = At /\ Due' = Due /\ Passed' = Passed
    BY <2>1 DEF Listeners, At, Due, Passed
  <2>3. UNCHANGED Delivery!vars
    BY <2>1, <2>2, Mapping DEF Delivery!vars, At
  <2>4. QED BY <2>3
<1>9. QED BY <1>1, <1>2, <1>3, <1>4, <1>6, <1>7, <1>8 DEF Next

(* CanIo_c and FilterBox_c give out frames as CanDelivery says: to each customer *)
(* of the chosen filter once, those that were deleted before their turn left     *)
(* out, although place and size of the walk are adapted by every deletion.       *)
THEOREM DispatchDelivers == Spec => Delivers
<1>1. Init => Delivery!Init
  <2> SUFFICES ASSUME Init PROVE Delivery!Init
    OBVIOUS
  <2>1. boxes = <<>> /\ walked = NoFilter /\ index = 0 /\ size = 0
    BY DEF Init
  <2>2. boxes \in Seq(Box) /\ DOMAIN boxes = {}
    BY <2>1
  <2>3. \A f : Held(boxes, f) = <<>>
    BY <2>2, NoBox
  <2>4. Range(<<>>) = {}
    BY DEF Range
  <2>5. Listeners = [f \in Filter |-> {}]
    BY <2>3, <2>4 DEF Listeners
  <2>6. Due = {} /\ Passed = {}
    BY <2>1, <2>3 DEF Due, Passed, Places
  <2>7. At = NoFilter
    BY <2>1 DEF At
  <2>8. QED BY <2>5, <2>6, <2>7, Mapping DEF Init, Delivery!Init, At
<1>2. QED BY <1>1, StepRefines, AlwaysIInv, PTL DEF Spec, Delivers, Delivery!Spec
=============================================================================
