----------------------------- MODULE CanDispatch -----------------------------
(***************************************************************************)
(* CanIo_c and FilterBox_c: the boxes, one for a filter, and how a frame   *)
(* is given to the customers of one, who may insert and delete filters     *)
(* meanwhile. The place in the walk through the box is kept in static      *)
(* members that deleteFilter adapts.                                       *)
(*                                                                         *)
(* Positions count from 1, with 0 before the first customer. A box is      *)
(* known by its filter: there are no two of one filter. Time, the state of *)
(* the bus and the sending of frames are left out.                         *)
(***************************************************************************)
EXTENDS Lists, SequencesExt

CONSTANTS
  Filter, Customer, Message,
  Matches, Length, DlcForce,    \* see CanDelivery
  NoFrame, NoFilter, Nobody,
  Freed,          \* the box of the walk is deleted
  UpdateRate,     \* scui8_filter_box_list_update_rate
  MinSize         \* bound: how far deletions may lower the size of the walk

ASSUME CanDispatchAssumption ==
  /\ Matches \in [Message -> SUBSET Filter]
  /\ Length \in [Message -> 0..8] /\ DlcForce \in [Customer -> -1..8]
  /\ NoFrame \notin Message /\ {NoFilter, Freed} \intersect Filter = {}
  /\ NoFilter # Freed /\ Nobody \notin Customer
  /\ UpdateRate \in Nat /\ MinSize \in Int

VARIABLES
  boxes,      \* m_arrFilterBox
  frame,      \* the message being processed, or NoFrame
  walked,     \* mspc_currentlyProcessedFilterBox: its filter, NoFilter or Freed
  index,      \* msi_processMsgLoopIndex
  size,       \* msi_processMsgLoopSize
  calling     \* the customer whose processMsg runs, or Nobody

walk == <<frame, walked, index, size, calling>>
vars == <<boxes, walk>>

Init ==
  /\ boxes = <<>>
  /\ frame = NoFrame /\ walked = NoFilter /\ index = 0 /\ size = 0 /\ calling = Nobody

-----------------------------------------------------------------------------
(* The boxes                                                               *)

\* m_matchCnt counts no further than it matters.
Counted(box) == [box EXCEPT !.matchCnt = IF @ > UpdateRate THEN @ ELSE @ + 1]

\* getFilterBox; 0 when there is none.
BoxOf(f) == SelectInSeq(boxes, LAMBDA box : box.filter = f)
CustomersOf(f) == IF BoxOf(f) = 0 THEN <<>> ELSE boxes[BoxOf(f)].customers
\* existFilter
ExistFilter(c, f) == Contains(CustomersOf(f), c)

\* canMsg2FilterBox: the first box that matches, or 0.
CanMsg2FilterBox(msg) == SelectInSeq(boxes, LAMBDA box : box.filter \in Matches[msg])

\* A box that matched often enough changes places with the one before it.
Reordered(k) ==
  LET reset == [boxes EXCEPT ![k].matchCnt = 0]
  IN IF boxes[k].matchCnt <= UpdateRate THEN boxes
     ELSE IF k = 1 THEN reset
     ELSE [reset EXCEPT ![k - 1] = reset[k], ![k] = reset[k - 1]]

Suits(msg, c) == DlcForce[c] < 0 \/ DlcForce[c] = Length[msg]

-----------------------------------------------------------------------------
(* processMsg of CanIo_c and FilterBox_c                                   *)

\* A frame that no box matches is dropped.
Receive(msg) ==
  /\ frame = NoFrame
  /\ LET k == CanMsg2FilterBox(msg) IN
       /\ k # 0
       /\ boxes' = Reordered(k)
       /\ walked' = boxes[k].filter /\ size' = Len(boxes[k].customers)
  /\ frame' = msg /\ index' = 0 /\ UNCHANGED calling

\* The customer before has returned, and the next one has its turn.
Turn ==
  /\ frame # NoFrame /\ index < size
  /\ index' = index + 1
  /\ LET c == CustomersOf(walked)[index + 1]
     IN calling' = IF Suits(frame, c) THEN c ELSE Nobody
  /\ UNCHANGED <<boxes, frame, walked, size>>

\* The end of the walk counts the match, for a box that was deleted wherever its
\* memory is now.
Finish ==
  /\ frame # NoFrame /\ index >= size
  /\ \/ \E k \in DOMAIN boxes :
          /\ walked \in {boxes[k].filter, Freed}
          /\ boxes' = [boxes EXCEPT ![k] = Counted(@)]
     \/ walked = Freed /\ UNCHANGED boxes
  /\ frame' = NoFrame /\ walked' = NoFilter /\ index' = 0 /\ size' = 0 /\ calling' = Nobody

-----------------------------------------------------------------------------
(* What customers call, from processMsg or from elsewhere                  *)

Free == frame = NoFrame \/ calling # Nobody

InsertFilter(c, f) ==
  /\ Free /\ ~ExistFilter(c, f)
  /\ boxes' = IF BoxOf(f) = 0
              THEN Append(boxes, [filter |-> f, customers |-> <<c>>, matchCnt |-> 0])
              ELSE [boxes EXCEPT ![BoxOf(f)].customers = Append(@, c)]
  /\ UNCHANGED walk

\* The boxes of the filters without c, and no box without customers.
Without(c, filters) ==
  LET less == [k \in DOMAIN boxes |-> IF boxes[k].filter \in filters
                                      THEN [boxes[k] EXCEPT !.customers = RemoveFirst(@, c)]
                                      ELSE boxes[k]]
  IN Selected(less, {box \in Range(less) : box.customers # <<>>})

\* The one being called is not counted.
IndexAdapted_OffByOne(place) == index - (IF place < index THEN 1 ELSE 0)
IndexAdapted(place) == index - (IF place <= index THEN 1 ELSE 0)
\* The size of the walk stays until the box is gone.
WalkAdapted_SizeKept(c, filters) ==
  IF walked \notin filters \/ ~Contains(CustomersOf(walked), c)
  THEN UNCHANGED <<walked, index, size>>
  ELSE /\ walked' = IF CustomersOf(walked) = <<c>> THEN Freed ELSE walked
       /\ index' = IndexAdapted(SelectInSeq(CustomersOf(walked), LAMBDA d : d = c))
       /\ size' = IF CustomersOf(walked) = <<c>> THEN size - 1 ELSE size
\* FilterBox_c::deleteFilter of the walked box adapts the walk, for a customer that
\* was inserted meanwhile as well.
WalkAdapted(c, filters) ==
  IF walked \notin filters \/ ~Contains(CustomersOf(walked), c)
  THEN UNCHANGED <<walked, index, size>>
  ELSE /\ walked' = IF CustomersOf(walked) = <<c>> THEN Freed ELSE walked
       /\ index' = IndexAdapted(SelectInSeq(CustomersOf(walked), LAMBDA d : d = c))
       /\ size' = size - 1 /\ size > MinSize

DeleteFilter(c, f) ==
  /\ Free /\ ExistFilter(c, f)
  /\ boxes' = Without(c, {f}) /\ WalkAdapted(c, {f})
  /\ UNCHANGED <<frame, calling>>

DeleteAllFiltersForCustomer(c) ==
  /\ Free
  /\ boxes' = Without(c, Filter) /\ WalkAdapted(c, Filter)
  /\ UNCHANGED <<frame, calling>>

Next ==
  \/ \E msg \in Message : Receive(msg)
  \/ Turn
  \/ Finish
  \/ \E c \in Customer, f \in Filter : InsertFilter(c, f) \/ DeleteFilter(c, f)
  \/ \E c \in Customer : DeleteAllFiltersForCustomer(c)

Spec == Init /\ [][Next]_vars

-----------------------------------------------------------------------------
(* Properties                                                              *)

Box == [filter : Filter, customers : Seq(Customer), matchCnt : 0..(UpdateRate + 1)]

TypeOK ==
  /\ boxes \in Seq(Box)
  /\ frame \in Message \union {NoFrame} /\ calling \in Customer \union {Nobody}
  /\ walked \in Filter \union {NoFilter, Freed}
  /\ index \in Nat /\ size \in Int

\* No two boxes of a filter, none without customers, nobody twice in one.
BoxesDistinct ==
  /\ \A k, l \in DOMAIN boxes : boxes[k].filter = boxes[l].filter => k = l
  /\ \A k \in DOMAIN boxes :
       boxes[k].customers # <<>> /\ IsInjective(boxes[k].customers)

\* The walk reads no place that the vector of the box no longer has, nor a box
\* that is gone.
WalkInBounds ==
  frame # NoFrame /\ index < size => walked # Freed /\ size <= Len(CustomersOf(walked))

(* Whatever customers insert and delete while they are called, from within *)
(* the box that calls them: the boxes stay well formed, and the walk of    *)
(* FilterBox_c::processMsg stays within the vector.                        *)
BoxesConsistent == TypeOK /\ BoxesDistinct /\ WalkInBounds

Members(places) == {CustomersOf(walked)[i] : i \in places \intersect DOMAIN CustomersOf(walked)}

(* The boxes deliver what CanDelivery says: every customer of the box that *)
(* is chosen has its turn, once, unless it is deleted or loses it to the   *)
(* deletion of one that was inserted meanwhile.                            *)
Delivery == INSTANCE CanDelivery WITH
  listeners <- [f \in Filter |-> Range(CustomersOf(f))],
  at <- IF walked = Freed THEN NoFilter ELSE walked,
  due <- Members((index + 1)..size),
  passed <- Members(1..index)
Delivers == Delivery!Spec
=============================================================================
