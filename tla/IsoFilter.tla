------------------------------ MODULE IsoFilter ------------------------------
(***************************************************************************)
(* IsoFilterManager_c and IsoFilterBox_c of one ECU, with the filters they *)
(* keep at CanIo_c: the filter of a customer is given by the NAMEs of      *)
(* receiver and sender and shall follow their addresses, of which the      *)
(* manager hears by the broadcasts of the monitor list.                    *)
(*                                                                         *)
(* The manager is a record of its boxes and of the filters that CanIo_c    *)
(* has; at[n] is the address that item(n, true) finds, or NoAddress. PGN   *)
(* and mask of a filter are part of its customer here.                     *)
(***************************************************************************)
EXTENDS Integers, Sequences, SequencesExt

NoAddress == 254
AnyName == 0
AnyAddress == 255

\* IsoFilter_s, and what it is adapted to.
IsoFilterOf(customer, da, sa) == [customer |-> customer, da |-> da, sa |-> sa]
Named(f) == {f.da, f.sa} \ {AnyName}
AddressFor(at, name) == IF name = AnyName THEN AnyAddress ELSE at[name]
Adapted(f, at) ==
  [customer |-> f.customer, da |-> AddressFor(at, f.da), sa |-> AddressFor(at, f.sa)]

\* An IsoFilterBox_c. made: mpc_filterBox is set; adapted is kept when it is not.
NoFilter == [customer |-> "", da |-> AnyAddress, sa |-> AnyAddress]
NewBox(f) == [filter |-> f, made |-> FALSE, adapted |-> NoFilter]

NoFilters == [boxes |-> <<>>, can |-> {}]

\* updateOnAdd of box k. CanIo_c::insertFilter answers NULL for a filter it has.
UpdateOnAdd(fs, k, at) ==
  LET box == fs.boxes[k]
      a == Adapted(box.filter, at)
  IN IF box.made \/ \E n \in Named(box.filter) : at[n] = NoAddress THEN fs
     ELSE [boxes |-> [fs.boxes EXCEPT ![k].made = a \notin fs.can, ![k].adapted = a],
           can |-> fs.can \union {a}]

\* updateOnRemove of box k, for one of its names or, at its removal, for AnyName.
UpdateOnRemove(fs, k, name) ==
  LET box == fs.boxes[k]
  IN IF ~box.made \/ (name # AnyName /\ name \notin Named(box.filter)) THEN fs
     ELSE [boxes |-> [fs.boxes EXCEPT ![k].made = FALSE], can |-> fs.can \ {box.adapted}]

BoxOf(fs, f) == {k \in DOMAIN fs.boxes : fs.boxes[k].filter = f}

InsertIsoFilter(fs, f, at) ==
  IF BoxOf(fs, f) # {} THEN fs
  ELSE UpdateOnAdd([fs EXCEPT !.boxes = Append(@, NewBox(f))], Len(fs.boxes) + 1, at)

RemoveIsoFilter(fs, f) ==
  IF BoxOf(fs, f) = {} THEN fs
  ELSE LET k == CHOOSE k \in BoxOf(fs, f) : \A l \in BoxOf(fs, f) : k <= l
       IN [UpdateOnRemove(fs, k, AnyName) EXCEPT !.boxes = RemoveAt(@, k)]

\* A defect: a box is made anew before it is taken back.
UpdateOnChange_AddFirst(fs, k, name, at) == UpdateOnRemove(UpdateOnAdd(fs, k, at), k, name)

UpdateOnChange(fs, k, name, at) == UpdateOnAdd(UpdateOnRemove(fs, k, name), k, at)

\* reactOnIsoItemModification: each box in turn.
ReactOnModification(fs, action, name, at) ==
  LET Update(now, k) ==
        CASE action \in {"AddToMonitorList", "ReclaimedAddress"} -> UpdateOnAdd(now, k, at)
          [] action = "ChangedAddress" -> UpdateOnChange(now, k, name, at)
          [] action \in {"RemoveFromMonitorList", "LostAddress"} -> UpdateOnRemove(now, k, name)
  IN FoldLeft(Update, fs, [k \in DOMAIN fs.boxes |-> k])
=============================================================================
