----------------------------- MODULE CanDelivery -----------------------------
(***************************************************************************)
(* What CanIo_c does for the customers that register filters: a frame is   *)
(* given to those who were registered for one filter that it matches when  *)
(* it came and still are as their turn comes, once each. Which filter that *)
(* is, if it matches several, is not said. A customer that is called may   *)
(* register and unregister anybody. If it unregisters somebody whose turn  *)
(* would come with a later frame only, somebody else loses his turn.       *)
(***************************************************************************)
EXTENDS Integers

CONSTANTS
  Filter, Customer, Message,
  Matches,       \* the filters that a message matches
  Length,        \* getLen() of a message
  DlcForce,      \* the length a customer insists on, or less than 0
  NoFrame, NoFilter, Nobody

VARIABLES
  listeners,  \* the customers of a filter
  frame,      \* the message being given out, or NoFrame
  at,         \* the filter it is given out for, while it has customers
  due,        \* those who will have their turn
  passed,     \* those who had it
  calling     \* who is called, or Nobody

vars == <<listeners, frame, at, due, passed, calling>>

Suits(msg, c) == DlcForce[c] < 0 \/ DlcForce[c] = Length[msg]

Init ==
  /\ listeners = [f \in Filter |-> {}]
  /\ frame = NoFrame /\ at = NoFilter /\ due = {} /\ passed = {} /\ calling = Nobody

Receive(msg) ==
  /\ frame = NoFrame /\ frame' = msg
  /\ at' \in Matches[msg] /\ listeners[at'] # {}
  /\ due' = listeners[at'] /\ passed' = {}
  /\ UNCHANGED <<listeners, calling>>

Turn(c) ==
  /\ c \in due
  /\ due' = due \ {c} /\ passed' = passed \union {c}
  /\ calling' = IF Suits(frame, c) THEN c ELSE Nobody
  /\ UNCHANGED <<listeners, frame, at>>

Done ==
  /\ frame # NoFrame /\ due = {}
  /\ frame' = NoFrame /\ at' = NoFilter /\ passed' = {} /\ calling' = Nobody
  /\ UNCHANGED <<listeners, due>>

\* The program is not within CanIo_c: it runs between frames, or a customer does.
Free == frame = NoFrame \/ calling # Nobody

Register(c, f) ==
  /\ Free
  /\ listeners' = [listeners EXCEPT ![f] = @ \union {c}]
  /\ UNCHANGED <<frame, at, due, passed, calling>>

\* c is taken from the filters that the frame is not given out for.
UnregisterElsewhere(c, filters) ==
  /\ Free
  /\ at \in filters => c \notin listeners[at]
  /\ listeners' = [f \in Filter |-> listeners[f] \ (IF f \in filters THEN {c} ELSE {})]
  /\ UNCHANGED <<frame, at, due, passed, calling>>

Unregister(c, filters) ==
  /\ Free /\ at \in filters /\ c \in listeners[at]
  /\ listeners' = [f \in Filter |-> listeners[f] \ (IF f \in filters THEN {c} ELSE {})]
  /\ at' = IF listeners'[at] = {} THEN NoFilter ELSE at
  /\ passed' = passed \ {c}
  /\ \/ (c \in due \union passed \/ due = {}) /\ due' = due \ {c}
     \/ c \notin due \union passed /\ \E d \in due : due' = due \ {d}
  /\ UNCHANGED <<frame, calling>>

Next ==
  \/ \E msg \in Message : Receive(msg)
  \/ \E c \in Customer : Turn(c)
  \/ Done
  \/ \E c \in Customer, f \in Filter : Register(c, f)
  \/ \E c \in Customer, filters \in SUBSET Filter :
       UnregisterElsewhere(c, filters) \/ Unregister(c, filters)

Spec == Init /\ [][Next]_vars
=============================================================================
