------------------------------ MODULE Delivery ------------------------------
(***************************************************************************)
(* What a connection-oriented transport protocol promises its two users:   *)
(* the receiver gets a message whole or not at all, in the order sent and  *)
(* at most once, and a sender told of success has been heard.  A sender    *)
(* told of an abort may have been heard all the same.                      *)
(***************************************************************************)
EXTENDS Naturals, Sequences

CONSTANT MaxTransfers   \* bound: transfers begun

VARIABLES acknowledged,  \* FALSE for broadcasts, which succeed by being sent
          outcome,       \* what the sender was told of every transfer it began
          delivered      \* the transfers the receiver got, in order

vars == <<acknowledged, outcome, delivered>>

Init == acknowledged \in BOOLEAN /\ outcome = <<>> /\ delivered = <<>>

\* One transfer at a time.
Begin ==
  /\ Len(outcome) < MaxTransfers
  /\ \A t \in 1..Len(outcome) : outcome[t] # "Running"
  /\ outcome' = Append(outcome, "Running")
  /\ UNCHANGED <<acknowledged, delivered>>

Deliver(t) ==
  /\ t \in 1..Len(outcome)
  /\ \A k \in 1..Len(delivered) : delivered[k] < t
  /\ delivered' = Append(delivered, t)
  /\ UNCHANGED <<acknowledged, outcome>>

Succeed(t) ==
  /\ t \in 1..Len(outcome) /\ outcome[t] = "Running"
  /\ acknowledged => \E k \in 1..Len(delivered) : delivered[k] = t
  /\ outcome' = [outcome EXCEPT ![t] = "SendSuccess"]
  /\ UNCHANGED <<acknowledged, delivered>>

Abort(t) ==
  /\ t \in 1..Len(outcome) /\ outcome[t] = "Running"
  /\ outcome' = [outcome EXCEPT ![t] = "SendAborted"]
  /\ UNCHANGED <<acknowledged, delivered>>

Next == Begin \/ \E t \in 1..MaxTransfers : Deliver(t) \/ Succeed(t) \/ Abort(t)

Spec == Init /\ [][Next]_vars
=============================================================================
