---------------------------- MODULE MCCanDispatch ----------------------------
(* A small instance of CanDispatch: a frame to all and one to a node match *)
(* overlapping filters, and one customer wants frames of full length only. *)
EXTENDS CanDispatch, TLC

CONSTANTS x, y, z, wide, narrow, toAll, toNode

MCMatches == toAll :> {wide} @@ toNode :> {wide, narrow}
MCLength == toAll :> 8 @@ toNode :> 3
MCDlcForce == x :> -1 @@ y :> -1 @@ z :> 8
MCMinSize == -1
Alike == Permutations({x, y})
=============================================================================
