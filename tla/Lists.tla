--------------------------------- MODULE Lists ---------------------------------
(* SelectSeq by a set, as a recursive function, which proofs can reason about. *)
EXTENDS Integers, Sequences

\* The elements of q that are in keep, in their order.
Selected(q, keep) ==
  LET part[k \in 0..Len(q)] ==
        IF k = 0 THEN <<>>
        ELSE IF q[k] \in keep THEN Append(part[k - 1], q[k]) ELSE part[k - 1]
  IN part[Len(q)]
=============================================================================
