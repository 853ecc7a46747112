--------------------------- MODULE MCAddressClaim ---------------------------
(* Small instances of AddressClaim. *)
EXTENDS AddressClaim

ClaimOf(names, sas) ==
  {[kind |-> "claim", name |-> n, sa |-> a, to |-> Global] : n \in names, a \in sas}
RequestToAll == [kind |-> "request", name |-> 0, sa |-> NoAddress, to |-> Global]

\* Two identities wish the same address; they are restarted and switched off.
Two ==
  [own |-> "a" :> {1} @@ "b" :> {2}, wish |-> [n \in Name |-> 1], foreign |-> {},
   calls |-> {"deregister", "restart"}, early |-> FALSE, changes |-> 4, sent |-> 0, late |-> 0]
\* Also while they wait to claim.
Early == [Two EXCEPT !.early = TRUE]
\* Messages are processed late.
Late == [Two EXCEPT !.calls = {}, !.changes = 2, !.late = 1]
\* One more ECU, without identities.
Observed ==
  [Two EXCEPT !.own = @ @@ "c" :> {}, !.calls = {"deregister"}, !.changes = 3]
\* Two identities of one ECU, with different wishes.
Pair ==
  [Two EXCEPT !.own = "a" :> {1, 3} @@ "b" :> {2}, !.wish = <<1, 1, 2>>,
              !.calls = {}, !.changes = 3]
\* Stronger and weaker foreign nodes claim, move and ask.
Foreign ==
  [Two EXCEPT !.own = "a" :> {2}, !.wish = [n \in Name |-> 3], !.calls = {"deregister"},
              !.changes = 2, !.sent = 3,
              !.foreign = ClaimOf({1, 3}, {1, 3, NoAddress}) \union {RequestToAll}]
\* One of them has the NAME of the own identity.
Impostor == [Foreign EXCEPT !.foreign = ClaimOf({2, 3}, {1, 3})]
Scenarios == {Two, Early, Late, Observed, Pair, Foreign, Impostor}

\* Two identities of an ECU wish the address that a stronger one claims.
Shadow ==
  [Two EXCEPT !.own = "a" :> {2, 3} @@ "b" :> {1}, !.calls = {}, !.changes = 3]
Shadows == {Shadow}
=============================================================================
