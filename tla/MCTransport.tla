----------------------------- MODULE MCTransport -----------------------------
(* Small instances of Transport. *)
EXTENDS Transport

S(type, size, prompt, mayRefuse, transfers, maxLosses, maxAborts) ==
  [type |-> type, size |-> size, prompt |-> prompt, mayRefuse |-> mayRefuse,
   transfers |-> transfers, losses |-> maxLosses, aborts |-> maxAborts]

\* A loss, a refusal and an abort of the application.
Abort == S("IsoTP", 2..4, TRUE, TRUE, 3, 1, 1)
\* Losses only.
Losses == S("IsoETP", 2..4, TRUE, FALSE, 3, 4, 0)
\* Messages and tasks late by any time, and a loss.
Late == S("IsoETP", 2..3, FALSE, FALSE, 2, 1, 0)
LateAbort == S("IsoETP", {3}, FALSE, TRUE, 2, 0, 1)
Broadcasts == S("IsoTPbroadcast", 2..4, TRUE, FALSE, 3, 1, 1)

Scenario_all == {Abort, Losses, Late, LateAbort, Broadcasts}
=============================================================================
