--------------------------- MODULE MCMultiReceive ---------------------------
(* Small instances of MultiReceive. *)
EXTENDS MultiReceive

R(client, name, pgns, broadcast, fastPacket) ==
  [client |-> client, name |-> name, pgns |-> pgns, sender |-> Global,
   broadcast |-> broadcast, fastPacket |-> fastPacket]
At(here, far, also) ==
  [n \in Name |-> CASE n = "here" -> here [] n = "far" -> far [] n = "also" -> also]
M(type, pgn, total, maxBurst) ==
  [type |-> type, pgn |-> pgn, total |-> total, maxBurst |-> maxBurst]

\* One client, and messages of one peer in any order.
AnyMessage ==
  [address |-> At("80", "81", Lost), moves |-> {}, leaves |-> {},
   registrations |-> {R("app", "here", {"p", "q"}, TRUE, FALSE)},
   starts |-> {M("StreamTP", "p", 4, 2), M("StreamETP", "q", 4, 255), M("StreamTP", "p", 2, 0)},
   seqs |-> 0..4, pages |-> 0..2, streams |-> 1, messages |-> 7, changes |-> 1]

\* Broadcasts of both kinds.
Broadcasts ==
  [address |-> At("80", "81", Lost), moves |-> {<<"far", "82">>, <<"far", Lost>>}, leaves |-> {},
   registrations |-> {R("app", "here", {"p"}, TRUE, TRUE), R("app", "here", {"q"}, TRUE, FALSE)},
   starts |-> {M("StreamFastPacket", "p", 2, 255), M("StreamTP", "q", 2, 255)},
   seqs |-> 0..2, pages |-> {0}, streams |-> 2, messages |-> 3, changes |-> 2]

\* Two clients that take the same PGN for two names whose addresses change.
TwoNames ==
  [address |-> At("80", "81", "82"),
   moves |-> {<<"here", Lost>>, <<"also", "80">>}, leaves |-> {},
   registrations |-> {R("app", "here", {"p"}, FALSE, FALSE),
                      R("other", "also", {"p"}, FALSE, FALSE)},
   starts |-> {M("StreamTP", "p", 2, 255)},
   seqs |-> 1..2, pages |-> {0}, streams |-> 2, messages |-> 3, changes |-> 3]

\* The same when the first name or the peer leaves the monitor list and the other name
\* takes the address that stays behind.
Leaving ==
  [TwoNames EXCEPT !.moves = {<<"also", "80">>}, !.leaves = {"here", "far"}, !.messages = 2]

\* Two clients on one name, that of the second filtered by sender.
TwoClients ==
  [address |-> At("80", "81", Lost), moves |-> {}, leaves |-> {},
   registrations |-> {R("app", "here", {"p"}, FALSE, FALSE),
                      [R("other", "here", {"q"}, FALSE, FALSE) EXCEPT !.sender = "far"]},
   starts |-> {M("StreamTP", "p", 2, 255), M("StreamTP", "q", 2, 255)},
   seqs |-> 1..2, pages |-> {0}, streams |-> 2, messages |-> 3, changes |-> 2]

Scenario_all == {AnyMessage, Broadcasts, TwoNames, Leaving, TwoClients}

\* The second name has no address at the start, and the first one loses its own.
Unaddressed ==
  [TwoNames EXCEPT !.address = At("80", "81", Lost), !.streams = 1, !.changes = 5]
Scenario_lost == {Unaddressed}
=============================================================================
