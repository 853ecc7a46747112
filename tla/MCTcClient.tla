----------------------------- MODULE MCTcClient -----------------------------
(* Small instances of TcClient. *)
EXTENDS TcClient

\* Only t takes in the requests of several connections.
RoomOfServer == [s \in Server |-> IF s = "t" THEN ServerQueue ELSE 3]

\* One client that uploads its description to one server, which refuses and answers late.
Upload ==
  [clients |-> {"a"}, servers |-> {"u"}, comes |-> FALSE, leaves |-> FALSE,
   silent |-> FALSE, declines |-> FALSE, forces |-> {}, refuses |-> TRUE,
   loses |-> FALSE, prompt |-> FALSE, busy |-> {FALSE}, totals |-> {FALSE},
   stored |-> {"none", "translated"}, version4 |-> TRUE, others |-> FALSE,
   peers |-> {}]

\* The same with a server that answers in time and is busy at times.
Calm ==
  [Upload EXCEPT !.prompt = TRUE, !.busy = BOOLEAN, !.totals = BOOLEAN,
                 !.stored = {"none", "old", "translated", "whole"}]

\* The server has the description, answers late, and starts and stops tasks.
Tasks == [Upload EXCEPT !.refuses = FALSE, !.totals = BOOLEAN, !.stored = {"whole"}]

\* Losses, and the application forces a new connection, with or without a deletion; up to
\* five requests may be unanswered, as many as a whole handshake of late answers takes.
Losses ==
  [Upload EXCEPT !.servers = {"t"}, !.refuses = FALSE, !.loses = TRUE, !.forces = BOOLEAN,
                 !.stored = {"whole"}]

\* Two servers that leave and return.
Leaves ==
  [Upload EXCEPT !.servers = {"t", "u"}, !.leaves = TRUE, !.refuses = FALSE, !.prompt = TRUE,
                 !.stored = {"whole"}]

\* Two servers of which each may be silent for a while.
Silences == [Leaves EXCEPT !.leaves = FALSE, !.silent = TRUE]

\* A server that is silent, leaves and returns.
Dies == [Silences EXCEPT !.prompt = FALSE, !.servers = {"u"}, !.leaves = TRUE]

\* Clients come and go, and decline.
Comes ==
  [Upload EXCEPT !.comes = TRUE, !.declines = TRUE, !.prompt = TRUE, !.refuses = FALSE,
                 !.stored = {"whole"}, !.version4 = FALSE]

\* Other long messages go to the server while the description is uploaded.
Others ==
  [Upload EXCEPT !.others = TRUE, !.refuses = FALSE, !.stored = {"old"}]

\* A peer sets values.
Peered ==
  [Upload EXCEPT !.prompt = TRUE, !.refuses = FALSE, !.totals = BOOLEAN, !.stored = {"whole"},
                 !.peers = Peer]

Scenario_dies == {Dies}
Scenario_all == {Upload, Calm, Tasks, Losses, Leaves, Silences, Dies, Comes, Others, Peered}
=============================================================================
