----------------------------- MODULE MCFsClient -----------------------------
(* Small instances of FsClient. *)
EXTENDS FsClient

Short(k) == [kind |-> k, long |-> FALSE]
Long(k) == [kind |-> k, long |-> TRUE]

\* One client, long and short requests, losses everywhere.
Losses ==
  [first |-> <<"a">>, registers |-> 0, deregisters |-> FALSE, connects |-> {"a"},
   asks |-> {Short("openFile"), Long("writeFile")},
   commands |-> 4, parts |-> {"getCurrentDirectory", "readFile"},
   supported |-> TRUE, busy |-> {FALSE}, prompt |-> FALSE, loses |-> TRUE, dies |-> FALSE]

\* One client that reads, and answers that may come in the middle of the next command.
Late == [Losses EXCEPT !.asks = {Short("readFile")}, !.commands = 3, !.busy = BOOLEAN]

\* A server that dies, is removed and returns under its only client.
Dying ==
  [Losses EXCEPT !.asks = {Short("readFile"), Long("writeFile")}, !.commands = 2,
                   !.busy = {FALSE}, !.loses = FALSE, !.dies = TRUE]

\* A second client comes at any time, and the server may be removed.
Second ==
  [Dying EXCEPT !.registers = 1, !.prompt = TRUE, !.asks = {Short("openFile")}]

\* Clients come and go.
Leaving ==
  [first |-> <<"a", "b">>, registers |-> 1, deregisters |-> TRUE, connects |-> {"b"},
   asks |-> {}, commands |-> 1, parts |-> {"getCurrentDirectory", "readFile"},
   supported |-> TRUE, busy |-> {FALSE}, prompt |-> TRUE, loses |-> FALSE, dies |-> FALSE]

\* A server that answers everything in several packets, or nothing.
Broken == [Losses EXCEPT !.parts = {"openFile", "writeFile"}, !.commands = 3, !.busy = BOOLEAN]

\* A server of an unsupported version.
Old == [Leaving EXCEPT !.supported = FALSE]

\* Two clients, the second at any time, and a server that answers.
Calm == [Leaving EXCEPT !.first = <<"a">>, !.connects = {"a"}, !.deregisters = FALSE]

Scenario_all == {Calm, Losses, Late, Dying, Second, Leaving, Broken, Old}
=============================================================================
