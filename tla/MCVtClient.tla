----------------------------- MODULE MCVtClient -----------------------------
(* Small instances of VtClient. *)
EXTENDS VtClient

\* One terminal that holds a version of the pool, or not, answers in time, and is switched
\* to another language.
Calm ==
  [vts |-> {"t"}, fits |-> {"t"}, any |-> FALSE, labelled |-> TRUE, multi |-> TRUE,
   stored |-> {{}, {1}}, languages |-> {0, 1}, prompt |-> TRUE, loses |-> FALSE,
   refuses |-> FALSE, nacks |-> FALSE, silent |-> FALSE, off |-> FALSE, leaves |-> FALSE, others |-> FALSE,
   kinds |-> {}, replaces |-> TRUE, moves |-> FALSE, disconnects |-> FALSE,
   priorities |-> {1}]

\* A terminal that answers late, or never.
Late == [Calm EXCEPT !.prompt = FALSE, !.languages = {1}, !.stored = {{}, {0}, {1}}, !.loses = TRUE]

\* A pool without a label and in no language.
Plain == [Calm EXCEPT !.labelled = FALSE, !.multi = FALSE, !.stored = {{}}, !.languages = {0}]

\* ... whose terminal changes its language nevertheless, and falls silent.
Spoken == [Plain EXCEPT !.languages = {0, 1}, !.silent = TRUE]

\* Values are commanded, answered late, and requests, answers and transfers get lost.
Values == [Plain EXCEPT !.kinds = {"Value"}, !.prompt = FALSE, !.loses = TRUE]

\* Strings in several packets and values, in order.
Strings == [Plain EXCEPT !.kinds = {"Value", "String"}, !.replaces = FALSE, !.loses = TRUE]

\* Values with two priorities.
Urgent == [Values EXCEPT !.priorities = {1, 2}, !.loses = FALSE]

\* A terminal that refuses pools or languages, is full, and forgets the client.
Refuses == [Calm EXCEPT !.refuses = TRUE, !.nacks = TRUE, !.languages = {1},
                         !.stored = {{}, {0}, {1}}]
Rejects == [Calm EXCEPT !.refuses = TRUE, !.labelled = FALSE, !.stored = {{}}]

\* The next of two terminals is tried, by need or on command.
Next2 == [Plain EXCEPT !.vts = Vt, !.fits = Vt, !.any = TRUE, !.refuses = TRUE, !.moves = TRUE]

\* The terminal leaves the bus and returns.
Leaves == [Plain EXCEPT !.vts = Vt, !.fits = Vt, !.leaves = TRUE]

\* It is silent for a while, or switched off and on.
Silences == [Leaves EXCEPT !.leaves = FALSE, !.silent = TRUE, !.off = TRUE]

\* The application updates parts of the pool, while the language changes.
Updates == [Calm EXCEPT !.stored = {{1}}, !.kinds = {"Update"}]

\* The application disconnects.
Disconnects == [Plain EXCEPT !.kinds = {"Value"}, !.disconnects = TRUE, !.silent = TRUE]

\* Other long messages go to the terminal.
Others == [Calm EXCEPT !.others = TRUE, !.labelled = FALSE, !.stored = {{}}]

Scenario_all ==
  {Calm, Late, Plain, Spoken, Values, Strings, Urgent, Refuses, Rejects, Next2, Leaves,
   Silences, Updates, Disconnects, Others}
=============================================================================
