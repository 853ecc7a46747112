---------------------------- MODULE MCMultiSend ----------------------------
(* Small instances of MultiSend. *)
EXTENDS MultiSend

T(type, size, streamer) == [type |-> type, size |-> size, streamer |-> streamer]

\* One handler sends over all pairs.
SharedHandler == [p \in Pair |-> "h"]

ToTarget == {T("IsoTP", 4, TRUE), T("IsoETP", 4, TRUE), T("IsoETP", 4, FALSE)}
Short == {T("IsoTP", 2, TRUE)}
ToAll == {T("IsoTPbroadcast", 2, FALSE), T("NmeaFastPacket", 3, FALSE)}
Transfers == ToTarget \union Short \union ToAll

\* One transfer and a peer that requests whatever it likes.
AnyCts ==
  [takes |-> [p \in Pair |-> IF p = "target" THEN ToTarget ELSE {}],
   left |-> 0..3, nr |-> 0..5, streams |-> 1, messages |-> 5]

\* Several pairs at once, and every protocol.
ManyStreams ==
  [takes |-> [p \in Pair |-> IF p = "target" THEN Short ELSE ToAll],
   left |-> {0, 2}, nr |-> {1}, streams |-> 3, messages |-> 2]

Scenario_all == {AnyCts, ManyStreams}
PkgCount_full == {-1, 2}
=============================================================================
