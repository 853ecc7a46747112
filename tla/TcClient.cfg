SPECIFICATION FairSpec
CONSTANTS
  Client = {"a", "b"}
  Server = {"t", "u"}
  NoServer = "none"
  Peer = {"p", "q"}
  Value = {"v", "w"}
  Scenario <- Scenario_all
  Quiet = 1  NotBusy = 1  SourceLost = 1  ServerQueue = 5
  Room <- RoomOfServer  StatusLost = 1
INVARIANTS ConnectionsConsistent SessionsConsistent ActiveIsStored SourcesWatched
PROPERTIES HandshakeEnds
