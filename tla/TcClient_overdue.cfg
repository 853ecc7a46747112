\* A server that is silent leaves the bus before anybody noticed.
SPECIFICATION Spec
CONSTANTS
  Client = {"a"}
  Server = {"u"}
  NoServer = "none"
  Peer = {"p", "q"}
  Value = {"v", "w"}
  Scenario <- Scenario_dies
  Quiet = 1  NotBusy = 1  SourceLost = 1  ServerQueue = 5
  Room <- RoomOfServer  StatusLost = 1
INVARIANTS ServerOutlivesConnections
