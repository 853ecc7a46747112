SPECIFICATION Spec
CONSTANTS
  T1 = 1  T2 = 1  TFp = 1  CtsDelay = 0  RecvSlack = 0
  IdleWait = 3
  Client = {"app", "other"}
  Name = {"here", "far", "also"}
  Address = {"80", "81", "82"}
  Pgn = {"p", "q"}
  MaxOverall = 1  MaxPerClient = 1
  MaxStreams = 2
  Lost = "FE"  Global = "FF"  NoClient = "none"
  Scenario <- Scenario_lost
INVARIANTS ClientForEveryChunk
