SPECIFICATION FairSpec
CONSTANTS
  T1 = 1  T2 = 1  TFp = 1  CtsDelay = 0  RecvSlack = 0
  IdleWait = 2
  Client = {"app", "other"}
  Name = {"here", "far", "also"}
  Address = {"80", "81", "82"}
  Pgn = {"p", "q"}
  MaxOverall = 2  MaxPerClient = 2
  MaxStreams = 2
  Lost = "FE"  Global = "FF"  NoClient = "none"
  Scenario <- Scenario_all
INVARIANTS StreamsConsistent BurstsFit ServedByItsClient
PROPERTIES EndToldOnce StreamsSettle
