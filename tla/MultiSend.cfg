SPECIFICATION FairSpec
CONSTANTS
  AwaitTime = 1  PauseTime = 1  BamGap = 1  AbortLinger = 2  Slack = 1
  Idle = 3  BufferRetry = 1
  Pair = {"target", "all"}
  HandlerOf <- SharedHandler
  Transfer <- Transfers
  Scenario <- Scenario_all
  PkgCount <- PkgCount_full
  MaxStreams = 3
INVARIANTS StreamsConsistent PacketsCarryTheirData TaskWakesInTime
PROPERTIES StreamsEnd
