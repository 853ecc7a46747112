SPECIFICATION FairSpec
CONSTANTS
  AwaitTime = 5  PauseTime = 4  BamGap = 1  AbortLinger = 6  Slack = 1
  T1 = 2  T2 = 5  TFp = 4  CtsDelay = 1  RecvSlack = 1
  Scenario <- Scenario_all
  PkgCount = {1, 2}
  Allowed = {1, 2}
  MaxTransfers = 3
  NoStream = NoStream
CHECK_DEADLOCK FALSE
INVARIANTS DeliveredIntact NoAbortWithoutFault
PROPERTIES KeepsPromises BothEndsSettle
