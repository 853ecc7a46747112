SPECIFICATION FairSpec
CONSTANTS
  Vt = {"t", "u"}
  NoVt = "none"
  Scenario <- Scenario_all
  Properties = 1  Priorities = 2  Retries = 1
  StatusLost = 1  RepeatAfter = 0  GetVersionsTimeout = 1  CommandTimeout = 1
  PoolReadyTimeout = 1  FakeOff = 1
  ServerQueue = 3  CommandQueue = 2
INVARIANTS ConnectionConsistent
PROPERTIES ConnectionProgresses
