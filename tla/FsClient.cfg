SPECIFICATION FairSpec
CONSTANTS
  Client = {"a", "b"}
  Scenario <- Scenario_all
  Attempts = 2  Repeat = 1  RepeatBusy = 2  ServerQueue = 2  StatusLost = 2
INVARIANTS CommandsConsistent CommandsKeptApart 
PROPERTIES CommandsEnd ServerBecomesUsable
