SPECIFICATION FairSpec
CONSTANTS
  Ecu = {"a", "b", "c"}
  Name = {1, 2, 3}
  SelfConf = {1, 2, 3}
  Address = {1, 2, 3}
  RangeLower = 1
  RangeHigher = 4
  PreWait = 1
  ClaimWait = 1
  MaxAge = 1
  RequestPeriod = 2
  Scenario <- Scenarios
INVARIANTS IdentitiesConsistent QuietAgreement OwnAddressIsOwn HandlersKnow FiltersFollow
PROPERTIES StrongestNeverMoves AddressesSettle
CHECK_DEADLOCK FALSE
