SPECIFICATION FairSpec
CONSTANTS
  c1 = c1
  c2 = c2
  b1 = b1
  b2 = b2
  NoCall = NoCall
  Call = {c1, c2}
  Beacon = {b1, b2}
  BeaconOf <- TwoBeacons
  MaxId = 2
  EventCap = 1
  MaxStops = 1
  MaxOther = 1
INVARIANTS TypeOK AnswersAreReportedOnce EachCallIsDispatchedOnce
 
CHECK_DEADLOCK FALSE
