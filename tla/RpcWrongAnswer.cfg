SPECIFICATION Spec
CONSTANTS
  c1 = c1
  c2 = c2
  b1 = b1
  b2 = b2
  NoCall = NoCall
  Call = {c1, c2}
  Beacon = {b1}
  BeaconOf <- OneBeacon
  MaxId = 2
  EventCap = 2
  MaxStops = 0
  MaxOther = 1
INVARIANTS ResolvesWithOwnAnswer
CHECK_DEADLOCK FALSE
