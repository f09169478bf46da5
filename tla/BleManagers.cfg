SPECIFICATION ManagersSpec
CONSTANTS
  Mac = {m1}
  MaxGatts = 3
  MaxStops = 2
  MaxInits = 1
  MaxScanFails = 1
  TxUpdateFailureThreshold = 2
INVARIANTS      EntriesComeToSomething
CHECK_DEADLOCK FALSE
