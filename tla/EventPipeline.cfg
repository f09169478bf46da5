SPECIFICATION FairSpec
CONSTANTS
  m1 = m1
  m2 = m2
  m3 = m3
  m4 = m4
  Log = Log
  Msg = {m1, m2, m3, m4}
  Kind <- Kinds
  Size <- Sizes
  DataCap = 2
  GroupCap = 1
  LogCap = 1
  Capacity = 5
  JsCap = 2
  HasStore = TRUE
  MaxLogs = 2
INVARIANTS TypeOK  ReadOnceInOrder 
 
CHECK_DEADLOCK FALSE
