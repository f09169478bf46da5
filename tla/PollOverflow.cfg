SPECIFICATION Spec
CONSTANTS
  m1 = m1
  m2 = m2
  m3 = m3
  m4 = m4
  Log = Log
  Msg = {m1, m2, m3, m4}
  Kind <- Kinds
  Size <- Sizes
  DataCap = 2
  GroupCap = 1
  LogCap = 1
  Capacity = 5
  JsCap = 9
  HasStore = TRUE
  MaxLogs = 1
INVARIANT BurstIsPolled
CHECK_DEADLOCK FALSE
