SPECIFICATION FairSpec
CONSTANTS
  m1 = m1
  m2 = m2
  p1 = p1
  p2 = p2
  NoMsg = NoMsg
  Msg = {m1}
  Peer = {p1}
  DestOf <- OneMessage
  Large = {}
  MaxAttempts = 2
  PendingCap = 1
  HasStore = TRUE
  MaxStoreErrors = 0
  HasRetryTask = TRUE
  MaxStops = 1
  MaxSessions = 2
PROPERTIES RowsAreResolved
