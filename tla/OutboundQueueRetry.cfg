SPECIFICATION Spec
CONSTANTS
  m1 = m1
  m2 = m2
  p1 = p1
  p2 = p2
  NoMsg = NoMsg
  Msg = {m1, m2}
  Peer = {p1}
  DestOf <- OnePeer
  Large = {m2}
  MaxAttempts = 1
  PendingCap = 1
  HasStore = TRUE
  MaxStoreErrors = 2
  HasRetryTask = TRUE
  MaxStops = 0
  MaxSessions = 2
INVARIANTS AcceptedStaysRetryable ReportsAreTrue
 
