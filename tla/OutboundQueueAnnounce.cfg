SPECIFICATION ReachableSpec
CONSTANTS
  m1 = m1
  m2 = m2
  p1 = p1
  p2 = p2
  NoMsg = NoMsg
  Msg = {m1, m2}
  Peer = {p1, p2}
  DestOf <- TwoPeerPair
  Large = {m2}
  MaxAttempts = 1
  PendingCap = 4
  HasStore = TRUE
  MaxStoreErrors = 0
  HasRetryTask = FALSE
  MaxStops = 1
  MaxSessions = 1
PROPERTIES AnnouncesEmptyQueue
