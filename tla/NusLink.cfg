SPECIFICATION Spec
CONSTANTS
  r1 = r1
  r2 = r2
  RNode = {r1, r2}
  Budgets <- AllBudgets
  Traffic <- Streams
  Cuts = {3, 4}
  NUS_MAX_PACKET = 4
  NUS_RX_QUEUE_MAX = 2
INVARIANTS TypeOK DamageIsLocal 
CHECK_DEADLOCK FALSE
