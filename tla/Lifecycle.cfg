SPECIFICATION Spec
CONSTANTS
  Modes = {0, 3, 4}
  MaxInits = 2
  MaxStarts = 3
  MaxPending = 2
INVARIANTS HookAgrees OneBlePoller NoZombieTasks RunningNodeIsServed
CHECK_DEADLOCK FALSE
