SPECIFICATION FairSpec
CONSTANTS
  Threads <- MCThreads
  Idle = "idle"
  MaxPrio = 3
  Slice = 1
  SemMax = 2
  MbSize = 2
  MqSize = 2
  Blocks = {"b1", "b2"}
  Bits = {1, 2}
  Mutexes = {"m1", "m2"}
  HoldMax = 2
  Loads <- MCYieldLoads
  Vals = {"x", "y"}
  Alarms = {"z"}
  LockMax = 1
PROPERTY TakesTurns
