SPECIFICATION SimSpec
CONSTANTS
  Chars = {"m", "s", "eot"}
  EOT = "eot"
  MaxText = 2
  MaxOut = 4
  Events = {"m", "s", "eot", "inst", "ebreak", "trap"}
  Sizes = {0, 2}
  MaxPush = 3
  Pcs = {0, 4}
  ResetPc = 0
  MaxCycles = 3
  MaxBreaks = 1
  Counts = {0, 2}
  Setups <- MCSetups
INVARIANTS SimTypeOK LastIsRecent StopsOnlyAtText FindsTextWithUniqueStart VerdictIsEarned
PROPERTIES BreakpointsHonoured CommandEnds
CHECK_DEADLOCK FALSE
