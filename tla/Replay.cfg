SPECIFICATION ReplaySpec
CONSTANTS
  Flavors = {"local", "soc"}
  Data <- McData
  Regions = {"uart0", "uart4", "mtime", "reserved", "mem"}
  Faulty = TRUE
INVARIANTS NeverAborts AlarmIffDifferent
