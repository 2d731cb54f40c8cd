SPECIFICATION ReplaySpec
CONSTANTS
  Flavors = {"local"}
  Data <- McData
  Regions = {"uart0", "uart4", "mem"}
  Faulty = FALSE
INVARIANT NoFalseAlarm
