SPECIFICATION HFairSpec
CONSTANTS
  Space <- MCSpace
  LineWords <- MCLineWords
  NReg = 3
  Decode <- MCDecode
  BusOk <- MCBusOk
  Clint <- MCClint
  Mtime = 48
  MtimePeriod = 2
  ResetPc = 0
  BitOr <- MCBitOr
  GoSets <- Stalling
  Programs <- SocPrograms
INVARIANTS
  BurstInStep
  RefillOwnsBus
  LsuOwnsBus
PROPERTIES
  ImplementsIsa
  KeepsRetiring
