SPECIFICATION HSpec
CONSTANTS
  Space <- MCSpace
  LineWords <- MCLineWords
  NReg = 3
  Decode <- MCDecode
  BusOk <- MCBusOk
  Clint <- MCClint
  Mtime = 48
  MtimePeriod = 1
  ResetPc = 0
  BitOr <- MCBitOr
  GoSets <- AllAtOnce
  Programs <- MisalignedJumpPrograms
PROPERTIES
  CommitNextPcIsNext
