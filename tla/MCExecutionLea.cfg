\* As MCExecution.cfg: what the address test of the repository expects of LEA.
CONSTANTS
  W = 8
  Values <- AllValues
  Beginnings <- AllBeginnings
  Registers <- AllRegisters
  Contents <- AllContents

SPECIFICATION ExecSpec

INVARIANT DisplacementIsSigned
CHECK_DEADLOCK FALSE
