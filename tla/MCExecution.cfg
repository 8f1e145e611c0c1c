\* A segment of eight bytes: blocks wrap around and two of them fit apart.
CONSTANTS
  W = 8
  Values <- AllValues
  Beginnings <- AllBeginnings
  Registers <- AllRegisters
  Contents <- AllContents

SPECIFICATION ExecSpec

INVARIANTS
  ExecTypeOK
  InStep
  OperandsAsEncoded
  ScanStopsAtTheFirst
  BlockIsMoved
  LoopRunsItsCourse

\* A program ends.
CHECK_DEADLOCK FALSE
