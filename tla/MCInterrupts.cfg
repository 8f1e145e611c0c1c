\* A segment of 12 words, up to three things on the stack.
CONSTANTS
  Word = 24
  Ips <- TwoIps
  Css <- OneCs
  FlagWords <- TwoFlags
  RegFiles <- TwoRegFiles
  FirstSp = 6
  Vectors <- NumbersUsed
  LastVector = 23
  Dos = 21
  SetVector = 22
  Native <- ByDoor86
  Ending <- Program
  Fatal <- Breakpoint
  Hookable <- Hooks
  Handlers <- OneHandler
  UsedRegs <- Ax
  MaxFrames = 3

SPECIFICATION InterruptsSpec

INVARIANTS
  InterruptsTypeOK
  StackHoldsFrames
PROPERTIES
  ReturnsRestore
  UnhookedIsTransparent

\* The program ends.
CHECK_DEADLOCK FALSE
