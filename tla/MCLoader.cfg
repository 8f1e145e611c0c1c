\* The constants of the code; small files, and a program that asks for little.
CONSTANTS
  Word = 65536
  StartSeg = 2048
  EndSeg = 40896
  Slack = 256
  Requests <- NoRequests
  EnvParas = 128
  ComParas = 16383
  PspParas = 16
  Files <- SmallFiles
  Programs <- TheirPrograms
  BxValues <- ModestBx
  StrayBx <- Strays
  MaxBlocks = 5

SPECIFICATION LoaderSpec

INVARIANTS
  ProgramIsReady
  WritesInItsBlock
  HandlesSound
  Accounting
PROPERTIES
  ImplementsDos
  StaleFreeRefused
\* The program may terminate, and main() with it.
CHECK_DEADLOCK FALSE
