\* A program asks 48h for 0xFFFF paragraphs.
CONSTANTS
  Word = 65536
  StartSeg = 2048
  EndSeg = 40896
  Slack = 256
  Requests <- NoRequests
  EnvParas = 128
  ComParas = 16383
  PspParas = 16
  Programs <- OrdinaryPrograms
  BxValues <- AllBx
  StrayBx <- Strays
  MaxBlocks = 6

SPECIFICATION DosSpec

INVARIANT
  GrantIsLargeEnough
\* The program may terminate, and main() with it.
CHECK_DEADLOCK FALSE
