\* A file whose size in bytes does not fit 16 bits.
CONSTANTS
  Word = 65536
  StartSeg = 2048
  EndSeg = 40896
  Slack = 256
  Requests <- NoRequests
  EnvParas = 128
  ComParas = 16383
  PspParas = 16
  Programs <- LargePrograms
  BxValues <- AllBx
  StrayBx <- Strays
  MaxBlocks = 6

SPECIFICATION DosSpec

INVARIANT
  ImageFits
\* The program may terminate, and main() with it.
CHECK_DEADLOCK FALSE
