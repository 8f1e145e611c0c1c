\* Sessions that overlap in any way; the CPU waits for the first.
CONSTANTS
  g1 = g1
  g2 = g2
  l1 = l1
  Gdb <- OneGdb
  Lame <- OneLame
  FlagAtStart <- Zero
  WaitForDebugger = TRUE
  OneAtATime = FALSE
  MaxCommands = 2

SPECIFICATION DebuggerSpec

INVARIANTS
  DebuggerTypeOK
  AttachedHasSession
  PopNeverBlocks
  WaitsForDebugger
  StopReplyIsTrue

\* The program ends and the process with it.
CHECK_DEADLOCK FALSE
