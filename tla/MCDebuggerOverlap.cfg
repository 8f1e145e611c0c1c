\* Two sessions that overlap.
CONSTANTS
  g1 = g1
  g2 = g2
  l1 = l1
  Gdb <- OneGdb
  Lame <- OneLame
  FlagAtStart <- Zero
  WaitForDebugger = FALSE
  OneAtATime = FALSE
  MaxCommands = 1

SPECIFICATION DebuggerSpec

INVARIANTS
  SessionIsHooked

\* The program ends and the process with it.
CHECK_DEADLOCK FALSE
