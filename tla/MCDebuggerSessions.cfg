\* One session after the other; the program runs before the first.
CONSTANTS
  g1 = g1
  g2 = g2
  l1 = l1
  Gdb <- TwoGdb
  Lame <- OneLame
  FlagAtStart <- Zero
  WaitForDebugger = FALSE
  OneAtATime = TRUE
  MaxCommands = 3

SPECIFICATION FairDebuggerSpec

INVARIANTS
  SessionIsHooked
  StepBudget
PROPERTIES
  CommandsAreCarriedOut
  StepComesToAStop
  ResumesWithoutDebugger

\* The program ends and the process with it.
CHECK_DEADLOCK FALSE
