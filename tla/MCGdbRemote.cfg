\* Two requests of any kind; one or two of everything that can go wrong.
CONSTANTS
  none = none
  NoRequest = none
  Requests <- AllRequests
  Text <- Texts
  Sum <- Sums
  VPackets <- Resumes
  Whole <- Exact
  Malformed <- Unanswered
  Retries = 3
  MaxAsked = 2
  MaxLate = 2
  MaxSpoilt = 1
  MaxRefused = 2

SPECIFICATION FairGdbSpec

INVARIANTS
  HandledWasSent
PROPERTIES
  AnswersTheRequest
  RequestIsAnswered
  SessionEnds

\* gdb leaves and the thread ends.
CHECK_DEADLOCK FALSE
