CONSTANTS
  Note = {n1}
  Device = {d1, d2}
  Config <- MCConfig
  MaxAttempts = 3
  MaxStalls = 1
  MaxStops = 1
  TO = TO
  NULL = NULL
SPECIFICATION FairSpec
INVARIANTS TypeOK StatusHasCause RepeatHasCause
PROPERTIES SingleReportIsFinal ReadingIsKept QueuedIsReported
\* A notification that has been reported, or that nobody sends, has nothing left to do.
CHECK_DEADLOCK FALSE
