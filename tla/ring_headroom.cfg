SPECIFICATION Spec
CONSTANTS
  Size = 3
  Burst = 2
  MaxBytes = 6
  MaxUnread = 2
  Counts <- MCCounts
  Starts <- MCStarts
  Flushes = TRUE
INVARIANTS TypeOK InOrder NothingInvented
PROPERTY IsFifo
