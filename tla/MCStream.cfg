SPECIFICATION TransferSpec
CONSTANTS
  d1 = d1
  d2 = d2
  Device = {d1, d2}
  File = {0, 1}
  PhysSize = 4
  LogSize = 3
  Word = 4
  Nothing = Nothing
  Zero = Zero
  Plans <- MCPlans
INVARIANTS
  FinishedFilesAreRight
  WrittenIsUnderstood
  NothingIsForgotten
\* The reader stops at the end of the stream or at an error.
CHECK_DEADLOCK FALSE
