SPECIFICATION Spec
CONSTANTS
  d1 = d1
  d2 = d2
  Device = {d1, d2}
  File = {0, 1, 2}
  PhysSize = 4
  LogSize = 3
  Nothing = Nothing
  Zero = Zero
  Plans <- MCPlans
INVARIANTS
  WholeFiles
  ExtentsTile
  SentOnce
  CopiesReferBack
\* The program ends, or stops at the first error.
CHECK_DEADLOCK FALSE
