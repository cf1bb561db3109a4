SPECIFICATION Spec
CONSTANTS
  d = d
  Device = {d}
  File = {1, 2, 3}
  PhysSize = 2
  LogSize = 2
  Nothing = Nothing
  Zero = Zero
  Histories <- MCHistories
INVARIANTS
  SnapshotsAreRight
  NoneIsLeftOut
\* The program ends.
CHECK_DEADLOCK FALSE
