SPECIFICATION Spec
CONSTANTS
  Hole = Hole
  Self = Self
  Missing = Missing
  Empty = Empty
  None = None
  Zero = Zero
  BlockSize = 2
  Fanout = 2
  MaxLevels = 3
  MaxBlocks = 8
  ExtentRoom = 2
  Offsets = {0, 2, 6, 8}
  MaxWrites = 2
  Cases <- MCCases
INVARIANTS
  ContentsAreRight
  AskedIsSentOnce
  ReadOnlyIsReverted
\* The program ends.
CHECK_DEADLOCK FALSE
