SPECIFICATION FairSpec
CONSTANTS
  d1 = d1
  Device = {d1}
  File = {0, 1}
  PhysSize = 4
  LogSize = 4
  Word = 5
  Nothing = Nothing
  Zero = Zero
  Streams <- MCStreams
INVARIANTS
  MetaBeforeData
  WritesWithinSize
  DataIsReplay
PROPERTIES
  ReaderEnds
\* The reader stops at the end of the stream or at an error.
CHECK_DEADLOCK FALSE
