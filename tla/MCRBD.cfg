SPECIFICATION FairSpec
CONSTANTS
  Self = Self
  Missing = Missing
  Empty = Empty
  None = None
  Zero = Zero
  Unknown = Unknown
  BufSize = 2
  Cases <- MCCases
INVARIANT FilesAreRight
INVARIANT SourceIsDiffBase
INVARIANT AskedIsSent
PROPERTY RunEnds
CHECK_DEADLOCK FALSE
