SPECIFICATION FairSpec
CONSTANTS
  Self = Self
  Missing = Missing
  Empty = Empty
  None = None
  Zero = Zero
  Unknown = Unknown
  BufSize = 2
  Cases <- MCCases
CHECK_DEADLOCK FALSE
INVARIANT CopiesFitTheirSource
