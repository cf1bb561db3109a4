SPECIFICATION CliSpec
CONSTANTS
  Zero = Zero
  None = None
  Blank = Blank
  Directory = Directory
  NoHandle = NoHandle
  BlockSize = 3
  Cases <- MCCases
INVARIANTS
  ArchiveIsComplete
  StreamMeansTree
  ExtractedIsStream
  OthersSurvive
  ListIsStream
\* The programs end.
CHECK_DEADLOCK FALSE
