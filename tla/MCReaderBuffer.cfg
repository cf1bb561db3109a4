SPECIFICATION FairSpec
CONSTANTS
  Capacity = 6
  Word = 16
  StreamLen = 9
  FieldSizes = {1, 2, 4, 7}
  FileEndSize = 2
  DataSizes = {1, 5, 8}
  ListSizes = {1, 4, 7}
  EntrySizes = {1, 4}
  EntryHeader = 1
  MemcpyOrders = {"up"}
  NoByte = NoByte
INVARIANTS
  ReadsFit
  HandlersSeeTheirBytes
  EofOnlyAtEnd
PROPERTIES
  ComesToAnEnd
\* The reader stops at the end of the stream or at an error.
CHECK_DEADLOCK FALSE
