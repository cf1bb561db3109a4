SPECIFICATION Spec
CONSTANTS
  Capacity = 6
  Word = 16
  StreamLen = 10
  FieldSizes = {1, 2}
  FileEndSize = 2
  DataSizes = {1}
  ListSizes = {2}
  EntrySizes = {1}
  EntryHeader = 1
  MemcpyOrders = {"up"}
  NoByte = NoByte
INVARIANT FileEndSeesItsBytes
CHECK_DEADLOCK FALSE
