SPECIFICATION FairSpec
CONSTANTS
  Device = {d1}
  File = {f1, f2}
  PhysSize = 3
  LogSize = 3
  Nothing = Nothing
INVARIANTS
  ListsSorted
  OwnersHoldTheirBytes
  ContentAsAsked
  AllDelivered
PROPERTIES
  ImplementsExtentOwner
  CallReturns
\* Everything may have been asked for: then no further call is possible.
CHECK_DEADLOCK FALSE
