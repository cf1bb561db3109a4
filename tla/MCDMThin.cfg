SPECIFICATION Spec
CONSTANTS
  p1 = p1
  p2 = p2
  Nothing = Nothing
  Zero = Zero
  BlockSize = 2
  MaxNode = 27
  ExtentRoom = 2
  Volumes = 3
  Blocks = 3
  Phys = {0, 1, 2, 3}
  Pool = {p1, p2}
  Cases <- MCCases
INVARIANT MapsWhatIsMapped
INVARIANT VolumesAreRight
INVARIANT MetadataAreHeld
INVARIANT NoneLeftReserved
PROPERTY OthersKeepTheirs
CHECK_DEADLOCK FALSE
