SPECIFICATION Spec
CONSTANTS
  i1 = i1
  i2 = i2
  i3 = i3
  NoFile = NoFile
  Inode = {i1, i2, i3}
  MaxLines = 2
  MaxRotations = 2
  BufLimit = 3
  Widened = {2}
  Extra = 3
  MaxCrashes = 1
  MaxFaults = 1
SYMMETRY InodeSymmetry
INVARIANTS TypeOK NoDuplicates NothingSkipped
PROPERTIES StoresWholeLinesOnce
CHECK_DEADLOCK FALSE
