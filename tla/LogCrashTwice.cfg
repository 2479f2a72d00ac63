SPECIFICATION Spec
CONSTANTS
  i1 = i1
  i2 = i2
  i3 = i3
  NoFile = NoFile
  Inode = {i1}
  MaxLines = 2
  MaxRotations = 0
  BufLimit = 3
  Widened = {}
  Extra = 3
  MaxCrashes = 1
  MaxFaults = 0
INVARIANTS StoredOnce
CHECK_DEADLOCK FALSE
