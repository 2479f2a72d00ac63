SPECIFICATION FairSpec
CONSTANTS
  i1 = i1
  i2 = i2
  i3 = i3
  NoFile = NoFile
  Inode = {i1, i2}
  MaxLines = 2
  MaxRotations = 1
  BufLimit = 3
  Widened = {}
  Extra = 3
  MaxCrashes = 1
  MaxFaults = 1
PROPERTIES EventuallyStored
CHECK_DEADLOCK FALSE
