SPECIFICATION Spec
CONSTANTS
  p1 = p1
  p2 = p2
  p3 = p3
  v4 = v4
  v6 = v6
  net64 = net64
  log = log
  log1 = log1
  i1 = i1
  i2 = i2
  Release = {1, 2, 3}
  Pattern = {p1, p2, p3}
  Defaults <- MCDefaults
  Client = {v4, v6}
  NetOf <- MCNetOf
  NoNet = NoNet
  Name = {log, log1}
  Inode = {i1, i2}
  MaxOffset = 1
  MaxStarts = 4
SYMMETRY FileSymmetry
INVARIANTS TypeOK EveryRowHasItsActor ProgressKept RemovedStaysRemoved DefaultsReachInstall
CHECK_DEADLOCK FALSE
