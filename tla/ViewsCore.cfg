SPECIFICATION Spec
CONSTANTS
  Null = Null
  All = All
  Empty = Empty
  h1 = h1
  c1 = c1
  c2 = c2
  c3 = c3
  se = se
  no = no
  ref = ref
  r1 = r1
  r2 = r2
  r3 = r3
  Id = {r1, r2, r3}
  Request <- MCRequest
  Steps <- MCSteps
  Points = 2
  DefaultRange = 2
  PAGE = 1
  Ranges = {3}
  Hosts = {"all", "fallback"}
  Keep = 2
  Now = 3
  Links <- MCLinks
  TopLimit = 1
  GeoLimit = 1
  MaxClicks = 2
  MaxCalls = 2
INVARIANTS TypeOK WalkSeesAll OverviewAddsUp
PROPERTY OneRequestAtATime
CHECK_DEADLOCK FALSE
SYMMETRY Alike
