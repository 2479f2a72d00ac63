SPECIFICATION Spec
CONSTANTS
  a = a
  b = b
  home = home
  t1 = t1
  t2 = t2
  Tab = {t1, t2}
  Subject = {a, b}
  TargetOf <- MCTargetOf
  FirstTrusted <- MCFirstTrusted
  InRange = {a}
  MaxExceptions = 2
  MaxWindow = 1
  MaxClicks = 3
  MaxFixes = 1
  MaxLoads = 2
INVARIANTS TypeOK SettledPage
PROPERTIES TrustKept
CHECK_DEADLOCK FALSE
SYMMETRY Tabs
