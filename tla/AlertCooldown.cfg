SPECIFICATION Spec
CONSTANTS
    r1 = r1
    r2 = r2
    s1 = s1
    s2 = s2
    e1 = e1
    e2 = e2
    Rule = {r1, r2}
    Subject = {s1, s2}
    Slot = {e1, e2}
    Cooldown = 2
    MinFindings = 2
    MaxTime = 4
    MaxFaults = 1
SYMMETRY Symmetry
INVARIANTS TypeOK SilenceNeedsMail CooldownKept

