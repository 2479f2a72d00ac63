SPECIFICATION Spec
CONSTANTS
    u1 = u1
    ip1 = ip1
    k1 = k1
    k2 = k2
    s1 = s1
    User = {u1}
    Ip = {ip1}
    Slot = {k1, k2}
    Stream = {s1}
    MaxAttempts = 2
    Window = 2
    CacheTtl = 3
    PingEvery = 2
    SessionTtl = 2
    Second = 2
    MaxTime = 6
    MaxTokens = 2
SYMMETRY Symmetry
INVARIANTS TypeOK LogoutSticks DisabledIsOut StreamEnds GuessesBounded
