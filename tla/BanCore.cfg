SPECIFICATION FairSpec
CONSTANTS
    a = a
    b1 = b1
    b2 = b2
    p = p
    e = e
    net = net
    lan = lan
    wide = wide
    NoFile = NoFile
    Client <- MCClient
    Target <- MCTarget
    Covers <- MCCovers
    Widen <- MCWiden
    Private = {p}
    Edge = {e}
    TooBroad = {wide}
    Config <- MCConfig
    CanReload = TRUE
    MayFail = {"include", "file", "reload", "hang", "crash", "edited"}
    MaxFaults = 1
    MaxReloads = 3
INVARIANTS TypeOK DenyFollowsList BlockedPathsFresh BlockedIncludeHasFile NginxNotBehind
PROPERTIES NeverBansTrusted EventuallyWritten HitHandled BansEnforced
