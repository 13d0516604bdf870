\* One proxy, created by the first request: every overlap of two requests and the monitor.
CONSTANTS
    p1 = p1
    open = open
    locked = locked
    Proxies = {p1}
    Endpoints = {open, locked}
    Open = {open}
    Initial = {}
    Home <- MCHome
    Handlers = {"h1", "h2"}
    FailureThreshold = 2
    RecoveryThreshold = 2
    NULL = NULL
    MaxRequests = 3
    MaxFaults = 1
SPECIFICATION PoolFairSpec
INVARIANT PoolTypeOK
INVARIANT VerdictIsEarned
INVARIANT RefHasSecret
PROPERTY WorkingProxyRecovers
