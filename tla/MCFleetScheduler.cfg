CONSTANTS
    a1 = a1
    s1 = s1
    s2 = s2
    auto = auto
    other = other
    Accounts = {a1}
    Profiles = {auto, other}
    AutoProfile = auto
    Schedulers = {s1, s2}
    DesiredCounts = {1, 2}
    Limit = 2
    MaxFaults = 1
SPECIFICATION SchedulerFairSpec
INVARIANT SchedulerTypeOK
INVARIANT LeaseExcludes
INVARIANT OvershootIsBounded
 
