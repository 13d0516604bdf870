CONSTANTS
    a1 = a1
    a2 = a2
    pg = pg
    ps = ps
    v1 = v1
    o1 = o1
    NULL = NULL
    Accounts = {a1, a2}
    Proxies = {pg, ps}
    Adapter <- MCAdapter
    Exits = {v1, o1}
    SubnetOf <- MCSubnetOf
    Preferred = {v1}
    Initial <- MCBothProxied
    Targeted = {a1}
    Runners = {"keeper", "starter"}
    CalledBy <- MCCalledBy
    MaxEvents = 0
SPECIFICATION IdentityFairSpec
PROPERTY IsolationIsTemporary
CHECK_DEADLOCK FALSE
