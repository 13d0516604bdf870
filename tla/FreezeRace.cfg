CONSTANTS
    d1 = d1
    nyc = nyc
    ams = ams
    NoRegion = NoRegion
    Deployments = {d1}
    Regions = {nyc, ams}
    RegionList <- TwoRegions
    starter = starter
    recovery = recovery
    Runners = {starter, recovery}
    Recoverers = {recovery}
    MaxFaults = 0
    ClientsWired = FALSE
SPECIFICATION RunSpec
INVARIANT FreezeIsTruthful
