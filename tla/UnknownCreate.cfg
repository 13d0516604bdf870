CONSTANTS
    d1 = d1
    nyc = nyc
    ams = ams
    NoRegion = NoRegion
    Deployments = {d1}
    Regions = {nyc}
    RegionList <- OneRegion
    starter = starter
    recovery = recovery
    Runners = {recovery}
    Recoverers = {recovery}
    MaxFaults = 0
    ClientsWired = TRUE
SPECIFICATION FairRunSpec
PROPERTY UnknownIsReconciled
