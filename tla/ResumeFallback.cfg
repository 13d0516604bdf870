CONSTANTS
    d1 = d1
    nyc = nyc
    ams = ams
    NoRegion = NoRegion
    Deployments = {d1}
    Regions = {nyc, ams}
    RegionList <- TwoRegions
    starter = starter
    recovery = recovery
    Runners = {recovery}
    Recoverers = {recovery}
    MaxFaults = 1
    ClientsWired = TRUE
SPECIFICATION FairRunSpec
PROPERTY RecordedIsCheckpointed
