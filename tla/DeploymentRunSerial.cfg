CONSTANTS
    d1 = d1
    nyc = nyc
    ams = ams
    NoRegion = NoRegion
    Deployments = {d1}
    Regions = {nyc, ams}
    RegionList <- TwoRegions
    starter = starter
    recovery = recovery
    Runners = {recovery}
    Recoverers = {recovery}
    MaxFaults = 2
    ClientsWired = TRUE
SPECIFICATION FairRunSpec
INVARIANT RunTypeOK
INVARIANT ReadyIsProvisioned
INVARIANT OneDropletPerDeployment
INVARIANT LedgerCoversProvider
PROPERTY CheckpointNeverRegresses
PROPERTY FirstRegionIsCheckpointed
PROPERTY ImplementsLedger
