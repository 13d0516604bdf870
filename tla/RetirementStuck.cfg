CONSTANTS
    MaxDroplets = 2
    Initial = 1
    Limit = 2
    MaxFaults = 1
SPECIFICATION LifecycleFairSpec
PROPERTY RetirementCompletes
