CONSTANTS
    MaxDroplets = 2
    Initial = 1
    Limit = 2
    MaxFaults = 2
SPECIFICATION LifecycleFairSpec
INVARIANT LifecycleTypeOK
INVARIANT DeleteOnce
INVARIANT DeletingIsAccepted
INVARIANT FleetNeverShrinks
PROPERTY QuietRetirementCompletes
