\* Two requests at once; an installation without accounts has nothing to do.
CONSTANTS
    r1 = r1
    r2 = r2
    A = A
    B = B
    Rows = {r1, r2}
    Owners = {A, B}
    Initial <- MCInitial
    Handlers = {"h1", "h2"}
    NULL = NULL
    MaxRequests = 2
    MaxFaults = 1
SPECIFICATION AdminFairSpec
CHECK_DEADLOCK FALSE
INVARIANT AdminTypeOK
INVARIANT AutomationHasToken
INVARIANT PendingRotationHasPassword
PROPERTY ScheduledWorkSurvives
PROPERTY IdentityConverges
