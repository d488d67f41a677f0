SPECIFICATION FairSpec
CONSTANTS
    Instance = {i1}
    User = {u1}
    i1 = i1
    u1 = u1
    None = None
    MaxInactivity = 3
    WarnInactivity = 3
    WarnLifetime = 2
    Lifetime = 4
    LastRequest = 5
    LastDate = 7
    MaxRequests = 1
    MaxFaults = 1
    MaxCrashes = 1
INVARIANTS TypeOK WaitIsAnswered
PROPERTIES ImplementsPolicy ExpirationKeptUntilGone DueIsDeleted ImmortalIsWithdrawn GoneIsDeleted
