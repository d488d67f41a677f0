SPECIFICATION Spec
CONSTANTS
    Instance = {i1}
    User = {u1}
    i1 = i1
    u1 = u1
    None = None
    MaxInactivity = 3
    WarnInactivity = 2
    WarnLifetime = 2
    Lifetime = 9
    LastRequest = 5
    LastDate = 7
    MaxRequests = 1
    MaxFaults = 0
    MaxCrashes = 0
PROPERTY DeletedInTime
