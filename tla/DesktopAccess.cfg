SPECIFICATION FairAccessSpec
CONSTANTS
    owner = owner
    near = near
    far = far
    s1 = s1
    s2 = s2
    Client = {owner, near, far}
    Server = {s1, s2}
    home <- Home
    account <- UserOf
    Revocable = {"far"}
    role <- RoleOf
    hash <- Place
    away = {owner}
    Policy = {"DISCONNECT_ALL", "LOCK_ROOM"}
    Cleanup = TRUE
    MaxFaults = 0
    MaxCrashes = 1
INVARIANTS AccessTypeOK AnswerIsNotLost RevocationReaches
PROPERTIES ImplementsRequest ClosedRoomEmpties CancellationReachesOwner
CHECK_DEADLOCK FALSE
