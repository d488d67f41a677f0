SPECIFICATION Spec
CONSTANTS
    owner1 = owner1
    owner2 = owner2
    user = user
    s1 = s1
    s2 = s2
    Client = {owner1, owner2, user}
    Server = {s1, s2}
    home <- Home
    account <- UserOf
    Revocable = {"other"}
    role <- RoleOf
    away = {owner1, owner2}
    Policy = {"DISCONNECT_ALL", "LOCK_ROOM"}
    Cleanup = TRUE
    MaxFaults = 1
    MaxCrashes = 1
INVARIANTS TypeOK RoomClientsAreConnected GoneIsReleased RevocationReaches
CHECK_DEADLOCK FALSE
