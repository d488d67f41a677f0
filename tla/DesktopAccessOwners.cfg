SPECIFICATION AccessSpec
CONSTANTS
    owner1 = owner1
    owner2 = owner2
    staff = staff
    s1 = s1
    s2 = s2
    s3 = s3
    Client = {owner1, owner2, staff}
    Server = {s1, s2, s3}
    home <- Apart
    account <- UserOf
    Revocable = {}
    role <- RoleOf
    hash <- Place
    away = {owner1, owner2}
    Policy = {"DISCONNECT_ALL"}
    Cleanup = TRUE
    MaxFaults = 0
    MaxCrashes = 0
INVARIANTS GrantedOnce GrantedByTheOwner AnswerIsNotLost
PROPERTY ImplementsRequest
CHECK_DEADLOCK FALSE
