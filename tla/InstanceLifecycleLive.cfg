SPECIFICATION FairSpec
CONSTANTS
    Request = {r1}
    r1 = r1
    r2 = r2
    Kind = {"START", "delete", "update"}
    Job = {"allStates"}
    DailyUpdate = FALSE
    Outside = {"SHUTOFF", "SHELVED", "RESIZE", "gone"}
    Nothing = Nothing
    MaxFaults = 1
    MaxCrashes = 1
INVARIANT DeletedForAReason
PROPERTIES OneMachine UsesOneQueue OrphanIsRemoved StateFollowsCloud MarkedIsDeletedUnlessStarting
