SPECIFICATION Spec
CONSTANTS
    Request = {r1}
    r1 = r1
    r2 = r2
    Kind = {"delete"}
    Job = {"allStates"}
    DailyUpdate = FALSE
    Outside = {}
    Nothing = Nothing
    MaxFaults = 0
    MaxCrashes = 0
PROPERTY OnlyZombiesAreDeleted
