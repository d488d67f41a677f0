SPECIFICATION Spec
CONSTANTS
    Request = {r1, r2}
    r1 = r1
    r2 = r2
    Kind = {"REBOOT", "delete", "update"}
    Job = {"allStates"}
    DailyUpdate = TRUE
    Outside = {}
    Nothing = Nothing
    MaxFaults = 0
    MaxCrashes = 0
SYMMETRY Symmetry
INVARIANTS TypeOK DeletedForAReason
