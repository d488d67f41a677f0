SPECIFICATION FairSpec
CONSTANTS
    Instance = {i1, i2}
    ActionType = {"START", "SHUTDOWN", "DELETE", "STATE"}
    Command <- SameInstance
    Worker = {w1, w2}
    MaxCrashes = 1
    i1 = i1
    i2 = i2
    w1 = w1
    w2 = w2
INVARIANTS TypeOK OneActionPerInstance OnePerType HeadIsDispatched StartedOnce
PROPERTIES ImplementsQueue PendingIsTaken QueuedIsConcluded
CHECK_DEADLOCK FALSE
