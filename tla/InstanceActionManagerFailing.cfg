SPECIFICATION FailingSpec
CONSTANTS
    Instance = {i1, i2}
    ActionType = {"START", "SHUTDOWN", "DELETE", "STATE"}
    Command <- MixedCommands
    Worker = {w1, w2}
    MaxCrashes = 1
    i1 = i1
    i2 = i2
    w1 = w1
    w2 = w2
SYMMETRY Symmetry
INVARIANTS OneActionPerInstance ServedIsHead
PROPERTIES ImplementsFailingQueue
CHECK_DEADLOCK FALSE
