CONSTANTS
    BhProcs = {m, a}
    BhMain = m
    BhHeaps = {1, 2}
    BhChunks = 3
    BhSlots = 2
    BhAllRefill = TRUE
SPECIFICATION BhSpec
CHECK_DEADLOCK FALSE
INVARIANT ObjectsGivenOnce
