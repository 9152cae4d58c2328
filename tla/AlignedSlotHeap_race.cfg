CONSTANTS
    AsThreads = {a, b}
    AsOwner = a
    AsChunks = {i, j}
    AsSlots = 2
    AsMaxFree = 0
    AsLocked = FALSE
    AsNone = none
SPECIFICATION AsSpec
CHECK_DEADLOCK FALSE
INVARIANT BitmapsMatchSlots
