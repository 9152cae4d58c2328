CONSTANTS
    m = m  a = a  b = b  c = c
    NoThread = NoThread
    Main = m
    Threads <- Four
    MaxPid = 3
    LogCPUs = {2}
    MaxInline = 1
    UsesExit = FALSE
    UsesIO = FALSE
SPECIFICATION Spec
CHECK_DEADLOCK FALSE
PROPERTY CommitsInSequentialOrder
