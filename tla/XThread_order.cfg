CONSTANTS
    m = m  a = a  b = b  c = c
    NoThread = NoThread
    Main = m
    Threads <- Three
    MaxPid = 3
    LogCPUs = {1, 2}
    MaxInline = 1
    UsesExit = TRUE
    UsesIO = TRUE
SPECIFICATION FairSpec
CHECK_DEADLOCK FALSE
INVARIANTS
    RetrySucceeds
    NobodyLeftAsleep
    IrrevocableIsFinal
    IInv
PROPERTIES
    CommitsInSequentialOrder
    LevelDriftsOnlyByRollback
    ThreadsEnd
