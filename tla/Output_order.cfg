CONSTANTS
    OutThreads = {m, a, b}
    OutMain = m
    OutCapacities = {0, 9}
    OutMaxSteps = 3
    OutOptimized = {TRUE, FALSE}
SPECIFICATION OutSpec
CHECK_DEADLOCK FALSE
INVARIANT OutputIsSequential
