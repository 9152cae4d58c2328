CONSTANTS
    TsThreads = {m, a, b, c}
    TsMain = m
    TsInlines = {i, j}
    TsPages = {p, q, r}
    TsNone = none
    TsLogCPUs = 1
    TsForkAfterJoin = TRUE
SPECIFICATION TsSpec
CHECK_DEADLOCK FALSE
INVARIANT JoinGetsResult
