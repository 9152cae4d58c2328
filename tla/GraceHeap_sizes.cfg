CONSTANTS
    HpPage = 64
    HpChunk = 256
    HpBase = 8
    HpEnd = 1200
    HpSizes = {12, 60, 100}
    HpMaxLive = 2
SPECIFICATION HpSpec
CHECK_DEADLOCK FALSE
INVARIANT BinsServeTheirClass
