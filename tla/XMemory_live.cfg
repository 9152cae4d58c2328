CONSTANTS
    p1 = p1  p2 = p2  h = h  g = g
    NoProc = NoProc  NoPage = NoPage
    Procs <- MCProcs
    Pages <- MCHeap
    HeapPages <- MCHeap
    MaxVersion = 2
    Checks = TRUE
    OutsidePages <- MCHeap
SPECIFICATION FairSpec
INVARIANT IInv
PROPERTIES
    LockIsReleased
