CONSTANTS
    p1 = p1  p2 = p2  h = h  g = g
    NoProc = NoProc  NoPage = NoPage
    Procs <- MCProcs
    Pages <- MCPages
    HeapPages <- MCHeap
    MaxVersion = 1
    Checks = FALSE
    OutsidePages <- MCGlobals
SPECIFICATION Spec
INVARIANT PrivateCopiesTracked
