CONSTANTS
    h1 = h1
    h2 = h2
    h3 = h3
    g1 = g1
    g2 = g2
    Free = Free
    Garbage = Garbage
    Handles <- MCHandles
    Guts <- MCGuts
    Names <- MCNamesWithRoot
    Type = 9
    SliceCounts = {1, 2}
    UintMax = 3

SPECIFICATION Spec

INVARIANT SliceMatchesCreate

\* A fault reading segmentArray[-1] ends the process.
CHECK_DEADLOCK FALSE
