CONSTANTS
    h1 = h1
    h2 = h2
    h3 = h3
    g1 = g1
    g2 = g2
    Free = Free
    Garbage = Garbage
    Handles <- MCHandles
    Guts <- MCGuts
    Names <- MCNames
    Type = 9
    SliceCounts = {1, 2}
    UintMax = 3

SPECIFICATION Spec

INVARIANT TypeOK
INVARIANT RefCountExact
INVARIANT SliceMatchesCreate
INVARIANT StartsWithIsSegmentPrefix
INVARIANT CompareIsOrder
PROPERTY HashPrefixLaw
