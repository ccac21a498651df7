CONSTANTS
    l1 = l1
    p1 = p1
    p2 = p2
    a = a
    b = b
    k1 = k1
    k2 = k2
    h1 = h1
    h2 = h2
    None = None
    NoConnection = NoConnection
    Locals <- MCLocals
    Peers <- MCPeers
    Pairs <- MCPairs
    Names <- MCNames
    Packets <- MCPackets
    IdSpace = 3
    MaxFrames = 3
    MaxEvents = 2
    Lifetime = 2
    CsCapacity = 1

SPECIFICATION Spec

INVARIANT TypeOK
INVARIANT IndexSound
 
PROPERTY IngressIsLiveSender
PROPERTY ObjectsOnlyToRequesters
PROPERTY PendingInterestsEnd

\* A trap (trapUnexpectedState, trapIllegalValue) ends the process.
CHECK_DEADLOCK FALSE
