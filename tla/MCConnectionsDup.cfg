CONSTANTS
    l1 = l1
    p1 = p1
    p2 = p2
    NoConnection = NoConnection
    Locals <- MCLocals
    Peers <- MCPeers
    Pairs <- MCPairs
    IdSpace = 4
    MaxFrames = 3

SPECIFICATION Spec

INVARIANT DualIndexConsistent

\* A trap (trapUnexpectedState, trapIllegalValue) ends the process.
CHECK_DEADLOCK FALSE
