CONSTANTS
    e1 = e1
    e2 = e2
    q1 = q1
    q2 = q2
    q3 = q3
    Ethers <- MCEthers
    Queues <- MCQueues
    MaxFd = 7
    StdinOpen = TRUE
    Frames <- MCFrames

SYMMETRY Symmetry

SPECIFICATION Spec

INVARIANT ConnectedQueueHasSocket

\* The failed address-family assertion ends the forwarder.
CHECK_DEADLOCK FALSE
