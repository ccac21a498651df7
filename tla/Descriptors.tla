----------------------------- MODULE Descriptors -----------------------------
(***************************************************************************)
(* Ownership of the process's file descriptors by the two socket owners    *)
(* outside the listeners:                                                  *)
(*   - raw Ethernet sockets (platforms/linux/metis_GenericEther.c):        *)
(*     metisGenericEther_Create's set-up chain and _Destroy;               *)
(*   - stream buffers (core/metis_Dispatcher.c): StreamBufferConnect's     *)
(*     bind-then-connect and CreateStreamBufferFromSocket for an accepted  *)
(*     socket, both PARCEventQueues created with CloseOnFree.              *)
(* socket() and accept() return the lowest descriptor not open, or -1.    *)
(* A process may start with stdin closed (a daemon started with <&-), and  *)
(* then descriptor 0 is the first one socket() returns.                   *)
(***************************************************************************)
EXTENDS Integers, FiniteSets, FiniteSetsExt

CONSTANTS
    Ethers,     \* MetisGenericEther objects
    Queues,     \* PARCEventQueue stream buffers
    MaxFd,      \* descriptors are 0 .. MaxFd-1 (RLIMIT_NOFILE)
    StdinOpen,  \* the process started with descriptor 0 open
    Frames      \* frames a raw socket may return: [known, total, wire]

Fds == 0 .. MaxFd - 1
StdFds == IF StdinOpen THEN {0, 1, 2} ELSE {1, 2}

VARIABLES
    open,       \* descriptors open in the process
    ether,      \* Ethers -> [live, fd]: a live object and its etherSocket
    queue,      \* Queues -> [live, fd]: a live buffer and its socket (-1: none)
    aborted,    \* an assertion ended the forwarder
    rx          \* Ethers -> the last frame ReadNextFrame handed on, or NoFrame

vars == <<open, ether, queue, aborted, rx>>

Dead == [live |-> FALSE, fd |-> -1]

\* socket(): the lowest descriptor not open, or -1 (EMFILE, ENOBUFS, ...).
Socket(o) ==
    {-1} \cup (IF Fds \subseteq o THEN {} ELSE {Min(Fds \ o)})

\* close(fd) on a descriptor that is open, or a no-op (EBADF) otherwise.
Close(o, fd) == o \ {fd}

-----------------------------------------------------------------------------
(***************************************************************************)
(* _linuxEthernet_SetupSocket: socket(), then SetInterfaceIndex,           *)
(* SetInterfaceAddress, Bind and SetNonBlocking, stopping at the first     *)
(* that fails (an ioctl or bind error, or a device with no Ethernet        *)
(* address).  Only a descriptor > 0 counts as a socket.  The possible      *)
(* results, with the etherSocket the object is left holding.               *)
(***************************************************************************)
SetupSocket(o) ==
    UNION {{[fd |-> fd, success |-> ok] : ok \in IF fd > 0 THEN BOOLEAN ELSE {FALSE}} :
           fd \in Socket(o)}

\* Mutant: _metisGenericEther_Destroy forgets to close the socket.
EtherDestroyNoClose(o, fd) == o

\* _metisGenericEther_Destroy: closes etherSocket if it is > 0.
EtherDestroy(o, fd) == IF fd > 0 THEN Close(o, fd) ELSE o

(***************************************************************************)
(* metisGenericEther_Create with a valid ethertype (an invalid one returns *)
(* NULL and touches nothing): the set-up chain, and on failure             *)
(* metisGenericEther_Release, whose Destroy closes what was opened.        *)
(***************************************************************************)
EtherCreate(e) ==
    /\ ~aborted
    /\ ~ether[e].live
    /\ \E r \in SetupSocket(open) :
         LET opened == IF r.fd >= 0 THEN open \cup {r.fd} ELSE open IN
         IF r.success
         THEN /\ ether' = [ether EXCEPT ![e] = [live |-> TRUE, fd |-> r.fd]]
              /\ open' = opened
         ELSE /\ open' = EtherDestroy(opened, r.fd)
              /\ UNCHANGED ether
    /\ UNCHANGED <<queue, aborted, rx>>

\* metisGenericEther_Release of the last reference.
EtherRelease(e) ==
    /\ ~aborted
    /\ ether[e].live
    /\ open' = EtherDestroy(open, ether[e].fd)
    /\ ether' = [ether EXCEPT ![e] = Dead]
    /\ UNCHANGED <<queue, aborted, rx>>

-----------------------------------------------------------------------------
(***************************************************************************)
(* metisDispatcher_StreamBufferBindAndConnect, a bool function, on a       *)
(* buffer created with fd -1.  Its possible results: what it returns (the  *)
(* -1 of a failed socket() or fcntl() converts to true), the descriptor    *)
(* the buffer holds, and the open set after it.                            *)
(***************************************************************************)
Outcome(ret, qfd, o) == [ret |-> ret, qfd |-> qfd, open |-> o]

\* Mutant: a failed connect taken for EINPROGRESS after the close.
BindAndConnectIgnoreConnectError(o) ==
    LET fd == Min(Fds \ o) IN
    {Outcome(TRUE, -1, o)}
    \cup IF Fds \subseteq o THEN {}
         ELSE {Outcome(FALSE, -1, o), Outcome(TRUE, fd, o),
               Outcome(TRUE, fd, o \cup {fd})}

StreamBufferBindAndConnect(o) ==
    LET fd == Min(Fds \ o) IN
    \* socket() fails: return -1
    {Outcome(TRUE, -1, o)}
    \cup IF Fds \subseteq o THEN {}
         ELSE { \* fcntl F_GETFL or F_SETFL fails: close, return -1
                Outcome(TRUE, -1, o),
                \* bind fails: close, return false
                Outcome(FALSE, -1, o),
                \* SetFileDescriptor, then connect fails: close, return false
                Outcome(FALSE, fd, o),
                \* connected, or EINPROGRESS
                Outcome(TRUE, fd, o \cup {fd})}

(***************************************************************************)
(* metisDispatcher_StreamBufferConnect_INET: a new buffer, then             *)
(* BindAndConnect; on false the buffer is destroyed, and CloseOnFree       *)
(* closes the descriptor it holds (again).                                 *)
(***************************************************************************)
StreamBufferConnectInet(q) ==
    \E r \in StreamBufferBindAndConnect(open) :
        IF r.ret
        THEN /\ queue' = [queue EXCEPT ![q] = [live |-> TRUE, fd |-> r.qfd]]
             /\ open' = r.open
        ELSE /\ open' = IF r.qfd >= 0 THEN Close(r.open, r.qfd) ELSE r.open
             /\ UNCHANGED queue

\* metisDispatcher_StreamBufferConnect_INET6: the same steps on sockaddr_in6.
StreamBufferConnectInet6(q) == StreamBufferConnectInet(q)

(***************************************************************************)
(* metisDispatcher_StreamBufferConnect: local and remote must be of one    *)
(* family (assertTrue), then the INET or INET6 variant.                    *)
(***************************************************************************)
StreamBufferConnect(q) ==
    /\ ~aborted
    /\ ~queue[q].live
    /\ \/ /\ aborted' = TRUE
          /\ UNCHANGED <<open, queue>>
       \/ /\ StreamBufferConnectInet(q) \/ StreamBufferConnectInet6(q)
          /\ UNCHANGED aborted
    /\ UNCHANGED <<ether, rx>>

\* metisDispatcher_CreateStreamBufferFromSocket on a descriptor accept()ed by
\* the TCP listener.
CreateStreamBufferFromSocket(q) ==
    /\ ~aborted
    /\ ~queue[q].live
    /\ ~(Fds \subseteq open)
    /\ LET fd == Min(Fds \ open) IN
       /\ open' = open \cup {fd}
       /\ queue' = [queue EXCEPT ![q] = [live |-> TRUE, fd |-> fd]]
    /\ UNCHANGED <<ether, aborted, rx>>

\* parcEventQueue_Destroy of a live buffer: CloseOnFree closes its socket.
QueueDestroy(q) ==
    /\ ~aborted
    /\ queue[q].live
    /\ open' = IF queue[q].fd >= 0 THEN Close(open, queue[q].fd) ELSE open
    /\ queue' = [queue EXCEPT ![q] = Dead]
    /\ UNCHANGED <<ether, aborted, rx>>

-----------------------------------------------------------------------------
(***************************************************************************)
(* Reading a frame (metisGenericEther_ReadNextFrame).  A frame is the      *)
(* bytes one recv() on the raw socket returns: `wire` bytes, an Ethernet   *)
(* header, then a CCNx packet whose fixed header, when its version is      *)
(* `known`, declares `total` bytes (metisTlv_TotalPacketLength returns 0   *)
(* for an unknown version), then on some platforms the FCS.  Trimming only *)
(* drops bytes at the end, so what is handed on is the frame's first `len` *)
(* bytes.  The read buffer is a new one for each frame (the Ether listener *)
(* that creates it is not in src/).                                        *)
(***************************************************************************)
EtherHdrLen == 14       \* ETHER_HDR_LEN
FixedHeaderLen == 8     \* metisTlv_FixedHeaderLength()
NoFrame == [handed |-> FALSE, frame |-> [known |-> FALSE, total |-> 0, wire |-> 0], len |-> 0]

\* Mutant: the trim length taken without the Ethernet header.
TrimBufferNoEtherHeader(f, len) ==
    LET totalLength == IF f.known THEN f.total ELSE 0 IN
    IF len >= EtherHdrLen + FixedHeaderLen /\ len > totalLength
    THEN totalLength ELSE len

(***************************************************************************)
(* _linuxEthernet_TrimBuffer: the buffer's length after it.  The pull-up   *)
(* of header and fixed header fails on a shorter buffer, which is then     *)
(* left as it is; a longer one is cut to header plus declared packet.      *)
(***************************************************************************)
TrimBuffer(f, len) ==
    LET totalLength == (IF f.known THEN f.total ELSE 0) + EtherHdrLen IN
    IF len >= EtherHdrLen + FixedHeaderLen /\ len > totalLength
    THEN totalLength ELSE len

(***************************************************************************)
(* metisGenericEther_ReadNextFrame on a live object: the read returns a    *)
(* frame, which is trimmed and handed on (true), or fails or returns 0     *)
(* bytes (false, nothing handed on).                                       *)
(***************************************************************************)
EtherReadNextFrame(e) ==
    /\ ~aborted
    /\ ether[e].live
    /\ \/ \E f \in Frames : rx' = [rx EXCEPT ![e] = [handed |-> TRUE, frame |-> f, len |-> TrimBuffer(f, f.wire)]]
       \/ rx' = [rx EXCEPT ![e] = NoFrame]
    /\ UNCHANGED <<open, ether, queue, aborted>>

Init ==
    /\ open = StdFds
    /\ ether = [e \in Ethers |-> Dead]
    /\ queue = [q \in Queues |-> Dead]
    /\ aborted = FALSE
    /\ rx = [e \in Ethers |-> NoFrame]

Next ==
    \/ \E e \in Ethers : EtherCreate(e) \/ EtherRelease(e) \/ EtherReadNextFrame(e)
    \/ \E q \in Queues :
         StreamBufferConnect(q) \/ CreateStreamBufferFromSocket(q) \/ QueueDestroy(q)

Spec == Init /\ [][Next]_vars

-----------------------------------------------------------------------------
\* The descriptors live objects hold, and the holders of one descriptor.
Held == {ether[e].fd : e \in {x \in Ethers : ether[x].live}}
        \cup {queue[q].fd : q \in {x \in Queues : queue[x].live}}
Holders(fd) == {e \in Ethers : ether[e].live /\ ether[e].fd = fd}
               \cup {q \in Queues : queue[q].live /\ queue[q].fd = fd}

(***************************************************************************)
(* No descriptor leaks: every open descriptor besides the standard ones is *)
(* held by a live Ethernet object or stream buffer.  Every failure path of *)
(* GenericEther_Create and StreamBufferBindAndConnect must close what it   *)
(* opened, and every Destroy must close what it holds.                     *)
(***************************************************************************)
NoDescriptorLeak == open \subseteq StdFds \cup Held

(***************************************************************************)
(* A descriptor a live object holds is open and held by that object alone: *)
(* no object keeps a descriptor it closed, which the next socket() or      *)
(* accept() would hand to another object.                                  *)
(***************************************************************************)
FdOwnedOnce ==
    \A fd \in Held \ {-1} :
        /\ fd \in open \ StdFds
        /\ Cardinality(Holders(fd)) = 1

(***************************************************************************)
(* A frame ReadNextFrame hands on holds the whole CCNx packet its fixed    *)
(* header declares, or all of the frame when the frame is shorter, and no  *)
(* byte after the packet (the FCS some platforms leave on it).  This is    *)
(* what _linuxEthernet_TrimBuffer's length arithmetic must get right for   *)
(* frames with and without a trailer, and for short or truncated ones.     *)
(***************************************************************************)
FrameIsPacket ==
    \A e \in Ethers :
        LET r == rx[e] IN
        r.handed /\ r.frame.known =>
            r.len = Min({r.frame.wire, EtherHdrLen + r.frame.total})

(***************************************************************************)
(* A stream buffer StreamBufferConnect returns holds a socket: a failed    *)
(* socket() or fcntl() yields NULL, as a failed bind or connect does.      *)
(***************************************************************************)
ConnectedQueueHasSocket == \A q \in Queues : queue[q].live => queue[q].fd >= 0

=============================================================================
