---------------------------- MODULE UdpListener ----------------------------
(***************************************************************************)
(* The UDP listener (io/metis_UdpListener.c) and the connection-id         *)
(* allocator it shares with the forwarder.                                 *)
(*                                                                         *)
(* A listener is bound to a local address.  Every readable event runs      *)
(* _readcb: peek at the 8-byte fixed header (recvfrom MSG_PEEK, which also *)
(* yields the peer's address), then either discard the datagram or look   *)
(* the (local, peer) pair up in the connection table, create a connection *)
(* if there is none, read the datagram and hand the message to the         *)
(* forwarder.  A datagram is abstracted to its sender and its kind:        *)
(*   "noHeader"  fewer than 8 bytes, or a fixed header of length 0         *)
(*   "truncated" shorter than the packet length its header declares        *)
(*   "malformed" complete, but metisMessage_CreateFromBuffer rejects it    *)
(*   "good"      parsed into a message                                     *)
(* and a failing recvfrom (returns -1, e.g. ENOMEM) is one more outcome.   *)
(***************************************************************************)
EXTENDS ConnectionTable

CONSTANTS
    Locals,     \* local addresses a UDP listener may bind
    Peers,      \* remote addresses datagrams come from
    MaxFrames   \* bound on stats.framesIn

VARIABLES
    nextConnectionId,   \* metisForwarder_GetNextConnectionId's counter
    listeners,          \* local address -> "unbound" | "bound" | "failed" | "destroyed"
    framesIn, framesError, framesReceived,   \* _MetisUdpStats
    lastReceived,       \* the last message handed to metisForwarder_Receive
    senders             \* history: pairs from which a datagram arrived

udpVars == <<listeners, framesIn, framesError, framesReceived, lastReceived, senders>>

NoMessage == [conn |-> NoConnection, pair |-> NoConnection]

DatagramKinds == {"noHeader", "truncated", "malformed", "good"}

\* Mutant: the pair built as (remote, local).
PairOfSwapped(local, peer) == <<peer, local>>

\* _constructAddressPair: metisAddressPair_Create(udp->localAddress, remote)
PairOf(local, peer) == <<local, peer>>

(***************************************************************************)
(* metisForwarder_GetNextConnectionId (the forwarder is not in this        *)
(* repository; spec 3: a dense unsigned counter).  'unsigned' wraps.       *)
(***************************************************************************)
GetNextConnectionId == (nextConnectionId + 1) % IdSpace

UdpInit ==
    /\ nextConnectionId = 0
    /\ listeners = [l \in Locals |-> "unbound"]
    /\ framesIn = 0 /\ framesError = 0 /\ framesReceived = 0
    /\ lastReceived = NoMessage
    /\ senders = {}

(***************************************************************************)
(* metisUdpListener_CreateInet: takes a connection id for the listener,    *)
(* then opens the socket.  A failed socket(), fcntl() or setsockopt() is   *)
(* an assertion that ends the forwarder.  A failed bind closes the socket  *)
(* and frees the listener (the id stays used); a bound socket gets a       *)
(* persistent read event, started at once, that runs _readcb.              *)
(***************************************************************************)
CreateInet(l) ==
    /\ ~aborted
    /\ listeners[l] = "unbound"
    /\ nextConnectionId' = GetNextConnectionId
    /\ \/ /\ aborted' = TRUE
          /\ UNCHANGED listeners
       \/ /\ UNCHANGED aborted
          /\ \E ok \in BOOLEAN :
                listeners' = [listeners EXCEPT ![l] = IF ok THEN "bound" ELSE "failed"]
    /\ UNCHANGED <<tableVars, framesIn, framesError, framesReceived,
                   lastReceived, senders>>

\* metisUdpListener_CreateInet6: the same steps on an AF_INET6 socket.
CreateInet6(l) == CreateInet(l)

(***************************************************************************)
(* The listener's read event, made by metisDispatcher_CreateNetworkEvent  *)
(* with isPersistent and started by StartNetworkEvent: it stays pending   *)
(* after each callback, until DestroyNetworkEvent removes it.             *)
(***************************************************************************)
ReadEventPending(l) == listeners[l] = "bound"

(***************************************************************************)
(* The listener's destroy operation (metisUdpListener_Destroy): closes the *)
(* socket and destroys the read event, so no _readcb runs for it again.    *)
(* The connections it created stay in the connection table.               *)
(***************************************************************************)
Destroy(l) ==
    /\ ~aborted
    /\ listeners[l] = "bound"
    /\ listeners' = [listeners EXCEPT ![l] = "destroyed"]
    /\ UNCHANGED <<tableVars, aborted, nextConnectionId, framesIn, framesError,
                   framesReceived, lastReceived, senders>>

(***************************************************************************)
(* _readMessage and what _receivePacket does with its result: a message   *)
(* is counted and given to the forwarder tagged with connid; a short read  *)
(* or a parse failure is counted as an error.                              *)
(***************************************************************************)
ReadMessage(connid, pair, kind) ==
    IF kind = "good"
    THEN /\ framesReceived' = framesReceived + 1
         /\ lastReceived' = [conn |-> connid, pair |-> pair]
         /\ UNCHANGED framesError
    ELSE /\ framesError' = framesError + 1
         /\ UNCHANGED <<framesReceived, lastReceived>>

(***************************************************************************)
(* _createNewConnection: a UdpConnection for the pair (its id is taken     *)
(* from the forwarder's counter) added to the connection table.            *)
(***************************************************************************)
CreateNewConnection(pair) ==
    /\ nextConnectionId' = GetNextConnectionId
    /\ Add(nextConnectionId, pair)

\* Mutant: a new connection's messages tagged with the advanced counter.
ReceivePacketTagsNextId(pair, kind) ==
    LET found == FindByAddressPair(pair) IN
    \/ /\ found # NoConnection
       /\ ReadMessage(found, pair, kind)
       /\ UNCHANGED <<tableVars, aborted, nextConnectionId>>
    \/ /\ found = NoConnection
       /\ CreateNewConnection(pair)
       /\ IF aborted'
          THEN UNCHANGED <<framesError, framesReceived, lastReceived>>
          ELSE ReadMessage(nextConnectionId', pair, kind)

ReceivePacket(pair, kind) ==
    LET found == FindByAddressPair(pair) IN
    \/ /\ found # NoConnection
       /\ ReadMessage(found, pair, kind)
       /\ UNCHANGED <<tableVars, aborted, nextConnectionId>>
    \/ /\ found = NoConnection
       /\ CreateNewConnection(pair)
       /\ IF aborted'
          THEN UNCHANGED <<framesError, framesReceived, lastReceived>>
          ELSE ReadMessage(nextConnectionId, pair, kind)

(***************************************************************************)
(* _readcb for a datagram from peer: framesIn++, _peekMessageLength, then  *)
(* _receivePacket when the peeked packet length is positive, otherwise     *)
(* _readFrameToDiscard.                                                    *)
(***************************************************************************)
ReadCallback(l, peer, kind) ==
    LET pair == PairOf(l, peer) IN
    /\ ~aborted
    /\ ReadEventPending(l)
    /\ framesIn < MaxFrames
    /\ framesIn' = framesIn + 1
    /\ senders' = senders \cup {pair}
    /\ \/ /\ kind = "noHeader"
          /\ framesError' = framesError + 1
          /\ UNCHANGED <<tableVars, aborted, nextConnectionId, framesReceived,
                         lastReceived>>
       \/ /\ kind # "noHeader"
          /\ ReceivePacket(pair, kind)
    /\ UNCHANGED listeners

(***************************************************************************)
(* _readcb when recvfrom fails: _peekMessageLength returns -1 as a size_t, *)
(* which passes the 'packetLength > 0' test, so _receivePacket runs on the *)
(* never-written peerIpAddress.  That read is undefined: its sa_family is  *)
(* not AF_INET/AF_INET6 (trapIllegalValue ends the process) or it holds    *)
(* some earlier address, modelled as any peer.  _readMessage then cannot   *)
(* read SIZE_MAX bytes and the frame is counted as an error.               *)
(***************************************************************************)
ReadCallbackRecvError(l) ==
    /\ ~aborted
    /\ ReadEventPending(l)
    /\ framesIn < MaxFrames
    /\ framesIn' = framesIn + 1
    /\ \/ /\ aborted' = TRUE
          /\ UNCHANGED <<tableVars, nextConnectionId, framesError,
                         framesReceived, lastReceived>>
       \/ \E peer \in Peers : ReceivePacket(PairOf(l, peer), "truncated")
    /\ UNCHANGED <<listeners, senders>>

=============================================================================
