---------------------------- MODULE Connections ----------------------------
(***************************************************************************)
(* The forwarder's connection life cycle: UDP listeners create connections *)
(* for new peers (UdpListener), configuration adds outgoing connections    *)
(* and the connection manager removes closed ones, all on the one          *)
(* dispatcher thread, so every callback below is one atomic step.          *)
(*                                                                         *)
(* The configuration and connection-manager code is not in this            *)
(* repository; their two operations are taken from the spec (sections 3,  *)
(* 4.2 and 6): add_udp/add_tcp create a connection with a fresh id for a   *)
(* given address pair and add it to the table; a closed connection is      *)
(* removed with metisConnectionTable_RemoveById.                           *)
(***************************************************************************)
EXTENDS UdpListener

VARIABLE configured     \* history: pairs given to add_* by configuration

vars == <<tableVars, aborted, nextConnectionId, udpVars, configured>>

Init ==
    /\ TableInit
    /\ aborted = FALSE
    /\ UdpInit
    /\ configured = {}

(***************************************************************************)
(* Configuration add_udp / add_tcp (spec 6): new connection, fresh id.     *)
(***************************************************************************)
ConfigAddConnection(pair) ==
    /\ ~aborted
    /\ nextConnectionId' = GetNextConnectionId
    /\ Add(nextConnectionId, pair)
    /\ configured' = configured \cup {pair}
    /\ UNCHANGED udpVars

(***************************************************************************)
(* The connection manager's handling of a ConnectionClosed missive.        *)
(***************************************************************************)
ConnectionClosed(id) ==
    /\ ~aborted
    /\ RemoveById(id)
    /\ UNCHANGED <<aborted, nextConnectionId, udpVars, configured>>

Next ==
    \/ \E l \in Locals : CreateInet(l) /\ UNCHANGED configured
    \/ \E l \in Locals, peer \in Peers, kind \in DatagramKinds :
          ReadCallback(l, peer, kind) /\ UNCHANGED configured
    \/ \E l \in Locals : ReadCallbackRecvError(l) /\ UNCHANGED configured
    \/ \E pair \in Pairs : ConfigAddConnection(pair)
    \/ \E id \in ConnectionIds : ConnectionClosed(id)

Spec == Init /\ [][Next]_vars

-----------------------------------------------------------------------------
TypeOK ==
    /\ TableTypeOK
    /\ nextConnectionId \in ConnectionIds
    /\ listeners \in [Locals -> {"unbound", "bound", "failed", "destroyed"}]
    /\ {framesIn, framesError, framesReceived} \subseteq 0 .. MaxFrames
    /\ lastReceived \in {NoMessage} \cup
          [conn : ConnectionIds, pair : Pairs]
    /\ senders \subseteq Pairs
    /\ configured \subseteq Pairs

(***************************************************************************)
(* Every message the UDP listener hands to the forwarder carries, as its   *)
(* ingress connection, a connection that is in the table at that moment    *)
(* and whose address pair is the datagram's sender: the reverse path the   *)
(* PIT records for it leads back to that sender.  It depends on           *)
(* _receivePacket's lookup-or-create and on Remove keeping the pair index  *)
(* free of removed connections.                                            *)
(***************************************************************************)
IngressIsLiveSender ==
    [][framesReceived' > framesReceived =>
         LET m == lastReceived' IN
         /\ m.conn \in DOMAIN storageTableById'
         /\ storageTableById'[m.conn] = m.pair]_vars

ConnectionsHaveOrigin ==
    \A id \in DOMAIN storageTableById :
        storageTableById[id] \in senders \cup configured

=============================================================================
