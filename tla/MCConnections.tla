--------------------------- MODULE MCConnections ---------------------------
(***************************************************************************)
(* Model-checking instance of Connections: one listener address, two       *)
(* peers, connection ids that wrap after four allocations.                 *)
(***************************************************************************)
EXTENDS Connections

CONSTANTS l1, p1, p2

MCLocals == {l1}
MCPeers == {p1, p2}
MCPairs == MCLocals \X MCPeers

=============================================================================
