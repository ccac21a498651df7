---------------------------- MODULE MCForwarder ----------------------------
(***************************************************************************)
(* Model-checking instance of Forwarder: one listener address, two peers,  *)
(* connection ids that wrap after three allocations, routes for /a and      *)
(* /a/b, and interests for /a/b by name or by KeyId with the two objects  *)
(* that carry different KeyIds and hashes.                                 *)
(***************************************************************************)
EXTENDS Forwarder

CONSTANTS l1, p1, p2, a, b, k1, k2, h1, h2

MCLocals == {l1}
MCPeers == {p1, p2}
MCPairs == MCLocals \X MCPeers
MCNames == {<<a>>, <<a, b>>}

MCPackets ==
    {[type |-> "interest", name |-> <<a, b>>, keyid |-> None, hash |-> None, hop |-> 2],
     [type |-> "interest", name |-> <<a, b>>, keyid |-> k1, hash |-> None, hop |-> 2],
     [type |-> "interest", name |-> <<a, b>>, keyid |-> None, hash |-> None, hop |-> 1],
     [type |-> "object", name |-> <<a, b>>, keyid |-> k1, hash |-> h1],
     [type |-> "object", name |-> <<a, b>>, keyid |-> k2, hash |-> h2]}

=============================================================================
