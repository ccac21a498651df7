---------------------------- MODULE MCDescriptors ----------------------------
EXTENDS Descriptors, TLC

CONSTANTS e1, e2, q1, q2, q3

MCEthers == {e1, e2}
MCQueues == {q1, q2, q3}

(***************************************************************************)
(* Frames of one 20-byte packet: exact, with a 4-byte FCS, truncated after *)
(* the fixed header, shorter than the fixed header, and, with the FCS, of  *)
(* an unknown version.                                                     *)
(***************************************************************************)
MCFrames ==
    {[known |-> TRUE, total |-> 20, wire |-> w] : w \in {34, 38, 30, 18}}
    \cup {[known |-> FALSE, total |-> 20, wire |-> 38]}

\* Objects of one kind are interchangeable.
Symmetry == Permutations(MCEthers) \cup Permutations(MCQueues)
=============================================================================
