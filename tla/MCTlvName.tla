----------------------------- MODULE MCTlvName -----------------------------
(* Model-checking instance of TlvName: three wrapper handles over two      *)
(* allocations; names of one and two segments whose values differ in      *)
(* length and content, so that slices, prefixes and hashes tell them apart.*)
EXTENDS TlvName

CONSTANTS h1, h2, h3, g1, g2

MCHandles == {h1, h2, h3}
MCGuts == {g1, g2}
\* Segments are byte sequences of length 0 to 2; bytes are small naturals.
MCNames == {<<<<1>>, <<2>>>>, <<<<1, 1>>>>, <<<<1>>, << >>>>, <<<<2>>, <<1>>>>}
\* The same with the root name lci:/ of no segments.
MCNamesWithRoot == MCNames \cup {<< >>}

=============================================================================
