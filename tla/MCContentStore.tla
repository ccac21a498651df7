--------------------------- MODULE MCContentStore ---------------------------
(* Model-checking instance of ContentStore: five entry addresses, a store *)
(* of capacity four, so eviction, promotion and removal from the middle  *)
(* of the list all happen.                                                 *)
EXTENDS ContentStore

CONSTANTS e1, e2, e3, e4, e5

MCEntries == {e1, e2, e3, e4, e5}

=============================================================================
