------------------------------ MODULE LruOrder ------------------------------
(***************************************************************************)
(* What the content store's LRU promises (spec 4.5): the cached objects in *)
(* recency order, most recent first.  Put of a cached object and a Match   *)
(* hit move it to the front; Put of a new object puts it at the front and, *)
(* when that exceeds the capacity, evicts the least recently used one;     *)
(* expiry removes an object wherever it is.                                *)
(***************************************************************************)
EXTENDS Naturals, Sequences, SequencesExt

CONSTANTS Objects, Capacity

VARIABLE order

ToFront(s, o) == <<o>> \o Remove(s, o)

OrderInit == order = << >>

OrderPut(o) ==
    IF o \in ToSet(order)
    THEN order' = ToFront(order, o)
    ELSE LET s == <<o>> \o order IN
         order' = IF Len(s) > Capacity THEN Front(s) ELSE s

OrderMatch(o) ==
    /\ o \in ToSet(order)
    /\ order' = ToFront(order, o)

OrderExpire(o) ==
    /\ o \in ToSet(order)
    /\ order' = Remove(order, o)

OrderNext == \E o \in Objects : OrderPut(o) \/ OrderMatch(o) \/ OrderExpire(o)

OrderSpec == OrderInit /\ [][OrderNext]_order

=============================================================================
