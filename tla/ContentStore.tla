---------------------------- MODULE ContentStore ----------------------------
(***************************************************************************)
(* The content store as the LRU list's client.  The store's own code is    *)
(* not in this repository; its operations are taken from spec 4.5, and    *)
(* every change they make to the LRU is a metisLruList_* call of LruList.  *)
(* An object is identified with the address of its LRU entry.              *)
(*   Put      cached: EntryMoveToHead; new: NewHeadEntry, then while the   *)
(*            store is over capacity PopTail and destroy the victim        *)
(*   Match    a hit is promoted with EntryMoveToHead                       *)
(*   Expire   the expiry timer removes an entry: EntryDestroy              *)
(***************************************************************************)
EXTENDS LruList, FiniteSets

CONSTANT Capacity

VARIABLES
    lru,        \* the MetisLruList
    cached      \* objects in the store's indexes

vars == <<lru, cached>>

Init ==
    /\ lru = LruCreate
    /\ cached = {}

\* Store-policy eviction: pop the LRU tail and destroy its entry.
EvictTail(l) == EntryDestroy(PopTail(l), PopTailEntry(l))

Put(o) ==
    IF o \in cached
    THEN /\ lru' = EntryMoveToHead(lru, o)
         /\ UNCHANGED cached
    ELSE LET l1 == NewHeadEntry(lru, o) IN
         IF Cardinality(cached) + 1 > Capacity
         THEN /\ lru' = EvictTail(l1)
              /\ cached' = (cached \cup {o}) \ {PopTailEntry(l1)}
         ELSE /\ lru' = l1
              /\ cached' = cached \cup {o}

Match(o) ==
    /\ o \in cached
    /\ lru' = EntryMoveToHead(lru, o)
    /\ UNCHANGED cached

Expire(o) ==
    /\ o \in cached
    /\ lru' = EntryDestroy(lru, o)
    /\ cached' = cached \ {o}

Next == \E o \in Entries : Put(o) \/ Match(o) \/ Expire(o)

Spec == Init /\ [][Next]_vars

-----------------------------------------------------------------------------
TypeOK ==
    /\ lru.first \in Entries \cup {Nil}
    /\ lru.last \in Entries \cup {HeadRef}
    /\ lru.next \in [Entries -> Entries \cup {Nil}]
    /\ lru.prev \in [Entries -> Entries \cup {HeadRef, Nil}]
    /\ lru.inList \in [Entries -> BOOLEAN]
    /\ lru.items \in 0 .. Cardinality(Entries)
    /\ cached \subseteq Entries

(***************************************************************************)
(* The TAILQ stays a well-formed doubly-linked list with itemsInList its   *)
(* length, across every interleaving of puts, hits and expiries: the      *)
(* unconditional REMOVE of EntryMoveToHead and the inList-guarded REMOVE   *)
(* of EntryDestroy never run on an entry that is not linked.               *)
(***************************************************************************)
LruWellFormed == WellFormed(lru)

(***************************************************************************)
(* Spec 4.5: the store's indexes and its LRU hold the same entries, and    *)
(* the capacity is hard.                                                   *)
(***************************************************************************)
IndexesMatchLru ==
    /\ cached = ToSet(Walk(lru))
    /\ Cardinality(cached) <= Capacity

(***************************************************************************)
(* The pointer-level list implements the abstract recency order: reading   *)
(* the TAILQ front to back gives a behaviour of LruOrder, so the entry     *)
(* PopTail evicts is always the least recently used one.                   *)
(***************************************************************************)
Abs == INSTANCE LruOrder WITH Objects <- Entries, order <- Walk(lru)

LruRefinesOrder == Abs!OrderSpec

=============================================================================
