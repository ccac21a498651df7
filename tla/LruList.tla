------------------------------ MODULE LruList ------------------------------
(***************************************************************************)
(* The content store's LRU list (content_store/metis_LruList.c), at the    *)
(* level of the BSD <sys/queue.h> TAILQ macros it is built on.             *)
(*                                                                         *)
(* An LRU list is a record:                                                *)
(*   first    head.tqh_first: the first entry, or Nil                      *)
(*   last     head.tqh_last, the address of the last 'next' field: the     *)
(*            last entry, or HeadRef (&head.tqh_first) when empty          *)
(*   next     entry -> its list.tqe_next (an entry or Nil)                 *)
(*   prev     entry -> its list.tqe_prev, the address of the 'next' field  *)
(*            pointing at it: the previous entry, or HeadRef               *)
(*   inList   entry -> entry->inList                                       *)
(*   items    itemsInList                                                  *)
(* TAILQ_REMOVE does not clear the removed entry's own pointers: they      *)
(* keep pointing into the list, as in the C macros.                        *)
(*                                                                         *)
(* Each C function is an operator from a list to a list, so a caller      *)
(* composes a handler's calls in one step.                                 *)
(***************************************************************************)
EXTENDS Naturals, Sequences, SequencesExt

CONSTANTS
    Entries,    \* MetisLruListEntry addresses: model values
    Nil,        \* NULL
    HeadRef     \* &head.tqh_first

\* metisLruList_Create: TAILQ_INIT, itemsInList = 0; parcMemory_AllocateAndClear
\* leaves every entry field zero.
LruCreate ==
    [first |-> Nil, last |-> HeadRef,
     next |-> [e \in Entries |-> Nil], prev |-> [e \in Entries |-> Nil],
     inList |-> [e \in Entries |-> FALSE], items |-> 0]

\* *elm->tqe_prev = v: write through a prev pointer.
StoreThrough(l, ref, v) ==
    IF ref = HeadRef THEN [l EXCEPT !.first = v]
    ELSE [l EXCEPT !.next[ref] = v]

\* TAILQ_REMOVE(head, e, list)
TailqRemove(l, e) ==
    LET n == l.next[e]
        l1 == IF n # Nil THEN [l EXCEPT !.prev[n] = l.prev[e]]
              ELSE [l EXCEPT !.last = l.prev[e]]
    IN StoreThrough(l1, l.prev[e], n)

\* TAILQ_INSERT_HEAD(head, e, list)
TailqInsertHead(l, e) ==
    LET f == l.first
        l1 == IF f # Nil THEN [l EXCEPT !.next[e] = f, !.prev[f] = e]
              ELSE [l EXCEPT !.next[e] = f, !.last = e]
    IN [l1 EXCEPT !.first = e, !.prev[e] = HeadRef]

\* TAILQ_LAST(head, metis_lru_s)
TailqLast(l) == IF l.last = HeadRef THEN Nil ELSE l.last

\* metisLruList_NewHeadEntry on a freshly allocated (zeroed) entry e.
NewHeadEntry(l, e) ==
    LET l1 == [l EXCEPT !.inList[e] = TRUE, !.next[e] = Nil, !.prev[e] = Nil]
    IN [TailqInsertHead(l1, e) EXCEPT !.items = @ + 1]

\* Mutant: itemsInList decremented whether or not the entry is linked.
EntryDestroyAlwaysCounts(l, e) ==
    LET l1 == IF l.inList[e] THEN TailqRemove(l, e) ELSE l
    IN [l1 EXCEPT !.items = @ - 1, !.inList[e] = FALSE, !.next[e] = Nil,
                  !.prev[e] = Nil]

\* Mutant: an entry freed without being unlinked.
EntryDestroyNoUnlink(l, e) ==
    [l EXCEPT !.inList[e] = FALSE, !.next[e] = Nil, !.prev[e] = Nil]

\* metisLruList_EntryDestroy: unlinks the entry only if it is in the list;
\* the deallocated entry's fields are gone (reset to the zeroed state so a
\* later allocation at the same address starts clean).
EntryDestroy(l, e) ==
    LET l1 == IF l.inList[e] THEN [TailqRemove(l, e) EXCEPT !.items = @ - 1]
              ELSE l
    IN [l1 EXCEPT !.inList[e] = FALSE, !.next[e] = Nil, !.prev[e] = Nil]

\* Mutant: the entry re-inserted at the head without first being removed.
MoveToHeadNoRemove(l, e) == TailqInsertHead(l, e)

\* Mutant: the entry re-linked with TAILQ_INSERT_TAIL.
EntryMoveToTail(l, e) ==
    LET l1 == TailqRemove(l, e)
        l2 == StoreThrough([l1 EXCEPT !.next[e] = Nil, !.prev[e] = l1.last],
                           l1.last, e)
    IN [l2 EXCEPT !.last = e]

\* metisLruList_EntryMoveToHead: REMOVE then INSERT_HEAD, with no check
\* of inList.
EntryMoveToHead(l, e) == TailqInsertHead(TailqRemove(l, e), e)

\* metisLruList_PopTail: the last entry (or Nil) and the list without it.
PopTailEntry(l) == TailqLast(l)

PopTail(l) ==
    LET e == TailqLast(l) IN
    IF e = Nil THEN l
    ELSE [TailqRemove([l EXCEPT !.items = @ - 1], e) EXCEPT !.inList[e] = FALSE]

\* metisLruList_Length
Length(l) == l.items

-----------------------------------------------------------------------------
(***************************************************************************)
(* The list read front to back by following next pointers from first,     *)
(* stopping after Cardinality(Entries)+1 steps so that a cycle shows up as *)
(* a walk that is too long.                                                *)
(***************************************************************************)
RECURSIVE WalkFrom(_, _, _)
WalkFrom(l, p, k) ==
    IF p = Nil \/ k = 0 THEN << >>
    ELSE <<p>> \o WalkFrom(l, l.next[p], k - 1)

Walk(l) == WalkFrom(l, l.first, Cardinality(Entries) + 1)

(***************************************************************************)
(* A well-formed TAILQ: the forward walk ends at Nil without repeating an  *)
(* entry, every entry's prev names its predecessor (HeadRef for the        *)
(* first), last names the final entry, itemsInList is the walk's length,   *)
(* and inList holds exactly for the entries on the walk.                   *)
(***************************************************************************)
WellFormed(l) ==
    LET w == Walk(l) IN
    /\ Len(w) <= Cardinality(Entries)
    /\ Len(w) = Cardinality(ToSet(w))
    /\ \A i \in 1 .. Len(w) : l.prev[w[i]] = IF i = 1 THEN HeadRef ELSE w[i-1]
    /\ l.last = IF w = << >> THEN HeadRef ELSE w[Len(w)]
    /\ l.items = Len(w)
    /\ \A e \in Entries : l.inList[e] <=> e \in ToSet(w)

=============================================================================
