-------------------------- MODULE ConnectionTable --------------------------
(***************************************************************************)
(* The connection table of the forwarder (core/metis_ConnectionTable.c).   *)
(*                                                                         *)
(* A connection is identified by its id and carries a fixed address pair. *)
(* The table keeps it three ways:                                          *)
(*   storageTableById    id   -> connection   (owning hash table)          *)
(*   indexByAddressPair  pair -> connection   (non-owning hash table)      *)
(*   listById            ids in order         (red-black tree)             *)
(* A connection is modelled by its id; storageTableById gives its pair.    *)
(* The hash tables are partial functions: parcHashCodeTable_Add leaves the *)
(* table unchanged and returns false when the key is already present, and  *)
(* parcHashCodeTable_Del removes whatever entry has the key.                *)
(*                                                                         *)
(* This module holds the table's state and operations; the modules that   *)
(* call them (UdpListener, Connections) supply the next-state relation.    *)
(***************************************************************************)
EXTENDS Naturals, FiniteSets

CONSTANTS
    Pairs,          \* address pairs (local, remote): model values
    IdSpace,        \* connection ids are C 'unsigned': 0 .. IdSpace-1
    NoConnection    \* the NULL a failed lookup returns

VARIABLES
    storageTableById,
    indexByAddressPair,
    listById,
    aborted         \* TRUE once a trap* assertion has ended the process

tableVars == <<storageTableById, indexByAddressPair, listById>>

ConnectionIds == 0 .. IdSpace - 1

\* Partial functions: put, delete, and the hash table's add-if-absent.
MapPut(f, k, v) == [x \in DOMAIN f \cup {k} |-> IF x = k THEN v ELSE f[x]]
MapDel(f, k) == [x \in DOMAIN f \ {k} |-> f[x]]
HashCodeTableAdd(f, k, v) == IF k \in DOMAIN f THEN f ELSE MapPut(f, k, v)

EmptyMap == [x \in {} |-> NoConnection]

TableInit ==
    /\ storageTableById = EmptyMap
    /\ indexByAddressPair = EmptyMap
    /\ listById = {}

(***************************************************************************)
(* metisConnectionTable_FindById / _FindByAddressPair: pure lookups.       *)
(***************************************************************************)
FindById(id) ==
    IF id \in DOMAIN storageTableById THEN id ELSE NoConnection

FindByAddressPair(pair) ==
    IF pair \in DOMAIN indexByAddressPair THEN indexByAddressPair[pair]
    ELSE NoConnection

(***************************************************************************)
(* metisConnectionTable_Add: store by id; only if that succeeds, add to    *)
(* the pair index (its result is ignored) and to the tree.  A duplicate id *)
(* ends the process with trapUnexpectedState.                              *)
(***************************************************************************)
Add(id, pair) ==
    \/ /\ id \notin DOMAIN storageTableById
       /\ storageTableById' = MapPut(storageTableById, id, pair)
       /\ indexByAddressPair' = HashCodeTableAdd(indexByAddressPair, pair, id)
       /\ listById' = listById \cup {id}
       /\ UNCHANGED aborted
    \/ /\ id \in DOMAIN storageTableById
       /\ aborted' = TRUE
       /\ UNCHANGED tableVars

\* Mutant: a Remove that forgets the pair index.
RemoveKeepsPairIndex(id) ==
    /\ listById' = listById \ {id}
    /\ UNCHANGED indexByAddressPair
    /\ storageTableById' = MapDel(storageTableById, id)

(***************************************************************************)
(* metisConnectionTable_Remove: takes a live connection, deletes its id    *)
(* from the tree, its pair from the pair index, its id from storage.       *)
(***************************************************************************)
Remove(id) ==
    LET pair == storageTableById[id] IN
    /\ listById' = listById \ {id}
    /\ indexByAddressPair' = MapDel(indexByAddressPair, pair)
    /\ storageTableById' = MapDel(storageTableById, id)

(***************************************************************************)
(* metisConnectionTable_RemoveById: a no-op for an absent id.              *)
(***************************************************************************)
RemoveById(id) ==
    \/ /\ FindById(id) # NoConnection
       /\ Remove(id)
    \/ /\ FindById(id) = NoConnection
       /\ UNCHANGED tableVars

-----------------------------------------------------------------------------
TableTypeOK ==
    /\ DOMAIN storageTableById \subseteq ConnectionIds
    /\ \A id \in DOMAIN storageTableById : storageTableById[id] \in Pairs
    /\ DOMAIN indexByAddressPair \subseteq Pairs
    /\ \A p \in DOMAIN indexByAddressPair :
            indexByAddressPair[p] \in ConnectionIds
    /\ listById \subseteq ConnectionIds
    /\ aborted \in BOOLEAN

(***************************************************************************)
(* Index soundness: the tree lists exactly the stored connections, and     *)
(* every pair-index entry refers to a stored connection with that pair.    *)
(* metisConnectionTable_Remove keeps this only because it deletes from the *)
(* three structures with keys taken from the same connection; a removal    *)
(* that missed one of them would leave a dangling reference that a later   *)
(* FindByAddressPair hands to a listener.                                  *)
(***************************************************************************)
IndexSound ==
    /\ listById = DOMAIN storageTableById
    /\ \A p \in DOMAIN indexByAddressPair :
          /\ indexByAddressPair[p] \in DOMAIN storageTableById
          /\ storageTableById[indexByAddressPair[p]] = p

(***************************************************************************)
(* Dual index (spec section 8): every stored connection is found by its    *)
(* pair, i.e. find_by_id(c.id) = find_by_pair(c.pair).                     *)
(***************************************************************************)
DualIndexConsistent ==
    \A id \in DOMAIN storageTableById :
        FindByAddressPair(storageTableById[id]) = id

=============================================================================
