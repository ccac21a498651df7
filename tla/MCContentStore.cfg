CONSTANTS
    e1 = e1
    e2 = e2
    e3 = e3
    e4 = e4
    e5 = e5
    Nil = Nil
    HeadRef = HeadRef
    Entries <- MCEntries
    Capacity = 4

SPECIFICATION Spec

INVARIANT TypeOK
INVARIANT LruWellFormed
INVARIANT IndexesMatchLru
PROPERTY LruRefinesOrder
