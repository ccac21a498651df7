------------------------------ MODULE TlvName ------------------------------
(***************************************************************************)
(* Reference-counted TLV names (tlv/metis_TlvName.c).                      *)
(*                                                                         *)
(* A MetisTlvName is a wrapper (the struct one handle points at) over      *)
(* shared guts: the encoded memory, the segment extents, the reference    *)
(* count and the cumulative-hash array with its computed length.  Slice   *)
(* and Acquire copy the wrapper, sharing the guts, and shorten its segment *)
(* count and memory length; Release frees the wrapper and, on the last     *)
(* reference, the guts; HashCode extends the shared hash array lazily.     *)
(*                                                                         *)
(* Bytes: a segment is a sequence of small naturals and its TLV encoding   *)
(* is <<Type, length>> \o value (the 2-byte T and L fields as one symbol   *)
(* each: memcmp over them compares the same way).  parcHash32 is modelled  *)
(* injectively: the hash of a run of segments is the sequence of their    *)
(* encodings, so equal hashes mean equal prefixes and a stale or wrong    *)
(* cache slot shows up as a different value.                              *)
(***************************************************************************)
EXTENDS Naturals, Sequences, SequencesExt

CONSTANTS
    Handles,        \* wrapper addresses
    Guts,           \* shared-allocation identities
    Names,          \* names that may be created: sequences of segments
    Type,           \* the segment type field
    SliceCounts,    \* segmentCount values callers pass to Slice
    UintMax,        \* UINT_MAX: more segments than any name has
    Free,           \* a freed wrapper or guts
    Garbage         \* contents of memory never written (parcMemory_Allocate)

VARIABLES
    wrapper,        \* handle -> [guts, segCount, memLen] or Free
    guts,           \* guts id -> shared state or Free
    aborted,        \* a crash or assertion has ended the process
    lastHash        \* [h, value] returned by the last HashCode call

tlvVars == <<wrapper, guts, aborted, lastHash>>

\* The TLV encoding of a name: what CreateFromCCNxName writes into memory.
SegmentTlv(s) == <<Type, Len(s)>> \o s
Encode(n) == FlattenSeq([i \in DOMAIN n |-> SegmentTlv(n[i])])

(***************************************************************************)
(* metisTlv_NameSegments: walk the TLVs of memory, giving each segment's   *)
(* extent: offset of its T field and length of T, L and V together.       *)
(***************************************************************************)
RECURSIVE ExtentsFrom(_, _)
ExtentsFrom(mem, off) ==
    IF off >= Len(mem) THEN << >>
    ELSE LET len == 2 + mem[off + 2] IN
         <<[offset |-> off, length |-> len]>> \o ExtentsFrom(mem, off + len)

NameSegments(mem) == ExtentsFrom(mem, 0)

\* The bytes memory[offset .. offset+length-1] of a 0-based extent.
ExtentBytes(mem, x) == SubSeq(mem, x.offset + 1, x.offset + x.length)

\* parcHash32_Data and parcHash32_Data_Cumulative, injective.
Hash32(bytes) == <<bytes>>
Hash32Cumulative(bytes, prev) == Append(prev, bytes)

\* The reference: the cumulative hash through the first k segments.
CumulativeHash(n, k) == [i \in 1 .. k |-> SegmentTlv(n[i])]

(***************************************************************************)
(* metisTlvName_CreateFromCCNxName, then _setup: refcount 1, extents, a    *)
(* hash array of one slot per segment (uninitialised), length 1 and slot 0 *)
(* hashed when there is a segment.  'name' is a history field only.        *)
(***************************************************************************)
Setup(n) ==
    LET mem == Encode(n)
        ext == NameSegments(mem)
    IN [name |-> n, memory |-> mem, segments |-> ext, refCount |-> 1,
        hashLen |-> 1,
        hashes |-> [i \in 0 .. Len(ext) - 1 |->
                      IF i = 0 THEN Hash32(ExtentBytes(mem, ext[1])) ELSE Garbage]]

TlvInit ==
    /\ wrapper = [h \in Handles |-> Free]
    /\ guts = [g \in Guts |-> Free]
    /\ aborted = FALSE
    /\ lastHash = [h |-> Free, value |-> Garbage]

CreateFromCCNxName(h, g, n) ==
    /\ ~aborted
    /\ wrapper[h] = Free /\ guts[g] = Free
    /\ guts' = [guts EXCEPT ![g] = Setup(n)]
    /\ wrapper' = [wrapper EXCEPT ![h] = [guts |-> g, segCount |-> Len(n),
                                          memLen |-> Len(Encode(n))]]
    /\ UNCHANGED <<aborted, lastHash>>

\* Mutant: memoryLength cut at the start of the last segment.
SliceLengthToStart(ext, cnt) == ext[cnt].offset

\* Slice's memoryLength: the end of the last segment kept.
SliceLength(ext, cnt) == ext[cnt].offset + ext[cnt].length

\* Mutant: the copy made without _incrementRefCount.
SliceNoIncrement(h, src, k) ==
    LET w == wrapper[src]
        cnt == IF w.segCount < k THEN w.segCount ELSE k
        ext == guts[w.guts].segments
    IN /\ cnt > 0
       /\ wrapper' = [wrapper EXCEPT ![h] = [w EXCEPT !.segCount = cnt,
                       !.memLen = SliceLength(ext, cnt)]]
       /\ UNCHANGED <<guts, aborted>>

(***************************************************************************)
(* metisTlvName_Slice: copy the wrapper, increment the shared refcount,    *)
(* keep min(segCount, k) segments and cut memoryLength at the end of the   *)
(* last one, read from segmentArray[count - 1].  With count 0 that is      *)
(* segmentArray[-1]: an out-of-bounds read whose value is whatever lies    *)
(* before the array (any small length, here) or a fault.                 *)
(***************************************************************************)
SliceCopy(h, src, k) ==
    LET w == wrapper[src]
        g == w.guts
        cnt == IF w.segCount < k THEN w.segCount ELSE k
        ext == guts[g].segments
    IN /\ guts' = [guts EXCEPT ![g].refCount = @ + 1]
       /\ \/ /\ cnt > 0
             /\ wrapper' = [wrapper EXCEPT ![h] = [w EXCEPT !.segCount = cnt,
                             !.memLen = SliceLength(ext, cnt)]]
             /\ UNCHANGED aborted
          \/ /\ cnt = 0
             /\ \/ \E m \in 0 .. UintMax :
                      /\ wrapper' = [wrapper EXCEPT ![h] =
                                       [w EXCEPT !.segCount = 0, !.memLen = m]]
                      /\ UNCHANGED aborted
                \/ /\ aborted' = TRUE
                   /\ UNCHANGED wrapper

Slice(h, src, k) ==
    /\ ~aborted
    /\ wrapper[src] # Free /\ wrapper[h] = Free
    /\ SliceCopy(h, src, k)
    /\ UNCHANGED lastHash

\* metisTlvName_Acquire == Slice(original, UINT_MAX).
Acquire(h, src) ==
    /\ ~aborted
    /\ wrapper[src] # Free /\ wrapper[h] = Free
    /\ SliceCopy(h, src, UintMax)
    /\ UNCHANGED lastHash

\* Mutant: the guts never freed, the count decremented past one.
ReleaseNeverFrees(h) ==
    LET g == wrapper[h].guts IN
    /\ ~aborted
    /\ wrapper[h] # Free
    /\ guts' = [guts EXCEPT ![g].refCount = @ - 1]
    /\ wrapper' = [wrapper EXCEPT ![h] = Free]
    /\ UNCHANGED <<aborted, lastHash>>

(***************************************************************************)
(* metisTlvName_Release: decrement; free the guts at zero; free the        *)
(* wrapper.                                                                *)
(***************************************************************************)
Release(h) ==
    LET g == wrapper[h].guts IN
    /\ ~aborted
    /\ wrapper[h] # Free
    /\ guts' = IF guts[g].refCount = 1 THEN [guts EXCEPT ![g] = Free]
               ELSE [guts EXCEPT ![g].refCount = @ - 1]
    /\ wrapper' = [wrapper EXCEPT ![h] = Free]
    /\ UNCHANGED <<aborted, lastHash>>

\* The loop of HashCode: slots from .. to, each from the one before.
RECURSIVE FillHashes(_, _, _)
FillHashes(gs, from, to) ==
    IF from > to THEN gs.hashes
    ELSE LET hs == [gs.hashes EXCEPT ![from] = Hash32Cumulative(
                      ExtentBytes(gs.memory, gs.segments[from + 1]),
                      gs.hashes[from - 1])]
         IN FillHashes([gs EXCEPT !.hashes = hs], from + 1, to)

\* Mutant: the loop bound 'i < lastSegment'.
ExtendHashesShort(gs, lastSegment) ==
    [gs EXCEPT !.hashes = FillHashes(gs, gs.hashLen, lastSegment - 1),
               !.hashLen = lastSegment + 1]

\* The shared hash state after extending it through lastSegment.
ExtendHashes(gs, lastSegment) ==
    [gs EXCEPT !.hashes = FillHashes(gs, gs.hashLen, lastSegment),
               !.hashLen = lastSegment + 1]

(***************************************************************************)
(* metisTlvName_HashCode: 0 for a name of no segments; otherwise extend    *)
(* the shared array when lastSegment is not yet computed, and return      *)
(* slot lastSegment.                                                       *)
(***************************************************************************)
HashCode(h) ==
    LET w == wrapper[h]
        g == w.guts
        lastSegment == w.segCount - 1
        gs == IF w.segCount > 0 /\ lastSegment >= guts[g].hashLen
              THEN ExtendHashes(guts[g], lastSegment) ELSE guts[g]
    IN /\ ~aborted
       /\ w # Free
       /\ guts' = [guts EXCEPT ![g] = gs]
       /\ lastHash' = [h |-> h, value |-> IF w.segCount = 0 THEN 0
                                           ELSE gs.hashes[lastSegment]]
       /\ UNCHANGED <<wrapper, aborted>>

-----------------------------------------------------------------------------
(* The pure comparisons, on a wrapper's memory and memoryLength.          *)

Memory(w) == guts[w.guts].memory

\* memcmp(a, b, n) == 0
MemEqual(a, b, n) ==
    n <= Len(a) /\ n <= Len(b) /\ SubSeq(a, 1, n) = SubSeq(b, 1, n)

\* The sign of memcmp(a, b, n): the first differing byte decides.
MemCompare(a, b, n) ==
    LET diff == {i \in 1 .. n : a[i] # b[i]} IN
    IF diff = {} THEN 0
    ELSE LET i == CHOOSE j \in diff : \A k \in diff : j <= k IN
         IF a[i] < b[i] THEN -1 ELSE 1

\* metisTlvName_Equals
NameEquals(ma, la, mb, lb) == la = lb /\ MemEqual(ma, mb, la)

\* Mutant: Compare without the memoryLength test.
CompareNoLength(ma, la, mb, lb) ==
    LET n == IF la < lb THEN la ELSE lb IN MemCompare(ma, mb, n)

\* metisTlvName_Compare
NameCompare(ma, la, mb, lb) ==
    IF la < lb THEN -1
    ELSE IF la > lb THEN 1
    ELSE MemCompare(ma, mb, la)

\* Mutant: StartsWith with a strict length test.
StartsWithStrict(mn, ln, mp, lp) == lp < ln /\ MemEqual(mp, mn, lp)

\* metisTlvName_StartsWith(name, prefix)
StartsWith(mn, ln, mp, lp) == lp <= ln /\ MemEqual(mp, mn, lp)

-----------------------------------------------------------------------------
Next ==
    \/ \E h \in Handles, g \in Guts, n \in Names : CreateFromCCNxName(h, g, n)
    \/ \E h, src \in Handles, k \in SliceCounts : Slice(h, src, k)
    \/ \E h, src \in Handles : Acquire(h, src)
    \/ \E h \in Handles : Release(h)
    \/ \E h \in Handles : HashCode(h)

Spec == TlvInit /\ [][Next]_tlvVars

TypeOK ==
    /\ \A h \in Handles : wrapper[h] = Free \/
          wrapper[h] \in [guts : Guts, segCount : 0 .. UintMax, memLen : Nat]
    /\ \A g \in Guts : guts[g] = Free \/
          (guts[g].name \in Names /\ guts[g].refCount \in Nat \ {0})
    /\ aborted \in BOOLEAN

(***************************************************************************)
(* Reference counting (the refcount shared through refCountPtr): the      *)
(* shared count of live guts is the number of live wrappers over them, and *)
(* no live wrapper refers to freed guts, whatever order Slice, Acquire and *)
(* Release copies of one name are made and released in.                   *)
(***************************************************************************)
RefCountExact ==
    \A g \in Guts :
        LET holders == {h \in Handles : wrapper[h] # Free /\ wrapper[h].guts = g}
        IN IF guts[g] = Free THEN holders = {}
           ELSE guts[g].refCount = Cardinality(holders)

(***************************************************************************)
(* Name hash prefix law (spec 8): HashCode of any slice returns the        *)
(* cumulative hash of its first segCount segments, although the cache it   *)
(* reads was extended lazily, through whichever copies happened to be     *)
(* hashed before, and is shared by all of them.                            *)
(***************************************************************************)
HashPrefixLaw ==
    [][lastHash' # lastHash =>
        LET w == wrapper'[lastHash'.h] IN
        lastHash'.value = IF w.segCount = 0 THEN 0
                          ELSE CumulativeHash(guts'[w.guts].name, w.segCount)]_tlvVars

(***************************************************************************)
(* A slice is the name it stands for: Slice(name, k) is Equal (same        *)
(* memoryLength, same bytes) to a name created from the first k segments,  *)
(* which is what lets a FIB or PIT key built by Slice match a name parsed  *)
(* from a packet.                                                          *)
(***************************************************************************)
SliceMatchesCreate ==
    \A h \in Handles : wrapper[h] # Free =>
        LET w == wrapper[h]
            mine == Encode(SubSeq(guts[w.guts].name, 1, w.segCount))
        IN NameEquals(Memory(w), w.memLen, mine, Len(mine))

\* The segments a live wrapper stands for.
SegmentsOf(w) == SubSeq(guts[w.guts].name, 1, w.segCount)

Live == {h \in Handles : wrapper[h] # Free}

(***************************************************************************)
(* StartsWith compares bytes, the FIB means segments: for every two live   *)
(* names or slices, the byte test on (memory, memoryLength) agrees with    *)
(* the segment-prefix relation, because the TLV length fields make the     *)
(* encoding prefix-free and Slice cuts memoryLength at a segment end.      *)
(***************************************************************************)
StartsWithIsSegmentPrefix ==
    \A a, b \in Live :
        LET wa == wrapper[a] wb == wrapper[b] IN
        StartsWith(Memory(wa), wa.memLen, Memory(wb), wb.memLen)
            <=> IsPrefix(SegmentsOf(wb), SegmentsOf(wa))

(***************************************************************************)
(* Compare is an order consistent with Equals on live names and slices: 0 *)
(* exactly when they stand for the same segments, antisymmetric otherwise *)
(* (the sorted name tables rely on it).                                    *)
(***************************************************************************)
CompareIsOrder ==
    \A a, b \in Live :
        LET wa == wrapper[a] wb == wrapper[b]
            c == NameCompare(Memory(wa), wa.memLen, Memory(wb), wb.memLen)
        IN /\ (c = 0) <=> (SegmentsOf(wa) = SegmentsOf(wb))
           /\ c = -NameCompare(Memory(wb), wb.memLen, Memory(wa), wa.memLen)

=============================================================================
