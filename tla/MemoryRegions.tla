--------------------------- MODULE MemoryRegions ---------------------------
(***************************************************************************)
(* MemoryRegionInfo: the allocator of one of the three regions of FCRAM.   *)
(* free_blocks is the set of the free pages (an interval_set joins its     *)
(* intervals).  used is a u32 in the code; here a number below zero is one *)
(* that has wrapped around.                                                *)
(***************************************************************************)
EXTENDS Integers, Sequences, SequencesExt, FiniteSets, FiniteSetsExt

\* MemoryRegionInfo::Reset
NewRegion(base, size) ==
    [base |-> base, size |-> size, used |-> 0, free |-> base .. base + size - 1]

Allocate(r, frames) ==
    [r EXCEPT !.used = @ + Cardinality(frames), !.free = @ \ frames]

\* Faulty variant: what is left is handed out, enough or not.
HeapPickAnyway(r, size) ==
    {f \in r.free : Cardinality({g \in r.free : g > f}) < size}

\* HeapAllocate: the free pages with the highest offsets, from as many blocks as it
\* takes; {} if there are not enough.
HeapPick(r, size) ==
    IF Cardinality(r.free) < size THEN {}
    ELSE {f \in r.free : Cardinality({g \in r.free : g > f}) < size}

\* LinearAllocate: the first block that is long enough.
LinearOffsets(r, size) == {o \in r.free : o .. o + size - 1 \subseteq r.free}

Free(r, frames) ==
    [r EXCEPT !.used = @ - Cardinality(frames), !.free = @ \cup frames]

\* The maximal intervals of a set of pages, from the lowest on.
Intervals(frames) ==
    LET starts == SetToSortSeq({f \in frames : f - 1 \notin frames}, <)
        EndFrom(f) == Min({g \in frames : g >= f /\ g + 1 \notin frames})
    IN [i \in DOMAIN starts |->
           [ptr |-> starts[i], size |-> EndFrom(starts[i]) - starts[i] + 1]]

=============================================================================
