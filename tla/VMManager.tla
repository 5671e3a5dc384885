----------------------------- MODULE VMManager -----------------------------
(***************************************************************************)
(* VMManager: the map of a process' address space into areas (VMAs) and    *)
(* the page table that is kept to match.  The operations are operators on  *)
(* an address space s, so that the modules of its users can compose them.  *)
(*                                                                         *)
(* Addresses and sizes are counted in pages.  An area that is not free has *)
(* the type BackingMemory: MapMMIO has no caller.                          *)
(***************************************************************************)
EXTENDS Integers, Sequences, SequencesExt, FiniteSets, FiniteSetsExt

CONSTANT MaxAddress       \* MAX_ADDRESS

ASSUME MaxAddressAssumption == MaxAddress \in Nat \ {0}

NoPtr == -1
Pages == 0 .. MaxAddress - 1
Span(target, size) == target .. target + size - 1

FreeVMA(base, size) ==
    [base |-> base, size |-> size, state |-> "Free", perms |-> {}, ptr |-> NoPtr]

IsFree(v) == v.ptr = NoPtr
EndOf(v) == v.base + v.size

\* The memory behind the page a of an area.
PtrIn(v, a) == IF IsFree(v) THEN NoPtr ELSE v.ptr + (a - v.base)

\* VMManager::Reset
EmptySpace ==
    [vmas |-> <<FreeVMA(0, MaxAddress)>>, pages |-> [a \in Pages |-> NoPtr]]

\* The index of the area that includes an address.
FindVMA(s, a) ==
    CHOOSE i \in DOMAIN s.vmas : s.vmas[i].base <= a /\ a < EndOf(s.vmas[i])

VmaAt(s, a) == s.vmas[FindVMA(s, a)]

CanBeMergedWith(v, next) ==
    /\ v.perms = next.perms /\ v.state = next.state
    /\ IsFree(v) = IsFree(next)
    /\ ~IsFree(v) => v.ptr + v.size = next.ptr

\* SplitVMA, unless the address is where an area begins.
SplitAt(s, a) ==
    IF a = MaxAddress \/ VmaAt(s, a).base = a THEN s
    ELSE LET i == FindVMA(s, a)
             v == s.vmas[i]
             off == a - v.base
             rest == [v EXCEPT !.base = a, !.size = @ - off,
                               !.ptr = IF IsFree(v) THEN NoPtr ELSE @ + off]
         IN [s EXCEPT !.vmas = InsertAt(ReplaceAt(@, i, [v EXCEPT !.size = off]), i + 1, rest)]

\* The area i takes over the next one, if they are alike.
MergeNext(vmas, i) ==
    IF i < Len(vmas) /\ CanBeMergedWith(vmas[i], vmas[i + 1])
    THEN RemoveAt([vmas EXCEPT ![i].size = @ + vmas[i + 1].size], i + 1)
    ELSE vmas

\* Faulty variant: only the area that follows is looked at.
MergeRight(s, a) == [s EXCEPT !.vmas = MergeNext(@, FindVMA(s, a))]

\* MergeAdjacent, of the area that includes the address.
MergeAdjacent(s, a) ==
    LET i == FindVMA(s, a)
        merged == MergeNext(s.vmas, i)
    IN [s EXCEPT !.vmas = IF i = 1 THEN merged ELSE MergeNext(merged, i - 1)]

\* Faulty variant: only the first page is mapped.
UpdateFirstPage(s, v) ==
    [s EXCEPT !.pages[v.base] = IF IsFree(v) THEN NoPtr ELSE v.ptr]

\* The pages from the area on, as MapPages maps them.  What it does with a page that
\* the rasterizer has cached, whose pointer it clears, is left out.
UpdatePageTableForVMA(s, v) ==
    [s EXCEPT !.pages =
        [a \in Pages |-> IF a \notin Span(v.base, v.size) THEN s.pages[a]
                         ELSE PtrIn(v, a)]]

\* The area that includes the address gets the attributes, and the page table and
\* its neighbours are seen to.
SetVMA(s, a, state, perms, ptr) ==
    LET i == FindVMA(s, a)
        v == [s.vmas[i] EXCEPT !.state = state, !.perms = perms, !.ptr = ptr]
    IN MergeAdjacent(UpdatePageTableForVMA([s EXCEPT !.vmas[i] = v], v), a)

-----------------------------------------------------------------------------
(* The checks of CarveVMA and CarveVMARange, and what they carve.          *)

CanCarve(s, base, size) ==
    IsFree(VmaAt(s, base)) /\ base + size <= EndOf(VmaAt(s, base))

Carve(s, base, size) == SplitAt(SplitAt(s, base + size), base)

Overlaps(v, target, size) == v.base < target + size /\ target < EndOf(v)

CanCarveRange(s, target, size) ==
    \A i \in DOMAIN s.vmas : Overlaps(s.vmas[i], target, size) => ~IsFree(s.vmas[i])

CarveRange(s, target, size) == SplitAt(SplitAt(s, target), target + size)

\* The loop over the areas of a carved range: Update is applied where an area begins,
\* if it still does when its turn comes.
ForRange(s, target, size, Update(_, _)) ==
    LET carved == CarveRange(s, target, size)
        inside == SelectSeq(carved.vmas, LAMBDA v : v.base \in Span(target, size))
    IN FoldLeft(LAMBDA t, v : IF VmaAt(t, v.base).base = v.base THEN Update(t, v.base) ELSE t,
                carved, inside)

-----------------------------------------------------------------------------
(* The operations.                                                         *)

MapBackingMemory(s, target, ptr, size, state) ==
    SetVMA(Carve(s, target, size), target, state, {"R", "W"}, ptr)

\* Reprotect, of the area that includes the address.
Reprotect(s, a, perms) ==
    SetVMA(s, a, VmaAt(s, a).state, perms, VmaAt(s, a).ptr)

\* How every caller maps memory: the handle that MapBackingMemory returns is of the
\* area the new one has become a part of.
MapAndProtect(s, target, ptr, size, state, perms) ==
    Reprotect(MapBackingMemory(s, target, ptr, size, state), target, perms)

UnmapRange(s, target, size) ==
    ForRange(s, target, size, LAMBDA t, a : SetVMA(t, a, "Free", {}, NoPtr))

ReprotectRange(s, target, size, perms) ==
    ForRange(s, target, size, LAMBDA t, a : Reprotect(t, a, perms))

\* The checks of ChangeMemoryState.
CanChange(s, target, size, state, perms) ==
    /\ CanCarveRange(s, target, size)
    /\ \A i \in DOMAIN s.vmas :
          Overlaps(s.vmas[i], target, size) =>
              s.vmas[i].state = state /\ perms \subseteq s.vmas[i].perms

ChangeMemoryState(s, target, size, state, perms) ==
    ForRange(s, target, size, LAMBDA t, a : SetVMA(t, a, state, perms, VmaAt(t, a).ptr))

\* The pieces of memory behind a range that has no free page.
GetBackingBlocksForRange(s, target, size) ==
    LET areas == SelectSeq(s.vmas, LAMBDA v : Overlaps(v, target, size))
        First(v) == Max({v.base, target})
    IN [i \in DOMAIN areas |->
           [ptr |-> areas[i].ptr + (First(areas[i]) - areas[i].base),
            size |-> Min({EndOf(areas[i]), target + size}) - First(areas[i])]]

\* The blocks are mapped one after the other.
MapBlocks(s, target, blocks, state, perms) ==
    LET Next(t, b) ==
            [at |-> t.at + b.size,
             space |-> MapAndProtect(t.space, t.at, b.ptr, b.size, state, perms)]
    IN FoldLeft(Next, [at |-> target, space |-> s], blocks).space

-----------------------------------------------------------------------------
(* Properties of an address space.                                         *)

\* The areas cover the address space, one after the other.
Tiles(s) ==
    /\ s.vmas[1].base = 0 /\ EndOf(Last(s.vmas)) = MaxAddress
    /\ \A i \in DOMAIN s.vmas : s.vmas[i].size > 0
    /\ \A i \in 2 .. Len(s.vmas) : EndOf(s.vmas[i - 1]) = s.vmas[i].base

\* No two neighbours are free.
FreeMerged(s) ==
    \A i \in 2 .. Len(s.vmas) : ~(IsFree(s.vmas[i - 1]) /\ IsFree(s.vmas[i]))

PtrOf(s, a) == PtrIn(VmaAt(s, a), a)

\* What a page is, according to the areas.
Attributes(s, a) ==
    LET v == VmaAt(s, a) IN [state |-> v.state, perms |-> v.perms, ptr |-> PtrIn(v, a)]

\* The page table maps every page to the memory its area has for it.
PageTableMatches(s) == \A a \in Pages : s.pages[a] = PtrOf(s, a)

=============================================================================
