--------------------------- MODULE ProcessMemory ---------------------------
(***************************************************************************)
(* The memory of a process: ControlMemory and the memory block calls, over *)
(* its VMManager, the FCRAM regions and SharedMemory.                      *)
(*                                                                         *)
(* A call that fails changes nothing, and is no step here.  The one that   *)
(* could fail half-way, Unmap, does not for a careful guest: what the code *)
(* leaves to the guest (it marks the checks it does not make as TODO) is   *)
(* collected under `Guest' below.                                          *)
(***************************************************************************)
EXTENDS VMManager, MemoryRegions

CONSTANTS HeapBegin, HeapEnd,   \* HEAP_VADDR, HEAP_VADDR_END
          SharedEnd,            \* SHARED_MEMORY_VADDR_END
          LinearArea,           \* GetLinearHeapAreaAddress()
          RegionSizes,          \* memory_region_sizes, of the current type
          Sizes,                \* bound: sizes that are asked for
          CommitPerms,          \* permissions a commit asks for
          MapPerms,             \* permissions a mapping or new shared memory asks for
          Perms,                \* permissions other calls ask for
          Blocks,               \* SharedMemory objects, one per creation
          BlockRegion           \* the region CreateMemoryBlock allocates from

Regions == {"APPLICATION", "SYSTEM", "BASE"}
NoBlock == [base |-> 0, size |-> 0, holds |-> {}, pieces |-> <<>>, perms |-> {}]

ASSUME MemoryAssumption ==
    /\ HeapBegin \in 1 .. HeapEnd /\ HeapEnd <= SharedEnd /\ SharedEnd <= MaxAddress
    /\ RegionSizes \in [Regions -> Nat] /\ BlockRegion \in Regions

VARIABLES space,      \* vm_manager
          regions,    \* memory_regions
          blocks,     \* the SharedMemory objects that are referred to
          created,    \* bound: the blocks that have been created
          memoryUsed, \* memory_used
          commit      \* resource_limit->current_commit

vars == <<space, regions, blocks, created, memoryUsed, commit>>

\* MemoryInit lays the regions out in this order.
RegionBase(r) ==
    CASE r = "APPLICATION" -> 0
      [] r = "SYSTEM" -> RegionSizes["APPLICATION"]
      [] r = "BASE" -> RegionSizes["APPLICATION"] + RegionSizes["SYSTEM"]

Region == regions["APPLICATION"]    \* memory_region of the process

Init ==
    /\ space = EmptySpace
    /\ regions = [r \in Regions |-> NewRegion(RegionBase(r), RegionSizes[r])]
    /\ blocks = [b \in Blocks |-> NoBlock] /\ created = {}
    /\ memoryUsed = 0 /\ commit = 0

\* The process' own memory grows (or shrinks) by n pages.
Charge(n) == memoryUsed' = memoryUsed + n /\ commit' = commit + n

StateIs(target, size, states) ==
    \A a \in Span(target, size) : VmaAt(space, a).state \in states

-----------------------------------------------------------------------------
(* The heap.                                                               *)

InHeap(target, size) == target >= HeapBegin /\ target + size <= HeapEnd

\* Process::HeapAllocate
HeapAllocate(target, size, perms) ==
    LET frames == HeapPick(Region, size)
    IN /\ InHeap(target, size) /\ CanCarve(space, target, size)
       /\ frames # {}
       /\ regions' = [regions EXCEPT !["APPLICATION"] = Allocate(@, frames)]
       /\ space' = MapBlocks(space, target, Intervals(frames), "Private", perms)
       /\ Charge(size)
       /\ UNCHANGED <<blocks, created>>

FramesOf(pieces) ==
    UNION {Span(pieces[i].ptr, pieces[i].size) : i \in DOMAIN pieces}

\* Faulty variant: the memory stays mapped.
HeapFreeMapped(target, size) ==
    /\ InHeap(target, size) /\ CanCarveRange(space, target, size)
    /\ regions' = [regions EXCEPT !["APPLICATION"] =
                      Free(@, FramesOf(GetBackingBlocksForRange(space, target, size)))]
    /\ space' = ReprotectRange(space, target, size, {})
    /\ Charge(-size)
    /\ UNCHANGED <<blocks, created>>

\* Process::HeapFree
HeapFree(target, size) ==
    /\ InHeap(target, size) /\ CanCarveRange(space, target, size)
    /\ regions' = [regions EXCEPT !["APPLICATION"] =
                      Free(@, FramesOf(GetBackingBlocksForRange(space, target, size)))]
    /\ space' = UnmapRange(space, target, size)
    /\ Charge(-size)
    /\ UNCHANGED <<blocks, created>>

-----------------------------------------------------------------------------
(* The linear heap: a page's address says which memory it maps.            *)

\* Where the area is not free, ASSERT(vma.Succeeded()) stops the emulator; by
\* LinearAddressesFree it never does.
LinearAt(offset, size, perms) ==
    /\ CanCarve(space, LinearArea + offset, size)
    /\ regions' = [regions EXCEPT !["APPLICATION"] = Allocate(@, Span(offset, size))]
    /\ space' = MapAndProtect(space, LinearArea + offset, offset, size, "Continuous", perms)
    /\ Charge(size)
    /\ UNCHANGED <<blocks, created>>

\* Process::LinearAllocate, with target = 0 and with a target.
LinearAllocate(size, perms) ==
    /\ LinearOffsets(Region, size) # {}
    /\ LinearAt(Min(LinearOffsets(Region, size)), size, perms)

LinearAllocateAt(target, size, perms) ==
    /\ target - LinearArea \in LinearOffsets(Region, size)
    /\ LinearAt(target - LinearArea, size, perms)

\* Process::LinearFree
LinearFree(target, size) ==
    /\ Span(target - LinearArea, size) \subseteq Span(Region.base, Region.size)
    /\ CanCarveRange(space, target, size)
    /\ space' = UnmapRange(space, target, size)
    /\ regions' = [regions EXCEPT !["APPLICATION"] = Free(@, Span(target - LinearArea, size))]
    /\ Charge(-size)
    /\ UNCHANGED <<blocks, created>>

-----------------------------------------------------------------------------
(* Map, Unmap and the change of permissions.                               *)

SourceState(privileged) == IF privileged THEN "Locked" ELSE "Aliased"
TargetState(privileged) == IF privileged THEN "AliasCode" ELSE "Alias"
SourcePerms(privileged) == IF privileged THEN {} ELSE {"R", "W"}

Disjoint(target, source, size) == Span(target, size) \cap Span(source, size) = {}

\* Process::Map
Map(target, source, size, perms, privileged) ==
    /\ privileged \/ InHeap(source, size)
    /\ CanChange(space, source, size, "Private", {"R", "W"})
    /\ Disjoint(target, source, size) /\ CanCarve(space, target, size)
    /\ LET marked == ChangeMemoryState(space, source, size,
                                       SourceState(privileged), SourcePerms(privileged))
       IN space' = MapBlocks(marked, target, GetBackingBlocksForRange(marked, source, size),
                             TargetState(privileged), perms)
    /\ UNCHANGED <<regions, blocks, created, memoryUsed, commit>>

\* Process::Map, privileged, of memory onto itself.
MapCode(source, size, perms) ==
    /\ CanChange(space, source, size, "Private", {"R", "W"})
    /\ space' = ChangeMemoryState(space, source, size, "AliasCode", perms)
    /\ UNCHANGED <<regions, blocks, created, memoryUsed, commit>>

\* Process::Unmap
Unmap(target, source, size, perms, privileged) ==
    /\ privileged \/ InHeap(source, size)
    /\ Disjoint(target, source, size) /\ CanCarveRange(space, target, size)
    /\ LET left == UnmapRange(space, target, size)
       IN space' = IF CanChange(left, source, size, SourceState(privileged), {})
                   THEN ChangeMemoryState(left, source, size, "Private", perms)
                   ELSE left
    /\ UNCHANGED <<regions, blocks, created, memoryUsed, commit>>

\* Process::Unmap, privileged, of memory that was mapped onto itself.
UnmapCode(source, size, perms) ==
    /\ CanChange(space, source, size, "AliasCode", {})
    /\ space' = ChangeMemoryState(space, source, size, "Private", perms)
    /\ UNCHANGED <<regions, blocks, created, memoryUsed, commit>>

\* Faulty variant: the whole of the first area is changed.
ProtectArea(target, size, perms) ==
    /\ CanCarveRange(space, target, size)
    /\ space' = Reprotect(space, target, perms)
    /\ UNCHANGED <<regions, blocks, created, memoryUsed, commit>>

\* ControlMemory, MEMOP_PROTECT
Protect(target, size, perms) ==
    /\ CanCarveRange(space, target, size)
    /\ space' = ReprotectRange(space, target, size, perms)
    /\ UNCHANGED <<regions, blocks, created, memoryUsed, commit>>

-----------------------------------------------------------------------------
(* SharedMemory: of memory of its own, or of memory of its owner.          *)

\* CreateMemoryBlock of memory of its owner.
CreateOfOwn(b, address, size, perms) ==
    /\ b \notin created /\ created' = created \cup {b}
    /\ address + size <= SharedEnd
    /\ CanChange(space, address, size, "Private", {"R", "W"})
    /\ space' = ChangeMemoryState(space, address, size, "Locked", perms)
    /\ blocks' = [blocks EXCEPT ![b] = [base |-> address, size |-> size, holds |-> {},
                      pieces |-> GetBackingBlocksForRange(space', address, size), perms |-> perms]]
    /\ UNCHANGED <<regions, memoryUsed, commit>>

\* CreateMemoryBlock with addr = 0.  memory_used is never decreased again.
CreateOfLinear(b, size, perms) ==
    /\ b \notin created /\ created' = created \cup {b}
    /\ LinearOffsets(regions[BlockRegion], size) # {}
    /\ LET offset == Min(LinearOffsets(regions[BlockRegion], size))
       IN /\ regions' = [regions EXCEPT ![BlockRegion] = Allocate(@, Span(offset, size))]
          /\ blocks' = [blocks EXCEPT ![b] = [base |-> 0, size |-> size,
                            holds |-> Span(offset, size),
                            pieces |-> <<[ptr |-> offset, size |-> size]>>, perms |-> perms]]
    /\ memoryUsed' = memoryUsed + size
    /\ UNCHANGED <<space, commit>>

\* Mapping a block.  The owner may ask for the permissions it created the block with;
\* other_permissions, which has no effect, is the one that is allowed.
MapPieces(b, address, perms) ==
    /\ perms \subseteq blocks[b].perms
    /\ CanCarve(space, address, blocks[b].size)
    /\ space' = MapBlocks(space, address, blocks[b].pieces, "Shared", perms)
    /\ UNCHANGED <<regions, blocks, created, memoryUsed, commit>>

\* Faulty variant: the end of the range is not checked.
MapBlockAnywhere(b, address, perms) ==
    /\ blocks[b] # NoBlock
    /\ address >= HeapBegin /\ address + blocks[b].size <= MaxAddress
    /\ MapPieces(b, address, perms)

\* SharedMemory::Map with an address.
MapBlock(b, address, perms) ==
    /\ blocks[b] # NoBlock
    /\ address >= HeapBegin /\ address + blocks[b].size < SharedEnd
    /\ MapPieces(b, address, perms)

\* SharedMemory::Map with address = 0: a block of its own memory is mapped to the (old)
\* linear heap's address of that memory.
MapBlockAtDefault(b, perms) ==
    /\ blocks[b] # NoBlock /\ blocks[b].base = 0
    /\ MapPieces(b, SharedEnd + Min(blocks[b].holds), perms)

\* SharedMemory::Unmap
UnmapBlock(b, address) ==
    /\ blocks[b] # NoBlock
    /\ CanCarveRange(space, address, blocks[b].size)
    /\ space' = UnmapRange(space, address, blocks[b].size)
    /\ UNCHANGED <<regions, blocks, created, memoryUsed, commit>>

\* The last handle is closed: SharedMemory's destructor.  Whatever region holds the
\* memory, it is freed in SYSTEM.
CloseBlock(b) ==
    LET m == blocks[b]
    IN /\ m # NoBlock
       /\ regions' = [regions EXCEPT !["SYSTEM"] = Free(@, m.holds)]
       /\ space' = IF m.base # 0 /\ CanChange(space, m.base, m.size, "Locked", {})
                   THEN ChangeMemoryState(space, m.base, m.size, "Private", {"R", "W"})
                   ELSE space
       /\ blocks' = [blocks EXCEPT ![b] = NoBlock]
       /\ UNCHANGED <<created, memoryUsed, commit>>

-----------------------------------------------------------------------------
(* The guest.  The calls do not check (and mark with TODO) that memory is   *)
(* not freed while it is aliased or shared, and that an Unmap or an        *)
(* UnmapMemoryBlock undoes what was mapped: a careful guest does not ask.  *)

SameMemory(target, source, size) ==
    \A i \in 0 .. size - 1 : PtrOf(space, target + i) = PtrOf(space, source + i)

SoleMapping(a) == \A c \in Pages \ {a} : PtrOf(space, c) # PtrOf(space, a)

Mapped(b, address) ==
    /\ StateIs(address, blocks[b].size, {"Shared"})
    /\ {PtrOf(space, a) : a \in Span(address, blocks[b].size)} = FramesOf(blocks[b].pieces)
    /\ PtrOf(space, address) = blocks[b].pieces[1].ptr

SharedPages == {a \in Pages : VmaAt(space, a).state = "Shared"}

\* The ranges of n pages of the address space.
Targets(size) == 1 .. MaxAddress - size

Heap == \E size \in Sizes : \E target \in HeapBegin .. HeapEnd - size :
    \/ \E perms \in CommitPerms : HeapAllocate(target, size, perms)
    \/ StateIs(target, size, {"Private"}) /\ HeapFree(target, size)

Linear == \E size \in Sizes :
    \/ \E perms \in CommitPerms : LinearAllocate(size, perms)
    \/ \E target \in Targets(size) :
          \/ \E perms \in CommitPerms : LinearAllocateAt(target, size, perms)
          \/ StateIs(target, size, {"Continuous"}) /\ LinearFree(target, size)

Aliases == \E size \in Sizes : \E source \in Targets(size) :
    \/ \E target \in 1 .. SharedEnd - size, privileged \in BOOLEAN :
          \/ /\ StateIs(source, size, {"Private"})
             /\ \E perms \in MapPerms : Map(target, source, size, perms, privileged)
          \/ /\ StateIs(source, size, {SourceState(privileged)})
             /\ StateIs(target, size, {TargetState(privileged)})
             /\ SameMemory(target, source, size)
             /\ Unmap(target, source, size, {"R", "W"}, privileged)
    \/ \E perms \in MapPerms : MapCode(source, size, perms)
    \/ /\ StateIs(source, size, {"AliasCode"})
       /\ \A a \in Span(source, size) : SoleMapping(a)
       /\ UnmapCode(source, size, {"R", "W"})

Protection == \E size \in Sizes : \E target \in Targets(size), perms \in Perms :
    StateIs(target, size, {"Private", "Continuous"}) /\ Protect(target, size, perms)

SharedBlocks == \E b \in Blocks :
    \/ \E size \in Sizes, perms \in Perms : \E address \in Targets(size) :
          CreateOfOwn(b, address, size, perms)
    \/ \E size \in Sizes, perms \in MapPerms : CreateOfLinear(b, size, perms)
    \/ \E perms \in MapPerms : \/ MapBlockAtDefault(b, perms)
                              \/ \E address \in Pages : MapBlock(b, address, perms)
    \/ /\ blocks[b] # NoBlock
       /\ \E address \in Targets(blocks[b].size) :
             Mapped(b, address) /\ UnmapBlock(b, address)
    \/ /\ blocks[b] # NoBlock
       /\ ~\E a \in SharedPages : PtrOf(space, a) \in FramesOf(blocks[b].pieces)
       /\ CloseBlock(b)

Next == Heap \/ Linear \/ Aliases \/ Protection \/ SharedBlocks

Spec == Init /\ [][Next]_vars

-----------------------------------------------------------------------------
(* Properties.                                                             *)

Held == UNION {blocks[b].holds : b \in {c \in Blocks : blocks[c] # NoBlock}}
AllFree == UNION {regions[r].free : r \in Regions}

\* The areas follow one another, and free ones are always merged, whatever calls
\* split and retag them: the calls take a free range for allocated if it is in two.
FreeSpaceMerged == Tiles(space) /\ FreeMerged(space)

\* VMManager adjusts the page table to match the areas.
PageTableAgrees == PageTableMatches(space)

\* Memory that a region may hand out next is neither mapped in the process nor held
\* by a shared memory block.
FreeMemoryUnused ==
    /\ \A a \in Pages : space.pages[a] \notin AllFree
    /\ Held \cap AllFree = {}
    /\ \A r, q \in Regions : r # q => regions[r].free \cap regions[q].free = {}

\* The process is charged for exactly the memory that its region has given away,
\* block by block, and the region's counter agrees with its set.
Accounting ==
    /\ Region.used = Region.size - Cardinality(Region.free)
    /\ commit = Region.used - Cardinality(Held \cap Span(Region.base, Region.size))

\* ASSERT(vma.Succeeded()) in LinearAllocate: where free memory would be mapped,
\* nothing is.
LinearAddressesFree ==
    \A f \in Region.free : IsFree(VmaAt(space, LinearArea + f))

\* The areas, split and merged, show the guest the pages that PageMap describes:
\* every call changes the pages it is about and no other, except that protecting new
\* memory protects the read-write pages whose area it has become a part of.
PM == INSTANCE PageMap WITH
          MaxSize <- Max(Sizes),
          Unmapped <- [state |-> "Free", perms |-> {}, ptr |-> NoPtr],
          attr <- [a \in Pages |-> Attributes(space, a)]

PagesAsAsked == PM!Spec

=============================================================================
