--------------------------- MODULE MappedBuffers ---------------------------
(***************************************************************************)
(* The mapped buffers of TranslateCommandBuffer: a request maps its buffer *)
(* into the server between two guard pages, its reply unmaps the three.    *)
(* Requests of several clients are open at once and are replied to in any  *)
(* order.  The address space is the server's IPC mapping area.             *)
(***************************************************************************)
EXTENDS VMManager

CONSTANTS Buffers,        \* the buffers that clients may pass
          NumPages        \* [Buffers -> Nat]: num_pages

VARIABLES space,          \* the server's vm_manager
          context         \* mapped_buffer_context: [buffer -> target_address, or NoPtr]

vars == <<space, context>>

\* Every buffer has its own host memory, and so has its reserve_buffer.
BufferPtr(b) == 1000 * b
ReservePtr(b) == 1000 * b + 500

Init ==
    /\ space = EmptySpace
    /\ context = [b \in Buffers |-> NoPtr]

\* MapBackingMemoryToBase, at the base of the area: the first free area that ends
\* far enough from the base.
TargetFor(s, size) ==
    LET i == SelectInSeq(s.vmas, LAMBDA v : IsFree(v) /\ EndOf(v) >= size)
    IN IF i = 0 THEN NoPtr ELSE s.vmas[i].base

MapBackingMemoryToBase(s, ptr, size, state) ==
    MapBackingMemory(s, TargetFor(s, size), ptr, size, state)

\* An area was found, and CarveVMA accepts it.
MayMapToBase(s, size) ==
    TargetFor(s, size) # NoPtr /\ CanCarve(s, TargetFor(s, size), size)

ReserveBefore(b) == MapBackingMemoryToBase(space, ReservePtr(b), 1, "Reserved")
MapBuffer(b) == MapBackingMemoryToBase(ReserveBefore(b), BufferPtr(b), NumPages[b], "Shared")

\* The translation of a request.  The results of the reservations are not looked at;
\* that of the buffer is unwrapped.
Request(b) ==
    /\ context[b] = NoPtr /\ MayMapToBase(space, 1)
    /\ MayMapToBase(ReserveBefore(b), NumPages[b])
    /\ context' = [context EXCEPT ![b] = TargetFor(ReserveBefore(b), NumPages[b])]
    /\ space' = IF MayMapToBase(MapBuffer(b), 1)
                THEN MapBackingMemoryToBase(MapBuffer(b), ReservePtr(b), 1, "Reserved")
                ELSE MapBuffer(b)

\* The translation of the reply, if the assertion about the range is met.
Reply(b) ==
    /\ context[b] # NoPtr
    /\ CanCarveRange(space, context[b] - 1, NumPages[b] + 2)
    /\ space' = UnmapRange(space, context[b] - 1, NumPages[b] + 2)
    /\ context' = [context EXCEPT ![b] = NoPtr]

Next == \E b \in Buffers : Request(b) \/ Reply(b)

Spec == Init /\ [][Next]_vars

\* The assertion of the reply: the pages before and after a mapped buffer are
\* reserved, whatever other requests have been replied to.
GuardPagesReserved ==
    \A b \in Buffers : context[b] # NoPtr =>
        \A a \in {context[b] - 1, context[b] + NumPages[b]} :
            a \in Pages /\ VmaAt(space, a).state = "Reserved"

=============================================================================
