---------------------------- MODULE HandleTable ----------------------------
(***************************************************************************)
(* Kernel::HandleTable, the handles of one process.                        *)
(*                                                                         *)
(* A handle is a 32-bit word: 17 bits of slot index above 15 bits of       *)
(* generation.  GetSlot() returns a u16, so the top bit of the word is     *)
(* lost; a handle is modelled as the record of its three parts, and a key  *)
(* is what is left of it without the top bit.                              *)
(*                                                                         *)
(* The generations array serves two purposes: for a slot in use it holds   *)
(* the generation of its handle, for a free slot the next free slot.       *)
(***************************************************************************)
EXTENDS Integers, FiniteSets

CONSTANTS MAX_COUNT,       \* 4096
          MaxSlot,         \* 2^16 - 1
          MaxGeneration,   \* 2^15 - 1
          Object, NoObject,
          ThreadObject, ProcessObject,   \* the current thread and process
          MaxCreates       \* bound on the number of handles ever created

ASSUME HandleTableAssumption ==
    /\ MAX_COUNT \in Nat \ {0}
    /\ MaxSlot \in Nat /\ MAX_COUNT <= MaxSlot
    /\ MaxGeneration \in Nat \ {0}
    /\ NoObject \notin Object
    /\ ThreadObject \in Object /\ ProcessObject \in Object
    /\ MaxCreates \in Nat

Slot == 0 .. MAX_COUNT - 1

Key == [slot : 0 .. MaxSlot, gen : 0 .. MaxGeneration]
Handle == [top : {0, 1}, slot : 0 .. MaxSlot, gen : 0 .. MaxGeneration]

KeyOf(h) == [slot |-> h.slot, gen |-> h.gen]

CurrentThread == [top |-> 1, slot |-> MaxSlot, gen |-> 0]      \* 0xFFFF8000
CurrentProcess == [top |-> 1, slot |-> MaxSlot, gen |-> 1]     \* 0xFFFF8001

VARIABLES objects, generations, next_generation, next_free_slot,
          ret,      \* what the last operation returned
          count,    \* history: how many handles were ever created
          issue     \* history: which creation last returned a key (0: none)

tabvars == <<objects, generations, next_generation, next_free_slot>>
vars == <<objects, generations, next_generation, next_free_slot, ret, count, issue>>

-----------------------------------------------------------------------------
NoKey == [slot |-> 0, gen |-> 0]

Code == {"handle", "out_of_handles", "invalid_handle", "success"}

Returns(code) == ret' = [code |-> code, key |-> NoKey]

\* HandleTable::Clear
ClearedGenerations == [i \in Slot |-> i + 1]
ClearedObjects == [i \in Slot |-> NoObject]

Init ==
    /\ objects = ClearedObjects
    /\ generations = ClearedGenerations
    /\ next_free_slot = 0
    /\ next_generation = 1
    /\ ret = [code |-> "success", key |-> NoKey]
    /\ count = 0
    /\ issue = [key \in Key |-> 0]

\* Faulty variant: the generation is not compared.
IsValidSlot(key) == key.slot < MAX_COUNT /\ objects[key.slot] # NoObject

IsValid(key) ==
    /\ key.slot < MAX_COUNT
    /\ objects[key.slot] # NoObject
    /\ generations[key.slot] = key.gen

GetGeneric(h) ==
    IF h = CurrentThread THEN ThreadObject
    ELSE IF h = CurrentProcess THEN ProcessObject
    ELSE IF IsValid(KeyOf(h)) THEN objects[h.slot]
    ELSE NoObject

\* Faulty variant: the counter wraps one generation late.
FollowingLate(g) == IF g > MaxGeneration THEN 1 ELSE g + 1

\* The counter skips 0, and every generation fits in 15 bits.
Following(g) == IF g + 1 > MaxGeneration THEN 1 ELSE g + 1

Create(obj) ==
    \/ /\ next_free_slot >= MAX_COUNT
       /\ Returns("out_of_handles")
       /\ UNCHANGED <<tabvars, count, issue>>
    \/ /\ next_free_slot < MAX_COUNT
       /\ count < MaxCreates
       /\ LET key == [slot |-> next_free_slot, gen |-> next_generation]
          IN /\ next_free_slot' = generations[key.slot]
             /\ next_generation' = Following(key.gen)
             /\ generations' = [generations EXCEPT ![key.slot] = key.gen]
             /\ objects' = [objects EXCEPT ![key.slot] = obj]
             /\ ret' = [code |-> "handle", key |-> key]
             /\ count' = count + 1
             /\ issue' = [issue EXCEPT ![key] = count + 1]

Duplicate(h) ==
    \/ /\ GetGeneric(h) = NoObject
       /\ Returns("invalid_handle")
       /\ UNCHANGED <<tabvars, count, issue>>
    \/ /\ GetGeneric(h) # NoObject
       /\ Create(GetGeneric(h))

\* Faulty variant: the slot is freed but not linked to the rest of the list.
CloseUnlinked(h) ==
    /\ IsValid(KeyOf(h))
    /\ objects' = [objects EXCEPT ![h.slot] = NoObject]
    /\ next_free_slot' = h.slot
    /\ Returns("success")
    /\ UNCHANGED <<generations, next_generation, count, issue>>

Close(h) ==
    \/ /\ ~IsValid(KeyOf(h))
       /\ Returns("invalid_handle")
       /\ UNCHANGED <<tabvars, count, issue>>
    \/ /\ IsValid(KeyOf(h))
       /\ objects' = [objects EXCEPT ![h.slot] = NoObject]
       /\ generations' = [generations EXCEPT ![h.slot] = next_free_slot]
       /\ next_free_slot' = h.slot
       /\ Returns("success")
       /\ UNCHANGED <<next_generation, count, issue>>

\* Faulty variant: the generations start again.
ClearGenerations ==
    /\ objects' = ClearedObjects
    /\ generations' = ClearedGenerations
    /\ next_free_slot' = 0
    /\ next_generation' = 1
    /\ Returns("success")
    /\ UNCHANGED <<count, issue>>

\* Called when the process is destroyed.  The generation counter goes on.
Clear ==
    /\ objects' = ClearedObjects
    /\ generations' = ClearedGenerations
    /\ next_free_slot' = 0
    /\ Returns("success")
    /\ UNCHANGED <<next_generation, count, issue>>

Next ==
    \/ \E obj \in Object : Create(obj)
    \/ \E h \in Handle : Duplicate(h) \/ Close(h)
    \/ Clear

Spec == Init /\ [][Next]_vars

-----------------------------------------------------------------------------
(* Properties.                                                             *)

\* The arrays keep their size, and every handle the table returns fits in the
\* fields of a handle: the generation in 15 bits, never 0.
TypeOK ==
    /\ objects \in [Slot -> Object \cup {NoObject}]
    /\ generations \in [Slot -> Nat]
    /\ next_generation \in 1 .. MaxGeneration
    /\ next_free_slot \in 0 .. MAX_COUNT
    /\ ret \in [code : Code, key : Key]
    /\ count \in Nat
    /\ issue \in [Key -> Nat]
    /\ \A s \in Slot : objects[s] # NoObject => generations[s] \in 1 .. MaxGeneration

\* The i-th of n free slots links to the next one, the last to MAX_COUNT.
FreeChain(n, f) ==
    /\ n = 0 => next_free_slot = MAX_COUNT
    /\ n > 0 => next_free_slot = f[1] /\ generations[f[n]] = MAX_COUNT
    /\ \A i \in 1 .. n - 1 : generations[f[i]] = f[i + 1]
    /\ \A i, j \in 1 .. n : f[i] = f[j] => i = j
    /\ \A s \in Slot : objects[s] = NoObject <=> \E i \in 1 .. n : f[i] = s

\* The list that starts at next_free_slot visits every free slot once and no
\* slot in use, although its links share an array with the generations.
FreeListExact ==
    \E n \in 0 .. MAX_COUNT : \E f \in [1 .. n -> Slot] : FreeChain(n, f)

\* A handle that was closed is not handed out again for another object before
\* the generation counter has gone all the way round (handle_table.h: "to
\* prevent accidental use of a freed Handle whose slot has already been reused").
NoEarlyReuse ==
    [][\A key \in Key : issue'[key] # issue[key] =>
            issue[key] = 0 \/ issue'[key] - issue[key] >= MaxGeneration]_vars

\* Where the generations of the last MaxGeneration creations stand relative to
\* the counter: what makes NoEarlyReuse inductive.
GenerationWindow ==
    \A key \in Key :
        LET age == count - issue[key]
        IN /\ age >= 0
           /\ issue[key] # 0 /\ age < MaxGeneration =>
                 \/ key.gen = next_generation - 1 - age
                 \/ key.gen = next_generation - 1 - age + MaxGeneration

\* The object of every key, as HandleMap sees it.
TableOf == [key \in Key |-> IF IsValid(key) THEN objects[key.slot] ELSE NoObject]

Map == INSTANCE HandleMap WITH table <- TableOf, Capacity <- MAX_COUNT

\* The table implements the map it promises to be.
ImplementsHandleMap == Map!Spec

=============================================================================
