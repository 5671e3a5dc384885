------------------------- MODULE HandleTableProofs -------------------------
(***************************************************************************)
(* Proofs about HandleTable.tla, for every size of the table, every width  *)
(* of the generation and any number of handles created.                    *)
(***************************************************************************)
EXTENDS HandleTable, FunctionTheorems, FiniteSetTheorems, TLAPS

-----------------------------------------------------------------------------
(* The free list.                                                          *)

\* A list without repetitions is no longer than the table.
LEMMA ChainFits ==
    ASSUME NEW n \in Nat, NEW f \in [1 .. n -> Slot],
           \A i, j \in 1 .. n : f[i] = f[j] => i = j
    PROVE  n <= MAX_COUNT
<1>1. IsFiniteSet(Slot) /\ Cardinality(Slot) = MAX_COUNT
  BY FS_Interval, HandleTableAssumption DEF Slot
<1>2. IsFiniteSet(1 .. n) /\ Cardinality(1 .. n) = n
  BY FS_Interval
<1>. SUFFICES ASSUME n > MAX_COUNT PROVE FALSE
  BY HandleTableAssumption
<1>3. \E x, y \in 1 .. n : x # y /\ f[x] = f[y]
  BY <1>1, <1>2, FS_PigeonHole
<1>. QED
  BY <1>3

\* So a list of any length will do to show FreeListExact.
LEMMA AnyChain ==
    ASSUME NEW n \in Nat, NEW f \in [1 .. n -> Slot], FreeChain(n, f)
    PROVE  FreeListExact
BY ChainFits, HandleTableAssumption DEF FreeListExact, FreeChain

\* The slot that Create takes is free, and its link is in the table.
LEMMA HeadIsFree ==
    ASSUME TypeOK, FreeListExact, next_free_slot < MAX_COUNT
    PROVE  /\ next_free_slot \in Slot
           /\ objects[next_free_slot] = NoObject
           /\ generations[next_free_slot] \in 0 .. MAX_COUNT
<1>. PICK n \in 0 .. MAX_COUNT : \E f \in [1 .. n -> Slot] : FreeChain(n, f)
  BY DEF FreeListExact
<1>1. PICK f \in [1 .. n -> Slot] : FreeChain(n, f)
  OBVIOUS
<1>2. n > 0 /\ next_free_slot = f[1] /\ f[1] \in Slot
  BY <1>1, HandleTableAssumption DEF FreeChain
<1>3. objects[f[1]] = NoObject
  BY <1>1, <1>2 DEF FreeChain
<1>4. CASE n = 1
  BY <1>1, <1>2, <1>3, <1>4, HandleTableAssumption DEF FreeChain
<1>5. CASE n > 1
  <2>1. generations[f[1]] = f[2] /\ f[2] \in Slot
    BY <1>1, <1>5 DEF FreeChain
  <2>. QED
    BY <2>1, <1>2, <1>3, HandleTableAssumption DEF Slot
<1>. QED
  BY <1>2, <1>4, <1>5

\* Create takes the head off the list.
LEMMA CreateChain ==
    ASSUME TypeOK, FreeListExact, NEW obj \in Object, Create(obj)
    PROVE  FreeListExact'
<1>. PICK n \in 0 .. MAX_COUNT : \E f \in [1 .. n -> Slot] : FreeChain(n, f)
  BY DEF FreeListExact
<1>1. PICK f \in [1 .. n -> Slot] : FreeChain(n, f)
  OBVIOUS
<1>2. CASE next_free_slot >= MAX_COUNT
  <2>1. FreeChain(n, f)'
    BY <1>1, <1>2, HandleTableAssumption DEF Create, FreeChain, tabvars, TypeOK
  <2>. QED
    BY <2>1, HandleTableAssumption DEF FreeListExact
<1>3. CASE next_free_slot < MAX_COUNT
  <2>. DEFINE g == [i \in 1 .. n - 1 |-> f[i + 1]]
  <2>1. n > 0 /\ next_free_slot = f[1] /\ f[1] \in Slot
    BY <1>1, <1>3, HandleTableAssumption DEF FreeChain
  <2>2. /\ next_free_slot' = generations[f[1]]
        /\ generations' = [generations EXCEPT ![f[1]] = next_generation]
        /\ objects' = [objects EXCEPT ![f[1]] = obj]
    BY <1>3, <2>1, HandleTableAssumption DEF Create, TypeOK
  <2>3. n - 1 \in 0 .. MAX_COUNT /\ g \in [1 .. n - 1 -> Slot]
    BY <2>1, HandleTableAssumption
  <2>4. \A i \in 1 .. n - 1 : g[i] = f[i + 1] /\ g[i] # f[1]
    BY <1>1, <2>1 DEF FreeChain
  <2>5. (n - 1 = 0 => next_free_slot' = MAX_COUNT)
    BY <1>1, <2>1, <2>2 DEF FreeChain
  <2>6. n - 1 > 0 => next_free_slot' = g[1] /\ generations'[g[n - 1]] = MAX_COUNT
    BY <1>1, <2>1, <2>2, <2>3, <2>4 DEF FreeChain, TypeOK
  <2>7. \A i \in 1 .. (n - 1) - 1 : generations'[g[i]] = g[i + 1]
    BY <1>1, <2>1, <2>2, <2>3, <2>4 DEF FreeChain, TypeOK
  <2>8. \A i, j \in 1 .. n - 1 : g[i] = g[j] => i = j
    BY <1>1, <2>1, <2>4 DEF FreeChain
  <2>9. \A s \in Slot : objects'[s] = NoObject <=> \E i \in 1 .. n - 1 : g[i] = s
    <3>. SUFFICES ASSUME NEW s \in Slot
                  PROVE  objects'[s] = NoObject <=> \E i \in 1 .. n - 1 : g[i] = s
      OBVIOUS
    <3>1. CASE s = f[1]
      BY <3>1, <2>1, <2>2, <2>4, HandleTableAssumption DEF TypeOK
    <3>2. CASE s # f[1]
      <4>1. objects'[s] = NoObject <=> \E i \in 1 .. n : f[i] = s
        BY <3>2, <1>1, <2>1, <2>2 DEF FreeChain, TypeOK
      <4>2. ASSUME NEW i \in 1 .. n, f[i] = s
            PROVE  i - 1 \in 1 .. n - 1 /\ g[i - 1] = s
        BY <4>2, <3>2, <2>1
      <4>3. ASSUME NEW i \in 1 .. n - 1, g[i] = s
            PROVE  i + 1 \in 1 .. n /\ f[i + 1] = s
        BY <4>3, <2>1
      <4>. QED
        BY <4>1, <4>2, <4>3
    <3>. QED
      BY <3>1, <3>2
  <2>. HIDE DEF g
  <2>10. FreeChain(n - 1, g)'
    BY <2>5, <2>6, <2>7, <2>8, <2>9 DEF FreeChain
  <2>. QED
    BY <2>3, <2>10 DEF FreeListExact
<1>. QED
  BY <1>2, <1>3, HandleTableAssumption DEF TypeOK

\* Close puts the slot in front of the list.
LEMMA CloseChain ==
    ASSUME TypeOK, FreeListExact, NEW h \in Handle, Close(h)
    PROVE  FreeListExact'
<1>. PICK n \in 0 .. MAX_COUNT : \E f \in [1 .. n -> Slot] : FreeChain(n, f)
  BY DEF FreeListExact
<1>1. PICK f \in [1 .. n -> Slot] : FreeChain(n, f)
  OBVIOUS
<1>2. CASE ~IsValid(KeyOf(h))
  <2>1. FreeChain(n, f)'
    BY <1>1, <1>2 DEF Close, FreeChain, tabvars
  <2>. QED
    BY <2>1 DEF FreeListExact
<1>3. CASE IsValid(KeyOf(h))
  <2>. DEFINE g == [i \in 1 .. n + 1 |-> IF i = 1 THEN h.slot ELSE f[i - 1]]
  <2>1. h.slot \in Slot /\ objects[h.slot] # NoObject
    BY <1>3, HandleTableAssumption DEF IsValid, KeyOf, Handle, Slot
  <2>2. /\ next_free_slot' = h.slot
        /\ generations' = [generations EXCEPT ![h.slot] = next_free_slot]
        /\ objects' = [objects EXCEPT ![h.slot] = NoObject]
    BY <1>3 DEF Close
  <2>3. n \in Nat /\ n + 1 \in Nat /\ g \in [1 .. n + 1 -> Slot]
    BY <2>1, HandleTableAssumption
  <2>4. /\ g[1] = h.slot
        /\ \A i \in 1 .. n : g[i + 1] = f[i] /\ f[i] # h.slot
    BY <1>1, <2>1, <2>3 DEF FreeChain
  <2>5. next_free_slot' = g[1] /\ generations'[g[n + 1]] = MAX_COUNT
    <3>1. CASE n = 0
      BY <3>1, <1>1, <2>1, <2>2, <2>4 DEF FreeChain, TypeOK
    <3>2. CASE n > 0
      BY <3>2, <1>1, <2>1, <2>2, <2>4, HandleTableAssumption DEF FreeChain, TypeOK
    <3>. QED
      BY <3>1, <3>2, <2>3
  <2>6. \A i \in 1 .. (n + 1) - 1 : generations'[g[i]] = g[i + 1]
    <3>. SUFFICES ASSUME NEW i \in 1 .. n PROVE generations'[g[i]] = g[i + 1]
      BY <2>3
    <3>1. CASE i = 1
      BY <3>1, <1>1, <2>1, <2>2, <2>4 DEF FreeChain, TypeOK
    <3>2. CASE i > 1
      <4>1. i - 1 \in 1 .. n /\ i - 1 \in 1 .. n - 1
        BY <3>2, <2>3
      <4>2. g[i] = f[i - 1] /\ f[i - 1] # h.slot /\ f[i - 1] \in Slot
        BY <4>1, <2>4
      <4>3. generations[f[i - 1]] = f[i]
        BY <4>1, <1>1 DEF FreeChain
      <4>. QED
        BY <4>2, <4>3, <2>1, <2>2, <2>4 DEF TypeOK
    <3>. QED
      BY <3>1, <3>2
  <2>7. \A i, j \in 1 .. n + 1 : g[i] = g[j] => i = j
    <3>1. \A i \in 1 .. n + 1 : i = 1 \/ (i - 1 \in 1 .. n /\ g[i] = f[i - 1])
      BY <2>3
    <3>. QED
      BY <3>1, <1>1, <2>4 DEF FreeChain
  <2>8. \A s \in Slot : objects'[s] = NoObject <=> \E i \in 1 .. n + 1 : g[i] = s
    <3>. SUFFICES ASSUME NEW s \in Slot
                  PROVE  objects'[s] = NoObject <=> \E i \in 1 .. n + 1 : g[i] = s
      OBVIOUS
    <3>1. CASE s = h.slot
      BY <3>1, <2>1, <2>2, <2>3, <2>4 DEF TypeOK
    <3>2. CASE s # h.slot
      <4>1. objects'[s] = NoObject <=> \E i \in 1 .. n : f[i] = s
        BY <3>2, <1>1, <2>1, <2>2 DEF FreeChain, TypeOK
      <4>2. ASSUME NEW i \in 1 .. n, f[i] = s
            PROVE  i + 1 \in 1 .. n + 1 /\ g[i + 1] = s
        BY <4>2, <2>4
      <4>3. ASSUME NEW i \in 1 .. n + 1, g[i] = s
            PROVE  i - 1 \in 1 .. n /\ f[i - 1] = s
        BY <4>3, <3>2, <2>3
      <4>. QED
        BY <4>1, <4>2, <4>3
    <3>. QED
      BY <3>1, <3>2
  <2>. HIDE DEF g
  <2>9. FreeChain(n + 1, g)'
    BY <2>3, <2>5, <2>6, <2>7, <2>8 DEF FreeChain
  <2>10. n + 1 <= MAX_COUNT
    BY <2>3, <2>7, ChainFits
  <2>. QED
    BY <2>3, <2>9, <2>10, HandleTableAssumption DEF FreeListExact
<1>. QED
  BY <1>2, <1>3

\* The list that Clear builds: every slot in order.
LEMMA ClearedChain ==
    /\ Init => FreeListExact
    /\ Clear => FreeListExact'
<1>. DEFINE f == [i \in 1 .. MAX_COUNT |-> i - 1]
<1>1. MAX_COUNT \in 0 .. MAX_COUNT /\ f \in [1 .. MAX_COUNT -> Slot]
  BY HandleTableAssumption DEF Slot
<1>2. \A s \in Slot : s + 1 \in 1 .. MAX_COUNT /\ f[s + 1] = s
  BY HandleTableAssumption DEF Slot
<1>3. Init => FreeChain(MAX_COUNT, f)
  <2>. SUFFICES ASSUME objects = ClearedObjects, generations = ClearedGenerations,
                       next_free_slot = 0
                PROVE  FreeChain(MAX_COUNT, f)
    BY DEF Init
  <2>. QED
    BY <1>1, <1>2, HandleTableAssumption DEF FreeChain, ClearedObjects, ClearedGenerations
<1>4. Clear => FreeChain(MAX_COUNT, f)'
  BY <1>1, <1>2, HandleTableAssumption
  DEF Clear, FreeChain, ClearedObjects, ClearedGenerations
<1>. QED
  BY <1>1, <1>3, <1>4 DEF FreeListExact

-----------------------------------------------------------------------------
(* Type correctness.                                                       *)

LEMMA SlotInMaxSlot == Slot \subseteq 0 .. MaxSlot
BY HandleTableAssumption DEF Slot

LEMMA NoKeyType == NoKey \in Key
BY HandleTableAssumption DEF NoKey, Key

\* What the Create that succeeds does, and the key it returns.
LEMMA CreateEffect ==
    ASSUME TypeOK, FreeListExact, NEW obj \in Object, Create(obj),
           next_free_slot < MAX_COUNT
    PROVE  \E key \in Key :
              /\ key.slot = next_free_slot /\ key.slot \in Slot
              /\ key.gen = next_generation
              /\ objects[key.slot] = NoObject
              /\ next_free_slot' = generations[key.slot]
              /\ next_generation' = Following(next_generation)
              /\ generations' = [generations EXCEPT ![key.slot] = next_generation]
              /\ objects' = [objects EXCEPT ![key.slot] = obj]
              /\ ret' = [code |-> "handle", key |-> key]
              /\ count' = count + 1
              /\ issue' = [issue EXCEPT ![key] = count + 1]
<1>. DEFINE k == [slot |-> next_free_slot, gen |-> next_generation]
<1>1. next_free_slot \in Slot /\ objects[next_free_slot] = NoObject
  BY HeadIsFree
<1>2. next_free_slot \in 0 .. MaxSlot /\ next_generation \in 0 .. MaxGeneration
  BY <1>1, SlotInMaxSlot, HandleTableAssumption DEF TypeOK
<1>3. k \in Key /\ k.slot = next_free_slot /\ k.gen = next_generation
  BY <1>2 DEF Key
<1>4. /\ next_free_slot' = generations[k.slot]
      /\ next_generation' = Following(k.gen)
      /\ generations' = [generations EXCEPT ![k.slot] = k.gen]
      /\ objects' = [objects EXCEPT ![k.slot] = obj]
      /\ ret' = [code |-> "handle", key |-> k]
      /\ count' = count + 1
      /\ issue' = [issue EXCEPT ![k] = count + 1]
  BY <1>2, HandleTableAssumption DEF Create
<1>. HIDE DEF k
<1>. QED
  BY <1>1, <1>3, <1>4

\* What the Create that fails does.
LEMMA CreateFails ==
    ASSUME TypeOK, NEW obj \in Object, Create(obj), ~(next_free_slot < MAX_COUNT)
    PROVE  /\ Returns("out_of_handles")
           /\ UNCHANGED <<tabvars, count, issue>>
           /\ next_free_slot = MAX_COUNT
BY HandleTableAssumption DEF Create, TypeOK

LEMMA CreateType ==
    ASSUME TypeOK, FreeListExact, NEW obj \in Object, Create(obj)
    PROVE  TypeOK'
<1>1. CASE next_free_slot < MAX_COUNT
  <2>1. PICK key \in Key :
              /\ key.slot = next_free_slot /\ key.slot \in Slot
              /\ key.gen = next_generation
              /\ objects[key.slot] = NoObject
              /\ next_free_slot' = generations[key.slot]
              /\ next_generation' = Following(next_generation)
              /\ generations' = [generations EXCEPT ![key.slot] = next_generation]
              /\ objects' = [objects EXCEPT ![key.slot] = obj]
              /\ ret' = [code |-> "handle", key |-> key]
              /\ count' = count + 1
              /\ issue' = [issue EXCEPT ![key] = count + 1]
    BY <1>1, CreateEffect
  <2>2. next_generation' \in 1 .. MaxGeneration
    BY <2>1, HandleTableAssumption DEF TypeOK, Following
  <2>3. next_free_slot' \in 0 .. MAX_COUNT
    BY <1>1, <2>1, HeadIsFree
  <2>4. ret' \in [code : Code, key : Key]
    BY <2>1 DEF Code
  <2>5. /\ objects' \in [Slot -> Object \cup {NoObject}]
        /\ generations' \in [Slot -> Nat]
        /\ count' \in Nat
        /\ issue' \in [Key -> Nat]
    BY <2>1, HandleTableAssumption DEF TypeOK
  <2>6. \A s \in Slot : objects'[s] # NoObject => generations'[s] \in 1 .. MaxGeneration
    BY <2>1 DEF TypeOK
  <2>. QED
    BY <2>2, <2>3, <2>4, <2>5, <2>6 DEF TypeOK
<1>2. CASE ~(next_free_slot < MAX_COUNT)
  BY <1>2, CreateFails, NoKeyType DEF TypeOK, Returns, tabvars, Code
<1>. QED
  BY <1>1, <1>2

LEMMA CloseType ==
    ASSUME TypeOK, NEW h \in Handle, Close(h)
    PROVE  TypeOK'
<1>1. CASE ~IsValid(KeyOf(h))
  BY <1>1, NoKeyType DEF Close, TypeOK, Returns, tabvars, Code
<1>2. CASE IsValid(KeyOf(h))
  <2>1. h.slot \in Slot
    BY <1>2, HandleTableAssumption DEF IsValid, KeyOf, Handle, Slot
  <2>2. /\ next_free_slot' = h.slot
        /\ generations' = [generations EXCEPT ![h.slot] = next_free_slot]
        /\ objects' = [objects EXCEPT ![h.slot] = NoObject]
        /\ ret' = [code |-> "success", key |-> NoKey]
        /\ UNCHANGED <<next_generation, count, issue>>
    BY <1>2 DEF Close, Returns
  <2>3. next_free_slot' \in 0 .. MAX_COUNT
    BY <2>1, <2>2, HandleTableAssumption DEF Slot
  <2>4. ret' \in [code : Code, key : Key]
    BY <2>2, NoKeyType DEF Code
  <2>. QED
    BY <2>1, <2>2, <2>3, <2>4, HandleTableAssumption DEF TypeOK
<1>. QED
  BY <1>1, <1>2

LEMMA InitType == Init => TypeOK
BY HandleTableAssumption, NoKeyType
DEF Init, TypeOK, ClearedObjects, ClearedGenerations, Slot, Code

LEMMA ClearType ==
    ASSUME TypeOK, Clear
    PROVE  TypeOK'
BY HandleTableAssumption, NoKeyType
DEF Clear, Returns, TypeOK, ClearedObjects, ClearedGenerations, Slot, Code

-----------------------------------------------------------------------------
(* The inductive invariant.                                                *)

Inv == TypeOK /\ FreeListExact /\ GenerationWindow

\* An operation that is refused changes nothing but the result.
Refused == (\E code \in Code : Returns(code)) /\ UNCHANGED <<tabvars, count, issue>>

LEMMA RefusedInv ==
    ASSUME Inv, Refused
    PROVE  Inv'
<1>1. TypeOK'
  BY NoKeyType DEF Inv, Refused, TypeOK, Returns, tabvars
<1>2. FreeListExact'
  BY DEF Inv, Refused, FreeListExact, FreeChain, tabvars
<1>3. GenerationWindow'
  BY DEF Inv, Refused, GenerationWindow, tabvars
<1>. QED
  BY <1>1, <1>2, <1>3 DEF Inv

\* Duplicate is refused, or creates a handle for the object it found.
LEMMA DuplicateCases ==
    ASSUME TypeOK, NEW h \in Handle, Duplicate(h)
    PROVE  \/ ~IsValid(KeyOf(h)) /\ Returns("invalid_handle") /\ Refused
           \/ \E obj \in Object : Create(obj)
<1>1. CASE GetGeneric(h) = NoObject
  BY <1>1, HandleTableAssumption
  DEF Duplicate, Refused, Code, GetGeneric, IsValid, KeyOf
<1>2. CASE GetGeneric(h) # NoObject
  <2>1. GetGeneric(h) \in Object
    <3>1. IsValid(KeyOf(h)) => h.slot \in Slot
      BY HandleTableAssumption DEF IsValid, KeyOf, Handle, Slot
    <3>. QED
      BY <3>1, <1>2, HandleTableAssumption DEF GetGeneric, TypeOK
  <2>. QED
    BY <1>2, <2>1 DEF Duplicate
<1>. QED
  BY <1>1, <1>2

\* Every other key is one creation older; the new one has age 0.
LEMMA CreateWindow ==
    ASSUME Inv, NEW obj \in Object, Create(obj)
    PROVE  /\ GenerationWindow'
           /\ \A key \in Key : issue'[key] # issue[key] =>
                 issue[key] = 0 \/ issue'[key] - issue[key] >= MaxGeneration
<1>1. CASE next_free_slot < MAX_COUNT
  <2>1. PICK key \in Key :
              /\ key.gen = next_generation
              /\ next_generation' = Following(next_generation)
              /\ count' = count + 1
              /\ issue' = [issue EXCEPT ![key] = count + 1]
    BY <1>1, CreateEffect DEF Inv
  <2>2. /\ next_generation \in 1 .. MaxGeneration
        /\ count \in Nat
        /\ issue \in [Key -> Nat]
        /\ \A x \in Key : x.gen \in 0 .. MaxGeneration
    BY DEF Inv, TypeOK, Key
  <2>3. \/ next_generation' = next_generation + 1 /\ next_generation < MaxGeneration
        \/ next_generation' = 1 /\ next_generation = MaxGeneration
    BY <2>1, <2>2, HandleTableAssumption DEF Following
  <2>4. ASSUME NEW x \in Key
        PROVE  LET age == count' - issue'[x]
               IN /\ age >= 0
                  /\ issue'[x] # 0 /\ age < MaxGeneration =>
                        \/ x.gen = next_generation' - 1 - age
                        \/ x.gen = next_generation' - 1 - age + MaxGeneration
    <3>1. CASE x = key
      <4>1. issue'[x] = count + 1 /\ x.gen = next_generation
        BY <3>1, <2>1, <2>2
      <4>. QED
        BY <4>1, <2>1, <2>2, <2>3, HandleTableAssumption
    <3>2. CASE x # key
      <4>1. issue'[x] = issue[x] /\ issue[x] \in Nat
        BY <3>2, <2>1, <2>2
      <4>2. /\ count - issue[x] >= 0
            /\ issue[x] # 0 /\ count - issue[x] < MaxGeneration =>
                  \/ x.gen = next_generation - 1 - (count - issue[x])
                  \/ x.gen = next_generation - 1 - (count - issue[x]) + MaxGeneration
        BY DEF Inv, GenerationWindow
      <4>. QED
        BY <4>1, <4>2, <2>1, <2>2, <2>3, HandleTableAssumption
    <3>. QED
      BY <3>1, <3>2
  <2>5. GenerationWindow'
    BY <2>4 DEF GenerationWindow
  <2>6. ASSUME NEW x \in Key, issue'[x] # issue[x]
        PROVE  issue[x] = 0 \/ issue'[x] - issue[x] >= MaxGeneration
    <3>1. x = key /\ issue'[x] = count + 1 /\ x.gen = next_generation
      BY <2>6, <2>1, <2>2
    <3>2. /\ count - issue[x] >= 0
          /\ issue[x] # 0 /\ count - issue[x] < MaxGeneration =>
                \/ x.gen = next_generation - 1 - (count - issue[x])
                \/ x.gen = next_generation - 1 - (count - issue[x]) + MaxGeneration
      BY DEF Inv, GenerationWindow
    <3>. QED
      BY <3>1, <3>2, <2>2, HandleTableAssumption
  <2>. QED
    BY <2>5, <2>6
<1>2. CASE ~(next_free_slot < MAX_COUNT)
  BY <1>2, CreateFails DEF Inv, GenerationWindow, tabvars
<1>. QED
  BY <1>1, <1>2

LEMMA CreateInv ==
    ASSUME Inv, NEW obj \in Object, Create(obj)
    PROVE  Inv'
BY CreateType, CreateChain, CreateWindow DEF Inv

LEMMA CloseInv ==
    ASSUME Inv, NEW h \in Handle, Close(h)
    PROVE  Inv' /\ UNCHANGED <<count, issue>>
<1>1. UNCHANGED <<next_generation, count, issue>>
  BY DEF Close, tabvars
<1>2. GenerationWindow'
  BY <1>1 DEF Inv, GenerationWindow
<1>. QED
  BY <1>1, <1>2, CloseType, CloseChain DEF Inv

LEMMA ClearInv ==
    ASSUME Inv, Clear
    PROVE  Inv' /\ UNCHANGED <<count, issue>>
<1>1. UNCHANGED <<next_generation, count, issue>>
  BY DEF Clear
<1>2. GenerationWindow'
  BY <1>1 DEF Inv, GenerationWindow
<1>. QED
  BY <1>1, <1>2, ClearType, ClearedChain DEF Inv

LEMMA InitInv == Init => Inv
<1>1. Init => GenerationWindow
  BY HandleTableAssumption DEF Init, GenerationWindow
<1>. QED
  BY <1>1, InitType, ClearedChain DEF Inv

\* What every step does: it keeps the invariant, and reissues no key early.
LEMMA StepInv ==
    ASSUME Inv, [Next]_vars
    PROVE  /\ Inv'
           /\ \A key \in Key : issue'[key] # issue[key] =>
                 issue[key] = 0 \/ issue'[key] - issue[key] >= MaxGeneration
<1>1. ASSUME NEW obj \in Object, Create(obj)
      PROVE  /\ Inv'
             /\ \A key \in Key : issue'[key] # issue[key] =>
                   issue[key] = 0 \/ issue'[key] - issue[key] >= MaxGeneration
  BY <1>1, CreateInv, CreateWindow
<1>2. ASSUME NEW h \in Handle, Duplicate(h)
      PROVE  /\ Inv'
             /\ \A key \in Key : issue'[key] # issue[key] =>
                   issue[key] = 0 \/ issue'[key] - issue[key] >= MaxGeneration
  <2>1. CASE Refused
    BY <2>1, RefusedInv DEF Refused
  <2>2. CASE \E obj \in Object : Create(obj)
    BY <2>2, <1>1
  <2>. QED
    BY <1>2, <2>1, <2>2, DuplicateCases DEF Inv
<1>3. ASSUME NEW h \in Handle, Close(h)
      PROVE  Inv' /\ UNCHANGED issue
  BY <1>3, CloseInv
<1>4. CASE Clear
  BY <1>4, ClearInv
<1>5. CASE UNCHANGED vars
  <2>1. TypeOK' /\ GenerationWindow' /\ issue' = issue
    BY <1>5 DEF vars, Inv, TypeOK, GenerationWindow
  <2>2. FreeListExact'
    BY <1>5 DEF vars, Inv, FreeListExact, FreeChain
  <2>. QED
    BY <2>1, <2>2 DEF Inv
<1>. QED
  BY <1>1, <1>2, <1>3, <1>4, <1>5 DEF Next

LEMMA InvHolds == Spec => []Inv
BY InitInv, StepInv, PTL DEF Spec

\* Every handle the table returns fits the fields of a handle, and the table's
\* arrays keep their shape, whatever calls a process makes.
THEOREM TypeCorrect == Spec => []TypeOK
BY InvHolds, PTL DEF Inv

\* The free list that runs through the generations array holds every free slot
\* exactly once and never a slot in use: Create cannot overwrite a live handle.
THEOREM FreeListCorrect == Spec => []FreeListExact
BY InvHolds, PTL DEF Inv

\* A key is not returned again within MaxGeneration creations of its last one,
\* so a stale handle stays invalid until the generation counter wraps around.
THEOREM ReuseIsLate == Spec => NoEarlyReuse
<1>1. Inv /\ [Next]_vars =>
        [\A key \in Key : issue'[key] # issue[key] =>
            issue[key] = 0 \/ issue'[key] - issue[key] >= MaxGeneration]_vars
  BY StepInv
<1>. QED
  BY <1>1, InvHolds, PTL DEF Spec, NoEarlyReuse

-----------------------------------------------------------------------------
(* The refinement of HandleMap.                                            *)

\* The object of a key, read off the arrays.
LEMMA TableValue ==
    ASSUME NEW key \in Key
    PROVE  TableOf[key] = IF IsValid(key) THEN objects[key.slot] ELSE NoObject
BY DEF TableOf

LEMMA TableValuePrime ==
    ASSUME NEW key \in Key
    PROVE  TableOf'[key] = IF IsValid(key)' THEN objects'[key.slot] ELSE NoObject
BY DEF TableOf

\* A key is in use iff it is valid.
LEMMA InUseIsValid ==
    ASSUME NEW key \in Key
    PROVE  key \in Map!InUse <=> IsValid(key)
BY TableValue DEF Map!InUse, IsValid

LEMMA InUseSubset == Map!InUse \subseteq Key
BY DEF Map!InUse

\* With no slot free, every slot has one key in use.
LEMMA FullTable ==
    ASSUME TypeOK, \A s \in Slot : objects[s] # NoObject
    PROVE  Cardinality(Map!InUse) = MAX_COUNT
<1>. DEFINE b == [s \in Slot |-> [slot |-> s, gen |-> generations[s]]]
<1>1. ASSUME NEW s \in Slot
      PROVE  /\ b[s] \in Key /\ b[s].slot = s /\ b[s].gen = generations[s]
             /\ b[s] \in Map!InUse
  <2>1. s \in 0 .. MaxSlot /\ generations[s] \in 0 .. MaxGeneration /\ s < MAX_COUNT
    BY SlotInMaxSlot, HandleTableAssumption DEF TypeOK, Slot
  <2>2. b[s] \in Key /\ b[s].slot = s /\ b[s].gen = generations[s]
    BY <2>1 DEF Key
  <2>. HIDE DEF b
  <2>3. IsValid(b[s])
    BY <2>1, <2>2 DEF IsValid
  <2>. QED
    BY <2>2, <2>3, InUseIsValid
<1>2. ASSUME NEW key \in Map!InUse
      PROVE  key.slot \in Slot /\ b[key.slot] = key
  <2>1. key \in Key /\ IsValid(key)
    BY InUseIsValid, InUseSubset
  <2>2. key.slot \in Slot /\ key.gen = generations[key.slot]
    BY <2>1, HandleTableAssumption DEF IsValid, Slot, Key
  <2>. QED
    BY <2>1, <2>2 DEF Key
<1>3. b \in [Slot -> Map!InUse]
  BY <1>1
<1>4. \A s, t \in Slot : b[s] = b[t] => s = t
  BY <1>1
<1>5. \A key \in Map!InUse : \E s \in Slot : b[s] = key
  BY <1>2
<1>. HIDE DEF b
<1>6. b \in Bijection(Slot, Map!InUse)
  BY <1>3, <1>4, <1>5, Fun_IsBij
<1>7. ExistsBijection(Slot, Map!InUse)
  BY <1>6 DEF ExistsBijection
<1>8. IsFiniteSet(Slot) /\ Cardinality(Slot) = MAX_COUNT
  BY FS_Interval, HandleTableAssumption DEF Slot
<1>. QED
  BY <1>7, <1>8, FS_Bijection

\* An operation that leaves the arrays alone leaves the map alone.
LEMMA SameTable ==
    ASSUME UNCHANGED tabvars
    PROVE  TableOf' = TableOf
BY DEF tabvars, TableOf, IsValid

LEMMA CreateRefines ==
    ASSUME Inv, NEW obj \in Object, Create(obj)
    PROVE  Map!Create(obj)
<1>1. CASE next_free_slot < MAX_COUNT
  <2>1. PICK key \in Key :
              /\ key.slot = next_free_slot /\ key.slot \in Slot
              /\ key.gen = next_generation
              /\ objects[key.slot] = NoObject
              /\ generations' = [generations EXCEPT ![key.slot] = next_generation]
              /\ objects' = [objects EXCEPT ![key.slot] = obj]
              /\ ret' = [code |-> "handle", key |-> key]
    BY <1>1, CreateEffect DEF Inv
  <2>2. key \in Key \ Map!InUse
    BY <2>1, InUseIsValid DEF IsValid
  <2>3. ASSUME NEW x \in Key
        PROVE  TableOf'[x] = IF x = key THEN obj ELSE TableOf[x]
    <3>1. CASE x.slot = key.slot
      <4>1. TableOf[x] = NoObject
        BY <3>1, <2>1, TableValue DEF IsValid
      <4>2. objects'[x.slot] = obj /\ generations'[x.slot] = next_generation
        BY <3>1, <2>1 DEF Inv, TypeOK
      <4>3. x.slot < MAX_COUNT
        BY <3>1, <2>1, HandleTableAssumption DEF Slot
      <4>4. IsValid(x)' <=> x.gen = key.gen
        BY <4>2, <4>3, <2>1, HandleTableAssumption DEF IsValid
      <4>5. x.gen = key.gen <=> x = key
        BY <3>1 DEF Key
      <4>. QED
        BY <4>1, <4>2, <4>4, <4>5, TableValuePrime
    <3>2. CASE x.slot # key.slot
      <4>1. x # key
        BY <3>2
      <4>2. x.slot < MAX_COUNT => x.slot \in Slot
        BY HandleTableAssumption DEF Key, Slot
      <4>3. x.slot < MAX_COUNT => /\ objects'[x.slot] = objects[x.slot]
                                  /\ generations'[x.slot] = generations[x.slot]
        BY <4>2, <3>2, <2>1 DEF Inv, TypeOK
      <4>. QED
        BY <4>1, <4>3, TableValue, TableValuePrime DEF IsValid
    <3>. QED
      BY <3>1, <3>2
  <2>4. TableOf' = [TableOf EXCEPT ![key] = obj]
    <3>1. TableOf' = [x \in Key |-> TableOf'[x]]
      BY DEF TableOf
    <3>2. [TableOf EXCEPT ![key] = obj] = [x \in Key |-> IF x = key THEN obj ELSE TableOf[x]]
      BY DEF TableOf
    <3>. HIDE DEF TableOf
    <3>. QED
      BY <2>3, <3>1, <3>2
  <2>. QED
    BY <2>1, <2>2, <2>4 DEF Map!Create
<1>2. CASE ~(next_free_slot < MAX_COUNT)
  <2>1. /\ ret' = [code |-> "out_of_handles", key |-> NoKey]
        /\ UNCHANGED tabvars
        /\ next_free_slot = MAX_COUNT
    BY <1>2, CreateFails DEF Inv, Returns
  <2>2. \A s \in Slot : objects[s] # NoObject
    <3>. PICK n \in 0 .. MAX_COUNT : \E f \in [1 .. n -> Slot] : FreeChain(n, f)
      BY DEF Inv, FreeListExact
    <3>1. PICK f \in [1 .. n -> Slot] : FreeChain(n, f)
      OBVIOUS
    <3>2. n = 0
      BY <3>1, <2>1, HandleTableAssumption DEF FreeChain, Slot
    <3>. QED
      BY <3>1, <3>2 DEF FreeChain
  <2>3. Cardinality(Map!InUse) = MAX_COUNT
    BY <2>2, FullTable DEF Inv
  <2>4. TableOf' = TableOf /\ ret'.code = "out_of_handles"
    BY <2>1, SameTable
  <2>. QED
    BY <2>3, <2>4, SMT DEF Map!Create, Map!Cardinality, Cardinality
<1>. QED
  BY <1>1, <1>2

LEMMA CloseRefines ==
    ASSUME Inv, NEW h \in Handle, Close(h)
    PROVE  KeyOf(h) \in Key /\ (Map!Close(KeyOf(h)) \/ Map!Refuse(KeyOf(h)))
<1>. DEFINE key == KeyOf(h)
<1>0. key \in Key /\ key.slot = h.slot /\ key.gen = h.gen
  BY DEF KeyOf, Key, Handle
<1>1. CASE ~IsValid(key)
  <2>1. UNCHANGED tabvars /\ ret' = [code |-> "invalid_handle", key |-> NoKey]
    BY <1>1 DEF Close, Returns
  <2>. QED
    BY <2>1, <1>0, <1>1, InUseIsValid, SameTable DEF Map!Refuse
<1>2. CASE IsValid(key)
  <2>1. /\ objects' = [objects EXCEPT ![key.slot] = NoObject]
        /\ generations' = [generations EXCEPT ![key.slot] = next_free_slot]
        /\ ret' = [code |-> "success", key |-> NoKey]
    BY <1>2, <1>0 DEF Close, Returns
  <2>. HIDE DEF key
  <2>2. key.slot \in Slot /\ generations[key.slot] = key.gen
    BY <1>2, <1>0, HandleTableAssumption DEF IsValid, Key, Slot
  <2>3. ASSUME NEW x \in Key
        PROVE  TableOf'[x] = IF x = key THEN NoObject ELSE TableOf[x]
    <3>1. CASE x.slot = key.slot
      <4>1. TableOf'[x] = NoObject
        BY <3>1, <2>1, <2>2, TableValuePrime DEF IsValid, Inv, TypeOK
      <4>2. x.gen # key.gen => TableOf[x] = NoObject
        BY <3>1, <2>2, TableValue DEF IsValid
      <4>3. x.gen = key.gen => x = key
        BY <3>1, <1>0 DEF Key
      <4>. QED
        BY <4>1, <4>2, <4>3
    <3>2. CASE x.slot # key.slot
      <4>1. x # key
        BY <3>2
      <4>2. x.slot < MAX_COUNT => x.slot \in Slot
        BY HandleTableAssumption DEF Key, Slot
      <4>3. x.slot < MAX_COUNT => /\ objects'[x.slot] = objects[x.slot]
                                  /\ generations'[x.slot] = generations[x.slot]
        BY <4>2, <3>2, <2>1, <2>2 DEF Inv, TypeOK
      <4>. QED
        BY <4>1, <4>3, TableValue, TableValuePrime DEF IsValid
    <3>. QED
      BY <3>1, <3>2
  <2>4. TableOf' = [TableOf EXCEPT ![key] = NoObject]
    <3>1. TableOf' = [x \in Key |-> TableOf'[x]]
      BY DEF TableOf
    <3>2. [TableOf EXCEPT ![key] = NoObject]
            = [x \in Key |-> IF x = key THEN NoObject ELSE TableOf[x]]
      BY DEF TableOf
    <3>. HIDE DEF TableOf
    <3>. QED
      BY <2>3, <3>1, <3>2
  <2>5. key \in Map!InUse
    BY <1>0, <1>2, InUseIsValid
  <2>6. Map!Close(key)
    BY <2>1, <2>4, <2>5 DEF Map!Close
  <2>. QED
    BY <1>0, <2>6 DEF key
<1>. QED
  BY <1>1, <1>2

LEMMA EmptyTable ==
    /\ Init => TableOf = [key \in Key |-> NoObject]
    /\ Clear => TableOf' = [key \in Key |-> NoObject]
<1>1. \A key \in Key : key.slot < MAX_COUNT => key.slot \in Slot
  BY HandleTableAssumption DEF Key, Slot
<1>2. Init => TableOf = [key \in Key |-> NoObject]
  BY <1>1 DEF Init, TableOf, IsValid, ClearedObjects
<1>3. Clear => TableOf' = [key \in Key |-> NoObject]
  BY <1>1 DEF Clear, TableOf, IsValid, ClearedObjects
<1>. QED
  BY <1>2, <1>3

\* The handle table implements the map of handles to objects: a handle it
\* returns was not in use, the other handles keep their objects, Close forgets
\* exactly one, and Create fails only when MAX_COUNT handles are in use.
THEOREM Refinement == Spec => ImplementsHandleMap
<1>1. Init => Map!Init
  BY EmptyTable DEF Map!Init
<1>2. Inv /\ [Next]_vars => [Map!Next]_(Map!mapvars)
  <2>. SUFFICES ASSUME Inv, [Next]_vars PROVE [Map!Next]_(Map!mapvars)
    OBVIOUS
  <2>1. ASSUME NEW obj \in Object, Create(obj) PROVE Map!Next
    BY <2>1, CreateRefines DEF Map!Next
  <2>2. ASSUME NEW h \in Handle, Duplicate(h) PROVE Map!Next
    <3>1. KeyOf(h) \in Key
      BY DEF KeyOf, Key, Handle
    <3>2. CASE ~IsValid(KeyOf(h)) /\ Returns("invalid_handle") /\ Refused
      <4>1. Map!Refuse(KeyOf(h))
        BY <3>1, <3>2, InUseIsValid, SameTable DEF Map!Refuse, Returns, Refused
      <4>. QED
        BY <3>1, <4>1 DEF Map!Next
    <3>. QED
      BY <2>1, <2>2, <3>2, DuplicateCases DEF Inv
  <2>3. ASSUME NEW h \in Handle, Close(h) PROVE Map!Next
    BY <2>3, CloseRefines DEF Map!Next
  <2>4. CASE Clear
    <3>1. Map!Clear
      BY <2>4, EmptyTable DEF Map!Clear, Clear, Returns
    <3>. QED
      BY <3>1 DEF Map!Next
  <2>5. CASE UNCHANGED vars
    BY <2>5, SameTable DEF vars, tabvars, Map!mapvars
  <2>. QED
    BY <2>1, <2>2, <2>3, <2>4, <2>5 DEF Next
<1>. QED
  BY <1>1, <1>2, InvHolds, PTL DEF Spec, Map!Spec, ImplementsHandleMap

=============================================================================
