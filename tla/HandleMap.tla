----------------------------- MODULE HandleMap -----------------------------
(***************************************************************************)
(* What a process' handle table promises (handle_table.h): it maps handles *)
(* to kernel objects.  Create and Duplicate return a handle that maps to   *)
(* nothing yet and leave the other handles alone, Close forgets exactly    *)
(* one handle, and the table runs out of handles only when it holds        *)
(* Capacity of them.                                                       *)
(***************************************************************************)
EXTENDS Naturals, FiniteSets

CONSTANTS Key, Object, NoObject, Capacity

VARIABLES table,    \* the object of every handle, NoObject if there is none
          ret       \* what the last operation returned

mapvars == <<table, ret>>

InUse == {key \in Key : table[key] # NoObject}

Init == table = [key \in Key |-> NoObject]

Create(obj) ==
    \/ \E key \in Key \ InUse :
          /\ table' = [table EXCEPT ![key] = obj]
          /\ ret' = [code |-> "handle", key |-> key]
    \/ /\ Cardinality(InUse) = Capacity
       /\ ret'.code = "out_of_handles"
       /\ UNCHANGED table

Close(key) ==
    /\ key \in InUse
    /\ table' = [table EXCEPT ![key] = NoObject]
    /\ ret'.code = "success"

\* Close or Duplicate of a handle that is not in use.
Refuse(key) ==
    /\ key \notin InUse
    /\ ret'.code = "invalid_handle"
    /\ UNCHANGED table

\* The process is destroyed.
Clear ==
    /\ table' = [key \in Key |-> NoObject]
    /\ ret'.code = "success"

Next ==
    \/ \E obj \in Object : Create(obj)
    \/ \E key \in Key : Close(key) \/ Refuse(key)
    \/ Clear

Spec == Init /\ [][Next]_mapvars

=============================================================================
