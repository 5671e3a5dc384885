---------------------------- MODULE MCCoreTiming ----------------------------
(***************************************************************************)
(* An instance of CoreTiming.tla for TLC.                                  *)
(***************************************************************************)
EXTENDS CoreTiming

\* e1 fires every tick or, when late, several times in one Advance.
FirstPeriodic == [e \in EventTypes |-> IF e = "e1" THEN 1 ELSE 0]

=============================================================================
