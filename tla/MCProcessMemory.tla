-------------------------- MODULE MCProcessMemory --------------------------
(* Three pages of application memory and one in each of the other regions. *)
EXTENDS ProcessMemory

MCRegionSizes == [r \in Regions |-> IF r = "APPLICATION" THEN 3 ELSE 1]
MCReadWrite == {{"R", "W"}}
MCPerms == {{"R"}, {"R", "W"}}

=============================================================================
