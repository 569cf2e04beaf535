------------------------------ MODULE MCCopier ------------------------------
(***************************************************************************)
(* Instances of Copier for TLC: the ports are mapped in the order of their *)
(* numbers, and slots and device names are interchangeable.                *)
(***************************************************************************)
EXTENDS Copier, Sequences, TLC

MCPaths == {"path" \o ToString(d) : d \in Devices}
MCPortMap == [d \in Devices |-> "path" \o ToString(d)]
SlotsAndNames == Permutations(Procs) \cup Permutations(Names)
=============================================================================
