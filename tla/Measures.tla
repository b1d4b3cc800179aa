------------------------------ MODULE Measures ------------------------------
(***************************************************************************)
(* What the report measures of the machine: the disks and the network      *)
(* interfaces that count.  They share no variable; what they promise       *)
(* together is here.                                                       *)
(***************************************************************************)
EXTENDS Disks, Interfaces

(***************************************************************************)
(* What is measured is counted once, and only if the user wants it.  The   *)
(* space of the disks is the sum over devices, not mounts, each at its     *)
(* full size (disk/linux.rs); an interface counts exactly if no built-in   *)
(* exclusion names it and the user's patterns, read as sets of names, let  *)
(* it (net/mod.rs: include_nic, nic_pattern_match).                        *)
(***************************************************************************)
MeasuredOnce == DisksOnce /\ NicsChosen

=============================================================================
