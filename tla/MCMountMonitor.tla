--------------------------- MODULE MCMountMonitor ---------------------------
(* Two sticks: copies of each other, or with equal labels or no names at all. *)
EXTENDS MountMonitor, TLC

CONSTANTS d1, d2, label, uuid

SameLabel == [d \in Devices |-> label]
SameUid   == [d \in Devices |-> uuid]
Nameless  == [d \in Devices |-> NoName]
=============================================================================
