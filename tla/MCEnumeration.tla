--------------------------- MODULE MCEnumeration ---------------------------
(* Two sticks that may come to be called by the name of the other. *)
EXTENDS Enumeration

CONSTANTS s1, s2

OneRule == {{s1}}
=============================================================================
