----------------------------- MODULE MCLogView ------------------------------
(* A word that every second line has, and one that no line has. *)
EXTENDS LogView

Everything == 1..MaxLines
Words      == {Everything, {n \in Everything : n % 2 = 0}, {}}
=============================================================================
