-------------------------------- MODULE Rows --------------------------------
(***************************************************************************)
(* The std::map that holds the rows of a store of the daemon: a function   *)
(* from the ids in use to values.                                          *)
(***************************************************************************)
EXTENDS Naturals, FiniteSetsExt, Functions

Empty == [i \in {} |-> 0]

IsTable(d, Values) ==
    /\ DOMAIN d \subseteq Nat
    /\ d \in [DOMAIN d -> Values]

\* The id that Create gives: one more than the greatest in use, so the id of
\* the last row is given again once that row is deleted.
NextId(d) == IF DOMAIN d = {} THEN 0 ELSE Max(DOMAIN d) + 1

Inserted(d, v) == [i \in DOMAIN d \cup {NextId(d)} |->
                        IF i \in DOMAIN d THEN d[i] ELSE v]

Replaced(d, i, v) == [d EXCEPT ![i] = v]

Without(d, ids) == Restrict(d, DOMAIN d \ ids)

Holds(d, v) == \E i \in DOMAIN d : d[i] = v
=============================================================================
