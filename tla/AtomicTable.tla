---------------------------- MODULE AtomicTable ----------------------------
(***************************************************************************)
(* What the data layer of the daemon promises of one of its two stores     *)
(* (dal::Table and the classes derived from it): calls take effect one at  *)
(* a time, and a transaction reaches the file as a whole or not at all.    *)
(* The weak point is the file: it is truncated and then written again, so  *)
(* there are moments at which a crash leaves neither the old rows nor the  *)
(* new ones.                                                               *)
(***************************************************************************)
EXTENDS Rows

CONSTANTS
    Values,    \* what a row can hold: a rule, or a mounted device
    Torn       \* the contents of a file that is being written

VARIABLES
    rows,      \* the rows every caller agrees on
    open,      \* a transaction is under way
    draft,     \* the rows with what it has changed so far
    disk,      \* what a restart would find
    dump       \* the rows about to be written: none, or those of one save

vars == <<rows, open, draft, disk, dump>>

\* The tables that one Create, Update, Delete or bulk removal makes of d.
Changed(d) ==
    {Inserted(d, v) : v \in Values}
      \cup {Replaced(d, i, v) : i \in DOMAIN d, v \in Values}
      \cup {Without(d, ids) : ids \in SUBSET DOMAIN d}
----------------------------------------------------------------------------
Init ==
    /\ rows = Empty /\ open = FALSE /\ draft = Empty
    /\ disk = Empty /\ dump = {}

\* Outside a transaction everybody sees a change at once ...
Change ==
    /\ ~open
    /\ draft' \in Changed(draft) /\ rows' = draft'
    /\ UNCHANGED <<open, disk, dump>>

\* ... and the changes of a transaction when it commits.
Begin == ~open /\ open' = TRUE /\ UNCHANGED <<rows, draft, disk, dump>>

Draft ==
    /\ open
    /\ draft' \in Changed(draft)
    /\ UNCHANGED <<rows, open, disk, dump>>

Commit == open /\ rows' = draft /\ UNCHANGED <<open, draft, disk, dump>>

End ==
    /\ open /\ rows = draft
    /\ open' = FALSE
    /\ UNCHANGED <<rows, draft, disk, dump>>

\* A save truncates the file, dumps the rows and writes the dump; meanwhile
\* the rows may change.
Tear == disk' = Torn /\ UNCHANGED <<rows, open, draft, dump>>

Dump ==
    /\ dump = {} /\ disk = Torn
    /\ dump' = {rows}
    /\ UNCHANGED <<rows, open, draft, disk>>

Save ==
    /\ disk' \in dump
    /\ dump' = {}
    /\ UNCHANGED <<rows, open, draft>>

\* What was truncated reads as no rows, or keeps the daemon from starting.
Restart ==
    /\ dump' = {} /\ open' = FALSE /\ draft' = rows'
    /\ \/ disk # Torn /\ rows' = disk /\ UNCHANGED disk
       \/ disk = Torn /\ rows' = Empty /\ disk' \in {Empty, Torn}

Next ==
    \/ Change \/ Begin \/ Draft \/ Commit \/ End
    \/ Tear \/ Dump \/ Save \/ Restart

Spec == Init /\ [][Next]_vars
=============================================================================
