-------------------------- MODULE RulesFormProofs --------------------------
(***************************************************************************)
(* Proofs about RulesForm for tables and rows of any number, any devices   *)
(* and owners: the marks tell the truth about what is sent, and the        *)
(* buttons are there when they are needed.                                 *)
(***************************************************************************)
EXTENDS RulesForm, RowsProofs

AnyRows == UNION {[S -> Row] : S \in SUBSET Keys}

Form == [rows : AnyRows, selected : SUBSET Keys, checked : SUBSET Keys,
         enabled : SUBSET Buttons]

Shaped(f) ==
    /\ f \in Form
    /\ f.selected \subseteq DOMAIN f.rows /\ f.checked \subseteq DOMAIN f.rows

CanAct(f) ==
    f.selected \cup f.checked # {} => {"delete", "reset"} \subseteq f.enabled

Savable(f) == SomethingChanged(f.rows) /\ IsClean(f.rows) => "save" \in f.enabled

\* What the rows say about the rules t that were loaded: none of them is
\* missing, a cell without a mark is as it was loaded, and an appended row
\* without a mark has no owner yet.
Truthful(rows, t) ==
    /\ DOMAIN rows \ Appended = DOMAIN t
    /\ \A k \in DOMAIN t, c \in Cells :
          c \notin rows[k].changed => rows[k].text[c] = t[k][c]
    /\ \A k \in DOMAIN rows \cap Appended :
          /\ ~rows[k].deleted
          /\ rows[k].changed = {} => rows[k].text.owner = NoText

\* One form for another with the same rows, selection and checkboxes.
SameRows(g, f) ==
    g.rows = f.rows /\ g.selected = f.selected /\ g.checked = f.checked

-----------------------------------------------------------------------------
LEMMA RowsShape ==
  ASSUME NEW rows
  PROVE  rows \in AnyRows <=> DOMAIN rows \subseteq Keys /\ rows \in [DOMAIN rows -> Row]
BY DEF AnyRows

LEMMA KeysAreNaturals ==
  Keys \subseteq Nat /\ Appended \subseteq Keys /\ MaxRows \in Nat
BY FormAssumption DEF Keys, Appended

LEMMA TableShape ==
  ASSUME NEW t \in Tables
  PROVE  /\ DOMAIN t \subseteq Keys \ Appended /\ t \in [DOMAIN t -> Rule]
         /\ \A i, j \in DOMAIN t : t[i].dev = t[j].dev => i = j
         /\ Rows0(t) \in AnyRows /\ Truthful(Rows0(t), t)
<1>1. PICK n \in 0..MaxRows : t \in [0..(n - 1) -> Rule]
  BY DEF Tables
<1>2. \A i, j \in DOMAIN t : t[i].dev = t[j].dev => i = j
  BY DEF Tables
<1>3. DOMAIN t = 0..(n - 1) /\ t \in [DOMAIN t -> Rule]
  BY <1>1
<1>4. DOMAIN t \subseteq Keys \ Appended
  BY <1>3, FormAssumption DEF Keys, Appended
<1>5. \A r \in Rule : Fresh(r) \in Row
  BY DEF Fresh, Row, Rule, Texts
<1>6. /\ DOMAIN Rows0(t) = DOMAIN t
      /\ \A k \in DOMAIN t : Rows0(t)[k] = Fresh(t[k])
  BY DEF Rows0
<1>7. Rows0(t) \in AnyRows
  <2>1. Rows0(t) \in [DOMAIN t -> Row]
    BY <1>3, <1>5 DEF Rows0
  <2> QED
    BY <1>4, <2>1 DEF AnyRows
<1>8. Truthful(Rows0(t), t)
  <2>1. \A k \in DOMAIN t, c \in Cells : Rows0(t)[k].text[c] = t[k][c]
    BY <1>6 DEF Fresh
  <2>2. DOMAIN Rows0(t) \cap Appended = {}
    BY <1>4, <1>6
  <2> QED
    BY <1>4, <1>6, <2>1, <2>2 DEF Truthful
<1> QED
  BY <1>2, <1>3, <1>4, <1>7, <1>8
-----------------------------------------------------------------------------
(* The buttons.                                                              *)

LEMMA SwitchedKeeps ==
  ASSUME NEW f, Shaped(f), NEW bs \in SUBSET Buttons, NEW on \in BOOLEAN
  PROVE  LET g == Switched(f, bs, on)
         IN  /\ Shaped(g) /\ SameRows(g, f)
             /\ g.enabled = IF on THEN f.enabled \cup bs ELSE f.enabled \ bs
BY DEF Shaped, Form, Switched, SameRows

LEMMA SaveIsButton ==
  /\ {"save"} \in SUBSET Buttons /\ {"edit"} \in SUBSET Buttons /\ {} \in SUBSET Buttons
  /\ {"delete", "reset"} \in SUBSET Buttons
  /\ {"delete", "reset"} \cup {"edit"} \in SUBSET Buttons
BY DEF Buttons

LEMMA SaveSwitched ==
  ASSUME NEW f, Shaped(f), CanAct(f), NEW on \in BOOLEAN,
         SomethingChanged(f.rows) /\ IsClean(f.rows) => on
  PROVE  LET g == Switched(f, {"save"}, on)
         IN  Shaped(g) /\ CanAct(g) /\ Savable(g) /\ SameRows(g, f)
<1> DEFINE g == Switched(f, {"save"}, on)
<1>1. /\ Shaped(g) /\ SameRows(g, f)
      /\ g.enabled = IF on THEN f.enabled \cup {"save"} ELSE f.enabled \ {"save"}
  <2>1. {"save"} \in SUBSET Buttons
    BY SaveIsButton
  <2>2. CASE on = TRUE
    BY <2>1, <2>2, SwitchedKeeps
  <2>3. CASE on = FALSE
    BY <2>1, <2>3, SwitchedKeeps
  <2> QED
    BY <2>2, <2>3
<1> HIDE DEF g
<1>2. CanAct(g)
  BY <1>1 DEF CanAct, SameRows
<1>3. Savable(g)
  BY <1>1 DEF Savable, SameRows
<1> QED
  BY <1>1, <1>2, <1>3 DEF g

LEMMA TooltipKeeps ==
  ASSUME NEW f, Shaped(f), CanAct(f)
  PROVE  LET g == ShowToolTipIfSomeInvalid(f)
         IN  Shaped(g) /\ CanAct(g) /\ Savable(g) /\ SameRows(g, f)
<1>1. (IsClean(f.rows) /\ SomethingChanged(f.rows)) \in BOOLEAN
  OBVIOUS
<1> QED
  BY <1>1, SaveSwitched DEF ShowToolTipIfSomeInvalid

LEMMA SaveButtonKeeps ==
  ASSUME NEW f, Shaped(f), CanAct(f)
  PROVE  LET g == ShowSaveButtonIfSomethigChaged(f)
         IN  Shaped(g) /\ CanAct(g) /\ Savable(g) /\ SameRows(g, f)
<1>1. SomethingChanged(f.rows) \in BOOLEAN
  BY DEF SomethingChanged
<1> QED
  BY <1>1, SaveSwitched DEF ShowSaveButtonIfSomethigChaged

LEMMA DisableKeeps ==
  ASSUME NEW f, Shaped(f), CanAct(f)
  PROVE  LET g == DisableIfNone(f)
         IN  /\ Shaped(g) /\ CanAct(g) /\ SameRows(g, f)
             /\ "save" \in f.enabled => "save" \in g.enabled
<1>1. CASE f.selected \cup f.checked # {}
  BY <1>1 DEF DisableIfNone, SameRows
<1>2. CASE f.selected \cup f.checked = {}
  <2> DEFINE g == Switched(f, {"delete", "reset"}, FALSE)
  <2>1. /\ Shaped(g) /\ SameRows(g, f)
        /\ g.enabled = f.enabled \ {"delete", "reset"}
    BY SwitchedKeeps, SaveIsButton
  <2>2. DisableIfNone(f) = g
    BY <1>2 DEF DisableIfNone
  <2> HIDE DEF g
  <2>3. CanAct(g)
    BY <1>2, <2>1 DEF CanAct, SameRows
  <2> QED
    BY <2>1, <2>2, <2>3
<1> QED
  BY <1>1, <1>2

LEMMA SelectKeeps ==
  ASSUME NEW f, Shaped(f), NEW k \in DOMAIN f.rows
  PROVE  LET g == RowSelect(f, k)
         IN  /\ Shaped(g) /\ CanAct(g)
             /\ g.rows = f.rows /\ g.selected = {k} /\ g.checked = f.checked
             /\ f.enabled \subseteq g.enabled /\ (Savable(f) => Savable(g))
<1> DEFINE bs == {"delete", "reset"} \cup IF f.rows[k].deleted \/ Editing(k) THEN {} ELSE {"edit"}
           h  == Switched(f, bs, TRUE)
           g  == RowSelect(f, k)
<1>1. bs \in SUBSET Buttons
  BY SaveIsButton
<1>2. Shaped(h) /\ SameRows(h, f) /\ h.enabled = f.enabled \cup bs
  BY <1>1, SwitchedKeeps
<1>3. g = [h EXCEPT !.selected = {k}]
  BY DEF RowSelect
<1>4. k \in Keys
  BY RowsShape DEF Shaped, Form
<1> HIDE DEF h
<1>5. /\ g \in Form /\ g.rows = f.rows /\ g.selected = {k} /\ g.checked = f.checked
      /\ g.enabled = f.enabled \cup bs
  BY <1>2, <1>3, <1>4 DEF Shaped, Form, SameRows
<1> HIDE DEF g
<1>6. Shaped(g) /\ CanAct(g)
  BY <1>5 DEF Shaped, CanAct
<1>7. Savable(f) => Savable(g)
  BY <1>5 DEF Savable
<1> QED
  BY <1>5, <1>6, <1>7 DEF g
-----------------------------------------------------------------------------
(* Reset and Delete.                                                         *)

\* A loaded row is what was stored; an appended one is not restored.
LEMMA RestoredShape ==
  ASSUME NEW row \in Row, NEW k, stored \in Tables
  PROVE  /\ Restored(row, k) \in Row /\ ~Restored(row, k).deleted
         /\ [Restored(row, k) EXCEPT !.deleted = TRUE] \in Row
         /\ k \in DOMAIN stored => Restored(row, k).text = stored[k]
<1>1. stored \in [DOMAIN stored -> Rule]
  BY TableShape
<1>4. ASSUME NEW x \in Row PROVE [x EXCEPT !.deleted = TRUE] \in Row
  BY <1>4 DEF Row
<1>2. CASE k \in DOMAIN stored
  <2>1. Restored(row, k) = Fresh(stored[k]) /\ stored[k] \in Rule
    BY <1>1, <1>2 DEF Restored
  <2>2. Fresh(stored[k]) \in Row
    BY <2>1 DEF Fresh, Row, Rule, Texts
  <2>3. ~Fresh(stored[k]).deleted /\ Fresh(stored[k]).text = stored[k]
    BY DEF Fresh
  <2> QED
    BY <1>4, <2>1, <2>2, <2>3
<1>3. CASE k \notin DOMAIN stored
  <2>1. Restored(row, k) = [row EXCEPT !.changed = {}, !.bad = {}, !.deleted = FALSE]
    BY <1>3 DEF Restored
  <2>2. Restored(row, k) \in Row /\ ~Restored(row, k).deleted
    BY <2>1 DEF Row
  <2> QED
    BY <1>3, <1>4, <2>2
<1> QED
  BY <1>2, <1>3

\* What Reset and Delete make of the rows: rows of ks that were appended go,
\* the others are restored, and marked as deleted when gone is TRUE.
Redone(rows, ks, gone) ==
    [k \in DOMAIN rows \ (ks \cap Appended) |->
        IF k \in ks THEN [Restored(rows[k], k) EXCEPT !.deleted = gone] ELSE rows[k]]

LEMMA RedoneShape ==
  ASSUME NEW rows \in AnyRows, NEW ks, NEW gone \in BOOLEAN, stored \in Tables
  PROVE  /\ Redone(rows, ks, gone) \in AnyRows
         /\ DOMAIN Redone(rows, ks, gone) = DOMAIN rows \ (ks \cap Appended)
         /\ Truthful(rows, stored) => Truthful(Redone(rows, ks, gone), stored)
<1> DEFINE new == Redone(rows, ks, gone)
<1>1. DOMAIN rows \subseteq Keys /\ rows \in [DOMAIN rows -> Row]
  BY RowsShape
<1>2. /\ DOMAIN new = DOMAIN rows \ (ks \cap Appended)
      /\ \A k \in DOMAIN new :
            new[k] = IF k \in ks THEN [Restored(rows[k], k) EXCEPT !.deleted = gone]
                     ELSE rows[k]
  BY DEF Redone
<1>3. \A k \in DOMAIN new :
         /\ new[k] \in Row
         /\ k \notin ks => new[k] = rows[k]
         /\ k \in ks /\ k \in DOMAIN stored => new[k].text = stored[k]
  <2>1. TAKE k \in DOMAIN new
  <2>2. rows[k] \in Row
    BY <1>1, <1>2
  <2>3. CASE k \in ks
    <3>1. /\ Restored(rows[k], k) \in Row
          /\ k \in DOMAIN stored => Restored(rows[k], k).text = stored[k]
      BY <2>2, RestoredShape
    <3>2. new[k] = [Restored(rows[k], k) EXCEPT !.deleted = gone]
      BY <1>2, <2>3
    <3> HIDE DEF new
    <3> QED
      BY <2>3, <3>1, <3>2 DEF Row
  <2>4. CASE k \notin ks
    BY <1>2, <2>2, <2>4
  <2> QED
    BY <2>3, <2>4
<1>4. new \in [DOMAIN new -> Row]
  BY <1>3 DEF Redone
<1> HIDE DEF new
<1>5. new \in AnyRows
  BY <1>1, <1>2, <1>4, RowsShape
<1>6. ASSUME Truthful(rows, stored) PROVE Truthful(new, stored)
  <2>1. DOMAIN stored \subseteq Keys \ Appended
    BY TableShape
  <2>2. DOMAIN new \ Appended = DOMAIN stored
    BY <1>2, <1>6 DEF Truthful
  <2>3. ASSUME NEW k \in DOMAIN stored, NEW c \in Cells, c \notin new[k].changed
        PROVE  new[k].text[c] = stored[k][c]
    <3>1. k \in DOMAIN new
      BY <2>2
    <3>2. CASE k \in ks
      BY <1>3, <3>1, <3>2
    <3>3. CASE k \notin ks
      BY <1>3, <1>6, <2>3, <3>1, <3>3 DEF Truthful
    <3> QED
      BY <3>2, <3>3
  <2>4. ASSUME NEW k \in DOMAIN new \cap Appended
        PROVE  new[k] = rows[k] /\ k \in DOMAIN rows
    BY <1>2, <1>3
  <2> QED
    BY <1>6, <2>2, <2>3, <2>4 DEF Truthful
<1> QED
  BY <1>2, <1>5, <1>6 DEF new

\* The buttons and the selection after appended rows are gone.
RemovedTo(f, ks, rows) == [Removed(f, ks) EXCEPT !.rows = rows]

DeletedTo(f, ks, rows) ==
    [Removed(f, ks) EXCEPT !.rows = rows,
        !.enabled = IF f.selected \cap ks = {} THEN f.enabled ELSE f.enabled \ {"edit"}]

LEMMA RemovedKeeps ==
  ASSUME NEW f, Shaped(f), CanAct(f), NEW ks, ks \subseteq DOMAIN f.rows,
         NEW rows \in AnyRows, DOMAIN rows = DOMAIN f.rows \ (ks \cap Appended)
  PROVE  /\ Shaped(RemovedTo(f, ks, rows)) /\ CanAct(RemovedTo(f, ks, rows))
         /\ RemovedTo(f, ks, rows).rows = rows
         /\ Shaped(DeletedTo(f, ks, rows)) /\ CanAct(DeletedTo(f, ks, rows))
         /\ DeletedTo(f, ks, rows).rows = rows
<1> DEFINE gone == ks \cap Appended
           old  == Removed(f, ks)
           eh   == IF f.selected \cap ks = {} THEN f.enabled ELSE f.enabled \ {"edit"}
           Cleared(g) == /\ g.rows = rows /\ g.selected = f.selected \ gone
                         /\ g.checked = f.checked \ ks
                         /\ f.enabled \ {"edit"} \subseteq g.enabled
<1>1. f \in Form /\ f.enabled \subseteq Buttons /\ eh \subseteq Buttons
  BY DEF Shaped, Form
<1>2. /\ old \in Form /\ old.selected = f.selected \ gone /\ old.checked = f.checked \ ks
      /\ f.enabled \ {"edit"} \subseteq old.enabled
  <2>1. Without(f.rows, gone) \in AnyRows
    <3>1. DOMAIN f.rows \subseteq Keys /\ f.rows \in [DOMAIN f.rows -> Row]
      BY <1>1, RowsShape DEF Form
    <3>2. /\ DOMAIN Without(f.rows, gone) = DOMAIN f.rows \ gone
          /\ Without(f.rows, gone) \in [DOMAIN f.rows \ gone -> Row]
      BY <3>1 DEF Without, Restrict
    <3> QED
      BY <3>1, <3>2, RowsShape
  <2>2. /\ old.rows = Without(f.rows, gone) /\ old.selected = f.selected \ gone
        /\ old.checked = f.checked \ ks
        /\ f.enabled \ {"edit"} \subseteq old.enabled /\ old.enabled \subseteq f.enabled
    BY DEF Removed
  <2>3. \E a, b, c, d : old = [rows |-> a, selected |-> b, checked |-> c, enabled |-> d]
    BY DEF Removed
  <2> HIDE DEF old, gone
  <2> QED
    BY <1>1, <2>1, <2>2, <2>3 DEF Form
<1>3. RemovedTo(f, ks, rows) = [old EXCEPT !.rows = rows]
  BY DEF RemovedTo
<1>4. DeletedTo(f, ks, rows) = [old EXCEPT !.rows = rows, !.enabled = eh]
  BY DEF DeletedTo
<1>5. f.enabled \ {"edit"} \subseteq eh
  OBVIOUS
<1>6. RemovedTo(f, ks, rows) \in Form /\ Cleared(RemovedTo(f, ks, rows))
  <2> HIDE DEF old, gone
  <2> QED
    BY <1>2, <1>3 DEF Form
<1>7. DeletedTo(f, ks, rows) \in Form /\ Cleared(DeletedTo(f, ks, rows))
  <2> HIDE DEF old, gone, eh
  <2> QED
    BY <1>1, <1>2, <1>4, <1>5 DEF Form
<1>8. ASSUME NEW g \in Form, Cleared(g) PROVE Shaped(g) /\ CanAct(g)
  BY <1>8 DEF Shaped, CanAct
<1> QED
  BY <1>6, <1>7, <1>8

LEMMA ResetKeeps ==
  ASSUME NEW f, Shaped(f), CanAct(f), NEW ks, ks \subseteq DOMAIN f.rows,
         stored \in Tables
  PROVE  LET g == ResetRows(f, ks)
         IN  Shaped(g) /\ CanAct(g) /\ Savable(g) /\ g.rows = Redone(f.rows, ks, FALSE)
<1> DEFINE h == RemovedTo(f, ks, Redone(f.rows, ks, FALSE))
<1>1. f.rows \in AnyRows
  BY DEF Shaped, Form
<1>2. ResetRows(f, ks) =
         ShowToolTipIfSomeInvalid(IF ks \cap Appended = {} THEN h ELSE DisableIfNone(h))
  <2>1. Removed(f, ks).rows = [k \in DOMAIN f.rows \ (ks \cap Appended) |-> f.rows[k]]
    BY DEF Removed, Without, Restrict
  <2>2. [k \in DOMAIN Removed(f, ks).rows |->
            IF k \in ks THEN Restored(Removed(f, ks).rows[k], k)
            ELSE Removed(f, ks).rows[k]] = Redone(f.rows, ks, FALSE)
    <3>1. \A k \in DOMAIN f.rows :
             [Restored(f.rows[k], k) EXCEPT !.deleted = FALSE] = Restored(f.rows[k], k)
      <4>1. TAKE k \in DOMAIN f.rows
      <4>2. /\ Restored(f.rows[k], k) \in Row
            /\ Restored(f.rows[k], k).deleted = FALSE
        BY <1>1, RowsShape, RestoredShape DEF Row
      <4> QED
        BY <4>2 DEF Row
    <3> QED
      BY <2>1, <3>1 DEF Redone
  <2> QED
    BY <2>2 DEF ResetRows, RemovedTo
<1>3. Redone(f.rows, ks, FALSE) \in AnyRows
  BY <1>1, RedoneShape
<1>4. Shaped(h) /\ CanAct(h) /\ h.rows = Redone(f.rows, ks, FALSE)
  <2> DEFINE new == Redone(f.rows, ks, FALSE)
  <2>1. new \in AnyRows /\ DOMAIN new = DOMAIN f.rows \ (ks \cap Appended)
    BY <1>1, RedoneShape
  <2> HIDE DEF new
  <2>2. /\ Shaped(RemovedTo(f, ks, new)) /\ CanAct(RemovedTo(f, ks, new))
        /\ RemovedTo(f, ks, new).rows = new
    BY <2>1, RemovedKeeps
  <2> QED
    BY <2>2 DEF new
<1> HIDE DEF h
<1>5. /\ Shaped(DisableIfNone(h)) /\ CanAct(DisableIfNone(h))
      /\ DisableIfNone(h).rows = h.rows
  BY <1>4, DisableKeeps DEF SameRows
<1>6. \E g : Shaped(g) /\ CanAct(g) /\ g.rows = h.rows
             /\ ResetRows(f, ks) = ShowToolTipIfSomeInvalid(g)
  BY <1>2, <1>4, <1>5
<1> QED
  BY <1>4, <1>6, TooltipKeeps DEF SameRows

LEMMA DeleteKeeps ==
  ASSUME NEW f, Shaped(f), CanAct(f), NEW ks, ks \subseteq DOMAIN f.rows,
         stored \in Tables
  PROVE  LET g == DeleteRows(f, ks)
         IN  Shaped(g) /\ CanAct(g) /\ Savable(g) /\ g.rows = Redone(f.rows, ks, TRUE)
<1> DEFINE h == DeletedTo(f, ks, Redone(f.rows, ks, TRUE))
<1>1. f.rows \in AnyRows
  BY DEF Shaped, Form
<1>2. Redone(f.rows, ks, TRUE) \in AnyRows
  BY <1>1, RedoneShape
<1>3. Shaped(h) /\ CanAct(h) /\ h.rows = Redone(f.rows, ks, TRUE)
  <2> DEFINE new == Redone(f.rows, ks, TRUE)
  <2>1. new \in AnyRows /\ DOMAIN new = DOMAIN f.rows \ (ks \cap Appended)
    BY <1>1, RedoneShape
  <2> HIDE DEF new
  <2>2. /\ Shaped(DeletedTo(f, ks, new)) /\ CanAct(DeletedTo(f, ks, new))
        /\ DeletedTo(f, ks, new).rows = new
    BY <2>1, RemovedKeeps
  <2> QED
    BY <2>2 DEF new
<1>4. DeleteRows(f, ks) = ShowToolTipIfSomeInvalid(DisableIfNone(h))
  <2> DEFINE g == [Removed(f, ks) EXCEPT
                      !.rows = [k \in DOMAIN @ |->
                                   IF k \in ks THEN [Restored(@[k], k) EXCEPT !.deleted = TRUE]
                                   ELSE @[k]],
                      !.enabled = IF f.selected \cap ks = {} THEN @ ELSE @ \ {"edit"}]
  <2>1. DeleteRows(f, ks) = ShowToolTipIfSomeInvalid(DisableIfNone(g))
    BY DEF DeleteRows
  <2>2. g = h
    BY DEF DeletedTo, Redone, Removed, Without, Restrict
  <2> QED
    BY <2>1, <2>2
<1> HIDE DEF h
<1>5. /\ Shaped(DisableIfNone(h)) /\ CanAct(DisableIfNone(h))
      /\ DisableIfNone(h).rows = h.rows
  BY <1>3, DisableKeeps DEF SameRows
<1> QED
  BY <1>3, <1>4, <1>5, TooltipKeeps DEF SameRows
-----------------------------------------------------------------------------
(* Editing.                                                                  *)

\* A row after some of its cells were left: what differs is marked.
Retouched(new, old) ==
    /\ new \in Row /\ new.deleted = old.deleted
    /\ old.changed \subseteq new.changed
    /\ \A c \in Cells : c \notin new.changed => new.text[c] = old.text[c]

LEMMA TextShape ==
  ASSUME NEW row \in Row, NEW c \in Cells, NEW v, \E text \in Texts : v = text[c]
  PROVE  /\ [row.text EXCEPT ![c] = v] \in Texts
         /\ \A d \in Cells \ {c} : [row.text EXCEPT ![c] = v][d] = row.text[d]
<1>1. row.text \in Texts
  BY DEF Row
<1>2. CASE c = "dev"
  <2>1. v \in Devs \cup {Invalid, Blank, NoText}
    BY <1>2 DEF Texts
  <2> QED
    BY <1>1, <1>2, <2>1 DEF Texts, Cells
<1>3. CASE c = "owner"
  <2>1. v \in Owners \cup {NoText}
    BY <1>3 DEF Texts
  <2> QED
    BY <1>1, <1>3, <2>1 DEF Texts, Cells
<1> QED
  BY <1>2, <1>3 DEF Cells

LEMMA LeftIsMarked ==
  ASSUME NEW row \in Row, NEW new \in BOOLEAN, NEW c \in Cells, NEW v,
         \E text \in Texts : v = text[c], NEW cancelled \in BOOLEAN
  PROVE  Retouched(Left(row, new, c, v, cancelled), row)
<1>1. Retouched(row, row)
  BY DEF Retouched
<1>2. ASSUME NEW bad \in SUBSET Cells
      PROVE  Retouched([row EXCEPT !.text[c] = v, !.changed = @ \cup {c}, !.bad = bad], row)
  <2> DEFINE text == [row.text EXCEPT ![c] = v]
             r    == [row EXCEPT !.text = text, !.changed = @ \cup {c}, !.bad = bad]
  <2>1. [row EXCEPT !.text[c] = v, !.changed = @ \cup {c}, !.bad = bad] = r
    BY DEF Row
  <2>2. text \in Texts /\ \A d \in Cells \ {c} : text[d] = row.text[d]
    BY TextShape
  <2> HIDE DEF text
  <2>3. /\ r \in Row /\ r.deleted = row.deleted /\ r.text = text
        /\ r.changed = row.changed \cup {c}
    BY <2>2 DEF Row
  <2> QED
    BY <2>1, <2>2, <2>3 DEF Retouched
<1>3. row.bad \cup {c} \in SUBSET Cells /\ row.bad \ {c} \in SUBSET Cells
  BY DEF Row
<1>4. /\ Retouched([row EXCEPT !.text[c] = v, !.changed = @ \cup {c},
                               !.bad = row.bad \cup {c}], row)
      /\ Retouched([row EXCEPT !.text[c] = v, !.changed = @ \cup {c},
                               !.bad = row.bad \ {c}], row)
  BY <1>2, <1>3
<1>5. Retouched(Marked(row, c, v), row)
  BY <1>4 DEF Marked
<1>6. v = NoText =>
        Retouched([row EXCEPT !.text[c] = NoText, !.changed = @ \cup {c},
                              !.bad = @ \cup {c}], row)
  BY <1>4
<1> QED
  BY <1>1, <1>5, <1>6 DEF Left

LEMMA RetouchedTwice ==
  ASSUME NEW a, NEW b, NEW c, Retouched(a, b), Retouched(b, c)
  PROVE  Retouched(a, c)
BY DEF Retouched

LEMMA RetouchedRows ==
  ASSUME NEW rows \in AnyRows, NEW k \in DOMAIN rows, NEW new, Retouched(new, rows[k]),
         stored \in Tables
  PROVE  LET g == [rows EXCEPT ![k] = new]
         IN  /\ g \in AnyRows /\ DOMAIN g = DOMAIN rows
             /\ Truthful(rows, stored) => Truthful(g, stored)
<1> DEFINE g == [rows EXCEPT ![k] = new]
<1>1. DOMAIN rows \subseteq Keys /\ rows \in [DOMAIN rows -> Row]
  BY RowsShape
<1>2. /\ DOMAIN g = DOMAIN rows /\ g[k] = new
      /\ \A i \in DOMAIN rows : i # k => g[i] = rows[i]
  OBVIOUS
<1>3. g \in [DOMAIN rows -> Row]
  BY <1>1 DEF Retouched
<1> HIDE DEF g
<1>4. g \in AnyRows
  BY <1>1, <1>2, <1>3, RowsShape
<1>5. ASSUME Truthful(rows, stored) PROVE Truthful(g, stored)
  <2>1. ASSUME NEW i \in DOMAIN stored, NEW c \in Cells, c \notin g[i].changed
        PROVE  g[i].text[c] = stored[i][c]
    <3>1. i \in DOMAIN rows
      BY <1>5 DEF Truthful
    <3>2. CASE i = k
      BY <1>2, <1>5, <2>1, <3>2 DEF Truthful, Retouched
    <3>3. CASE i # k
      BY <1>2, <1>5, <2>1, <3>1, <3>3 DEF Truthful
    <3> QED
      BY <3>2, <3>3
  <2>2. ASSUME NEW i \in DOMAIN g \cap Appended
        PROVE  ~g[i].deleted /\ (g[i].changed = {} => g[i].text.owner = NoText)
    <3>1. CASE i = k
      <4>1. ~rows[k].deleted /\ (rows[k].changed = {} => rows[k].text.owner = NoText)
        BY <1>2, <1>5, <2>2, <3>1 DEF Truthful
      <4>2. ASSUME new.changed = {} PROVE new.text.owner = NoText
        <5>1. rows[k].changed = {} /\ "owner" \in Cells
          BY <4>2 DEF Retouched, Cells
        <5>2. new.text["owner"] = rows[k].text["owner"]
          BY <4>2, <5>1 DEF Retouched
        <5> QED
          BY <4>1, <5>1, <5>2
      <4> QED
        BY <1>2, <3>1, <4>1, <4>2 DEF Retouched
    <3>2. CASE i # k
      BY <1>2, <1>5, <2>2, <3>2 DEF Truthful
    <3> QED
      BY <3>1, <3>2
  <2> QED
    BY <1>2, <1>5, <2>1, <2>2 DEF Truthful
<1> QED
  BY <1>2, <1>4, <1>5 DEF g
-----------------------------------------------------------------------------
(* The invariant.                                                            *)

\* A form that is in order can be saved; what is selected can be deleted.
InOrder(f, o) ==
    /\ Shaped(f) /\ CanAct(f)
    /\ o \subseteq (DOMAIN f.rows) \X Cells
    /\ Savable(f)

Others ==
    /\ loaded \in Tables /\ stored \in Tables /\ foreign \in BOOLEAN
    /\ sent = <<>> \/ \E m : sent = <<m>>
    /\ edits \in 0..MaxEdits /\ loads \in 0..MaxLoads

\* The marks tell the truth, unless another page has stored its own rules.
Honest == ~foreign => stored = loaded /\ Truthful(form.rows, loaded)

IInv == InOrder(form, open) /\ Others /\ Honest

LEMMA BoundsAreNaturals ==
  /\ MaxEdits \in Nat /\ MaxLoads \in Nat
  /\ \A n \in 0..MaxEdits : n < MaxEdits => n + 1 \in 0..MaxEdits
  /\ \A n \in 0..MaxLoads : n < MaxLoads => n + 1 \in 0..MaxLoads
BY FormAssumption

LEMMA OpenCells ==
  ASSUME NEW S, NEW k \in S, NEW c \in Cells
  PROVE  {<<k, c>>} \subseteq S \X Cells /\ {k} \X Cells \subseteq S \X Cells
OBVIOUS

LEMMA RowOfCell ==
  ASSUME NEW S, NEW T, NEW o \in S \X Cells
  PROVE  o[1] \in S /\ (o[1] \in T => o \in T \X Cells)
OBVIOUS

\* No inputs are left open in rows that are gone.
LEMMA LeftOpen ==
  ASSUME NEW S, open \subseteq S \X Cells, NEW rows
  PROVE  OpenIn(rows) \subseteq (DOMAIN rows) \X Cells
<1>1. ASSUME NEW o \in OpenIn(rows) PROVE o \in (DOMAIN rows) \X Cells
  <2>1. o \in S \X Cells /\ o[1] \in DOMAIN rows
    BY <1>1 DEF OpenIn
  <2> QED
    BY <2>1, RowOfCell
<1> QED
  BY <1>1

\* A form as it is when a table has been loaded.
LEMMA LoadedInOrder ==
  ASSUME NEW t \in Tables, NEW e \in SUBSET Buttons
  PROVE  InOrder([rows |-> Rows0(t), selected |-> {}, checked |-> {}, enabled |-> e], {})
<1> DEFINE f == [rows |-> Rows0(t), selected |-> {}, checked |-> {}, enabled |-> e]
<1>1. Rows0(t) \in AnyRows
  BY TableShape
<1>2. Shaped(f) /\ CanAct(f)
  BY <1>1 DEF Shaped, Form, CanAct
<1>3. ~SomethingChanged(Rows0(t))
  BY DEF SomethingChanged, Rows0, Fresh
<1>4. Savable(f)
  BY <1>3 DEF Savable
<1> QED
  BY <1>2, <1>4 DEF InOrder

LEMMA InitIInv ==
  ASSUME Init PROVE IInv
<1>1. loaded \in Tables /\ stored = loaded /\ {} \in SUBSET Buttons
  BY DEF Init
<1>2. InOrder(form, open)
  BY <1>1, LoadedInOrder DEF Init
<1>3. Others
  <2>1. 0 \in 0..MaxEdits /\ 0 \in 0..MaxLoads
    BY BoundsAreNaturals
  <2>2. edits = 0 /\ loads = 0 /\ sent = <<>> /\ foreign = FALSE
    BY DEF Init
  <2> QED
    BY <1>1, <2>1, <2>2 DEF Others
<1>4. Honest
  BY <1>1, TableShape DEF Init, Honest
<1> QED
  BY <1>2, <1>3, <1>4 DEF IInv

LEMMA LoadStep ==
  ASSUME IInv, Load \/ LoadElsewhere PROVE IInv'
<1>1. CASE Load
  <2>1. loaded' \in Tables /\ stored' = loaded' /\ form.enabled \in SUBSET Buttons
    BY <1>1 DEF Load, IInv, InOrder, Shaped, Form
  <2>2. InOrder(form', open')
    BY <1>1, <2>1, LoadedInOrder DEF Load
  <2>3. Others'
    BY <1>1, <2>1, BoundsAreNaturals DEF Load, IInv, Others
  <2>4. Honest'
    BY <1>1, <2>1, TableShape DEF Load, Honest
  <2> QED
    BY <2>2, <2>3, <2>4 DEF IInv
<1>2. CASE LoadElsewhere
  <2>1. Others' /\ foreign' = TRUE /\ UNCHANGED <<form, open>>
    BY <1>2, BoundsAreNaturals DEF LoadElsewhere, IInv, Others
  <2> QED
    BY <2>1 DEF IInv, Honest
<1> QED
  BY <1>1, <1>2

\* A step of the page that leaves the form in order and the marks truthful.
LEMMA PageKeeps ==
  ASSUME IInv, Page, edits' \in 0..MaxEdits,
         InOrder(form', open'),
         Truthful(form.rows, stored) => Truthful(form'.rows, stored)
  PROVE  IInv'
<1>1. Others'
  BY DEF Page, IInv, Others
<1>2. Honest'
  BY DEF Page, IInv, Honest
<1> QED
  BY <1>1, <1>2 DEF IInv

\* The steps that leave the rows as they are.
LEMMA SelectedInOrder ==
  ASSUME NEW f, NEW o, InOrder(f, o), NEW k \in DOMAIN f.rows, NEW more,
         more \subseteq DOMAIN f.rows
  PROVE  LET g == RowSelect([f EXCEPT !.checked = more], k)
         IN  InOrder(g, o) /\ g.rows = f.rows
<1> DEFINE h == [f EXCEPT !.checked = more]
<1>1. f \in Form /\ more \subseteq Keys
  BY RowsShape DEF InOrder, Shaped, Form
<1>2. /\ h \in Form /\ h.rows = f.rows /\ h.selected = f.selected /\ h.checked = more
      /\ h.enabled = f.enabled
  BY <1>1 DEF Form
<1> HIDE DEF h
<1>3. Shaped(h)
  BY <1>2 DEF InOrder, Shaped
<1>4. LET g == RowSelect(h, k)
      IN  /\ Shaped(g) /\ CanAct(g) /\ g.rows = f.rows /\ f.enabled \subseteq g.enabled
  BY <1>2, <1>3, SelectKeeps
<1>5. InOrder(RowSelect(h, k), o)
  BY <1>4 DEF InOrder, Savable
<1> QED
  BY <1>4, <1>5 DEF h

\* A row gets inputs: the form stays in order, and Save is as it was.
LEMMA EditableInOrder ==
  ASSUME NEW f, Shaped(f), CanAct(f), Savable(f), open \subseteq (DOMAIN f.rows) \X Cells,
         NEW k \in DOMAIN f.rows, MakeTheRowEditable(f, k)
  PROVE  InOrder(form', open') /\ form'.rows = f.rows
<1>1. CASE Editing(k)
  BY <1>1 DEF MakeTheRowEditable, InOrder
<1>2. CASE ~Editing(k)
  <2>1. form' = Switched(f, {"edit"}, FALSE) /\ open' = OpenIn(f.rows) \cup {k} \X Cells
    BY <1>2 DEF MakeTheRowEditable
  <2>2. /\ Shaped(form') /\ SameRows(form', f)
        /\ form'.enabled = f.enabled \ {"edit"}
    BY <2>1, SwitchedKeeps, SaveIsButton
  <2>3. CanAct(form') /\ Savable(form')
    BY <2>2 DEF CanAct, Savable, SameRows
  <2>4. open' \subseteq (DOMAIN f.rows) \X Cells
    <3>1. OpenIn(f.rows) \subseteq (DOMAIN f.rows) \X Cells
      BY LeftOpen
    <3>2. {k} \X Cells \subseteq (DOMAIN f.rows) \X Cells
      OBVIOUS
    <3> QED
      BY <2>1, <3>1, <3>2
  <2> QED
    BY <2>2, <2>3, <2>4 DEF InOrder, SameRows
<1> QED
  BY <1>1, <1>2

LEMMA SelectStep ==
  ASSUME IInv,
         ToggleAll \/ Edit \/ (\E k \in DOMAIN form.rows :
             Click(k) \/ Toggle(k) \/ \E c \in Cells : DblClick(k, c))
  PROVE  IInv'
<1>1. /\ InOrder(form, open) /\ form \in Form /\ edits \in 0..MaxEdits
      /\ form.checked \subseteq DOMAIN form.rows /\ form.selected \subseteq DOMAIN form.rows
      /\ DOMAIN form.rows \subseteq Keys
  BY RowsShape DEF IInv, InOrder, Shaped, Form, Others
<1>2. ASSUME NEW k \in DOMAIN form.rows, Click(k) PROVE IInv'
  <2>1. PICK more : /\ more \subseteq DOMAIN form.rows
                    /\ form' = RowSelect([form EXCEPT !.checked = form.checked \cup more], k)
    BY <1>2 DEF Click
  <2>2. form.checked \cup more \subseteq DOMAIN form.rows
    BY <1>1, <2>1
  <2>3. InOrder(form', open) /\ form'.rows = form.rows
    BY <1>1, <2>1, <2>2, SelectedInOrder
  <2> QED
    BY <1>1, <1>2, <2>3, PageKeeps DEF Click
<1>3. ASSUME NEW k \in DOMAIN form.rows, Toggle(k) PROVE IInv'
  <2>1. PICK more : /\ more \subseteq DOMAIN form.rows
                    /\ form' = RowSelect([form EXCEPT !.checked = more], k)
    <3>1. /\ form.checked \ {k} \subseteq DOMAIN form.rows
          /\ form.checked \cup {k} \subseteq DOMAIN form.rows
      BY <1>1
    <3> QED
      BY <1>3, <3>1 DEF Toggle
  <2>2. InOrder(form', open) /\ form'.rows = form.rows
    BY <1>1, <2>1, SelectedInOrder
  <2> QED
    BY <1>1, <1>3, <2>2, PageKeeps DEF Toggle
<1>4. ASSUME NEW k \in DOMAIN form.rows, NEW c \in Cells, DblClick(k, c) PROVE IInv'
  <2>1. form' = RowSelect(form, k) /\ open' = open \cup {<<k, c>>}
    BY <1>4 DEF DblClick, OpenCell
  <2>2. Shaped(form') /\ CanAct(form') /\ Savable(form') /\ form'.rows = form.rows
    BY <1>1, <2>1, SelectKeeps DEF InOrder
  <2>3. InOrder(form', open')
    <3>1. open' \subseteq (DOMAIN form.rows) \X Cells
      BY <1>1, <2>1, OpenCells DEF InOrder
    <3> QED
      BY <2>2, <3>1 DEF InOrder
  <2> QED
    BY <1>1, <1>4, <2>2, <2>3, PageKeeps DEF DblClick
<1>5. CASE Edit
  <2>1. PICK k \in DOMAIN form.rows : MakeTheRowEditable(form, k)
    BY <1>1, <1>5 DEF Edit
  <2>2. InOrder(form', open') /\ form'.rows = form.rows
    BY <1>1, <2>1, EditableInOrder DEF InOrder
  <2> QED
    BY <1>1, <1>5, <2>2, PageKeeps DEF Edit
<1>6. CASE ToggleAll
  <2>1. open' = open /\ Page /\ edits' = edits
    BY <1>6 DEF ToggleAll
  <2>2. CASE form' = [Switched(form, {"delete", "reset"}, TRUE)
                      EXCEPT !.checked = DOMAIN form.rows]
    <3> DEFINE h == Switched(form, {"delete", "reset"}, TRUE)
    <3>1. /\ Shaped(h) /\ SameRows(h, form)
          /\ h.enabled = form.enabled \cup {"delete", "reset"}
      BY <1>1, SwitchedKeeps, SaveIsButton DEF InOrder
    <3>2. form' = [h EXCEPT !.checked = DOMAIN form.rows]
      BY <2>2
    <3> HIDE DEF h
    <3>3. /\ form' \in Form /\ form'.rows = form.rows /\ form'.selected = form.selected
          /\ form'.checked = DOMAIN form.rows
          /\ form'.enabled = form.enabled \cup {"delete", "reset"}
      BY <1>1, <3>1, <3>2 DEF Shaped, Form, SameRows
    <3>4. InOrder(form', open')
      BY <1>1, <2>1, <3>3 DEF InOrder, Shaped, CanAct, Savable
    <3> QED
      BY <1>1, <2>1, <3>3, <3>4, PageKeeps
  <2>3. CASE form' = DisableIfNone([form EXCEPT !.checked = {}])
    <3> DEFINE h == [form EXCEPT !.checked = {}]
    <3>1. /\ h \in Form /\ h.rows = form.rows /\ h.selected = form.selected
          /\ h.checked = {} /\ h.enabled = form.enabled
      BY <1>1 DEF Form
    <3>2. form' = DisableIfNone(h)
      BY <2>3
    <3> HIDE DEF h
    <3>3. Shaped(h) /\ CanAct(h)
      BY <1>1, <3>1 DEF InOrder, Shaped, CanAct
    <3>4. /\ Shaped(form') /\ CanAct(form') /\ form'.rows = form.rows
          /\ "save" \in form.enabled => "save" \in form'.enabled
      BY <3>1, <3>2, <3>3, DisableKeeps DEF SameRows
    <3>5. InOrder(form', open')
      BY <1>1, <2>1, <3>4 DEF InOrder, Savable
    <3> QED
      BY <1>1, <2>1, <3>4, <3>5, PageKeeps
  <2> QED
    BY <1>6, <2>2, <2>3 DEF ToggleAll
<1> QED
  BY <1>2, <1>3, <1>4, <1>5, <1>6

\* The focus leaves the inputs, or Escape closes them.
LEMMA CloseStep ==
  ASSUME IInv, CloseInputs PROVE IInv'
<1>1. /\ form \in Form /\ form.rows \in AnyRows /\ Shaped(form) /\ CanAct(form)
      /\ open \subseteq (DOMAIN form.rows) \X Cells /\ stored \in Tables
  BY DEF IInv, InOrder, Shaped, Form, Others
<1>2. PICK k \in {o[1] : o \in open}, text \in Texts, cancelled \in BOOLEAN :
         LET new  == k \in Appended
             row  == form.rows[k]
             dev  == IF <<k, "dev">> \in open
                     THEN Left(row, new, "dev", text.dev, cancelled) ELSE row
             both == IF <<k, "owner">> \in open
                     THEN Left(dev, new, "owner", text.owner, cancelled) ELSE dev
         IN  /\ form' = ShowToolTipIfSomeInvalid(
                           Switched([form EXCEPT !.rows[k] = both],
                                    IF Editing(k) THEN {"edit"} ELSE {}, TRUE))
             /\ open' = open \ {k} \X Cells
  <2>1. (IF Idle THEN {o[1] : o \in open} ELSE Single) \subseteq {o[1] : o \in open}
    BY DEF Single
  <2> QED
    BY <2>1 DEF CloseInputs
<1> DEFINE new  == k \in Appended
           row  == form.rows[k]
           dev  == IF <<k, "dev">> \in open
                   THEN Left(row, new, "dev", text.dev, cancelled) ELSE row
           both == IF <<k, "owner">> \in open
                   THEN Left(dev, new, "owner", text.owner, cancelled) ELSE dev
           rows == [form.rows EXCEPT ![k] = both]
           bs   == IF Editing(k) THEN {"edit"} ELSE {}
           f    == [form EXCEPT !.rows = rows]
<1>3. k \in DOMAIN form.rows /\ row \in Row
  <2>1. PICK o \in open : k = o[1]
    OBVIOUS
  <2>2. o \in (DOMAIN form.rows) \X Cells
    BY <1>1, <2>1
  <2>3. k \in DOMAIN form.rows
    BY <2>1, <2>2
  <2> QED
    BY <1>1, <2>3, RowsShape
<1>4. Retouched(both, row)
  <2>1. /\ "dev" \in Cells /\ "owner" \in Cells /\ new \in BOOLEAN
        /\ \E t \in Texts : text.dev = t["dev"]
        /\ \E t \in Texts : text.owner = t["owner"]
    BY DEF Cells
  <2> HIDE DEF row, new
  <2>2. Retouched(row, row)
    BY <1>3 DEF Retouched
  <2>3. Retouched(Left(row, new, "dev", text.dev, cancelled), row)
    BY <1>3, <2>1, LeftIsMarked
  <2>4. Retouched(dev, row) /\ dev \in Row
    BY <2>2, <2>3 DEF Retouched
  <2> HIDE DEF dev
  <2>5. Retouched(Left(dev, new, "owner", text.owner, cancelled), dev)
    BY <2>1, <2>4, LeftIsMarked
  <2> QED
    BY <2>4, <2>5, RetouchedTwice
<1>5. /\ rows \in AnyRows /\ DOMAIN rows = DOMAIN form.rows
      /\ Truthful(form.rows, stored) => Truthful(rows, stored)
  BY <1>1, <1>3, <1>4, RetouchedRows
<1>6. [form EXCEPT !.rows[k] = both] = f
  BY <1>1 DEF Form
<1>7. form' = ShowToolTipIfSomeInvalid(Switched(f, bs, TRUE))
  BY <1>2, <1>6
<1> HIDE DEF rows, bs, both
<1>8. /\ f \in Form /\ f.rows = rows /\ f.selected = form.selected
      /\ f.checked = form.checked /\ f.enabled = form.enabled
  BY <1>1, <1>5 DEF Form
<1> HIDE DEF f
<1>9. Shaped(f) /\ CanAct(f)
  BY <1>1, <1>5, <1>8 DEF Shaped, CanAct
<1>10. LET g == Switched(f, bs, TRUE)
       IN  Shaped(g) /\ SameRows(g, f) /\ g.enabled = f.enabled \cup bs
  <2>1. bs \in SUBSET Buttons
    BY SaveIsButton DEF bs
  <2> QED
    BY <1>9, <2>1, SwitchedKeeps
<1>11. CanAct(Switched(f, bs, TRUE))
  BY <1>9, <1>10 DEF CanAct, SameRows
<1>12. /\ Shaped(form') /\ CanAct(form') /\ Savable(form') /\ form'.rows = rows
  BY <1>7, <1>8, <1>10, <1>11, TooltipKeeps DEF SameRows
<1>13. InOrder(form', open')
  <2>1. open' \subseteq (DOMAIN form'.rows) \X Cells
    BY <1>1, <1>2, <1>5, <1>12
  <2> QED
    BY <1>12, <2>1 DEF InOrder
<1>14. edits' \in 0..MaxEdits
  BY BoundsAreNaturals DEF CloseInputs, IInv, Others
<1> QED
  BY <1>5, <1>12, <1>13, <1>14, PageKeeps DEF CloseInputs

\* An appended row has no mark and no owner.
LEMMA AppendKeeps ==
  ASSUME IInv, NEW dev, dev \in Devs \cup {NoText}, AppendRow(dev)
  PROVE  /\ InOrder(form', open')
         /\ Truthful(form.rows, stored) => Truthful(form'.rows, stored)
<1> DEFINE free == Appended \ DOMAIN form.rows
           k    == Min(free)
           row  == Fresh([dev |-> dev, owner |-> NoText])
           rows == [i \in DOMAIN form.rows \cup {k} |->
                       IF i = k THEN row ELSE form.rows[i]]
           f    == [form EXCEPT !.rows = rows]
<1>1. /\ form \in Form /\ form.rows \in AnyRows /\ Shaped(form) /\ CanAct(form)
      /\ stored \in Tables /\ Savable(form) /\ open \subseteq (DOMAIN form.rows) \X Cells
  BY DEF IInv, InOrder, Shaped, Form, Others
<1>2. k \in Appended /\ k \notin DOMAIN form.rows /\ k \in Keys
  <2>1. free # {} /\ free \subseteq Nat
    BY KeysAreNaturals DEF AppendRow
  <2>2. k \in free
    BY <2>1, MinOfIds
  <2> QED
    BY <2>2, KeysAreNaturals
<1>3. /\ row \in Row /\ ~row.deleted /\ row.changed = {} /\ row.text.owner = NoText
      /\ row.bad = {}
  BY DEF Fresh, Row, Texts
<1>4. MakeTheRowEditable(RowSelect(f, k), k)
  BY DEF AppendRow
<1> HIDE DEF k, row
<1>5. /\ DOMAIN rows = DOMAIN form.rows \cup {k} /\ rows[k] = row
      /\ \A i \in DOMAIN form.rows : rows[i] = form.rows[i]
  BY <1>2
<1>6. rows \in AnyRows
  <2>1. DOMAIN form.rows \subseteq Keys /\ form.rows \in [DOMAIN form.rows -> Row]
    BY <1>1, RowsShape
  <2>2. rows \in [DOMAIN form.rows \cup {k} -> Row]
    BY <1>3, <2>1
  <2> QED
    BY <1>2, <1>5, <2>1, <2>2, RowsShape
<1>7. ASSUME Truthful(form.rows, stored) PROVE Truthful(rows, stored)
  <2>1. DOMAIN stored \subseteq DOMAIN form.rows
    BY <1>7 DEF Truthful
  <2> HIDE DEF rows
  <2>2. DOMAIN rows \ Appended = DOMAIN stored
    BY <1>2, <1>5, <1>7 DEF Truthful
  <2>3. \A i \in DOMAIN stored, c \in Cells :
           c \notin rows[i].changed => rows[i].text[c] = stored[i][c]
    BY <1>5, <1>7, <2>1 DEF Truthful
  <2>4. \A i \in DOMAIN rows \cap Appended :
           /\ ~rows[i].deleted
           /\ rows[i].changed = {} => rows[i].text.owner = NoText
    BY <1>3, <1>5, <1>7 DEF Truthful
  <2> QED
    BY <2>2, <2>3, <2>4 DEF Truthful
<1> HIDE DEF rows
<1>8. /\ f \in Form /\ f.rows = rows /\ f.selected = form.selected
      /\ f.checked = form.checked /\ f.enabled = form.enabled
  BY <1>1, <1>6 DEF Form
<1> HIDE DEF f
<1>9. Shaped(f) /\ k \in DOMAIN f.rows
  BY <1>1, <1>5, <1>8 DEF Shaped
<1>10. Savable(f)
  <2>1. SomethingChanged(rows) => SomethingChanged(form.rows)
    BY <1>3, <1>5 DEF SomethingChanged
  <2>2. Live(form.rows) \subseteq Live(rows)
    BY <1>5 DEF Live
  <2>3. Duplicates(form.rows) \subseteq Duplicates(rows)
    <3>1. \A i \in Live(form.rows) : rows[i] = form.rows[i]
      BY <1>5 DEF Live
    <3> QED
      BY <2>2, <3>1 DEF Duplicates
  <2>4. IsClean(rows) => IsClean(form.rows)
    BY <1>5, <2>3 DEF IsClean
  <2> QED
    BY <1>1, <1>8, <2>1, <2>4 DEF Savable
<1>11. /\ Shaped(RowSelect(f, k)) /\ CanAct(RowSelect(f, k)) /\ Savable(RowSelect(f, k))
       /\ RowSelect(f, k).rows = rows
  BY <1>8, <1>9, <1>10, SelectKeeps
<1>12. open \subseteq (DOMAIN rows) \X Cells
  BY <1>1, <1>5
<1>13. InOrder(form', open') /\ form'.rows = rows
  BY <1>4, <1>8, <1>9, <1>11, <1>12, EditableInOrder
<1> QED
  BY <1>7, <1>13

LEMMA AppendStep ==
  ASSUME IInv, Add \/ \E dev \in Devs, owned \in BOOLEAN : CreateRuleForDevice(dev, owned)
  PROVE  IInv'
<1>1. /\ Shaped(form) /\ CanAct(form) /\ Savable(form) /\ form.rows \in AnyRows
      /\ open \subseteq (DOMAIN form.rows) \X Cells
      /\ stored \in Tables /\ edits \in 0..MaxEdits
  BY DEF IInv, InOrder, Shaped, Form, Others
<1>2. CASE Add
  BY <1>1, <1>2, AppendKeeps, PageKeeps DEF Add
<1>3. ASSUME NEW dev \in Devs, NEW owned \in BOOLEAN, CreateRuleForDevice(dev, owned)
      PROVE  IInv'
  <2> DEFINE mine == {k \in DOMAIN form.rows \cap Appended : form.rows[k].text.dev = dev}
  <2>1. Page /\ edits' = edits
    BY <1>3 DEF CreateRuleForDevice
  <2>2. ASSUME NEW k \in DOMAIN stored \cap DOMAIN form.rows,
               MakeTheRowEditable(RowSelect(ResetRows(form, {k}), k), k)
        PROVE  IInv'
    <3> DEFINE g == ResetRows(form, {k})
    <3>1. Shaped(g) /\ Savable(g) /\ g.rows = Redone(form.rows, {k}, FALSE)
      BY <1>1, ResetKeeps
    <3>2. /\ k \in DOMAIN g.rows /\ DOMAIN g.rows = DOMAIN form.rows
          /\ Truthful(form.rows, stored) => Truthful(g.rows, stored)
      <4>1. k \notin Appended /\ k \in DOMAIN form.rows
        BY <1>1, TableShape
      <4> DEFINE ks == {k}
      <4> HIDE DEF ks
      <4>2. /\ DOMAIN Redone(form.rows, ks, FALSE) = DOMAIN form.rows \ (ks \cap Appended)
            /\ Truthful(form.rows, stored) => Truthful(Redone(form.rows, ks, FALSE), stored)
        BY <1>1, RedoneShape
      <4> QED
        BY <3>1, <4>1, <4>2 DEF ks
    <3> HIDE DEF g
    <3>3. /\ Shaped(RowSelect(g, k)) /\ CanAct(RowSelect(g, k))
          /\ Savable(RowSelect(g, k)) /\ RowSelect(g, k).rows = g.rows
      BY <3>1, <3>2, SelectKeeps
    <3>4. MakeTheRowEditable(RowSelect(g, k), k)
      BY <2>2 DEF g
    <3>5. InOrder(form', open') /\ form'.rows = g.rows
      BY <1>1, <3>2, <3>3, <3>4, EditableInOrder
    <3> QED
      BY <1>1, <2>1, <3>2, <3>5, PageKeeps
  <2>3. ASSUME mine # {}, MakeTheRowEditable(RowSelect(form, Max(mine)), Max(mine))
        PROVE  IInv'
    <3>1. Max(mine) \in DOMAIN form.rows
      <4>1. mine \subseteq 0..(MaxRows + MaxAdded) /\ MaxRows + MaxAdded \in Nat
        BY FormAssumption DEF Appended, Keys
      <4> HIDE DEF mine
      <4>2. Max(mine) \in mine
        BY <2>3, <4>1, MaxOfBounded
      <4> QED
        BY <4>2 DEF mine
    <3> DEFINE k == Max(mine)
    <3> HIDE DEF k
    <3>2. k \in DOMAIN form.rows /\ MakeTheRowEditable(RowSelect(form, k), k)
      BY <2>3, <3>1 DEF k
    <3>3. /\ Shaped(RowSelect(form, k)) /\ CanAct(RowSelect(form, k))
          /\ Savable(RowSelect(form, k)) /\ RowSelect(form, k).rows = form.rows
      BY <1>1, <3>2, SelectKeeps
    <3>4. InOrder(form', open') /\ form'.rows = form.rows
      BY <1>1, <3>2, <3>3, EditableInOrder
    <3> QED
      BY <1>1, <2>1, <3>4, PageKeeps
  <2>4. ASSUME AppendRow(dev) PROVE IInv'
    BY <1>1, <2>1, <2>4, AppendKeeps, PageKeeps
  <2> QED
    BY <1>3, <2>2, <2>3, <2>4 DEF CreateRuleForDevice
<1> QED
  BY <1>2, <1>3

LEMMA TargetsAreRows ==
  ASSUME IInv PROVE Targets(form) \subseteq DOMAIN form.rows
BY DEF IInv, InOrder, Shaped, Targets

LEMMA DeleteStep ==
  ASSUME IInv, Delete PROVE IInv'
<1>1. /\ Shaped(form) /\ CanAct(form) /\ form.rows \in AnyRows
      /\ open \subseteq (DOMAIN form.rows) \X Cells
      /\ Savable(form)
      /\ stored \in Tables /\ edits \in 0..MaxEdits
  BY DEF IInv, InOrder, Shaped, Form, Others
<1>2. open' = OpenIn(form'.rows) /\ Page /\ edits' = edits
  BY DEF Delete
<1>3. open' \subseteq (DOMAIN form'.rows) \X Cells
  BY <1>1, <1>2, LeftOpen
<1>4. CASE Targets(form) = {}
  <2>1. form' = form
    BY <1>4 DEF Delete
  <2>3. InOrder(form', open')
    BY <1>1, <1>3, <2>1 DEF InOrder
  <2> QED
    BY <1>1, <1>2, <2>1, <2>3, PageKeeps
<1>5. CASE Targets(form) # {}
  <2> DEFINE ks == Targets(form)
  <2>1. form' = DeleteRows(form, ks) /\ ks \subseteq DOMAIN form.rows
    BY <1>5, TargetsAreRows DEF Delete
  <2> HIDE DEF ks
  <2>2. /\ Shaped(form') /\ CanAct(form') /\ Savable(form')
        /\ form'.rows = Redone(form.rows, ks, TRUE)
    BY <1>1, <2>1, DeleteKeeps
  <2>3. InOrder(form', open')
    BY <1>3, <2>2 DEF InOrder
  <2>4. Truthful(form.rows, stored) => Truthful(form'.rows, stored)
    BY <1>1, <2>2, RedoneShape
  <2> QED
    BY <1>1, <1>2, <2>3, <2>4, PageKeeps
<1> QED
  BY <1>4, <1>5

LEMMA ResetStep ==
  ASSUME IInv, Reset PROVE IInv'
<1> DEFINE ks == Targets(form)
           g  == ResetRows(form, ks)
<1>1. /\ Shaped(form) /\ CanAct(form) /\ form.rows \in AnyRows
      /\ open \subseteq (DOMAIN form.rows) \X Cells
      /\ stored \in Tables /\ edits \in 0..MaxEdits
  BY DEF IInv, InOrder, Shaped, Form, Others
<1>2. /\ form' = ShowSaveButtonIfSomethigChaged(g) /\ open' = OpenIn(form'.rows)
      /\ Page /\ edits' = edits /\ ks \subseteq DOMAIN form.rows
  BY TargetsAreRows DEF Reset
<1> HIDE DEF ks
<1>3. Shaped(g) /\ CanAct(g) /\ g.rows = Redone(form.rows, ks, FALSE)
  BY <1>1, <1>2, ResetKeeps
<1> HIDE DEF g
<1>4. Shaped(form') /\ CanAct(form') /\ Savable(form') /\ form'.rows = g.rows
  BY <1>2, <1>3, SaveButtonKeeps DEF SameRows
<1>5. InOrder(form', open')
  BY <1>1, <1>2, <1>4, LeftOpen DEF InOrder
<1>6. Truthful(form.rows, stored) => Truthful(form'.rows, stored)
  BY <1>1, <1>3, <1>4, RedoneShape
<1> QED
  BY <1>1, <1>2, <1>5, <1>6, PageKeeps

LEMMA SaveStep ==
  ASSUME IInv, SaveRules PROVE IInv'
<1>1. /\ open' = open /\ UNCHANGED <<stored, loaded, foreign, edits, loads>>
      /\ sent' = <<>> \/ \E m : sent' = <<m>>
  BY DEF SaveRules
<1>2. Others'
  BY <1>1 DEF IInv, Others
<1>3. Shaped(form) /\ CanAct(form) /\ Savable(form)
  BY <1>1 DEF IInv, InOrder
<1>4. Shaped(form') /\ CanAct(form') /\ Savable(form') /\ form'.rows = form.rows
  <2>1. form' = form \/ form' = ShowToolTipIfSomeInvalid(form)
    BY DEF SaveRules
  <2> QED
    BY <1>3, <2>1, TooltipKeeps DEF SameRows
<1>5. InOrder(form', open')
  BY <1>1, <1>4 DEF IInv, InOrder
<1>6. Honest'
  BY <1>1, <1>4 DEF IInv, Honest
<1> QED
  BY <1>2, <1>5, <1>6 DEF IInv
-----------------------------------------------------------------------------
\* The invariant holds initially and every step keeps it.
THEOREM FormInvariance == Spec => []IInv
<1>1. Init => IInv
  BY InitIInv
<1>2. IInv /\ [Next]_vars => IInv'
  <2>1. SUFFICES ASSUME IInv, [Next]_vars PROVE IInv'
    OBVIOUS
  <2>2. CASE UNCHANGED vars
    BY <2>1, <2>2 DEF vars, IInv, InOrder, Others, Honest
  <2> QED
    BY <2>1, <2>2, LoadStep, SelectStep, CloseStep, AppendStep, DeleteStep, ResetStep,
       SaveStep DEF Next
<1> QED
  BY <1>1, <1>2, PTL DEF Spec

\* Rows, selection, buttons, open cells and stored rules keep their types.
THEOREM FormTypes == Spec => []TypeOK
<1>1. IInv => TypeOK
  <2>1. SUFFICES ASSUME IInv PROVE TypeOK
    OBVIOUS
  <2>2. /\ DOMAIN form.rows \subseteq Keys /\ form.rows \in [DOMAIN form.rows -> Row]
        /\ form.enabled \subseteq Buttons
    BY <2>1, RowsShape DEF IInv, InOrder, Shaped, Form
  <2>3. Len(sent) <= 1
    <3>1. CASE sent = <<>>
      BY <3>1
    <3>2. ASSUME NEW m, sent = <<m>> PROVE Len(sent) <= 1
      BY <3>2
    <3> QED
      BY <2>1, <3>1, <3>2 DEF IInv, Others
  <2> QED
    BY <2>1, <2>2, <2>3 DEF IInv, InOrder, Shaped, Others, TypeOK
<1> QED
  BY <1>1, FormInvariance, PTL

\* A form that is in order can be saved, by whatever clicks and keys it came
\* about.
THEOREM ChangesAreSavable == Spec => []ChangesCanBeSaved
<1>1. IInv => ChangesCanBeSaved
  BY DEF IInv, InOrder, Savable, ChangesCanBeSaved
<1> QED
  BY <1>1, FormInvariance, PTL

\* The buttons Delete and Reset are there for every selected or checked row.
THEOREM SelectedAct == Spec => []SelectedCanAct
<1>1. IInv => SelectedCanAct
  BY DEF IInv, InOrder, CanAct, SelectedCanAct
<1> QED
  BY <1>1, FormInvariance, PTL
-----------------------------------------------------------------------------
(* What Save sends.                                                          *)

LEMMA OnlySaveSends ==
  ASSUME [Next]_vars, Sends, ~UNCHANGED vars
  PROVE  /\ SaveRules /\ sent' = <<Message(form.rows)>>
         /\ Duplicates(form.rows) = {}
<1>1. SaveRules
  BY DEF Next, Sends, Load, LoadElsewhere, ToggleAll, Edit, CloseInputs, Add, Delete,
     Reset, Click, Toggle, DblClick, CreateRuleForDevice, Page
<1> QED
  BY <1>1 DEF SaveRules, Sends

LEMMA TextIsFunction ==
  ASSUME NEW t \in Texts PROVE t = [c \in Cells |-> t[c]]
BY DEF Texts, Cells

\* A rule changed by the marked cells of its row is the text of the row.
LEMMA MergedIsText ==
  ASSUME NEW row \in Row, NEW rule,
         \A c \in Cells : c \notin row.changed => row.text[c] = rule[c],
         NEW change,
         change = [c \in Cells |-> IF c \in row.changed THEN row.text[c] ELSE Same]
  PROVE  Merged(rule, change) = row.text
<1>1. row.text \in Texts
  BY DEF Row
<1>2. \A c \in Cells : row.text[c] # Same
  BY <1>1, FormAssumption DEF Texts, Cells
<1>3. \A c \in Cells : (IF change[c] = Same THEN rule[c] ELSE change[c]) = row.text[c]
  BY <1>2
<1>4. Merged(rule, change) = [c \in Cells |-> row.text[c]]
  BY <1>3 DEF Merged
<1> QED
  BY <1>1, <1>4, TextIsFunction

Shown(rows, t) ==
    [k \in Live(rows) \ Appended |-> IF Complete(rows[k]) THEN rows[k].text ELSE t[k]]

NewTexts(rows) == {rows[k].text : k \in {j \in DOMAIN rows \cap Appended : Complete(rows[j])}}

LEMMA MessageIsShown ==
  ASSUME NEW rows \in AnyRows, NEW t \in Tables, Truthful(rows, t)
  PROVE  /\ Outcome(t, Message(rows)) = Shown(rows, t)
         /\ Message(rows).created = NewTexts(rows)
<1> DEFINE m == Message(rows)
<1>1. DOMAIN rows \subseteq Keys /\ rows \in [DOMAIN rows -> Row]
  BY RowsShape
<1>2. DOMAIN rows \ Appended = DOMAIN t
  BY DEF Truthful
<1>3. /\ m.deleted = DOMAIN rows \ Live(rows) /\ DOMAIN m.updated = Updated(rows)
      /\ \A k \in Updated(rows) :
            m.updated[k] = [c \in Cells |-> IF c \in rows[k].changed THEN rows[k].text[c]
                                            ELSE Same]
      /\ m.created = {rows[k].text : k \in {j \in DOMAIN rows \cap Appended :
                          rows[j].changed # {} /\ Complete(rows[j])}}
  BY DEF Message
<1> HIDE DEF m
<1>4. Live(rows) \subseteq DOMAIN rows
  BY DEF Live
<1>5. DOMAIN t \ m.deleted = Live(rows) \ Appended
  BY <1>2, <1>3, <1>4
<1>6. ASSUME NEW k \in Live(rows) \ Appended
      PROVE  (IF k \in DOMAIN m.updated THEN Merged(t[k], m.updated[k]) ELSE t[k])
             = IF Complete(rows[k]) THEN rows[k].text ELSE t[k]
  <2>1. /\ k \in DOMAIN t /\ rows[k] \in Row
        /\ \A c \in Cells : c \notin rows[k].changed => rows[k].text[c] = t[k][c]
    BY <1>1, <1>2, <1>4 DEF Truthful
  <2>2. CASE k \in Updated(rows)
    <3>1. Merged(t[k], m.updated[k]) = rows[k].text
      <4> DEFINE row    == rows[k]
                 change == m.updated[k]
      <4>1. change = [c \in Cells |-> IF c \in row.changed THEN row.text[c] ELSE Same]
        BY <1>3, <2>2
      <4>2. row \in Row /\ \A c \in Cells : c \notin row.changed => row.text[c] = t[k][c]
        BY <2>1
      <4> HIDE DEF row, change
      <4> QED
        <5>1. Merged(t[k], change) = row.text
          BY <4>1, <4>2, MergedIsText
        <5> QED
          BY <5>1 DEF row, change
    <3> QED
      BY <1>3, <2>2, <3>1 DEF Updated
  <2>3. CASE k \notin Updated(rows) /\ Complete(rows[k])
    <3>1. rows[k].changed = {}
      BY <2>3 DEF Updated
    <3>2. \A c \in Cells : rows[k].text[c] = t[k][c]
      BY <2>1, <3>1
    <3>3. rows[k].text \in Texts /\ t[k] \in Texts
      BY <2>1, TableShape DEF Row, Rule, Texts
    <3>4. rows[k].text = t[k]
      BY <3>2, <3>3, TextIsFunction
    <3> QED
      BY <1>3, <2>3, <3>4
  <2>4. CASE k \notin Updated(rows) /\ ~Complete(rows[k])
    BY <1>3, <2>4
  <2> QED
    BY <2>2, <2>3, <2>4
<1>7. Outcome(t, m) = Shown(rows, t)
  BY <1>5, <1>6 DEF Outcome, Shown
<1>8. \A j \in DOMAIN rows \cap Appended : Complete(rows[j]) => rows[j].changed # {}
  BY DEF Truthful, Complete
<1>9. m.created = NewTexts(rows)
  BY <1>3, <1>8 DEF NewTexts
<1> QED
  BY <1>7, <1>9 DEF m

\* What is sent turns the rules that were loaded into the rows on display.
THEOREM SentRowsAreShown == Spec => SentIsShown
<1> DEFINE Told ==
      Sends /\ ~foreign =>
          LET rows == form.rows
          IN  /\ Outcome(loaded, sent'[1]) =
                    [k \in Live(rows) \ Appended |->
                        IF Complete(rows[k]) THEN rows[k].text ELSE loaded[k]]
              /\ sent'[1].created = {rows[k].text : k \in
                    {j \in DOMAIN rows \cap Appended : Complete(rows[j])}}
<1>1. ASSUME IInv, [Next]_vars PROVE Told \/ UNCHANGED vars
  <2>1. SUFFICES ASSUME Sends, ~foreign, ~UNCHANGED vars PROVE Told
    OBVIOUS
  <2>2. sent' = <<Message(form.rows)>>
    BY <1>1, <2>1, OnlySaveSends
  <2>3. form.rows \in AnyRows /\ loaded \in Tables /\ Truthful(form.rows, loaded)
    BY <1>1, <2>1 DEF IInv, InOrder, Shaped, Form, Others, Honest
  <2> QED
    BY <2>2, <2>3, MessageIsShown DEF Shown, NewTexts
<1> QED
  BY <1>1, FormInvariance, PTL DEF Spec, SentIsShown

\* Two rules of one device do not come out of complete rows: what was typed,
\* created, reset and deleted is checked as a whole before it is sent.
THEOREM CompleteRowsStayUnique == Spec => CompleteRowsAreUnique
<1> DEFINE Alone ==
      Sends /\ ~foreign /\ (\A k \in DOMAIN form.rows : Complete(form.rows[k]))
          => NoTwoRules(Outcome(loaded, sent'[1]), sent'[1].created)
<1>1. ASSUME IInv, [Next]_vars PROVE Alone \/ UNCHANGED vars
  <2>1. SUFFICES ASSUME Sends, ~foreign, ~UNCHANGED vars,
                        \A k \in DOMAIN form.rows : Complete(form.rows[k])
                 PROVE  NoTwoRules(Outcome(loaded, sent'[1]), sent'[1].created)
    OBVIOUS
  <2> DEFINE rows == form.rows
  <2>2. sent' = <<Message(rows)>> /\ Duplicates(rows) = {}
    BY <1>1, <2>1, OnlySaveSends
  <2>3. rows \in AnyRows /\ loaded \in Tables /\ Truthful(rows, loaded)
    BY <1>1, <2>1 DEF IInv, InOrder, Shaped, Form, Others, Honest
  <2> HIDE DEF rows
  <2>4. \A j, k \in Live(rows) : rows[j].text.dev = rows[k].text.dev => j = k
    BY <2>2 DEF Duplicates
  <2>5. /\ Live(rows) \subseteq DOMAIN rows
        /\ DOMAIN rows \cap Appended \subseteq Live(rows)
    BY <2>3 DEF Live, Truthful
  <2>6. /\ DOMAIN Shown(rows, loaded) = Live(rows) \ Appended
        /\ \A k \in Live(rows) \ Appended : Shown(rows, loaded)[k] = rows[k].text
    BY <2>1, <2>5 DEF Shown, rows
  <2>7. \A r \in NewTexts(rows) : \E k \in Live(rows) \cap Appended : r = rows[k].text
    BY <2>5 DEF NewTexts
  <2>8. NoTwoRules(Shown(rows, loaded), NewTexts(rows))
    BY <2>4, <2>6, <2>7 DEF NoTwoRules
  <2>9. sent'[1] = Message(rows)
    BY <2>2
  <2> QED
    BY <2>3, <2>8, <2>9, MessageIsShown
<1> QED
  BY <1>1, FormInvariance, PTL DEF Spec, CompleteRowsAreUnique
=============================================================================
