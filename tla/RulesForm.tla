----------------------------- MODULE RulesForm -----------------------------
(***************************************************************************)
(* The table of rules of the web page while the administrator edits it.    *)
(*                                                                         *)
(* A cell is marked as changed or bad when the focus leaves it; Delete     *)
(* marks a row that was loaded and removes one that was appended; Reset    *)
(* takes the rule back from the local storage of the browser, which all    *)
(* pages share; Save sends what the marks say has changed.  The server may *)
(* load the table again at any time: the answer to Save and the switch of  *)
(* the service do.                                                         *)
(*                                                                         *)
(* The device of a rule stands for the cells vid, pid and serial, its      *)
(* owner for user and group.  Rows are named by the id of their rule; the  *)
(* ids from MaxRows on name rows that were appended.                       *)
(*                                                                         *)
(* The input of one cell closes when the focus leaves it.  The inputs of a *)
(* whole row close when the focus leaves the row, and its checkbox counts  *)
(* as part of it: once the focus has gone there they stay open, wherever   *)
(* it goes next, until it has come back to one of them and left again.     *)
(***************************************************************************)
EXTENDS Rows, Sequences

CONSTANTS
    Devs, Owners,
    Invalid,   \* a device with a vid or pid that is no number of four digits
    Blank,     \* a device with a serial of blanks: valid, trimmed to nothing
    NoText,    \* an empty cell
    Same,      \* a field that is not sent
    MaxRows,   \* bound: the rows of a table that is loaded
    MaxAdded,  \* bound: the rows that are appended at once
    MaxEdits,  \* bound: the times a cell or row is edited
    MaxLoads   \* bound: the tables loaded into this page or another

Cells == {"dev", "owner"}
Rule  == [dev : Devs, owner : Owners]
Texts == [dev : Devs \cup {Invalid, Blank, NoText}, owner : Owners \cup {NoText}]

ASSUME FormAssumption ==
    /\ {Invalid, Blank, NoText, Same} \cap (Devs \cup Owners) = {}
    /\ Invalid # Blank /\ NoText \notin {Invalid, Blank}
    /\ Same \notin {Invalid, Blank, NoText}
    /\ {MaxRows, MaxAdded, MaxEdits, MaxLoads} \subseteq Nat

VARIABLES
    form,    \* the rows, the selected and the checked ones, the buttons
    open,    \* the cells that hold an input
    stored,  \* rules_data of the local storage
    sent,    \* the message that the last step sent, if it sent one
    loaded,  \* history: the rules this page was loaded with
    foreign, \* history: another page has stored other rules since
    edits, loads

vars == <<form, open, stored, sent, loaded, foreign, edits, loads>>

Buttons    == {"save", "edit", "delete", "reset"}
Keys       == 0..(MaxRows + MaxAdded - 1)
Appended   == {k \in Keys : k >= MaxRows}
Row        == [text : Texts, changed : SUBSET Cells, bad : SUBSET Cells,
               deleted : BOOLEAN]
Fresh(r)   == [text |-> r, changed |-> {}, bad |-> {}, deleted |-> FALSE]
Live(rows) == {k \in DOMAIN rows : ~rows[k].deleted}

\* A rule without a blank field; only those are sent.
Complete(row) == row.text.dev \notin {Blank, NoText} /\ row.text.owner # NoText
----------------------------------------------------------------------------
(* The marks and the buttons. *)

\* CheckNoDublicateRows
Duplicates(rows) ==
    {k \in Live(rows) :
        \E j \in Live(rows) \ {k} : rows[j].text.dev = rows[k].text.dev}

IsClean(rows) == Duplicates(rows) = {} /\ \A k \in DOMAIN rows : rows[k].bad = {}

SomethingChanged(rows) ==
    \E k \in DOMAIN rows : rows[k].deleted \/ rows[k].changed # {}

Switched(f, buttons, on) ==
    [f EXCEPT !.enabled = IF on THEN @ \cup buttons ELSE @ \ buttons]

ShowSaveButtonIfSomethigChaged(f) ==
    Switched(f, {"save"}, SomethingChanged(f.rows))

ShowToolTipIfSomeInvalid(f) ==
    Switched(f, {"save"}, IsClean(f.rows) /\ SomethingChanged(f.rows))

\* Mutant of DisableIfNone: only the checkboxes count.
DisableIfNotChecked(f) ==
    IF f.checked # {} THEN f ELSE Switched(f, {"delete", "reset"}, FALSE)

\* DisableButtonDeleteResetIfNoRowsCkeckedOrSelected
DisableIfNone(f) ==
    IF f.selected \cup f.checked # {} THEN f
    ELSE Switched(f, {"delete", "reset"}, FALSE)

\* The class "editing": all cells of the row hold inputs.
Editing(k) == {k} \X Cells \subseteq open

RowSelect(f, k) ==
    [Switched(f, {"delete", "reset"} \cup
                 IF f.rows[k].deleted \/ Editing(k) THEN {} ELSE {"edit"}, TRUE)
     EXCEPT !.selected = {k}]

Targets(f) == IF f.checked # {} THEN f.checked ELSE f.selected
----------------------------------------------------------------------------
(* Reset and Delete. *)

\* Mutant of Restored: the marks go, the text stays.
RestoredMarks(row, k) ==
    [row EXCEPT !.changed = {}, !.bad = {}, !.deleted = FALSE]

\* ResetRow of a loaded row: a rule that is not in the local storage leaves
\* the text as it is, without its marks.
Restored(row, k) ==
    IF k \in DOMAIN stored THEN Fresh(stored[k])
    ELSE [row EXCEPT !.changed = {}, !.bad = {}, !.deleted = FALSE]

\* Mutant of Removed: the checkbox of a removed row still counts.
RemovedUnseen(f, ks) ==
    LET gone == ks \cap Appended
    IN  [f EXCEPT !.rows = Without(@, gone), !.selected = @ \ gone]

\* What is left of the form when the appended rows among ks are removed.
Removed(f, ks) ==
    LET gone == ks \cap Appended
    IN  [rows     |-> Without(f.rows, gone),
         selected |-> f.selected \ gone,
         checked  |-> f.checked \ ks,
         enabled  |-> f.enabled \ IF f.selected \cap gone = {} THEN {} ELSE {"edit"}]

\* Appended rows come last, so the buttons are looked at when all is reset.
ResetRows(f, ks) ==
    LET g == [Removed(f, ks) EXCEPT
                 !.rows = [k \in DOMAIN @ |-> IF k \in ks THEN Restored(@[k], k)
                                                        ELSE @[k]]]
    IN  ShowToolTipIfSomeInvalid(IF ks \cap Appended = {} THEN g ELSE DisableIfNone(g))

\* Mutant of DeleteRows: the state of Save is not looked at.
DeleteRowsQuietly(f, ks) ==
    LET g == [Removed(f, ks) EXCEPT
                 !.rows = [k \in DOMAIN @ |->
                              IF k \in ks THEN [Restored(@[k], k) EXCEPT !.deleted = TRUE]
                              ELSE @[k]]]
    IN  DisableIfNone(g)

DeleteRows(f, ks) ==
    LET g == [Removed(f, ks) EXCEPT
                 !.rows = [k \in DOMAIN @ |->
                              IF k \in ks THEN [Restored(@[k], k) EXCEPT !.deleted = TRUE]
                              ELSE @[k]],
                 !.enabled = IF f.selected \cap ks = {} THEN @ ELSE @ \ {"edit"}]
    IN  ShowToolTipIfSomeInvalid(DisableIfNone(g))
----------------------------------------------------------------------------
(* Editing. *)

\* ValidateVidPid, ValidateUser, ValidateGroup: the lists of users and groups
\* offer valid owners only.
Valid(v) == v # Invalid

\* SaveSelectValueToSpan: a new value, with its marks.
Marked(row, c, v) ==
    [row EXCEPT !.text[c] = v, !.changed = @ \cup {c},
                !.bad = IF Valid(v) THEN @ \ {c} ELSE @ \cup {c}]

\* SaveInputValueToSpan: v is left in the input of cell c.  An empty input is
\* a bad value in a row that was appended and no value in one that was loaded;
\* a list cannot be emptied.
Left(row, new, c, v, cancelled) ==
    IF v = NoText
    THEN IF new /\ (c = "dev" \/ row.text[c] = NoText)
         THEN [row EXCEPT !.text[c] = NoText, !.changed = @ \cup {c},
                          !.bad = @ \cup {c}]
         ELSE row
    ELSE IF cancelled \/ v = row.text[c] THEN row ELSE Marked(row, c, v)

\* Rows with the input of a single cell, which has the focus.
Single == {k \in {o[1] : o \in open} : ~Editing(k)}

\* The focus may be anywhere.
Idle == Single = {}

\* What is left open when rows were removed.
OpenIn(rows) == {o \in open : o[1] \in DOMAIN rows}

MakeTheRowEditable(f, k) ==
    IF Editing(k) THEN form' = f /\ UNCHANGED open
    ELSE /\ form' = Switched(f, {"edit"}, FALSE)
         /\ open' = OpenIn(f.rows) \cup {k} \X Cells

\* AppendRow
AppendRow(dev) ==
    LET free == Appended \ DOMAIN form.rows
        k    == Min(free)
        row  == Fresh([dev |-> dev, owner |-> NoText])
    IN  /\ free # {}
        /\ MakeTheRowEditable(
               RowSelect([form EXCEPT !.rows = [i \in DOMAIN @ \cup {k} |->
                                                   IF i = k THEN row ELSE @[i]]], k), k)
----------------------------------------------------------------------------
Tables == {t \in UNION {[0..(n - 1) -> Rule] : n \in 0..MaxRows} :
              \A i, j \in DOMAIN t : t[i].dev = t[j].dev => i = j}

Rows0(t) == [k \in DOMAIN t |-> Fresh(t[k])]

Init ==
    /\ loaded \in Tables /\ stored = loaded
    /\ form = [rows |-> Rows0(loaded), selected |-> {}, checked |-> {},
               enabled |-> {}]
    /\ open = {} /\ sent = <<>> /\ foreign = FALSE
    /\ edits = 0 /\ loads = 0

\* Mutant of Load: the local storage keeps the rules of the load before.
LoadUnstored ==
    /\ loads < MaxLoads /\ loads' = loads + 1
    /\ loaded' \in Tables
    /\ form' = [rows |-> Rows0(loaded'), selected |-> {}, checked |-> {},
                enabled |-> form.enabled]
    /\ open' = {} /\ foreign' = FALSE /\ sent' = <<>>
    /\ UNCHANGED <<stored, edits>>

\* UpdateRulesList: the rows are made anew, the buttons stay as they are.
Load ==
    /\ loads < MaxLoads /\ loads' = loads + 1
    /\ loaded' \in Tables /\ stored' = loaded'
    /\ form' = [rows |-> Rows0(loaded'), selected |-> {}, checked |-> {},
                enabled |-> form.enabled]
    /\ open' = {} /\ foreign' = FALSE /\ sent' = <<>>
    /\ UNCHANGED edits

\* UpdateRulesList of another page in the same browser.
LoadElsewhere ==
    /\ loads < MaxLoads /\ loads' = loads + 1
    /\ stored' \in Tables
    /\ foreign' = TRUE /\ sent' = <<>>
    /\ UNCHANGED <<form, open, loaded, edits>>

Page == sent' = <<>> /\ UNCHANGED <<stored, loaded, foreign, loads>>

\* OnRowClicked; with shift the rows up to the selected one are checked too,
\* with ctrl the row itself.
Click(k) ==
    /\ Idle
    /\ \E more \in {{}, {k}} \cup {{i \in DOMAIN form.rows :
                                     Min({s, k}) <= i /\ i <= Max({s, k})} :
                                  s \in form.selected} :
          form' = RowSelect([form EXCEPT !.checked = @ \cup more], k)
    /\ UNCHANGED <<open, edits>> /\ Page

\* A click on a checkbox is a click on its row as well: the row is selected,
\* and OnRowChecked finds no button to disable.
Toggle(k) ==
    /\ Idle
    /\ form' = RowSelect([form EXCEPT !.checked = IF k \in @ THEN @ \ {k}
                                                  ELSE @ \cup {k}], k)
    /\ UNCHANGED <<open, edits>> /\ Page

\* BindTableHeaderCheckbox, OnRowChecked
ToggleAll ==
    /\ Idle
    /\ \/ /\ DOMAIN form.rows # {}
          /\ form' = [Switched(form, {"delete", "reset"}, TRUE)
                      EXCEPT !.checked = DOMAIN form.rows]
       \/ form' = DisableIfNone([form EXCEPT !.checked = {}])
    /\ UNCHANGED <<open, edits>> /\ Page

\* BinEditRow
Edit ==
    /\ Idle /\ "edit" \in form.enabled
    /\ \E k \in form.selected \cap Live(form.rows) : MakeTheRowEditable(form, k)
    /\ UNCHANGED edits /\ Page

\* DblClickOnUserOrGroup.  An input fills its cell, and the clicks are its own.
OpenCell(k, c) ==
    /\ ~form.rows[k].deleted /\ <<k, c>> \notin open
    /\ open' = open \cup {<<k, c>>}

\* DblClickOnEditable: one cell gets an input; the clicks select the row.
DblClick(k, c) ==
    /\ Idle
    /\ OpenCell(k, c)
    /\ form' = RowSelect(form, k)
    /\ UNCHANGED edits /\ Page

\* BindRowFocusLost, BindRemoveInputOnFocusLost: the focus leaves the inputs of a
\* row, or Escape closes them.
CloseInputs ==
    /\ edits < MaxEdits /\ edits' = edits + 1
    /\ \E k \in IF Idle THEN {o[1] : o \in open} ELSE Single,
          text \in Texts, cancelled \in BOOLEAN :
          LET new  == k \in Appended
              row  == form.rows[k]
              dev  == IF <<k, "dev">> \in open
                      THEN Left(row, new, "dev", text.dev, cancelled) ELSE row
              both == IF <<k, "owner">> \in open
                      THEN Left(dev, new, "owner", text.owner, cancelled) ELSE dev
          IN  /\ form' = ShowToolTipIfSomeInvalid(
                            Switched([form EXCEPT !.rows[k] = both],
                                     IF Editing(k) THEN {"edit"} ELSE {}, TRUE))
              /\ open' = open \ {k} \X Cells
    /\ Page

\* The button "Add" and the key Insert.
Add ==
    /\ Idle
    /\ AppendRow(NoText)
    /\ UNCHANGED edits /\ Page

\* CreateRuleForDevice: a device the list shows as owned has a rule in the
\* local storage; another one may have a row that was appended.
CreateRuleForDevice(dev, owned) ==
    /\ Idle
    /\ LET mine == {k \in DOMAIN form.rows \cap Appended : form.rows[k].text.dev = dev}
       IN  \/ /\ owned
              /\ \E k \in DOMAIN stored \cap DOMAIN form.rows :
                    /\ stored[k].dev = dev
                    /\ MakeTheRowEditable(RowSelect(ResetRows(form, {k}), k), k)
           \/ /\ ~owned /\ mine # {}
              /\ MakeTheRowEditable(RowSelect(form, Max(mine)), Max(mine))
           \/ ~owned /\ mine = {} /\ AppendRow(dev)
    /\ UNCHANGED edits /\ Page

\* BindDeleteCheckedRows; the key finds the inputs of the row still open.
Delete ==
    /\ \/ Idle /\ "delete" \in form.enabled
       \/ form.selected # {}
    /\ form' = IF Targets(form) = {} THEN form ELSE DeleteRows(form, Targets(form))
    /\ open' = OpenIn(form'.rows)
    /\ UNCHANGED edits /\ Page

\* BindReset
Reset ==
    /\ Idle /\ "reset" \in form.enabled
    /\ form' = ShowSaveButtonIfSomethigChaged(ResetRows(form, Targets(form)))
    /\ open' = OpenIn(form'.rows)
    /\ UNCHANGED edits /\ Page
----------------------------------------------------------------------------
(* Save. *)

Updated(rows) == {k \in Live(rows) \ Appended :
                     rows[k].changed # {} /\ Complete(rows[k])}

Message(rows) ==
    [deleted |-> DOMAIN rows \ Live(rows),
     updated |-> [k \in Updated(rows) |->
                     [c \in Cells |-> IF c \in rows[k].changed THEN rows[k].text[c]
                                      ELSE Same]],
     created |-> {rows[k].text : k \in {j \in DOMAIN rows \cap Appended :
                                    rows[j].changed # {} /\ Complete(rows[j])}}]

\* Mutant of SaveRules: sent without a look at the rows.
SaveUnchecked ==
    /\ Idle /\ "save" \in form.enabled
    /\ sent' = <<Message(form.rows)>>
    /\ UNCHANGED <<form, open, stored, loaded, foreign, edits, loads>>

SaveRules ==
    /\ Idle /\ "save" \in form.enabled
    /\ IF Duplicates(form.rows) # {}
       THEN form' = ShowToolTipIfSomeInvalid(form) /\ sent' = <<>>
       ELSE sent' = <<Message(form.rows)>> /\ UNCHANGED form
    /\ UNCHANGED <<open, stored, loaded, foreign, edits, loads>>

Next ==
    \/ Load \/ LoadElsewhere \/ ToggleAll \/ Edit \/ CloseInputs \/ Add
    \/ Delete \/ Reset \/ SaveRules
    \/ \E k \in DOMAIN form.rows :
          Click(k) \/ Toggle(k) \/ \E c \in Cells : DblClick(k, c)
    \/ \E dev \in Devs, owned \in BOOLEAN : CreateRuleForDevice(dev, owned)

Spec == Init /\ [][Next]_vars
----------------------------------------------------------------------------
TypeOK ==
    /\ DOMAIN form.rows \subseteq Keys
    /\ form.rows \in [DOMAIN form.rows -> Row]
    /\ form.selected \cup form.checked \subseteq DOMAIN form.rows
    /\ form.enabled \subseteq Buttons
    /\ open \subseteq (DOMAIN form.rows) \X Cells
    /\ loaded \in Tables /\ stored \in Tables
    /\ foreign \in BOOLEAN /\ Len(sent) <= 1
    /\ edits \in 0..MaxEdits /\ loads \in 0..MaxLoads

\* What the rules that were loaded become by a message.
Merged(rule, change) == [c \in Cells |-> IF change[c] = Same THEN rule[c] ELSE change[c]]

Outcome(t, m) ==
    [k \in DOMAIN t \ m.deleted |->
        IF k \in DOMAIN m.updated THEN Merged(t[k], m.updated[k]) ELSE t[k]]

Sends == sent' # <<>>

\* The marks tell the truth: the differences Save sends turn the rules the
\* page was loaded with into the rows it shows, whatever was edited, reset,
\* deleted and created in between.  A row with an empty field is left out, and
\* a row whose inputs are still open counts with the text that they hide: what
\* has been typed into them is not sent.
SentIsShown ==
    [][Sends /\ ~foreign =>
          LET rows == form.rows
          IN  /\ Outcome(loaded, sent'[1]) =
                    [k \in Live(rows) \ Appended |->
                        IF Complete(rows[k]) THEN rows[k].text ELSE loaded[k]]
              /\ sent'[1].created = {rows[k].text : k \in
                    {j \in DOMAIN rows \cap Appended : Complete(rows[j])}}]_vars

NoTwoRules(t, new) ==
    /\ \A i, j \in DOMAIN t : t[i].dev = t[j].dev => i = j
    /\ \A i \in DOMAIN t, r \in new : t[i].dev # r.dev
    /\ \A r, s \in new : r.dev = s.dev => r = s

\* Rows without empty fields never leave two rules of one device.
CompleteRowsAreUnique ==
    [][Sends /\ ~foreign /\ (\A k \in DOMAIN form.rows : Complete(form.rows[k]))
          => NoTwoRules(Outcome(loaded, sent'[1]), sent'[1].created)]_vars

\* Nobody gets stuck with a form that is in order: what has changed can be
\* saved, also after other rows were reset, deleted or corrected, and while
\* inputs of another row are open.
ChangesCanBeSaved ==
    SomethingChanged(form.rows) /\ IsClean(form.rows)
    => "save" \in form.enabled

\* As long as a row is selected or checked it can be deleted and reset.
SelectedCanAct ==
    form.selected \cup form.checked # {} => {"delete", "reset"} \subseteq form.enabled
=============================================================================
