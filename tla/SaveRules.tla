----------------------------- MODULE SaveRules -----------------------------
(***************************************************************************)
(* How the rules get from a web page into the store permissions.           *)
(*                                                                         *)
(* A page shows the rules it was loaded with; the administrator edits the  *)
(* rows, and SaveRules of the page sends the differences as one D-Bus call *)
(* (deleted ids, changed fields of updated ids, created rules).  The       *)
(* daemon serves its calls one after the other in one thread: it opens a   *)
(* transaction, deletes, updates, creates, and writes the file.  Whatever  *)
(* happens, the answer is OK.  An exception on the way leaves the          *)
(* transaction open: its locks are kept, its changes stay in memory, and   *)
(* the next SaveRules waits for transaction_mutex_ for ever.               *)
(*                                                                         *)
(* A device stands for its vid, pid and serial, as they are trimmed before *)
(* they are sent; the cells of a row may hold a vid or pid that is no      *)
(* number, or nothing but blanks.  The users and groups come from files    *)
(* that others may change at any time; the page and each phase of the      *)
(* daemon read them anew.                                                  *)
(***************************************************************************)
EXTENDS Rows, Accounts, FiniteSets

CONSTANTS
    Clients,      \* the open web pages
    Devs,         \* what stands in the cells of a device
    BadDevs,      \* those with a vid or pid that is no number
    Blank,        \* one of the cells is empty
    Deleted,      \* a row marked as deleted
    Same,         \* a field that an update leaves as it is
    MaxRows,      \* bound: the rows of the store when all starts
    MaxSaves,     \* bound: the calls of SaveRules
    MaxEdits,     \* bound: the rows deleted, changed and new in one form
    MaxAccidents, \* bound: crashes, timeouts and failed writes
    MaxChanges    \* bound: the changes of the account files

Rule == [dev : Devs, user : Users \cup {Root}, group : Groups]
Line == [dev : Devs, user : Users \cup {NoUser}, group : Groups]
Row  == [dev : Devs \cup {Blank}, user : Users \cup {NoUser}, group : Groups]

ASSUME SaveAssumption ==
    /\ BadDevs \subseteq Devs /\ Blank \notin Devs
    /\ Deleted \notin Row
    /\ Same \notin Devs \cup Users \cup {Root, NoUser} \cup Groups
    /\ {MaxRows, MaxSaves, MaxEdits, MaxAccidents, MaxChanges} \subseteq Nat

VARIABLES
    rules,     \* data_ of permissions
    file,      \* the contents of its file
    open,      \* transaction_started_, with transaction_mutex_ held
    accounts,  \* the files with the users and groups
    pc,        \* where the D-Bus thread is
    todo,      \* what is left of the message it serves
    found,     \* the account files as UpdateRules and CreateRules found them
    calls,     \* calls of SaveRules, the one being served first
    status,    \* what each page is doing
    page,      \* the account files and the rules each page was loaded with
    committed, \* history: the rules after the last transaction
    fresh,     \* history: the call served was made from what is committed,
               \* or repeats the one that made it so
    done,      \* history: the last form that was committed, if it was fresh
    saves, accidents, changes

daemon == <<rules, file, open, pc, todo, found>>
pages  == <<status, page>>
past   == <<committed, fresh, done>>
bounds == <<saves, accidents, changes>>
vars   == <<daemon, accounts, calls, pages, past, bounds>>

Phases   == {"idle", "begin", "delete", "update", "create", "process", "reply"}
Statuses == {"away", "loading", "viewing", "waiting"}
----------------------------------------------------------------------------
(* The form.  page: the lines as they were loaded; want: the row that each  *)
(* of them has become; new: the rows that were appended; files: the account *)
(* files that the lists of users and groups were made from.                 *)

\* A rule as the page shows it.
Displayed(r) == [r EXCEPT !.user = AsShown(@)]
Lines(d)     == [i \in DOMAIN d |-> Displayed(d[i])]

Kept(f)  == {i \in DOMAIN f.want : f.want[i] # Deleted}
Shown(f) == {f.want[i] : i \in Kept(f)} \cup f.new

Complete(row) == row.dev # Blank
Whole(f)      == \A row \in Shown(f) : Complete(row)

\* CheckNoDublicateRows.  Rows with an empty cell may differ in the others.
NoDuplicateRows(f) ==
    /\ \A i, j \in Kept(f) :
          Complete(f.want[i]) /\ f.want[i].dev = f.want[j].dev => i = j
    /\ \A i \in Kept(f), r \in f.new :
          Complete(r) => f.want[i].dev # r.dev

Edited(f) == {i \in DOMAIN f.page : f.want[i] # f.page[i]}

\* CreateUserGroupSelect: a cell of a user or group keeps its text or takes one
\* that was offered.  What is typed into the cells of the device is marked when
\* it is bad, but a reset of another row lets it be sent all the same.
FormsOf(shown) ==
    LET offer == Offered[shown.files]
    IN  {f \in [page : {shown.lines}, files : {shown.files},
                want : [DOMAIN shown.lines -> Row \cup {Deleted}],
                new : {{}} \cup {{r} : r \in [dev : Devs \cup {Blank},
                                             user : offer.users,
                                             group : offer.groups]}] :
            /\ Cardinality(Edited(f)) + Cardinality(f.new) <= MaxEdits
            /\ NoDuplicateRows(f)
            /\ \A i \in Kept(f) :
                  /\ f.want[i].user \in offer.users \cup {f.page[i].user}
                  /\ f.want[i].group \in offer.groups \cup {f.page[i].group}}

Changed(old, new) == IF new = old THEN Same ELSE new

\* The rows that are sent as updated: all cells are filled, one has changed.
Altered(f) == {i \in Kept(f) \cap Edited(f) : Complete(f.want[i])}

\* SaveRules of the page: only the cells that changed are sent, and of rows with
\* an empty cell nothing.
Message(f) ==
    [deleted |-> DOMAIN f.want \ Kept(f),
     updated |-> [i \in Altered(f) |->
                     [dev   |-> Changed(f.page[i].dev, f.want[i].dev),
                      user  |-> Changed(f.page[i].user, f.want[i].user),
                      group |-> Changed(f.page[i].group, f.want[i].group)]],
     created |-> {r \in f.new : Complete(r)}]

Nothing == [deleted |-> {}, updated |-> Empty, created |-> {}]

Known(d, dev) == \E i \in DOMAIN d : d[i].dev = dev
Unique(d)     == \A i, j \in DOMAIN d : d[i].dev = d[j].dev => i = j
----------------------------------------------------------------------------
Serving == calls[1].form

Tables == UNION {[0..(n - 1) -> Rule] : n \in 0..MaxRows}

Init ==
    /\ rules \in {d \in Tables : Unique(d)}
    /\ file = rules /\ committed = rules
    /\ open = FALSE /\ pc = "idle" /\ todo = Nothing /\ calls = <<>>
    /\ accounts \in AccountFiles
    /\ found = [update |-> accounts, create |-> accounts]
    /\ status = [c \in Clients |-> "away"]
    /\ page = [c \in Clients |-> [files |-> accounts, lines |-> Empty]]
    /\ fresh = FALSE /\ done = {}
    /\ saves = 0 /\ accidents = 0 /\ changes = 0

\* update_ui, after an OK or because the administrator loads the page again:
\* first the users and groups, then the rules, in the thread that also serves
\* SaveRules.
LoadAccounts(c) ==
    /\ status[c] # "waiting" /\ pc = "idle"
    /\ page' = [page EXCEPT ![c].files = accounts]
    /\ status' = [status EXCEPT ![c] = "loading"]
    /\ UNCHANGED <<daemon, accounts, calls, past, bounds>>

LoadRules(c) ==
    /\ status[c] = "loading" /\ pc = "idle"
    /\ page' = [page EXCEPT ![c].lines = Lines(rules)]
    /\ status' = [status EXCEPT ![c] = "viewing"]
    /\ UNCHANGED <<daemon, accounts, calls, past, bounds>>

Submit(c) ==
    /\ status[c] = "viewing" /\ saves < MaxSaves
    /\ saves' = saves + 1
    /\ \E f \in FormsOf(page[c]) :
          calls' = Append(calls, [from |-> c, form |-> f, late |-> FALSE])
    /\ status' = [status EXCEPT ![c] = "waiting"]
    /\ UNCHANGED <<daemon, accounts, page, past, accidents, changes>>

Take ==
    /\ pc = "idle" /\ calls # <<>>
    /\ pc' = "begin"
    /\ todo' = Message(Serving)
    /\ UNCHANGED <<rules, file, open, found, accounts, calls, pages, past,
                   bounds>>

StartTransaction ==
    /\ pc = "begin" /\ ~open
    /\ open' = TRUE /\ pc' = "delete"
    /\ fresh' = (Serving.page = Lines(committed) \/ Serving \in done)
    /\ UNCHANGED <<rules, file, todo, found, accounts, calls, pages, committed,
                   done, bounds>>

\* Mutant of NextPhase: rules are created before others are deleted or updated.
CreateFirst ==
    /\ \/ /\ pc = "delete" /\ todo.created # {} /\ pc' = "create"
          /\ found' = [found EXCEPT !.create = accounts]
       \/ /\ pc = "delete" /\ todo.created = {} /\ todo.deleted = {}
          /\ pc' = "update"
          /\ found' = [found EXCEPT !.update = accounts]
       \/ pc = "create" /\ todo.created = {} /\ pc' = "delete" /\ UNCHANGED found
       \/ pc = "update" /\ todo.updated = Empty /\ pc' = "process" /\ UNCHANGED found
    /\ UNCHANGED <<rules, file, open, todo, accounts, calls, pages, past,
                   bounds>>

\* The phases of a transaction come one after the other; UpdateRules and
\* CreateRules begin with reading the account files.
NextPhase ==
    /\ \/ /\ pc = "delete" /\ todo.deleted = {} /\ pc' = "update"
          /\ found' = [found EXCEPT !.update = accounts]
       \/ /\ pc = "update" /\ todo.updated = Empty /\ pc' = "create"
          /\ found' = [found EXCEPT !.create = accounts]
       \/ pc = "create" /\ todo.created = {} /\ pc' = "process" /\ UNCHANGED found
    /\ UNCHANGED <<rules, file, open, todo, accounts, calls, pages, past,
                   bounds>>

\* Delete of an id that is not there does nothing.
DeleteRule ==
    /\ pc = "delete" /\ todo.deleted # {}
    /\ LET i == Min(todo.deleted)
       IN  /\ rules' = Without(rules, {i})
           /\ todo' = [todo EXCEPT !.deleted = @ \ {i}]
    /\ UNCHANGED <<file, open, pc, found, accounts, calls, pages, past,
                   bounds>>

\* Mutant of Merged: a field that was not sent is taken as it came.
MergedUnsent(old, change, files) ==
    LET user == Stored(change.user)
    IN  [dev   |-> change.dev,
         user  |-> IF user \in Accepted[files].users THEN user ELSE old.user,
         group |-> IF change.group \in Accepted[files].groups THEN change.group
                   ELSE old.group]

\* UpdateRules: fields that were not sent stay as they are, and so does a user
\* or group that is not known.
Merged(old, change, files) ==
    LET user == Stored(change.user)
    IN  [dev   |-> IF change.dev = Same THEN old.dev ELSE change.dev,
         user  |-> IF user \in Accepted[files].users THEN user ELSE old.user,
         group |-> IF change.group \in Accepted[files].groups THEN change.group
                   ELSE old.group]

UpdateRule ==
    /\ pc = "update" /\ todo.updated # Empty
    /\ LET i == Min(DOMAIN todo.updated)
       IN  /\ i \in DOMAIN rules
           /\ rules' = Replaced(rules, i, Merged(rules[i], todo.updated[i], found.update))
           /\ todo' = [todo EXCEPT !.updated = Without(@, {i})]
    /\ UNCHANGED <<file, open, pc, found, accounts, calls, pages, past,
                   bounds>>

\* The rule of a line that was appended, and whether it may be created; an
\* update is not checked like this.
Taken(r) == [r EXCEPT !.user = Stored(@)]

Valid(r, files) ==
    /\ r.dev \notin BadDevs
    /\ Taken(r).user \in Accepted[files].users
    /\ r.group \in Accepted[files].groups

\* CreateRules: a rule for a device that has one already is left out.
CreateRule ==
    /\ pc = "create"
    /\ \E r \in todo.created :
          /\ Valid(r, found.create)
          /\ rules' = IF Known(rules, r.dev) THEN rules
                      ELSE Inserted(rules, Taken(r))
          /\ todo' = [todo EXCEPT !.created = @ \ {r}]
    /\ UNCHANGED <<file, open, pc, found, accounts, calls, pages, past,
                   bounds>>

\* Read of an id that is not there, or a rule that may not be created: the
\* exception is caught in SaveRules, after ProcessTransaction.
Throws ==
    \/ /\ pc = "update" /\ todo.updated # Empty
       /\ Min(DOMAIN todo.updated) \notin DOMAIN rules
    \/ /\ pc = "create"
       /\ \E r \in todo.created : ~Valid(r, found.create)

\* Mutant of Throw: the handler ends the transaction and keeps the changes.
ThrowUnlocked ==
    /\ Throws
    /\ open' = FALSE
    /\ pc' = "reply"
    /\ todo' = Nothing
    /\ UNCHANGED <<rules, file, found, accounts, calls, pages, past, bounds>>

Throw ==
    /\ Throws
    /\ pc' = "reply"
    /\ todo' = Nothing
    /\ UNCHANGED <<rules, file, open, found, accounts, calls, pages, past,
                   bounds>>

Accident == accidents < MaxAccidents /\ accidents' = accidents + 1

\* ProcessTransaction writes the file; when it cannot, the changes stay in
\* memory and nobody looks at the result.
Commit(written) ==
    /\ pc = "process"
    /\ file' = IF written THEN rules ELSE file
    /\ committed' = rules /\ done' = IF fresh THEN {Serving} ELSE {}
    /\ open' = FALSE /\ pc' = "reply"
    /\ UNCHANGED <<rules, todo, found, accounts, calls, pages, fresh>>

ProcessTransaction ==
    \/ Commit(TRUE) /\ UNCHANGED bounds
    \/ Commit(FALSE) /\ Accident /\ UNCHANGED <<saves, changes>>

\* The answer is OK, and the page that waits for it loads the rules again.
Reply ==
    /\ pc = "reply"
    /\ pc' = "idle"
    /\ calls' = Tail(calls)
    /\ status' = IF calls[1].late THEN status
                 ELSE [status EXCEPT ![calls[1].from] = "away"]
    /\ UNCHANGED <<rules, file, open, todo, found, accounts, page, past, bounds>>
----------------------------------------------------------------------------
\* The D-Bus call of the backend times out and the page shows an error; the
\* call is served all the same.
TimeOut(c) ==
    /\ Accident /\ status[c] = "waiting"
    /\ status' = [status EXCEPT ![c] = "viewing"]
    /\ calls' = [k \in DOMAIN calls |->
                    [calls[k] EXCEPT !.late = @ \/ calls[k].from = c]]
    /\ UNCHANGED <<daemon, accounts, page, past, saves, changes>>

\* Somebody else writes the account files.
ChangeAccounts ==
    /\ changes < MaxChanges /\ changes' = changes + 1
    /\ accounts' \in AccountFiles \ {accounts}
    /\ UNCHANGED <<daemon, calls, pages, past, saves, accidents>>

\* The daemon dies between two steps and is started again: pages that wait
\* get an error.
Crash ==
    /\ Accident
    /\ rules' = file /\ committed' = file
    /\ done' = IF file = committed THEN done ELSE {}
    /\ open' = FALSE /\ pc' = "idle" /\ todo' = Nothing /\ calls' = <<>>
    /\ status' = [c \in Clients |-> IF status[c] = "waiting" THEN "viewing"
                                    ELSE status[c]]
    /\ UNCHANGED <<file, found, accounts, page, fresh, saves, changes>>

Serve ==
    \/ Take \/ StartTransaction \/ NextPhase \/ DeleteRule \/ UpdateRule
    \/ CreateRule \/ Throw \/ ProcessTransaction \/ Reply

Next ==
    \/ Serve \/ ChangeAccounts \/ Crash
    \/ \E c \in Clients : LoadAccounts(c) \/ LoadRules(c) \/ Submit(c) \/ TimeOut(c)

Spec == Init /\ [][Next]_vars /\ WF_vars(Serve)
----------------------------------------------------------------------------
IsRules(d) == IsTable(d, Rule)

Change == [dev   : Devs \cup {Same},
           user  : Users \cup {NoUser, Same},
           group : Groups \cup {Same}]

TypeOK ==
    /\ IsRules(rules) /\ IsRules(file) /\ IsRules(committed)
    /\ {open, fresh} \subseteq BOOLEAN
    /\ {accounts, found.update, found.create} \subseteq AccountFiles
    /\ pc \in Phases
    /\ todo.deleted \subseteq Nat /\ todo.created \subseteq Line
    /\ IsTable(todo.updated, Change)
    /\ status \in [Clients -> Statuses]
    /\ \A c \in Clients : page[c].files \in AccountFiles /\ IsTable(page[c].lines, Line)
    /\ saves \in 0..MaxSaves /\ accidents \in 0..MaxAccidents
    /\ changes \in 0..MaxChanges

\* A row that the daemon refuses, marked as bad by the page and sent with it.
AppendsBad(f) == \E r \in f.new : r.dev \in BadDevs

\* What a page showed when Save was pressed is what it shows when it is loaded
\* after the answer, unless it was out of date, the account files were no longer
\* those it took its lists from, a row had an empty cell, or one was appended
\* with a bad device: the differences, applied in the order deleted, updated,
\* created to a store that gives ids again, make up the table of the page, also
\* when a form that was committed already is sent again after an error, and when
\* a rule is changed to a device that could not be created.
SavedAsShown ==
    /\ pc = "reply" /\ fresh
    /\ found.update = Serving.files /\ found.create = Serving.files
    /\ Whole(Serving) /\ ~AppendsBad(Serving)
    => Range(Lines(rules)) = Shown(Serving) /\ Unique(rules)

\* What makes SaveRules throw, and leaves the daemon with its transaction open,
\* is one of three things: a form made from other rules than the daemon has,
\* account files that changed after the page took its lists from them, and an
\* appended row that the page itself had marked as bad.  No empty cell, no
\* update with a bad device and no name that the page offered does.
OnlyStaleFormsThrow ==
    Throws => \/ ~fresh
              \/ pc = "create" /\ (found.create # Serving.files \/ AppendsBad(Serving))

\* What a message makes of a table, all at once.
Outcome(d, m, files) ==
    LET rest    == Without(d, m.deleted)
        updated == [i \in DOMAIN rest |->
                       IF i \in DOMAIN m.updated
                       THEN Merged(rest[i], m.updated[i], files) ELSE rest[i]]
        new     == {r \in m.created : ~Known(updated, r.dev)}
    IN  IF new = {} THEN updated
        ELSE Inserted(updated, Taken(CHOOSE r \in new : TRUE))

\* The file goes from the rules of one finished transaction to those of the
\* next: of a form that failed half-way, no part ever reaches the disk, at
\* once, with a later form or after a restart.
FileTakesWholeForms ==
    [][file' # file =>
          file' = Outcome(committed, Message(Serving), found.update)]_vars

\* ajax.scm: an answer other than "OK" means "Save rules operation FAILED".
\* When the answer OK is sent, the transaction is over and its rules are in the
\* file.
ReplyOkMeansSaved ==
    pc = "reply" => ~open /\ file = committed
=============================================================================
