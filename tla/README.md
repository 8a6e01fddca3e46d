# A formal model of alterator-usbmount

`altusbd` mounts USB block devices according to rules (device → user and group)
that an administrator edits in a web page of the Alterator control panel. This
directory holds TLA+ modules that model the parts of the program whose
correctness depends on interleaving, failure and order, TLC configurations that
check them on small instances, and TLAPS proofs, for every value of the constants,
of the central properties of the data layer, of the monitor and its mounts, of SaveRules,
of the start and stop of the service, of the web page's rules form and log view, and of the answers
to polkit.

Paths below are relative to the repository root (`src/` in PROJECT.json).

## 1. The system

| Part | Code | State it keeps | Operations |
|---|---|---|---|
| Data layer | `daemon/dal/` | two tables `permissions` and `mount_points`: a `std::map` from id to row, a JSON file each, three mutexes and the flag `transaction_started_` | Create, Read, Update, Delete, Clear, Find, GetAll, RemoveExpired, StartTransaction, ProcessTransaction |
| Udev monitor | `daemon/udev_monitor.cpp` | the socket of udev events, the stop signal, the future of the last review | Run (first review, mounting of what is there, events, a review every 600 idle seconds) |
| Mounting | `daemon/custom_mount.cpp`, `daemon/utils.cpp` | endpoint directories below the mount root; `/etc/mtab` through the kernel | Mount, UnMount, ReviewMountPoints |
| D-Bus service | `daemon/dbus_methods.cpp` | – (works on the tables) | SaveRules, ListActiveRules, ListActiveDevices, CanUserMount, CanAnotherUserUnmount, GetSystemUsersAndGroups, Health |
| Process | `daemon/daemon.cpp`, `daemon/main.cpp` | signal flags | Run; started again by systemd (`Restart=always`) |
| Polkit helper | `daemon/polkit/` | – | asks CanUserMount / CanAnotherUserUnmount |
| Alterator backend | `alterator_usbmount/backend/` | a D-Bus proxy | one answer per message: rules, devices, health, run, stop, log page |
| Systemd client, log reader | `common/` | – | start, stop, enable units; pages of the log |
| Message loop | `alterator_bindings/` | the message being read from stdin | Loop |
| Web page | `alterator_usbmount/usbmount_ui/` | the rows as loaded and as edited, the state of the buttons | edit, delete, append, reset, save, log view |

How they interact: the **udev thread** and the **review task** (`std::async`)
run the same mounting code and share the kernel's mount table, the directories
and `mount_points`, without any lock that spans more than one access. The
**D-Bus thread** changes `permissions` in transactions while the udev thread
looks rules up. The page talks to the backend, the backend to the daemon by
synchronous D-Bus calls with a timeout.

What is hard about it (PROJECT.json lists each hazard at its line):

- *stale reads*: the review works from a snapshot of mtab and from a list of
  devices taken earlier; Mount and UnMount look things up and act later;
- *the unlocked flag*: every call of a table reads `transaction_started_`
  without a lock to decide whether it locks, unlocks and saves;
- *crashes*: a file is truncated before it is written; a mount is made before
  its row; directories are left behind;
- *partial failure*: an exception in the middle of SaveRules, a file that cannot
  be opened, an answer OK in every case;
- *liveness*: after races and crashes the reviews have to converge; a walk over
  the devices never gets past one that was pulled out meanwhile;
- *requests in flight*: the page goes on while the backend works, and the rows and
  buttons it shows must still say what will be sent and what was asked.

## 2. Modules

| Module | Models |
|---|---|
| `Rows` | the map of a table as a function, and the operations on it |
| `AtomicTable` | the abstract promise of the data layer |
| `Table` | `dal::Table` with its derived classes: mutexes, flag, phases of calls, saves, transactions, failed writes, crashes |
| `RowsProofs`, `TableProofs` | the proofs about `Rows` and `Table` |
| `MountMonitor` | udev thread, review task, mounting, kernel, users |
| `MountMonitorProofs` | the proofs about it |
| `Accounts` | the users and groups the daemon reads from the account files: whom the page offers, whom the daemon accepts |
| `SaveRules` | the form of the page, the transaction it becomes, the answer |
| `SaveRulesProofs` | the proofs about it |
| `ServiceControl` | Run and Stop of the backend against systemd, the life of its proxy |
| `ServiceControlProofs` | the proofs about it |
| `RulesForm` | the table of rules of the page while it is edited: cells, marks, selection, buttons, local storage, the message of Save |
| `RulesFormProofs` | the proofs about it |
| `LogView` | the pages of the log: cutting them out of the file, every control of the page, requests and answers in flight |
| `LogViewProofs` | the proofs about it |
| `Enumeration` | the walks over the devices that udev lists, and the calls ListDevices, CanUserMount and CanAnotherUserUnmount while sticks come and go |
| `EnumerationProofs` | the proofs about it |
| `MCTable`, `MCMountMonitor`, `MCSaveRules`, `MCRulesForm`, `MCLogView`, `MCEnumeration` | the instances TLC checks |

Which of them meet: `Rows` is the store in `Table`, `MountMonitor`, `SaveRules`,
`RulesForm` and `Enumeration`; `Table` justifies that the latter take a call of a
store as one step; `MountMonitor` justifies that `Enumeration` takes a mount as one
step; `Accounts` gives `SaveRules` its users and groups; the message at the end of
`RulesForm` is what `SaveRules` begins with.

### Table

A thread makes one call at a time; the program counter of a thread goes through
the phases *look*, *edit* and *save*, each of which reads the flag, may wait for
a mutex and is then inside. `Unlocked` is the local `unique_lock`: inside a
transaction the mutexes belong to the transaction. `Transaction` follows
StartTransaction and ProcessTransaction statement by statement, including the
handler that releases `transaction_mutex_` before it clears the flag.
`Truncate`, `Dumped` and `Flush` are the three steps of WriteRaw at which a crash
leaves different files. `Terminate` is the one place where a failed write ends
the process: RemoveExpired is `noexcept`.

`Throw` is every exception of a call: an Update of a row that is gone, and a row that
CreateRules refuses. Outside of a transaction the call gives up its lock. Inside one,
SaveRules catches the exception (`dbus_methods.cpp:325`) and returns without
ProcessTransaction: the flag stays set and the three mutexes stay locked. Their owner
is then `Lost`, a thread that never comes back, because the call itself does come back.
Whoever has read the flag before it was set waits for `data_mutex_` for ever, and so does the
next StartTransaction; lookups that read the flag afterwards go in without a lock.

`committed` and `unsaved` are history variables: what `data_` is without the
work of an open transaction, and whether the last attempt to write failed.

The assumption `OneStyle` is how the daemon uses its stores: `mount_points` by
single calls only, `permissions` by the transactions of the D-Bus thread only.
The constants are otherwise free. Two facts outside of it: if *two* threads
commit and a write fails, the handler lets the second in before it clears the
flag, the second one then locks mutexes it already holds and waits for ever
(`CallsReturn` fails with two committers and `MaxFailures = 1`, and holds with
`MaxFailures = 0`); and if single edits and transactions are mixed, an edit can
go in without a lock. Locking a mutex twice in one thread is undefined behaviour
in C++; the model takes the outcome that glibc has, waiting for ever.

`ImplementsAtomicTable` says that the whole of it is a refinement of
`AtomicTable` under `rows <- committed, open <- (txOwner # Free), draft <- data,
disk <- file, dump <- Pending`: outside a transaction a change takes effect at once;
the changes of a transaction stay in its draft until it is committed as a whole; the
file only ever holds the dump of a single committed moment or is torn; and a restart
finds that.

### MountMonitor

Each look at and each change of shared state is one step of a thread. The
variable `job[t]` is the local state of the C++ functions on the stack of the
thread (the snapshot of mtab, the directories still to sweep, the devices still
to unmount, the index found), `task[t]` says to which loop a call of Mount or
UnMount returns. A call of the store is a single step, which module `Table`
justifies, and its save another one.

GetConnectedDevices is a list (`Scan`) and a walk over it (`Walked`). A device that is
pulled out before the walk has come to it makes the walk endless, so `Unplug` may lose
any thread that walks over a list with the device (`pc` is "lost"). When a review is lost,
the next one starts and the udev thread waits for the lost one for ever (`StartReview`,
the assignment to the future). A crash frees both. `Die` may leave a save that was under way
finished, not begun, truncated, or with a part of the text in the file; the daemon cannot
start with the last of these ("dead", `mount_points.cpp`, DataFromRawJson). `beside` is a history variable: while
a thread was at its present work, the other one was at work as well. It is set when the
udev thread takes up an event while a review runs; a review starts when the udev thread is
idle.

The kernel is part of the environment and modelled from how the code uses it: a
mount hides the directory below it, `umount2` detaches the latest mount on a
directory, a device can be mounted twice but not over itself, a name is not
given to a new device while the old one is mounted. The environment plugs,
unplugs, announces again, mounts and unmounts by hand, changes rules and crashes
the daemon, at most `MaxEnvironment` times in all. Endpoint names are the label,
the uuid or "usb" with a number for the suffix; the directory of the user and
group is left out, so all devices compete for names, which is the harder case.

### SaveRules

A form is a table as the page was loaded with it, what became of each row, and
at most one new row. The cells of a device hold anything that may be typed: a device,
one whose vid or pid is no number (`BadDevs`), or nothing (`Blank`, an empty cell or a serial of
blanks). The page marks bad cells, but Reset of another row lets them be sent
(`alt_usb_mount.js:1014`), so `FormsOf` offers them. `Message` is what SaveRules of the page
sends: nothing of a row with an empty cell, everything else. `Valid` is the test of
CreateRules; UpdateRules has no such test. The phases of
the transaction are those of the C++ function, one row per step. A line of the page and a
rule of the store differ in the user: the page shows "--" for root. `Accounts` translates
the reading of login.defs, shells, passwd and group: the loop that ends at the first line
that completes the four limits, numbers that cannot be read, ids cut to the width of
uid_t, users by shell and limits, groups by the limits of users, as the code has it. What
the files hold is a constant, `Text`, for each of the states they may be in, and
`ChangeAccounts` is somebody else who writes them. The page reads them when it is loaded
(`LoadAccounts`, before `LoadRules`, two calls), UpdateRules and CreateRules once more each
(`found`). An update keeps the old user, or the old group, when the new one is not known; a
rule with an unknown one makes CreateRules throw. `TimeOut` is the D-Bus call of the backend giving
up while the daemon still serves it. `fresh` and `done` are history variables: whether the
call that is served was made from the table as committed, or is the very form that was
committed last and that was fresh then, sent once more by an administrator who got no
answer.

### ServiceControl

`Order` says which of unit and unit file a call sees to first; `stage` and `step`
say where it is: looking whether anything is to do, asking systemd, polling.
EnableUnit, DisableUnit, StartUnit and StopUnit have the same shape, so they share
the actions `Ask` and `Await`; only StopUnit looks once more (`Recheck`). Every
D-Bus call may fail. `unit` has the values of ActiveState, and only "active" counts
as active. systemd (external) starts and stops units in its own time, restarts a
daemon that crashed or gives up on it, and obeys others: `Systemctl` is an
administrator at a shell, and just as well the backend of a second page.
`promise` is a history variable: what the last answer OK said, until the next
request or until somebody else uses systemctl.

### RulesForm

A row is its text, the set of cells marked as changed, the set marked as bad, and
whether it is marked as deleted; that is what the classes of the HTML cells say.
`form` also has the selected row, the checked ones and the buttons that are
enabled, because the buttons are switched by many handlers and never computed from
the rows. Operators with the names of the JavaScript functions
(`ShowToolTipIfSomeInvalid`, `ResetRows`, `DeleteRows`, ...) take a form and give a
form; an action is one event of the browser with every handler that it calls. The input
of a single cell has the focus and closes when anything is clicked: a click is an action
only when no such input is left (`Idle`). The inputs of a row that is edited as a whole close when the
focus leaves the row; its own checkbox counts as a part of the row (`alt_usb_mount.js:1377`), and has
no handler of its own. Once the focus is there they stay open, whatever is clicked next:
so every click, Save included, may meet them open, and the text under them is what
counts. The key Delete and an answer of the server meet single inputs as well. `stored` is
`rules_data` of the local storage, which Reset reads; `LoadElsewhere` is another page
of the same browser that writes it. `loaded` and `foreign` are history variables. A
cell that was retyped to its old value stays marked, and is sent; `Message` of
`SaveRules` treats such a cell as unchanged, which makes no difference to the rules.

### LogView

The lines of the log are numbered by age, so a page is a sequence of numbers, and a
filter is the set of lines it lets through. `asked` and `answers` are queues: the
backend reads one message at a time and the page gets the answers in that order
(external: the transport of Alterator). `GetByPage` is the C++ function, with its
four operators for the number of pages and the cut; the width of the numbers is left
out, since pages are below the total and sizes at most 100. `shown` is the answer on
display, `curr` the page marked in the list of pages, `at` the page number of the
hidden input, which changes when something is clicked, before the answer is there.
The daemon appends and the file is replaced at any moment.

### Enumeration

The walks of `GetConnectedDevices` and `FindUdevDeviceByBlockName` are two phases of
a thread: the list of paths is taken in one step (`Scan`, `Serve`), each entry is opened
in another (`Open`, `Find`). A path names one stay of a stick and does not come back,
a name such as `/dev/sdb` does. A thread that meets a path which is gone is `lost`: the
code repeats `continue` for ever. `StartReview` has the assignment to the future: when
the former review is lost, the new one begins and the udev thread is `blocked`. Mount and
unmount are one step each here. `live` says which rows have their mount still: a user's
unmount (`UserUnmounts`) leaves the row behind, which then stays until the next
ReviewMountPoints (`Expire`), until the device is reported as gone, or until the same stick
is mounted on its old directory again. The kernel gives a name again as soon as no
device has it and nothing is mounted under it (`FreeNames`), so such a row may be found for
another stick. The D-Bus thread serves one call at a time, and SaveRules
(`ChangeRule`) between two of them, as one step that ends. `stayed`, `touched`, `kept` and `mounted` are history
variables for the properties. The polkit helper asks one of the two questions and prints
the answer; only NO (for a mount) and YES (for an unmount) have an effect.

## 3. What is checked

| Run | Bounds | What it shows |
|---|---|---|
| `mount_points_table` | udev, review and D-Bus thread, 2 values, 4 calls, 1 crash, 1 failed write | no race on the rows, one writer of the file, the last save wins, no call blocks, refinement |
| `permissions_table` | 1 committer, 1 reader, 3 calls, transactions of 2 changes, each of which may throw, 1 failed write, 1 crash | transactions do not leak into the file, refinement; only an exception in a transaction blocks anybody |
| `mount_monitor` | 2 devices with equal labels and no uuid, one of them blank, 3 environment steps, any rules and plugged devices at the start | rows are unique, nothing is mounted over files in use |
| `mount_monitor_settles` | 2 devices, one a disk that is skipped, 3 environment steps | `Settles` |
| `mount_monitor_serial` | 2 copies of one device, none of them blank, 3 environment steps, periodic reviews | no row is dropped before its mount is gone and unmounts hit their own device, as long as one thread is at work |
| `save_rules` | a good and a bad device, blank cells, root and 1 user, 1 group, account files in 4 states with 1 change, 1 rule at the start, 2 saves, forms of 2 edits, 2 accidents | the table becomes what the page showed; no part of a failed form reaches the file; only stale forms, changed account files and appended bad rows make SaveRules throw |
| `rules_form` | tables of up to 2 rules, 1 appended row, 1 edit, 1 load into this page or another, 2 devices, 1 owner and every odd value of a cell, symmetry | what is sent turns the rules that were loaded into the rows shown; Save, Delete and Reset are there when they should be |
| `service_control` | 2 polls; everything else is finite by itself | answers OK stay true, every call is answered, a stopped daemon does not end the backend |
| `log_view` | a log of 9 lines that grows to 11 and is replaced once, 3 filters, 2 sizes, 3 requests, 2 in flight, 1 failure | pages tile the log, turning to older pages skips nothing, the page shown is the one asked for, locked buttons open |
| `enumeration` | 2 sticks, 2 names, 2 stays, 1 call, 1 change of a rule or unmount by a user, one stick with a rule | lists and refusals are right about what stayed; calls are answered and sticks mounted unless a walk is lost |

The bounds are enough for the cases that matter: two calls of different threads
in every order with a third looking on; a crash in every step of a save; two
changes in a transaction, which is what makes "half of it" possible; a device
that leaves and comes back while the review works from its old list (two
environment steps) and one more accident; a form that deletes the rule of a
device and creates another for it (two edits), sent twice, with files that
change in between; a poll that comes too
early, one more, and giving up; a row that is edited while another is deleted, reset
or loaded anew; more than seven pages, which is where the list of pages changes its
form, and two requests that overtake each other's locks; a stick that is pulled out
between the list and its entry while another takes its name. `FirstRules` and the
lowest free name for a new stick only remove instances that differ in names. In
`mount_points_table` the review calls Update, which the daemon never does, in place
of its deletions: an edit of the same shape that also covers the method.

What each property says is written above it in its module. The less obvious ones:

- `Settles` and `RuledAreMounted` are about the same thread: reviews bring table,
  directories and mounts together once all is quiet, and no stick with a rule falls
  between the list made at the start and the events;
- `SentIsShown` compares two ways to see the form: the marks, which decide what is
  sent, and the text, which the administrator sees;
- `ChangesCanBeSaved` is the converse of a test for a disabled button: a form in
  order is never stuck with a grey Save;
- `PagesMakeUpTheLog` checks the page arithmetic against the lines that the filter
  lets through, for every state of the log.

Two runs end in a violation, on purpose; each states what a comment or a caller
says and the code does not do (PROJECT.json, "findings"):

- `review_unmounts_absent`: the review lists the present devices, a device leaves
  and comes back and is mounted by the udev thread, and the review unmounts it;
- `reply_ok_means_saved`: SaveRules answers OK after an exception too.

### Fairness

Threads are scheduled (`WF` on the steps of each thread), the timer of `select`
goes off again and again (`WF` on StartReview), systemd restarts the daemon (`WF`
on Monitor, which contains Restart). Nobody is obliged to make another call, to
plug anything or to press Save. Weak fairness of a thread is enough for the
mutexes in the checked instances: calls are bounded, so a thread that waits for a
mutex is not overtaken for ever. `CallsReturn` excepts a transaction that an exception left
open (`txOwner = Lost`). `Settles` is conditional on three things, which the formula names. Mounts of vanished
devices are detached in the end: a busy one makes `is_empty` fail, and the sweep then
stops there every time. No walk over the devices is lost: a lost review is the last one
that ends, since the next one blocks the udev thread. And no file was written in part, with
which the daemon does not start. `CallsAnswered` relies
on the backend alone: that the polls are bounded is what makes it true, since
systemd may never get a unit started. In `LogView` the backend goes on reading messages
and the page shows what arrives; nobody has to click. In `Enumeration` the threads are
scheduled; nobody has to call or to plug anything in.

## 4. What is proved

`TableProofs` proves about `Table`, for any threads, values, calls and bounds that
satisfy `TableAssumption` and `OneStyle`:

- `EditorsAreAlone`, `FileHasOneWriter`, `FileIsCurrent`: the three safety
  properties of the runs;
- `TypeCorrectness`;
- `StoreIsAtomic`: the refinement, for both ways a store is written.

The properties are not inductive: that the last save wins depends on who still
has to dump, that editors are alone on who owns which mutex. `IInv` says both, in
two parts. `SingleInv` (stores written by single calls): the flag is never set;
a thread owns a mutex exactly when its program counter is in the section; if no
thread has yet to dump `data_`, every dump that is waiting to be written equals
`data_`, and once none is waiting the file does. `BundledInv` (stores written by
transactions): whoever edits or saves owns `transaction_mutex_`, even though its
calls lock nothing and the flag may be wrong for a moment; the dump of a
transaction equals `data_` until it is written; after an exception the mutexes have the owner
`Lost`, which is no thread, so nobody edits or saves any more. The invariant is shown to hold
initially and to be preserved by every action, crashes included.

`TypeCorrectness` needs ids to be bounded (`IsStore` in `RowsProofs`): "one more
than the greatest id" is only a number if there is a greatest one. `RowsProofs`
proves that every operation keeps it so, and that the id Create gives is new.

`StoreIsAtomic` needs three facts more (`RefInv`). The file is torn from its truncation
to the end of the write, because nobody else has it open (`TornInv`). Whoever is not
between the first change and the commit of a transaction, and has not lost one to an
exception, finds `data_` committed (`CommitInv`). And the flag is set while a transaction makes its changes (`FlagInv`): the
second reading of the flag then leaves the save to the transaction. `FlagInv` is where
`OneStyle` is needed: the handler of a failed transaction clears the flag after it let
the next one in. Each step is then shown to be one step of `AtomicTable`, or none.

`ServiceControlProofs` proves `RunHolds`, `StopHolds` and `SurvivesStop` for any
number of polls. What an answer OK says is true because of what the call reached
before: `RunReached` and `StopReached` say what is so at each stage as long as
nobody interfered; during a call nothing is promised; and a stopped unit has no
start waiting behind it.

`ControlTypes` is its type invariant.

`SaveRulesProofs` proves `SaveTypes`, `ShownIsSaved`, `StaleFormsThrow` and `WholeForms` for
any pages, devices, users, groups, contents of the account files and bounds. None of them is
inductive. `Applied` says what is in
memory in each phase: what the rows handled so far make of the last committed table,
with the account files found at the start of UpdateRules. At the end that is the `Outcome` of
the whole form, which is all that Commit can write. `OutcomeIsMade` shows that the
outcome of a form on the table it was made from is what the page showed, if its rows are
`Whole`, ids that are
given again and duplicates that are skipped included; and that the same form applied to a
table it has made makes that table again, which is why a form may be sent again after a timeout.
`Faithful` carries that from the table as committed to the answer. `StaleFormsThrow` needs
that the page and the daemon make the same of the same files, whatever these hold; that is
`OfferedIsAccepted`, and the one thing in it that could go wrong is "--": it is accepted as
root, and it is offered only when the limits were read. `FreshDoesNotThrow` adds that every
id of an update is still there and every line that was appended names somebody offered; what
is left is an appended line with a bad device (`AppendsBad`). `AccountAssumption` asks little of the
files: the line of root has number 0, and nobody else is called "root" or "--".

`MountMonitorProofs` proves `MonitorTypesHold`, `RowsAreUnique` and `FilesStayVisible`
for any devices, names and number of environment steps, with the periodic review. Rows
are unique because the udev thread alone creates them (`Roles`): what Create did not
find is still missing when it inserts (`RowsInv`), although the two are not under one
lock. Files stay visible because the mounts of the daemon lie on directories that exist,
and whatever lies on the directory that was chosen is blank until the mount is made
(`MountInv`): the review may remove the directory in between, but nobody else mounts
there. That a free suffix is always found, so that CreateMountEndpoint ends, is a
counting argument (`SomeSuffix`): there are more suffixes than mounts.

`RowsOutliveTheirMounts` and `OnlyOwnUnmounted` prove `RowsOutliveMounts` and `UnmountsOwn`,
for runs with reviews, blank filesystems and crashes. Both properties speak of a thread that has
worked alone (`~beside`) and of filesystems with files; the code does not do better: with
both threads at work, or a blank filesystem that is mounted over, TLC violates both
within four environment steps when the exception is taken out. Their invariant, `LookedUp`, says that without `beside` the threads are
not both at work, and of each place where a thread acts on something it has read before
(`Sure`) what is left of that: after the snapshot, every mount of the daemon is in it; before
umount, whatever lies on the directory is of the device, or something blank is
(`OneToADirectory`, from `NoMountOverMount`); after it, or when mtab had no entry,
the row to look for has no mount. Users cannot break it because they only detach what lies
below the mount root, and mount elsewhere (`UsersLookOn`); the other thread cannot because it
is not at work (`Resting`).

`LogViewProofs` proves `PagesTile` for any number of lines and any size of a page: the
first page ends with the newest line, each begins where the next one ends, all but the
oldest are full, and beyond it there is nothing. `PagesNumberRoundsUp` is the lemma about
the division. `WhatIsShownWasAsked` is `ShownIsAsked` for any number of requests in
flight: the invariant says that the newest request, or the newest answer when none is
left, carries the filter of the hidden input, so the last to arrive is the right one.

The other four (`ViewTypes`, `PagesAreTheLog`, `ListsAreUseful`, `NothingIsSkipped`)
are about the lines themselves. `Passing` is the loop of GetFromFile as a recursive
function over the lines of the file; `PassingLines` shows by induction over them (a least
counterexample) that it gives the lines of the filter, each once, in their order, and
`LaterIsNewer` that the k-th line from the newest of a later log is never older than that
of an earlier one. That the pages joined make up the log
(`PagesJoin`) is an induction over the pages in the same way. `History` is the invariant
behind `NothingIsSkipped`: each answer on display or under way was cut out of the log as
it was at some moment, and these moments come in the order of the answers, so the page
that follows the one shown was cut from the same log or a later one.

`RulesFormProofs` proves all five properties of the form, for tables and rows of any
number. `InOrder` is what the buttons owe the rows: every handler that changes rows ends
with a look at them, and opening inputs changes no row; the
lemmas say so for each JavaScript function (`ResetKeeps`, `DeleteKeeps`, `SelectKeeps`,
...). `Truthful` relates the marks to the rules that were loaded: none is missing, a
cell without a mark is as it was loaded, and an appended row without a mark has no
owner. It holds as long as no other page has stored rules (`Honest`), because Reset
writes what is stored. From it follow `SentRowsAreShown` and, with the look for
duplicates that Save ends with, `CompleteRowsStayUnique`.

`EnumerationProofs` proves `TypeOK`, `RuledIsRefused` and `ListIsRight` for any sticks,
names and bounds. The invariant of the question says that every stick of the name in question
that has stayed is still before the search, or at hand (`Searching`), that all of
`stayed` is present, and that a name belongs to one present stick at a time
(`OneName`), which rests on the kernel's choice of a free name. The list needs two facts
more. `RowsMatch`: a row whose mount is there, under the name of a present stick, is of that
stick, because the kernel does not give a name again while something is mounted under it. Of a row
that a user's unmount has left nothing is known, and the list may tell it (`Tells`). `ListSoFar`: a device that stays is still before
the walk or has exactly one line, and the line is right; where the code has found the
index of a row and not yet read it, `RowFound` says that the index is a row of
that name, unless somebody touched the name.

Only model-checked: the liveness properties (`CallsReturn`, `Settles`, `CallsAnswered`,
`LocksOpen`, `RuledAreMounted`), which are out of the prover's reach. Every invariant and
every other action property of a passing run is a theorem.

## 5. Known limits of the code that no property claims

- Lookups in `permissions` go through the map without a lock while a transaction
  is open: a data race, and a dirty read. `EditorsAlone` keeps readers and editors apart
  outside of transactions only, which is all of `mount_points`.
- An update whose user or group is unknown by now is stored without it, and the answer is
  OK. `SavedAsShown` is claimed for account files that have not changed since the page
  was loaded.
- Groups are compared with the limits for users, not with GID_MIN and GID_MAX
  (`utils.cpp:351`): offer and check agree on it.
- A form made from an old page, or two pages, can leave two rules of one device:
  UpdateRules does not look for duplicates. `SavedAsShown` is claimed for forms
  made from the current rules.
- After an exception in SaveRules the transaction stays open. The next SaveRules waits for
  ever in StartTransaction, and with it the one D-Bus thread, so that no other call is answered
  either; a lookup of the udev thread that read the flag just before it was set waits for
  ever too. `CallsReturn` excepts this, `Enumeration` leaves it out (SaveRules is one step
  there). Only a restart of the daemon clears it.
- A current page can bring that about: Reset enables Save while an appended row is marked
  as bad (`alt_usb_mount.js:1014`), and CreateRules throws. A bad device in an update is stored.
- ListDevices of the backend calls the daemon outside of its try block although it
  is noexcept: a crash of the daemon between the health check of a page and its
  list of devices ends the backend.
- After a Stop the page shows the daemon as dead until Run, also when somebody
  else has started it: the proxy is gone.
- If `/etc/mtab` cannot be opened, the set of mount points is empty and the
  review drops every row; that failure is not modelled.
- A row that the udev thread creates after a review read mtab is dropped although
  the device is mounted; `RowsOutliveMounts` and `UnmountsOwn` except two threads at work
  at once.
- An empty filesystem looks like an empty directory: another stick of the same name is
  mounted over it. When the empty one is pulled out, UnMount detaches what is on top, the
  other stick, and deletes the row of its own mount, which is still there. `NoMountOverMount`,
  `RowsOutliveMounts` and `UnmountsOwn` are therefore about mounts with files.
- A stick that is announced by an event and was listed at the start as well is mounted on two
  directories, with a row for each.
- RemoveExpired compares directories only: the row of a device that is gone survives as
  long as another is mounted on its directory. What the reviews do achieve is `Settles`.
- Stop takes a unit that is "activating" for stopped: a daemon that is being started, or
  waits for its restart after a crash, runs after the answer OK, and the page shows it as
  dead. The unit file is disabled all the same (`StopHolds`).
- A walk over the devices never gets past one that was pulled out after the list was made
  (`udev_monitor.cpp:207`, `usb_udev_device.cpp:247`): the thread spins for ever. A lost review
  blocks the udev thread at the next one, and what a user then unmounts keeps its row and its
  directory. `CallsAnswered`, `RuledAreMounted` and `Settles` except lost walks; of what
  `Enumeration` models nothing else keeps a call from its answer or a stick from its
  mount (an open transaction, above, does).
- Events and lists say which stick it was, the mount goes by its name: a stick without
  a rule that takes the name of one with a rule in between is mounted in its place.
- ListDevices may show the mount point of another device when the row it found is
  deleted and its index given again before it is read; `ListIsRight` leaves out names
  whose rows changed meanwhile. Read returns a reference, which may even dangle.
- Nobody tells the daemon that a user has unmounted something. Until the next review its
  row stays, and ListDevices shows it: for the stick that is not mounted any more, or for another
  one that got the name meanwhile. `ListIsRight` then says no more than that the line tells a row of
  the name.
- CanUserMount finds the device by its name and reads its properties later: when the name
  changes hands in between, the answer may be about either stick, and it is YES when the properties are gone.
  `RuledIsRefused` is about sticks that stay.
- Once the focus has gone from the inputs of a row to the checkbox of the row they stay
  open (`alt_usb_mount.js:1377`), and Save sends the texts under them, not what has been typed.
- A serial of blanks passes the check, and its row is left out of the message: another
  row may then be saved with the device of the rule it came from. `CompleteRowsAreUnique` is
  about rows without empty fields. All pages of a browser share the rules that Reset
  takes back: `SentIsShown` claims nothing after another page has stored others.
- A change of the entries per page is stored before JumpToPage, which asks for nothing
  when there are no pages; an answer of the old size is then shown under the new one.
  `ShownIsAsked` therefore says nothing of the size.

## 6. Not modelled

Text formats (JSON, Lisp messages, HTML) and the reader of messages on stdin, which keeps
nothing between two messages; mount options, ACL calls, the cutting of account files into
lines and fields, logging: I/O and conversions without a state of their own. Health answers
from nothing at all. Start-up and signals of the process: the end and
the restart of the daemon are steps of `Table` and `MountMonitor`. A second review beside one
that runs: at ten minutes it takes a lost one, which `MountMonitor` and `Enumeration` have. `experimental/` and
`daemon/unused` are not built. Packaging and translations have no behaviour.
