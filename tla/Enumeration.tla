---------------------------- MODULE Enumeration ----------------------------
(***************************************************************************)
(* Who walks over the devices that udev knows, and what becomes of mounts  *)
(* and answers while sticks come and go.                                   *)
(*                                                                         *)
(* The udev thread (twice, when it starts), the reviews that it starts     *)
(* from time to time and the D-Bus thread (for ListDevices and for         *)
(* CanUserMount) list the paths of the devices first and open them one by  *)
(* one.  None of them gets past a path that can no longer be opened:       *)
(* continue comes before the step to the next entry, and the path of a     *)
(* stick that was pulled out does not come back.  Such a walk is lost.     *)
(*                                                                         *)
(* A path stands for one stay of a stick; a name such as /dev/sdb is given *)
(* again.  To mount is one step that enters a row, to unmount is another,  *)
(* and neither fails; module MountMonitor takes them apart.  A directory   *)
(* stands for the stick that it was made for, and a row whose mount a user *)
(* has undone stays until a review or the end of the name.                 *)
(* SaveRules is one step that ends; modules Table and SaveRules take it    *)
(* apart, with the exception that leaves the stores locked.                *)
(***************************************************************************)
EXTENDS Rows, Sequences

CONSTANTS
    Sticks,
    Names,      \* what block devices are called, numbered
    None,
    FirstRules, \* the sticks that can have a rule at the start
    MaxPlugs,   \* bound: the times a stick is plugged in
    MaxCalls,   \* bound: the calls of the D-Bus service
    MaxChanges  \* bound: the times a rule is changed or a user unmounts

ASSUME EnumerationAssumption ==
    /\ Names \subseteq Nat /\ None \notin Sticks \cup Names
    /\ FirstRules \subseteq SUBSET Sticks
    /\ {MaxPlugs, MaxCalls, MaxChanges} \subseteq Nat

\* The review that the udev thread starts while another one is lost is the
\* last one it starts.
Reviewers == {"review", "again"}
Threads   == {"udev", "dbus"} \cup Reviewers

VARIABLES
    stays,    \* for each path used so far, which stick it is and its name
    present,  \* the paths that are there
    events,   \* what waits in the socket of the monitor
    rules,    \* the sticks that have a rule
    rows,     \* mount_points
    live,     \* the rows whose mount is there
    place,    \* where each thread is
    todo,     \* the paths it has not got past
    got,      \* the devices it has opened
    call,     \* the call that is served, or was the last
    on,       \* the device at hand, and the row found for it
    reply,    \* the answer, as far as it is written
    calls, changes,
    stayed, touched,  \* history: the paths present all through the call, and the
                      \* names whose rows or mounts have changed since a list began
    kept, mounted     \* history: the sticks that had a rule all the time, and
                      \* the paths present that were mounted

kernel  == <<stays, present, events>>
tables  == <<rules, rows, live, changes, kept, mounted>>
walks   == <<place, todo, got>>
serving == <<call, on, reply, calls, stayed>>
vars    == <<kernel, tables, walks, serving, touched>>

Stay    == [name : Names, stick : Sticks]
Paths   == DOMAIN stays
Lines   == [path : 1..MaxPlugs, mount : Sticks \cup {None},
            status : {"owned", "free"}]
Calls   == [method : {"CanUserMount", "CanAnotherUserUnmount"}, name : Names]
           \cup {[method |-> "ListDevices", name |-> None]}
Nothing == [path |-> 0, row |-> 0]
NoCall  == [method |-> "none", name |-> None]
Answers == {"none", "error", "list", "YES", "NO", "UNKNOWN_MOUNTPOINT"}
Walks   == {"reviewWalk", "startWalk", "listWalk"}
Places  == Walks \cup {"off", "review", "scan", "start", "idle", "blocked", "lost",
                       "find", "info", "ask", "read"}

Lost(t)     == place[t] = "lost"
Ruled(p)    == stays[p].stick \in rules
Named(n)    == {p \in present : stays[p].name = n}
RowsOf(n)   == {i \in DOMAIN rows : rows[i].name = n}
LiveOf(n)   == RowsOf(n) \cap live
Goto(t, p) == place' = [place EXCEPT ![t] = p]
Pass(t, p)  == todo' = [todo EXCEPT ![t] = @ \ {p}]

\* udev_monitor's constructor has opened the socket before anything is listed.
Init ==
    /\ stays = <<>> /\ present = {} /\ events = <<>>
    /\ rules \in FirstRules /\ rows = Empty /\ live = {}
    /\ place = [t \in Threads |-> IF t = "udev" THEN "review" ELSE "off"]
    /\ todo = [t \in Threads |-> {}] /\ got = [t \in Threads |-> {}]
    /\ call = NoCall /\ on = Nothing
    /\ reply = [text |-> "none", lines |-> {}]
    /\ calls = 0 /\ changes = 0
    /\ stayed = {} /\ touched = {} /\ kept = rules /\ mounted = {}
----------------------------------------------------------------------------
(* The walks: GetConnectedDevices. *)

\* udev_enumerate_scan_devices
Scan(t) ==
    /\ place[t] \in {"scan", "start"}
    /\ todo' = [todo EXCEPT ![t] = present]
    /\ Goto(t, IF place[t] = "scan" THEN "reviewWalk" ELSE "startWalk")
    /\ UNCHANGED <<kernel, tables, got, serving, touched>>

\* Mutant of Open: the step to the next entry is taken twice at an entry that
\* cannot be opened.
OpenOrSkip(t) ==
    /\ place[t] \in Walks
    /\ \E p, next \in todo[t] :
          /\ todo' = [todo EXCEPT ![t] = @ \ IF p \in present THEN {p} ELSE {p, next}]
          /\ got' = [got EXCEPT ![t] = @ \cup ({p} \cap present)]
    /\ UNCHANGED <<kernel, tables, place, serving, touched>>

\* In no order that the code relies on.
Open(t) ==
    /\ place[t] \in Walks
    /\ \E p \in todo[t] :
          IF p \in present
          THEN /\ Pass(t, p)
               /\ got' = [got EXCEPT ![t] = @ \cup {p}]
               /\ UNCHANGED place
          ELSE /\ Goto(t, "lost")
               /\ todo' = [todo EXCEPT ![t] = {}]
               /\ got' = [got EXCEPT ![t] = {}]
    /\ UNCHANGED <<kernel, tables, serving, touched>>

Walked(t, walk) == place[t] = walk /\ todo[t] = {}
----------------------------------------------------------------------------
(* Mounting and unmounting. *)

\* The rows become new, of which those in alive are mounted.
Enter(new, alive) ==
    /\ rows' = new /\ live' = alive
    /\ touched' = touched \cup
          {n \in IF call.method = "ListDevices" THEN Names ELSE {} :
              RowsOf(n)' # RowsOf(n) \/ LiveOf(n)' # LiveOf(n)}

\* Whatever stick has the name now.  A directory that a user's unmount left
\* empty may be taken again, and then Create finds its row.
Mount(n) ==
    /\ IF Named(n) = {} THEN UNCHANGED <<rows, live, touched>>
       ELSE \E p \in Named(n) :
               \/ Enter(Inserted(rows, stays[p]), live \cup {NextId(rows)})
               \/ \E i \in DOMAIN rows \ live :
                     rows[i] = stays[p] /\ Enter(rows, live \cup {i})
    /\ mounted' = mounted \cup Named(n)

Drop(ids) == Enter(Without(rows, ids), live \ ids)

\* ReviewMountPoints, with which ReviewConnectedDevices begins.
Expire(t) ==
    /\ place[t] = "review"
    /\ Drop(DOMAIN rows \ live)
    /\ Goto(t, "scan")
    /\ UNCHANGED <<kernel, rules, changes, kept, mounted, todo, got, serving>>

\* The end of ReviewConnectedDevices.
Clean(t) ==
    /\ Walked(t, "reviewWalk")
    /\ Drop({i \in DOMAIN rows : rows[i].name \notin {stays[p].name : p \in got[t]}})
    /\ got' = [got EXCEPT ![t] = {}]
    /\ Goto(t, IF t = "udev" THEN "start" ELSE "off")
    /\ UNCHANGED <<kernel, rules, changes, kept, mounted, todo, serving>>

\* ApplyMountRulesIfNotMounted
Apply ==
    /\ Walked("udev", "startWalk")
    /\ \E p \in got["udev"] :
          /\ got' = [got EXCEPT !["udev"] = @ \ {p}]
          /\ IF Ruled(p) /\ LiveOf(stays[p].name) = {} THEN Mount(stays[p].name)
             ELSE UNCHANGED <<rows, live, mounted, touched>>
    /\ UNCHANGED <<kernel, rules, changes, kept, place, todo, serving>>

Applied ==
    /\ Walked("udev", "startWalk") /\ got["udev"] = {}
    /\ Goto("udev", "idle")
    /\ UNCHANGED <<kernel, tables, todo, got, serving, touched>>

\* ProcessDevice.  The event says what the stick was.  A mount of the name is
\* undone, and its row goes; if there is none, the first row of the name goes.
Receive ==
    /\ place["udev"] = "idle" /\ events # <<>>
    /\ events' = Tail(events)
    /\ LET e == Head(events)
           n == stays[e.path].name
       IN  CASE e.action = "add" /\ Ruled(e.path) -> Mount(n)
             [] e.action = "remove" /\ RowsOf(n) # {} ->
                  /\ \E i \in IF LiveOf(n) # {} THEN LiveOf(n) ELSE {Min(RowsOf(n))} :
                        Drop({i})
                  /\ UNCHANGED mounted
             [] OTHER -> UNCHANGED <<rows, live, mounted, touched>>
    /\ UNCHANGED <<stays, present, rules, changes, kept, walks, serving>>

\* The 600th timeout of select().  Only a review that is lost takes that long:
\* another one starts, but to put its future in the place of the former is to
\* wait for the end of the former.
StartReview ==
    /\ place["udev"] = "idle" /\ events = <<>>
    /\ \/ /\ place["review"] = "off"
          /\ Goto("review", "review")
       \/ /\ Lost("review")
          /\ place' = [place EXCEPT !["udev"] = "blocked", !["again"] = "review"]
    /\ UNCHANGED <<kernel, tables, todo, got, serving, touched>>
----------------------------------------------------------------------------
(* The D-Bus thread. *)

Serve(c) ==
    /\ place["dbus"] = "off" /\ calls < MaxCalls
    /\ call' = c /\ calls' = calls + 1
    /\ todo' = [todo EXCEPT !["dbus"] = IF c.method = "CanAnotherUserUnmount"
                                       THEN {} ELSE present]
    /\ Goto("dbus", CASE c.method = "ListDevices"  -> "listWalk"
                      [] c.method = "CanUserMount" -> "find"
                      [] OTHER                     -> "ask")
    /\ on' = Nothing /\ reply' = [text |-> "none", lines |-> {}]
    /\ stayed' = present /\ touched' = {}
    /\ UNCHANGED <<kernel, tables, got>>

Answer(text) ==
    /\ reply' = [text |-> text, lines |-> {}]
    /\ Goto("dbus", "off")
    /\ todo' = [todo EXCEPT !["dbus"] = {}]
    /\ got' = [got EXCEPT !["dbus"] = {}]
    /\ call' = NoCall /\ on' = Nothing
    /\ stayed' = {} /\ touched' = {}

\* CanAnotherUserUnmount
AskRow ==
    /\ place["dbus"] = "ask"
    /\ Answer(IF RowsOf(call.name) # {} THEN "YES" ELSE "UNKNOWN_MOUNTPOINT")
    /\ UNCHANGED <<kernel, tables, calls>>

\* FindUdevDeviceByBlockName, for CanUserMount.
Find ==
    /\ place["dbus"] = "find"
    /\ \E p \in todo["dbus"] :
          /\ Goto("dbus", IF p \notin present THEN "lost"
                          ELSE IF stays[p].name = call.name THEN "info" ELSE "find")
          /\ Pass("dbus", p)
          /\ on' = [on EXCEPT !.path = p]
    /\ UNCHANGED <<kernel, tables, got, call, reply, calls, stayed, touched>>

\* A device without ids, or whose properties are gone, is an exception, and
\* then the answer is YES.
NotFound ==
    /\ place["dbus"] = "find" /\ todo["dbus"] = {}
    /\ Answer("YES")
    /\ UNCHANGED <<kernel, tables, calls>>

\* Mutant of CanUserMount: the answer is NO for what is mounted already.
RefuseMounted ==
    /\ place["dbus"] = "info"
    /\ Answer(IF on.path \in present /\ RowsOf(call.name) # {} THEN "NO" ELSE "YES")
    /\ UNCHANGED <<kernel, tables, calls>>

CanUserMount ==
    /\ place["dbus"] = "info"
    /\ Answer(IF on.path \in present /\ Ruled(on.path) THEN "NO" ELSE "YES")
    /\ UNCHANGED <<kernel, tables, calls>>

Line(p, mount) == [path |-> p, mount |-> mount,
                   status |-> IF Ruled(p) THEN "owned" ELSE "free"]

Listed(line) ==
    /\ reply' = [reply EXCEPT !.lines = @ \cup {line}]
    /\ got' = [got EXCEPT !["dbus"] = @ \ {line.path}]

\* ListActiveDevices: look for a row of the next device,
FindRow ==
    /\ Walked("dbus", "listWalk")
    /\ \E p \in got["dbus"] :
          IF RowsOf(stays[p].name) = {}
          THEN Listed(Line(p, None)) /\ UNCHANGED <<place, on>>
          ELSE /\ \E i \in RowsOf(stays[p].name) :
                     on' = [path |-> p, row |-> i]
               /\ Goto("dbus", "read")
               /\ UNCHANGED <<got, reply>>
    /\ UNCHANGED <<kernel, tables, todo, call, calls, stayed, touched>>

\* Mutant of ReadRow: the call waits for a row that is gone.
WaitForRow ==
    /\ place["dbus"] = "read" /\ on.row \in DOMAIN rows
    /\ Listed(Line(on.path, rows[on.row].stick))
    /\ Goto("dbus", "listWalk") /\ on' = Nothing
    /\ UNCHANGED <<kernel, tables, todo, call, calls, stayed, touched>>

\* Mutant of ReadRow: the whole row instead of its mount point.
ReadWholeRow ==
    /\ place["dbus"] = "read"
    /\ IF on.row \in DOMAIN rows
       THEN /\ Listed(Line(on.path, rows[on.row]))
            /\ Goto("dbus", "listWalk") /\ on' = Nothing
            /\ UNCHANGED <<todo, call, stayed, touched>>
       ELSE Answer("error")
    /\ UNCHANGED <<kernel, tables, calls>>

\* and read it.  It may be gone, or another row may have its index.
ReadRow ==
    /\ place["dbus"] = "read"
    /\ IF on.row \in DOMAIN rows
       THEN /\ Listed(Line(on.path, rows[on.row].stick))
            /\ Goto("dbus", "listWalk") /\ on' = Nothing
            /\ UNCHANGED <<todo, call, stayed, touched>>
       ELSE Answer("error")
    /\ UNCHANGED <<kernel, tables, calls>>

SendList ==
    /\ Walked("dbus", "listWalk") /\ got["dbus"] = {}
    /\ Answer("list")
    /\ UNCHANGED <<kernel, tables, calls>>

\* SaveRules is served by the same thread.
ChangeRule(s) ==
    /\ place["dbus"] = "off" /\ changes < MaxChanges
    /\ rules' = IF s \in rules THEN rules \ {s} ELSE rules \cup {s}
    /\ kept' = kept \cap rules'
    /\ changes' = changes + 1
    /\ UNCHANGED <<kernel, rows, live, mounted, walks, serving, touched>>
----------------------------------------------------------------------------
(* The kernel. *)

\* Mutant of Announced: the socket is opened when the udev thread is ready.
AnnouncedLate(action, p) ==
    IF place["udev"] \in {"review", "scan", "reviewWalk", "start", "startWalk"} THEN events
    ELSE Append(events, [action |-> action, path |-> p])

Announced(action, p) == Append(events, [action |-> action, path |-> p])

\* A name is not given again while something is mounted under it.
FreeNames == {n \in Names : Named(n) = {} /\ LiveOf(n) = {}}

\* The first name that is free.
Plug(s) ==
    /\ Len(stays) < MaxPlugs /\ FreeNames # {}
    /\ \A p \in present : stays[p].stick # s
    /\ LET path == Len(stays) + 1
       IN  /\ stays' = Append(stays, [name |-> Min(FreeNames), stick |-> s])
           /\ present' = present \cup {path}
           /\ events' = Announced("add", path)
    /\ UNCHANGED <<tables, walks, serving, touched>>

Unplug(p) ==
    /\ present' = present \ {p} /\ stayed' = stayed \ {p}
    /\ events' = Announced("remove", p)
    /\ mounted' = mounted \ {p}
    /\ UNCHANGED <<stays, rules, rows, live, changes, kept, walks, call, on, reply,
                   calls, touched>>

\* Users may unmount what is mounted for them; no one tells the daemon.
UserUnmounts(i) ==
    /\ changes < MaxChanges /\ changes' = changes + 1
    /\ Enter(rows, live \ {i})
    /\ UNCHANGED <<kernel, rules, kept, mounted, walks, serving>>

Udev ==
    \/ Expire("udev") \/ Scan("udev") \/ Open("udev") \/ Clean("udev")
    \/ Apply \/ Applied \/ Receive \/ StartReview
Review(t) == Expire(t) \/ Scan(t) \/ Open(t) \/ Clean(t)
Dbus ==
    \/ Open("dbus") \/ FindRow \/ ReadRow \/ SendList
    \/ Find \/ NotFound \/ CanUserMount \/ AskRow

Next ==
    \/ Udev \/ Dbus \/ \E t \in Reviewers : Review(t)
    \/ \E c \in Calls : Serve(c)
    \/ \E s \in Sticks : ChangeRule(s) \/ Plug(s)
    \/ \E p \in present : Unplug(p)
    \/ \E i \in live : UserUnmounts(i)

\* The threads are scheduled.  Nobody has to call, or to plug anything in.
Fairness == WF_vars(Udev) /\ WF_vars(Dbus) /\ \A t \in Reviewers : WF_vars(Review(t))

Spec == Init /\ [][Next]_vars /\ Fairness
----------------------------------------------------------------------------
TypeOK ==
    /\ stays \in Seq(Stay) /\ present \subseteq Paths
    /\ stayed \subseteq Paths /\ mounted \subseteq present
    /\ events \in Seq([action : {"add", "remove"}, path : Paths])
    /\ kept \subseteq rules /\ rules \subseteq Sticks
    /\ IsTable(rows, Stay) /\ live \subseteq DOMAIN rows /\ touched \subseteq Names
    /\ place \in [Threads -> Places]
    /\ todo \in [Threads -> SUBSET Paths] /\ got \in [Threads -> SUBSET Paths]
    /\ call \in Calls \cup {NoCall}
    /\ on \in [path : Paths \cup {0}, row : Nat]
    /\ reply.text \in Answers /\ reply.lines \subseteq Lines
    /\ calls \in 0..MaxCalls /\ changes \in 0..MaxChanges

\* What a line of the list can say of the rows of a name.
Tells(mount, n) == IF RowsOf(n) = {} THEN mount = None
                   ELSE \E i \in RowsOf(n) : mount = rows[i].stick

Replying(method) == call.method = method /\ place["dbus"] # "off" /\ place'["dbus"] = "off"

\* ListDevices, whatever comes and goes meanwhile: a device that is there all
\* the time has a line, and one only, with its own status.  If nobody mounted
\* or unmounted under its name, the line tells a row of the name if there is
\* one; and if no row of the name is left from a mount that a user has undone,
\* it says rightly whether the device is mounted.
ListIsRight ==
    [][Replying("ListDevices") /\ reply'.text = "list" =>
          \A p \in stayed :
             LET n == stays[p].name
             IN  \E line \in reply.lines :
                    /\ \A other \in reply.lines : other.path = p => other = line
                    /\ line.path = p
                    /\ line.status = IF Ruled(p) THEN "owned" ELSE "free"
                    /\ n \notin touched => Tells(line.mount, n)
                    /\ n \notin touched /\ RowsOf(n) \subseteq live =>
                          line.mount = IF RowsOf(n) = {} THEN None
                                       ELSE stays[p].stick]_vars

\* CanUserMount never lets a user mount a stick with a rule that was there
\* under that name all through the call, mounted or not yet.
RuledIsRefused ==
    [][Replying("CanUserMount") =>
          \A p \in stayed :
             stays[p].name = call.name /\ Ruled(p) => reply'.text = "NO"]_vars

\* A call is answered unless its walk is lost.
CallsAnswered == place["dbus"] # "off" ~> place["dbus"] = "off" \/ Lost("dbus")

\* A stick plugged in at any time, also while the devices are listed at the
\* start, is mounted at least once if it stays and its rule does; unless a
\* walk of the udev thread, or of the review it then waits for, is lost.
RuledAreMounted ==
    \A p \in 1..MaxPlugs :
       (p \in present /\ stays[p].stick \in kept)
       ~> \/ p \in mounted \/ p \notin present \/ stays[p].stick \notin kept
          \/ Lost("udev") \/ Lost("review")
=============================================================================
