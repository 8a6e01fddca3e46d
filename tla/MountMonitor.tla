---------------------------- MODULE MountMonitor ----------------------------
(***************************************************************************)
(* The part of altusbd that mounts and unmounts: the udev thread           *)
(* (UdevMonitor::Run) and the review task that it starts with std::async   *)
(* every 600 idle seconds.  Both run the same code against                 *)
(*   - the kernel: which block devices are there, and /etc/mtab,           *)
(*   - the endpoint directories below the mount root,                      *)
(*   - the store mount_points (rows) and its file,                         *)
(* and nothing keeps them from running it at the same time.  Each look at  *)
(* and each change of the shared state is one step.  A call of the store   *)
(* is one step, which module Table justifies, and its save another.        *)
(*                                                                         *)
(* Devices stand for block devices of USB sticks with a filesystem that    *)
(* the daemon mounts.  The user_group directory between the mount root and *)
(* the endpoints is left out.                                              *)
(***************************************************************************)
EXTENDS Rows, Sequences, SequencesExt

CONSTANTS
    Devices,
    Names,       \* what an endpoint can be called
    Label,       \* Label[d], Uid[d]: ID_FS_LABEL and ID_FS_UUID of d
    Uid,
    NoName,      \* the label or uuid of a filesystem that has none
    Usb,         \* the name "usb"
    Blank,       \* the devices whose filesystem has no files in it
    Disks,       \* those with DEVTYPE=disk and a filesystem other than ntfs
    Periodic,    \* the daemon runs long enough for the periodic review
    MaxEnvironment  \* bound: steps of users, devices, kernel and administrator

Threads == {"udev", "review"}

ASSUME MonitorAssumption ==
    /\ Usb \in Names /\ NoName \notin Names
    /\ Devices # {} /\ Devices \cap (Names \cup {NoName}) = {}
    /\ Label \in [Devices -> Names \cup {NoName}]
    /\ Uid \in [Devices -> Names \cup {NoName}]
    /\ Blank \cup Disks \subseteq Devices
    /\ Periodic \in BOOLEAN
    /\ MaxEnvironment \in Nat

VARIABLES
    plugged,  \* the devices that are there
    events,   \* udev events waiting in the socket of the monitor
    mtab,     \* the mounts, oldest first
    dirs,     \* the endpoint directories
    rules,    \* the devices with a rule in permissions
    rows,     \* mount_points
    saved,    \* its file
    pc,       \* where each thread is
    task,     \* what it is at that place for: review, boot or event
    job,      \* its local variables
    beside,   \* history: while one thread was at its present work, the other
              \* was at work too
    budget    \* steps the environment may still make

kernel == <<plugged, mtab, dirs>>
tables == <<rows, saved>>
locals == <<pc, task, job, beside>>
vars   == <<kernel, events, rules, tables, locals, budget>>

\* A directory is a name and a number that stands for the suffix "_0", "_2",
\* "_3" ... (0: none).  Elsewhere is a directory outside the mount root.
Dirs         == Names \X Nat
Elsewhere(d) == <<d, 0>>
NoDir        == <<NoName, 0>>
At(d, x)     == [dev |-> d, dir |-> x]
OwnMounts    == [dev : Devices, dir : Dirs]
Entries      == OwnMounts \cup {At(d, Elsewhere(d)) : d \in Devices}

\* seen: the snapshot of the mount points; sweep: directories left to look at;
\* todo: devices listed, or left to unmount or mount; row: what Find returned.
Idle == [on |-> At(CHOOSE d \in Devices : TRUE, NoDir), seen |-> {},
         sweep |-> {}, todo |-> {}, row |-> 0]

Actions == {"add", "remove", "change"}
Places  == {"down", "dead", "off", "idle", "lost", "snapshot", "expire",
            "saveExpired", "sweep", "scan", "walk", "list", "next", "bootNext",
            "readMtab", "umount", "findRow", "rmdir", "delete", "save",
            "findRule", "readRule", "endpoint", "mount", "findEqual", "create"}
----------------------------------------------------------------------------
Mounts     == Range(mtab)
Mounted(d) == \E m \in Mounts : m.dev = d
Under(x)   == {i \in DOMAIN mtab : mtab[i].dir = x}

\* is_empty: a mount hides the directory below it.
IsEmpty(x) == Under(x) # {} => mtab[Max(Under(x))].dev \in Blank

\* umount2 detaches the latest mount on a directory.
Detached(x) == RemoveAt(mtab, Max(Under(x)))

RowsOf(d) == {i \in DOMAIN rows : rows[i].dev = d}
RowAt(e)  == {i \in DOMAIN rows : rows[i] = e}
First(s)  == CHOOSE i \in s : \A j \in s : i <= j

Goto(t, place) == pc' = [pc EXCEPT ![t] = place]
Keep(t, field) == job' = [job EXCEPT ![t] = field]

\* Mount and UnMount return to the loop they were called from.
Done(t) ==
    /\ Goto(t, CASE task[t] = "review" -> "next"
                 [] task[t] = "boot"   -> "bootNext"
                 [] OTHER              -> "idle")
    /\ job' = [job EXCEPT ![t] = [Idle EXCEPT !.todo = job[t].todo]]
    /\ UNCHANGED task

\* A thread that is lost reads the list of devices for ever.
AtWork(t) == pc[t] \notin {"off", "down", "dead", "idle", "lost"}

Dev(t) == job[t].on.dev
Dir(t) == job[t].on.dir

Init ==
    /\ plugged \in SUBSET Devices /\ rules \in SUBSET Devices
    /\ events = <<>> /\ mtab = <<>> /\ dirs = {}
    /\ rows = Empty /\ saved = Empty
    /\ pc = [t \in Threads |-> IF t = "udev" THEN "snapshot" ELSE "off"]
    /\ task = [t \in Threads |-> "review"]
    /\ job = [t \in Threads |-> Idle]
    /\ beside = FALSE /\ budget = MaxEnvironment
----------------------------------------------------------------------------
\* ReviewMountPoints.  What follows works from this snapshot.
Snapshot(t) ==
    /\ pc[t] = "snapshot"
    /\ Keep(t, [job[t] EXCEPT !.seen =
                   {m.dir : m \in Mounts} \cap Dirs])
    /\ Goto(t, "expire")
    /\ UNCHANGED <<kernel, events, rules, tables, task, budget, beside>>

\* Mutant of RemoveExpired: the test of the set is the wrong way round.
RemoveValid(t) ==
    /\ pc[t] = "expire"
    /\ rows' = Without(rows, {i \in DOMAIN rows :
                                 rows[i].dir \in job[t].seen})
    /\ Goto(t, "saveExpired")
    /\ UNCHANGED <<kernel, events, rules, saved, task, job, budget, beside>>

RemoveExpired(t) ==
    /\ pc[t] = "expire"
    /\ rows' = Without(rows, {i \in DOMAIN rows :
                                 rows[i].dir \notin job[t].seen})
    /\ Goto(t, "saveExpired")
    /\ UNCHANGED <<kernel, events, rules, saved, task, job, budget, beside>>

SaveExpired(t) ==
    /\ pc[t] = "saveExpired"
    /\ saved' = rows
    /\ Keep(t, [job[t] EXCEPT !.sweep = dirs])
    /\ Goto(t, "sweep")
    /\ UNCHANGED <<kernel, events, rules, rows, task, budget, beside>>

\* Mutant of Sweep: the directories are inspected and left where they are.
IdleSweep(t) ==
    /\ pc[t] = "sweep"
    /\ \E x \in job[t].sweep : Keep(t, [job[t] EXCEPT !.sweep = @ \ {x}])
    /\ UNCHANGED <<kernel, events, rules, tables, pc, task, budget, beside>>

\* One directory of the sweep.  The kernel does not remove a mount point: the
\* exception ends the sweep.
Sweep(t) ==
    /\ pc[t] = "sweep"
    /\ \E x \in job[t].sweep :
          LET remove == x \in dirs /\ IsEmpty(x) /\ x \notin job[t].seen
              busy   == Under(x) # {}
          IN  /\ dirs' = IF remove /\ ~busy THEN dirs \ {x} ELSE dirs
              /\ Keep(t, [job[t] EXCEPT !.sweep =
                             IF remove /\ busy THEN {} ELSE @ \ {x}])
    /\ UNCHANGED <<plugged, mtab, events, rules, tables, pc, task, budget, beside>>

\* Looking into a mount of a device that is gone is an I/O error, which ends
\* the sweep.
SweepFails(t) ==
    /\ pc[t] = "sweep"
    /\ \E x \in job[t].sweep :
          Under(x) # {} /\ mtab[Max(Under(x))].dev \notin plugged
    /\ Keep(t, [job[t] EXCEPT !.sweep = {}])
    /\ UNCHANGED <<kernel, events, rules, tables, pc, task, budget, beside>>

\* ReviewMountPoints returns, to ReviewConnectedDevices or to the event loop.
Swept(t) ==
    /\ pc[t] = "sweep" /\ job[t].sweep = {}
    /\ Goto(t, IF task[t] = "review" THEN "scan" ELSE "idle")
    /\ Keep(t, Idle)
    /\ UNCHANGED <<kernel, events, rules, tables, task, budget, beside>>

\* GetConnectedDevices lists the devices present and opens them one by one.
Scan(t) ==
    /\ pc[t] = "scan"
    /\ Keep(t, [Idle EXCEPT !.todo = {At(d, NoDir) : d \in plugged}])
    /\ Goto(t, "walk")
    /\ UNCHANGED <<kernel, events, rules, tables, task, budget, beside>>

\* Every device on the list was there when its turn came; see Unplug.  Its
\* callers are ReviewConnectedDevices and ApplyMountRulesIfNotMounted.
Walked(t) ==
    /\ pc[t] = "walk"
    /\ Goto(t, IF task[t] = "boot" THEN "bootNext" ELSE "list")
    /\ UNCHANGED <<kernel, events, rules, tables, task, job, budget, beside>>

\* ReviewConnectedDevices: the devices present, and then the rows.
List(t) ==
    /\ pc[t] = "list"
    /\ Keep(t, [Idle EXCEPT !.todo =
                   {m \in Range(rows) : At(m.dev, NoDir) \notin job[t].todo}])
    /\ Goto(t, "next")
    /\ UNCHANGED <<kernel, events, rules, tables, task, budget, beside>>

NextExpired(t) ==
    /\ pc[t] = "next"
    /\ \E m \in job[t].todo :
          Keep(t, [job[t] EXCEPT !.on = At(m.dev, NoDir), !.todo = @ \ {m}])
    /\ Goto(t, "readMtab")
    /\ UNCHANGED <<kernel, events, rules, tables, task, budget, beside>>

\* The first review is part of the start; the others are tasks of their own.
Reviewed(t) ==
    /\ pc[t] = "next" /\ job[t].todo = {}
    /\ Goto(t, IF t = "udev" THEN "scan" ELSE "off")
    /\ task' = [task EXCEPT ![t] = IF t = "udev" THEN "boot" ELSE "review"]
    /\ Keep(t, Idle)
    /\ UNCHANGED <<kernel, events, rules, tables, budget, beside>>

Review(t) ==
    \/ Snapshot(t) \/ RemoveExpired(t) \/ SaveExpired(t) \/ Sweep(t)
    \/ SweepFails(t) \/ Swept(t) \/ Scan(t) \/ Walked(t) \/ List(t)
    \/ NextExpired(t) \/ Reviewed(t)
----------------------------------------------------------------------------
\* CustomMount::UnMount
ReadMtab(t) ==
    /\ pc[t] = "readMtab"
    /\ LET mine == {i \in DOMAIN mtab : mtab[i].dev = Dev(t)}
       IN  IF mine = {}
           THEN Goto(t, "findRow") /\ UNCHANGED job
           ELSE /\ Keep(t, [job[t] EXCEPT !.on = mtab[First(mine)]])
                /\ Goto(t, "umount")
    /\ UNCHANGED <<kernel, events, rules, tables, task, budget, beside>>

Umount(t) ==
    /\ pc[t] = "umount" /\ Under(Dir(t)) # {}
    /\ mtab' = Detached(Dir(t))
    /\ Goto(t, "findRow")
    /\ UNCHANGED <<plugged, dirs, events, rules, tables, task, job, budget, beside>>

\* The mount is busy, or somebody else unmounted it.
UmountFails(t) ==
    /\ pc[t] = "umount"
    /\ Done(t)
    /\ UNCHANGED <<kernel, events, rules, tables, budget, beside>>

FindRow(t) ==
    /\ pc[t] = "findRow"
    /\ LET found == IF Dir(t) = NoDir THEN RowsOf(Dev(t))
                    ELSE RowAt(job[t].on)
       IN  IF found = {} THEN Done(t)
           ELSE /\ Keep(t, [job[t] EXCEPT !.row = First(found)])
                /\ Goto(t, "rmdir") /\ UNCHANGED task
    /\ UNCHANGED <<kernel, events, rules, tables, budget, beside>>

\* RemoveMountPoint
Removed(x) == IF IsEmpty(x) /\ Under(x) = {} THEN dirs \ {x} ELSE dirs

RemoveDir(t) ==
    /\ pc[t] = "rmdir"
    /\ dirs' = Removed(Dir(t))
    /\ Goto(t, "delete")
    /\ UNCHANGED <<plugged, mtab, events, rules, tables, task, job, budget, beside>>

\* By the index found before, whatever row has it now.
DeleteRow(t) ==
    /\ pc[t] = "delete"
    /\ rows' = Without(rows, {job[t].row})
    /\ Goto(t, "save")
    /\ UNCHANGED <<kernel, events, rules, saved, task, job, budget, beside>>

Save(t) ==
    /\ pc[t] = "save"
    /\ saved' = rows
    /\ Done(t)
    /\ UNCHANGED <<kernel, events, rules, rows, budget, beside>>

UnMount(t) ==
    \/ ReadMtab(t) \/ Umount(t) \/ UmountFails(t) \/ FindRow(t)
    \/ RemoveDir(t) \/ DeleteRow(t)
----------------------------------------------------------------------------
\* CustomMount::Mount, in the udev thread
FindRule(t) ==
    /\ pc[t] = "findRule"
    /\ IF Dev(t) \in rules
       THEN Goto(t, "readRule") /\ UNCHANGED <<task, job>> ELSE Done(t)
    /\ UNCHANGED <<kernel, events, rules, tables, budget, beside>>

\* The threads are gone and with them the socket.  A save that was under way
\* can leave an empty file, or a part of one, with which the daemon cannot
\* start.
Die ==
    /\ LET saving == \E t \in Threads : pc[t] \in {"save", "saveExpired"}
       IN  \E place \in {"down"} \cup IF saving THEN {"dead"} ELSE {} :
              /\ pc' = [t \in Threads |-> IF t = "udev" THEN place ELSE "off"]
              /\ saved' \in {saved} \cup IF saving /\ place = "down" THEN {Empty} ELSE {}
    /\ task' = [t \in Threads |-> "review"]
    /\ job' = [t \in Threads |-> Idle]
    /\ events' = <<>> /\ beside' = FALSE

\* Read throws when the rule was deleted since it was found, and Mount is
\* noexcept: the process is terminated.
ReadRule(t) ==
    /\ pc[t] = "readRule"
    /\ CASE Dev(t) \notin rules -> Die
         [] Dev(t) \in rules \cap Disks ->
              Done(t) /\ UNCHANGED <<events, saved, beside>>
         [] OTHER ->
              Goto(t, "endpoint") /\ UNCHANGED <<task, job, events, saved, beside>>
    /\ UNCHANGED <<kernel, rules, rows, budget>>

\* Mutant of Endpoint: a filesystem is not expected to be without a uuid.
UuidEndpoint(d) ==
    <<IF Label[d] # NoName /\ <<Label[d], 0>> \notin dirs
      THEN Label[d] ELSE Uid[d], 0>>

\* Mutant of Endpoint: a directory that has something in it is used again.
SharedEndpoint(d) ==
    <<IF Label[d] # NoName /\ <<Label[d], 0>> \notin dirs
      THEN Label[d] ELSE IF Uid[d] # NoName THEN Uid[d] ELSE Usb, 0>>

\* CreateMountEndpoint: the label unless a directory has that name, or else
\* the uuid, or else "usb"; with the first suffix that names no directory
\* with something in it.
Endpoint(d) ==
    LET name == IF Label[d] # NoName /\ <<Label[d], 0>> \notin dirs
                THEN Label[d] ELSE IF Uid[d] # NoName THEN Uid[d] ELSE Usb
        usable == {k \in 0..Len(mtab) :
                     <<name, k>> \notin dirs \/ IsEmpty(<<name, k>>)}
    IN  <<name, First(usable)>>

MakeEndpoint(t) ==
    /\ pc[t] = "endpoint"
    /\ dirs' = dirs \cup {Endpoint(Dev(t))}
    /\ Keep(t, [job[t] EXCEPT !.on.dir = Endpoint(Dev(t))])
    /\ Goto(t, "mount")
    /\ UNCHANGED <<plugged, mtab, events, rules, tables, task, budget, beside>>

\* The ACL of the parent, or the owner or mode of the endpoint, is refused.
EndpointFails(t) ==
    /\ pc[t] = "endpoint"
    /\ dirs' \in {dirs, dirs \cup {Endpoint(Dev(t))}}
    /\ Done(t)
    /\ UNCHANGED <<plugged, mtab, events, rules, tables, budget, beside>>

\* PerfomMount, read-write or else read-only.  The kernel refuses to mount a
\* device a second time on top of itself.
PerfomMount(t) ==
    /\ pc[t] = "mount"
    /\ Dir(t) \in dirs /\ Dev(t) \in plugged
    /\ Under(Dir(t)) # {} => mtab[Max(Under(Dir(t)))].dev # Dev(t)
    /\ mtab' = Append(mtab, job[t].on)
    /\ Goto(t, "findEqual")
    /\ UNCHANGED <<plugged, dirs, events, rules, tables, task, job, budget, beside>>

MountFails(t) ==
    /\ pc[t] = "mount"
    /\ dirs' = Removed(Dir(t))
    /\ Done(t)
    /\ UNCHANGED <<plugged, mtab, events, rules, tables, budget, beside>>

\* Mutant of FindEqual: Create inserts without looking for an equal row.
FindNothing(t) ==
    /\ pc[t] = "findEqual"
    /\ Goto(t, "create")
    /\ UNCHANGED <<kernel, events, rules, tables, task, job, budget, beside>>

\* Mountpoints::Create: look for an equal row, then insert.
FindEqual(t) ==
    /\ pc[t] = "findEqual"
    /\ IF RowAt(job[t].on) # {} THEN Done(t)
       ELSE Goto(t, "create") /\ UNCHANGED <<task, job>>
    /\ UNCHANGED <<kernel, events, rules, tables, budget, beside>>

CreateRow(t) ==
    /\ pc[t] = "create"
    /\ rows' = Inserted(rows, job[t].on)
    /\ Goto(t, "save")
    /\ UNCHANGED <<kernel, events, rules, saved, task, job, budget, beside>>

Mount(t) ==
    \/ FindRule(t) \/ ReadRule(t) \/ MakeEndpoint(t) \/ EndpointFails(t)
    \/ PerfomMount(t) \/ MountFails(t) \/ FindEqual(t) \/ CreateRow(t)
----------------------------------------------------------------------------
\* ProcessDevice: what is done about a device.
Response(action, d) ==
    CASE action = "add" /\ d \in rules -> "findRule"
      [] action = "remove" /\ RowsOf(d) # {} -> "readMtab"
      [] action = "change" /\ RowsOf(d) # {} -> "snapshot"
      [] OTHER -> "idle"

ReceiveDevice ==
    /\ pc["udev"] = "idle" /\ events # <<>>
    /\ events' = Tail(events)
    /\ LET e == Head(events)
       IN  /\ Goto("udev", Response(e.action, e.dev))
           /\ IF Response(e.action, e.dev) = "idle" THEN UNCHANGED <<job, beside>>
              ELSE /\ Keep("udev", [Idle EXCEPT !.on = At(e.dev, NoDir)])
                   /\ beside' = AtWork("review")
    /\ UNCHANGED <<kernel, rules, tables, task, budget>>

\* ApplyMountRulesIfNotMounted
BootNext ==
    /\ pc["udev"] = "bootNext"
    /\ \E m \in job["udev"].todo :
          LET rest == [Idle EXCEPT !.todo = job["udev"].todo \ {m}]
              go   == Response("add", m.dev) # "idle" /\ ~Mounted(m.dev)
          IN  /\ Keep("udev", IF go THEN [rest EXCEPT !.on = m] ELSE rest)
              /\ Goto("udev", IF go THEN "findRule" ELSE "bootNext")
    /\ UNCHANGED <<kernel, events, rules, tables, task, budget, beside>>

Booted ==
    /\ pc["udev"] = "bootNext" /\ job["udev"].todo = {}
    /\ Goto("udev", "idle")
    /\ task' = [task EXCEPT !["udev"] = "event"]
    /\ UNCHANGED <<kernel, events, rules, tables, job, budget, beside>>

\* The 600th timeout of select().  A review is over long before the next one,
\* unless it is lost: then another one starts, but to put its future in the
\* place of the former is to wait for the end of the former.
StartReview ==
    /\ Periodic /\ pc["udev"] = "idle" /\ events = <<>>
    /\ pc["review"] \in {"off", "lost"}
    /\ pc' = [udev   |-> IF pc["review"] = "lost" THEN "lost" ELSE "idle",
              review |-> "snapshot"]
    /\ Keep("review", Idle) /\ beside' = FALSE
    /\ UNCHANGED <<kernel, events, rules, tables, task, budget>>

\* systemd: Restart=always.  The store is read from its file.
Restart ==
    /\ pc["udev"] = "down"
    /\ Goto("udev", "snapshot")
    /\ rows' = saved
    /\ UNCHANGED <<kernel, events, rules, saved, task, job, budget, beside>>

Step(t) == Review(t) \/ UnMount(t) \/ Mount(t) \/ Save(t)

Monitor == ReceiveDevice \/ BootNext \/ Booted \/ Restart
----------------------------------------------------------------------------
\* The environment.
Spend == budget > 0 /\ budget' = budget - 1

Announced(action, d) ==
    IF pc["udev"] \in {"down", "dead"} THEN events
    ELSE Append(events, [action |-> action, dev |-> d])

\* The kernel does not give the name of a device to another while the former
\* is still mounted.
Plug(d) ==
    /\ Spend /\ d \notin plugged /\ ~Mounted(d)
    /\ plugged' = plugged \cup {d}
    /\ events' = Announced("add", d)
    /\ UNCHANGED <<mtab, dirs, rules, tables, locals>>

\* A walk that has not come to the device yet never gets past it: continue
\* comes before the step to the next entry.
Unplug(d) ==
    /\ Spend /\ d \in plugged
    /\ plugged' = plugged \ {d}
    /\ events' = Announced("remove", d)
    /\ \E lost \in SUBSET {t \in Threads : pc[t] = "walk" /\ At(d, NoDir) \in job[t].todo} :
          pc' = [t \in Threads |-> IF t \in lost THEN "lost" ELSE pc[t]]
    /\ UNCHANGED <<mtab, dirs, rules, tables, task, job, beside>>

\* A medium changes, or udevadm trigger announces what is there once more.
Trigger(d) ==
    /\ Spend /\ d \in plugged
    /\ \E action \in {"add", "change"} : events' = Announced(action, d)
    /\ UNCHANGED <<kernel, rules, tables, locals>>

UserUnmounts(x) ==
    /\ Spend /\ Under(x) # {}
    /\ mtab' = Detached(x)
    /\ UNCHANGED <<plugged, dirs, events, rules, tables, locals>>

\* The answer to polkit lets users mount only what has no rule.
UserMounts(d) ==
    /\ Spend /\ d \in plugged \ rules /\ ~Mounted(d)
    /\ mtab' = Append(mtab, At(d, Elsewhere(d)))
    /\ UNCHANGED <<plugged, dirs, events, rules, tables, locals>>

\* SaveRules in the D-Bus thread.
ChangeRule(d) ==
    /\ Spend
    /\ rules' = IF d \in rules THEN rules \ {d} ELSE rules \cup {d}
    /\ UNCHANGED <<kernel, events, tables, locals>>

Crash ==
    /\ Spend /\ pc["udev"] \notin {"down", "dead"}
    /\ Die
    /\ UNCHANGED <<kernel, rules, rows>>

Environment ==
    \/ \E d \in Devices :
          Plug(d) \/ Unplug(d) \/ Trigger(d) \/ UserMounts(d) \/ ChangeRule(d)
    \/ \E x \in {m.dir : m \in Mounts} : UserUnmounts(x)
    \/ Crash

Next == Environment \/ Monitor \/ StartReview \/ \E t \in Threads : Step(t)

\* Both threads are scheduled, the timer goes off again and again, systemd
\* restarts the daemon; the environment owes nothing.
Fairness ==
    /\ WF_vars(Monitor) /\ WF_vars(StartReview)
    /\ \A t \in Threads : WF_vars(Step(t))

Spec == Init /\ [][Next]_vars /\ Fairness
----------------------------------------------------------------------------
IsRows(r) == IsTable(r, OwnMounts)

TypeOK ==
    /\ plugged \subseteq Devices /\ rules \subseteq Devices
    /\ events \in Seq([action : Actions, dev : Devices])
    /\ mtab \in Seq(Entries) /\ dirs \subseteq Dirs
    /\ IsRows(rows) /\ IsRows(saved)
    /\ pc \in [Threads -> Places]
    /\ task \in [Threads -> {"review", "boot", "event"}]
    /\ \A t \in Threads :
          /\ job[t].on.dev \in Devices
          /\ job[t].on.dir \in Dirs \cup {NoDir, Elsewhere(Dev(t))}
          /\ job[t].sweep \subseteq Dirs /\ job[t].row \in Nat
    /\ beside \in BOOLEAN /\ budget \in 0..MaxEnvironment

\* No mount is entered twice, whatever was left of the rows of an earlier
\* one: Delete and Find, which take the first row they meet, would leave the
\* other behind.
UniqueRows == \A i, j \in DOMAIN rows : rows[i] = rows[j] => i = j

\* The daemon mounts nothing over a mount that has files in it, also when it
\* finds the directories and mounts of an earlier life.
NoMountOverMount ==
    \A i, j \in DOMAIN mtab :
        i < j /\ mtab[i].dir = mtab[j].dir => mtab[i].dev \in Blank

MountDirs == {m.dir : m \in Mounts}

\* Busy: a device that is gone stays mounted.  Stuck: a walk over the devices
\* that never ends, or a file with which the daemon does not start.
Busy  == \E m \in Mounts : m.dev \notin plugged
Stuck == \E t \in Threads : pc[t] \in {"lost", "dead"}

\* Once users and devices are quiet, reviews bring the table and the
\* directories in line with the kernel and they stay so: no row of a directory
\* without a mount, no directory without a mount on it.  Three things prevent
\* it: a mount that is busy, which the sweep may never get past; a stick that
\* was pulled out during a walk, which leaves a thread lost until the daemon
\* is started again; and a file written in part.
Settles ==
    <>[](~Busy /\ ~Stuck)
    => <>[]({e.dir : e \in Range(rows)} \cup dirs \subseteq MountDirs)

\* mount_points.hpp: "Remove expired values from the mount_points table".  A
\* row is dropped only when its mount is gone (a restart, which reads the file,
\* aside).  Two threads at work at once drop others, and so does the end of a
\* filesystem without files, over which another was mounted.
RowsOutliveMounts ==
    [][pc["udev"] # "down" /\ ~beside =>
          {e \in Range(rows) \cap Mounts : e.dev \notin Blank} \subseteq Range(rows')]_rows

BlankAt(x) == \E m \in Mounts : m.dir = x /\ m.dev \in Blank

\* Unmounting a device detaches a mount of that device and not what has come to
\* lie on its directory, whatever users mount and unmount in between; unless
\* the other thread is at work too, or a filesystem without files, which is
\* mounted over, is on the directory.
UnmountsOwn ==
    [][\A t \in Threads :
          pc[t] = "umount" /\ pc'[t] = "findRow" /\ ~beside /\ ~BlankAt(Dir(t)) =>
              mtab[Max(Under(Dir(t)))].dev = Dev(t)]_vars

\* udev_monitor.hpp: "Review connected devices and unmount mountpoints for
\* which devices are not present".
ReviewUnmountsAbsent ==
    [][\A t \in Threads :
          task[t] = "review" /\ pc[t] = "umount" /\ pc'[t] = "findRow" =>
              Dev(t) \notin plugged]_vars
=============================================================================
