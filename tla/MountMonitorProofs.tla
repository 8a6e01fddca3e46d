------------------------ MODULE MountMonitorProofs ------------------------
(***************************************************************************)
(* Proofs about MountMonitor for any devices, names and bounds, with the   *)
(* periodic review beside the udev thread: the types, that no mount is     *)
(* entered twice, that nothing is mounted over files in use, that rows     *)
(* outlive their mounts, and that the mount detached is the device's own.  *)
(***************************************************************************)
EXTENDS MountMonitor, RowsProofs, FiniteSetTheorems

AnyMount == [dev : Devices, dir : Dirs \cup {NoDir}]
              \cup {At(d, Elsewhere(d)) : d \in Devices}

Job == [on : AnyMount, seen : SUBSET Dirs, sweep : SUBSET Dirs,
        todo : SUBSET AnyMount, row : Nat]

Event == [action : Actions, dev : Devices]

ThreadTypes ==
    /\ pc \in [Threads -> Places]
    /\ task \in [Threads -> {"review", "boot", "event"}]
    /\ job \in [Threads -> Job]

KernelTypes ==
    /\ plugged \subseteq Devices
    /\ mtab \in Seq(Entries) /\ dirs \subseteq Dirs

StoreTypes == IsStore(rows, OwnMounts) /\ IsStore(saved, OwnMounts)

OtherTypes ==
    /\ rules \subseteq Devices
    /\ events \in Seq(Event)
    /\ beside \in BOOLEAN /\ budget \in 0..MaxEnvironment

\* Only the udev thread mounts, and it does so below the mount root.
Mounting == {"findRule", "readRule", "endpoint", "mount", "findEqual", "create"}

Roles ==
    /\ pc["review"] \notin Mounting /\ task["review"] = "review"
    /\ pc["udev"] \in {"mount", "findEqual", "create"} => Dir("udev") \in Dirs

Types == ThreadTypes /\ KernelTypes /\ StoreTypes /\ OtherTypes /\ Roles
-----------------------------------------------------------------------------
LEMMA FirstIsLeast ==
  ASSUME NEW s, s \subseteq Nat, s # {}
  PROVE  First(s) \in s /\ \A i \in s : First(s) <= i
<1>1. Min(s) \in s /\ \A i \in s : Min(s) <= i
  BY MinOfIds
<1> QED
  BY <1>1 DEF First

LEMMA IdleIsJob ==
  Idle \in Job /\ \A s \in SUBSET AnyMount : [Idle EXCEPT !.todo = s] \in Job
<1>1. (CHOOSE d \in Devices : TRUE) \in Devices
  BY MonitorAssumption
<1>2. At(CHOOSE d \in Devices : TRUE, NoDir) \in AnyMount
  BY <1>1 DEF At, AnyMount
<1> QED
  BY <1>2 DEF Idle, Job

LEMMA EntriesAreMounts ==
  /\ Entries \subseteq AnyMount /\ OwnMounts \subseteq AnyMount
  /\ OwnMounts \subseteq Entries
  /\ \A d \in Devices : At(d, NoDir) \in AnyMount
BY DEF Entries, AnyMount, OwnMounts, At

\* The directories of users are not below the mount root.
LEMMA ElsewhereIsNotOwn ==
  ASSUME NEW d \in Devices
  PROVE  /\ Elsewhere(d) \notin Dirs /\ NoDir \notin Dirs
         /\ At(d, Elsewhere(d)) \in Entries
         /\ \A e \in Entries : e.dir = Elsewhere(d) => e.dev = d
<1>1. d \notin Names /\ NoName \notin Names
  BY MonitorAssumption
<1>2. Elsewhere(d) \notin Dirs /\ NoDir \notin Dirs
  BY <1>1 DEF Elsewhere, NoDir, Dirs
<1>3. ASSUME NEW e \in Entries, e.dir = Elsewhere(d) PROVE e.dev = d
  <2>1. e \notin OwnMounts
    BY <1>2, <1>3 DEF OwnMounts
  <2>2. PICK c \in Devices : e = At(c, Elsewhere(c))
    BY <1>3, <2>1 DEF Entries
  <2> QED
    BY <1>3, <2>2 DEF At, Elsewhere
<1> QED
  BY <1>2, <1>3 DEF Entries

\* The latest mount on a directory.
LEMMA TopOfStack ==
  ASSUME mtab \in Seq(Entries), NEW x, Under(x) # {}
  PROVE  Max(Under(x)) \in Under(x) /\ \A i \in Under(x) : i <= Max(Under(x))
<1>1. Len(mtab) \in Nat /\ Under(x) \subseteq 0..Len(mtab)
  BY DEF Under
<1> QED
  BY <1>1, MaxOfBounded

\* What is left of a sequence from which one element is taken.
LEMMA RemovedAt ==
  ASSUME NEW T, NEW s \in Seq(T), NEW n \in DOMAIN s
  PROVE  /\ RemoveAt(s, n) \in Seq(T) /\ Len(RemoveAt(s, n)) = Len(s) - 1
         /\ \A i \in DOMAIN RemoveAt(s, n) :
               RemoveAt(s, n)[i] = IF i < n THEN s[i] ELSE s[i + 1]
<1>1. n \in 1..Len(s) /\ Len(s) \in Nat /\ n \in Nat
  OBVIOUS
<1> DEFINE a == SubSeq(s, 1, n - 1)
           b == SubSeq(s, n + 1, Len(s))
<1>2. /\ a \in Seq(T) /\ Len(a) = n - 1
      /\ \A i \in 1..(n - 1) : a[i] = s[i]
  BY <1>1
<1>3. /\ b \in Seq(T) /\ Len(b) = Len(s) - n
      /\ \A i \in 1..(Len(s) - n) : b[i] = s[i + n]
  BY <1>1
<1> HIDE DEF a, b
<1>4. /\ a \o b \in Seq(T) /\ Len(a \o b) = Len(s) - 1
      /\ \A i \in 1..(n - 1) : (a \o b)[i] = a[i]
      /\ \A i \in n..(Len(s) - 1) : (a \o b)[i] = b[i - (n - 1)]
  BY <1>1, <1>2, <1>3
<1>5. ASSUME NEW i \in Nat, i \in 1..(Len(s) - 1)
      PROVE  (a \o b)[i] = IF i < n THEN s[i] ELSE s[i + 1]
  <2>1. CASE i < n
    <3>1. i \in 1..(n - 1)
      BY <1>1, <1>5, <2>1
    <3> QED
      BY <1>2, <1>4, <2>1, <3>1
  <2>2. CASE ~(i < n)
    <3> DEFINE k == i - (n - 1)
    <3>1. i \in n..(Len(s) - 1) /\ k \in 1..(Len(s) - n) /\ k + n = i + 1
      BY <1>1, <1>5, <2>2
    <3>2. (a \o b)[i] = b[k]
      BY <1>4, <3>1
    <3> HIDE DEF k
    <3>3. b[k] = s[k + n]
      BY <1>3, <3>1
    <3> QED
      BY <2>2, <3>1, <3>2, <3>3
  <2> QED
    BY <2>1, <2>2
<1>6. RemoveAt(s, n) = a \o b
  BY DEF RemoveAt, a, b
<1>7. DOMAIN (a \o b) = 1..(Len(s) - 1) /\ \A i \in 1..(Len(s) - 1) : i \in Nat
  BY <1>1, <1>4
<1> QED
  BY <1>4, <1>5, <1>6, <1>7

\* Detaching the latest mount of a directory leaves the others, in their order.
LEMMA DetachedMounts ==
  ASSUME mtab \in Seq(Entries), NEW x, Under(x) # {}
  PROVE  /\ Detached(x) \in Seq(Entries)
         /\ \A i \in DOMAIN Detached(x) :
               \E k \in DOMAIN mtab : /\ Detached(x)[i] = mtab[k]
                                      /\ k = i \/ k = i + 1
         /\ \A i, j \in DOMAIN Detached(x) : i < j =>
               \E k, l \in DOMAIN mtab :
                  k < l /\ Detached(x)[i] = mtab[k] /\ Detached(x)[j] = mtab[l]
<1> DEFINE n == Max(Under(x))
           r == RemoveAt(mtab, n)
<1>1. n \in DOMAIN mtab
  BY TopOfStack DEF Under
<1> HIDE DEF n
<1>2. /\ r \in Seq(Entries) /\ Len(r) = Len(mtab) - 1
      /\ \A i \in DOMAIN r : r[i] = IF i < n THEN mtab[i] ELSE mtab[i + 1]
  BY <1>1, RemovedAt
<1> HIDE DEF r
<1>3. Detached(x) = r
  BY DEF Detached, r, n
<1>4. DOMAIN mtab = 1..Len(mtab) /\ DOMAIN r = 1..(Len(mtab) - 1) /\ Len(mtab) \in Nat
  BY <1>2
<1>5. n \in Nat
  BY <1>1, <1>4
<1> DEFINE old(i) == IF i < n THEN i ELSE i + 1
<1>6. ASSUME NEW i \in DOMAIN r
      PROVE  old(i) \in DOMAIN mtab /\ r[i] = mtab[old(i)] /\ i \in Nat
  BY <1>2, <1>4, <1>5
<1>7. \A i, j \in DOMAIN r : i < j => old(i) < old(j)
  BY <1>4, <1>5
<1>8. \A i \in DOMAIN r : old(i) = i \/ old(i) = i + 1
  OBVIOUS
<1> HIDE DEF old
<1> QED
  BY <1>2, <1>3, <1>6, <1>7, <1>8
-----------------------------------------------------------------------------
(* Types.                                                                    *)

\* Mount and UnMount return to a loop that does not mount.
LEMMA DoneTypes ==
  ASSUME Types, NEW t \in Threads, Done(t)
  PROVE  ThreadTypes' /\ Roles'
<1>1. job[t].todo \in SUBSET AnyMount
  BY DEF Types, ThreadTypes, Job
<1>2. [Idle EXCEPT !.todo = job[t].todo] \in Job
  BY <1>1, IdleIsJob
<1>3. job' = [job EXCEPT ![t] = [Idle EXCEPT !.todo = job[t].todo]] /\ task' = task
  BY DEF Done
<1>4. job' \in [Threads -> Job]
  BY <1>2, <1>3 DEF Types, ThreadTypes
<1>5. PICK p \in {"next", "bootNext", "idle"} : pc' = [pc EXCEPT ![t] = p]
  BY DEF Done, Goto
<1>6. pc' \in [Threads -> Places]
  BY <1>5 DEF Types, ThreadTypes, Places
<1>7. pc'[t] \notin Mounting
  BY <1>5 DEF Types, ThreadTypes, Mounting
<1>8. Roles'
  <2>1. CASE t = "udev"
    BY <1>3, <1>5, <2>1 DEF Types, ThreadTypes, Roles, Threads, Mounting
  <2>2. CASE t = "review"
    BY <1>3, <1>5, <2>2 DEF Types, ThreadTypes, Roles, Threads, Mounting, Dir
  <2> QED
    BY <2>1, <2>2 DEF Threads
<1> QED
  BY <1>3, <1>4, <1>6, <1>8 DEF Types, ThreadTypes

\* A thread that goes elsewhere, with other local variables, is typed.
LEMMA GotoTypes ==
  ASSUME Types, NEW t \in Threads, NEW p \in Places \ Mounting, NEW j \in Job,
         Goto(t, p), job' = [job EXCEPT ![t] = j],
         NEW k \in {"review", "boot", "event"}, task' = [task EXCEPT ![t] = k],
         t = "review" => k = "review"
  PROVE  ThreadTypes' /\ Roles'
<1>1. /\ pc' \in [Threads -> Places] /\ job' \in [Threads -> Job]
      /\ task' \in [Threads -> {"review", "boot", "event"}]
  BY DEF Goto, Types, ThreadTypes
<1>2. pc'[t] \notin Mounting
  BY DEF Goto, Types, ThreadTypes
<1>3. Roles'
  <2>1. CASE t = "udev"
    BY <1>2, <2>1 DEF Goto, Types, ThreadTypes, Roles, Threads, Mounting
  <2>2. CASE t = "review"
    BY <1>2, <2>2 DEF Goto, Types, ThreadTypes, Roles, Threads, Mounting, Dir
  <2> QED
    BY <2>1, <2>2 DEF Threads
<1> QED
  BY <1>1, <1>3 DEF ThreadTypes

\* The same for a step that stays where it is, or keeps its variables.
LEMMA MoveTypes ==
  ASSUME Types, NEW t \in Threads,
         NEW p \in Places \ Mounting, Goto(t, p) \/ (p = pc[t] /\ pc' = pc),
         NEW j \in Job, Keep(t, j) \/ (j = job[t] /\ job' = job), task' = task
  PROVE  ThreadTypes' /\ Roles'
<1>1. Goto(t, p)
  BY DEF Goto, Types, ThreadTypes
<1>2. job' = [job EXCEPT ![t] = j]
  BY DEF Keep, Types, ThreadTypes
<1>3. task' = [task EXCEPT ![t] = task[t]] /\ task[t] \in {"review", "boot", "event"}
  BY DEF Types, ThreadTypes
<1>4. t = "review" => task[t] = "review"
  BY DEF Types, Roles
<1> QED
  BY <1>1, <1>2, <1>3, <1>4, GotoTypes

LEMMA JobFields ==
  ASSUME NEW j \in Job
  PROVE  /\ \A s \in SUBSET Dirs : [j EXCEPT !.seen = s] \in Job
         /\ \A s \in SUBSET Dirs : [j EXCEPT !.sweep = s] \in Job
         /\ \A s \in SUBSET AnyMount : [j EXCEPT !.todo = s] \in Job
         /\ \A m \in AnyMount : [j EXCEPT !.on = m] \in Job
         /\ \A m \in AnyMount, s \in SUBSET AnyMount :
               [j EXCEPT !.on = m, !.todo = s] \in Job
         /\ \A i \in Nat : [j EXCEPT !.row = i] \in Job
         /\ j.on \in AnyMount /\ j.sweep \subseteq Dirs /\ j.todo \subseteq AnyMount
BY DEF Job

LEMMA ReviewTypes ==
  ASSUME Types, NEW t \in Threads, Review(t) PROVE Types'
<1> USE DEF kernel, tables
<1>1. job[t] \in Job /\ pc[t] \in Places
  BY DEF Types, ThreadTypes
<1>2. \A p \in {"snapshot", "expire", "saveExpired", "sweep", "scan", "walk", "list",
                "next", "bootNext", "off", "idle", "readMtab"} : p \in Places \ Mounting
  BY DEF Places, Mounting
<1>3. CASE Snapshot(t)
  <2>1. {m.dir : m \in Mounts} \cap Dirs \in SUBSET Dirs
    OBVIOUS
  <2>2. ThreadTypes' /\ Roles'
    BY <1>1, <1>2, <1>3, <2>1, JobFields, MoveTypes DEF Snapshot
  <2> QED
    BY <1>3, <2>2 DEF Snapshot, Types, KernelTypes, StoreTypes, OtherTypes
<1>4. CASE RemoveExpired(t)
  <2>1. ThreadTypes' /\ Roles'
    BY <1>1, <1>2, <1>4, MoveTypes DEF RemoveExpired
  <2>2. StoreTypes'
    BY <1>4, WithoutIsStore DEF RemoveExpired, Types, StoreTypes
  <2> QED
    BY <1>4, <2>1, <2>2 DEF RemoveExpired, Types, KernelTypes, OtherTypes
<1>5. CASE SaveExpired(t)
  <2>1. dirs \in SUBSET Dirs
    BY DEF Types, KernelTypes
  <2>2. ThreadTypes' /\ Roles'
    BY <1>1, <1>2, <1>5, <2>1, JobFields, MoveTypes DEF SaveExpired
  <2>3. StoreTypes'
    BY <1>5 DEF SaveExpired, Types, StoreTypes
  <2> QED
    BY <1>5, <2>2, <2>3 DEF SaveExpired, Types, KernelTypes, OtherTypes
<1>6. CASE Sweep(t)
  <2>1. PICK s \in SUBSET Dirs : Keep(t, [job[t] EXCEPT !.sweep = s])
    <3>1. PICK x \in job[t].sweep, b \in BOOLEAN :
             Keep(t, [job[t] EXCEPT !.sweep = IF b THEN {} ELSE job[t].sweep \ {x}])
      BY <1>1, <1>6 DEF Sweep, Job
    <3> QED
      BY <1>1, <3>1, JobFields
  <2>2. ThreadTypes' /\ Roles'
    BY <1>1, <1>2, <1>6, <2>1, JobFields, MoveTypes DEF Sweep
  <2>3. dirs' \subseteq dirs
    BY <1>6 DEF Sweep
  <2> QED
    BY <1>6, <2>2, <2>3 DEF Sweep, Types, KernelTypes, StoreTypes, OtherTypes
<1>7. CASE SweepFails(t)
  <2>1. ThreadTypes' /\ Roles'
    BY <1>1, <1>2, <1>7, JobFields, MoveTypes DEF SweepFails
  <2> QED
    BY <1>7, <2>1 DEF SweepFails, Types, KernelTypes, StoreTypes, OtherTypes
<1>8. CASE Swept(t)
  <2>1. ThreadTypes' /\ Roles'
    BY <1>2, <1>8, IdleIsJob, MoveTypes DEF Swept
  <2> QED
    BY <1>8, <2>1 DEF Swept, Types, KernelTypes, StoreTypes, OtherTypes
<1>9. CASE Scan(t)
  <2> DEFINE listed == {At(d, NoDir) : d \in plugged}
  <2>1. listed \in SUBSET AnyMount
    BY EntriesAreMounts DEF Types, KernelTypes
  <2>3. Keep(t, [Idle EXCEPT !.todo = listed]) /\ [Idle EXCEPT !.todo = listed] \in Job
    BY <1>9, <2>1, IdleIsJob DEF Scan
  <2> HIDE DEF listed
  <2>2. ThreadTypes' /\ Roles'
    BY <1>2, <1>9, <2>3, MoveTypes DEF Scan
  <2> QED
    BY <1>9, <2>2 DEF Scan, Types, KernelTypes, StoreTypes, OtherTypes
<1>13. CASE Walked(t)
  <2>1. ThreadTypes' /\ Roles'
    BY <1>1, <1>2, <1>13, MoveTypes DEF Walked
  <2> QED
    BY <1>13, <2>1 DEF Walked, Types, KernelTypes, StoreTypes, OtherTypes
<1>10. CASE List(t)
  <2>1. {m \in Range(rows) : At(m.dev, NoDir) \notin job[t].todo} \in SUBSET AnyMount
    BY EntriesAreMounts DEF Types, StoreTypes, IsStore, IsTable, Range
  <2>2. ThreadTypes' /\ Roles'
    BY <1>2, <1>10, <2>1, IdleIsJob, MoveTypes DEF List
  <2> QED
    BY <1>10, <2>2 DEF List, Types, KernelTypes, StoreTypes, OtherTypes
<1>11. CASE NextExpired(t)
  <2>1. PICK m \in job[t].todo :
           Keep(t, [job[t] EXCEPT !.on = At(m.dev, NoDir), !.todo = @ \ {m}])
    BY <1>11 DEF NextExpired
  <2>2. m.dev \in Devices /\ job[t].todo \ {m} \in SUBSET AnyMount
    BY <1>1 DEF Job, AnyMount, At
  <2>3. [job[t] EXCEPT !.on = At(m.dev, NoDir), !.todo = @ \ {m}] \in Job
    BY <1>1, <2>2, EntriesAreMounts DEF Job
  <2>4. ThreadTypes' /\ Roles'
    BY <1>2, <1>11, <2>1, <2>3, MoveTypes DEF NextExpired
  <2> QED
    BY <1>11, <2>4 DEF NextExpired, Types, KernelTypes, StoreTypes, OtherTypes
<1>12. CASE Reviewed(t)
  <2>1. ThreadTypes' /\ Roles'
    BY <1>2, <1>12, IdleIsJob, GotoTypes DEF Reviewed, Keep, Threads
  <2> QED
    BY <1>12, <2>1 DEF Reviewed, Types, KernelTypes, StoreTypes, OtherTypes
<1> QED
  BY <1>3, <1>4, <1>5, <1>6, <1>7, <1>8, <1>9, <1>10, <1>11, <1>12, <1>13 DEF Review

LEMMA UnMountTypes ==
  ASSUME Types, NEW t \in Threads, UnMount(t) \/ Save(t) PROVE Types'
<1> USE DEF kernel, tables
<1>1. job[t] \in Job /\ pc[t] \in Places
  BY DEF Types, ThreadTypes
<1>2. \A p \in {"umount", "findRow", "rmdir", "delete", "save"} : p \in Places \ Mounting
  BY DEF Places, Mounting
<1>3. CASE ReadMtab(t)
  <2> DEFINE mine == {i \in DOMAIN mtab : mtab[i].dev = Dev(t)}
  <2>1. CASE mine = {}
    <3>1. ThreadTypes' /\ Roles'
      BY <1>1, <1>2, <1>3, <2>1, MoveTypes DEF ReadMtab
    <3> QED
      BY <1>3, <3>1 DEF ReadMtab, Types, KernelTypes, StoreTypes, OtherTypes
  <2>2. CASE mine # {}
    <3>1. mine \subseteq Nat /\ mine \subseteq DOMAIN mtab
      BY DEF Types, KernelTypes
    <3>2. First(mine) \in mine
      BY <2>2, <3>1, FirstIsLeast
    <3>3. mtab[First(mine)] \in AnyMount
      BY <3>1, <3>2, EntriesAreMounts DEF Types, KernelTypes
    <3>4. Keep(t, [job[t] EXCEPT !.on = mtab[First(mine)]]) /\ Goto(t, "umount")
      BY <1>3, <2>2 DEF ReadMtab
    <3>5. [job[t] EXCEPT !.on = mtab[First(mine)]] \in Job
      BY <1>1, <3>3, JobFields
    <3> HIDE DEF mine
    <3>6. ThreadTypes' /\ Roles'
      BY <1>2, <1>3, <3>4, <3>5, MoveTypes DEF ReadMtab
    <3> QED
      BY <1>3, <3>6 DEF ReadMtab, Types, KernelTypes, StoreTypes, OtherTypes
  <2> QED
    BY <2>1, <2>2
<1>4. CASE Umount(t)
  <2>1. mtab' \in Seq(Entries)
    BY <1>4, DetachedMounts DEF Umount, Types, KernelTypes
  <2>2. ThreadTypes' /\ Roles'
    BY <1>1, <1>2, <1>4, MoveTypes DEF Umount
  <2> QED
    BY <1>4, <2>1, <2>2 DEF Umount, Types, KernelTypes, StoreTypes, OtherTypes
<1>5. CASE UmountFails(t)
  <2>1. ThreadTypes' /\ Roles'
    BY <1>5, DoneTypes DEF UmountFails
  <2> QED
    BY <1>5, <2>1 DEF UmountFails, Types, KernelTypes, StoreTypes, OtherTypes
<1>6. CASE FindRow(t)
  <2>1. PICK found \in SUBSET DOMAIN rows :
          IF found = {} THEN Done(t)
          ELSE /\ Keep(t, [job[t] EXCEPT !.row = First(found)])
               /\ Goto(t, "rmdir") /\ UNCHANGED task
    BY <1>6 DEF FindRow, RowsOf, RowAt
  <2>2. CASE found = {}
    <3>1. ThreadTypes' /\ Roles'
      BY <2>1, <2>2, DoneTypes
    <3> QED
      BY <1>6, <3>1 DEF FindRow, Types, KernelTypes, StoreTypes, OtherTypes
  <2>3. CASE found # {}
    <3>1. found \subseteq Nat
      BY DEF Types, StoreTypes, IsStore, IsTable
    <3>2. First(found) \in Nat
      BY <2>3, <3>1, FirstIsLeast
    <3>3. [job[t] EXCEPT !.row = First(found)] \in Job
      BY <1>1, <3>2, JobFields
    <3>4. ThreadTypes' /\ Roles'
      BY <1>2, <2>1, <2>3, <3>3, MoveTypes
    <3> QED
      BY <1>6, <3>4 DEF FindRow, Types, KernelTypes, StoreTypes, OtherTypes
  <2> QED
    BY <2>2, <2>3
<1>7. CASE RemoveDir(t)
  <2>1. dirs' \subseteq dirs
    BY <1>7 DEF RemoveDir, Removed
  <2>2. ThreadTypes' /\ Roles'
    BY <1>1, <1>2, <1>7, MoveTypes DEF RemoveDir
  <2> QED
    BY <1>7, <2>1, <2>2 DEF RemoveDir, Types, KernelTypes, StoreTypes, OtherTypes
<1>8. CASE DeleteRow(t)
  <2>1. StoreTypes'
    BY <1>8, WithoutIsStore DEF DeleteRow, Types, StoreTypes
  <2>2. ThreadTypes' /\ Roles'
    BY <1>1, <1>2, <1>8, MoveTypes DEF DeleteRow
  <2> QED
    BY <1>8, <2>1, <2>2 DEF DeleteRow, Types, KernelTypes, OtherTypes
<1>9. CASE Save(t)
  <2>1. ThreadTypes' /\ Roles'
    BY <1>9, DoneTypes DEF Save
  <2>2. StoreTypes'
    BY <1>9 DEF Save, Types, StoreTypes
  <2> QED
    BY <1>9, <2>1, <2>2 DEF Save, Types, KernelTypes, OtherTypes
<1> QED
  BY <1>3, <1>4, <1>5, <1>6, <1>7, <1>8, <1>9 DEF UnMount
-----------------------------------------------------------------------------
(* The directory that is chosen for a mount.                                 *)

Chosen(d) ==
    IF Label[d] # NoName /\ <<Label[d], 0>> \notin dirs THEN Label[d]
    ELSE IF Uid[d] # NoName THEN Uid[d] ELSE Usb

Usable(name) == {k \in 0..Len(mtab) : <<name, k>> \notin dirs \/ IsEmpty(<<name, k>>)}

\* One of the suffixes is free: there are more of them than mounts.
LEMMA SomeSuffix ==
  ASSUME KernelTypes, NEW name PROVE Usable(name) # {}
<1> SUFFICES ASSUME Usable(name) = {} PROVE FALSE
  OBVIOUS
<1> DEFINE S == 0..Len(mtab)
           top == [k \in S |-> Max(Under(<<name, k>>))]
<1>1. Len(mtab) \in Nat /\ DOMAIN mtab = 1..Len(mtab)
  BY DEF KernelTypes
<1>2. ASSUME NEW k \in S PROVE top[k] \in Under(<<name, k>>)
  <2>1. Under(<<name, k>>) # {}
    BY DEF Usable, IsEmpty
  <2> QED
    BY <2>1, TopOfStack DEF KernelTypes
<1>3. top \in [S -> 1..Len(mtab)]
  BY <1>1, <1>2 DEF Under
<1>4. IsFiniteSet(S) /\ Cardinality(S) = Len(mtab) + 1
  BY <1>1, FS_Interval
<1>5. IsFiniteSet(1..Len(mtab)) /\ Cardinality(1..Len(mtab)) = Len(mtab)
  <2>1. /\ IsFiniteSet(1..Len(mtab))
        /\ Cardinality(1..Len(mtab))
             = IF 1 > Len(mtab) THEN 0 ELSE Len(mtab) - 1 + 1
    BY <1>1, FS_Interval
  <2> QED
    BY <1>1, <2>1
<1> HIDE DEF top, S
<1>6. PICK k, l \in S : k # l /\ top[k] = top[l]
  <2>1. Cardinality(1..Len(mtab)) < Cardinality(S)
    BY <1>1, <1>4, <1>5
  <2> QED
    BY <1>3, <1>4, <1>5, <2>1, FS_PigeonHole
<1>7. mtab[top[k]].dir = <<name, k>> /\ mtab[top[l]].dir = <<name, l>>
  BY <1>2, <1>6 DEF Under
<1> QED
  BY <1>6, <1>7

\* The endpoint is a directory below the mount root, new or empty.
LEMMA EndpointIsUsable ==
  ASSUME KernelTypes, NEW d \in Devices
  PROVE  /\ Endpoint(d) \in Dirs
         /\ Endpoint(d) \notin dirs \/ IsEmpty(Endpoint(d))
<1>1. Endpoint(d) = <<Chosen(d), First(Usable(Chosen(d)))>>
  BY DEF Endpoint, Chosen, Usable
<1>2. Chosen(d) \in Names
  BY MonitorAssumption DEF Chosen
<1>3. Usable(Chosen(d)) \subseteq Nat
  BY DEF Usable, KernelTypes
<1>4. First(Usable(Chosen(d))) \in Usable(Chosen(d))
  BY <1>3, SomeSuffix, FirstIsLeast
<1>5. First(Usable(Chosen(d))) \in Nat
  BY <1>3, <1>4
<1> QED
  BY <1>1, <1>2, <1>4, <1>5 DEF Usable, Dirs
-----------------------------------------------------------------------------
LEMMA OnIsOwn ==
  ASSUME Types, pc["udev"] \in {"mount", "findEqual", "create"}
  PROVE  job["udev"].on \in OwnMounts
<1>1. job["udev"].on \in AnyMount /\ job["udev"].on.dir \in Dirs
  BY DEF Types, ThreadTypes, Threads, Roles, Job, Dir
<1>2. ASSUME NEW d \in Devices, job["udev"].on = At(d, Elsewhere(d)) PROVE FALSE
  BY <1>1, <1>2, ElsewhereIsNotOwn DEF At
<1> QED
  BY <1>1, <1>2 DEF AnyMount, OwnMounts

LEMMA DieTypes ==
  ASSUME Types, Die
  PROVE  /\ ThreadTypes' /\ Roles' /\ IsStore(saved', OwnMounts)
         /\ events' \in Seq(Event) /\ beside' \in BOOLEAN
<1>1. ThreadTypes'
  BY IdleIsJob DEF Die, ThreadTypes, Places
<1>2. Roles'
  BY DEF Die, Roles, Mounting, Threads
<1>3. saved' = saved \/ saved' = Empty
  BY DEF Die
<1>4. IsStore(saved', OwnMounts)
  BY <1>3, EmptyIsStore DEF Types, StoreTypes
<1>5. events' \in Seq(Event)
  BY DEF Die
<1>6. beside' \in BOOLEAN
  BY Zenon DEF Die
<1> QED
  BY <1>1, <1>2, <1>4, <1>5, <1>6

\* A step of the udev thread to a place of Mount.
LEMMA MountingTypes ==
  ASSUME Types, NEW p \in Mounting, Goto("udev", p),
         task' = task, NEW j \in Job, Keep("udev", j) \/ (j = job["udev"] /\ job' = job),
         p \in {"mount", "findEqual", "create"} => j.on.dir \in Dirs
  PROVE  ThreadTypes' /\ Roles'
<1>1. job' = [job EXCEPT !["udev"] = j]
  BY DEF Keep, Types, ThreadTypes
<1>2. ThreadTypes'
  BY <1>1 DEF Types, ThreadTypes, Goto, Threads, Mounting, Places
<1>3. pc'["review"] = pc["review"] /\ pc'["udev"] = p /\ job'["udev"] = j
  BY <1>1 DEF Types, ThreadTypes, Goto, Threads
<1> QED
  BY <1>2, <1>3 DEF Types, Roles, Dir

LEMMA MountTypes ==
  ASSUME Types, NEW t \in Threads, Mount(t) PROVE Types'
<1> USE DEF kernel, tables
<1>1. t = "udev" /\ pc["udev"] \in Mounting
  <2>1. pc[t] \in Mounting
    BY DEF Mount, FindRule, ReadRule, MakeEndpoint, EndpointFails, PerfomMount,
           MountFails, FindEqual, CreateRow, Mounting
  <2> QED
    BY <2>1 DEF Types, Roles, Threads
<1>2. job["udev"] \in Job
  BY DEF Types, ThreadTypes, Threads
<1>3. Dev("udev") \in Devices
  BY <1>2 DEF Dev, Job, AnyMount, At
<1>4. \A p \in Mounting : Goto(t, p) <=> Goto("udev", p)
  BY <1>1
<1>5. CASE FindRule(t)
  <2>1. CASE Done(t)
    <3>1. ThreadTypes' /\ Roles'
      BY <2>1, DoneTypes
    <3> QED
      BY <1>5, <3>1 DEF FindRule, Types, KernelTypes, StoreTypes, OtherTypes
  <2>2. CASE Goto(t, "readRule") /\ UNCHANGED <<task, job>>
    <3>1. ThreadTypes' /\ Roles'
      BY <1>1, <1>2, <2>2, MountingTypes DEF Mounting
    <3> QED
      BY <1>5, <3>1 DEF FindRule, Types, KernelTypes, StoreTypes, OtherTypes
  <2> QED
    BY <1>5, <2>1, <2>2 DEF FindRule
<1>6. CASE ReadRule(t)
  <2>1. CASE Die
    BY <1>6, <2>1, DieTypes DEF ReadRule, Types, KernelTypes, StoreTypes, OtherTypes
  <2>2. CASE Done(t) /\ UNCHANGED <<events, saved, beside>>
    <3>1. ThreadTypes' /\ Roles'
      BY <2>2, DoneTypes
    <3> QED
      BY <1>6, <2>2, <3>1 DEF ReadRule, Types, KernelTypes, StoreTypes, OtherTypes
  <2>3. CASE Goto(t, "endpoint") /\ UNCHANGED <<task, job, events, saved, beside>>
    <3>1. ThreadTypes' /\ Roles'
      BY <1>1, <1>2, <2>3, MountingTypes DEF Mounting
    <3> QED
      BY <1>6, <2>3, <3>1 DEF ReadRule, Types, KernelTypes, StoreTypes, OtherTypes
  <2> QED
    BY <1>6, <2>1, <2>2, <2>3 DEF ReadRule
<1>7. CASE MakeEndpoint(t)
  <2> DEFINE e == Endpoint(Dev("udev"))
  <2>1. e \in Dirs
    BY <1>3, EndpointIsUsable DEF Types
  <2>2. /\ dirs' = dirs \cup {e} /\ Goto("udev", "mount") /\ task' = task
        /\ Keep("udev", [job["udev"] EXCEPT !.on.dir = e])
    BY <1>1, <1>7 DEF MakeEndpoint
  <2> HIDE DEF e
  <2>3. /\ [job["udev"] EXCEPT !.on.dir = e] \in Job
        /\ [job["udev"] EXCEPT !.on.dir = e].on.dir = e
    <3> DEFINE m == [job["udev"].on EXCEPT !.dir = e]
    <3>1. m \in AnyMount /\ m.dir = e
      BY <1>2, <2>1 DEF Job, AnyMount, At
    <3>2. [job["udev"] EXCEPT !.on.dir = e] = [job["udev"] EXCEPT !.on = m]
      BY <1>2 DEF Job
    <3> HIDE DEF m
    <3>3. [job["udev"] EXCEPT !.on = m].on = m
      BY <1>2 DEF Job
    <3> QED
      BY <1>2, <3>1, <3>2, <3>3, JobFields
  <2>4. ThreadTypes' /\ Roles'
    BY <1>1, <2>1, <2>2, <2>3, MountingTypes DEF Mounting
  <2> QED
    BY <1>7, <2>1, <2>2, <2>4 DEF MakeEndpoint, Types, KernelTypes, StoreTypes, OtherTypes
<1>8. CASE EndpointFails(t)
  <2>1. Endpoint(Dev("udev")) \in Dirs
    BY <1>3, EndpointIsUsable DEF Types
  <2>2. dirs' \subseteq Dirs
    BY <1>1, <1>8, <2>1 DEF EndpointFails, Types, KernelTypes
  <2>3. ThreadTypes' /\ Roles'
    BY <1>8, DoneTypes DEF EndpointFails
  <2> QED
    BY <1>8, <2>2, <2>3 DEF EndpointFails, Types, KernelTypes, StoreTypes, OtherTypes
<1>9. CASE PerfomMount(t)
  <2>1. job["udev"].on \in Entries /\ job["udev"].on.dir \in Dirs
    BY <1>1, <1>9, OnIsOwn, EntriesAreMounts DEF PerfomMount, OwnMounts
  <2>2. mtab' \in Seq(Entries)
    BY <1>1, <1>9, <2>1 DEF PerfomMount, Types, KernelTypes
  <2>3. ThreadTypes' /\ Roles'
    BY <1>1, <1>2, <1>9, <2>1, MountingTypes DEF PerfomMount, Mounting
  <2> QED
    BY <1>9, <2>2, <2>3 DEF PerfomMount, Types, KernelTypes, StoreTypes, OtherTypes
<1>10. CASE MountFails(t)
  <2>1. dirs' \subseteq dirs
    BY <1>10 DEF MountFails, Removed
  <2>2. ThreadTypes' /\ Roles'
    BY <1>10, DoneTypes DEF MountFails
  <2> QED
    BY <1>10, <2>1, <2>2 DEF MountFails, Types, KernelTypes, StoreTypes, OtherTypes
<1>11. CASE FindEqual(t)
  <2>1. CASE Done(t)
    <3>1. ThreadTypes' /\ Roles'
      BY <2>1, DoneTypes
    <3> QED
      BY <1>11, <3>1 DEF FindEqual, Types, KernelTypes, StoreTypes, OtherTypes
  <2>2. CASE Goto(t, "create") /\ UNCHANGED <<task, job>>
    <3>1. job["udev"].on.dir \in Dirs
      BY <1>1, <1>11, OnIsOwn DEF FindEqual, OwnMounts
    <3>2. ThreadTypes' /\ Roles'
      BY <1>1, <1>2, <2>2, <3>1, MountingTypes DEF Mounting
    <3> QED
      BY <1>11, <3>2 DEF FindEqual, Types, KernelTypes, StoreTypes, OtherTypes
  <2> QED
    BY <1>11, <2>1, <2>2 DEF FindEqual
<1>12. CASE CreateRow(t)
  <2>1. job["udev"].on \in OwnMounts
    BY <1>1, <1>12, OnIsOwn DEF CreateRow
  <2>2. StoreTypes'
    BY <1>1, <1>12, <2>1, InsertedIsStore DEF CreateRow, Types, StoreTypes
  <2>3. ThreadTypes' /\ Roles'
    BY <1>1, <1>2, <1>12, MoveTypes DEF CreateRow, Mounting, Places
  <2> QED
    BY <1>12, <2>2, <2>3 DEF CreateRow, Types, KernelTypes, OtherTypes
<1> QED
  BY <1>5, <1>6, <1>7, <1>8, <1>9, <1>10, <1>11, <1>12 DEF Mount

LEMMA MonitorTypes ==
  ASSUME Types, Monitor \/ StartReview PROVE Types'
<1> USE DEF kernel, tables
<1>1. /\ "udev" \in Threads /\ "review" \in Threads
      /\ job["udev"] \in Job /\ job["review"] \in Job
  BY DEF Types, ThreadTypes, Threads
<1>2. \A p \in {"snapshot", "idle", "bootNext", "readMtab"} : p \in Places \ Mounting
  BY DEF Places, Mounting
<1>3. CASE ReceiveDevice
  <2> DEFINE p == Response(Head(events).action, Head(events).dev)
  <2>1. Head(events) \in Event /\ events' \in Seq(Event)
    BY <1>3 DEF ReceiveDevice, Types, OtherTypes
  <2>2. p \in {"findRule", "readMtab", "snapshot", "idle"}
    BY DEF Response
  <2>3. [Idle EXCEPT !.on = At(Head(events).dev, NoDir)] \in Job
    BY <2>1, IdleIsJob, EntriesAreMounts, JobFields DEF Event
  <2>4. /\ Goto("udev", p) /\ task' = task
        /\ job' = job \/ Keep("udev", [Idle EXCEPT !.on = At(Head(events).dev, NoDir)])
    BY <1>3 DEF ReceiveDevice
  <2>7. beside' \in BOOLEAN
    <3>1. beside' = beside \/ beside' = AtWork("review")
      BY <1>3 DEF ReceiveDevice
    <3> QED
      BY <3>1, Zenon DEF AtWork, Types, OtherTypes
  <2> HIDE DEF p
  <2>5. CASE p = "findRule"
    <3>1. ThreadTypes' /\ Roles'
      BY <1>1, <2>3, <2>4, <2>5, MountingTypes DEF Mounting
    <3> QED
      BY <1>3, <2>1, <2>7, <3>1 DEF ReceiveDevice, Types, KernelTypes, StoreTypes, OtherTypes
  <2>6. CASE p # "findRule"
    <3>1. p \in Places \ Mounting
      BY <1>2, <2>2, <2>6
    <3>2. ThreadTypes' /\ Roles'
      BY <1>1, <2>3, <2>4, <3>1, MoveTypes
    <3> QED
      BY <1>3, <2>1, <2>7, <3>2 DEF ReceiveDevice, Types, KernelTypes, StoreTypes, OtherTypes
  <2> QED
    BY <2>5, <2>6
<1>5. CASE BootNext
  <2>1. PICK m \in job["udev"].todo, go \in BOOLEAN :
          LET rest == [Idle EXCEPT !.todo = job["udev"].todo \ {m}]
          IN  /\ Keep("udev", IF go THEN [rest EXCEPT !.on = m] ELSE rest)
              /\ Goto("udev", IF go THEN "findRule" ELSE "bootNext")
    BY <1>5 DEF BootNext
  <2> DEFINE rest == [Idle EXCEPT !.todo = job["udev"].todo \ {m}]
  <2>2. m \in AnyMount /\ job["udev"].todo \ {m} \in SUBSET AnyMount
    BY <1>1 DEF Job
  <2>3. rest \in Job
    BY <2>2, IdleIsJob
  <2>4. [rest EXCEPT !.on = m] \in Job
    BY <2>2, <2>3, JobFields
  <2>5. /\ Keep("udev", IF go THEN [rest EXCEPT !.on = m] ELSE rest)
        /\ Goto("udev", IF go THEN "findRule" ELSE "bootNext")
    BY <2>1
  <2> HIDE DEF rest
  <2>6. CASE go
    <3>1. ThreadTypes' /\ Roles'
      BY <1>5, <2>4, <2>5, <2>6, MountingTypes DEF BootNext, Mounting
    <3> QED
      BY <1>5, <3>1 DEF BootNext, Types, KernelTypes, StoreTypes, OtherTypes
  <2>7. CASE ~go
    <3>1. ThreadTypes' /\ Roles'
      BY <1>1, <1>2, <1>5, <2>3, <2>5, <2>7, MoveTypes DEF BootNext
    <3> QED
      BY <1>5, <3>1 DEF BootNext, Types, KernelTypes, StoreTypes, OtherTypes
  <2> QED
    BY <2>6, <2>7
<1>6. CASE Booted
  <2>1. job' = [job EXCEPT !["udev"] = job["udev"]]
    BY <1>6 DEF Booted, Types, ThreadTypes
  <2>2. ThreadTypes' /\ Roles'
    BY <1>1, <1>2, <1>6, <2>1, GotoTypes DEF Booted
  <2> QED
    BY <1>6, <2>2 DEF Booted, Types, KernelTypes, StoreTypes, OtherTypes
<1>7. CASE Restart
  <2>1. ThreadTypes' /\ Roles'
    BY <1>1, <1>2, <1>7, MoveTypes DEF Restart
  <2>2. StoreTypes'
    BY <1>7 DEF Restart, Types, StoreTypes
  <2> QED
    BY <1>7, <2>1, <2>2 DEF Restart, Types, KernelTypes, OtherTypes
<1>8. CASE StartReview
  <2>1. /\ pc' \in [Threads -> {"idle", "lost", "snapshot"}] /\ task' = task
        /\ job' = [job EXCEPT !["review"] = Idle]
    BY <1>8 DEF StartReview, Keep, locals, Threads
  <2>2. ThreadTypes' /\ Roles'
    BY <1>1, <2>1, IdleIsJob
    DEF Types, ThreadTypes, Roles, Mounting, Places, Threads, Dir
  <2> QED
    BY <1>8, <2>2 DEF StartReview, Types, KernelTypes, StoreTypes, OtherTypes
<1> QED
  BY <1>3, <1>5, <1>6, <1>7, <1>8 DEF Monitor

LEMMA EnvironmentTypes ==
  ASSUME Types, Environment PROVE Types'
<1> USE DEF kernel, tables, locals
<1>1. budget' \in 0..MaxEnvironment
  BY MonitorAssumption
  DEF Environment, Plug, Unplug, Trigger, UserMounts, ChangeRule, UserUnmounts,
      Crash, Spend, Types, OtherTypes
<1>2. \A a \in Actions, d \in Devices : Announced(a, d) \in Seq(Event)
  <2>1. TAKE a \in Actions, d \in Devices
  <2>2. [action |-> a, dev |-> d] \in Event
    BY DEF Event
  <2> QED
    BY <2>2 DEF Announced, Types, OtherTypes
<1>8. ASSUME NEW d \in Devices, Unplug(d) PROVE Types'
  <2>1. plugged' \subseteq Devices /\ events' \in Seq(Event)
    BY <1>2, <1>8 DEF Unplug, Actions, Types, KernelTypes
  <2>2. UNCHANGED <<mtab, dirs, rules, tables, task, job, beside>>
    BY <1>8 DEF Unplug
  <2>3. pc' \in [Threads -> Places] /\ \A t \in Threads : pc'[t] \in {pc[t], "lost"}
    BY <1>8 DEF Unplug, Types, ThreadTypes, Places
  <2>4. ThreadTypes' /\ Roles'
    BY <2>2, <2>3 DEF Types, ThreadTypes, Roles, Mounting, Threads, Dir
  <2> QED
    BY <1>1, <2>1, <2>2, <2>4 DEF Types, KernelTypes, StoreTypes, OtherTypes
<1>3. ASSUME NEW d \in Devices, Plug(d) \/ Trigger(d) PROVE Types'
  <2>1. plugged' \subseteq Devices
    BY <1>3 DEF Plug, Trigger, Types, KernelTypes
  <2>2. events' \in Seq(Event)
    BY <1>2, <1>3 DEF Plug, Trigger, Actions
  <2>3. UNCHANGED <<mtab, dirs, rules, tables, locals>>
    BY <1>3 DEF Plug, Trigger
  <2> QED
    BY <1>1, <2>1, <2>2, <2>3
    DEF Types, ThreadTypes, KernelTypes, StoreTypes, OtherTypes, Roles, Dir
<1>4. ASSUME NEW d \in Devices, UserMounts(d) PROVE Types'
  <2>1. mtab' \in Seq(Entries)
    BY <1>4, ElsewhereIsNotOwn DEF UserMounts, Types, KernelTypes
  <2>2. UNCHANGED <<plugged, dirs, events, rules, tables, locals>>
    BY <1>4 DEF UserMounts
  <2> QED
    BY <1>1, <2>1, <2>2
    DEF Types, ThreadTypes, KernelTypes, StoreTypes, OtherTypes, Roles, Dir
<1>5. ASSUME NEW d \in Devices, ChangeRule(d) PROVE Types'
  <2>1. rules' \subseteq Devices
    BY <1>5 DEF ChangeRule, Types, OtherTypes
  <2>2. UNCHANGED <<kernel, events, tables, locals>>
    BY <1>5 DEF ChangeRule
  <2> QED
    BY <1>1, <2>1, <2>2
    DEF Types, ThreadTypes, KernelTypes, StoreTypes, OtherTypes, Roles, Dir
<1>6. ASSUME NEW x, UserUnmounts(x) PROVE Types'
  <2>1. mtab' \in Seq(Entries)
    BY <1>6, DetachedMounts DEF UserUnmounts, Types, KernelTypes
  <2>2. UNCHANGED <<plugged, dirs, events, rules, tables, locals>>
    BY <1>6 DEF UserUnmounts
  <2> QED
    BY <1>1, <2>1, <2>2
    DEF Types, ThreadTypes, KernelTypes, StoreTypes, OtherTypes, Roles, Dir
<1>7. CASE Crash
  BY <1>1, <1>7, DieTypes DEF Crash, Types, KernelTypes, StoreTypes, OtherTypes
<1> QED
  BY <1>3, <1>4, <1>5, <1>6, <1>7, <1>8 DEF Environment

LEMMA InitTypes ==
  ASSUME Init PROVE Types
<1>1. ThreadTypes /\ Roles
  BY IdleIsJob DEF Init, ThreadTypes, Roles, Threads, Places, Mounting
<1>2. KernelTypes /\ StoreTypes
  BY EmptyIsStore DEF Init, KernelTypes, StoreTypes
<1>4. beside \in BOOLEAN
  BY Zenon DEF Init
<1>3. OtherTypes
  BY <1>4, MonitorAssumption DEF Init, OtherTypes
<1> QED
  BY <1>1, <1>2, <1>3 DEF Types

LEMMA TypesStep ==
  ASSUME Types, [Next]_vars PROVE Types'
<1>1. CASE UNCHANGED vars
  BY <1>1 DEF vars, kernel, tables, locals, Types, ThreadTypes, KernelTypes,
     StoreTypes, OtherTypes, Roles, Dir
<1>2. ASSUME NEW t \in Threads, Step(t) PROVE Types'
  BY <1>2, ReviewTypes, UnMountTypes, MountTypes DEF Step
<1> QED
  BY <1>1, <1>2, MonitorTypes, EnvironmentTypes DEF Next

LEMMA TypesAreTypeOK ==
  ASSUME Types PROVE TypeOK
<1>1. IsRows(rows) /\ IsRows(saved)
  BY DEF Types, StoreTypes, IsStore, IsRows
<1>2. ASSUME NEW t \in Threads
      PROVE  /\ job[t].on.dev \in Devices
             /\ job[t].on.dir \in Dirs \cup {NoDir, Elsewhere(Dev(t))}
             /\ job[t].sweep \subseteq Dirs /\ job[t].row \in Nat
  BY DEF Types, ThreadTypes, Job, AnyMount, At, Dev
<1> QED
  BY <1>1, <1>2 DEF Types, ThreadTypes, KernelTypes, OtherTypes, Event, TypeOK
-----------------------------------------------------------------------------
(* Who does what.                                                            *)

\* The loops of a thread do not lead into Mount and do not touch the other
\* thread.
LEMMA LoopSteps ==
  ASSUME Types, NEW t \in Threads, Review(t) \/ UnMount(t) \/ Save(t)
  PROVE  /\ pc'[t] \notin Mounting
         /\ \A u \in Threads \ {t} : pc'[u] = pc[u] /\ job'[u] = job[u]
<1>1. PICK p \in Places \ Mounting : pc' = [pc EXCEPT ![t] = p]
  <2>1. CASE Review(t)
    <3>1. pc = [pc EXCEPT ![t] = pc[t]]
      BY DEF Types, ThreadTypes
    <3> QED
      BY <2>1, <3>1 DEF Review, Snapshot, RemoveExpired, SaveExpired, Sweep,
         SweepFails, Swept, Scan, Walked, List, NextExpired, Reviewed, Goto, Places, Mounting
  <2>2. CASE UnMount(t) \/ Save(t)
    BY <2>2 DEF UnMount, ReadMtab, Umount, UmountFails, FindRow, RemoveDir,
       DeleteRow, Save, Done, Goto, Places, Mounting
  <2> QED
    BY <2>1, <2>2
<1>2. \A u \in Threads \ {t} : job'[u] = job[u]
  BY DEF Review, Snapshot, RemoveExpired, SaveExpired, Sweep, SweepFails, Swept,
     Scan, Walked, List, NextExpired, Reviewed, UnMount, ReadMtab, Umount, UmountFails,
     FindRow, RemoveDir, DeleteRow, Save, Done, Keep, Types, ThreadTypes
<1> QED
  BY <1>1, <1>2 DEF Types, ThreadTypes

LEMMA MountIsUdev ==
  ASSUME Types, NEW t \in Threads, Mount(t) PROVE t = "udev"
<1>1. pc[t] \in Mounting
  BY DEF Mount, FindRule, ReadRule, MakeEndpoint, EndpointFails, PerfomMount,
         MountFails, FindEqual, CreateRow, Mounting
<1> QED
  BY <1>1 DEF Types, Roles, Threads

\* How the udev thread comes to the creation of a row and to a mount.
LEMMA UdevPlace ==
  ASSUME Types, [Next]_vars
  PROVE  /\ pc'["udev"] = "create" =>
              \/ FindEqual("udev") /\ RowAt(job["udev"].on) = {} /\ job' = job
              \/ /\ pc["udev"] = "create" /\ job'["udev"] = job["udev"]
                 /\ ~CreateRow("udev") /\ ~Restart
         /\ pc'["udev"] = "mount" =>
              \/ MakeEndpoint("udev")
              \/ /\ pc["udev"] = "mount" /\ job'["udev"] = job["udev"]
                 /\ ~PerfomMount("udev")
<1> DEFINE Stays == pc'["udev"] = pc["udev"] /\ job'["udev"] = job["udev"]
           Away  == pc'["udev"] \notin {"create", "mount"}
<1>1. pc \in [Threads -> Places] /\ job \in [Threads -> Job] /\ "udev" \in Threads
  BY DEF Types, ThreadTypes, Threads
<1>2. CASE Stays
  BY <1>1, <1>2 DEF CreateRow, Restart, PerfomMount, Goto
<1>3. CASE Away
  BY <1>3
<1>4. CASE UNCHANGED vars
  BY <1>2, <1>4 DEF vars, locals
<1>5. CASE Environment
  <2>1. \/ Die
        \/ /\ pc'["udev"] \in {pc["udev"], "lost"} /\ job' = job
    <3>1. ASSUME NEW d \in Devices, Unplug(d)
          PROVE  pc'["udev"] \in {pc["udev"], "lost"} /\ job' = job
      BY <1>1, <3>1 DEF Unplug
    <3> QED
      BY <1>5, <3>1 DEF Environment, Plug, Trigger, UserMounts, ChangeRule,
         UserUnmounts, Crash, locals
  <2>2. CASE Die
    BY <1>1, <1>3, <2>2 DEF Die
  <2> QED
    BY <1>2, <1>3, <2>1, <2>2
<1>6. CASE Monitor
  BY <1>1, <1>3, <1>6 DEF Monitor, ReceiveDevice, BootNext, Booted,
     Restart, Response, Goto
<1>7. CASE StartReview
  BY <1>1, <1>3, <1>7 DEF StartReview
<1>8. ASSUME NEW t \in Threads, Review(t) \/ UnMount(t) \/ Save(t)
      PROVE  Stays \/ Away
  BY <1>1, <1>8, LoopSteps DEF Mounting
<1>9. ASSUME NEW t \in Threads, Mount(t)
      PROVE  \/ Away \/ MakeEndpoint("udev")
             \/ FindEqual("udev") /\ RowAt(job["udev"].on) = {} /\ job' = job
  <2>1. t = "udev"
    BY <1>9, MountIsUdev
  <2>2. Done("udev") => Away
    BY <1>1 DEF Done, Goto
  <2>3. CASE FindEqual("udev")
    BY <1>1, <2>2, <2>3 DEF FindEqual
  <2>4. CASE FindRule("udev") \/ ReadRule("udev") \/ EndpointFails("udev")
             \/ PerfomMount("udev") \/ MountFails("udev") \/ CreateRow("udev")
    BY <1>1, <2>2, <2>4 DEF FindRule, ReadRule, EndpointFails, PerfomMount,
       MountFails, CreateRow, Die, Goto
  <2> QED
    BY <1>9, <2>1, <2>3, <2>4 DEF Mount
<1>10. CASE FindEqual("udev") /\ RowAt(job["udev"].on) = {} /\ job' = job
  <2>1. pc'["udev"] # "mount"
    BY <1>1, <1>10 DEF FindEqual, Goto, Done
  <2> QED
    BY <1>10, <2>1
<1>11. CASE MakeEndpoint("udev")
  BY <1>1, <1>11 DEF MakeEndpoint, Goto
<1> HIDE DEF Stays, Away
<1> QED
  BY <1>2, <1>3, <1>4, <1>5, <1>6, <1>7, <1>8, <1>9, <1>10, <1>11 DEF Next, Step

\* What a step can do to the store and its file.
LEMMA StoreEffects ==
  ASSUME Types, [Next]_vars
  PROVE  /\ \/ rows' = rows \/ \E ids : rows' = Without(rows, ids)
            \/ CreateRow("udev") \/ Restart
         /\ saved' \in {saved, rows, Empty}
<1> USE DEF tables
<1>1. CASE UNCHANGED vars
  BY <1>1 DEF vars
<1>2. CASE Environment
  BY <1>2 DEF Environment, Plug, Unplug, Trigger, UserMounts, ChangeRule,
     UserUnmounts, Crash, Die
<1>3. CASE Monitor \/ StartReview
  BY <1>3 DEF Monitor, ReceiveDevice, BootNext, Booted, Restart, StartReview
<1>4. ASSUME NEW t \in Threads, Review(t)
      PROVE  /\ rows' = rows \/ \E ids : rows' = Without(rows, ids)
             /\ saved' \in {saved, rows, Empty}
  BY <1>4 DEF Review, Snapshot, RemoveExpired, SaveExpired, Sweep, SweepFails,
     Swept, Scan, Walked, List, NextExpired, Reviewed
<1>5. ASSUME NEW t \in Threads, UnMount(t) \/ Save(t)
      PROVE  /\ rows' = rows \/ \E ids : rows' = Without(rows, ids)
             /\ saved' \in {saved, rows, Empty}
  BY <1>5 DEF UnMount, ReadMtab, Umount, UmountFails, FindRow, RemoveDir,
     DeleteRow, Save
<1>6. ASSUME NEW t \in Threads, Mount(t)
      PROVE  /\ rows' = rows \/ CreateRow("udev")
             /\ saved' \in {saved, rows, Empty}
  <2>1. t = "udev"
    BY <1>6, MountIsUdev
  <2> QED
    BY <1>6, <2>1 DEF Mount, FindRule, ReadRule, MakeEndpoint, EndpointFails,
       PerfomMount, MountFails, FindEqual, CreateRow, Die
<1> QED
  BY <1>1, <1>2, <1>3, <1>4, <1>5, <1>6 DEF Next, Step

\* What a step can do to the mounts and the directories.
LEMMA KernelEffects ==
  ASSUME Types, [Next]_vars
  PROVE  /\ \/ mtab' = mtab \/ \E x : Under(x) # {} /\ mtab' = Detached(x)
            \/ PerfomMount("udev") \/ \E d \in Devices : UserMounts(d)
         /\ \/ dirs \subseteq dirs'
            \/ mtab' = mtab /\ \E x : Under(x) = {} /\ dirs' = dirs \ {x}
<1> USE DEF kernel
<1>1. CASE UNCHANGED vars
  BY <1>1 DEF vars
<1>2. CASE Environment
  BY <1>2 DEF Environment, Plug, Unplug, Trigger, UserMounts, ChangeRule,
     UserUnmounts, Crash
<1>3. CASE Monitor \/ StartReview
  BY <1>3 DEF Monitor, ReceiveDevice, BootNext, Booted, Restart, StartReview
<1>4. ASSUME NEW t \in Threads, Review(t)
      PROVE  /\ mtab' = mtab
             /\ dirs \subseteq dirs' \/ \E x : Under(x) = {} /\ dirs' = dirs \ {x}
  BY <1>4 DEF Review, Snapshot, RemoveExpired, SaveExpired, Sweep, SweepFails,
     Swept, Scan, Walked, List, NextExpired, Reviewed
<1>5. ASSUME NEW t \in Threads, UnMount(t) \/ Save(t)
      PROVE  \/ /\ dirs' = dirs
                /\ mtab' = mtab \/ \E x : Under(x) # {} /\ mtab' = Detached(x)
             \/ mtab' = mtab /\ \E x : Under(x) = {} /\ dirs' = dirs \ {x}
  <2>1. CASE RemoveDir(t)
    BY <2>1 DEF RemoveDir, Removed
  <2>2. CASE Umount(t)
    BY <2>2 DEF Umount
  <2> QED
    BY <1>5, <2>1, <2>2 DEF UnMount, ReadMtab, UmountFails, FindRow, DeleteRow, Save
<1>6. ASSUME NEW t \in Threads, Mount(t)
      PROVE  /\ mtab' = mtab \/ PerfomMount("udev")
             /\ \/ dirs \subseteq dirs'
                \/ mtab' = mtab /\ \E x : Under(x) = {} /\ dirs' = dirs \ {x}
  <2>1. t = "udev"
    BY <1>6, MountIsUdev
  <2> QED
    BY <1>6, <2>1 DEF Mount, FindRule, ReadRule, MakeEndpoint, EndpointFails,
       PerfomMount, MountFails, FindEqual, CreateRow, Removed
<1> QED
  BY <1>1, <1>2, <1>3, <1>4, <1>5, <1>6 DEF Next, Step
-----------------------------------------------------------------------------
(* No mount is entered twice.                                                *)

Unique(r) == \A i, j \in DOMAIN r : r[i] = r[j] => i = j

\* The udev thread alone creates rows, so that what Create did not find is not
\* there when it inserts; and what was saved was in memory once.
RowsInv ==
    /\ Unique(rows) /\ Unique(saved)
    /\ pc["udev"] = "create" => RowAt(job["udev"].on) = {}

LEMMA UniqueInserted ==
  ASSUME NEW r, IsStore(r, OwnMounts), Unique(r), NEW m,
         \A i \in DOMAIN r : r[i] # m
  PROVE  Unique(Inserted(r, m))
<1>1. NextId(r) \notin DOMAIN r
  BY NextIdIsFresh DEF IsStore, IsTable
<1>2. DOMAIN Inserted(r, m) = DOMAIN r \cup {NextId(r)}
  BY DEF Inserted
<1>3. \A i \in DOMAIN r : Inserted(r, m)[i] = r[i]
  BY DEF Inserted
<1>4. Inserted(r, m)[NextId(r)] = m
  BY <1>1 DEF Inserted
<1> QED
  BY <1>1, <1>2, <1>3, <1>4 DEF Unique

LEMMA RowsStep ==
  ASSUME Types, RowsInv, [Next]_vars PROVE RowsInv'
<1>1. Unique(saved')
  <2>1. Unique(Empty)
    BY DEF Unique, Empty
  <2> QED
    BY <2>1, StoreEffects DEF RowsInv
<1>2. ASSUME NEW ids, rows' = Without(rows, ids)
      PROVE  /\ Unique(rows')
             /\ DOMAIN rows' \subseteq DOMAIN rows
             /\ \A i \in DOMAIN rows' : rows'[i] = rows[i]
  BY <1>2 DEF RowsInv, Unique, Without, Restrict
<1>3. CASE CreateRow("udev")
  <2>1. /\ rows' = Inserted(rows, job["udev"].on) /\ pc["udev"] = "create"
        /\ pc'["udev"] # "create"
    BY <1>3 DEF CreateRow, Goto, Types, ThreadTypes, Threads
  <2>2. \A i \in DOMAIN rows : rows[i] # job["udev"].on
    BY <2>1 DEF RowsInv, RowAt
  <2>3. Unique(rows')
    BY <2>1, <2>2, UniqueInserted DEF RowsInv, Types, StoreTypes
  <2> QED
    BY <1>1, <2>1, <2>3 DEF RowsInv, Unique
<1>4. CASE Restart
  <2>1. rows' = saved /\ pc'["udev"] # "create"
    BY <1>4 DEF Restart, Goto, Types, ThreadTypes, Threads
  <2> QED
    BY <1>1, <2>1 DEF RowsInv, Unique
<1>5. CASE /\ ~CreateRow("udev") /\ ~Restart
           /\ rows' = rows \/ \E ids : rows' = Without(rows, ids)
  <2>1. Unique(rows')
    BY <1>2, <1>5 DEF RowsInv
  <2>2. /\ DOMAIN rows' \subseteq DOMAIN rows
        /\ \A i \in DOMAIN rows' : rows'[i] = rows[i]
    BY <1>2, <1>5
  <2>3. pc'["udev"] = "create" => RowAt(job["udev"].on)' = {}
    <3>1. SUFFICES ASSUME pc'["udev"] = "create" PROVE RowAt(job["udev"].on)' = {}
      OBVIOUS
    <3>2. RowAt(job["udev"].on) = {} /\ job'["udev"] = job["udev"]
      BY <3>1, UdevPlace DEF RowsInv
    <3> QED
      BY <2>2, <3>2 DEF RowAt
  <2> QED
    BY <1>1, <2>1, <2>3 DEF RowsInv, Unique
<1> QED
  BY <1>3, <1>4, <1>5, StoreEffects
-----------------------------------------------------------------------------
(* Nothing is mounted over files in use.                                     *)

\* Mounts of the daemon lie on directories that are there, also between the
\* choice of a directory and the mount; and what lies on the one chosen is
\* blank, also when some of it is detached meanwhile.
MountInv ==
    /\ \A i \in DOMAIN mtab : mtab[i].dir \in Dirs => mtab[i].dir \in dirs
    /\ NoMountOverMount
    /\ pc["udev"] = "mount" =>
          \A i \in Under(Dir("udev")) : mtab[i].dev \in Blank

LEMMA StackIsBlank ==
  ASSUME Types, MountInv, NEW x \in Dirs, x \notin dirs \/ IsEmpty(x)
  PROVE  \A i \in Under(x) : mtab[i].dev \in Blank
<1>1. CASE x \notin dirs
  BY <1>1 DEF MountInv, Under
<1>2. CASE IsEmpty(x) /\ Under(x) # {}
  <2> DEFINE n == Max(Under(x))
  <2>1. n \in Under(x) /\ \A i \in Under(x) : i <= n
    BY <1>2, TopOfStack DEF Types, KernelTypes
  <2>2. mtab[n].dev \in Blank
    BY <1>2 DEF IsEmpty
  <2> HIDE DEF n
  <2>3. \A i \in Under(x) : i \in DOMAIN mtab /\ i \in Nat /\ mtab[i].dir = x
    BY DEF Under, Types, KernelTypes
  <2>4. \A i \in Under(x) : i # n => i < n
    BY <2>1, <2>3
  <2> QED
    BY <2>1, <2>2, <2>3, <2>4 DEF MountInv, NoMountOverMount
<1> QED
  BY <1>1, <1>2

LEMMA MountStep ==
  ASSUME Types, Types', MountInv, [Next]_vars PROVE MountInv'
<1>1. mtab \in Seq(Entries) /\ mtab' \in Seq(Entries)
  BY DEF Types, KernelTypes
<1>2. ASSUME pc'["udev"] = "mount", ~MakeEndpoint("udev")
      PROVE  /\ Dir("udev")' = Dir("udev") /\ Dir("udev") \in Dirs
             /\ \A i \in Under(Dir("udev")) : mtab[i].dev \in Blank
             /\ ~PerfomMount("udev")
  <2>1. pc["udev"] = "mount" /\ job'["udev"] = job["udev"] /\ ~PerfomMount("udev")
    BY <1>2, UdevPlace
  <2> QED
    BY <2>1 DEF MountInv, Dir, Types, Roles
<1>3. CASE MakeEndpoint("udev")
  <2> DEFINE e == Endpoint(Dev("udev"))
  <2>1. Dev("udev") \in Devices
    BY DEF Dev, Types, ThreadTypes, Threads, Job, AnyMount, At
  <2>2. e \in Dirs /\ (e \notin dirs \/ IsEmpty(e))
    BY <2>1, EndpointIsUsable DEF Types
  <2>3. /\ mtab' = mtab /\ dirs' = dirs \cup {e}
        /\ job' = [job EXCEPT !["udev"] = [job["udev"] EXCEPT !.on.dir = e]]
    BY <1>3 DEF MakeEndpoint, Keep
  <2>4. \A i \in Under(e) : mtab[i].dev \in Blank
    BY <2>2, StackIsBlank
  <2> HIDE DEF e
  <2>5. Dir("udev")' = e
    <3>1. job["udev"] \in Job /\ job["udev"].on \in AnyMount
      BY DEF Types, ThreadTypes, Threads, Job
    <3>2. job'["udev"] = [job["udev"] EXCEPT !.on.dir = e]
      BY <2>3 DEF Types, ThreadTypes, Threads
    <3> QED
      BY <3>1, <3>2 DEF Dir, Job, AnyMount, At
  <2> QED
    BY <2>3, <2>4, <2>5 DEF MountInv, NoMountOverMount, Under
<1>4. CASE mtab' = mtab /\ ~MakeEndpoint("udev")
  <2>1. \A i \in DOMAIN mtab : mtab[i].dir \in Dirs => mtab[i].dir \in dirs'
    BY <1>4, KernelEffects DEF MountInv, Under
  <2> QED
    BY <1>2, <1>4, <2>1 DEF MountInv, NoMountOverMount, Under
<1>5. ASSUME NEW x, Under(x) # {}, mtab' = Detached(x), mtab' # mtab,
             ~MakeEndpoint("udev")
      PROVE  MountInv'
  <2>1. /\ \A i \in DOMAIN mtab' : \E k \in DOMAIN mtab : mtab'[i] = mtab[k]
        /\ \A i, j \in DOMAIN mtab' : i < j =>
              \E k, l \in DOMAIN mtab :
                 k < l /\ mtab'[i] = mtab[k] /\ mtab'[j] = mtab[l]
    BY <1>1, <1>5, DetachedMounts
  <2>2. dirs \subseteq dirs'
    BY <1>5, KernelEffects
  <2>3. \A i \in DOMAIN mtab' : mtab'[i].dir \in Dirs => mtab'[i].dir \in dirs'
    BY <2>1, <2>2 DEF MountInv
  <2>4. NoMountOverMount'
    BY <2>1 DEF MountInv, NoMountOverMount
  <2>5. pc'["udev"] = "mount" =>
          \A i \in Under(Dir("udev"))' : mtab'[i].dev \in Blank
    BY <1>2, <1>5, <2>1 DEF Under
  <2> QED
    BY <2>3, <2>4, <2>5 DEF MountInv
<1>6. ASSUME NEW m \in Entries, mtab' = Append(mtab, m), dirs \subseteq dirs',
             m.dir \in Dirs => m.dir \in dirs,
             \A i \in Under(m.dir) : mtab[i].dev \in Blank,
             pc'["udev"] = "mount" => m.dir # Dir("udev"),
             ~MakeEndpoint("udev")
      PROVE  MountInv'
  <2>1. /\ Len(mtab) \in Nat /\ DOMAIN mtab = 1..Len(mtab)
        /\ DOMAIN mtab' = DOMAIN mtab \cup {Len(mtab) + 1}
        /\ \A i \in DOMAIN mtab : mtab'[i] = mtab[i]
        /\ mtab'[Len(mtab) + 1] = m
    BY <1>1, <1>6
  <2>2. \A i \in DOMAIN mtab' : mtab'[i].dir \in Dirs => mtab'[i].dir \in dirs'
    BY <1>6, <2>1 DEF MountInv
  <2>3. NoMountOverMount'
    <3>1. SUFFICES ASSUME NEW i \in DOMAIN mtab', NEW j \in DOMAIN mtab', i < j,
                          mtab'[i].dir = mtab'[j].dir
                   PROVE  mtab'[i].dev \in Blank
      BY DEF NoMountOverMount
    <3>2. i \in DOMAIN mtab
      BY <2>1, <3>1
    <3>3. CASE j \in DOMAIN mtab
      BY <2>1, <3>1, <3>2, <3>3 DEF MountInv, NoMountOverMount
    <3>4. CASE j = Len(mtab) + 1
      BY <1>6, <2>1, <3>1, <3>2, <3>4 DEF Under
    <3> QED
      BY <2>1, <3>3, <3>4
  <2>4. pc'["udev"] = "mount" =>
          \A i \in Under(Dir("udev"))' : mtab'[i].dev \in Blank
    BY <1>2, <1>6, <2>1 DEF Under
  <2> QED
    BY <2>2, <2>3, <2>4 DEF MountInv
<1>7. CASE PerfomMount("udev")
  <2>1. /\ pc["udev"] = "mount" /\ mtab' = Append(mtab, job["udev"].on)
        /\ Dir("udev") \in dirs /\ dirs' = dirs /\ pc'["udev"] = "findEqual"
    BY <1>7 DEF PerfomMount, Goto, Types, ThreadTypes, Threads
  <2>2. job["udev"].on \in Entries /\ job["udev"].on.dir = Dir("udev")
    BY <2>1, OnIsOwn, EntriesAreMounts DEF Dir
  <2>3. ~MakeEndpoint("udev")
    BY <2>1 DEF MakeEndpoint
  <2> QED
    BY <1>6, <2>1, <2>2, <2>3 DEF MountInv
<1>8. ASSUME NEW d \in Devices, UserMounts(d) PROVE MountInv'
  <2>1. /\ mtab' = Append(mtab, At(d, Elsewhere(d))) /\ dirs' = dirs
        /\ ~Mounted(d) /\ pc' = pc
    BY <1>8 DEF UserMounts, locals
  <2>2. /\ At(d, Elsewhere(d)) \in Entries /\ Elsewhere(d) \notin Dirs
        /\ At(d, Elsewhere(d)).dir = Elsewhere(d)
    BY ElsewhereIsNotOwn DEF At
  <2>3. Under(Elsewhere(d)) = {}
    <3>1. ASSUME NEW i \in DOMAIN mtab, mtab[i].dir = Elsewhere(d) PROVE FALSE
      <4>1. mtab[i] \in Entries
        BY <1>1
      <4>2. mtab[i].dev = d
        BY <3>1, <4>1, ElsewhereIsNotOwn
      <4> QED
        BY <2>1, <4>2 DEF Mounted, Mounts, Range
    <3> QED
      BY <3>1 DEF Under
  <2>4. ~MakeEndpoint("udev")
    BY <2>1 DEF MakeEndpoint, Goto, Types, ThreadTypes, Threads
  <2>5. pc'["udev"] = "mount" => Elsewhere(d) # Dir("udev")
    BY <1>2, <2>2, <2>4
  <2> QED
    BY <1>6, <2>1, <2>2, <2>3, <2>4, <2>5
<1>9. MakeEndpoint("udev") => mtab' = mtab
  BY DEF MakeEndpoint
<1> QED
  BY <1>3, <1>4, <1>5, <1>7, <1>8, <1>9, KernelEffects
-----------------------------------------------------------------------------
IInv == Types /\ RowsInv /\ MountInv

\* The invariant holds initially and every step keeps it.
THEOREM MonitorInvariance == Spec => []IInv
<1>1. Init => IInv
  <2>1. SUFFICES ASSUME Init PROVE IInv
    OBVIOUS
  <2>2. RowsInv
    BY <2>1 DEF Init, RowsInv, Unique, Empty, Threads
  <2>3. MountInv
    BY <2>1 DEF Init, MountInv, NoMountOverMount, Threads
  <2> QED
    BY <2>1, <2>2, <2>3, InitTypes DEF IInv
<1>2. IInv /\ [Next]_vars => IInv'
  BY TypesStep, RowsStep, MountStep DEF IInv
<1> QED
  BY <1>1, <1>2, PTL DEF Spec

\* Kernel, store, threads and environment keep their types: CreateMountEndpoint
\* always finds a directory below the mount root.
THEOREM MonitorTypesHold == Spec => []TypeOK
<1>1. IInv => TypeOK
  BY TypesAreTypeOK DEF IInv
<1> QED
  BY <1>1, MonitorInvariance, PTL

\* Mountpoints::Create, which looks for an equal row and inserts under different
\* locks, never enters a mount twice, with a review beside it and after crashes.
THEOREM RowsAreUnique == Spec => []UniqueRows
<1>1. IInv => UniqueRows
  BY DEF IInv, RowsInv, Unique, UniqueRows
<1> QED
  BY <1>1, MonitorInvariance, PTL

\* The daemon mounts nothing over a mount with files in it, although the
\* directory is chosen before the mount and reviews remove directories between.
THEOREM FilesStayVisible == Spec => []NoMountOverMount
<1>1. IInv => NoMountOverMount
  BY DEF IInv, MountInv
<1> QED
  BY <1>1, MonitorInvariance, PTL
-----------------------------------------------------------------------------
(* What a thread has looked up, while it works alone.                        *)

Held == Mounts \cap OwnMounts

\* Where a thread acts on what it has looked up.
Acting == {"expire", "umount", "findRow", "rmdir", "delete"}

\* What thread t has looked up is so still.
Sure(t) ==
    /\ pc[t] = "expire" => {m.dir : m \in Held} \subseteq job[t].seen
    /\ pc[t] = "umount" =>
          /\ Dir(t) # NoDir
          /\ \/ BlankAt(Dir(t))
             \/ \A m \in Mounts : m.dir = Dir(t) => m.dev = Dev(t)
    /\ pc[t] = "findRow" =>
          IF Dir(t) = NoDir THEN \A m \in Held : m.dev # Dev(t)
          ELSE job[t].on \notin Held \/ Dev(t) \in Blank
    /\ pc[t] \in {"rmdir", "delete"} /\ job[t].row \in DOMAIN rows =>
          rows[job[t].row] \notin Held \/ rows[job[t].row].dev \in Blank

\* A thread that never had the other beside it acts on what is so still: users
\* only detach what the daemon mounted, and mount elsewhere.
LookedUp ==
    /\ ~beside => /\ ~(AtWork("udev") /\ AtWork("review"))
                  /\ \A t \in Threads : Sure(t)
    /\ pc["udev"] = "down" => pc["review"] = "off"

LEMMA ActingIsWork == \A t \in Threads : pc[t] \in Acting => AtWork(t)
BY DEF Acting, AtWork

LEMMA SureElsewhere ==
  ASSUME NEW t \in Threads PROVE pc[t] \notin Acting => Sure(t)
BY DEF Acting, Sure

\* Of two mounts on a directory one is blank.
LEMMA OneToADirectory ==
  ASSUME Types, MountInv, NEW i \in DOMAIN mtab, NEW j \in DOMAIN mtab,
         mtab[i].dir = mtab[j].dir, ~BlankAt(mtab[i].dir)
  PROVE  i = j
<1>1. i \in Nat /\ j \in Nat
  BY DEF Types, KernelTypes
<1>2. mtab[i] \in Mounts /\ mtab[j] \in Mounts
  BY DEF Mounts, Range
<1>3. ~(i < j) /\ ~(j < i)
  BY <1>2 DEF MountInv, NoMountOverMount, BlankAt
<1> QED
  BY <1>1, <1>3

\* To detach a mount leaves the mounts of other directories, and what it leaves
\* on its own is blank.
LEMMA LessMounted ==
  ASSUME Types, NEW x, Under(x) # {}, mtab' = Detached(x)
  PROVE  /\ Mounts' \subseteq Mounts
         /\ \A m \in Mounts : m.dir # x => m \in Mounts'
         /\ MountInv => \A m \in Mounts' : m.dir = x => m.dev \in Blank
<1> DEFINE n == Max(Under(x))
<1>1. /\ n \in Under(x) /\ n \in DOMAIN mtab /\ mtab[n].dir = x
      /\ \A i \in Under(x) : i <= n
  BY TopOfStack DEF Under, Types, KernelTypes
<1> HIDE DEF n
<1>2. mtab' = RemoveAt(mtab, n)
  BY DEF Detached, n
<1>3. mtab \in Seq(Entries) /\ n \in Nat /\ DOMAIN mtab = 1..Len(mtab) /\ Len(mtab) \in Nat
  BY <1>1 DEF Types, KernelTypes
<1>4. /\ DOMAIN mtab' = 1..(Len(mtab) - 1)
      /\ \A i \in DOMAIN mtab' : mtab'[i] = IF i < n THEN mtab[i] ELSE mtab[i + 1]
  <2>1. /\ mtab' \in Seq(Entries) /\ Len(mtab') = Len(mtab) - 1
        /\ \A i \in DOMAIN mtab' : mtab'[i] = IF i < n THEN mtab[i] ELSE mtab[i + 1]
    BY <1>1, <1>2, <1>3, RemovedAt, Zenon
  <2> QED
    BY <2>1
<1>5. ASSUME NEW i \in DOMAIN mtab'
      PROVE  \E k \in DOMAIN mtab : k # n /\ mtab'[i] = mtab[k]
  <2>1. CASE i < n
    BY <1>3, <1>4, <2>1
  <2>2. CASE ~(i < n)
    <3>1. i + 1 \in DOMAIN mtab /\ i + 1 # n
      BY <1>3, <1>4, <2>2
    <3> QED
      BY <1>4, <2>2, <3>1
  <2> QED
    BY <2>1, <2>2
<1>6. ASSUME NEW k \in DOMAIN mtab, k # n
      PROVE  \E i \in DOMAIN mtab' : mtab'[i] = mtab[k]
  <2>1. CASE k < n
    <3>1. k \in DOMAIN mtab'
      BY <1>1, <1>3, <1>4, <2>1
    <3> QED
      BY <1>4, <2>1, <3>1
  <2>2. CASE ~(k < n)
    <3>1. k - 1 \in DOMAIN mtab' /\ ~(k - 1 < n) /\ (k - 1) + 1 = k
      BY <1>1, <1>3, <1>4, <1>6, <2>2
    <3> QED
      BY <1>4, <3>1
  <2> QED
    BY <2>1, <2>2
<1>7. Mounts' \subseteq Mounts
  BY <1>5 DEF Mounts, Range
<1>8. \A m \in Mounts : m.dir # x => m \in Mounts'
  BY <1>1, <1>6 DEF Mounts, Range
<1>9. ASSUME MountInv, NEW m \in Mounts', m.dir = x PROVE m.dev \in Blank
  <2>1. PICK i \in DOMAIN mtab' : m = mtab'[i]
    BY <1>9 DEF Mounts, Range
  <2>2. PICK k \in DOMAIN mtab : k # n /\ m = mtab[k]
    BY <1>5, <2>1
  <2>3. k \in Under(x) /\ k < n
    BY <1>1, <1>3, <1>9, <2>2 DEF Under
  <2> QED
    BY <1>1, <1>9, <2>2, <2>3 DEF MountInv, NoMountOverMount
<1> QED
  BY <1>7, <1>8, <1>9

\* What happens to the mounts while a thread stands still, and the other does
\* not work.
MountsByUsers ==
    \/ mtab' = mtab
    \/ \E x : Under(x) # {} /\ mtab' = Detached(x)
    \/ \E d \in Devices : mtab' = Append(mtab, At(d, Elsewhere(d)))

LEMMA HeldByUsers ==
  ASSUME Types, MountsByUsers PROVE Held' \subseteq Held
<1>1. CASE mtab' = mtab
  BY <1>1 DEF Held, Mounts
<1>2. ASSUME NEW x, Under(x) # {}, mtab' = Detached(x) PROVE Held' \subseteq Held
  BY <1>2, LessMounted DEF Held
<1>3. ASSUME NEW d \in Devices, mtab' = Append(mtab, At(d, Elsewhere(d)))
      PROVE  Held' \subseteq Held
  <2>1. Mounts' = Mounts \cup {At(d, Elsewhere(d))}
    BY <1>3 DEF Mounts, Range, Types, KernelTypes
  <2>2. At(d, Elsewhere(d)) \notin OwnMounts
    BY ElsewhereIsNotOwn DEF At, OwnMounts
  <2> QED
    BY <2>1, <2>2 DEF Held
<1> QED
  BY <1>1, <1>2, <1>3 DEF MountsByUsers

\* Users take nothing away from what was looked up but mounts.
LEMMA UsersLookOn ==
  ASSUME Types, MountInv, NEW t \in Threads, Sure(t), MountsByUsers, rows' = rows,
         pc'[t] = pc[t], job'[t] = job[t]
  PROVE  Sure(t)'
<1>1. Held' \subseteq Held
  BY HeldByUsers
<1>2. Dir(t)' = Dir(t) /\ Dev(t)' = Dev(t)
  BY DEF Dir, Dev
<1>3. job[t].on \in AnyMount
  BY DEF Types, ThreadTypes, Job
<1>4. ASSUME pc[t] = "umount", ~BlankAt(Dir(t))'
      PROVE  \A m \in Mounts' : m.dir = Dir(t) => m.dev = Dev(t)
  <2>1. CASE mtab' = mtab
    BY <1>2, <1>4, <2>1 DEF Sure, BlankAt, Mounts
  <2>2. ASSUME NEW x, Under(x) # {}, mtab' = Detached(x)
        PROVE  \A m \in Mounts' : m.dir = Dir(t) => m.dev = Dev(t)
    <3>1. CASE x = Dir(t)
      BY <1>2, <1>4, <2>2, <3>1, LessMounted DEF BlankAt
    <3>2. CASE x # Dir(t)
      <4>1. ~BlankAt(Dir(t))
        BY <1>2, <1>4, <2>2, <3>2, LessMounted DEF BlankAt
      <4> QED
        BY <1>4, <2>2, <4>1, LessMounted DEF Sure
    <3> QED
      BY <3>1, <3>2
  <2>3. ASSUME NEW d \in Devices, mtab' = Append(mtab, At(d, Elsewhere(d)))
        PROVE  \A m \in Mounts' : m.dir = Dir(t) => m.dev = Dev(t)
    <3>1. Mounts' = Mounts \cup {At(d, Elsewhere(d))}
      BY <2>3 DEF Mounts, Range, Types, KernelTypes
    <3>2. ~BlankAt(Dir(t)) /\ Dir(t) # NoDir
      BY <1>2, <1>4, <3>1 DEF BlankAt, Sure
    <3>3. ASSUME Elsewhere(d) = Dir(t) PROVE d = Dev(t)
      <4>1. Dir(t) \notin Dirs /\ Dir(t) # NoDir
        BY <3>2, <3>3, ElsewhereIsNotOwn
      <4>2. PICK c \in Devices : job[t].on = At(c, Elsewhere(c))
        BY <1>3, <4>1 DEF AnyMount, Dir
      <4> QED
        BY <3>3, <4>2 DEF At, Elsewhere, Dir, Dev
    <3> QED
      BY <1>4, <3>1, <3>2, <3>3 DEF Sure, At
  <2> QED
    BY <2>1, <2>2, <2>3 DEF MountsByUsers
<1> QED
  BY <1>1, <1>2, <1>4 DEF Sure

\* A thread that is not at work does nothing.
LEMMA Resting ==
  ASSUME NEW t \in Threads, ~AtWork(t) PROVE ~Step(t)
BY DEF AtWork, Step, Review, Snapshot, RemoveExpired, SaveExpired, Sweep, SweepFails,
   Swept, Scan, Walked, List, NextExpired, Reviewed, UnMount, ReadMtab, Umount,
   UmountFails, FindRow, RemoveDir, DeleteRow, Save, Mount, FindRule, ReadRule,
   MakeEndpoint, EndpointFails, PerfomMount, MountFails, FindEqual, CreateRow

\* A step of one thread leaves the other where it is.
LEMMA OtherStays ==
  ASSUME Types, NEW t \in Threads, Step(t), ~Die
  PROVE  /\ \A u \in Threads \ {t} : pc'[u] = pc[u]
         /\ pc'[t] # "down" /\ beside' = beside
<1>1. CASE Review(t) \/ UnMount(t) \/ Save(t)
  <2>1. \A u \in Threads \ {t} : pc'[u] = pc[u]
    BY <1>1, LoopSteps
  <2>2. beside' = beside
    BY <1>1 DEF Review, Snapshot, RemoveExpired, SaveExpired, Sweep, SweepFails, Swept,
       Scan, Walked, List, NextExpired, Reviewed, UnMount, ReadMtab, Umount,
       UmountFails, FindRow, RemoveDir, DeleteRow, Save
  <2>3. pc'[t] # "down"
    <3>1. pc \in [Threads -> Places]
      BY DEF Types, ThreadTypes
    <3>2. CASE Review(t)
      BY <3>1, <3>2 DEF Review, Snapshot, RemoveExpired, SaveExpired, Sweep, SweepFails,
         Swept, Scan, Walked, List, NextExpired, Reviewed, Goto
    <3>3. CASE UnMount(t) \/ Save(t)
      BY <3>1, <3>3 DEF UnMount, ReadMtab, Umount, UmountFails, FindRow, RemoveDir,
         DeleteRow, Save, Done, Goto
    <3> QED
      BY <1>1, <3>2, <3>3
  <2> QED
    BY <2>1, <2>2, <2>3
<1>2. CASE Mount(t)
  BY <1>2 DEF Mount, FindRule, ReadRule, MakeEndpoint, EndpointFails, PerfomMount,
     MountFails, FindEqual, CreateRow, Done, Goto, Types, ThreadTypes
<1> QED
  BY <1>1, <1>2 DEF Step

\* The looks themselves.
LEMMA LooksUp ==
  ASSUME Types, MountInv, NEW t \in Threads, Sure(t), Step(t), ~Die
  PROVE  Sure(t)'
<1>1. /\ pc \in [Threads -> Places] /\ job \in [Threads -> Job]
      /\ job[t].on \in AnyMount
  BY DEF Types, ThreadTypes, Job
<1>2. CASE pc'[t] \notin Acting
  BY <1>2, SureElsewhere DEF Sure, Acting
<1>3. CASE Snapshot(t)
  <2>1. /\ job'[t] = [job[t] EXCEPT !.seen = {m.dir : m \in Mounts} \cap Dirs]
        /\ pc'[t] = "expire" /\ mtab' = mtab
    BY <1>1, <1>3 DEF Snapshot, Keep, Goto, kernel
  <2>2. job'[t].seen = {m.dir : m \in Mounts} \cap Dirs
    BY <1>1, <2>1 DEF Job
  <2>3. \A m \in Held' : m \in Mounts /\ m.dir \in Dirs
    BY <2>1 DEF Held, Mounts, OwnMounts
  <2> QED
    BY <2>1, <2>2, <2>3 DEF Sure
<1>4. CASE ReadMtab(t)
  <2> DEFINE mine == {i \in DOMAIN mtab : mtab[i].dev = Dev(t)}
  <2>1. mtab' = mtab /\ Held' = Held /\ Mounts' = Mounts
    BY <1>4 DEF ReadMtab, kernel, Held, Mounts
  <2>2. CASE mine = {}
    <3>1. job' = job /\ pc'[t] = "findRow"
      BY <1>1, <1>4, <2>2 DEF ReadMtab, Goto
    <3>2. \A m \in Mounts : m.dev # Dev(t)
      BY <2>2 DEF Mounts, Range
    <3>3. job[t].on \notin Mounts
      BY <3>2 DEF Dev
    <3>4. Dir(t)' = Dir(t) /\ Dev(t)' = Dev(t)
      BY <3>1 DEF Dir, Dev
    <3> QED
      BY <2>1, <3>1, <3>2, <3>3, <3>4 DEF Sure, Held
  <2>3. CASE mine # {}
    <3>1. First(mine) \in mine
      <4>1. mine \subseteq Nat
        BY DEF Types, KernelTypes
      <4> HIDE DEF mine
      <4> QED
        BY <2>3, <4>1, FirstIsLeast
    <3> DEFINE e == mtab[First(mine)]
    <3>2. job' = [job EXCEPT ![t] = [job[t] EXCEPT !.on = e]] /\ pc'[t] = "umount"
      BY <1>1, <1>4, <2>3 DEF ReadMtab, Goto, Keep
    <3>3. e \in Mounts /\ First(mine) \in DOMAIN mtab
      BY <3>1 DEF Mounts, Range
    <3> HIDE DEF e, mine
    <3>4. job'[t].on = e
      BY <1>1, <3>2 DEF Job
    <3>5. e.dir # NoDir
      <4>1. e \in Entries
        BY <3>3 DEF Types, KernelTypes, Mounts, Range
      <4>2. e.dir \in Dirs \/ (e.dir = Elsewhere(e.dev) /\ e.dev \in Devices)
        BY <4>1 DEF Entries, OwnMounts, At
      <4>3. NoDir \notin Dirs
        BY MonitorAssumption DEF NoDir, Dirs
      <4>4. ASSUME NEW d \in Devices PROVE Elsewhere(d) # NoDir
        BY MonitorAssumption DEF Elsewhere, NoDir
      <4> QED
        BY <4>2, <4>3, <4>4
    <3>6. ASSUME ~BlankAt(e.dir), NEW m \in Mounts, m.dir = e.dir PROVE m.dev = e.dev
      <4>1. PICK i \in DOMAIN mtab : m = mtab[i]
        BY DEF Mounts, Range
      <4>2. i = First(mine)
        BY <3>3, <3>6, <4>1, OneToADirectory DEF e
      <4> QED
        BY <4>1, <4>2 DEF e
    <3>7. Dir(t)' = e.dir /\ Dev(t)' = e.dev
      BY <3>4 DEF Dir, Dev
    <3>8. BlankAt(Dir(t))' <=> BlankAt(e.dir)
      BY <2>1, <3>7 DEF BlankAt
    <3> QED
      BY <2>1, <3>2, <3>5, <3>6, <3>7, <3>8 DEF Sure
  <2> QED
    BY <2>2, <2>3
<1>5. CASE Umount(t)
  <2>1. /\ pc[t] = "umount" /\ pc'[t] = "findRow" /\ job' = job
        /\ Under(Dir(t)) # {} /\ mtab' = Detached(Dir(t))
    BY <1>1, <1>5 DEF Umount, Goto
  <2>2. \A m \in Mounts' : m.dir = Dir(t) => m.dev \in Blank
    BY <2>1, LessMounted
  <2>3. (job[t].on \notin Held' \/ Dev(t) \in Blank) /\ Dir(t) # NoDir
    BY <2>1, <2>2 DEF Held, Dir, Dev, Sure
  <2>4. Dir(t)' = Dir(t) /\ Dev(t)' = Dev(t)
    BY <2>1 DEF Dir, Dev
  <2> QED
    BY <2>1, <2>3, <2>4 DEF Sure
<1>6. CASE FindRow(t) /\ pc'[t] \in Acting
  <2> DEFINE found == IF Dir(t) = NoDir THEN RowsOf(Dev(t)) ELSE RowAt(job[t].on)
  <2>1. pc[t] = "findRow" /\ UNCHANGED <<kernel, tables>>
    BY <1>6 DEF FindRow
  <2>2. found # {} => /\ Keep(t, [job[t] EXCEPT !.row = First(found)])
                      /\ Goto(t, "rmdir")
    BY <1>6 DEF FindRow
  <2>3. found = {} => Done(t)
    BY <1>6 DEF FindRow
  <2>4. ~Done(t)
    BY <1>1, <1>6 DEF Done, Goto, Acting
  <2>5. First(found) \in found
    <3>1. found \subseteq Nat
      BY DEF RowsOf, RowAt, Types, StoreTypes, IsStore, IsTable
    <3> QED
      BY <2>3, <2>4, <3>1, FirstIsLeast
  <2>6. rows[First(found)] \notin Held \/ rows[First(found)].dev \in Blank
    <3>1. CASE Dir(t) = NoDir
      BY <2>1, <2>5, <3>1 DEF Sure, RowsOf
    <3>2. CASE Dir(t) # NoDir
      BY <2>1, <2>5, <3>2 DEF Sure, RowAt, Dev
    <3> QED
      BY <3>1, <3>2
  <2> HIDE DEF found
  <2>7. job'[t].row = First(found) /\ pc'[t] = "rmdir"
    BY <1>1, <2>2, <2>3, <2>4 DEF Keep, Goto, Job
  <2> QED
    BY <2>1, <2>6, <2>7 DEF Sure, kernel, tables, Held, Mounts
<1>7. CASE RemoveDir(t)
  <2>1. /\ pc[t] = "rmdir" /\ pc'[t] = "delete"
        /\ mtab' = mtab /\ job' = job /\ rows' = rows
    BY <1>1, <1>7 DEF RemoveDir, Goto, tables
  <2> QED
    BY <2>1 DEF Sure, Held, Mounts
<1>8. \/ Snapshot(t) \/ ReadMtab(t) \/ Umount(t) \/ FindRow(t)
      \/ RemoveDir(t) \/ pc'[t] \notin Acting
  <2>1. Done(t) => pc'[t] \notin Acting
    BY <1>1 DEF Done, Goto, Acting
  <2>2. CASE Review(t)
    BY <1>1, <2>2 DEF Review, RemoveExpired, SaveExpired, Sweep, SweepFails,
       Swept, Scan, Walked, List, NextExpired, Reviewed, Goto, Acting
  <2>3. CASE UnMount(t) \/ Save(t)
    BY <1>1, <2>1, <2>3 DEF UnMount, UmountFails, DeleteRow, Save, Goto, Acting
  <2>4. CASE Mount(t)
    BY <1>1, <2>1, <2>4 DEF Mount, FindRule, ReadRule, MakeEndpoint, EndpointFails,
       PerfomMount, MountFails, FindEqual, CreateRow, Goto, Acting
  <2> QED
    BY <2>2, <2>3, <2>4 DEF Step
<1> QED
  BY <1>2, <1>3, <1>4, <1>5, <1>6, <1>7, <1>8

LEMMA LookedUpByDie ==
  ASSUME Die PROVE LookedUp'
<1>1. \A t \in Threads : pc'[t] \in {"off", "down", "dead"}
  BY DEF Die, Threads
<1>2. ~AtWork("udev")' /\ ~AtWork("review")' /\ pc'["review"] = "off"
  BY <1>1 DEF Die, AtWork, Threads
<1>3. \A t \in Threads : Sure(t)'
  BY <1>1 DEF Sure
<1> QED
  BY <1>2, <1>3 DEF LookedUp

LEMMA LookedUpByUsers ==
  ASSUME Types, MountInv, LookedUp, Environment
  PROVE  LookedUp'
<1>1. CASE Die
  BY <1>1, LookedUpByDie
<1>2. CASE /\ UNCHANGED <<job, rows, beside>> /\ MountsByUsers
           /\ \A t \in Threads : pc'[t] = pc[t] \/ (pc[t] = "walk" /\ pc'[t] = "lost")
  <2>1. \A t \in Threads : AtWork(t)' => AtWork(t)
    BY <1>2 DEF AtWork
  <2>2. ASSUME NEW t \in Threads, Sure(t) PROVE Sure(t)'
    <3>1. CASE pc'[t] = pc[t]
      BY <1>2, <2>2, <3>1, UsersLookOn
    <3>2. CASE pc'[t] = "lost"
      BY <3>2 DEF Sure
    <3> QED
      BY <1>2, <3>1, <3>2
  <2>3. pc'["udev"] = "down" => pc["udev"] = "down"
    BY <1>2 DEF Threads
  <2>4. pc["review"] = "off" => pc'["review"] = "off"
    BY <1>2 DEF Threads
  <2> QED
    BY <1>2, <2>1, <2>2, <2>3, <2>4 DEF LookedUp, Threads
<1>3. ASSUME NEW d \in Devices, Unplug(d) PROVE LookedUp'
  <2>1. \A t \in Threads : pc'[t] = pc[t] \/ (pc[t] = "walk" /\ pc'[t] = "lost")
    BY <1>3 DEF Unplug
  <2> QED
    BY <1>2, <1>3, <2>1 DEF Unplug, MountsByUsers, tables
<1>4. ASSUME NEW x, UserUnmounts(x) PROVE LookedUp'
  BY <1>2, <1>4 DEF UserUnmounts, MountsByUsers, tables, locals
<1>5. ASSUME NEW d \in Devices, Plug(d) \/ Trigger(d) \/ UserMounts(d) \/ ChangeRule(d)
      PROVE  LookedUp'
  BY <1>2, <1>5 DEF Plug, Trigger, UserMounts, ChangeRule, MountsByUsers, tables,
     locals, kernel
<1> QED
  BY <1>1, <1>3, <1>4, <1>5 DEF Environment, Crash

LEMMA LookedUpByMonitor ==
  ASSUME Types, MountInv, LookedUp, Monitor \/ StartReview
  PROVE  LookedUp'
<1>1. /\ pc \in [Threads -> Places] /\ Threads = {"udev", "review"}
      /\ job \in [Threads -> Job]
  BY DEF Types, ThreadTypes, Threads
<1>2. CASE StartReview
  <2>1. pc' = [udev |-> pc'["udev"], review |-> "snapshot"]
        /\ pc'["udev"] \in {"lost", "idle"}
    BY <1>2 DEF StartReview
  <2>2. ~AtWork("udev")' /\ pc'["udev"] # "down"
    BY <2>1 DEF AtWork
  <2>3. \A t \in Threads : pc'[t] \notin Acting
    BY <1>1, <2>1 DEF Acting
  <2> QED
    BY <2>2, <2>3, SureElsewhere DEF LookedUp, Sure, Acting
<1>3. CASE Monitor
  <2>1. PICK p \in {"idle", "findRule", "readMtab", "snapshot", "bootNext"} :
           Goto("udev", p)
    BY <1>3 DEF Monitor, ReceiveDevice, BootNext, Booted, Restart, Response
  <2>2. pc'["udev"] = p /\ pc'["review"] = pc["review"]
    BY <1>1, <2>1 DEF Goto
  <2>3. /\ mtab' = mtab /\ job'["review"] = job["review"]
        /\ rows' = rows \/ (Restart /\ pc["review"] = "off")
    <3>1. Restart => pc["review"] = "off"
      BY DEF Restart, LookedUp
    <3> QED
      BY <1>1, <1>3, <3>1 DEF Monitor, ReceiveDevice, BootNext, Booted, Restart, Keep,
         kernel, tables
  <2>4. Sure("udev")'
    BY <2>2 DEF Sure
  <2>5. Sure("review") => Sure("review")'
    <3>1. CASE rows' = rows
      BY <1>1, <2>2, <2>3, <3>1, UsersLookOn DEF MountsByUsers
    <3>2. CASE pc["review"] = "off"
      BY <2>2, <3>2 DEF Sure
    <3> QED
      BY <2>3, <3>1, <3>2
  <2>6. CASE beside'
    BY <2>2, <2>6 DEF LookedUp
  <2>7. CASE ~beside'
    <3>1. ~AtWork("review") \/ p = "idle"
      <4>1. AtWork("review")' = AtWork("review")
        BY <2>2 DEF AtWork
      <4>2. CASE ReceiveDevice
        BY <1>1, <2>1, <2>2, <2>7, <4>2 DEF ReceiveDevice, Goto
      <4>3. CASE BootNext \/ Booted
        BY <2>7, <4>3 DEF BootNext, Booted, LookedUp, AtWork
      <4>4. CASE Restart
        BY <4>4 DEF Restart, LookedUp, AtWork
      <4> QED
        BY <1>3, <4>2, <4>3, <4>4 DEF Monitor
    <3>2. ~(AtWork("udev")' /\ AtWork("review")')
      BY <2>2, <3>1 DEF AtWork
    <3>3. Sure("review")'
      <4>1. CASE ~AtWork("review")
        BY <2>2, <4>1 DEF AtWork, Sure
      <4>2. CASE ~beside
        BY <1>1, <2>5, <4>2 DEF LookedUp
      <4>3. CASE AtWork("review") /\ beside
        <5>1. beside' = beside \/ beside' = AtWork("review")
          BY <1>3 DEF Monitor, ReceiveDevice, BootNext, Booted, Restart
        <5> QED
          BY <2>7, <4>3, <5>1
      <4> QED
        BY <4>1, <4>2, <4>3
    <3> QED
      BY <1>1, <2>2, <2>4, <3>2, <3>3 DEF LookedUp
  <2> QED
    BY <2>6, <2>7
<1> QED
  BY <1>2, <1>3

LEMMA LookedUpStep ==
  ASSUME Types, MountInv, LookedUp, [Next]_vars
  PROVE  LookedUp'
<1>1. CASE UNCHANGED vars
  <2>1. \A t \in Threads : Sure(t) => Sure(t)'
    BY <1>1, UsersLookOn DEF vars, kernel, tables, locals, MountsByUsers
  <2>2. UNCHANGED <<pc, beside>>
    BY <1>1 DEF vars, locals
  <2> QED
    BY <2>1, <2>2 DEF LookedUp, AtWork
<1>2. ASSUME NEW t \in Threads, Step(t) PROVE LookedUp'
  <2>1. CASE Die
    BY <2>1, LookedUpByDie
  <2>2. CASE ~Die
    <3>1. AtWork(t)
      BY <1>2, Resting
    <3>2. /\ \A u \in Threads \ {t} : pc'[u] = pc[u]
          /\ pc'[t] # "down" /\ beside' = beside
      BY <1>2, <2>2, OtherStays
    <3>3. pc["review"] = "off" => t = "udev"
      BY <3>1 DEF AtWork, Threads
    <3>4. pc'["udev"] = "down" => pc'["review"] = "off"
      BY <3>1, <3>2, <3>3 DEF LookedUp, Threads, AtWork
    <3>5. ASSUME ~beside
          PROVE  ~(AtWork("udev")' /\ AtWork("review")') /\ \A u \in Threads : Sure(u)'
      <4>1. \A u \in Threads \ {t} : ~AtWork(u) /\ ~AtWork(u)'
        BY <3>1, <3>2, <3>5 DEF LookedUp, Threads, AtWork
      <4>2. \A u \in Threads \ {t} : Sure(u)'
        BY <4>1 DEF AtWork, Sure
      <4>3. Sure(t)'
        BY <1>2, <2>2, <3>5, LooksUp DEF LookedUp
      <4> QED
        BY <4>1, <4>2, <4>3 DEF Threads
    <3> QED
      BY <3>2, <3>4, <3>5 DEF LookedUp
  <2> QED
    BY <2>1, <2>2
<1> QED
  BY <1>1, <1>2, LookedUpByMonitor, LookedUpByUsers DEF Next

\* What a thread has looked up holds when it acts on it, unless the other one
\* works beside it, for any number of devices, directories and steps.
THEOREM LookedUpHolds == Spec => [](IInv /\ LookedUp)
<1>1. Init => LookedUp
  BY DEF Init, LookedUp, Threads, AtWork, Sure
<1>2. IInv /\ LookedUp /\ [Next]_vars => LookedUp'
  BY LookedUpStep DEF IInv
<1> QED
  BY <1>1, <1>2, MonitorInvariance, PTL DEF Spec

\* Which steps change rows, while the daemon is up.
LEMMA RowsMove ==
  ASSUME [Next]_vars, pc["udev"] # "down", rows' # rows
  PROVE  \E t \in Threads : RemoveExpired(t) \/ DeleteRow(t) \/ CreateRow(t)
<1>1. ~UNCHANGED vars /\ ~Monitor /\ ~StartReview
  BY DEF vars, tables, Monitor, ReceiveDevice, BootNext, Booted, Restart, StartReview
<1>2. ~Environment
  BY DEF Environment, Plug, Unplug, Trigger, UserMounts, ChangeRule, UserUnmounts,
     Crash, tables
<1>3. PICK t \in Threads : Step(t)
  BY <1>1, <1>2 DEF Next
<1>4. CASE Review(t)
  BY <1>4 DEF Review, Snapshot, SaveExpired, Sweep, SweepFails, Swept, Scan, Walked,
     List, NextExpired, Reviewed, tables
<1>5. CASE UnMount(t) \/ Save(t)
  BY <1>5 DEF UnMount, ReadMtab, Umount, UmountFails, FindRow, RemoveDir, Save, tables
<1>6. CASE Mount(t)
  BY <1>6 DEF Mount, FindRule, ReadRule, MakeEndpoint, EndpointFails, PerfomMount,
     MountFails, FindEqual, tables
<1> QED
  BY <1>3, <1>4, <1>5, <1>6 DEF Step

\* RemoveExpired and Delete drop only rows whose mounts are gone, whatever users,
\* devices and crashes do, unless both threads are at work or the filesystem has
\* no files in it.
THEOREM RowsOutliveTheirMounts == Spec => RowsOutliveMounts
<1> DEFINE Outlive ==
      pc["udev"] # "down" /\ ~beside =>
         {e \in Range(rows) \cap Mounts : e.dev \notin Blank} \subseteq Range(rows')
<1>1. ASSUME IInv, LookedUp, [Next]_vars PROVE Outlive \/ rows' = rows
  <2> SUFFICES ASSUME pc["udev"] # "down", ~beside, rows' # rows,
                      NEW i \in DOMAIN rows, rows[i] \in Mounts, rows[i].dev \notin Blank
               PROVE  i \in DOMAIN rows' /\ rows'[i] = rows[i]
    BY DEF Range
  <2>1. IsStore(rows, OwnMounts) /\ rows[i] \in Held /\ rows[i].dir \in Dirs
    BY <1>1 DEF IInv, Types, StoreTypes, IsStore, IsTable, Held, OwnMounts
  <2>2. PICK t \in Threads : RemoveExpired(t) \/ DeleteRow(t) \/ CreateRow(t)
    BY <1>1, RowsMove
  <2>3. Sure(t)
    BY <1>1 DEF LookedUp
  <2>4. CASE RemoveExpired(t)
    <3>1. /\ pc[t] = "expire"
          /\ rows' = Without(rows, {k \in DOMAIN rows : rows[k].dir \notin job[t].seen})
      BY <2>4 DEF RemoveExpired
    <3>2. rows[i].dir \in job[t].seen
      BY <2>1, <2>3, <3>1 DEF Sure
    <3> QED
      BY <3>1, <3>2 DEF Without, Restrict
  <2>5. CASE DeleteRow(t)
    <3>1. pc[t] = "delete" /\ rows' = Without(rows, {job[t].row})
      BY <2>5 DEF DeleteRow
    <3>2. i # job[t].row
      BY <2>1, <2>3, <3>1 DEF Sure
    <3> QED
      BY <3>1, <3>2 DEF Without, Restrict
  <2>6. CASE CreateRow(t)
    BY <2>6 DEF CreateRow, Inserted
  <2> QED
    BY <2>2, <2>4, <2>5, <2>6
<1>2. ASSUME IInv, LookedUp, [Next]_vars PROVE [Outlive]_rows
  BY <1>1, <1>2
<1> QED
  BY <1>2, LookedUpHolds, PTL DEF Spec, RowsOutliveMounts

\* How a thread gets from the mount it has found to the row.
LEMMA UmountMoves ==
  ASSUME Types, Next, NEW t \in Threads, pc[t] = "umount", pc'[t] = "findRow"
  PROVE  Under(Dir(t)) # {}
<1>1. pc \in [Threads -> Places]
  BY DEF Types, ThreadTypes
<1>2. ~Environment
  <2>1. ~Die
    BY DEF Die
  <2>2. \A d \in Devices : ~Unplug(d)
    BY DEF Unplug
  <2> QED
    BY <2>1, <2>2 DEF Environment, Plug, Trigger, UserMounts, ChangeRule, UserUnmounts,
       Crash, locals
<1>3. ~Monitor /\ ~StartReview
  BY <1>1 DEF Monitor, ReceiveDevice, BootNext, Booted, Restart, StartReview, Goto,
     Threads
<1>4. PICK u \in Threads : Step(u)
  BY <1>2, <1>3 DEF Next
<1>5. ~Die
  BY DEF Die
<1>6. u = t
  BY <1>4, <1>5, OtherStays
<1>7. ~Done(t)
  BY <1>1 DEF Done, Goto
<1>8. ~Review(t)
  BY DEF Review, Snapshot, RemoveExpired, SaveExpired, Sweep, SweepFails, Swept, Scan,
     Walked, List, NextExpired, Reviewed
<1>9. ~Mount(t)
  BY DEF Mount, FindRule, ReadRule, MakeEndpoint, EndpointFails, PerfomMount,
     MountFails, FindEqual, CreateRow
<1>10. Umount(t)
  BY <1>4, <1>6, <1>7, <1>8, <1>9 DEF Step, UnMount, ReadMtab, UmountFails, FindRow,
     RemoveDir, DeleteRow, Save
<1> QED
  BY <1>10 DEF Umount

\* UnMount detaches a mount of the device it was called for, unless a review
\* runs beside the events or a filesystem without files is mounted over.
THEOREM OnlyOwnUnmounted == Spec => UnmountsOwn
<1> DEFINE OwnTop ==
      \A t \in Threads :
         pc[t] = "umount" /\ pc'[t] = "findRow" /\ ~beside /\ ~BlankAt(Dir(t)) =>
            mtab[Max(Under(Dir(t)))].dev = Dev(t)
<1>1. ASSUME IInv, LookedUp, [Next]_vars PROVE OwnTop \/ UNCHANGED vars
  <2> SUFFICES ASSUME NEW t \in Threads, pc[t] = "umount", pc'[t] = "findRow", ~beside,
                      ~BlankAt(Dir(t)), Next
               PROVE  mtab[Max(Under(Dir(t)))].dev = Dev(t)
    BY <1>1
  <2>1. Under(Dir(t)) # {}
    BY <1>1, UmountMoves DEF IInv
  <2>2. /\ Max(Under(Dir(t))) \in DOMAIN mtab
        /\ mtab[Max(Under(Dir(t)))].dir = Dir(t)
    BY <1>1, <2>1, TopOfStack DEF IInv, Types, KernelTypes, Under
  <2>3. mtab[Max(Under(Dir(t)))] \in Mounts
    BY <2>2 DEF Mounts, Range
  <2> QED
    BY <1>1, <2>2, <2>3 DEF LookedUp, Sure
<1> QED
  BY <1>1, LookedUpHolds, PTL DEF Spec, UnmountsOwn
=============================================================================
