------------------------- MODULE EnumerationProofs -------------------------
(***************************************************************************)
(* Proof about Enumeration, for any sticks, names, rules and bounds: no    *)
(* user is let to mount a stick that has a rule and stays, and a list of   *)
(* devices is right about every one that stays.                            *)
(***************************************************************************)
EXTENDS Enumeration, RowsProofs

Shapes ==
    /\ place \in [Threads -> Places]
    /\ todo \in [Threads -> SUBSET Nat]
    /\ stays \in Seq(Stay)
    /\ present \subseteq Paths
    /\ stayed \subseteq present

(* The kernel gives a name to one stick at a time. *)
OneName == \A p, q \in present : stays[p].name = stays[q].name => p = q

Asked == call.method = "CanUserMount"

(* The device asked about, if it has been there since the question: the     *)
(* search has it before it until it is at hand.                             *)
Sought == {p \in stayed : stays[p].name = call.name}

Searching ==
    /\ Asked => place["dbus"] \in {"off", "find", "info", "lost"}
    /\ place["dbus"] = "find" => Sought \subseteq todo["dbus"]
    /\ place["dbus"] = "info" => Sought \subseteq {on.path}

IInv == Shapes /\ OneName /\ Searching

(* The threads that the question does not run in. *)
Elsewhere == {"udev"} \cup Reviewers

LEMMA OthersKeep ==
  ASSUME IInv, Udev \/ \E t \in Reviewers : Review(t)
  PROVE  IInv' /\ place'["dbus"] = place["dbus"]
<1> DEFINE Apart == /\ place' \in [Threads -> Places] /\ place'["dbus"] = place["dbus"]
                    /\ todo' \in [Threads -> SUBSET Nat] /\ todo'["dbus"] = todo["dbus"]
<1>1. ASSUME Apart, UNCHANGED <<stays, present, serving>>
      PROVE  IInv' /\ place'["dbus"] = place["dbus"]
  BY <1>1 DEF IInv, Shapes, OneName, Searching, Sought, Asked, serving, Paths
<1> USE DEF IInv, Shapes
<1>2. ASSUME NEW t \in Elsewhere, Expire(t) \/ Scan(t) \/ Open(t) \/ Clean(t)
      PROVE  Apart /\ UNCHANGED <<stays, present, serving>>
  <2>1. t \in Threads /\ t # "dbus"
    BY <1>2 DEF Elsewhere, Threads, Reviewers
  <2>2. present \subseteq Nat
    BY DEF Paths
  <2>3. CASE Scan(t)
    <3>1. PICK p \in Places : place' = [place EXCEPT ![t] = p]
      BY <2>3 DEF Scan, Goto, Places, Walks
    <3>2. todo' = [todo EXCEPT ![t] = present] /\ UNCHANGED <<stays, present, serving>>
      BY <2>3 DEF Scan, kernel
    <3> QED
      BY <2>1, <2>2, <3>1, <3>2
  <2>4. CASE Open(t)
    <3>1. UNCHANGED <<stays, present, serving>>
      BY <2>4 DEF Open, kernel
    <3>2. \/ place' = place
          \/ place' = [place EXCEPT ![t] = "lost"]
      BY <2>4 DEF Open, Goto
    <3>3. \E ps \in SUBSET Nat : todo' = [todo EXCEPT ![t] = ps]
      <4>1. PICK p \in todo[t] : \/ todo' = [todo EXCEPT ![t] = todo[t] \ {p}]
                                \/ todo' = [todo EXCEPT ![t] = {}]
        BY <2>4 DEF Open, Pass
      <4>2. todo[t] \ {p} \in SUBSET Nat
        BY <2>1
      <4> QED
        BY <4>1, <4>2
    <3>4. "lost" \in Places
      BY DEF Places
    <3>5. place' \in [Threads -> Places] /\ place'["dbus"] = place["dbus"]
      <4>1. place \in [Threads -> Places]
        OBVIOUS
      <4>2. CASE place' = place
        BY <4>1, <4>2
      <4>3. CASE place' = [place EXCEPT ![t] = "lost"]
        BY <2>1, <3>4, <4>1, <4>3
      <4> QED
        BY <3>2, <4>2, <4>3
    <3>6. todo' \in [Threads -> SUBSET Nat] /\ todo'["dbus"] = todo["dbus"]
      BY <2>1, <3>3
    <3> QED
      BY <3>1, <3>5, <3>6
  <2>5. CASE Clean(t) \/ Expire(t)
    <3>1. PICK p \in Places : place' = [place EXCEPT ![t] = p]
      BY <2>5 DEF Clean, Expire, Goto, Places
    <3>2. UNCHANGED <<stays, present, todo, serving>>
      BY <2>5 DEF Clean, Expire, kernel
    <3> QED
      BY <2>1, <3>1, <3>2
  <2> QED
    BY <1>2, <2>3, <2>4, <2>5
<1>3. ASSUME Apply \/ Applied \/ Receive \/ StartReview
      PROVE  Apart /\ UNCHANGED <<stays, present, serving>>
  <2>1. CASE Apply
    BY <2>1 DEF Apply, kernel
  <2>2. CASE Applied
    BY <2>2 DEF Applied, Goto, kernel, Places, Threads
  <2>3. CASE Receive
    BY <2>3 DEF Receive, walks
  <2>4. CASE StartReview
    BY <2>4 DEF StartReview, Goto, kernel, Places, Threads, Reviewers
  <2> QED
    BY <1>3, <2>1, <2>2, <2>3, <2>4
<1> QED
  <2> HIDE DEF Apart, IInv, Shapes
  <2>1. CASE Udev
    BY <1>1, <1>2, <1>3, <2>1 DEF Udev, Elsewhere
  <2>2. CASE \E t \in Reviewers : Review(t)
    BY <1>1, <1>2, <2>2 DEF Review, Elsewhere
  <2> QED
    BY <2>1, <2>2

(* A stick that comes has a name of its own, one that goes is not sought, *)
(* and users who unmount change the tables alone.                         *)
LEMMA KernelKeeps ==
  ASSUME IInv, \/ \E s \in Sticks : Plug(s)
               \/ \E p \in present : Unplug(p)
               \/ \E i \in live : UserUnmounts(i)
  PROVE  IInv' /\ place' = place
<1>1. ASSUME NEW s \in Sticks, Plug(s)
      PROVE  IInv'
  <2> DEFINE path == Len(stays) + 1
             n    == Min(FreeNames)
  <2>1. n \in Names /\ Named(n) = {}
    <3>1. FreeNames # {} /\ FreeNames \subseteq Nat
      BY <1>1, EnumerationAssumption DEF Plug, FreeNames
    <3> QED
      BY <3>1, MinOfIds DEF FreeNames
  <2> HIDE DEF n
  <2>2. /\ stays' = Append(stays, [name |-> n, stick |-> s])
        /\ present' = present \cup {path}
        /\ UNCHANGED <<walks, serving>>
    BY <1>1 DEF Plug, n
  <2>3. stays \in Seq(Stay) /\ [name |-> n, stick |-> s] \in Stay
    BY <2>1 DEF IInv, Shapes, Stay
  <2>4. /\ stays' \in Seq(Stay) /\ DOMAIN stays' = Paths \cup {path}
        /\ \A p \in Paths : stays'[p] = stays[p] /\ p # path
        /\ stays'[path].name = n
    BY <2>2, <2>3 DEF Paths
  <2>5. present \subseteq Paths /\ stayed \subseteq present
    BY DEF IInv, Shapes
  <2>6. Shapes'
    BY <2>2, <2>4, <2>5 DEF IInv, Shapes, Paths, walks, serving
  <2>7. \A p \in present : stays[p].name # n
    BY <2>1 DEF Named
  <2>8. OneName'
    BY <2>2, <2>4, <2>5, <2>7 DEF IInv, OneName
  <2>9. Searching'
    BY <2>2, <2>4, <2>5 DEF IInv, Searching, Sought, Asked, walks, serving
  <2> QED
    BY <2>6, <2>8, <2>9 DEF IInv
<1>2. ASSUME NEW p \in present, Unplug(p)
      PROVE  IInv'
  BY <1>2 DEF Unplug, IInv, Shapes, OneName, Searching, Sought, Asked, walks, Paths
<1>3. ASSUME NEW i \in live, UserUnmounts(i)
      PROVE  IInv'
  BY <1>3 DEF UserUnmounts, IInv, Shapes, OneName, Searching, Sought, Asked, kernel,
              walks, serving, Paths
<1> QED
  BY <1>1, <1>2, <1>3 DEF Plug, Unplug, UserUnmounts, walks

(* A call begins with all that is there, and the search passes over nothing *)
(* that has the name.                                                       *)
LEMMA DbusKeeps ==
  ASSUME IInv, Dbus \/ (\E c \in Calls : Serve(c)) \/ (\E s \in Sticks : ChangeRule(s))
  PROVE  IInv'
<1> USE DEF IInv
<1>1. present \subseteq Nat
  BY DEF Shapes, Paths
<1>2. ASSUME NEW text, Answer(text), UNCHANGED kernel
      PROVE  IInv'
  BY <1>2 DEF Answer, Goto, kernel, Shapes, OneName, Searching, Asked, Paths,
              Places, Threads, NoCall
<1>3. CASE \E c \in Calls : Serve(c)
  <2>1. PICK c \in Calls : Serve(c)
    BY <1>3
  <2>2. OneName' /\ Shapes'
    <3>1. PICK p \in Places : place' = [place EXCEPT !["dbus"] = p]
      BY <2>1 DEF Serve, Goto, Places, Walks
    <3>2. /\ \E ps \in SUBSET Nat : todo' = [todo EXCEPT !["dbus"] = ps]
          /\ stayed' = present /\ UNCHANGED <<stays, present>>
      BY <1>1, <2>1 DEF Serve, kernel
    <3> QED
      BY <3>1, <3>2 DEF Shapes, OneName, Paths, Threads
  <2>3. CASE c.method = "CanUserMount"
    <3>1. /\ call' = c /\ place' = [place EXCEPT !["dbus"] = "find"]
          /\ todo' = [todo EXCEPT !["dbus"] = present] /\ stayed' = present
      BY <2>1, <2>3 DEF Serve, Goto
    <3>2. place'["dbus"] = "find" /\ todo'["dbus"] = present
      BY <3>1 DEF Shapes, Threads
    <3> QED
      BY <2>2, <3>1, <3>2 DEF Searching, Sought, Asked
  <2>4. CASE c.method # "CanUserMount"
    <3>1. call' = c /\ place'["dbus"] \notin {"find", "info"}
      BY <2>1, <2>4 DEF Serve, Goto, Shapes, Threads
    <3> QED
      BY <2>2, <2>4, <3>1 DEF Searching, Asked
  <2> QED
    BY <2>3, <2>4
<1>4. CASE \E s \in Sticks : ChangeRule(s)
  BY <1>4 DEF ChangeRule, kernel, walks, serving, Shapes, OneName, Searching,
              Sought, Asked, Paths
<1>5. CASE Find
  <2>1. PICK p \in todo["dbus"] :
           /\ place' = [place EXCEPT !["dbus"] = IF p \notin present THEN "lost"
                           ELSE IF stays[p].name = call.name THEN "info" ELSE "find"]
           /\ todo' = [todo EXCEPT !["dbus"] = @ \ {p}]
           /\ on' = [on EXCEPT !.path = p]
    BY <1>5 DEF Find, Goto, Pass
  <2>2. /\ place["dbus"] = "find"
        /\ UNCHANGED <<stays, present, call, stayed>>
    BY <1>5 DEF Find, kernel
  <2>3. Shapes' /\ OneName'
    BY <2>1, <2>2 DEF Shapes, OneName, Paths, Threads, Places, Walks
  <2>4. /\ place'["dbus"] = IF p \notin present THEN "lost"
                           ELSE IF stays[p].name = call.name THEN "info" ELSE "find"
        /\ todo'["dbus"] = todo["dbus"] \ {p}
    BY <2>1 DEF Shapes, Threads
  <2>5. ASSUME NEW q \in Sought', place'["dbus"] = "find"
        PROVE  q \in todo'["dbus"]
    BY <2>2, <2>4, <2>5 DEF Searching, Sought
  <2>6. ASSUME NEW q \in Sought', place'["dbus"] = "info"
        PROVE  q = on'.path
    <3>1. p \in present /\ stays[p].name = call.name
      BY <2>4, <2>6
    <3>2. q \in present /\ stays[q].name = call.name
      BY <2>2, <2>6 DEF Sought, Shapes
    <3>3. p = q
      BY <3>1, <3>2 DEF OneName
    <3> QED
      BY <2>1, <3>3
  <2>7. Searching'
    BY <2>4, <2>5, <2>6 DEF Searching
  <2> QED
    BY <2>3, <2>7
<1>6. CASE Open("dbus") \/ FindRow
  <2>1. place["dbus"] \in Walks /\ ~Asked
    BY <1>6 DEF Open, FindRow, Walked, Searching, Walks
  <2>2. /\ place'["dbus"] \notin {"find", "info"}
        /\ UNCHANGED <<stays, present, call, stayed>>
    BY <1>6, <2>1 DEF Open, FindRow, Goto, Walks, Shapes, Threads, kernel, serving, Listed
  <2>3. Shapes'
    BY <1>6, <2>2 DEF Open, FindRow, Goto, Pass, Shapes, Threads, Places, Walks, Paths
  <2> QED
    BY <2>1, <2>2, <2>3 DEF OneName, Searching, Asked
<1>7. CASE ReadRow
  <2>1. CASE on.row \in DOMAIN rows
    <3>1. /\ place["dbus"] = "read" /\ place' = [place EXCEPT !["dbus"] = "listWalk"]
          /\ UNCHANGED <<stays, present, call, stayed, todo>>
      BY <1>7, <2>1 DEF ReadRow, Goto, kernel
    <3>2. place'["dbus"] = "listWalk" /\ Shapes'
      BY <3>1 DEF Shapes, Threads, Places, Walks, Paths
    <3> QED
      BY <3>1, <3>2 DEF OneName, Searching, Asked
  <2>2. CASE on.row \notin DOMAIN rows
    BY <1>2, <1>7, <2>2 DEF ReadRow
  <2> QED
    BY <2>1, <2>2
<1> QED
  <2>1. CASE AskRow \/ NotFound \/ CanUserMount \/ SendList
    BY <1>2, <2>1 DEF AskRow, NotFound, CanUserMount, SendList
  <2> QED
    BY <1>3, <1>4, <1>5, <1>6, <1>7, <2>1 DEF Dbus

(* The search never loses a stick that stays, for any number of them. *)
THEOREM SearchInvariance == Spec => []IInv
<1>1. Init => IInv
  BY EnumerationAssumption DEF Init, IInv, Shapes, OneName, Searching, Asked, NoCall,
     Paths, Threads, Reviewers, Places, Walks
<1>2. IInv /\ [Next]_vars => IInv'
  <2> SUFFICES ASSUME IInv, [Next]_vars PROVE IInv'
    OBVIOUS
  <2>1. CASE UNCHANGED vars
    BY <2>1 DEF vars, kernel, walks, serving, IInv, Shapes, OneName, Searching,
                Sought, Asked, Paths
  <2> QED
    BY <2>1, OthersKeep, KernelKeeps, DbusKeeps DEF Next
<1> QED
  BY <1>1, <1>2, PTL DEF Spec

(* CanUserMount answers NO for a stick that has a rule and is there under    *)
(* the name from the question to the answer.                                *)
THEOREM RuledAreRefused == Spec => RuledIsRefused
<1> DEFINE Refused ==
      Replying("CanUserMount") =>
         \A p \in stayed :
            stays[p].name = call.name /\ Ruled(p) => reply'.text = "NO"
<1>1. ASSUME IInv, [Next]_vars PROVE Refused \/ UNCHANGED vars
  <2> SUFFICES ASSUME Next, Replying("CanUserMount"),
                      NEW p \in stayed, stays[p].name = call.name, Ruled(p)
               PROVE  reply'.text = "NO"
    BY <1>1
  <2>1. place["dbus"] \in {"find", "info", "lost"} /\ place'["dbus"] = "off"
    BY <1>1 DEF Replying, IInv, Searching, Asked
  <2>2. Dbus \/ (\E s \in Sticks : ChangeRule(s))
    BY <1>1, <2>1, OthersKeep, KernelKeeps DEF Next, Serve
  <2>3. CASE NotFound
    BY <1>1, <2>3 DEF NotFound, IInv, Searching, Sought
  <2>4. CASE CanUserMount
    <3>1. on.path = p
      BY <1>1, <2>4 DEF CanUserMount, IInv, Searching, Sought
    <3>2. p \in present
      BY <1>1 DEF IInv, Shapes
    <3> QED
      BY <2>4, <3>1, <3>2 DEF CanUserMount, Answer
  <2>5. CASE Find
    BY <1>1, <2>1, <2>5 DEF Find, Goto, IInv, Shapes, Threads
  <2>6. CASE Open("dbus") \/ FindRow \/ ReadRow \/ SendList \/ AskRow
             \/ \E s \in Sticks : ChangeRule(s)
    BY <2>1, <2>6 DEF Open, FindRow, ReadRow, SendList, AskRow, ChangeRule, Walked, Walks
  <2> QED
    BY <2>2, <2>3, <2>4, <2>5, <2>6 DEF Dbus
<1> QED
  BY <1>1, SearchInvariance, PTL DEF Spec, RuledIsRefused
-----------------------------------------------------------------------------
(* The list of devices.                                                     *)

(* A row whose mount is there tells which stick is mounted under the name,  *)
(* as long as that stick is there: a name is not given to another one       *)
(* before its mounts are gone.                                              *)
RowsMatch ==
    /\ IsStore(rows, Stay)
    /\ \A p \in present : \A i \in LiveOf(stays[p].name) : rows[i].stick = stays[p].stick

Right(line) ==
    LET n == stays[line.path].name
    IN  /\ line.status = IF Ruled(line.path) THEN "owned" ELSE "free"
        /\ n \notin touched => Tells(line.mount, n)
        /\ n \notin touched /\ RowsOf(n) \subseteq live =>
              line.mount = IF RowsOf(n) = {} THEN None
                           ELSE stays[line.path].stick

Listing == place["dbus"] \in {"listWalk", "read"}

Before == todo["dbus"] \cup got["dbus"]

(* A device that stays is still before the walk or has a line, which is     *)
(* right; none has two.                                                     *)
ListSoFar ==
    /\ todo["dbus"] \cap got["dbus"] = {}
    /\ \A line \in reply.lines : line.path \notin Before
    /\ \A l, m \in reply.lines : l.path = m.path => l = m
    /\ \A p \in stayed \ Before : \E line \in reply.lines : line.path = p
    /\ \A line \in reply.lines : line.path \in stayed => Right(line)

(* The row found is one of the name still, or the name has been touched.    *)
RowFound ==
    /\ todo["dbus"] = {} /\ on.path \in got["dbus"]
    /\ LET n == stays[on.path].name
       IN  on.path \in stayed /\ n \notin touched => on.row \in RowsOf(n)

ListInv ==
    /\ got = [t \in Threads |-> got[t]]
    /\ reply = [text |-> reply.text, lines |-> reply.lines]
    /\ place["dbus"] \in {"off", "lost", "ask", "find", "info", "listWalk", "read"}
    /\ ~Listing => got["dbus"] = {}
    /\ Listing => call.method = "ListDevices" /\ ListSoFar
    /\ place["dbus"] = "read" => RowFound

(* Rows keep what they say, and those that are mounted come from before or  *)
(* from what is present.                                                    *)
Comes(new, alive) ==
    /\ IsStore(new, Stay)
    /\ \A i \in DOMAIN new \cap DOMAIN rows : new[i] = rows[i]
    /\ \A i \in DOMAIN new \cap alive :
          \/ i \in DOMAIN rows \cap live
          \/ \E q \in present : new[i] = stays[q]

(* Nobody mounts or unmounts under a name.                                  *)
Undisturbed(n) ==
    /\ n \notin touched
    /\ RowsOf(n)' = RowsOf(n) /\ LiveOf(n)' = LiveOf(n)
    /\ \A i \in RowsOf(n) : rows'[i] = rows[i]

(* A name that is not touched keeps its rows.                               *)
LEMMA UntouchedRows ==
  ASSUME NEW new, NEW alive, Enter(new, alive), Comes(new, alive),
         call.method = "ListDevices", NEW n \in Names, n \notin touched'
  PROVE  Undisturbed(n)
<1>1. n \notin touched /\ RowsOf(n)' = RowsOf(n) /\ LiveOf(n)' = LiveOf(n)
  BY DEF Enter
<1>2. RowsOf(n) \subseteq DOMAIN rows /\ RowsOf(n)' \subseteq DOMAIN rows'
  BY DEF RowsOf
<1>3. \A i \in RowsOf(n) : rows'[i] = rows[i]
  BY <1>1, <1>2 DEF Enter, Comes
<1> QED
  BY <1>1, <1>3 DEF Undisturbed

(* To leave rows out, or the mounts of some.                                *)
LEMMA DropComes ==
  ASSUME IsStore(rows, Stay), NEW ids
  PROVE  Comes(Without(rows, ids), live \ ids) /\ Comes(rows, live \ ids)
<1>1. IsStore(Without(rows, ids), Stay)
  BY WithoutIsStore
<1> QED
  BY <1>1 DEF Comes, Without, Restrict

(* To mount what is there.                                                  *)
LEMMA MountComes ==
  ASSUME IInv, IsStore(rows, Stay), NEW n, Mount(n)
  PROVE  \/ UNCHANGED <<rows, live, touched>>
         \/ \E new, alive : Enter(new, alive) /\ Comes(new, alive)
<1>1. ASSUME NEW p \in Named(n)
      PROVE  Comes(Inserted(rows, stays[p]), live \cup {NextId(rows)})
  <2>1. stays[p] \in Stay /\ p \in present
    BY DEF IInv, Shapes, Named, Paths
  <2>2. IsStore(Inserted(rows, stays[p]), Stay)
    BY <2>1, InsertedIsStore
  <2>3. NextId(rows) \notin DOMAIN rows
    <3>1. DOMAIN rows \subseteq Nat /\ \A i \in DOMAIN rows : i < NextId(rows)
      BY NextIdIsFresh DEF IsStore, IsTable
    <3> QED
      BY <3>1
  <2> QED
    BY <2>1, <2>2, <2>3 DEF Comes, Inserted
<1>2. ASSUME NEW p \in Named(n), NEW i \in DOMAIN rows, rows[i] = stays[p]
      PROVE  Comes(rows, live \cup {i})
  BY <1>2 DEF Comes, Named
<1>3. CASE Named(n) = {}
  BY <1>3 DEF Mount
<1>4. CASE Named(n) # {}
  <2>1. PICK p \in Named(n) :
           \/ Enter(Inserted(rows, stays[p]), live \cup {NextId(rows)})
           \/ \E i \in DOMAIN rows \ live : rows[i] = stays[p] /\ Enter(rows, live \cup {i})
    BY <1>4 DEF Mount
  <2> QED
    BY <1>1, <1>2, <2>1
<1> QED
  BY <1>3, <1>4

(* What the other threads and users do to the rows.                         *)
LEMMA OthersMove ==
  ASSUME IInv, IsStore(rows, Stay),
         \/ Udev \/ \E t \in Reviewers : Review(t)
         \/ \E i \in live : UserUnmounts(i)
  PROVE  /\ UNCHANGED <<stays, present, rules, serving>>
         /\ \/ UNCHANGED <<rows, live, touched>>
            \/ \E new, alive : Enter(new, alive) /\ Comes(new, alive)
<1>1. ASSUME NEW ids, Drop(ids)
      PROVE  \E new, alive : Enter(new, alive) /\ Comes(new, alive)
  BY <1>1, DropComes DEF Drop
<1>2. ASSUME NEW t, Scan(t) \/ Open(t)
      PROVE  UNCHANGED <<stays, present, rules, serving, rows, live, touched>>
  BY <1>2 DEF Scan, Open, kernel, tables
<1>3. ASSUME NEW t, Expire(t) \/ Clean(t)
      PROVE  /\ UNCHANGED <<stays, present, rules, serving>>
             /\ \E new, alive : Enter(new, alive) /\ Comes(new, alive)
  <2>1. \E ids : Drop(ids)
    BY <1>3 DEF Expire, Clean
  <2> QED
    BY <1>1, <1>3, <2>1 DEF Expire, Clean, kernel
<1>4. ASSUME NEW i \in live, UserUnmounts(i)
      PROVE  /\ UNCHANGED <<stays, present, rules, serving>>
             /\ \E new, alive : Enter(new, alive) /\ Comes(new, alive)
  BY <1>4, DropComes DEF UserUnmounts, kernel
<1>5. CASE Apply
  <2>1. UNCHANGED <<stays, present, rules, serving>>
    BY <1>5 DEF Apply, kernel
  <2>2. UNCHANGED <<rows, live, touched>> \/ \E n : Mount(n)
    BY <1>5 DEF Apply
  <2> QED
    BY <2>1, <2>2, MountComes
<1>6. CASE Applied \/ StartReview
  BY <1>6 DEF Applied, StartReview, kernel, tables
<1>7. CASE Receive
  <2>1. UNCHANGED <<stays, present, rules, serving>>
    BY <1>7 DEF Receive
  <2>2. \/ \E n : Mount(n)
        \/ \E ids : Drop(ids)
        \/ UNCHANGED <<rows, live, touched>>
    BY <1>7 DEF Receive
  <2> QED
    BY <1>1, <2>1, <2>2, MountComes
<1> QED
  BY <1>2, <1>3, <1>4, <1>5, <1>6, <1>7 DEF Udev, Review

(* The other threads leave the walk of the D-Bus thread alone.              *)
LEMMA OthersWalk ==
  ASSUME IInv, got = [t \in Threads |-> got[t]],
         Udev \/ \E t \in Reviewers : Review(t)
  PROVE  /\ got' = [t \in Threads |-> got'[t]]
         /\ got'["dbus"] = got["dbus"] /\ todo'["dbus"] = todo["dbus"]
<1>0. todo \in [Threads -> SUBSET Nat] /\ got = [t \in Threads |-> got[t]]
  BY DEF IInv, Shapes
<1>1. ASSUME NEW t \in Elsewhere, Expire(t) \/ Scan(t) \/ Open(t) \/ Clean(t)
      PROVE  /\ \E ps : todo' = [todo EXCEPT ![t] = ps]
             /\ \E ps : got' = [got EXCEPT ![t] = ps]
  <2>1. CASE Scan(t)
    <3>1. todo' = [todo EXCEPT ![t] = present] /\ got' = [got EXCEPT ![t] = got[t]]
      BY <1>0, <2>1 DEF Scan
    <3> QED
      BY <3>1
  <2>2. CASE Open(t)
    <3>1. \/ /\ \E p : todo' = [todo EXCEPT ![t] = todo[t] \ {p}]
             /\ \E p : got' = [got EXCEPT ![t] = got[t] \cup {p}]
          \/ /\ todo' = [todo EXCEPT ![t] = {}]
             /\ got' = [got EXCEPT ![t] = {}]
      BY <2>2 DEF Open, Pass
    <3> QED
      BY <3>1
  <2>3. CASE Clean(t)
    <3>1. got' = [got EXCEPT ![t] = {}] /\ todo' = [todo EXCEPT ![t] = todo[t]]
      BY <1>0, <2>3 DEF Clean
    <3> QED
      BY <3>1
  <2>4. CASE Expire(t)
    <3>1. got' = [got EXCEPT ![t] = got[t]] /\ todo' = [todo EXCEPT ![t] = todo[t]]
      BY <1>0, <2>4 DEF Expire
    <3> QED
      BY <3>1
  <2> QED
    BY <1>1, <2>1, <2>2, <2>3, <2>4
<1>2. ASSUME NEW t \in Elsewhere, Expire(t) \/ Scan(t) \/ Open(t) \/ Clean(t)
      PROVE  /\ got' = [u \in Threads |-> got'[u]]
             /\ got'["dbus"] = got["dbus"] /\ todo'["dbus"] = todo["dbus"]
  <2>1. t # "dbus"
    BY DEF Elsewhere, Reviewers
  <2>2. PICK ps : todo' = [todo EXCEPT ![t] = ps]
    BY <1>1, <1>2
  <2>3. PICK qs : got' = [got EXCEPT ![t] = qs]
    BY <1>1, <1>2
  <2>4. todo'["dbus"] = todo["dbus"]
    BY <1>0, <2>1, <2>2
  <2>5. got' = [u \in Threads |-> got'[u]] /\ got'["dbus"] = got["dbus"]
    BY <1>0, <2>1, <2>3
  <2> QED
    BY <2>4, <2>5
<1>3. CASE Apply
  <2>1. todo' = todo /\ \E ps : got' = [got EXCEPT !["udev"] = ps]
    BY <1>3 DEF Apply
  <2>2. PICK ps : got' = [got EXCEPT !["udev"] = ps]
    BY <2>1
  <2> QED
    BY <1>0, <2>1, <2>2
<1>4. CASE Applied \/ Receive \/ StartReview
  BY <1>0, <1>4 DEF Applied, Receive, StartReview, walks
<1> QED
  BY <1>2, <1>3, <1>4 DEF Udev, Review, Elsewhere

(* A stick that is plugged in has a free name; the others keep theirs.      *)
LEMMA PlugNames ==
  ASSUME IInv, NEW s \in Sticks, Plug(s)
  PROVE  LET path == Len(stays) + 1
         IN  /\ present' = present \cup {path} /\ path \notin Paths
             /\ \A p \in Paths : stays'[p] = stays[p]
             /\ LiveOf(stays'[path].name) = {}
<1> DEFINE path == Len(stays) + 1
           n    == Min(FreeNames)
<1>1. FreeNames # {} /\ FreeNames \subseteq Nat
  BY EnumerationAssumption DEF Plug, FreeNames
<1>2. n \in Names /\ LiveOf(n) = {}
  BY <1>1, MinOfIds DEF FreeNames
<1> HIDE DEF n
<1>3. /\ stays' = Append(stays, [name |-> n, stick |-> s])
      /\ present' = present \cup {path}
  BY DEF Plug, n
<1>4. stays \in Seq(Stay) /\ [name |-> n, stick |-> s] \in Stay
  BY <1>2 DEF IInv, Shapes, Stay
<1> QED
  BY <1>2, <1>3, <1>4 DEF Paths

(* Under the name of a present stick only that stick is mounted.            *)
LEMMA RowsMatchStep ==
  ASSUME IInv, RowsMatch, [Next]_vars PROVE RowsMatch'
<1>1. ASSUME UNCHANGED <<stays, present, rows, live>> PROVE RowsMatch'
  BY <1>1 DEF RowsMatch, LiveOf, RowsOf
<1>2. CASE UNCHANGED vars
  BY <1>1, <1>2 DEF vars, kernel, tables
<1>3. CASE Udev \/ (\E t \in Reviewers : Review(t)) \/ \E i \in live : UserUnmounts(i)
  <2>1. /\ UNCHANGED <<stays, present>>
        /\ \/ UNCHANGED <<rows, live>>
           \/ \E new, alive : Enter(new, alive) /\ Comes(new, alive)
    BY <1>3, OthersMove DEF RowsMatch
  <2>2. CASE UNCHANGED <<rows, live>>
    BY <1>1, <2>1, <2>2
  <2>3. ASSUME NEW new, NEW alive, Enter(new, alive), Comes(new, alive) PROVE RowsMatch'
    <3>1. rows' = new /\ live' = alive
      BY <2>3 DEF Enter
    <3>2. ASSUME NEW p \in present, NEW i \in DOMAIN new \cap alive,
                 new[i].name = stays[p].name
          PROVE  new[i].stick = stays[p].stick
      <4>1. CASE i \in DOMAIN rows \cap live
        <5>1. new[i] = rows[i]
          BY <2>3, <3>2, <4>1 DEF Comes
        <5>2. i \in LiveOf(stays[p].name)
          BY <3>2, <4>1, <5>1 DEF LiveOf, RowsOf
        <5> QED
          BY <5>1, <5>2 DEF RowsMatch
      <4>2. CASE \E q \in present : new[i] = stays[q]
        BY <3>2, <4>2 DEF IInv, OneName
      <4> QED
        BY <2>3, <4>1, <4>2 DEF Comes
    <3>3. IsStore(rows', Stay)
      BY <2>3, <3>1 DEF Comes
    <3> QED
      BY <2>1, <3>1, <3>2, <3>3 DEF RowsMatch, LiveOf, RowsOf
  <2> QED
    BY <2>1, <2>2, <2>3
<1>4. ASSUME NEW s \in Sticks, Plug(s) PROVE RowsMatch'
  <2> DEFINE path == Len(stays) + 1
  <2>1. UNCHANGED <<rows, live>>
    BY <1>4 DEF Plug, tables
  <2>2. /\ present' = present \cup {path} /\ path \notin Paths
        /\ \A p \in Paths : stays'[p] = stays[p]
        /\ LiveOf(stays'[path].name) = {}
    BY <1>4, PlugNames
  <2>3. present \subseteq Paths
    BY DEF IInv, Shapes
  <2> HIDE DEF path
  <2>4. \A i \in DOMAIN rows \cap live : rows[i].name # stays'[path].name
    BY <2>2 DEF LiveOf, RowsOf
  <2> QED
    BY <2>1, <2>2, <2>3, <2>4 DEF RowsMatch, LiveOf, RowsOf
<1>5. ASSUME NEW p \in present, Unplug(p) PROVE RowsMatch'
  BY <1>5 DEF Unplug, RowsMatch, LiveOf, RowsOf
<1>6. CASE Dbus \/ (\E c \in Calls : Serve(c)) \/ (\E s \in Sticks : ChangeRule(s))
  <2>1. UNCHANGED <<stays, present, rows, live>>
    BY <1>6 DEF Dbus, Open, FindRow, ReadRow, SendList, Find, NotFound,
       CanUserMount, AskRow, Serve, ChangeRule, kernel, tables
  <2> QED
    BY <1>1, <2>1
<1> QED
  BY <1>2, <1>3, <1>4, <1>5, <1>6 DEF Next

(* What is done elsewhere keeps the list right about the devices that stay. *)
LEMMA ListKept ==
  ASSUME IInv, ListInv,
         got' = [t \in Threads |-> got'[t]],
         place'["dbus"] = place["dbus"],
         got'["dbus"] = got["dbus"], todo'["dbus"] = todo["dbus"],
         UNCHANGED <<call, on, reply, rules>>,
         stayed' \subseteq stayed, \A p \in stayed : stays'[p] = stays[p],
         call.method = "ListDevices" => \A n \in Names \ touched' : Undisturbed(n)
  PROVE  ListInv'
<1>1. \A p \in stayed : stays[p].name \in Names
  <2>1. \A p \in stayed : p \in DOMAIN stays /\ stays \in Seq(Stay)
    BY DEF IInv, Shapes, Paths
  <2>2. \A p \in stayed : stays[p] \in Stay
    BY <2>1
  <2> QED
    BY <2>2 DEF Stay
<1>2. ASSUME Listing PROVE ListSoFar'
  <2>1. ListSoFar /\ call.method = "ListDevices"
    BY <1>2 DEF ListInv
  <2>2. ASSUME NEW line \in reply.lines, line.path \in stayed', Right(line)
        PROVE  Right(line)'
    <3> DEFINE n == stays[line.path].name
    <3>1. line.path \in stayed /\ n \in Names
      BY <1>1, <2>2
    <3>2. stays'[line.path] = stays[line.path] /\ rules' = rules
      BY <3>1
    <3>3. Ruled(line.path)' <=> Ruled(line.path)
      BY <3>2 DEF Ruled
    <3> DEFINE Now  == {i \in DOMAIN rows : rows[i].name = n}
               Then == {i \in DOMAIN rows' : rows'[i].name = n}
    <3>4. ASSUME n \notin touched'
          PROVE  /\ n \notin touched /\ Then = Now /\ Then \cap live' = Now \cap live
                 /\ \A i \in Now : rows'[i] = rows[i]
      BY <2>1, <3>1, <3>4 DEF Undisturbed, LiveOf, RowsOf
    <3>5. n \notin touched /\ Now \subseteq live =>
             line.mount = IF Now = {} THEN None ELSE stays[line.path].stick
      BY <2>2 DEF Right, RowsOf
    <3>6. n \notin touched => IF Now = {} THEN line.mount = None
                             ELSE \E i \in Now : line.mount = rows[i].stick
      BY <2>2 DEF Right, Tells, RowsOf
    <3>7. line.status = IF Ruled(line.path) THEN "owned" ELSE "free"
      BY <2>2 DEF Right
    <3>8. n \notin touched' => IF Then = {} THEN line.mount = None
                              ELSE \E i \in Then : line.mount = rows'[i].stick
      BY <3>4, <3>6
    <3>9. n \notin touched' /\ Then \subseteq live' =>
             line.mount = IF Then = {} THEN None ELSE stays[line.path].stick
      <4>1. n \notin touched' /\ Then \subseteq live' => Now \subseteq live
        BY <3>4
      <4> QED
        BY <3>4, <3>5, <4>1
    <3> QED
      BY <3>2, <3>3, <3>7, <3>8, <3>9 DEF Right, Tells, RowsOf
  <2>3. Before' = Before
    BY DEF Before
  <2> QED
    BY <2>1, <2>2, <2>3 DEF ListSoFar
<1>3. ASSUME place["dbus"] = "read" PROVE RowFound'
  <2>1. RowFound /\ call.method = "ListDevices"
    BY <1>3 DEF ListInv, Listing
  <2>2. ASSUME on.path \in stayed', stays'[on.path].name \notin touched'
        PROVE  on.row \in {i \in DOMAIN rows' : rows'[i].name = stays'[on.path].name}
    <3> DEFINE n == stays[on.path].name
    <3>1. on.path \in stayed /\ stays'[on.path].name = n
      BY <2>2
    <3>2. n \in Names \ touched'
      BY <1>1, <2>2, <3>1
    <3>3. on.row \in RowsOf(n)
      BY <2>1, <3>1, <3>2 DEF RowFound, Undisturbed
    <3>4. {i \in DOMAIN rows' : rows'[i].name = n} = RowsOf(n)
      BY <2>1, <3>2 DEF RowsOf, Undisturbed
    <3> QED
      BY <3>1, <3>3, <3>4
  <2> QED
    BY <2>1, <2>2 DEF RowFound, RowsOf
<1> QED
  BY <1>2, <1>3 DEF ListInv, Listing

(* The other threads, the kernel and users keep it right.                   *)
LEMMA ListOthers ==
  ASSUME IInv, IsStore(rows, Stay), ListInv,
         \/ Udev \/ \E t \in Reviewers : Review(t)
         \/ \E s \in Sticks : Plug(s)
         \/ \E p \in present : Unplug(p)
         \/ \E i \in live : UserUnmounts(i)
  PROVE  ListInv'
<1>0. got = [t \in Threads |-> got[t]]
  BY DEF ListInv
<1>1. CASE Udev \/ (\E t \in Reviewers : Review(t)) \/ \E i \in live : UserUnmounts(i)
  <2>1. /\ got' = [t \in Threads |-> got'[t]] /\ place'["dbus"] = place["dbus"]
        /\ got'["dbus"] = got["dbus"] /\ todo'["dbus"] = todo["dbus"]
    <3>1. CASE Udev \/ \E t \in Reviewers : Review(t)
      BY <1>0, <3>1, OthersWalk, OthersKeep
    <3>2. CASE \E i \in live : UserUnmounts(i)
      BY <1>0, <3>2 DEF UserUnmounts, walks
    <3> QED
      BY <1>1, <3>1, <3>2
  <2>2. UNCHANGED <<stays, rules, call, on, reply, stayed>>
    BY <1>1, OthersMove DEF serving
  <2>3. ASSUME call.method = "ListDevices", NEW n \in Names \ touched'
        PROVE  Undisturbed(n)
    <3>1. CASE UNCHANGED <<rows, live, touched>>
      BY <2>3, <3>1 DEF Undisturbed, LiveOf, RowsOf
    <3>2. CASE \E new, alive : Enter(new, alive) /\ Comes(new, alive)
      BY <2>3, <3>2, UntouchedRows
    <3> QED
      BY <1>1, <3>1, <3>2, OthersMove
  <2> QED
    BY <2>1, <2>2, <2>3, ListKept
<1>2. ASSUME UNCHANGED <<rows, live, touched>>, NEW n \in Names \ touched'
      PROVE  Undisturbed(n)
  BY <1>2 DEF Undisturbed, LiveOf, RowsOf
<1>3. ASSUME NEW s \in Sticks, Plug(s) PROVE ListInv'
  <2>1. UNCHANGED <<rules, rows, live, touched, place, todo, got, call, on, reply, stayed>>
    BY <1>3 DEF Plug, tables, walks, serving
  <2>2. \A p \in stayed : stays'[p] = stays[p]
    BY <1>3, PlugNames DEF IInv, Shapes
  <2> QED
    BY <1>0, <1>2, <2>1, <2>2, ListKept
<1>4. ASSUME NEW p \in present, Unplug(p) PROVE ListInv'
  <2>1. UNCHANGED <<stays, rules, rows, live, touched, place, todo, got, call, on, reply>>
    BY <1>4 DEF Unplug, walks
  <2>2. stayed' \subseteq stayed
    BY <1>4 DEF Unplug
  <2> QED
    BY <1>0, <1>2, <2>1, <2>2, ListKept
<1> QED
  BY <1>1, <1>3, <1>4

(* A line is added for the device at hand.                                  *)
LEMMA ListLonger ==
  ASSUME IInv, ListInv, ListSoFar, NEW p \in got["dbus"], NEW m,
         Listed(Line(p, m)), p \in stayed => Right(Line(p, m)),
         UNCHANGED <<stays, rules, rows, live, todo, stayed, touched>>
  PROVE  /\ ListSoFar' /\ got' = [t \in Threads |-> got'[t]]
         /\ reply' = [text |-> reply'.text, lines |-> reply'.lines]
<1> DEFINE line == Line(p, m)
<1>1. line.path = p
  BY DEF Line
<1>2. /\ got = [t \in Threads |-> got[t]] /\ "dbus" \in Threads
      /\ reply = [text |-> reply.text, lines |-> reply.lines]
  BY DEF ListInv, Threads
<1>3. \A l : Right(l)' <=> Right(l)
  BY DEF Right, Tells, Ruled, RowsOf
<1> HIDE DEF line
<1>4. /\ reply' = [reply EXCEPT !.lines = @ \cup {line}]
      /\ got' = [got EXCEPT !["dbus"] = @ \ {p}]
  BY <1>1 DEF Listed, line
<1>5. /\ got' = [t \in Threads |-> got'[t]]
      /\ got'["dbus"] = got["dbus"] \ {p} /\ todo'["dbus"] = todo["dbus"]
  BY <1>2, <1>4
<1>6. /\ reply' = [text |-> reply'.text, lines |-> reply'.lines]
      /\ reply'.lines = reply.lines \cup {line}
  BY <1>2, <1>4
<1>7. Before' = Before \ {p} /\ p \in Before
  BY <1>5 DEF Before, ListSoFar
<1>8. \A l \in reply.lines : l.path # p
  BY <1>7 DEF ListSoFar
<1>9. \A l \in reply'.lines : l.path \notin Before'
  BY <1>1, <1>6, <1>7 DEF ListSoFar
<1>10. \A l, k \in reply'.lines : l.path = k.path => l = k
  BY <1>1, <1>6, <1>8 DEF ListSoFar
<1>11. \A q \in stayed' \ Before' : \E l \in reply'.lines : l.path = q
  BY <1>1, <1>6, <1>7 DEF ListSoFar
<1>12. \A l \in reply'.lines : l.path \in stayed' => Right(l)'
  BY <1>1, <1>3, <1>6 DEF ListSoFar, line
<1>13. todo'["dbus"] \cap got'["dbus"] = {}
  BY <1>5 DEF ListSoFar
<1> QED
  BY <1>5, <1>6, <1>9, <1>10, <1>11, <1>12, <1>13 DEF ListSoFar

(* The D-Bus thread makes the list, one device after the other.             *)
LEMMA ListDbus ==
  ASSUME IInv, RowsMatch, ListInv,
         Dbus \/ (\E c \in Calls : Serve(c)) \/ (\E s \in Sticks : ChangeRule(s))
  PROVE  ListInv'
<1>0. /\ got = [t \in Threads |-> got[t]] /\ "dbus" \in Threads
      /\ place \in [Threads -> Places] /\ todo \in [Threads -> SUBSET Nat]
      /\ stayed \subseteq present
      /\ reply = [text |-> reply.text, lines |-> reply.lines]
      /\ place["dbus"] \in {"off", "lost", "ask", "find", "info", "listWalk", "read"}
  BY DEF IInv, Shapes, ListInv, Threads
<1>1. ASSUME NEW text, Answer(text) PROVE ListInv'
  <2>1. /\ place'["dbus"] = "off" /\ got'["dbus"] = {}
        /\ got' = [t \in Threads |-> got'[t]]
        /\ reply' = [text |-> reply'.text, lines |-> reply'.lines]
    BY <1>0, <1>1 DEF Answer, Goto
  <2> QED
    BY <2>1 DEF ListInv, Listing
<1>2. CASE AskRow \/ NotFound \/ CanUserMount \/ SendList
  BY <1>1, <1>2 DEF AskRow, NotFound, CanUserMount, SendList
<1>3. ASSUME NEW c \in Calls, Serve(c) PROVE ListInv'
  <2>1. /\ got' = got /\ got["dbus"] = {}
        /\ reply' = [text |-> "none", lines |-> {}]
        /\ call' = c /\ stayed' = present
    BY <1>3 DEF Serve, ListInv, Listing
  <2>3. CASE c.method = "ListDevices"
    <3>1. /\ place' = [place EXCEPT !["dbus"] = "listWalk"]
          /\ todo' = [todo EXCEPT !["dbus"] = present]
      BY <1>3, <2>3 DEF Serve, Goto
    <3>2. place'["dbus"] = "listWalk" /\ todo'["dbus"] = present
      BY <1>0, <3>1
    <3>3. ListSoFar'
      BY <2>1, <3>2 DEF ListSoFar, Before
    <3> QED
      BY <1>0, <2>1, <2>3, <3>2, <3>3 DEF ListInv, Listing
  <2>4. CASE c.method # "ListDevices"
    <3>1. place'["dbus"] \in {"find", "ask"}
      BY <1>0, <1>3, <2>4 DEF Serve, Goto
    <3> QED
      BY <1>0, <2>1, <3>1 DEF ListInv, Listing
  <2> QED
    BY <2>3, <2>4
<1>4. CASE \E s \in Sticks : ChangeRule(s)
  BY <1>4 DEF ChangeRule, walks, serving, ListInv, Listing
<1>5. CASE Find
  <2>1. /\ place["dbus"] = "find" /\ UNCHANGED <<got, reply>>
        /\ place'["dbus"] \in {"lost", "info", "find"}
    BY <1>0, <1>5 DEF Find, Goto
  <2> QED
    BY <1>0, <2>1 DEF ListInv, Listing
<1>6. CASE Open("dbus")
  <2>1. /\ place["dbus"] = "listWalk" /\ ListSoFar /\ call.method = "ListDevices"
        /\ UNCHANGED <<stays, rules, rows, live, call, reply, stayed, touched>>
    BY <1>0, <1>6 DEF Open, Walks, ListInv, Listing, kernel, tables, serving
  <2>2. PICK p \in todo["dbus"] :
           IF p \in present
           THEN /\ todo' = [todo EXCEPT !["dbus"] = @ \ {p}]
                /\ got' = [got EXCEPT !["dbus"] = @ \cup {p}]
                /\ UNCHANGED place
           ELSE /\ place' = [place EXCEPT !["dbus"] = "lost"]
                /\ got' = [got EXCEPT !["dbus"] = {}]
    BY <1>6 DEF Open, Pass, Goto
  <2>3. CASE p \in present
    <3>1. /\ todo'["dbus"] = todo["dbus"] \ {p}
          /\ got'["dbus"] = got["dbus"] \cup {p}
          /\ got' = [t \in Threads |-> got'[t]] /\ place' = place
      BY <1>0, <2>2, <2>3
    <3>2. Before' = Before /\ todo'["dbus"] \cap got'["dbus"] = {}
      BY <2>1, <3>1 DEF Before, ListSoFar
    <3>3. \A l : Right(l)' <=> Right(l)
      BY <2>1 DEF Right, Tells, Ruled, RowsOf
    <3>4. ListSoFar'
      BY <2>1, <3>2, <3>3 DEF ListSoFar
    <3> QED
      BY <1>0, <2>1, <3>1, <3>4 DEF ListInv, Listing
  <2>4. CASE p \notin present
    <3>1. /\ place'["dbus"] = "lost" /\ got'["dbus"] = {}
          /\ got' = [t \in Threads |-> got'[t]]
      BY <1>0, <2>2, <2>4
    <3> QED
      BY <1>0, <2>1, <3>1 DEF ListInv, Listing
  <2> QED
    BY <2>3, <2>4
<1>7. CASE FindRow
  <2>1. /\ place["dbus"] = "listWalk" /\ todo["dbus"] = {}
        /\ ListSoFar /\ call.method = "ListDevices"
        /\ UNCHANGED <<stays, rules, rows, live, todo, call, stayed, touched>>
    BY <1>7 DEF FindRow, Walked, ListInv, Listing, kernel, tables
  <2>2. PICK p \in got["dbus"] :
          IF RowsOf(stays[p].name) = {}
          THEN Listed(Line(p, None)) /\ UNCHANGED <<place, on>>
          ELSE /\ \E i \in RowsOf(stays[p].name) :
                     on' = [path |-> p, row |-> i]
               /\ Goto("dbus", "read")
               /\ UNCHANGED <<got, reply>>
    BY <1>7 DEF FindRow
  <2>3. CASE RowsOf(stays[p].name) = {}
    <3>1. Right(Line(p, None))
      BY <2>3 DEF Right, Tells, Line
    <3>2. /\ ListSoFar' /\ got' = [t \in Threads |-> got'[t]]
          /\ reply' = [text |-> reply'.text, lines |-> reply'.lines]
      BY <2>1, <2>2, <2>3, <3>1, ListLonger
    <3>3. place' = place
      BY <2>2, <2>3
    <3> QED
      BY <2>1, <3>2, <3>3 DEF ListInv, Listing
  <2>4. CASE RowsOf(stays[p].name) # {}
    <3>1. PICK i \in RowsOf(stays[p].name) : on' = [path |-> p, row |-> i]
      BY <2>2, <2>4
    <3>2. place'["dbus"] = "read" /\ UNCHANGED <<got, reply>>
      BY <1>0, <2>2, <2>4 DEF Goto
    <3>3. \A l : Right(l)' <=> Right(l)
      BY <2>1 DEF Right, Tells, Ruled, RowsOf
    <3>4. ListSoFar'
      BY <2>1, <3>2, <3>3 DEF ListSoFar, Before
    <3>5. on'.path = p /\ on'.row \in RowsOf(stays[p].name)
      BY <3>1
    <3>6. RowFound'
      BY <2>1, <3>2, <3>5 DEF RowFound, RowsOf
    <3> QED
      BY <1>0, <2>1, <3>2, <3>4, <3>6 DEF ListInv, Listing
  <2> QED
    BY <2>3, <2>4
<1>8. CASE ReadRow
  <2>1. CASE on.row \notin DOMAIN rows
    BY <1>1, <1>8, <2>1 DEF ReadRow
  <2>2. CASE on.row \in DOMAIN rows
    <3> DEFINE stick == rows[on.row].stick
    <3>1. /\ place["dbus"] = "read" /\ ListSoFar /\ call.method = "ListDevices" /\ RowFound
          /\ UNCHANGED <<stays, rules, rows, live, todo, call, stayed, touched>>
      BY <1>8, <2>2 DEF ReadRow, ListInv, Listing, kernel, tables
    <3>2. Listed(Line(on.path, stick)) /\ Goto("dbus", "listWalk")
      BY <1>8, <2>2 DEF ReadRow
    <3>3. ASSUME on.path \in stayed PROVE Right(Line(on.path, stick))
      <4> DEFINE n == stays[on.path].name
      <4>1. ASSUME n \notin touched
            PROVE  /\ Tells(stick, n) /\ RowsOf(n) # {}
                   /\ RowsOf(n) \subseteq live => stick = stays[on.path].stick
        <5>1. on.row \in RowsOf(n)
          BY <3>1, <3>3, <4>1 DEF RowFound
        <5>2. on.path \in present
          BY <1>0, <3>3
        <5>3. RowsOf(n) \subseteq live => on.row \in LiveOf(n)
          BY <5>1 DEF LiveOf
        <5> QED
          BY <5>1, <5>2, <5>3 DEF RowsMatch, Tells
      <4> QED
        BY <4>1 DEF Right, Line
    <3> HIDE DEF stick
    <3>4. on.path \in got["dbus"]
      BY <3>1 DEF RowFound
    <3>5. /\ ListSoFar' /\ got' = [t \in Threads |-> got'[t]]
          /\ reply' = [text |-> reply'.text, lines |-> reply'.lines]
      BY <3>1, <3>2, <3>3, <3>4, ListLonger
    <3>6. place'["dbus"] = "listWalk"
      BY <1>0, <3>2 DEF Goto
    <3> QED
      BY <3>1, <3>5, <3>6 DEF ListInv, Listing
  <2> QED
    BY <2>1, <2>2
<1> QED
  BY <1>2, <1>3, <1>4, <1>5, <1>6, <1>7, <1>8 DEF Dbus

(* A step that changes nothing keeps it right.                              *)
LEMMA ListStutters ==
  ASSUME ListInv, UNCHANGED vars
  PROVE  ListInv'
<1>1. UNCHANGED <<stays, rules, rows, live, touched, place, todo, got, call, on, reply, stayed>>
  BY DEF vars, kernel, tables, walks, serving
<1>2. \A line : Right(line)' <=> Right(line)
  BY <1>1 DEF Right, Tells, Ruled, RowsOf
<1>3. (Listing' <=> Listing) /\ (RowFound' <=> RowFound)
  BY <1>1 DEF Listing, RowFound, RowsOf
<1>4. ListSoFar' <=> ListSoFar
  BY <1>1, <1>2 DEF ListSoFar, Before
<1> QED
  BY <1>1, <1>3, <1>4 DEF ListInv

(* The list is right so far, and the rows whose mounts are there tell the   *)
(* sticks, at every moment.                                                 *)
THEOREM ListInvariance == Spec => [](RowsMatch /\ ListInv)
<1>1. Init => RowsMatch /\ ListInv
  <2> SUFFICES ASSUME Init PROVE RowsMatch /\ ListInv
    OBVIOUS
  <2>1. "dbus" \in Threads /\ "dbus" # "udev"
    BY DEF Threads
  <2>2. place["dbus"] = "off" /\ got["dbus"] = {}
    BY <2>1 DEF Init
  <2>3. got = [t \in Threads |-> got[t]] /\ present = {}
    BY DEF Init
  <2>4. reply = [text |-> reply.text, lines |-> reply.lines]
    BY DEF Init
  <2>5. RowsMatch
    BY <2>3, EmptyIsStore DEF Init, RowsMatch
  <2> QED
    BY <2>2, <2>3, <2>4, <2>5 DEF ListInv, Listing
<1>2. IInv /\ RowsMatch /\ ListInv /\ [Next]_vars => (RowsMatch /\ ListInv)'
  <2> SUFFICES ASSUME IInv, RowsMatch, ListInv, [Next]_vars
               PROVE  RowsMatch' /\ ListInv'
    OBVIOUS
  <2>1. RowsMatch'
    BY RowsMatchStep
  <2>2. CASE UNCHANGED vars
    BY <2>1, <2>2, ListStutters
  <2> QED
    BY <2>1, <2>2, ListOthers, ListDbus DEF Next, RowsMatch
<1> QED
  BY <1>1, <1>2, SearchInvariance, PTL DEF Spec

(* ListDevices has one line for each device that is there all the time, with *)
(* its status, and with what is mounted unless somebody mounts or unmounts   *)
(* meanwhile or a user's unmount has left a row of the name.                 *)
THEOREM ListsAreRight == Spec => ListIsRight
<1> DEFINE ListRight ==
      Replying("ListDevices") /\ reply'.text = "list" =>
         \A p \in stayed : LET n == stays[p].name IN
            \E line \in reply.lines :
               /\ \A other \in reply.lines : other.path = p => other = line
               /\ line.path = p
               /\ line.status = IF Ruled(p) THEN "owned" ELSE "free"
               /\ n \notin touched => Tells(line.mount, n)
               /\ n \notin touched /\ RowsOf(n) \subseteq live =>
                     line.mount = IF RowsOf(n) = {} THEN None ELSE stays[p].stick
<1>1. ASSUME IInv, ListInv, [Next]_vars PROVE ListRight \/ UNCHANGED vars
  <2> SUFFICES ASSUME Next, Replying("ListDevices"), reply'.text = "list",
                      NEW p \in stayed
               PROVE  \E line \in reply.lines :
                         /\ \A other \in reply.lines : other.path = p => other = line
                         /\ line.path = p /\ Right(line)
    BY <1>1 DEF Right
  <2>1. place["dbus"] # "off" /\ place'["dbus"] = "off"
    BY DEF Replying
  <2>2. Dbus
    BY <1>1, <2>1, OthersKeep, KernelKeeps DEF Next, Serve, ChangeRule, walks
  <2>3. SendList
    <3>1. ~Open("dbus") /\ ~FindRow /\ ~Find
      BY <1>1, <2>1 DEF Open, FindRow, Find, Walked, Goto, IInv, Shapes, Threads
    <3>2. ~NotFound /\ ~CanUserMount /\ ~AskRow
      BY DEF NotFound, CanUserMount, AskRow, Answer
    <3>3. ~ReadRow
      BY <1>1, <2>1 DEF ReadRow, Answer, Goto, IInv, Shapes, Threads
    <3> QED
      BY <2>2, <3>1, <3>2, <3>3 DEF Dbus
  <2>4. /\ place["dbus"] = "listWalk" /\ todo["dbus"] = {} /\ got["dbus"] = {}
    BY <2>3 DEF SendList, Walked
  <2>5. ListSoFar /\ p \notin Before
    BY <1>1, <2>4 DEF ListInv, Listing, Before
  <2>6. PICK line \in reply.lines : line.path = p
    BY <2>5 DEF ListSoFar
  <2> QED
    BY <2>5, <2>6 DEF ListSoFar
<1> QED
  BY <1>1, SearchInvariance, ListInvariance, PTL DEF Spec, ListIsRight
----------------------------------------------------------------------------
(* Types. *)

KernelTypes ==
    /\ stays \in Seq(Stay) /\ Len(stays) <= MaxPlugs
    /\ present \subseteq Paths /\ stayed \subseteq Paths
    /\ events \in Seq([action : {"add", "remove"}, path : Paths])

TableTypes ==
    /\ kept \subseteq rules /\ rules \subseteq Sticks
    /\ IsStore(rows, Stay) /\ live \subseteq DOMAIN rows /\ touched \subseteq Names
    /\ mounted \subseteq present /\ changes \in 0..MaxChanges

WalkTypes ==
    /\ place \in [Threads -> Places]
    /\ todo \in [Threads -> SUBSET Paths] /\ got \in [Threads -> SUBSET Paths]

ServingTypes ==
    /\ call \in Calls \cup {NoCall}
    /\ on \in [path : Paths \cup {0}, row : Nat]
    /\ reply \in [text : Answers, lines : SUBSET Lines]
    /\ calls \in 0..MaxCalls

TInv == KernelTypes /\ TableTypes /\ WalkTypes /\ ServingTypes

(* The types look at no more than these.                                     *)
LEMMA TypesKept ==
  ASSUME TInv
  PROVE  /\ UNCHANGED <<kernel, stayed>> => KernelTypes'
         /\ UNCHANGED <<kernel, tables, touched>> => TableTypes'
         /\ UNCHANGED <<kernel, walks>> => WalkTypes'
         /\ UNCHANGED <<kernel, call, on, reply, calls>> => ServingTypes'
<1>1. UNCHANGED <<kernel, stayed>> => KernelTypes'
  BY DEF TInv, KernelTypes, kernel, Paths
<1>2. UNCHANGED <<kernel, tables, touched>> => TableTypes'
  BY DEF TInv, TableTypes, kernel, tables
<1>3. UNCHANGED <<kernel, walks>> => WalkTypes'
  BY DEF TInv, WalkTypes, kernel, walks, Paths
<1>4. UNCHANGED <<kernel, call, on, reply, calls>> => ServingTypes'
  BY DEF TInv, ServingTypes, kernel, Paths
<1> QED
  BY <1>1, <1>2, <1>3, <1>4

RowTypes == IsStore(rows, Stay) /\ live \subseteq DOMAIN rows /\ touched \subseteq Names

(* A stick that is mounted has a row of its stay.                            *)
LEMMA MountTypes ==
  ASSUME TInv, NEW n, Mount(n)
  PROVE  RowTypes' /\ mounted' \subseteq present
<1>1. RowTypes /\ mounted \subseteq present
  BY DEF TInv, TableTypes, RowTypes
<1>2. mounted' \subseteq present
  BY <1>1 DEF Mount, Named
<1>3. CASE Named(n) = {}
  BY <1>1, <1>2, <1>3 DEF Mount, RowTypes
<1>4. CASE Named(n) # {}
  <2>1. PICK p \in Named(n) :
           \/ Enter(Inserted(rows, stays[p]), live \cup {NextId(rows)})
           \/ \E i \in DOMAIN rows \ live : Enter(rows, live \cup {i})
    BY <1>4 DEF Mount
  <2>2. stays[p] \in Stay
    BY DEF TInv, KernelTypes, Named, Paths
  <2>3. IsStore(Inserted(rows, stays[p]), Stay)
    BY <1>1, <2>2, InsertedIsStore DEF RowTypes
  <2>4. live \cup {NextId(rows)} \subseteq DOMAIN Inserted(rows, stays[p])
    BY <1>1 DEF RowTypes, Inserted
  <2> QED
    BY <1>1, <1>2, <2>1, <2>3, <2>4 DEF Enter, RowTypes
<1> QED
  BY <1>3, <1>4

(* Rows that are left out leave a store, and so do mounts that are undone.   *)
LEMMA DropTypes ==
  ASSUME TInv, NEW ids, Drop(ids) \/ Enter(rows, live \ ids)
  PROVE  RowTypes'
<1>1. RowTypes
  BY DEF TInv, TableTypes, RowTypes
<1>2. IsStore(Without(rows, ids), Stay) /\ DOMAIN Without(rows, ids) = DOMAIN rows \ ids
  BY <1>1, WithoutIsStore DEF RowTypes, Without, Restrict
<1> QED
  BY <1>1, <1>2 DEF Drop, Enter, RowTypes

(* A thread that walks goes from place to place over paths there are.        *)
LEMMA WalksOn ==
  ASSUME TInv, NEW t \in Threads, NEW p \in Places, Goto(t, p) \/ UNCHANGED place,
         NEW ps \in SUBSET Paths, NEW qs \in SUBSET Paths,
         todo' = [todo EXCEPT ![t] = ps] \/ UNCHANGED todo,
         got' = [got EXCEPT ![t] = qs] \/ UNCHANGED got, UNCHANGED stays
  PROVE  WalkTypes'
<1>1. place' \in [Threads -> Places]
  <2>1. place \in [Threads -> Places]
    BY DEF TInv, WalkTypes
  <2>2. CASE UNCHANGED place
    BY <2>1, <2>2
  <2>3. CASE Goto(t, p)
    BY <2>1, <2>3 DEF Goto
  <2> QED
    BY <2>2, <2>3
<1>2. todo \in [Threads -> SUBSET Paths] /\ got \in [Threads -> SUBSET Paths]
  BY DEF TInv, WalkTypes
<1>3. todo' \in [Threads -> SUBSET Paths]
  BY <1>2
<1>4. got' \in [Threads -> SUBSET Paths]
  BY <1>2
<1> QED
  BY <1>1, <1>3, <1>4 DEF WalkTypes, Paths

(* Any thread that opens a device.                                           *)
LEMMA OpenTypes ==
  ASSUME TInv, NEW t \in Threads, Open(t)
  PROVE  TInv'
<1>1. /\ todo[t] \in SUBSET Paths /\ got[t] \in SUBSET Paths
      /\ present \in SUBSET Paths /\ {} \in SUBSET Paths
  BY DEF TInv, WalkTypes, KernelTypes
<1>2. UNCHANGED <<kernel, tables, serving, touched>>
  BY DEF Open
<1>3. PICK p \in todo[t] :
         IF p \in present
         THEN /\ todo' = [todo EXCEPT ![t] = todo[t] \ {p}]
              /\ got' = [got EXCEPT ![t] = got[t] \cup {p}]
              /\ UNCHANGED place
         ELSE /\ Goto(t, "lost")
              /\ todo' = [todo EXCEPT ![t] = {}]
              /\ got' = [got EXCEPT ![t] = {}]
  BY DEF Open, Pass
<1>4. "lost" \in Places
  BY DEF Places
<1>5. todo[t] \ {p} \in SUBSET Paths /\ got[t] \cup {p} \in SUBSET Paths
  BY <1>1
<1>6. WalkTypes'
  <2>1. CASE p \in present
    BY <1>2, <1>3, <1>4, <1>5, <2>1, WalksOn DEF kernel
  <2>2. CASE p \notin present
    BY <1>1, <1>2, <1>3, <1>4, <2>2, WalksOn DEF kernel
  <2> QED
    BY <2>1, <2>2
<1> QED
  BY <1>2, <1>6, TypesKept DEF TInv, serving

(* The threads that mount and review.                                        *)
LEMMA OthersTypes ==
  ASSUME TInv, Udev \/ \E t \in Reviewers : Review(t)
  PROVE  TInv'
<1>1. /\ \A t \in Threads : todo[t] \in SUBSET Paths /\ got[t] \in SUBSET Paths
      /\ present \in SUBSET Paths /\ {} \in SUBSET Paths
  BY DEF TInv, WalkTypes, KernelTypes
<1>2. "udev" \in Threads /\ Reviewers \subseteq Threads
  BY DEF Threads
<1>3. ASSUME NEW t \in Threads, Scan(t) PROVE TInv'
  <2>1. PICK p \in Places : Goto(t, p)
    BY <1>3 DEF Scan, Places, Walks
  <2>2. /\ todo' = [todo EXCEPT ![t] = present]
        /\ UNCHANGED <<kernel, tables, got, serving, touched>>
    BY <1>3 DEF Scan
  <2>3. WalkTypes'
    BY <1>1, <2>1, <2>2, WalksOn DEF kernel
  <2> QED
    BY <2>2, <2>3, TypesKept DEF TInv, serving
<1>4. ASSUME NEW t \in Threads, Open(t) PROVE TInv'
  BY <1>4, OpenTypes
<1>5. ASSUME NEW t \in Threads, Clean(t) PROVE TInv'
  <2>1. PICK ids : Drop(ids)
    BY <1>5 DEF Clean
  <2>2. /\ got' = [got EXCEPT ![t] = {}]
        /\ UNCHANGED <<kernel, rules, changes, kept, mounted, todo, serving>>
    BY <1>5 DEF Clean
  <2>3. PICK p \in Places : Goto(t, p)
    BY <1>5 DEF Clean, Places
  <2>4. WalkTypes'
    BY <1>1, <2>2, <2>3, WalksOn DEF kernel
  <2>5. TableTypes'
    BY <2>1, <2>2, DropTypes DEF TInv, TableTypes, RowTypes, kernel
  <2> QED
    BY <2>2, <2>4, <2>5, TypesKept DEF TInv, serving
<1>6. CASE Apply
  <2>1. UNCHANGED <<kernel, rules, changes, kept, place, todo, serving>>
    BY <1>6 DEF Apply
  <2>2. PICK p \in got["udev"] :
          /\ got' = [got EXCEPT !["udev"] = got["udev"] \ {p}]
          /\ Mount(stays[p].name) \/ UNCHANGED <<rows, live, mounted, touched>>
    BY <1>6 DEF Apply
  <2>3. got["udev"] \ {p} \in SUBSET Paths
    BY <1>1, <1>2
  <2>4. WalkTypes'
    <3>1. "idle" \in Places
      BY DEF Places
    <3> QED
      BY <1>1, <1>2, <2>1, <2>2, <2>3, <3>1, WalksOn DEF kernel
  <2>5. TableTypes'
    <3>1. CASE Mount(stays[p].name)
      BY <2>1, <3>1, MountTypes DEF TInv, TableTypes, RowTypes, kernel
    <3>2. CASE UNCHANGED <<rows, live, mounted, touched>>
      BY <2>1, <3>2, TypesKept DEF tables
    <3> QED
      BY <2>2, <3>1, <3>2
  <2> QED
    BY <2>1, <2>4, <2>5, TypesKept DEF TInv, serving
<1>7. CASE Applied
  <2>1. Goto("udev", "idle") /\ UNCHANGED <<kernel, tables, todo, got, serving, touched>>
    BY <1>7 DEF Applied
  <2>2. "idle" \in Places
    BY DEF Places
  <2>3. WalkTypes'
    BY <1>1, <1>2, <2>1, <2>2, WalksOn DEF kernel
  <2> QED
    BY <2>1, <2>3, TypesKept DEF TInv, serving
<1>8. CASE Receive
  <2>1. /\ events # <<>> /\ events' = Tail(events)
        /\ UNCHANGED <<stays, present, rules, changes, kept, walks, serving>>
    BY <1>8 DEF Receive
  <2>2. \/ \E n : Mount(n)
        \/ (\E ids : Drop(ids)) /\ UNCHANGED mounted
        \/ UNCHANGED <<rows, live, mounted, touched>>
    BY <1>8 DEF Receive
  <2>3. KernelTypes'
    <3> DEFINE Event == [action : {"add", "remove"}, path : Paths]
    <3>1. events \in Seq(Event)
      BY DEF TInv, KernelTypes
    <3> HIDE DEF Event
    <3>2. events' \in Seq(Event)
      BY <2>1, <3>1
    <3> QED
      BY <2>1, <3>2 DEF TInv, KernelTypes, Event, Paths, serving
  <2>4. TableTypes'
    <3>1. CASE \E n : Mount(n)
      BY <2>1, <3>1, MountTypes DEF TInv, TableTypes, RowTypes
    <3>2. CASE (\E ids : Drop(ids)) /\ UNCHANGED mounted
      BY <2>1, <3>2, DropTypes DEF TInv, TableTypes, RowTypes
    <3>3. CASE UNCHANGED <<rows, live, mounted, touched>>
      BY <2>1, <3>3 DEF TInv, TableTypes
    <3> QED
      BY <2>2, <3>1, <3>2, <3>3
  <2>5. WalkTypes' /\ ServingTypes'
    BY <2>1 DEF TInv, WalkTypes, ServingTypes, walks, serving, Paths
  <2> QED
    BY <2>3, <2>4, <2>5 DEF TInv
<1>9. CASE StartReview
  <2>1. UNCHANGED <<kernel, tables, todo, got, serving, touched>>
    BY <1>9 DEF StartReview
  <2>2. \/ place' = [place EXCEPT !["review"] = "review"]
        \/ place' = [place EXCEPT !["udev"] = "blocked", !["again"] = "review"]
    BY <1>9 DEF StartReview, Goto
  <2>3. place \in [Threads -> Places] /\ {"review", "blocked"} \subseteq Places
    BY DEF TInv, WalkTypes, Places
  <2>4. place' \in [Threads -> Places]
    BY <2>2, <2>3
  <2>5. WalkTypes'
    BY <2>1, <2>4 DEF TInv, WalkTypes, kernel, Paths
  <2> QED
    BY <2>1, <2>5, TypesKept DEF TInv, serving
<1>10. ASSUME NEW t \in Threads, Expire(t) PROVE TInv'
  <2>1. PICK ids : Drop(ids)
    BY <1>10 DEF Expire
  <2>2. /\ Goto(t, "scan")
        /\ UNCHANGED <<kernel, rules, changes, kept, mounted, todo, got, serving>>
    BY <1>10 DEF Expire
  <2>3. "scan" \in Places
    BY DEF Places
  <2>4. WalkTypes'
    BY <1>1, <2>2, <2>3, WalksOn DEF kernel
  <2>5. TableTypes'
    BY <2>1, <2>2, DropTypes DEF TInv, TableTypes, RowTypes, kernel
  <2> QED
    BY <2>2, <2>4, <2>5, TypesKept DEF TInv, serving
<1> QED
  BY <1>2, <1>3, <1>4, <1>5, <1>6, <1>7, <1>8, <1>9, <1>10 DEF Udev, Review

(* The thread that serves the calls.                                         *)
LEMMA DbusTypes ==
  ASSUME TInv, ListInv, Dbus \/ \E c \in Calls : Serve(c)
  PROVE  TInv'
<1>1. /\ todo["dbus"] \in SUBSET Paths /\ got["dbus"] \in SUBSET Paths
      /\ present \in SUBSET Paths /\ {} \in SUBSET Paths /\ "dbus" \in Threads
      /\ Paths \subseteq 1..MaxPlugs
  BY EnumerationAssumption DEF TInv, WalkTypes, KernelTypes, Threads, Paths
<1>2. ASSUME NEW text \in Answers, Answer(text), UNCHANGED <<kernel, tables, calls>>
      PROVE  TInv'
  <2>1. /\ reply' = [text |-> text, lines |-> {}] /\ Goto("dbus", "off")
        /\ todo' = [todo EXCEPT !["dbus"] = {}] /\ got' = [got EXCEPT !["dbus"] = {}]
        /\ call' = NoCall /\ on' = Nothing /\ stayed' = {} /\ touched' = {}
    BY <1>2 DEF Answer
  <2>2. "off" \in Places
    BY DEF Places
  <2>3. WalkTypes'
    BY <1>1, <1>2, <2>1, <2>2, WalksOn DEF kernel
  <2>4. KernelTypes' /\ TableTypes'
    BY <1>2, <2>1 DEF TInv, KernelTypes, TableTypes, kernel, tables, Paths
  <2>5. ServingTypes'
    BY <1>2, <2>1 DEF TInv, ServingTypes, Nothing
  <2> QED
    BY <2>3, <2>4, <2>5 DEF TInv
<1>3. CASE \E c \in Calls : Serve(c)
  <2>1. PICK c \in Calls : Serve(c)
    BY <1>3
  <2>2. /\ call' = c /\ calls < MaxCalls /\ calls' = calls + 1
        /\ on' = Nothing /\ reply' = [text |-> "none", lines |-> {}]
        /\ stayed' = present /\ touched' = {}
        /\ UNCHANGED <<kernel, tables, got>>
    BY <2>1 DEF Serve
  <2>3. PICK p \in Places : Goto("dbus", p)
    BY <2>1 DEF Serve, Places, Walks
  <2>4. PICK ps \in SUBSET Paths : todo' = [todo EXCEPT !["dbus"] = ps]
    BY <1>1, <2>1 DEF Serve
  <2>5. WalkTypes'
    BY <1>1, <2>2, <2>3, <2>4, WalksOn DEF kernel
  <2>6. KernelTypes' /\ TableTypes'
    BY <2>2 DEF TInv, KernelTypes, TableTypes, kernel, tables, Paths
  <2>7. ServingTypes'
    BY <2>2, EnumerationAssumption DEF TInv, ServingTypes, Nothing, Answers
  <2> QED
    BY <2>5, <2>6, <2>7 DEF TInv
<1>4. CASE Open("dbus")
  BY <1>1, <1>4, OpenTypes
<1>5. ASSUME NEW p \in Paths, NEW m \in Sticks \cup {None}, Listed(Line(p, m)),
             UNCHANGED <<kernel, tables, todo, call, calls, stayed, touched>>,
             NEW q \in Places, Goto("dbus", q) \/ UNCHANGED place,
             on' = Nothing \/ UNCHANGED on
      PROVE  TInv'
  <2>1. Line(p, m) \in Lines /\ Line(p, m).path = p
    BY <1>1 DEF Line, Lines
  <2>2. reply' = [reply EXCEPT !.lines = reply.lines \cup {Line(p, m)}]
    BY <1>5 DEF Listed
  <2>3. ServingTypes'
    <3>1. reply \in [text : Answers, lines : SUBSET Lines]
      BY DEF TInv, ServingTypes
    <3>2. reply' \in [text : Answers, lines : SUBSET Lines]
      BY <2>1, <2>2, <3>1
    <3>3. on' \in [path : Paths \cup {0}, row : Nat]
      BY <1>5 DEF TInv, ServingTypes, Nothing
    <3> QED
      BY <1>5, <3>2, <3>3 DEF TInv, ServingTypes, kernel, Paths
  <2>4. got' = [got EXCEPT !["dbus"] = got["dbus"] \ {p}]
    BY <1>5, <2>1 DEF Listed
  <2>5. got["dbus"] \ {p} \in SUBSET Paths
    BY <1>1
  <2>6. WalkTypes'
    BY <1>1, <1>5, <2>4, <2>5, WalksOn DEF kernel
  <2> QED
    BY <1>5, <2>3, <2>6, TypesKept DEF TInv
<1>6. rows \in [DOMAIN rows -> Stay] /\ DOMAIN rows \subseteq Nat
  BY DEF TInv, TableTypes, IsStore, IsTable
<1>7. CASE FindRow
  <2>1. PICK p \in got["dbus"] :
          IF RowsOf(stays[p].name) = {}
          THEN Listed(Line(p, None)) /\ UNCHANGED <<place, on>>
          ELSE /\ \E i \in RowsOf(stays[p].name) :
                     on' = [path |-> p, row |-> i]
               /\ Goto("dbus", "read")
               /\ UNCHANGED <<got, reply>>
    BY <1>7 DEF FindRow
  <2>2. UNCHANGED <<kernel, tables, todo, call, calls, stayed, touched>>
    BY <1>7 DEF FindRow
  <2>3. p \in Paths /\ "read" \in Places
    BY <1>1 DEF Places
  <2>4. CASE RowsOf(stays[p].name) = {}
    BY <1>5, <2>1, <2>2, <2>3, <2>4
  <2>5. CASE RowsOf(stays[p].name) # {}
    <3>1. PICK i \in RowsOf(stays[p].name) : on' = [path |-> p, row |-> i]
      BY <2>1, <2>5
    <3>2. i \in Nat
      BY <1>6 DEF RowsOf
    <3>3. ServingTypes'
      BY <2>1, <2>2, <2>3, <2>5, <3>1, <3>2 DEF TInv, ServingTypes, kernel, Paths
    <3>4. WalkTypes'
      BY <1>1, <2>1, <2>2, <2>3, <2>5, WalksOn DEF kernel
    <3> QED
      BY <2>2, <3>3, <3>4, TypesKept DEF TInv
  <2> QED
    BY <2>4, <2>5
<1>8. CASE ReadRow
  <2>1. UNCHANGED <<kernel, tables, calls>> /\ place["dbus"] = "read"
    BY <1>8 DEF ReadRow
  <2>2. CASE on.row \in DOMAIN rows
    <3>1. /\ Listed(Line(on.path, rows[on.row].stick))
          /\ Goto("dbus", "listWalk") /\ on' = Nothing
          /\ UNCHANGED <<todo, call, stayed, touched>>
      BY <1>8, <2>2 DEF ReadRow
    <3>2. rows[on.row].stick \in Sticks
      BY <1>6, <2>2 DEF Stay
    <3>3. "listWalk" \in Places
      BY DEF Places, Walks
    <3>4. on.path \in Paths
      BY <1>1, <2>1 DEF ListInv, RowFound
    <3> QED
      BY <1>5, <2>1, <3>1, <3>2, <3>3, <3>4
  <2>3. CASE on.row \notin DOMAIN rows
    BY <1>2, <1>8, <2>1, <2>3 DEF ReadRow, Answers
  <2> QED
    BY <2>2, <2>3
<1>9. CASE Find
  <2>1. /\ UNCHANGED <<kernel, tables, got, call, reply, calls, stayed, touched>>
        /\ place["dbus"] = "find"
    BY <1>9 DEF Find
  <2>2. PICK p \in todo["dbus"] :
          /\ Goto("dbus", IF p \notin present THEN "lost"
                          ELSE IF stays[p].name = call.name THEN "info" ELSE "find")
          /\ todo' = [todo EXCEPT !["dbus"] = todo["dbus"] \ {p}]
          /\ on' = [on EXCEPT !.path = p]
    BY <1>9 DEF Find, Pass
  <2>3. PICK q \in Places : Goto("dbus", q)
    BY <2>2 DEF Places
  <2>4. todo["dbus"] \ {p} \in SUBSET Paths /\ p \in Paths
    BY <1>1
  <2>5. WalkTypes'
    BY <1>1, <2>1, <2>2, <2>3, <2>4, WalksOn DEF kernel
  <2>6. ServingTypes'
    BY <2>1, <2>2, <2>4 DEF TInv, ServingTypes, kernel, Paths
  <2> QED
    BY <2>1, <2>5, <2>6, TypesKept DEF TInv
<1>10. CASE NotFound \/ CanUserMount \/ AskRow \/ SendList
  <2>1. \E text \in Answers : Answer(text)
    BY <1>10 DEF NotFound, CanUserMount, AskRow, SendList, Answers
  <2>2. UNCHANGED <<kernel, tables, calls>>
    BY <1>10 DEF NotFound, CanUserMount, AskRow, SendList
  <2> QED
    BY <1>2, <2>1, <2>2
<1> QED
  BY <1>3, <1>4, <1>7, <1>8, <1>9, <1>10 DEF Dbus

(* Sticks, rules and users.                                                  *)
LEMMA WorldTypes ==
  ASSUME TInv, \/ \E s \in Sticks : ChangeRule(s) \/ Plug(s)
               \/ \E p \in present : Unplug(p)
               \/ \E i \in live : UserUnmounts(i)
  PROVE  TInv'
<1>1. ASSUME NEW s \in Sticks, ChangeRule(s) PROVE TInv'
  <2>1. /\ rules' = (IF s \in rules THEN rules \ {s} ELSE rules \cup {s})
        /\ kept' = kept \cap rules' /\ changes < MaxChanges /\ changes' = changes + 1
        /\ UNCHANGED <<kernel, rows, live, mounted, walks, serving, touched>>
    BY <1>1 DEF ChangeRule
  <2>2. TableTypes'
    BY <2>1, EnumerationAssumption DEF TInv, TableTypes, kernel
  <2> QED
    BY <2>1, <2>2, TypesKept DEF TInv, serving
<1>2. ASSUME NEW s \in Sticks, Plug(s) PROVE TInv'
  <2> DEFINE path == Len(stays) + 1
             n    == Min(FreeNames)
  <2>1. n \in Names
    <3>1. FreeNames # {} /\ FreeNames \subseteq Names /\ FreeNames \subseteq Nat
      BY <1>2, EnumerationAssumption DEF Plug, FreeNames
    <3> QED
      BY <3>1, MinOfIds
  <2> HIDE DEF n
  <2>2. /\ stays' = Append(stays, [name |-> n, stick |-> s])
        /\ present' = present \cup {path} /\ Len(stays) < MaxPlugs
        /\ events' = Append(events, [action |-> "add", path |-> path])
        /\ UNCHANGED <<tables, walks, serving, touched>>
    BY <1>2 DEF Plug, n, Announced
  <2>3. /\ stays \in Seq(Stay) /\ [name |-> n, stick |-> s] \in Stay /\ MaxPlugs \in Nat
        /\ present \subseteq Paths /\ stayed \subseteq Paths
    BY <2>1, EnumerationAssumption DEF TInv, KernelTypes, Stay
  <2>4. /\ stays' \in Seq(Stay) /\ Len(stays') <= MaxPlugs
        /\ Paths' = Paths \cup {path}
    BY <2>2, <2>3 DEF Paths
  <2>5. events' \in Seq([action : {"add", "remove"}, path : Paths'])
    <3> DEFINE Event == [action : {"add", "remove"}, path : Paths]
               More  == [action : {"add", "remove"}, path : Paths']
    <3>1. events \in Seq(Event) /\ Event \subseteq More
          /\ [action |-> "add", path |-> path] \in More
      BY <2>4 DEF TInv, KernelTypes
    <3> HIDE DEF Event, More
    <3>2. events \in Seq(More)
      BY <3>1
    <3>3. events' \in Seq(More)
      BY <2>2, <3>1, <3>2
    <3> QED
      BY <3>3 DEF More
  <2>6. KernelTypes'
    BY <2>2, <2>3, <2>4, <2>5 DEF KernelTypes, serving
  <2>7. TableTypes'
    BY <2>2 DEF TInv, TableTypes, tables
  <2>8. WalkTypes'
    BY <2>2, <2>4 DEF TInv, WalkTypes, walks
  <2>9. ServingTypes'
    BY <2>2, <2>4 DEF TInv, ServingTypes, serving
  <2> QED
    BY <2>6, <2>7, <2>8, <2>9 DEF TInv
<1>3. ASSUME NEW p \in present, Unplug(p) PROVE TInv'
  <2>1. /\ present' = present \ {p} /\ stayed' = stayed \ {p}
        /\ events' = Append(events, [action |-> "remove", path |-> p])
        /\ mounted' = mounted \ {p}
        /\ UNCHANGED <<stays, rules, rows, live, changes, kept, walks, call, on, reply,
                       calls, touched>>
    BY <1>3 DEF Unplug, Announced
  <2>2. events' \in Seq([action : {"add", "remove"}, path : Paths])
    <3> DEFINE Event == [action : {"add", "remove"}, path : Paths]
    <3>1. events \in Seq(Event) /\ [action |-> "remove", path |-> p] \in Event
      BY DEF TInv, KernelTypes
    <3> HIDE DEF Event
    <3>2. events' \in Seq(Event)
      BY <2>1, <3>1
    <3> QED
      BY <3>2 DEF Event
  <2>3. KernelTypes'
    BY <2>1, <2>2 DEF TInv, KernelTypes, Paths
  <2>4. TableTypes'
    BY <2>1 DEF TInv, TableTypes
  <2>5. WalkTypes' /\ ServingTypes'
    BY <2>1 DEF TInv, WalkTypes, ServingTypes, walks, Paths
  <2> QED
    BY <2>3, <2>4, <2>5 DEF TInv
<1>4. ASSUME NEW i \in live, UserUnmounts(i) PROVE TInv'
  <2>1. /\ Enter(rows, live \ {i}) /\ changes < MaxChanges /\ changes' = changes + 1
        /\ UNCHANGED <<kernel, rules, kept, mounted, walks, serving>>
    BY <1>4 DEF UserUnmounts
  <2>2. RowTypes'
    BY <2>1, DropTypes
  <2>3. changes' \in 0..MaxChanges
    BY <2>1, EnumerationAssumption DEF TInv, TableTypes
  <2>4. TableTypes'
    BY <2>1, <2>2, <2>3 DEF TInv, TableTypes, RowTypes, kernel
  <2> QED
    BY <2>1, <2>4, TypesKept DEF TInv, serving
<1> QED
  BY <1>1, <1>2, <1>3, <1>4

(* The type invariant, for any sticks, names, rules and bounds: no thread    *)
(* ever handles a path that was never used, also while sticks come and go    *)
(* behind its walk, and a list names only sticks that have been there.       *)
THEOREM EnumerationTypes == Spec => []TypeOK
<1>1. Init => TInv
  <2> SUFFICES ASSUME Init PROVE TInv
    OBVIOUS
  <2>1. KernelTypes
    BY EnumerationAssumption DEF Init, KernelTypes, Paths
  <2>2. TableTypes
    BY EnumerationAssumption, EmptyIsStore DEF Init, TableTypes
  <2>3. WalkTypes
    BY DEF Init, WalkTypes, Places
  <2>4. ServingTypes
    BY EnumerationAssumption DEF Init, ServingTypes, Nothing, Answers
  <2> QED
    BY <2>1, <2>2, <2>3, <2>4 DEF TInv
<1>2. TInv /\ ListInv /\ [Next]_vars => TInv'
  <2> SUFFICES ASSUME TInv, ListInv, [Next]_vars PROVE TInv'
    OBVIOUS
  <2>1. CASE UNCHANGED vars
    BY <2>1, TypesKept DEF TInv, vars, serving
  <2> QED
    BY <2>1, OthersTypes, DbusTypes, WorldTypes DEF Next
<1>3. TInv => TypeOK
  BY DEF TInv, KernelTypes, TableTypes, WalkTypes, ServingTypes, TypeOK, IsStore
<1> QED
  BY <1>1, <1>2, <1>3, ListInvariance, PTL DEF Spec
=============================================================================
