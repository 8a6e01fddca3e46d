-------------------------------- MODULE Table --------------------------------
(***************************************************************************)
(* dal::Table with the calls that DevicePermissions and Mountpoints add to *)
(* it, at the level of its three mutexes and of the flag                   *)
(* transaction_started_, which every call reads WITHOUT a lock to decide   *)
(* whether it locks, unlocks and saves.                                    *)
(*                                                                         *)
(* A thread makes one call at a time.  The calls of the C++ classes are    *)
(* made of three phases:                                                   *)
(*   look   a shared section on data_mutex_ (Find, CheckIndex, Read,       *)
(*          GetAll),                                                       *)
(*   edit   an exclusive section that changes data_ (Create, Update,       *)
(*          Delete, Clear, RemoveExpired),                                 *)
(*   save   WriteRaw: the file is truncated under file_mutex_, data_ is    *)
(*          dumped under a shared lock, the text is written.               *)
(* A phase begins by reading the flag ("look", "edit", "save", "dump"),    *)
(* may wait for a mutex ("...Lock") and is then inside ("...ing").         *)
(***************************************************************************)
EXTENDS Rows

CONSTANTS
    Threads,     \* the threads that use the store
    Values,      \* what a row can hold
    Calls,       \* Calls[t]: the calls that thread t makes
    FindFirst,   \* Create looks for an equal row first (Mountpoints only)
    MaxCalls,    \* bound: the calls (transactions included) of all threads
    MaxBody,     \* bound: the changes in one transaction
    MaxFailures, \* bound: how often the file cannot be opened for writing
    MaxCrashes,  \* bound: how often the process dies and is started again
    Free,        \* the owner of a mutex nobody holds
    Lost,        \* the owner of a mutex that nobody is going to unlock
    Torn         \* the contents of a file between truncation and write

Edits == {"create", "update", "delete", "expire", "clear"}
Kinds == Edits \cup {"find", "transaction"}

ASSUME TableAssumption ==
    /\ {Free, Lost} \cap Threads = {} /\ Free # Lost
    /\ Values # {}
    /\ Calls \in [Threads -> SUBSET Kinds]
    /\ FindFirst \in BOOLEAN
    /\ {MaxCalls, MaxBody, MaxFailures, MaxCrashes} \subseteq Nat

Transactional(t) == "transaction" \in Calls[t]

\* How the daemon uses its stores: mount_points is written by single calls,
\* permissions by the transactions of one thread, the one that serves D-Bus.
\* (Transactions of several threads work as long as the file can be opened.)
ASSUME OneStyle ==
    \/ \A t \in Threads : ~Transactional(t)
    \/ /\ \A t \in Threads : Calls[t] \subseteq {"transaction", "find"}
       /\ \/ MaxFailures = 0
          \/ \A t, u \in Threads :
                Transactional(t) /\ Transactional(u) => t = u

VARIABLES
    data,        \* data_
    file,        \* the contents of file_path_
    committed,   \* history: data_ without what a transaction under way did
    unsaved,     \* history: the last attempt to open the file failed
    started,     \* transaction_started_
    dataWriter,  \* the exclusive owner of data_mutex_
    dataReaders, \* its shared owners
    fileOwner,   \* the owner of file_mutex_
    txOwner,     \* the owner of transaction_mutex_
    pc,          \* where each thread is
    call,        \* the call each thread is in
    text,        \* what Serialize returned to each thread in WriteRaw
    left,        \* calls the threads may still make
    body,        \* changes left to the transaction under way
    failures,    \* how often the file could not be opened
    crashes,     \* how often the process died
    alive        \* the daemon could be started

store  == <<data, file, committed, unsaved>>
shared == <<started, dataWriter, dataReaders, fileOwner, txOwner>>
bounds == <<left, body, failures, crashes, alive>>
vars   == <<store, shared, pc, call, text, bounds>>

\* id: the row an update or delete names; val: the value created, updated or
\* looked for, or the only one that RemoveExpired finds still valid.
CallType == [op : Kinds, id : Nat, val : Values]

InTx    == {"mark", "takeData", "takeFile", "body", "dropFile", "dropData",
            "unmark", "finish", "failFile", "failData", "failTx"}
Looking == {"look", "lookLock", "looking"}
Editing == {"edit", "editLock", "editing", "edited"}
Writing == {"writing", "dump", "dumpLock", "dumping", "flush", "saved"}
Saving  == {"save", "saveLock"} \cup Writing
Places  == {"idle", "begin", "failMark"}
             \cup InTx \cup Looking \cup Editing \cup Saving
----------------------------------------------------------------------------
NoCall == [op |-> "find", id |-> 0, val |-> CHOOSE v \in Values : TRUE]

Goto(t, place) ==
    /\ pc' = [pc EXCEPT ![t] = place]
    /\ call' = IF place \in {"idle", "body"}
               THEN [call EXCEPT ![t] = NoCall] ELSE call

\* A call ends where it was made: in the body of a transaction or outside.
Return(t) == Goto(t, IF txOwner = t THEN "body" ELSE "idle")

\* The local unique_lock of a call lets go of a mutex only if the call locked
\* it: inside a transaction the mutexes are the transaction's.
Unlocked(t, owner) == IF owner = t /\ txOwner # t THEN Free ELSE owner

\* The first phase of a call: Find; CheckIndex, before an Update; Find, before
\* a Create in Mountpoints; the change itself in the other cases.
Entry(op) == IF op \in {"find", "update"} \/ (op = "create" /\ FindFirst)
             THEN "look" ELSE "edit"

Quiet == [t \in Threads |-> "idle"]

Init ==
    /\ data = Empty /\ file = Empty /\ committed = Empty /\ unsaved = FALSE
    /\ started = FALSE /\ txOwner = Free /\ fileOwner = Free
    /\ dataWriter = Free /\ dataReaders = {}
    /\ pc = Quiet
    /\ call = [t \in Threads |-> NoCall]
    /\ text = [t \in Threads |-> Empty]
    /\ left = MaxCalls /\ body = 0
    /\ failures = 0 /\ crashes = 0 /\ alive = TRUE

\* The arguments a call is made with: the ids in use, and 0, which may not be.
Arguments(op) ==
    [op  : {op},
     id  : IF op \in {"update", "delete"} THEN DOMAIN data \cup {0} ELSE {0},
     val : IF op \in {"create", "update", "expire"} THEN Values
           ELSE {NoCall.val}]

Enter(t, op, place) ==
    /\ \E c \in Arguments(op) : call' = [call EXCEPT ![t] = c]
    /\ pc' = [pc EXCEPT ![t] = place]

Call(t) ==
    /\ alive /\ pc[t] = "idle" /\ left > 0
    /\ left' = left - 1
    /\ \E op \in Calls[t] :
          Enter(t, op, IF op = "transaction" THEN "begin" ELSE Entry(op))
    /\ UNCHANGED <<store, shared, text, body, failures, crashes, alive>>
----------------------------------------------------------------------------
\* Mutant of ReadFlag: the calls inside a transaction lock as well.
AlwaysLock(t, from, lock, inside) ==
    /\ pc[t] = from
    /\ Goto(t, lock)
    /\ UNCHANGED <<store, shared, text, bounds>>

\* Every phase that may lock starts by reading the flag.
ReadFlag(t, from, lock, inside) ==
    /\ pc[t] = from
    /\ Goto(t, IF started THEN inside ELSE lock)
    /\ UNCHANGED <<store, shared, text, bounds>>

ShareData(t, from, inside) ==
    /\ pc[t] = from /\ dataWriter = Free
    /\ dataReaders' = dataReaders \cup {t}
    /\ Goto(t, inside)
    /\ UNCHANGED <<store, started, dataWriter, fileOwner, txOwner, text,
                   bounds>>

\* Mutant of LockData: a writer does not wait for the shared owners.
BargeIn(t, from, inside) ==
    /\ pc[t] = from /\ dataWriter = Free
    /\ dataWriter' = t
    /\ Goto(t, inside)
    /\ UNCHANGED <<store, started, dataReaders, fileOwner, txOwner, text,
                   bounds>>

LockData(t, from, inside) ==
    /\ pc[t] = from /\ dataWriter = Free /\ dataReaders = {}
    /\ dataWriter' = t
    /\ Goto(t, inside)
    /\ UNCHANGED <<store, started, dataReaders, fileOwner, txOwner, text,
                   bounds>>

\* CheckIndex and data_.at() throw when the row to update is not there.
RowGone(t) == call[t].op = "update" /\ call[t].id \notin DOMAIN data

\* Find, CheckIndex and Read come to a result and drop their shared lock.
Looked(t) ==
    /\ pc[t] = "looking" /\ ~RowGone(t)
    /\ dataReaders' = dataReaders \ {t}
    /\ \/ /\ \/ call[t].op = "create" /\ ~Holds(data, call[t].val)
             \/ call[t].op = "update"
          /\ Goto(t, "edit")
       \/ /\ \/ call[t].op = "find"
             \/ call[t].op = "create" /\ Holds(data, call[t].val)
          /\ Return(t)
    /\ UNCHANGED <<store, started, dataWriter, fileOwner, txOwner, text,
                   bounds>>

\* Mutant of After: the id is stored in place of the value.
SwappedAfter(d, c) ==
    IF c.op = "create" THEN Inserted(d, c.id) ELSE d

After(d, c) ==
    CASE c.op = "create" -> Inserted(d, c.val)
      [] c.op = "update" -> Replaced(d, c.id, c.val)
      [] c.op = "delete" -> Without(d, {c.id})
      [] c.op = "expire" -> Without(d, {i \in DOMAIN d : d[i] # c.val})
      [] OTHER           -> Empty

Edit(t) ==
    /\ pc[t] = "editing" /\ ~RowGone(t)
    /\ data' = After(data, call[t])
    /\ committed' = IF txOwner = Free THEN data' ELSE committed
    /\ Goto(t, "edited")
    /\ UNCHANGED <<file, unsaved, shared, text, bounds>>

\* A call that finds no row to update throws, and so does CreateRules when it
\* does not accept a row.  Outside of a transaction the lock of the call goes.
\* SaveRules catches what is thrown in a transaction and returns without
\* ProcessTransaction: the flag stays set and the three mutexes stay locked.
Throw(t) ==
    /\ \/ pc[t] \in {"looking", "editing"} /\ RowGone(t)
       \/ pc[t] = "body" /\ body > 0
    /\ dataReaders' = dataReaders \ {t}
    /\ IF txOwner = t
       THEN /\ txOwner' = Lost /\ dataWriter' = Lost /\ fileOwner' = Lost
            /\ body' = 0
       ELSE /\ dataWriter' = Unlocked(t, dataWriter)
            /\ UNCHANGED <<fileOwner, txOwner, body>>
    /\ Goto(t, "idle")
    /\ UNCHANGED <<store, started, text, left, failures, crashes, alive>>

\* Mutant of Edited: the test of the flag is the wrong way round.
EditedReversed(t) ==
    /\ pc[t] = "edited"
    /\ dataWriter' = Unlocked(t, dataWriter)
    /\ IF started THEN Goto(t, "save") ELSE Return(t)
    /\ UNCHANGED <<store, started, dataReaders, fileOwner, txOwner, text,
                   bounds>>

\* The second reading of the flag: unlock and save, or leave both to the
\* transaction.
Edited(t) ==
    /\ pc[t] = "edited"
    /\ dataWriter' = Unlocked(t, dataWriter)
    /\ IF started THEN Return(t) ELSE Goto(t, "save")
    /\ UNCHANGED <<store, started, dataReaders, fileOwner, txOwner, text,
                   bounds>>
----------------------------------------------------------------------------
\* Mutant of LockFile: WriteRaw does not wait for file_mutex_.
IgnoreFileMutex(t, from, inside) ==
    /\ pc[t] = from
    /\ fileOwner' = t
    /\ Goto(t, inside)
    /\ UNCHANGED <<store, started, dataWriter, dataReaders, txOwner, text>>

\* WriteRaw
LockFile(t, from, inside) ==
    /\ pc[t] = from /\ fileOwner = Free
    /\ fileOwner' = t
    /\ Goto(t, inside)
    /\ UNCHANGED <<store, started, dataWriter, dataReaders, txOwner, text>>

Truncate(t) ==
    /\ pc[t] = "writing"
    /\ file' = Torn
    /\ Goto(t, "dump")
    /\ UNCHANGED <<data, committed, unsaved, shared, text, bounds>>

\* The file cannot be opened: WriteRaw throws, to the caller or to the
\* handler in ProcessTransaction, where the clone that is swapped in was
\* made after the changes, so that data_ keeps them.
CannotOpen(t) ==
    /\ pc[t] = "writing" /\ failures < MaxFailures
    /\ txOwner = t \/ call[t].op # "expire"
    /\ failures' = failures + 1
    /\ unsaved' = TRUE
    /\ fileOwner' = Unlocked(t, fileOwner)
    /\ Goto(t, IF txOwner = t THEN "failFile" ELSE "idle")
    /\ UNCHANGED <<data, file, committed, started, dataWriter, dataReaders, txOwner,
                   text, left, body, crashes, alive>>

Dumped(t) ==
    /\ pc[t] = "dumping"
    /\ text' = [text EXCEPT ![t] = data]
    /\ dataReaders' = dataReaders \ {t}
    /\ Goto(t, "flush")
    /\ UNCHANGED <<store, started, dataWriter, fileOwner, txOwner,
                   bounds>>

\* Mutant of Flush: data_ goes straight into the file, after the shared lock.
FlushLive(t) ==
    /\ pc[t] = "flush"
    /\ file' = data
    /\ text' = [text EXCEPT ![t] = Empty]
    /\ unsaved' = FALSE
    /\ Goto(t, "saved")
    /\ UNCHANGED <<data, committed, shared, bounds>>

\* file << ...; file.close()
Flush(t) ==
    /\ pc[t] = "flush"
    /\ file' = text[t]
    /\ text' = [text EXCEPT ![t] = Empty]
    /\ unsaved' = FALSE
    /\ Goto(t, "saved")
    /\ UNCHANGED <<data, committed, shared, bounds>>

\* Mutant of Saved: file_mutex_ stays locked.
SavedLocked(t) ==
    /\ pc[t] = "saved"
    /\ Goto(t, IF txOwner = t THEN "dropFile" ELSE "idle")
    /\ UNCHANGED <<store, shared, text, bounds>>

\* WriteRaw returns: to ProcessTransaction, or out of the call.
Saved(t) ==
    /\ pc[t] = "saved"
    /\ fileOwner' = Unlocked(t, fileOwner)
    /\ Goto(t, IF txOwner = t THEN "dropFile" ELSE "idle")
    /\ UNCHANGED <<store, started, dataWriter, dataReaders, txOwner, text,
                   bounds>>

Phase(t) ==
    \/ ReadFlag(t, "look", "lookLock", "looking")
    \/ ReadFlag(t, "edit", "editLock", "editing")
    \/ ReadFlag(t, "save", "saveLock", "writing")
    \/ ReadFlag(t, "dump", "dumpLock", "dumping")
    \/ ShareData(t, "lookLock", "looking")
    \/ ShareData(t, "dumpLock", "dumping")
    \/ LockData(t, "editLock", "editing")
    \/ LockFile(t, "saveLock", "writing") /\ UNCHANGED bounds
    \/ Looked(t) \/ Edit(t) \/ Throw(t) \/ Edited(t)
    \/ Truncate(t) \/ CannotOpen(t) \/ Dumped(t) \/ Flush(t) \/ Saved(t)
----------------------------------------------------------------------------
\* StartTransaction: transaction_mutex_, the flag, data_mutex_, file_mutex_.
LockTx(t) ==
    /\ pc[t] = "begin" /\ txOwner = Free
    /\ txOwner' = t
    /\ Goto(t, "mark")
    /\ UNCHANGED <<store, started, dataWriter, dataReaders, fileOwner, text,
                   bounds>>

Mark(t, from, flag, to) ==
    /\ pc[t] = from
    /\ started' = flag
    /\ Goto(t, to)
    /\ UNCHANGED <<store, dataWriter, dataReaders, fileOwner, txOwner, text,
                   bounds>>

TakeFile(t) ==
    /\ LockFile(t, "takeFile", "body")
    /\ body' = MaxBody
    /\ UNCHANGED <<left, failures, crashes, alive>>

\* The owner of the transaction makes one more change, calls
\* ProcessTransaction, or throws.
CallInTx(t) ==
    /\ pc[t] = "body" /\ body > 0
    /\ body' = body - 1
    /\ \E op \in Edits : Enter(t, op, Entry(op))
    /\ UNCHANGED <<store, shared, text, left, failures, crashes, alive>>

\* Mutant of Process: the locks are dropped and nothing is written.
ProcessUnwritten(t) ==
    /\ pc[t] = "body"
    /\ body' = 0
    /\ committed' = data
    /\ Goto(t, "dropFile")
    /\ UNCHANGED <<data, file, unsaved, shared, text, left, failures, crashes, alive>>

Process(t) ==
    /\ pc[t] = "body"
    /\ body' = 0
    /\ committed' = data
    /\ Goto(t, "save")
    /\ UNCHANGED <<data, file, unsaved, shared, text, left, failures, crashes, alive>>

UnlockFile(t, from, to) ==
    /\ pc[t] = from
    /\ fileOwner' = Free
    /\ Goto(t, to)
    /\ UNCHANGED <<store, started, dataWriter, dataReaders, txOwner, text,
                   bounds>>

UnlockData(t, from, to) ==
    /\ pc[t] = from
    /\ dataWriter' = Free
    /\ Goto(t, to)
    /\ UNCHANGED <<store, started, dataReaders, fileOwner, txOwner, text,
                   bounds>>

UnlockTx(t, from, to) ==
    /\ pc[t] = from
    /\ txOwner' = Free
    /\ Goto(t, to)
    /\ UNCHANGED <<store, started, dataWriter, dataReaders, fileOwner, text,
                   bounds>>

\* The handler in ProcessTransaction lets the next transaction in before it
\* clears the flag; the normal path does it the other way round.
Transaction(t) ==
    \/ LockTx(t)
    \/ Mark(t, "mark", TRUE, "takeData")
    \/ LockData(t, "takeData", "takeFile")
    \/ TakeFile(t)
    \/ CallInTx(t) \/ Process(t)
    \/ UnlockFile(t, "dropFile", "dropData")
    \/ UnlockData(t, "dropData", "unmark")
    \/ Mark(t, "unmark", FALSE, "finish")
    \/ UnlockTx(t, "finish", "idle")
    \/ UnlockFile(t, "failFile", "failData")
    \/ UnlockData(t, "failData", "failTx")
    \/ UnlockTx(t, "failTx", "failMark")
    \/ Mark(t, "failMark", FALSE, "idle")
----------------------------------------------------------------------------
\* The process is gone and systemd starts it again: the constructor reads the
\* file.  One that was truncated reads as no rows; one of which only a part was
\* written is not JSON, and the daemon cannot start.
Die ==
    /\ \/ file # Torn /\ data' = file /\ UNCHANGED <<file, alive>>
       \/ file = Torn /\ data' = Empty /\ file' = Empty /\ UNCHANGED alive
       \/ file = Torn /\ data' = Empty /\ UNCHANGED file /\ alive' = FALSE
    /\ committed' = data' /\ unsaved' = FALSE
    /\ started' = FALSE /\ txOwner' = Free /\ fileOwner' = Free
    /\ dataWriter' = Free /\ dataReaders' = {}
    /\ pc' = Quiet
    /\ text' = [t \in Threads |-> Empty]
    /\ call' = [t \in Threads |-> NoCall]
    /\ body' = 0

\* It can die at any moment ...
Crash ==
    /\ alive /\ crashes < MaxCrashes
    /\ crashes' = crashes + 1
    /\ Die
    /\ UNCHANGED <<left, failures>>

\* ... and does when RemoveExpired, which is noexcept, cannot open the file.
Terminate(t) ==
    /\ pc[t] = "writing" /\ txOwner # t /\ call[t].op = "expire"
    /\ failures < MaxFailures
    /\ failures' = failures + 1
    /\ Die
    /\ UNCHANGED <<left, crashes>>

Step(t) == Phase(t) \/ Transaction(t)

Next == Crash \/ \E t \in Threads : Call(t) \/ Step(t) \/ Terminate(t)

\* The threads are std::threads that the system schedules; nobody is obliged
\* to make another call.
Spec == Init /\ [][Next]_vars /\ \A t \in Threads : WF_vars(Step(t))
----------------------------------------------------------------------------
TypeOK ==
    /\ IsTable(data, Values) /\ IsTable(committed, Values)
    /\ file = Torn \/ IsTable(file, Values)
    /\ {started, unsaved, alive} \subseteq BOOLEAN
    /\ {dataWriter, fileOwner, txOwner} \subseteq Threads \cup {Free, Lost}
    /\ dataReaders \subseteq Threads
    /\ pc \in [Threads -> Places]
    /\ call \in [Threads -> CallType]
    /\ \A t \in Threads : IsTable(text[t], Values)
    /\ left \in 0..MaxCalls /\ body \in 0..MaxBody
    /\ failures \in 0..MaxFailures /\ crashes \in 0..MaxCrashes

\* No thread changes data_ while another one changes it or dumps it for the
\* file, although the flag lets calls go in without a lock; nor while another
\* one looks through it (Find, Read, GetAll), unless the change is one of a
\* transaction, during which the readers skip the lock.
EditorsAlone ==
    \A t, u \in Threads :
        t # u /\ pc[t] = "editing" =>
            /\ pc[u] \notin {"editing", "dumping"}
            /\ pc[u] = "looking" => txOwner = t

\* Two threads never have the file open for writing at once.
OneFileWriter ==
    \A t, u \in Threads : t # u /\ pc[t] \in Writing => pc[u] \notin Writing

\* Whenever nobody is between a change and the end of its save, no
\* transaction is open and the file could be opened the last time, the file
\* holds exactly the rows that are in memory: no interleaving of saves leaves
\* an older dump on the disk.
FileCatchesUp ==
    /\ alive /\ ~unsaved /\ txOwner = Free
    /\ \A t \in Threads : pc[t] \notin Saving \cup {"edited"}
    => file = data

\* Every call comes back, unless an exception in SaveRules has left its
\* transaction open: the order in which the mutexes are taken, and the flag that
\* lets calls go in without them, block the threads of a store in no other way.
CallsReturn ==
    \A t \in Threads : (pc[t] # "idle") ~> (pc[t] = "idle" \/ txOwner = Lost)

\* The dump that is about to be written.
Pending == {text[t] : t \in {u \in Threads : pc[u] = "flush"}}

Abstract == INSTANCE AtomicTable
              WITH rows <- committed, open <- (txOwner # Free), draft <- data,
                   disk <- file, dump <- Pending

\* The store with its locks implements the atomic one: nothing of a transaction
\* under way reaches the file, the file holds what a single moment had
\* committed, and a restart finds that, or no rows.
ImplementsAtomicTable == Abstract!Spec
=============================================================================
