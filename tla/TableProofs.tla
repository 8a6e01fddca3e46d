----------------------------- MODULE TableProofs -----------------------------
(***************************************************************************)
(* Proofs about module Table for any threads, values and bounds.  The two  *)
(* styles that OneStyle allows are proved apart: a store written by single *)
(* calls, where the discipline of its mutexes is what protects it, and one *)
(* written by transactions, where transaction_mutex_ is.  The last part is *)
(* about both: the store implements the atomic one.                        *)
(***************************************************************************)
EXTENDS Table, RowsProofs

Single  == \A t \in Threads : ~Transactional(t)
Bundled == \A t \in Threads : Calls[t] \subseteq {"transaction", "find"}

\* A store is written in one of the two styles.
LEMMA Styles == Single \/ Bundled
  BY OneStyle DEF Single, Bundled

\* Neither a free nor a lost mutex belongs to a thread.
LEMMA FreeIsNoThread == {Free, Lost} \cap Threads = {} /\ Free # Lost
  BY TableAssumption
-----------------------------------------------------------------------------
(* Single calls.                                                            *)

SinglePlaces == {"idle"} \cup Looking \cup Editing \cup Saving

SinglePc ==
    /\ pc \in [Threads -> SinglePlaces]
    /\ started = FALSE /\ txOwner = Free

SingleLocks ==
    /\ dataWriter \in Threads \cup {Free} /\ dataReaders \subseteq Threads
    /\ fileOwner \in Threads \cup {Free}
    /\ \A t \in Threads :
          /\ dataWriter = t <=> pc[t] \in {"editing", "edited"}
          /\ t \in dataReaders <=> pc[t] \in {"looking", "dumping"}
          /\ fileOwner = t <=> pc[t] \in Writing
    /\ dataWriter # Free => dataReaders = {}

\* The threads that are going to dump data_ as it is now.
Dumpers == {t \in Threads : pc[t] \in {"edited"} \cup (Saving \ {"flush", "saved"})}
Flushers == {t \in Threads : pc[t] = "flush"}

SingleFile ==
    /\ text = [t \in Threads |-> text[t]]
    /\ Dumpers = {} => \A t \in Flushers : text[t] = data
    /\ alive /\ ~unsaved /\ Dumpers = {} /\ Flushers = {} => file = data

SingleInv == SinglePc /\ SingleLocks /\ SingleFile

USE DEF Places, InTx, Looking, Editing, Writing, Saving, SinglePlaces

\* A store that starts satisfies the invariant of single calls.
LEMMA SingleInit ==
  ASSUME Single, Init PROVE SingleInv
  BY FreeIsNoThread DEF Init, Quiet, SingleInv, SinglePc, SingleLocks,
     SingleFile, Dumpers, Flushers

\* Without transactions no thread enters a place of one, and the flag and
\* transaction_mutex_ are never taken.
LEMMA SinglePcStep ==
  ASSUME Single, SinglePc, [Next]_vars PROVE SinglePc'
<1> USE FreeIsNoThread DEF SinglePc
<1>1. CASE UNCHANGED vars
  BY <1>1 DEF vars, store, shared
<1>2. ASSUME Die PROVE SinglePc'
  BY <1>2 DEF Die, Quiet
<1>3. ASSUME NEW t \in Threads, Call(t) PROVE SinglePc'
  <2>1. PICK op \in Calls[t] :
           Enter(t, op, IF op = "transaction" THEN "begin" ELSE Entry(op))
    BY <1>3 DEF Call
  <2>2. op # "transaction"
    BY DEF Single, Transactional
  <2> QED
    BY <1>3, <2>1, <2>2 DEF Call, Enter, Entry, shared
<1>4. ASSUME NEW t \in Threads, Phase(t) PROVE SinglePc'
  BY <1>4 DEF Phase, ReadFlag, ShareData, LockData, LockFile, Looked, Edit,
     Throw, Edited, Truncate, CannotOpen, Dumped, Flush, Saved, Goto,
     Return, shared
<1>5. ASSUME NEW t \in Threads PROVE ~Transaction(t)
  BY DEF Transaction, LockTx, Mark, LockData, TakeFile, LockFile, CallInTx,
     Process, UnlockFile, UnlockData, UnlockTx
<1> QED
  BY <1>1, <1>2, <1>3, <1>4, <1>5 DEF Next, Step, Crash,
     Terminate

\* Who is inside a section owns its mutex, and data_mutex_ has either one
\* writer or readers.
LEMMA SingleLocksStep ==
  ASSUME Single, SinglePc, SinglePc', SingleLocks, [Next]_vars
  PROVE  SingleLocks'
<1> USE FreeIsNoThread DEF SinglePc, SingleLocks
<1>1. CASE UNCHANGED vars
  BY <1>1 DEF vars, store, shared
<1>2. ASSUME Die PROVE SingleLocks'
  BY <1>2 DEF Die, Quiet
<1>3. ASSUME NEW t \in Threads, Call(t) PROVE SingleLocks'
  <2>1. PICK op \in Calls[t] :
           Enter(t, op, IF op = "transaction" THEN "begin" ELSE Entry(op))
    BY <1>3 DEF Call
  <2>2. op # "transaction"
    BY DEF Single, Transactional
  <2> QED
    BY <1>3, <2>1, <2>2 DEF Call, Enter, Entry, shared
<1>4. ASSUME NEW t \in Threads, Phase(t) PROVE SingleLocks'
  <2> USE DEF Goto, Return, Unlocked, shared
  <2>1. CASE \/ ReadFlag(t, "look", "lookLock", "looking")
             \/ ReadFlag(t, "edit", "editLock", "editing")
             \/ ReadFlag(t, "save", "saveLock", "writing")
             \/ ReadFlag(t, "dump", "dumpLock", "dumping")
    BY <2>1 DEF ReadFlag
  <2>2. CASE \/ ShareData(t, "lookLock", "looking")
             \/ ShareData(t, "dumpLock", "dumping")
    BY <2>2 DEF ShareData
  <2>3. CASE LockData(t, "editLock", "editing")
    BY <2>3 DEF LockData
  <2>4. CASE LockFile(t, "saveLock", "writing")
    BY <2>4 DEF LockFile
  <2>5. CASE Looked(t)
    BY <2>5 DEF Looked
  <2>6. CASE Edit(t) \/ Truncate(t) \/ Flush(t)
    BY <2>6 DEF Edit, Truncate, Flush
  <2>7. CASE Throw(t) \/ Edited(t)
    BY <2>7 DEF Throw, Edited
  <2>8. CASE CannotOpen(t) \/ Saved(t)
    BY <2>8 DEF CannotOpen, Saved
  <2>9. CASE Dumped(t)
    BY <2>9 DEF Dumped
  <2> QED
    BY <1>4, <2>1, <2>2, <2>3, <2>4, <2>5, <2>6, <2>7, <2>8, <2>9 DEF Phase
<1>5. ASSUME NEW t \in Threads PROVE ~Transaction(t)
  BY DEF Transaction, LockTx, Mark, LockData, TakeFile, LockFile, CallInTx,
     Process, UnlockFile, UnlockData, UnlockTx
<1> QED
  BY <1>1, <1>2, <1>3, <1>4, <1>5 DEF Next, Step, Crash,
     Terminate

\* As long as somebody has still to dump data_ the file may lag behind; the
\* last to write it wrote what is in memory.
LEMMA SingleFileStep ==
  ASSUME Single, SinglePc, SinglePc', SingleLocks, SingleFile, [Next]_vars
  PROVE  SingleFile'
<1> USE FreeIsNoThread DEF SinglePc, SingleFile, Dumpers, Flushers
<1>1. CASE UNCHANGED vars
  BY <1>1 DEF vars, store, bounds
<1>2. ASSUME Die PROVE SingleFile'
  BY <1>2 DEF Die, Quiet
<1>3. ASSUME NEW t \in Threads, Call(t) PROVE SingleFile'
  <2>1. PICK op \in Calls[t] :
           Enter(t, op, IF op = "transaction" THEN "begin" ELSE Entry(op))
    BY <1>3 DEF Call
  <2>2. op # "transaction"
    BY DEF Single, Transactional
  <2> QED
    BY <1>3, <2>1, <2>2 DEF Call, Enter, Entry, store
<1>4. ASSUME NEW t \in Threads, Phase(t) PROVE SingleFile'
  <2> USE DEF Goto, Return, store, bounds
  <2>1. CASE \/ ReadFlag(t, "look", "lookLock", "looking")
             \/ ReadFlag(t, "edit", "editLock", "editing")
             \/ ReadFlag(t, "save", "saveLock", "writing")
             \/ ReadFlag(t, "dump", "dumpLock", "dumping")
    BY <2>1 DEF ReadFlag
  <2>2. CASE \/ ShareData(t, "lookLock", "looking")
             \/ ShareData(t, "dumpLock", "dumping")
    BY <2>2 DEF ShareData
  <2>3. CASE LockData(t, "editLock", "editing")
    BY <2>3 DEF LockData
  <2>4. CASE LockFile(t, "saveLock", "writing") /\ UNCHANGED bounds
    BY <2>4 DEF LockFile
  <2>5. CASE Looked(t) \/ Throw(t) \/ Edited(t) \/ Saved(t)
    BY <2>5 DEF Looked, Throw, Edited, Saved
  <2>6. CASE Edit(t) \/ Truncate(t)
    BY <2>6 DEF Edit, Truncate
  <2>7. CASE CannotOpen(t)
    BY <2>7 DEF CannotOpen, SingleLocks
  <2>8. CASE Dumped(t)
    BY <2>8 DEF Dumped, SingleLocks
  <2>9. CASE Flush(t)
    BY <2>9 DEF Flush, SingleLocks
  <2> QED
    BY <1>4, <2>1, <2>2, <2>3, <2>4, <2>5, <2>6, <2>7, <2>8, <2>9 DEF Phase
<1>5. ASSUME NEW t \in Threads PROVE ~Transaction(t)
  BY DEF Transaction, LockTx, Mark, LockData, TakeFile, LockFile, CallInTx,
     Process, UnlockFile, UnlockData, UnlockTx
<1> QED
  BY <1>1, <1>2, <1>3, <1>4, <1>5 DEF Next, Step, Crash,
     Terminate
-----------------------------------------------------------------------------
(* Transactions.                                                            *)

BundledPc ==
    /\ pc \in [Threads -> Places]
    /\ call = [t \in Threads |-> call[t]]

\* Whoever edits or saves is in the transaction: its body looks rows up only
\* on the way to an edit, and a Find outside is on the way to nothing else.
BundledTx ==
    /\ txOwner \in Threads \cup {Free, Lost}
    /\ \A t \in Threads :
          \/ pc[t] \in InTx \cup Editing \cup Saving
          \/ pc[t] \in Looking /\ call[t].op # "find"
          => txOwner = t

\* Where the owner of a transaction has changed nothing yet, or has saved.
Settled == {"mark", "takeData", "takeFile", "dropFile", "dropData", "unmark",
            "finish"}

BundledFile ==
    /\ text = [t \in Threads |-> text[t]]
    /\ \A t \in Threads :
          /\ pc[t] = "flush" => text[t] = data
          /\ pc[t] = "saved" => file = data
          /\ pc[t] \in {"failFile", "failData", "failTx"} => unsaved
    /\ alive /\ ~unsaved /\ txOwner # Lost
         /\ (\A t \in Threads : txOwner = t => pc[t] \in Settled)
       => file = data

BundledInv == BundledPc /\ BundledTx /\ BundledFile

\* A store that starts satisfies the invariant of transactions.
LEMMA BundledInit ==
  ASSUME Bundled, Init PROVE BundledInv
  BY FreeIsNoThread DEF Init, Quiet, BundledInv, BundledPc, BundledTx,
     BundledFile, Settled

\* The threads stay at the places of the calls.
LEMMA BundledPcStep ==
  ASSUME Bundled, BundledPc, [Next]_vars PROVE BundledPc'
<1> USE DEF BundledPc
<1>1. CASE UNCHANGED vars
  BY <1>1 DEF vars
<1>2. ASSUME Die PROVE BundledPc'
  BY <1>2 DEF Die, Quiet
<1>3. ASSUME NEW t \in Threads, Call(t) PROVE BundledPc'
  BY <1>3 DEF Call, Enter, Entry
<1>4. ASSUME NEW t \in Threads, Phase(t) PROVE BundledPc'
  BY <1>4 DEF Phase, ReadFlag, ShareData, LockData, LockFile, Looked, Edit,
     Throw, Edited, Truncate, CannotOpen, Dumped, Flush, Saved, Goto,
     Return
<1>5. ASSUME NEW t \in Threads, Transaction(t) PROVE BundledPc'
  BY <1>5 DEF Transaction, LockTx, Mark, LockData, TakeFile, LockFile,
     CallInTx, Process, UnlockFile, UnlockData, UnlockTx, Enter, Entry, Goto
<1> QED
  BY <1>1, <1>2, <1>3, <1>4, <1>5 DEF Next, Step, Crash,
     Terminate

\* Only the owner of transaction_mutex_ edits or saves, though its calls lock
\* nothing.
LEMMA BundledTxStep ==
  ASSUME Bundled, BundledPc, BundledPc', BundledTx, [Next]_vars
  PROVE  BundledTx'
<1> USE FreeIsNoThread DEF BundledPc, BundledTx
<1>1. CASE UNCHANGED vars
  BY <1>1 DEF vars, shared
<1>2. ASSUME Die PROVE BundledTx'
  BY <1>2 DEF Die, Quiet
<1>3. ASSUME NEW t \in Threads, Call(t) PROVE BundledTx'
  <2>1. PICK op \in Calls[t] :
           Enter(t, op, IF op = "transaction" THEN "begin" ELSE Entry(op))
    BY <1>3 DEF Call
  <2>2. op \in {"transaction", "find"}
    BY DEF Bundled
  <2>3. call'[t].op = op
    BY <2>1 DEF Enter, Arguments
  <2> QED
    BY <1>3, <2>1, <2>2, <2>3 DEF Call, Enter, Entry, shared
<1>4. ASSUME NEW t \in Threads, Phase(t) PROVE BundledTx'
  <2> USE DEF Goto, Return, shared
  <2>1. CASE \/ ReadFlag(t, "look", "lookLock", "looking")
             \/ ReadFlag(t, "edit", "editLock", "editing")
             \/ ReadFlag(t, "save", "saveLock", "writing")
             \/ ReadFlag(t, "dump", "dumpLock", "dumping")
    BY <2>1 DEF ReadFlag
  <2>2. CASE \/ ShareData(t, "lookLock", "looking")
             \/ ShareData(t, "dumpLock", "dumping")
             \/ LockData(t, "editLock", "editing")
             \/ LockFile(t, "saveLock", "writing")
    BY <2>2 DEF ShareData, LockData, LockFile
  <2>3. CASE Looked(t)
    BY <2>3 DEF Looked
  <2>4. CASE Edit(t) \/ Throw(t) \/ Edited(t)
    BY <2>4 DEF Edit, Throw, Edited
  <2>5. CASE Truncate(t) \/ CannotOpen(t) \/ Dumped(t) \/ Flush(t) \/ Saved(t)
    BY <2>5 DEF Truncate, CannotOpen, Dumped, Flush, Saved
  <2> QED
    BY <1>4, <2>1, <2>2, <2>3, <2>4, <2>5 DEF Phase
<1>5. ASSUME NEW t \in Threads, Transaction(t) PROVE BundledTx'
  <2> USE DEF Goto
  <2>1. CASE LockTx(t) \/ TakeFile(t) \/ LockData(t, "takeData", "takeFile")
    BY <2>1 DEF LockTx, TakeFile, LockFile, LockData
  <2>2. CASE \/ Mark(t, "mark", TRUE, "takeData")
             \/ Mark(t, "unmark", FALSE, "finish")
             \/ Mark(t, "failMark", FALSE, "idle")
    BY <2>2 DEF Mark
  <2>3. CASE CallInTx(t)
    BY <2>3 DEF CallInTx, Enter, Entry, shared
  <2>4. CASE Process(t)
    BY <2>4 DEF Process, shared
  <2>5. CASE \/ UnlockFile(t, "dropFile", "dropData")
             \/ UnlockData(t, "dropData", "unmark")
             \/ UnlockFile(t, "failFile", "failData")
             \/ UnlockData(t, "failData", "failTx")
    BY <2>5 DEF UnlockFile, UnlockData
  <2>6. CASE \/ UnlockTx(t, "finish", "idle")
             \/ UnlockTx(t, "failTx", "failMark")
    BY <2>6 DEF UnlockTx
  <2> QED
    BY <1>5, <2>1, <2>2, <2>3, <2>4, <2>5, <2>6 DEF Transaction
<1> QED
  BY <1>1, <1>2, <1>3, <1>4, <1>5 DEF Next, Step, Crash,
     Terminate

\* The dump of a transaction is still what is in memory when it is written.
LEMMA BundledFileStep ==
  ASSUME Bundled, BundledPc, BundledPc', BundledTx, BundledFile, [Next]_vars
  PROVE  BundledFile'
<1> USE FreeIsNoThread DEF BundledPc, BundledTx, BundledFile, Settled
<1>1. CASE UNCHANGED vars
  BY <1>1 DEF vars, store, shared, bounds
<1>2. ASSUME Die PROVE BundledFile'
  BY <1>2 DEF Die, Quiet
<1>3. ASSUME NEW t \in Threads, Call(t) PROVE BundledFile'
  BY <1>3 DEF Call, Enter, Entry, store, shared
<1>4. ASSUME NEW t \in Threads, Phase(t) PROVE BundledFile'
  <2> USE DEF Goto, Return, store, shared, bounds
  <2>1. CASE \/ ReadFlag(t, "look", "lookLock", "looking")
             \/ ReadFlag(t, "edit", "editLock", "editing")
             \/ ReadFlag(t, "save", "saveLock", "writing")
             \/ ReadFlag(t, "dump", "dumpLock", "dumping")
    BY <2>1 DEF ReadFlag
  <2>2. CASE \/ ShareData(t, "lookLock", "looking")
             \/ ShareData(t, "dumpLock", "dumping")
             \/ LockData(t, "editLock", "editing")
             \/ LockFile(t, "saveLock", "writing") /\ UNCHANGED bounds
    BY <2>2 DEF ShareData, LockData, LockFile
  <2>3. CASE Looked(t)
    BY <2>3 DEF Looked
  <2>4. CASE Edit(t)
    BY <2>4 DEF Edit
  <2>5. CASE Throw(t) \/ Edited(t)
    BY <2>5 DEF Throw, Edited
  <2>6. CASE Truncate(t)
    BY <2>6 DEF Truncate
  <2>7. CASE CannotOpen(t)
    BY <2>7 DEF CannotOpen
  <2>8. CASE Dumped(t)
    BY <2>8 DEF Dumped
  <2>9. CASE Flush(t)
    BY <2>9 DEF Flush
  <2>10. CASE Saved(t)
    BY <2>10 DEF Saved
  <2> QED
    BY <1>4, <2>1, <2>2, <2>3, <2>4, <2>5, <2>6, <2>7, <2>8, <2>9, <2>10
       DEF Phase
<1>5. ASSUME NEW t \in Threads, Transaction(t) PROVE BundledFile'
  <2> USE DEF Goto, store, bounds
  <2>1. CASE LockTx(t)
    BY <2>1 DEF LockTx
  <2>2. CASE LockData(t, "takeData", "takeFile")
    BY <2>2 DEF LockData
  <2>3. CASE \/ Mark(t, "mark", TRUE, "takeData")
             \/ Mark(t, "unmark", FALSE, "finish")
             \/ Mark(t, "failMark", FALSE, "idle")
    BY <2>3 DEF Mark
  <2>4. CASE TakeFile(t)
    BY <2>4 DEF TakeFile, LockFile
  <2>5. CASE CallInTx(t)
    BY <2>5 DEF CallInTx, Enter, Entry, shared
  <2>6. CASE Process(t)
    BY <2>6 DEF Process, shared
  <2>7. CASE \/ UnlockFile(t, "dropFile", "dropData")
             \/ UnlockFile(t, "failFile", "failData")
    BY <2>7 DEF UnlockFile
  <2>8. CASE \/ UnlockData(t, "dropData", "unmark")
             \/ UnlockData(t, "failData", "failTx")
    BY <2>8 DEF UnlockData
  <2>9. CASE \/ UnlockTx(t, "finish", "idle")
             \/ UnlockTx(t, "failTx", "failMark")
    BY <2>9 DEF UnlockTx
  <2> QED
    BY <1>5, <2>1, <2>2, <2>3, <2>4, <2>5, <2>6, <2>7, <2>8, <2>9
       DEF Transaction
<1> QED
  BY <1>1, <1>2, <1>3, <1>4, <1>5 DEF Next, Step, Crash,
     Terminate
-----------------------------------------------------------------------------
(* The invariant of a store, whichever way it is written.                   *)

IInv == (Single => SingleInv) /\ (Bundled => BundledInv)

\* The initial states satisfy the invariant.
LEMMA IInvInit == Init => IInv
  BY SingleInit, BundledInit DEF IInv

\* Every step, crashes included, preserves the invariant.
LEMMA IInvStep == IInv /\ [Next]_vars => IInv'
<1> SUFFICES ASSUME IInv, [Next]_vars PROVE IInv'
  OBVIOUS
<1>1. ASSUME Single PROVE SingleInv'
  <2>1. SinglePc /\ SingleLocks /\ SingleFile
    BY <1>1 DEF IInv, SingleInv
  <2>2. SinglePc'
    BY <1>1, <2>1, SinglePcStep
  <2> QED
    BY <1>1, <2>1, <2>2, SingleLocksStep, SingleFileStep DEF SingleInv
<1>2. ASSUME Bundled PROVE BundledInv'
  <2>1. BundledPc /\ BundledTx /\ BundledFile
    BY <1>2 DEF IInv, BundledInv
  <2>2. BundledPc'
    BY <1>2, <2>1, BundledPcStep
  <2> QED
    BY <1>2, <2>1, <2>2, BundledTxStep, BundledFileStep DEF BundledInv
<1> QED
  BY <1>1, <1>2 DEF IInv, Single, Bundled

\* The locks are held where the sections of the calls need them, and the file
\* lags behind data_ only while a save is under way: in all reachable states.
THEOREM Invariance == Spec => []IInv
  BY IInvInit, IInvStep, PTL DEF Spec

\* No thread changes data_ beside another that changes or dumps it; beside one
\* that looks through it only in a transaction.
THEOREM EditorsAreAlone == Spec => []EditorsAlone
<1>1. IInv => EditorsAlone
  <2>1. CASE Single
    BY <2>1, FreeIsNoThread DEF IInv, SingleInv, SingleLocks, EditorsAlone
  <2>2. CASE Bundled
    BY <2>2 DEF IInv, BundledInv, BundledTx, EditorsAlone
  <2> QED
    BY <2>1, <2>2, Styles
<1> QED
  BY <1>1, Invariance, PTL

\* No two threads have the file open for writing.
THEOREM FileHasOneWriter == Spec => []OneFileWriter
<1>1. IInv => OneFileWriter
  <2>1. CASE Single
    BY <2>1 DEF IInv, SingleInv, SingleLocks, OneFileWriter
  <2>2. CASE Bundled
    BY <2>2 DEF IInv, BundledInv, BundledTx, OneFileWriter
  <2> QED
    BY <2>1, <2>2, Styles
<1> QED
  BY <1>1, Invariance, PTL

\* When every change has been saved, the file holds the rows in memory.
THEOREM FileIsCurrent == Spec => []FileCatchesUp
<1>1. IInv => FileCatchesUp
  <2>1. CASE Single
    BY <2>1 DEF IInv, SingleInv, SingleFile, FileCatchesUp, Dumpers, Flushers
  <2>2. CASE Bundled
    BY <2>2, FreeIsNoThread DEF IInv, BundledInv, BundledFile, FileCatchesUp
  <2> QED
    BY <2>1, <2>2, Styles
<1> QED
  BY <1>1, Invariance, PTL
-----------------------------------------------------------------------------
(* Types.  The rows need more than TypeOK says of them: that the ids have a *)
(* greatest one.                                                            *)

Store(d) == IsStore(d, Values)

StoreType ==
    /\ Store(data) /\ Store(committed)
    /\ file = Torn \/ Store(file)
    /\ text = [t \in Threads |-> text[t]]
    /\ \A t \in Threads : Store(text[t])

LockType ==
    /\ {started, unsaved, alive} \subseteq BOOLEAN
    /\ {dataWriter, fileOwner, txOwner} \subseteq Threads \cup {Free, Lost}
    /\ dataReaders \subseteq Threads

CallsType == pc \in [Threads -> Places] /\ call \in [Threads -> CallType]

BoundType ==
    /\ left \in 0..MaxCalls /\ body \in 0..MaxBody
    /\ failures \in 0..MaxFailures /\ crashes \in 0..MaxCrashes

TypeInv == StoreType /\ LockType /\ CallsType /\ BoundType

\* The record of an idle thread is a call.
LEMMA NoCallType == NoCall \in CallType
  BY TableAssumption DEF NoCall, CallType, Kinds

\* The arguments offered to a caller make calls.
LEMMA ArgumentsType ==
  ASSUME Store(data), NEW op \in Kinds PROVE Arguments(op) \subseteq CallType
<1>1. DOMAIN data \subseteq Nat
  BY DEF Store, IsStore, IsTable
<1> QED
  BY <1>1, NoCallType DEF Arguments, CallType

\* The initial states have the types.
LEMMA TypeInit == Init => TypeInv
<1> SUFFICES ASSUME Init PROVE TypeInv
  OBVIOUS
<1>1. Store(Empty)
  BY EmptyIsStore DEF Store
<1>2. StoreType
  BY <1>1 DEF Init, StoreType, Store
<1>3. LockType
  BY DEF Init, LockType
<1>4. BoundType
  <2>1. {MaxCalls, MaxBody, MaxFailures, MaxCrashes} \subseteq Nat
    BY TableAssumption
  <2> QED
    BY <2>1 DEF Init, BoundType
<1>5. CallsType
  BY NoCallType DEF Init, CallsType, Quiet
<1> QED
  BY <1>2, <1>3, <1>4, <1>5 DEF TypeInv

\* Every change makes a store of a store.
LEMMA AfterIsStore ==
  ASSUME Store(data), NEW c \in CallType PROVE Store(After(data, c))
<1>1. c.val \in Values
  BY DEF CallType
<1>2. /\ Store(Inserted(data, c.val)) /\ Store(Replaced(data, c.id, c.val))
      /\ Store(Without(data, {c.id}))
      /\ Store(Without(data, {i \in DOMAIN data : data[i] # c.val}))
      /\ Store(Empty)
  BY <1>1, InsertedIsStore, ReplacedIsStore, WithoutIsStore, EmptyIsStore
     DEF Store
<1> QED
  BY <1>2 DEF After

\* The rows in memory, in the file and in the dumps stay stores.
LEMMA StoreTypeStep ==
  ASSUME TypeInv, [Next]_vars PROVE StoreType'
<1> USE DEF StoreType
<1>0. StoreType /\ CallsType /\ Store(Empty)
  BY EmptyIsStore DEF TypeInv, Store
<1>1. ASSUME UNCHANGED <<store, text>> PROVE StoreType'
  BY <1>0, <1>1 DEF store, Store
<1>2. CASE UNCHANGED vars
  BY <1>1, <1>2 DEF vars
<1>3. ASSUME Die PROVE StoreType'
  BY <1>0, <1>3 DEF Die, Store
<1>4. ASSUME NEW t \in Threads, Call(t) PROVE StoreType'
  BY <1>1, <1>4 DEF Call
<1>5. ASSUME NEW t \in Threads, Phase(t) PROVE StoreType'
  <2>1. CASE Edit(t)
    <3>1. call[t] \in CallType
      BY <1>0 DEF CallsType
    <3>2. Store(After(data, call[t]))
      BY <1>0, <3>1, AfterIsStore
    <3>3. Store(data')
      BY <2>1, <3>2 DEF Edit
    <3>4. Store(committed')
      BY <1>0, <2>1, <3>3 DEF Edit
    <3> QED
      BY <1>0, <2>1, <3>3, <3>4 DEF Edit, Store
  <2>2. CASE Truncate(t)
    BY <1>0, <2>2 DEF Truncate, Store
  <2>3. CASE CannotOpen(t)
    BY <1>0, <2>3 DEF CannotOpen, Store
  <2>4. CASE Dumped(t)
    BY <1>0, <2>4 DEF Dumped, store, Store
  <2>5. CASE Flush(t)
    BY <1>0, <2>5 DEF Flush, Store
  <2>6. CASE /\ ~Edit(t) /\ ~Truncate(t) /\ ~CannotOpen(t)
             /\ ~Dumped(t) /\ ~Flush(t)
    BY <1>1, <1>5, <2>6 DEF Phase, ReadFlag, ShareData, LockData, LockFile,
       Looked, Throw, Edited, Saved
  <2> QED
    BY <2>1, <2>2, <2>3, <2>4, <2>5, <2>6
<1>6. ASSUME NEW t \in Threads, Transaction(t) PROVE StoreType'
  <2>1. CASE Process(t)
    BY <1>0, <2>1 DEF Process, Store
  <2>2. CASE ~Process(t)
    BY <1>1, <1>6, <2>2 DEF Transaction, LockTx, Mark, LockData, TakeFile,
       LockFile, CallInTx, UnlockFile, UnlockData, UnlockTx
  <2> QED
    BY <2>1, <2>2
<1> QED
  BY <1>2, <1>3, <1>4, <1>5, <1>6 DEF Next, Step, Crash,
     Terminate

\* The mutexes belong to threads or to nobody.
LEMMA LockTypeStep ==
  ASSUME TypeInv, [Next]_vars PROVE LockType'
<1> USE DEF LockType, shared
<1>0. LockType
  BY DEF TypeInv
<1>1. CASE UNCHANGED vars
  BY <1>0, <1>1 DEF vars, store, bounds
<1>2. ASSUME Die PROVE LockType'
  BY <1>0, <1>2 DEF Die
<1>3. ASSUME NEW t \in Threads, Call(t) PROVE LockType'
  BY <1>0, <1>3 DEF Call, store
<1>4. ASSUME NEW t \in Threads, Phase(t) PROVE LockType'
  <2> USE DEF store, bounds, Unlocked
  <2>1. CASE CannotOpen(t)
    BY <1>0, <2>1 DEF CannotOpen
  <2>2. CASE ~CannotOpen(t) /\ ~Edit(t) /\ ~Flush(t) /\ ~Saved(t)
    BY <1>0, <1>4, <2>2 DEF Phase, ReadFlag, ShareData, LockData, LockFile,
       Looked, Throw, Edited, Truncate, Dumped
  <2>3. CASE Edit(t)
    BY <1>0, <2>3 DEF Edit
  <2>4. CASE Flush(t)
    BY <1>0, <2>4 DEF Flush
  <2>5. CASE Saved(t)
    BY <1>0, <2>5 DEF Saved
  <2> QED
    BY <2>1, <2>2, <2>3, <2>4, <2>5
<1>5. ASSUME NEW t \in Threads, Transaction(t) PROVE LockType'
  BY <1>0, <1>5 DEF Transaction, LockTx, Mark, LockData, TakeFile, LockFile,
     CallInTx, Process, UnlockFile, UnlockData, UnlockTx, store, bounds
<1> QED
  BY <1>1, <1>2, <1>3, <1>4, <1>5 DEF Next, Step, Crash,
     Terminate

\* A call that begins is a call.
LEMMA EnterType ==
  ASSUME Store(data), CallsType, NEW t \in Threads, NEW op \in Kinds,
         NEW place \in Places, Enter(t, op, place)
  PROVE  CallsType'
BY ArgumentsType DEF Enter, CallsType

\* Every thread is at a place, in a call.
LEMMA CallsTypeStep ==
  ASSUME TypeInv, [Next]_vars PROVE CallsType'
<1>0. CallsType /\ Store(data) /\ NoCall \in CallType
  BY NoCallType DEF TypeInv, StoreType
<1>1. CASE UNCHANGED vars
  BY <1>0, <1>1 DEF vars, CallsType
<1>2. ASSUME Die PROVE CallsType'
  BY <1>0, <1>2 DEF Die, Quiet, CallsType
<1>3. ASSUME NEW t \in Threads, Call(t) PROVE CallsType'
  <2>1. PICK op \in Calls[t] :
           Enter(t, op, IF op = "transaction" THEN "begin" ELSE Entry(op))
    BY <1>3 DEF Call
  <2>2. op \in Kinds
    BY TableAssumption
  <2>3. (IF op = "transaction" THEN "begin" ELSE Entry(op)) \in Places
    BY DEF Entry
  <2> QED
    BY <1>0, <2>1, <2>2, <2>3, EnterType
<1>4. ASSUME NEW t \in Threads, NEW place \in Places, Goto(t, place)
      PROVE  CallsType'
  BY <1>0, <1>4 DEF Goto, CallsType
<1>5. ASSUME NEW t \in Threads, Return(t) PROVE CallsType'
  BY <1>4, <1>5 DEF Return
<1>6. ASSUME NEW t \in Threads, Phase(t) PROVE CallsType'
  BY <1>4, <1>5, <1>6 DEF Phase, ReadFlag, ShareData, LockData, LockFile,
     Looked, Edit, Throw, Edited, Truncate, CannotOpen, Dumped, Flush,
     Saved
<1>7. ASSUME NEW t \in Threads, Transaction(t) PROVE CallsType'
  <2>1. CASE CallInTx(t)
    <3>1. PICK op \in Edits : Enter(t, op, Entry(op))
      BY <2>1 DEF CallInTx
    <3>2. op \in Kinds /\ Entry(op) \in Places
      BY DEF Kinds, Entry
    <3> QED
      BY <1>0, <3>1, <3>2, EnterType
  <2>2. CASE ~CallInTx(t)
    BY <1>4, <1>7, <2>2 DEF Transaction, LockTx, Mark, LockData, TakeFile,
       LockFile, Process, UnlockFile, UnlockData, UnlockTx
  <2> QED
    BY <2>1, <2>2
<1> QED
  BY <1>1, <1>2, <1>3, <1>6, <1>7 DEF Next, Step, Crash,
     Terminate

\* The counters stay within their bounds.
LEMMA BoundTypeStep ==
  ASSUME TypeInv, [Next]_vars PROVE BoundType'
<1> USE TableAssumption DEF BoundType, bounds
<1>0. BoundType
  BY DEF TypeInv
<1>1. CASE UNCHANGED vars
  BY <1>0, <1>1 DEF vars
<1>2. CASE Crash
  BY <1>0, <1>2 DEF Crash, Die
<1>3. ASSUME NEW t \in Threads, Call(t) PROVE BoundType'
  BY <1>0, <1>3 DEF Call
<1>4. ASSUME NEW t \in Threads, Phase(t) PROVE BoundType'
  BY <1>0, <1>4 DEF Phase, ReadFlag, ShareData, LockData, LockFile, Looked,
     Edit, Throw, Edited, Truncate, CannotOpen, Dumped, Flush, Saved
<1>5. ASSUME NEW t \in Threads, Transaction(t) PROVE BoundType'
  BY <1>0, <1>5 DEF Transaction, LockTx, Mark, LockData, TakeFile, LockFile,
     CallInTx, Process, UnlockFile, UnlockData, UnlockTx
<1>6. ASSUME NEW t \in Threads, Terminate(t) PROVE BoundType'
  BY <1>0, <1>6 DEF Terminate, Die
<1> QED
  BY <1>1, <1>2, <1>3, <1>4, <1>5, <1>6 DEF Next, Step

\* The strengthened type invariant holds in all reachable states.
LEMMA TypeInvariance == Spec => []TypeInv
<1>1. TypeInv /\ [Next]_vars => TypeInv'
  BY StoreTypeStep, LockTypeStep, CallsTypeStep, BoundTypeStep DEF TypeInv
<1> QED
  BY <1>1, TypeInit, PTL DEF Spec

\* Rows, locks, calls and bounds keep their types; in particular Create always
\* has an id to give.
THEOREM TypeCorrectness == Spec => []TypeOK
<1>1. TypeInv => TypeOK
  BY DEF TypeInv, StoreType, LockType, CallsType, BoundType, TypeOK, Store,
     IsStore
<1> QED
  BY <1>1, TypeInvariance, PTL
-----------------------------------------------------------------------------
(* The store implements the atomic one.                                     *)

\* What the invariants above say of any store, whichever way it is written.
Discipline ==
    /\ pc \in [Threads -> Places] /\ call \in [Threads -> CallType]
    /\ text = [t \in Threads |-> text[t]]
    /\ txOwner \in Threads \cup {Free, Lost} /\ failures \in Nat
    /\ OneFileWriter
    /\ \A t \in Threads :
          /\ pc[t] \in InTx => txOwner = t
          /\ pc[t] \in Editing \cup Saving => txOwner \in {t, Free}

\* Where the owner of a transaction may have changes that are not committed.
Unfinished == {"body"} \cup Looking \cup Editing

\* While a transaction makes its changes, transaction_started_ is set: so its
\* calls leave the saving to it.  A failed transaction clears the flag after
\* it let the next one in, which is why two threads may not both begin
\* transactions that can fail.
FlagInv ==
    \A t \in Threads :
       /\ pc[t] \in InTx \cup {"begin", "failMark"} \/ txOwner = t
          => Transactional(t)
       /\ pc[t] \in {"failFile", "failData", "failTx", "failMark"}
          => MaxFailures # 0
       /\ txOwner = t => pc[t] \in InTx \cup Looking \cup Editing \cup Saving
       /\ txOwner = t /\ pc[t] \in {"takeData", "takeFile"} \cup Unfinished
          => started

\* The file is torn from its truncation to the end of the write.
TornInv ==
    \A t \in Threads :
       pc[t] \in {"dump", "dumpLock", "dumping", "flush"} => file = Torn

\* Only a transaction under way has changes that are not committed.
CommitInv ==
    txOwner # Lost /\ (\A t \in Threads : txOwner = t => pc[t] \notin Unfinished)
    => committed = data

\* The invariants above imply the discipline.
LEMMA DisciplineHolds == IInv /\ TypeInv => Discipline
<1> SUFFICES ASSUME IInv, TypeInv PROVE Discipline
  OBVIOUS
<1>1. /\ pc \in [Threads -> Places] /\ call \in [Threads -> CallType]
      /\ text = [t \in Threads |-> text[t]]
      /\ txOwner \in Threads \cup {Free, Lost} /\ failures \in Nat
  BY TableAssumption DEF TypeInv, CallsType, StoreType, LockType, BoundType
<1>2. CASE Single
  <2>1. OneFileWriter
    BY <1>2 DEF IInv, SingleInv, SingleLocks, OneFileWriter
  <2>2. \A t \in Threads : pc[t] \notin InTx /\ txOwner = Free
    BY <1>2 DEF IInv, SingleInv, SinglePc
  <2> QED
    BY <1>1, <2>1, <2>2 DEF Discipline
<1>3. CASE Bundled
  <2>1. OneFileWriter
    BY <1>3 DEF IInv, BundledInv, BundledTx, OneFileWriter
  <2> QED
    BY <1>1, <1>3, <2>1 DEF Discipline, IInv, BundledInv, BundledTx
<1> QED
  BY <1>2, <1>3, Styles

\* Of two threads that begin transactions, none can fail.
LEMMA FailAlone ==
  ASSUME NEW t \in Threads, NEW u \in Threads, Transactional(t),
         Transactional(u), MaxFailures # 0
  PROVE  t = u
BY OneStyle

\* The flag stays set while a transaction makes its changes.
LEMMA FlagStep ==
  ASSUME Discipline, Discipline', FlagInv, [Next]_vars PROVE FlagInv'
<1> USE FreeIsNoThread DEF Discipline, FlagInv, Unfinished
<1>1. CASE UNCHANGED vars
  BY <1>1 DEF vars, shared
<1>2. ASSUME Die PROVE FlagInv'
  BY <1>2 DEF Die, Quiet
<1>3. ASSUME NEW t \in Threads, Call(t) PROVE FlagInv'
  <2>1. PICK op \in Calls[t] :
           Enter(t, op, IF op = "transaction" THEN "begin" ELSE Entry(op))
    BY <1>3 DEF Call
  <2> QED
    BY <1>3, <2>1 DEF Call, Enter, Entry, shared, Transactional
<1>4. ASSUME NEW t \in Threads, Phase(t) PROVE FlagInv'
  <2> USE DEF Goto, Return, shared
  <2>1. CASE \/ ReadFlag(t, "look", "lookLock", "looking")
             \/ ReadFlag(t, "edit", "editLock", "editing")
             \/ ReadFlag(t, "save", "saveLock", "writing")
             \/ ReadFlag(t, "dump", "dumpLock", "dumping")
    BY <2>1 DEF ReadFlag
  <2>2. CASE \/ ShareData(t, "lookLock", "looking")
             \/ ShareData(t, "dumpLock", "dumping")
             \/ LockData(t, "editLock", "editing")
             \/ LockFile(t, "saveLock", "writing")
    BY <2>2 DEF ShareData, LockData, LockFile
  <2>3. CASE Looked(t)
    BY <2>3 DEF Looked
  <2>4. CASE Edit(t) \/ Throw(t) \/ Edited(t)
    BY <2>4 DEF Edit, Throw, Edited
  <2>5. CASE CannotOpen(t)
    <3>1. MaxFailures # 0
      BY <2>5 DEF CannotOpen
    <3> QED
      BY <2>5, <3>1 DEF CannotOpen
  <2>6. CASE Truncate(t) \/ Dumped(t) \/ Flush(t) \/ Saved(t)
    BY <2>6 DEF Truncate, Dumped, Flush, Saved
  <2> QED
    BY <1>4, <2>1, <2>2, <2>3, <2>4, <2>5, <2>6 DEF Phase
<1>5. ASSUME NEW t \in Threads, Transaction(t) PROVE FlagInv'
  <2> USE DEF Goto
  <2>1. CASE LockTx(t) \/ TakeFile(t) \/ LockData(t, "takeData", "takeFile")
    BY <2>1 DEF LockTx, TakeFile, LockFile, LockData
  <2>2. CASE \/ Mark(t, "mark", TRUE, "takeData")
             \/ Mark(t, "unmark", FALSE, "finish")
    BY <2>2 DEF Mark
  <2>3. CASE Mark(t, "failMark", FALSE, "idle")
    <3>1. \A u \in Threads : txOwner # u
      BY <2>3, FailAlone DEF Mark
    <3> QED
      BY <2>3, <3>1 DEF Mark
  <2>4. CASE CallInTx(t)
    BY <2>4 DEF CallInTx, Enter, Entry, shared
  <2>5. CASE Process(t)
    BY <2>5 DEF Process, shared
  <2>6. CASE \/ UnlockFile(t, "dropFile", "dropData")
             \/ UnlockData(t, "dropData", "unmark")
             \/ UnlockFile(t, "failFile", "failData")
             \/ UnlockData(t, "failData", "failTx")
    BY <2>6 DEF UnlockFile, UnlockData
  <2>7. CASE \/ UnlockTx(t, "finish", "idle")
             \/ UnlockTx(t, "failTx", "failMark")
    BY <2>7 DEF UnlockTx
  <2> QED
    BY <1>5, <2>1, <2>2, <2>3, <2>4, <2>5, <2>6, <2>7 DEF Transaction
<1> QED
  BY <1>1, <1>2, <1>3, <1>4, <1>5 DEF Next, Step, Crash, Terminate

\* Only the thread that has the file open ends the time it is torn.
LEMMA TornStep ==
  ASSUME Discipline, TornInv, [Next]_vars PROVE TornInv'
<1> USE DEF Discipline, TornInv
<1>1. CASE UNCHANGED vars
  BY <1>1 DEF vars, store
<1>2. ASSUME Die PROVE TornInv'
  BY <1>2 DEF Die, Quiet
<1>3. ASSUME NEW t \in Threads, Call(t) PROVE TornInv'
  BY <1>3 DEF Call, Enter, Entry, store
<1>4. ASSUME NEW t \in Threads, Phase(t) PROVE TornInv'
  <2> USE DEF Goto, Return, store
  <2>1. CASE Flush(t)
    BY <2>1 DEF Flush, OneFileWriter
  <2>2. CASE Truncate(t) \/ Edit(t) \/ CannotOpen(t)
    BY <2>2 DEF Truncate, Edit, CannotOpen
  <2>3. CASE \/ ReadFlag(t, "look", "lookLock", "looking")
             \/ ReadFlag(t, "edit", "editLock", "editing")
             \/ ReadFlag(t, "save", "saveLock", "writing")
             \/ ReadFlag(t, "dump", "dumpLock", "dumping")
             \/ ShareData(t, "lookLock", "looking")
             \/ ShareData(t, "dumpLock", "dumping")
             \/ LockData(t, "editLock", "editing")
             \/ LockFile(t, "saveLock", "writing")
    BY <2>3 DEF ReadFlag, ShareData, LockData, LockFile
  <2>4. CASE Looked(t) \/ Throw(t) \/ Edited(t) \/ Dumped(t) \/ Saved(t)
    BY <2>4 DEF Looked, Throw, Edited, Dumped, Saved
  <2> QED
    BY <1>4, <2>1, <2>2, <2>3, <2>4 DEF Phase
<1>5. ASSUME NEW t \in Threads, Transaction(t) PROVE TornInv'
  BY <1>5 DEF Transaction, LockTx, Mark, LockData, TakeFile, LockFile,
     CallInTx, Process, UnlockFile, UnlockData, UnlockTx, Enter, Entry, Goto,
     store
<1> QED
  BY <1>1, <1>2, <1>3, <1>4, <1>5 DEF Next, Step, Crash, Terminate

\* A transaction leaves its body only by committing.
LEMMA CommitStep ==
  ASSUME Discipline, FlagInv, CommitInv, [Next]_vars PROVE CommitInv'
<1> USE FreeIsNoThread DEF Discipline, CommitInv, Unfinished
<1>1. CASE UNCHANGED vars
  BY <1>1 DEF vars, store, shared
<1>2. ASSUME Die PROVE CommitInv'
  BY <1>2 DEF Die
<1>3. ASSUME NEW t \in Threads, Call(t) PROVE CommitInv'
  BY <1>3 DEF Call, Enter, store, shared
<1>4. ASSUME NEW t \in Threads, Phase(t) PROVE CommitInv'
  <2> USE DEF Goto, Return, store, shared
  <2>1. CASE \/ ReadFlag(t, "look", "lookLock", "looking")
             \/ ReadFlag(t, "edit", "editLock", "editing")
             \/ ReadFlag(t, "save", "saveLock", "writing")
             \/ ReadFlag(t, "dump", "dumpLock", "dumping")
    BY <2>1 DEF ReadFlag
  <2>2. CASE \/ ShareData(t, "lookLock", "looking")
             \/ ShareData(t, "dumpLock", "dumping")
             \/ LockData(t, "editLock", "editing")
             \/ LockFile(t, "saveLock", "writing")
    BY <2>2 DEF ShareData, LockData, LockFile
  <2>3. CASE Looked(t) \/ Throw(t)
    BY <2>3 DEF Looked, Throw
  <2>4. CASE Edit(t)
    BY <2>4 DEF Edit
  <2>5. CASE Edited(t)
    BY <2>5 DEF Edited, FlagInv
  <2>6. CASE Truncate(t) \/ CannotOpen(t) \/ Dumped(t) \/ Flush(t) \/ Saved(t)
    BY <2>6 DEF Truncate, CannotOpen, Dumped, Flush, Saved
  <2> QED
    BY <1>4, <2>1, <2>2, <2>3, <2>4, <2>5, <2>6 DEF Phase
<1>5. ASSUME NEW t \in Threads, Transaction(t) PROVE CommitInv'
  <2> USE DEF Goto, store
  <2>1. CASE CallInTx(t) \/ Process(t)
    BY <2>1 DEF CallInTx, Process, Enter, Entry, shared
  <2>2. CASE ~CallInTx(t) /\ ~Process(t)
    BY <1>5, <2>2 DEF Transaction, LockTx, Mark, LockData, TakeFile, LockFile,
       UnlockFile, UnlockData, UnlockTx
  <2> QED
    BY <2>1, <2>2
<1> QED
  BY <1>1, <1>2, <1>3, <1>4, <1>5 DEF Next, Step, Crash, Terminate

RefInv == IInv /\ TypeInv /\ FlagInv /\ TornInv /\ CommitInv

\* The flag, the torn file and the commits are as described, all together and
\* in all reachable states.
LEMMA RefInvariance == Spec => []RefInv
<1>1. Init => FlagInv /\ TornInv /\ CommitInv
  BY FreeIsNoThread DEF Init, Quiet, FlagInv, TornInv, CommitInv
<1>2. /\ Discipline /\ Discipline' /\ FlagInv /\ TornInv /\ CommitInv
      /\ [Next]_vars
      => FlagInv' /\ TornInv' /\ CommitInv'
  BY FlagStep, TornStep, CommitStep
<1> QED
  BY <1>1, <1>2, DisciplineHolds, Invariance, TypeInvariance, PTL
     DEF Spec, RefInv

\* The operators of module Rows mean the same in the atomic table.
LEMMA SameRows ==
  ASSUME NEW d, NEW v
  PROVE  /\ Abstract!Inserted(d, v) = Inserted(d, v)
         /\ \A i : Abstract!Replaced(d, i, v) = Replaced(d, i, v)
         /\ \A ids : Abstract!Without(d, ids) = Without(d, ids)
         /\ Abstract!Empty = Empty
<1>1. Abstract!Max(DOMAIN d) = Max(DOMAIN d)
  BY DEF Max, Abstract!Max
<1>2. Abstract!NextId(d) = NextId(d)
  BY <1>1 DEF NextId, Abstract!NextId
<1>3. Abstract!Inserted(d, v) = Inserted(d, v)
  BY <1>2 DEF Inserted, Abstract!Inserted
<1>4. \A i : Abstract!Replaced(d, i, v) = Replaced(d, i, v)
  BY DEF Replaced, Abstract!Replaced
<1>5. \A ids : Abstract!Without(d, ids) = Without(d, ids)
  BY DEF Without, Abstract!Without, Restrict, Abstract!Restrict
<1>6. Abstract!Empty = Empty
  BY DEF Empty, Abstract!Empty
<1> QED
  BY <1>3, <1>4, <1>5, <1>6

\* What a call does to the rows is one change of the atomic table.
LEMMA AfterIsChange ==
  ASSUME NEW d, NEW c \in CallType, c.op = "update" => c.id \in DOMAIN d
  PROVE  After(d, c) \in Abstract!Changed(d)
<1>1. c.val \in Values
  BY DEF CallType
<1>2. CASE c.op = "create"
  <2>1. Inserted(d, c.val) \in {Abstract!Inserted(d, v) : v \in Values}
    BY <1>1, SameRows
  <2> QED
    BY <1>2, <2>1 DEF After, Abstract!Changed
<1>3. CASE c.op = "update"
  <2>1. Replaced(d, c.id, c.val)
          \in {Abstract!Replaced(d, i, v) : i \in DOMAIN d, v \in Values}
    BY <1>1, <1>3, SameRows
  <2> QED
    BY <1>3, <2>1 DEF After, Abstract!Changed
<1>4. ASSUME NEW ids, After(d, c) = Without(d, ids)
      PROVE  After(d, c) \in Abstract!Changed(d)
  <2> DEFINE there == ids \cap DOMAIN d
  <2>1. Without(d, ids) = Without(d, there)
    <3>1. DOMAIN d \ ids = DOMAIN d \ there
      OBVIOUS
    <3> QED
      BY <3>1 DEF Without
  <2>2. Without(d, there) \in {Abstract!Without(d, i) : i \in SUBSET DOMAIN d}
    BY SameRows
  <2> QED
    BY <1>4, <2>1, <2>2 DEF Abstract!Changed
<1>5. CASE c.op = "delete"
  BY <1>4, <1>5 DEF After
<1>6. CASE c.op = "expire"
  BY <1>4, <1>6 DEF After
<1>7. CASE c.op \notin {"create", "update", "delete", "expire"}
  <2>1. Without(d, DOMAIN d) = Empty
    <3>1. DOMAIN d \ DOMAIN d = {}
      OBVIOUS
    <3> QED
      BY <3>1 DEF Without, Restrict, Empty
  <2> QED
    BY <1>4, <1>7, <2>1 DEF After
<1> QED
  BY <1>2, <1>3, <1>5, <1>6, <1>7

\* A store that starts is the atomic store that starts.
LEMMA AbstractInit == Init => Abstract!Init
<1> SUFFICES ASSUME Init PROVE Abstract!Init
  OBVIOUS
<1>1. Pending = {}
  BY DEF Init, Quiet, Pending
<1>2. Abstract!Empty = Empty
  BY DEF Empty, Abstract!Empty
<1> QED
  BY <1>1, <1>2 DEF Init, Abstract!Init

\* A step that changes none of what is in memory and in the file, and no dump
\* that waits to be written, is none of the atomic store.
LEMMA StutterStep ==
  ASSUME Discipline, NEW t \in Threads, pc[t] # "flush", pc'[t] # "flush",
         \E place : pc' = [pc EXCEPT ![t] = place], text' = text,
         UNCHANGED <<data, file, committed>>,
         (txOwner' # Free) = (txOwner # Free)
  PROVE  UNCHANGED Abstract!vars
<1>1. Pending' = Pending
  BY DEF Pending, Discipline
<1> QED
  BY <1>1 DEF Abstract!vars

\* The steps of a call, inside a transaction or outside.
LEMMA PhaseRefines ==
  ASSUME RefInv, RefInv', NEW t \in Threads, Phase(t)
  PROVE  Abstract!Next \/ UNCHANGED Abstract!vars
<1> USE DEF Goto, Return
<1>0. Discipline /\ pc \in [Threads -> Places]
  BY DisciplineHolds DEF RefInv, Discipline
<1>1. CASE \/ ReadFlag(t, "look", "lookLock", "looking")
           \/ ReadFlag(t, "edit", "editLock", "editing")
           \/ ReadFlag(t, "save", "saveLock", "writing")
           \/ ReadFlag(t, "dump", "dumpLock", "dumping")
  BY <1>0, <1>1, StutterStep DEF ReadFlag, store, shared
<1>2. CASE \/ ShareData(t, "lookLock", "looking")
           \/ ShareData(t, "dumpLock", "dumping")
           \/ LockData(t, "editLock", "editing")
           \/ LockFile(t, "saveLock", "writing") /\ UNCHANGED bounds
  BY <1>0, <1>2, StutterStep DEF ShareData, LockData, LockFile, store
<1>3. CASE Looked(t) \/ Throw(t) \/ Edited(t) \/ Saved(t) \/ CannotOpen(t)
  <2>1. pc[t] # "flush" /\ pc'[t] # "flush"
    BY <1>0, <1>3 DEF Looked, Throw, Edited, Saved, CannotOpen
  <2>2. \E place : pc' = [pc EXCEPT ![t] = place]
    BY <1>3 DEF Looked, Throw, Edited, Saved, CannotOpen
  <2>3. /\ UNCHANGED <<data, file, committed, text>>
        /\ (txOwner' # Free) = (txOwner # Free)
    BY <1>3, FreeIsNoThread DEF Looked, Throw, Edited, Saved, CannotOpen, store
  <2> QED
    BY <1>0, <2>1, <2>2, <2>3, StutterStep
<1>4. CASE Edit(t)
  <2>1. call[t] \in CallType
    BY <1>0 DEF Discipline
  <2>2. data' \in Abstract!Changed(data)
    BY <1>4, <2>1, AfterIsChange DEF Edit, RowGone
  <2>3. Pending' = Pending
    BY <1>0, <1>4 DEF Edit, Pending, Discipline
  <2>4. CASE txOwner = Free
    BY <1>4, <2>2, <2>3, <2>4 DEF Edit, shared, Abstract!Next, Abstract!Change
  <2>5. CASE txOwner # Free
    BY <1>4, <2>2, <2>3, <2>5 DEF Edit, shared, Abstract!Next, Abstract!Draft
  <2> QED
    BY <2>4, <2>5
<1>5. CASE Truncate(t)
  <2>1. Pending' = Pending
    BY <1>0, <1>5 DEF Truncate, Pending, Discipline
  <2> QED
    BY <1>5, <2>1 DEF Truncate, shared, Abstract!Next, Abstract!Tear
<1>6. CASE Dumped(t)
  <2>1. \A u \in Threads : pc[u] # "flush"
    BY <1>0, <1>6 DEF Dumped, Discipline, OneFileWriter
  <2>2. Pending = {}
    BY <2>1 DEF Pending
  <2>3. {u \in Threads : pc'[u] = "flush"} = {t}
    BY <1>0, <1>6, <2>1 DEF Dumped
  <2>4. text'[t] = data
    BY <1>0, <1>6 DEF Dumped, Discipline
  <2>5. Pending' = {data}
    BY <2>3, <2>4 DEF Pending
  <2>6. committed = data
    <3>1. txOwner \in {t, Free}
      BY <1>0, <1>6 DEF Dumped, Discipline
    <3> QED
      BY <1>6, <3>1, FreeIsNoThread
         DEF Dumped, RefInv, CommitInv, Unfinished
  <2>7. file = Torn
    BY <1>6 DEF Dumped, RefInv, TornInv
  <2> QED
    BY <1>6, <2>2, <2>5, <2>6, <2>7
       DEF Dumped, store, Abstract!Next, Abstract!Dump
<1>7. CASE Flush(t)
  <2>1. text[t] \in Pending
    BY <1>7 DEF Flush, Pending
  <2>2. \A u \in Threads : pc'[u] # "flush"
    BY <1>0, <1>7 DEF Flush, Discipline, OneFileWriter
  <2>3. Pending' = {}
    BY <2>2 DEF Pending
  <2> QED
    BY <1>7, <2>1, <2>3 DEF Flush, shared, Abstract!Next, Abstract!Save
<1> QED
  BY <1>1, <1>2, <1>3, <1>4, <1>5, <1>6, <1>7 DEF Phase

\* The steps that begin, end and commit a transaction.
LEMMA TransactionRefines ==
  ASSUME RefInv, RefInv', NEW t \in Threads, Transaction(t)
  PROVE  Abstract!Next \/ UNCHANGED Abstract!vars
<1> USE FreeIsNoThread DEF Goto
<1>0. Discipline /\ pc \in [Threads -> Places]
  BY DisciplineHolds DEF RefInv, Discipline
<1>1. CASE LockTx(t)
  <2>1. Pending' = Pending
    BY <1>0, <1>1 DEF LockTx, Pending, store
  <2> QED
    BY <1>1, <2>1 DEF LockTx, store, Abstract!Next, Abstract!Begin
<1>2. CASE \/ UnlockTx(t, "finish", "idle")
           \/ UnlockTx(t, "failTx", "failMark")
  <2>1. Pending' = Pending
    BY <1>0, <1>2 DEF UnlockTx, Pending, store
  <2>2. txOwner = t
    BY <1>0, <1>2 DEF UnlockTx, Discipline
  <2>3. committed = data
    BY <1>2, <2>2 DEF UnlockTx, RefInv, CommitInv, Unfinished
  <2> QED
    BY <1>2, <2>1, <2>2, <2>3 DEF UnlockTx, store, Abstract!Next, Abstract!End
<1>3. CASE Process(t)
  <2>1. Pending' = Pending
    BY <1>0, <1>3 DEF Process, Pending
  <2>2. txOwner = t
    BY <1>0, <1>3 DEF Process, Discipline
  <2> QED
    BY <1>3, <2>1, <2>2 DEF Process, shared, Abstract!Next, Abstract!Commit
<1>4. CASE CallInTx(t)
  BY <1>0, <1>4, StutterStep DEF CallInTx, Enter, Entry, store, shared
<1>5. CASE /\ ~LockTx(t) /\ ~Process(t) /\ ~CallInTx(t)
           /\ ~UnlockTx(t, "finish", "idle")
           /\ ~UnlockTx(t, "failTx", "failMark")
  <2>1. pc[t] # "flush" /\ pc'[t] # "flush"
    BY <1>0, <1>5 DEF Transaction, Mark, LockData, TakeFile, LockFile,
       UnlockFile, UnlockData
  <2>2. \E place : pc' = [pc EXCEPT ![t] = place]
    BY <1>5 DEF Transaction, Mark, LockData, TakeFile, LockFile, UnlockFile,
       UnlockData
  <2>3. UNCHANGED <<data, file, committed, txOwner, text>>
    BY <1>5 DEF Transaction, Mark, LockData, TakeFile, LockFile, UnlockFile,
       UnlockData, store
  <2> QED
    BY <1>0, <2>1, <2>2, <2>3, StutterStep
<1> QED
  BY <1>1, <1>2, <1>3, <1>4, <1>5

\* Every step is one of the atomic store, or none.
LEMMA StepRefines ==
  RefInv /\ RefInv' /\ [Next]_vars => [Abstract!Next]_(Abstract!vars)
<1> SUFFICES ASSUME RefInv, RefInv', [Next]_vars
             PROVE  Abstract!Next \/ UNCHANGED Abstract!vars
  OBVIOUS
<1>0. Discipline
  BY DisciplineHolds DEF RefInv
<1>1. CASE UNCHANGED vars
  BY <1>1 DEF vars, store, shared, Pending, Abstract!vars
<1>2. ASSUME Die PROVE Abstract!Next
  <2>1. Pending' = {} /\ txOwner' = Free
    BY <1>2 DEF Die, Quiet, Pending
  <2>2. Abstract!Empty = Empty
    BY DEF Empty, Abstract!Empty
  <2>3. Abstract!Restart
    BY <1>2, <2>1, <2>2 DEF Die, Abstract!Restart
  <2> QED
    BY <2>3 DEF Abstract!Next
<1>3. ASSUME NEW t \in Threads, Call(t) PROVE UNCHANGED Abstract!vars
  <2>1. \E place \in Places : pc' = [pc EXCEPT ![t] = place] /\ place # "flush"
    BY <1>3 DEF Call, Enter, Entry
  <2>2. pc[t] # "flush" /\ UNCHANGED <<data, file, committed, txOwner, text>>
    BY <1>3 DEF Call, store, shared
  <2>3. pc'[t] # "flush"
    BY <1>0, <2>1 DEF Discipline
  <2> QED
    BY <1>0, <2>1, <2>2, <2>3, StutterStep
<1> QED
  BY <1>1, <1>2, <1>3, PhaseRefines, TransactionRefines
     DEF Next, Step, Crash, Terminate

\* The store with its mutexes implements the atomic one: whatever the threads
\* do and wherever the process dies, calls and transactions take effect one at
\* a time, and the file is never anything but torn or the rows of one moment
\* that were committed.
THEOREM StoreIsAtomic == Spec => ImplementsAtomicTable
<1> QED
  BY AbstractInit, StepRefines, RefInvariance, PTL
     DEF Spec, ImplementsAtomicTable, Abstract!Spec
=============================================================================
