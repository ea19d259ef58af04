----------------------------- MODULE FileLocks ------------------------------
(***************************************************************************)
(* The LOCK file of a database (LockFile, UnlockFile and PosixLockTable of *)
(* util/env_posix.cc).  Each process keeps a table of the files it has     *)
(* locked; between processes the lock is an fcntl lock, which the kernel   *)
(* takes from a process when the process closes ANY descriptor of that     *)
(* file.  A step is one call on the table or one system call.              *)
(***************************************************************************)
EXTENDS Integers, FiniteSets

CONSTANTS
    LockProcs,   \* processes that open the database
    LockThreads, \* threads of a process that may call DB::Open
    MaxLockCalls \* bound on the calls of LockFile

VARIABLES
    lkTable, \* per process: whether locked_files_ has the LOCK file
    lkOs,    \* the process the kernel's lock belongs to, or 0
    lkPc,    \* per process and thread: where it is in LockFile or UnlockFile
    lkCalls
lkVars == <<lkTable, lkOs, lkPc, lkCalls>>

lkInit ==
    /\ lkTable = [p \in LockProcs |-> FALSE]
    /\ lkOs = 0
    /\ lkPc = [p \in LockProcs |-> [t \in LockThreads |-> "idle"]]
    /\ lkCalls = 0

Goto(p, t, pc) == lkPc' = [lkPc EXCEPT ![p][t] = pc]

\* External: what close() does to the fcntl lock of the calling process
ReleasedByClose(p) == IF lkOs = p THEN 0 ELSE lkOs

LockFileOpens(p, t) ==
    /\ lkPc[p][t] = "idle" /\ lkCalls < MaxLockCalls
    /\ lkCalls' = lkCalls + 1
    /\ Goto(p, t, "insert")
    /\ UNCHANGED <<lkTable, lkOs>>

MutantLockFileInserts(p, t) ==
    /\ lkPc[p][t] = "insert"
    /\ lkTable' = [lkTable EXCEPT ![p] = TRUE]
    /\ Goto(p, t, "setlk")
    /\ UNCHANGED <<lkOs, lkCalls>>

\* locks_.Insert
LockFileInserts(p, t) ==
    /\ lkPc[p][t] = "insert"
    /\ lkTable' = [lkTable EXCEPT ![p] = TRUE]
    /\ Goto(p, t, IF lkTable[p] THEN "close" ELSE "setlk")
    /\ UNCHANGED <<lkOs, lkCalls>>

\* "already held by process"
LockFileCloses(p, t) ==
    /\ lkPc[p][t] = "close"
    /\ lkOs' = ReleasedByClose(p)
    /\ Goto(p, t, "idle")
    /\ UNCHANGED <<lkTable, lkCalls>>

\* fcntl(F_SETLK) succeeds unless another process has the lock.
LockFileSetsLock(p, t) ==
    /\ lkPc[p][t] = "setlk"
    /\ lkOs' = IF lkOs = 0 THEN p ELSE lkOs
    /\ Goto(p, t, IF lkOs \in {0, p} THEN "held" ELSE "refused")
    /\ UNCHANGED <<lkTable, lkCalls>>

\* close(fd), then locks_.Remove(fname)
LockFileRefused(p, t) ==
    /\ lkPc[p][t] = "refused"
    /\ lkOs' = ReleasedByClose(p)
    /\ Goto(p, t, "remove")
    /\ UNCHANGED <<lkTable, lkCalls>>

LockFileRemoves(p, t) ==
    /\ lkPc[p][t] = "remove"
    /\ lkTable' = [lkTable EXCEPT ![p] = FALSE]
    /\ Goto(p, t, "idle")
    /\ UNCHANGED <<lkOs, lkCalls>>

\* UnlockFile: fcntl(F_UNLCK), locks_.Remove, close(fd_)
UnlockFileUnlocks(p, t) ==
    /\ lkPc[p][t] = "held"
    /\ lkOs' = ReleasedByClose(p)
    /\ Goto(p, t, "unremove")
    /\ UNCHANGED <<lkTable, lkCalls>>

UnlockFileRemoves(p, t) ==
    /\ lkPc[p][t] = "unremove"
    /\ lkTable' = [lkTable EXCEPT ![p] = FALSE]
    /\ Goto(p, t, "close")
    /\ UNCHANGED <<lkOs, lkCalls>>

\* External: the end of a process releases what it holds.
ProcessEnds(p) ==
    /\ lkTable' = [lkTable EXCEPT ![p] = FALSE]
    /\ lkOs' = ReleasedByClose(p)
    /\ lkPc' = [lkPc EXCEPT ![p] = [t \in LockThreads |-> "idle"]]
    /\ UNCHANGED lkCalls

lkNext ==
    \E p \in LockProcs :
        \/ ProcessEnds(p)
        \/ \E t \in LockThreads :
             \/ LockFileOpens(p, t) \/ LockFileInserts(p, t) \/ LockFileCloses(p, t)
             \/ LockFileSetsLock(p, t) \/ LockFileRefused(p, t) \/ LockFileRemoves(p, t)
             \/ UnlockFileUnlocks(p, t) \/ UnlockFileRemoves(p, t)

lkSpec == lkInit /\ [][lkNext]_lkVars

Holders(p) == {t \in LockThreads : lkPc[p][t] = "held"}

\* Within a process LockFile gives the lock to one caller at a time, and while
\* a caller holds it the table has the file, so that the process cannot lock
\* it again, whatever the other callers and processes do meanwhile.
OneHolderPerProcess ==
    \A p \in LockProcs : Cardinality(Holders(p)) <= 1 /\ (Holders(p) # {} => lkTable[p])
=============================================================================
