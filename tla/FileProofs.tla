---------------------------- MODULE FileProofs ------------------------------
(***************************************************************************)
(* What two components that keep files owe their callers: the LOCK file of *)
(* env_posix.cc and the value log of SepDB.                                *)
(***************************************************************************)
EXTENDS FileLocks, SepDB, FiniteSetTheorems, SequenceTheorems, TLAPS

-----------------------------------------------------------------------------
(***************************************************************************)
(* One holder of the LOCK file per process, for any processes, threads and *)
(* number of calls.  OneHolderPerProcess is not inductive: a thread about  *)
(* to call fcntl will hold the lock next, and nothing in it says that only *)
(* one thread is.  What the table guards is the whole stretch from the     *)
(* Insert that found the file absent to the Remove that takes it out.      *)
(***************************************************************************)

(* Where a thread is between its Insert into locked_files_ and its Remove *)
Guarded == {"setlk", "refused", "remove", "held", "unremove"}

LockTypeOK ==
    /\ lkTable \in [LockProcs -> BOOLEAN]
    /\ lkPc \in [LockProcs -> [LockThreads -> Guarded \cup {"idle", "insert", "close"}]]

(* The table has the file while a thread is in the guarded stretch, and no *)
(* second thread of the process is.                                        *)
LockInvariant ==
    /\ LockTypeOK
    /\ \A p \in LockProcs, t \in LockThreads :
         lkPc[p][t] \in Guarded =>
           /\ lkTable[p]
           /\ \A u \in LockThreads : lkPc[p][u] \in Guarded => u = t

(* What a step that moves thread t of process p to pc does to the others. *)
LEMMA GotoMoves ==
  ASSUME LockTypeOK, NEW p \in LockProcs, NEW t \in LockThreads, NEW pc, Goto(p, t, pc)
  PROVE  \A q \in LockProcs, u \in LockThreads :
           lkPc'[q][u] = IF q = p /\ u = t THEN pc ELSE lkPc[q][u]
  BY Zenon DEF LockTypeOK, Goto

LEMMA LockStart == lkInit => LockInvariant
  BY DEF lkInit, LockInvariant, LockTypeOK, Guarded

LEMMA LockStep == LockInvariant /\ [lkNext]_lkVars => LockInvariant'
<1> SUFFICES ASSUME LockInvariant, [lkNext]_lkVars PROVE LockInvariant'
  OBVIOUS
<1> USE DEF LockInvariant
<1>1. ASSUME NEW p \in LockProcs, ProcessEnds(p) PROVE LockInvariant'
  BY <1>1, Zenon DEF ProcessEnds, LockTypeOK, Guarded
<1>2. ASSUME NEW p \in LockProcs, NEW t \in LockThreads, LockFileOpens(p, t) PROVE LockInvariant'
  <2>1. LockTypeOK'
    BY <1>2, Zenon DEF LockFileOpens, Goto, LockTypeOK, Guarded
  <2> QED
    BY <1>2, <2>1, GotoMoves DEF LockFileOpens, Guarded
<1>3. ASSUME NEW p \in LockProcs, NEW t \in LockThreads, LockFileInserts(p, t) PROVE LockInvariant'
  <2>1. LockTypeOK'
    BY <1>3, Zenon DEF LockFileInserts, Goto, LockTypeOK, Guarded
  <2>2. CASE lkTable[p]
    BY <1>3, <2>1, <2>2, GotoMoves DEF LockFileInserts, Guarded, LockTypeOK
  <2>3. CASE ~lkTable[p]
    BY <1>3, <2>1, <2>3, GotoMoves DEF LockFileInserts, Guarded, LockTypeOK
  <2> QED
    BY <2>2, <2>3, Zenon
<1>4. ASSUME NEW p \in LockProcs, NEW t \in LockThreads, LockFileCloses(p, t) PROVE LockInvariant'
  <2>1. LockTypeOK'
    BY <1>4, Zenon DEF LockFileCloses, Goto, LockTypeOK, Guarded
  <2> QED
    BY <1>4, <2>1, GotoMoves DEF LockFileCloses, Guarded
<1>5. ASSUME NEW p \in LockProcs, NEW t \in LockThreads, LockFileSetsLock(p, t) PROVE LockInvariant'
  <2>1. LockTypeOK'
    BY <1>5, Zenon DEF LockFileSetsLock, Goto, LockTypeOK, Guarded
  <2> QED
    BY <1>5, <2>1, GotoMoves DEF LockFileSetsLock, Guarded
<1>6. ASSUME NEW p \in LockProcs, NEW t \in LockThreads, LockFileRefused(p, t) PROVE LockInvariant'
  <2>1. LockTypeOK'
    BY <1>6, Zenon DEF LockFileRefused, Goto, LockTypeOK, Guarded
  <2> QED
    BY <1>6, <2>1, GotoMoves DEF LockFileRefused, Guarded
<1>7. ASSUME NEW p \in LockProcs, NEW t \in LockThreads, LockFileRemoves(p, t) PROVE LockInvariant'
  <2>1. LockTypeOK'
    BY <1>7, Zenon DEF LockFileRemoves, Goto, LockTypeOK, Guarded
  <2> QED
    BY <1>7, <2>1, GotoMoves DEF LockFileRemoves, Guarded, LockTypeOK
<1>8. ASSUME NEW p \in LockProcs, NEW t \in LockThreads, UnlockFileUnlocks(p, t) PROVE LockInvariant'
  <2>1. LockTypeOK'
    BY <1>8, Zenon DEF UnlockFileUnlocks, Goto, LockTypeOK, Guarded
  <2> QED
    BY <1>8, <2>1, GotoMoves DEF UnlockFileUnlocks, Guarded
<1>9. ASSUME NEW p \in LockProcs, NEW t \in LockThreads, UnlockFileRemoves(p, t) PROVE LockInvariant'
  <2>1. LockTypeOK'
    BY <1>9, Zenon DEF UnlockFileRemoves, Goto, LockTypeOK, Guarded
  <2> QED
    BY <1>9, <2>1, GotoMoves DEF UnlockFileRemoves, Guarded, LockTypeOK
<1>10. CASE UNCHANGED lkVars
  BY <1>10, Zenon DEF lkVars, LockTypeOK
<1> QED
  BY <1>1, <1>2, <1>3, <1>4, <1>5, <1>6, <1>7, <1>8, <1>9, <1>10, Zenon DEF lkNext

(* The guarded stretch contains "held". *)
LEMMA LockInvariantImplies == LockInvariant => OneHolderPerProcess
<1> SUFFICES ASSUME LockInvariant, NEW p \in LockProcs
             PROVE  Cardinality(Holders(p)) <= 1 /\ (Holders(p) # {} => lkTable[p])
  BY Zenon DEF OneHolderPerProcess
<1>1. CASE Holders(p) = {}
  BY <1>1, FS_EmptySet
<1>2. CASE Holders(p) # {}
  <2>1. PICK t \in LockThreads : lkPc[p][t] = "held"
    BY <1>2, Zenon DEF Holders
  <2>2. Holders(p) = {t} /\ lkTable[p]
    BY <2>1, Zenon DEF LockInvariant, Holders, Guarded
  <2>3. Cardinality({t}) = 1
    BY FS_Singleton, Zenon
  <2> QED
    BY <2>2, <2>3
<1> QED
  BY <1>1, <1>2, Zenon

(* LockFile gives the lock of a process to one caller at a time, and the   *)
(* table has the file while it is held, for every number of processes and  *)
(* threads.                                                                *)
THEOREM OneHolder == lkSpec => []OneHolderPerProcess
<1>1. LockInvariant /\ [lkNext]_lkVars => LockInvariant'
  BY LockStep, Zenon
<1>2. lkSpec => []LockInvariant
  BY LockStart, <1>1, PTL DEF lkSpec
<1> QED
  BY <1>2, LockInvariantImplies, PTL

-----------------------------------------------------------------------------
(***************************************************************************)
(* The index of SepDB finds the values, for any keys, sizes, record header *)
(* and number of calls and crashes.  IndexFindsValue speaks of whole       *)
(* values; the induction needs the bytes, their place within the log, and  *)
(* that what a crash keeps is never longer than the log.                   *)
(***************************************************************************)

SepTypeOK ==
    /\ sepLog \in Seq(Nat \X Nat) /\ sepFlushed \in 0 .. Len(sepLog)
    /\ sepIndex \in [SepKeys -> [offset : Int, size : Nat]]
    /\ sepWant \in [SepKeys -> [put : Nat, size : Nat]]
    /\ sepPuts \in Nat /\ sepLost \subseteq SepKeys

(* The entry e of the index leads to the bytes of the put that is wanted. *)
Locates(log, e, w) ==
    /\ e.offset + e.size <= Len(log)
    /\ \A i \in 1 .. e.size : log[e.offset + i] = <<w.put, SepHeader + i>>

KeyOK(k) ==
    \/ sepIndex[k] = NoEntry /\ sepWant[k] = NoPut
    \/ /\ sepIndex[k].offset >= 0 /\ sepWant[k].put > 0
       /\ sepWant[k].size = sepIndex[k].size
       /\ k \notin sepLost => Locates(sepLog, sepIndex[k], sepWant[k])

SepInvariant == SepTypeOK /\ \A k \in SepKeys : KeyOK(k)

LEMMA Within == \A o, n, m \in Nat : o + n <= m => \A i \in 1 .. n : o + i \in 1 .. m
  OBVIOUS

(* Appending to the log moves nothing that was there. *)
LEMMA FoundAfterAppend ==
  ASSUME NEW log \in Seq(Nat \X Nat), NEW more \in Seq(Nat \X Nat),
         NEW e \in [offset : Int, size : Nat], NEW w, e.offset >= 0, Locates(log, e, w)
  PROVE  Locates(log \o more, e, w)
<1> DEFINE all == log \o more
<1>1. Len(all) = Len(log) + Len(more) /\ \A i \in 1 .. Len(log) : all[i] = log[i]
  BY ConcatProperties
<1>2. e.offset \in Nat /\ e.size \in Nat /\ Len(log) \in Nat /\ Len(more) \in Nat
  OBVIOUS
<1>3. e.offset + e.size <= Len(log)
  BY Zenon DEF Locates
<1>4. \A i \in 1 .. e.size : log[e.offset + i] = <<w.put, SepHeader + i>>
  BY Zenon DEF Locates
<1> HIDE DEF all
<1>5. e.offset + e.size <= Len(all)
  BY <1>1, <1>2, <1>3
<1>6. ASSUME NEW i \in 1 .. e.size PROVE all[e.offset + i] = <<w.put, SepHeader + i>>
  <2>1. e.offset + i \in 1 .. Len(log)
    BY <1>2, <1>3, Within, Zenon
  <2> QED
    BY <1>1, <1>4, <2>1, Zenon
<1>7. Locates(all, e, w)
  BY <1>5, <1>6, Zenon DEF Locates
<1> QED
  BY <1>7, Zenon DEF all

(* Cutting the log off after n bytes keeps what ends there. *)
LEMMA FoundAfterCut ==
  ASSUME NEW log \in Seq(Nat \X Nat), NEW n \in 0 .. Len(log),
         NEW e \in [offset : Int, size : Nat], NEW w, e.offset >= 0,
         e.offset + e.size <= n, Locates(log, e, w)
  PROVE  Locates(SubSeq(log, 1, n), e, w)
<1>1. \A i \in 1 .. n : log[i] \in Nat \X Nat
  OBVIOUS
<1>2. Len(SubSeq(log, 1, n)) = n /\ \A i \in 1 .. n : SubSeq(log, 1, n)[i] = log[i]
  BY <1>1, SubSeqProperties
<1> DEFINE cut == SubSeq(log, 1, n)
<1>0. e.offset \in Nat /\ e.size \in Nat /\ n \in Nat
  OBVIOUS
<1>3. e.offset + e.size <= Len(cut)
  BY <1>2, Zenon
<1>4. \A i \in 1 .. e.size : log[e.offset + i] = <<w.put, SepHeader + i>>
  BY Zenon DEF Locates
<1>5. ASSUME NEW i \in 1 .. e.size PROVE cut[e.offset + i] = <<w.put, SepHeader + i>>
  <2>1. e.offset + i \in 1 .. n
    BY <1>0, Within, Zenon
  <2> QED
    BY <1>2, <1>4, <2>1, Zenon
<1>6. Locates(cut, e, w)
  <2> HIDE DEF cut
  <2> QED
    BY <1>3, <1>5, Zenon DEF Locates
<1> QED
  BY <1>6, Zenon

LEMMA SepStart == sepInit => SepInvariant
  BY EmptySeq DEF sepInit, SepInvariant, SepTypeOK, KeyOK, NoEntry, NoPut

(* Put, with the offset from ftell, leads to the value it wrote. *)
LEMMA PutStep ==
  ASSUME SepInvariant, NEW k \in SepKeys, NEW s \in SepSizes, SepPut(k, s)
  PROVE  SepInvariant'
<1> DEFINE record == [i \in 1 .. SepHeader + s |-> <<sepPuts + 1, i>>]
           e == [offset |-> Len(sepLog) + SepHeader, size |-> s]
           w == [put |-> sepPuts + 1, size |-> s]
<1>1. s \in Nat /\ SepHeader \in Nat /\ SepHeader > 0
  BY SepAssumption
<1>2. record \in Seq(Nat \X Nat) /\ Len(record) = SepHeader + s
  <2>1. \A i \in 1 .. SepHeader + s : <<sepPuts + 1, i>> \in Nat \X Nat
    BY <1>1 DEF SepInvariant, SepTypeOK
  <2>2. record \in Seq(Nat \X Nat)
    BY <1>1, <2>1, IsASeq
  <2> QED
    BY <1>1, <2>2, LenProperties
<1>3. /\ sepLog \o record \in Seq(Nat \X Nat)
      /\ Len(sepLog \o record) = Len(sepLog) + SepHeader + s
      /\ \A i \in 1 .. s : (sepLog \o record)[Len(sepLog) + SepHeader + i] = record[SepHeader + i]
  <2> DEFINE all == sepLog \o record
  <2>1. sepLog \in Seq(Nat \X Nat) /\ Len(sepLog) \in Nat
    BY DEF SepInvariant, SepTypeOK
  <2> HIDE DEF record
  <2>2. /\ all \in Seq(Nat \X Nat) /\ Len(all) = Len(sepLog) + Len(record)
        /\ \A i \in 1 .. Len(sepLog) + Len(record) :
             all[i] = IF i <= Len(sepLog) THEN sepLog[i] ELSE record[i - Len(sepLog)]
    BY <1>2, <2>1, ConcatProperties, Zenon
  <2> HIDE DEF all
  <2>3. ASSUME NEW i \in 1 .. s PROVE all[Len(sepLog) + SepHeader + i] = record[SepHeader + i]
    <3> DEFINE j == Len(sepLog) + SepHeader + i
    <3>1. j \in 1 .. Len(sepLog) + Len(record) /\ ~(j <= Len(sepLog)) /\ j - Len(sepLog) = SepHeader + i
      BY <1>1, <1>2, <2>1
    <3>2. all[j] = record[SepHeader + i]
      <4> HIDE DEF j
      <4>1. all[j] = IF j <= Len(sepLog) THEN sepLog[j] ELSE record[j - Len(sepLog)]
        BY <2>2, <3>1, Zenon
      <4>2. all[j] = record[j - Len(sepLog)]
        BY <3>1, <4>1, Zenon
      <4> QED
        BY <3>1, <4>2, Zenon
    <3> QED
      BY <3>2, Zenon
  <2>4. Len(all) = Len(sepLog) + SepHeader + s
    BY <1>1, <1>2, <2>1, <2>2
  <2> QED
    BY <2>2, <2>3, <2>4, Zenon DEF all
<1>4. /\ sepLog' = sepLog \o record
      /\ sepFlushed' \in {sepFlushed, Len(sepLog) + 1, Len(sepLog \o record)}
      /\ sepIndex' = [sepIndex EXCEPT ![k] = [offset |-> Len(sepLog \o record) - s, size |-> s]]
      /\ sepWant' = [sepWant EXCEPT ![k] = w]
      /\ sepLost' = sepLost \ {k} /\ sepPuts' = sepPuts + 1
  BY Zenon DEF SepPut, ValueOffset
<1>5. sepIndex' = [sepIndex EXCEPT ![k] = e]
  <2> HIDE DEF record
  <2>1. Len(sepLog \o record) - s = Len(sepLog) + SepHeader
    BY <1>1, <1>3 DEF SepInvariant, SepTypeOK
  <2> QED
    BY <1>4, <2>1, Zenon
<1>6. Locates(sepLog \o record, e, w)
  <2>1. \A i \in 1 .. s : (sepLog \o record)[Len(sepLog) + SepHeader + i] = <<sepPuts + 1, SepHeader + i>>
    <3>1. \A i \in 1 .. s : record[SepHeader + i] = <<sepPuts + 1, SepHeader + i>>
      BY <1>1
    <3> HIDE DEF record
    <3> QED
      BY <1>3, <3>1, Zenon
  <2>2. /\ e.offset = Len(sepLog) + SepHeader /\ e.size = s
        /\ w.put = sepPuts + 1 /\ Len(sepLog) \in Nat
    BY DEF SepInvariant, SepTypeOK
  <2> DEFINE all == sepLog \o record
  <2>3. e.offset + e.size <= Len(all)
    <3> HIDE DEF record, all
    <3>1. Len(all) = Len(sepLog) + SepHeader + s
      BY <1>3, Zenon DEF all
    <3> QED
      BY <1>1, <2>2, <3>1
  <2>4. \A i \in 1 .. e.size : all[e.offset + i] = <<w.put, SepHeader + i>>
    BY <2>1, <2>2, Zenon
  <2> HIDE DEF all, e, w
  <2>5. Locates(all, e, w)
    BY <2>3, <2>4, Zenon DEF Locates
  <2> QED
    BY <2>5, Zenon DEF all
<1>7. SepTypeOK'
  <2> DEFINE all == sepLog \o record
  <2>1. all \in Seq(Nat \X Nat) /\ Len(all) = Len(sepLog) + SepHeader + s
    BY <1>3, Zenon
  <2>2. sepLog' = all /\ sepFlushed' \in {sepFlushed, Len(sepLog) + 1, Len(all)}
    BY <1>4, Zenon
  <2> HIDE DEF record, all
  <2>3. sepFlushed \in 0 .. Len(sepLog) /\ Len(sepLog) \in Nat
    BY DEF SepInvariant, SepTypeOK
  <2>4. sepFlushed' \in 0 .. Len(sepLog')
    BY <1>1, <2>1, <2>2, <2>3, SMTT(60)
  <2>5. sepIndex' \in [SepKeys -> [offset : Int, size : Nat]]
    BY <1>1, <1>5, <2>3 DEF SepInvariant, SepTypeOK
  <2>6. sepWant' \in [SepKeys -> [put : Nat, size : Nat]] /\ sepPuts' \in Nat /\ sepLost' \subseteq SepKeys
    BY <1>1, <1>4 DEF SepInvariant, SepTypeOK
  <2> QED
    BY <2>1, <2>2, <2>4, <2>5, <2>6, Zenon DEF SepTypeOK
<1>8. ASSUME NEW j \in SepKeys PROVE KeyOK(j)'
  <2> HIDE DEF record
  <2>1. CASE j = k
    BY <2>1, <1>1, <1>4, <1>5, <1>6 DEF SepInvariant, SepTypeOK, KeyOK
  <2>2. CASE j # k
    <3>1. sepIndex'[j] = sepIndex[j] /\ sepWant'[j] = sepWant[j] /\ (j \in sepLost' <=> j \in sepLost)
      BY <2>2, <1>4, <1>5, Zenon DEF SepInvariant, SepTypeOK
    <3>2. sepIndex[j] \in [offset : Int, size : Nat]
      BY Zenon DEF SepInvariant, SepTypeOK
    <3>3. KeyOK(j)
      BY Zenon DEF SepInvariant
    <3>4. CASE sepIndex[j] = NoEntry /\ sepWant[j] = NoPut
      BY <3>1, <3>4, Zenon DEF KeyOK
    <3>5. CASE ~(sepIndex[j] = NoEntry /\ sepWant[j] = NoPut)
      <4>1. j \notin sepLost => Locates(sepLog \o record, sepIndex[j], sepWant[j])
        BY <1>2, <3>2, <3>3, <3>5, FoundAfterAppend, Zenon DEF KeyOK, SepInvariant, SepTypeOK
      <4> QED
        BY <1>4, <3>1, <3>3, <3>5, <4>1, Zenon DEF KeyOK
    <3> QED
      BY <3>4, <3>5, Zenon
  <2> QED
    BY <2>1, <2>2, Zenon
<1> QED
  BY <1>7, <1>8, Zenon DEF SepInvariant

LEMMA CrashStep ==
  ASSUME SepInvariant, ProcessCrashes
  PROVE  SepInvariant'
<1>1. /\ SubSeq(sepLog, 1, sepFlushed) \in Seq(Nat \X Nat)
      /\ Len(SubSeq(sepLog, 1, sepFlushed)) = sepFlushed
  <2>1. \A i \in 1 .. sepFlushed : sepLog[i] \in Nat \X Nat
    BY DEF SepInvariant, SepTypeOK
  <2>2. sepFlushed \in Nat
    BY DEF SepInvariant, SepTypeOK
  <2> QED
    BY <2>1, <2>2, SubSeqProperties
<1>2. SepTypeOK'
  BY <1>1 DEF SepInvariant, SepTypeOK, ProcessCrashes
<1>3. ASSUME NEW k \in SepKeys PROVE KeyOK(k)'
  <2>1. KeyOK(k) /\ sepIndex[k] \in [offset : Int, size : Nat] /\ sepFlushed \in 0 .. Len(sepLog)
        /\ sepLog \in Seq(Nat \X Nat)
    BY Zenon DEF SepInvariant, SepTypeOK
  <2>2. sepIndex'[k] = sepIndex[k] /\ sepWant'[k] = sepWant[k]
    BY Zenon DEF ProcessCrashes
  <2>3. CASE sepIndex[k] = NoEntry /\ sepWant[k] = NoPut
    BY <2>2, <2>3, Zenon DEF KeyOK
  <2>4. CASE ~(sepIndex[k] = NoEntry /\ sepWant[k] = NoPut)
    <3>1. sepIndex[k].offset >= 0 /\ sepIndex[k] # NoEntry
      BY <2>1, <2>4 DEF KeyOK, NoEntry
    <3>2. k \notin sepLost' => k \notin sepLost /\ sepIndex[k].offset + sepIndex[k].size <= sepFlushed
      BY <2>1, <3>1 DEF ProcessCrashes
    <3>3. k \notin sepLost' => Locates(SubSeq(sepLog, 1, sepFlushed), sepIndex[k], sepWant[k])
      BY <2>1, <2>4, <3>1, <3>2, FoundAfterCut, Zenon DEF KeyOK
    <3> QED
      BY <2>1, <2>2, <2>4, <3>3, Zenon DEF KeyOK, ProcessCrashes
  <2> QED
    BY <2>3, <2>4, Zenon
<1> QED
  BY <1>2, <1>3, Zenon DEF SepInvariant

LEMMA SepStep == SepInvariant /\ [sepNext]_sepVars => SepInvariant'
<1> SUFFICES ASSUME SepInvariant, [sepNext]_sepVars PROVE SepInvariant'
  OBVIOUS
<1>1. ASSUME NEW k \in SepKeys, SepGet(k) PROVE SepInvariant'
  BY <1>1 DEF SepGet, SepInvariant, SepTypeOK, KeyOK
<1>2. ASSUME NEW k \in SepKeys, SepDelete(k) PROVE SepInvariant'
  BY <1>2 DEF SepDelete, SepInvariant, SepTypeOK, KeyOK, NoEntry, NoPut
<1>3. CASE BindingExits
  BY <1>3 DEF BindingExits, SepInvariant, SepTypeOK, KeyOK
<1>4. CASE SepOpen
  BY <1>4, Zenon DEF SepOpen, SepInvariant, SepTypeOK, KeyOK
<1>5. CASE UNCHANGED sepVars
  BY <1>5, Zenon DEF sepVars, SepInvariant, SepTypeOK, KeyOK
<1> QED
  BY PutStep, CrashStep, <1>1, <1>2, <1>3, <1>4, <1>5, Zenon DEF sepNext

LEMMA SepInvariantImplies == SepInvariant => IndexFindsValue
<1> SUFFICES ASSUME SepInvariant, NEW k \in SepKeys
             PROVE  /\ (sepIndex[k] = NoEntry) = (sepWant[k] = NoPut)
                    /\ sepIndex[k] # NoEntry /\ k \notin sepLost =>
                         ValueRead(k) = [i \in 1 .. sepWant[k].size |-> <<sepWant[k].put, SepHeader + i>>]
  BY Zenon DEF IndexFindsValue
<1>1. KeyOK(k) /\ sepIndex[k] \in [offset : Int, size : Nat] /\ sepLog \in Seq(Nat \X Nat)
  BY Zenon DEF SepInvariant, SepTypeOK
<1>2. (sepIndex[k] = NoEntry) = (sepWant[k] = NoPut)
  BY <1>1 DEF KeyOK, NoEntry, NoPut
<1>3. ASSUME sepIndex[k] # NoEntry, k \notin sepLost
      PROVE  ValueRead(k) = [i \in 1 .. sepWant[k].size |-> <<sepWant[k].put, SepHeader + i>>]
  <2> DEFINE o == sepIndex[k].offset
             n == sepIndex[k].size
             v == [i \in 1 .. n |-> <<sepWant[k].put, SepHeader + i>>]
  <2>1. o \in Nat /\ n \in Nat /\ sepWant[k].size = n /\ o + n <= Len(sepLog)
        /\ \A i \in 1 .. n : sepLog[o + i] = <<sepWant[k].put, SepHeader + i>>
    <3>1. o >= 0 /\ sepWant[k].size = n /\ Locates(sepLog, sepIndex[k], sepWant[k])
      BY <1>1, <1>3, Zenon DEF KeyOK
    <3>2. o \in Nat /\ n \in Nat
      BY <1>1, <3>1
    <3> QED
      BY <3>1, <3>2, Zenon DEF Locates
  <2>2. \A i \in o + 1 .. o + n : sepLog[i] \in Nat \X Nat
    <3>1. sepLog \in Seq(Nat \X Nat) /\ \A i \in o + 1 .. o + n : i \in 1 .. Len(sepLog)
      BY <1>1, <2>1
    <3> QED
      BY <3>1
  <2>3. /\ ValueRead(k) \in Seq(Nat \X Nat) /\ Len(ValueRead(k)) = n
        /\ \A i \in 1 .. n : ValueRead(k)[i] = sepLog[o + i]
    <3>1. ValueRead(k) = SubSeq(sepLog, o + 1, o + n)
      BY Zenon DEF ValueRead
    <3> HIDE DEF o, n
    <3> QED
      BY <2>1, <2>2, <3>1, SubSeqProperties
  <2>4. ValueRead(k) = [i \in 1 .. n |-> ValueRead(k)[i]]
    BY <2>3, LenProperties, Zenon
  <2> QED
    BY <2>1, <2>3, <2>4, Zenon
<1> QED
  BY <1>2, <1>3, Zenon

(* Every key whose last record was not cut off by a crash reads back as    *)
(* the value of its last Put, for every number of keys, puts and crashes.  *)
THEOREM IndexFinds == sepSpec => []IndexFindsValue
<1>1. SepInvariant /\ [sepNext]_sepVars => SepInvariant'
  BY SepStep, Zenon
<1>2. sepSpec => []SepInvariant
  BY SepStart, <1>1, PTL DEF sepSpec
<1> QED
  BY <1>2, SepInvariantImplies, PTL

=============================================================================
